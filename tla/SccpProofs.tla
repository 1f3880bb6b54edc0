----------------------------- MODULE SccpProofs -----------------------------
(***************************************************************************)
(* Proofs about Sccp, for functions of any length, words of any width and  *)
(* any register contents; first the facts about flow graphs they need.     *)
(***************************************************************************)
EXTENDS Sccp, Facts, FiniteSetTheorems

-----------------------------------------------------------------------------
(* Flow graphs: blocks partition the function, a block ends where control  *)
(* can turn, and the edges of a block lead to blocks.                      *)

\* Addresses of the function, in order.
LEMMA AscendingValues ==
  ASSUME NEW p, Len(p) \in Nat, NEW S
  PROVE  /\ Ascending(p, S) \in Seq(Addrs(p))
         /\ Range(Ascending(p, S)) = Addrs(p) \cap S
<1> DEFINE all == [a \in Addrs(p) |-> a]
<1>1. all \in Seq(Addrs(p)) /\ Range(all) = Addrs(p)
  BY DEF Addrs, Range
<1> HIDE DEF all
<1>2. Ascending(p, S) = Keep(all, S)
  BY DEF Ascending, all
<1> QED BY <1>1, <1>2, KeepValues

-----------------------------------------------------------------------------
(* Blocks. *)

\* Block starts are addresses of the function, the entry among them, and so
\* is what follows an instruction that may turn, and every branch target.
LEMMA Starts ==
  ASSUME NEW p, Len(p) \in Nat, Len(p) # 0
  PROVE  /\ find_block_starts(p) \subseteq Addrs(p) /\ 1 \in find_block_starts(p)
         /\ \A a \in Addrs(p) : p[a].flow # "Normal" /\ a + 1 \in Addrs(p)
                                  => a + 1 \in find_block_starts(p)
         /\ \A a \in Addrs(p) : p[a].flow # "Call"
                                  => Addrs(p) \cap p[a].targets \subseteq find_block_starts(p)
<1>1. 1 \in Addrs(p)
  BY DEF Addrs
<1>2. collect_branch_targets(p) \subseteq Addrs(p)
  BY DEF collect_branch_targets, InFunction
<1>3. find_block_starts(p) \subseteq Addrs(p) /\ 1 \in find_block_starts(p)
  BY <1>1, <1>2 DEF find_block_starts, InFunction
<1>4. ASSUME NEW a \in Addrs(p), p[a].flow # "Normal", a + 1 \in Addrs(p)
      PROVE  a + 1 \in find_block_starts(p)
  BY <1>4 DEF find_block_starts, InFunction
<1>5. ASSUME NEW a \in Addrs(p), p[a].flow # "Call"
      PROVE  Addrs(p) \cap p[a].targets \subseteq find_block_starts(p)
  BY <1>5 DEF find_block_starts, collect_branch_targets, InFunction
<1> QED BY <1>3, <1>4, <1>5

\* A block ends at the next start, or with the function.
LEMMA Ends ==
  ASSUME NEW p, Len(p) \in Nat, Len(p) # 0, NEW b \in find_block_starts(p)
  PROVE  /\ BlockEnd(p, b) \in (b + 1)..(Len(p) + 1)
         /\ BlockEnd(p, b) <= Len(p) => BlockEnd(p, b) \in find_block_starts(p)
         /\ \A s \in find_block_starts(p) : s > b => s >= BlockEnd(p, b)
<1> DEFINE S == {s \in find_block_starts(p) : s > b} \cup {Len(p) + 1}
<1>1. b \in 1..Len(p) /\ \A s \in find_block_starts(p) : s \in 1..Len(p)
  BY Starts DEF Addrs
<1>2. S \in SUBSET Nat /\ S # {} /\ \A s \in S : s \in (b + 1)..(Len(p) + 1)
  <2>1. \A s \in S : s \in (b + 1)..(Len(p) + 1)
    BY <1>1
  <2>2. Len(p) + 1 \in S
    OBVIOUS
  <2> HIDE DEF S
  <2> QED BY <1>1, <2>1, <2>2
<1>3. \E x \in S : \A y \in S : x <= y
  <2> HIDE DEF S
  <2> QED BY <1>2, LeastExists
<1>4. BlockEnd(p, b) \in S /\ \A y \in S : BlockEnd(p, b) <= y
  <2> DEFINE m == BlockEnd(p, b)
  <2>1. m = CHOOSE x \in S : \A y \in S : x =< y
    BY DEF BlockEnd, Min
  <2> HIDE DEF S, m
  <2> QED BY <1>3, <2>1 DEF m
<1> HIDE DEF S
<1>5. BlockEnd(p, b) \in (b + 1)..(Len(p) + 1)
  BY <1>2, <1>4
<1>6. \A s \in find_block_starts(p) : s > b => s >= BlockEnd(p, b)
  <2> SUFFICES ASSUME NEW s \in find_block_starts(p), s > b
               PROVE  s >= BlockEnd(p, b)
    OBVIOUS
  <2>1. s \in S
    BY DEF S
  <2>2. s \in Nat /\ BlockEnd(p, b) \in Int /\ BlockEnd(p, b) <= s
    BY <1>1, <1>2, <1>4, <1>5, <2>1
  <2> QED BY <2>2
<1>7. BlockEnd(p, b) <= Len(p) => BlockEnd(p, b) \in find_block_starts(p)
  <2>1. \A x \in S : x = Len(p) + 1 \/ x \in find_block_starts(p)
    BY DEF S
  <2> QED BY <1>4, <1>5, <2>1
<1> QED BY <1>5, <1>6, <1>7

\* Every address is in exactly one block, the one with the last start before.
LEMMA BlockOf ==
  ASSUME NEW p, Len(p) \in Nat, Len(p) # 0, NEW a \in Addrs(p)
  PROVE  LET b == Max({s \in find_block_starts(p) : s <= a})
         IN /\ b \in find_block_starts(p) /\ b <= a /\ a < BlockEnd(p, b)
            /\ \A c \in find_block_starts(p) : c <= a /\ a < BlockEnd(p, c) => c = b
<1> DEFINE S == {s \in find_block_starts(p) : s <= a}
           b == Max(S)
<1>1. a \in 1..Len(p) /\ 1 \in find_block_starts(p)
      /\ \A s \in find_block_starts(p) : s \in 1..Len(p)
  BY Starts DEF Addrs
<1>2. S \in SUBSET (0..a) /\ S # {} /\ a \in Nat
  BY <1>1
<1>3. \E x \in S : \A y \in S : x >= y
  <2> HIDE DEF S
  <2> QED BY <1>2, GreatestExists
<1>4. b \in S /\ \A y \in S : b >= y
  <2>1. b = CHOOSE x \in S : \A y \in S : x >= y
    BY DEF Max
  <2> HIDE DEF S, b
  <2> QED BY <1>3, <2>1
<1>5. b \in find_block_starts(p) /\ b <= a /\ b \in 1..Len(p)
  BY <1>1, <1>4
<1>6. \A s \in find_block_starts(p) : s <= a => b >= s
  BY <1>4
<1> HIDE DEF b
<1>7. a < BlockEnd(p, b)
  <2>1. /\ BlockEnd(p, b) \in (b + 1)..(Len(p) + 1)
        /\ BlockEnd(p, b) <= Len(p) => BlockEnd(p, b) \in find_block_starts(p)
    BY <1>5, Ends
  <2>2. CASE BlockEnd(p, b) <= Len(p)
    BY <1>1, <1>5, <1>6, <2>1, <2>2
  <2>3. CASE BlockEnd(p, b) = Len(p) + 1
    BY <1>1, <2>3
  <2> QED BY <2>1, <2>2, <2>3
<1>8. ASSUME NEW c \in find_block_starts(p), c <= a, a < BlockEnd(p, c)
      PROVE  c = b
  <2>1. c \in 1..Len(p) /\ b >= c
    BY <1>1, <1>6, <1>8
  <2>2. BlockEnd(p, c) \in (c + 1)..(Len(p) + 1) /\ (b > c => b >= BlockEnd(p, c))
    BY <1>5, Ends
  <2> QED BY <1>1, <1>5, <1>8, <2>1, <2>2
<1> QED BY <1>5, <1>7, <1>8 DEF b

\* A block ends at the first instruction that may turn, or before a start.
LEMMA BlockLast ==
  ASSUME NEW p, Len(p) \in Nat, Len(p) # 0, NEW b \in find_block_starts(p),
         NEW a \in Addrs(p), b <= a, a < BlockEnd(p, b)
  PROVE  /\ p[a].flow # "Normal" => BlockEnd(p, b) = a + 1
         /\ a + 1 \in find_block_starts(p) => BlockEnd(p, b) = a + 1
         /\ BlockEnd(p, b) # a + 1 => a + 1 \in Addrs(p) /\ a + 1 < BlockEnd(p, b)
<1>1. a \in 1..Len(p) /\ b \in 1..Len(p)
  BY Starts DEF Addrs
<1>2. /\ BlockEnd(p, b) \in (b + 1)..(Len(p) + 1)
      /\ \A s \in find_block_starts(p) : s > b => s >= BlockEnd(p, b)
  BY Ends
<1>3. a + 1 \in find_block_starts(p) => BlockEnd(p, b) = a + 1
  BY <1>1, <1>2
<1>4. BlockEnd(p, b) # a + 1 => a + 1 \in Addrs(p) /\ a + 1 < BlockEnd(p, b)
  BY <1>1, <1>2 DEF Addrs
<1>5. p[a].flow # "Normal" => BlockEnd(p, b) = a + 1
  BY <1>3, <1>4, Starts
<1> QED BY <1>3, <1>4, <1>5

-----------------------------------------------------------------------------
(* Edges. *)

\* The edges of a block lead to blocks: on to the next one, to the targets of
\* its branch, or everywhere.
LEMMA Edges ==
  ASSUME NEW p, Len(p) \in Nat, Len(p) # 0, \A a \in Addrs(p) : p[a].flow \in Flows,
         NEW b \in find_block_starts(p)
  PROVE  LET last  == find_last_instr(p, b)
             edges == compute_edges(p, b)
         IN /\ edges \in Seq(find_block_starts(p))
            /\ \/ last.flow \in {"Normal", "IndirectCall", "ConditionalBranch"}
               \/ last.flow = "Call" /\ ~is_noreturn_call(last, FALSE)
               => (BlockEnd(p, b) <= Len(p) => BlockEnd(p, b) \in Range(edges))
            /\ last.flow \in {"UnconditionalBranch", "ConditionalBranch"} =>
                 Addrs(p) \cap last.targets \subseteq Range(edges)
            /\ last.flow = "IndirectBranch" => Range(edges) = find_block_starts(p)
<1> DEFINE B == find_block_starts(p)
           e == BlockEnd(p, b)
           last == p[e - 1]
           fall == fallthrough_edge(p, b)
<1>1. b \in 1..Len(p) /\ B \subseteq Addrs(p)
  BY Starts DEF Addrs
<1>2. e \in (b + 1)..(Len(p) + 1) /\ (e <= Len(p) => e \in B)
  BY Ends
<1>3. e - 1 \in Addrs(p)
  BY <1>1, <1>2 DEF Addrs
<1>4. last.flow \in Flows /\ (last.flow # "Call" => Addrs(p) \cap last.targets \subseteq B)
  BY <1>3, Starts
<1>5. fall \in Seq(B) /\ Range(fall) = IF e <= Len(p) THEN {e} ELSE {}
  <2>1. CASE e <= Len(p)
    <3>1. fall = <<e>>
      BY <2>1 DEF fallthrough_edge
    <3> HIDE DEF e, B
    <3> QED BY <1>2, <2>1, <3>1 DEF Range
  <2>2. CASE ~(e <= Len(p))
    <3>1. fall = <<>>
      BY <2>2 DEF fallthrough_edge
    <3> HIDE DEF e, B
    <3> QED BY <2>2, <3>1 DEF Range
  <2> QED BY <2>1, <2>2
<1>6. ASSUME NEW S, Addrs(p) \cap S \subseteq B
      PROVE  Ascending(p, S) \in Seq(B) /\ Range(Ascending(p, S)) = Addrs(p) \cap S
  <2>1. Ascending(p, S) \in Seq(Addrs(p)) /\ Range(Ascending(p, S)) = Addrs(p) \cap S
    BY AscendingValues
  <2>2. \A i \in 1..Len(Ascending(p, S)) : Ascending(p, S)[i] \in B
    BY <1>6, <2>1, InRange
  <2> HIDE DEF B
  <2> QED BY <2>1, <2>2
<1>7. <<>> \in Seq(B)
  OBVIOUS
<1>8. find_last_instr(p, b) = last
  BY DEF find_last_instr
<1> DEFINE edges == compute_edges(p, b)
<1>9. edges =
        CASE last.flow \in {"Normal", "IndirectCall"} -> fall
          [] last.flow = "Call" -> IF is_noreturn_call(last, FALSE) THEN <<>> ELSE fall
          [] last.flow = "UnconditionalBranch" -> resolve_targets(p, last)
          [] last.flow = "ConditionalBranch" -> fall \o Ascending(p, last.targets \ Range(fall))
          [] last.flow \in {"Return", "Halt"} -> <<>>
          [] last.flow = "IndirectBranch" -> Ascending(p, B)
  BY <1>8 DEF compute_edges
<1> HIDE DEF B, e, last, fall, edges
<1>10. CASE last.flow \in {"Normal", "IndirectCall"}
  BY <1>5, <1>8, <1>9, <1>10 DEF B, e, edges
<1>11. CASE last.flow = "Call"
  BY <1>5, <1>7, <1>8, <1>9, <1>11 DEF B, e, edges
<1>12. CASE last.flow = "UnconditionalBranch"
  <2>1. edges = Ascending(p, last.targets)
    BY <1>9, <1>12 DEF resolve_targets
  <2> QED BY <1>4, <1>6, <1>8, <1>12, <2>1 DEF B, e, edges
<1>13. CASE last.flow = "ConditionalBranch"
  <2> DEFINE rest == Ascending(p, last.targets \ Range(fall))
  <2>1. edges = fall \o rest
    BY <1>9, <1>13
  <2>2. rest \in Seq(B) /\ Range(rest) = Addrs(p) \cap (last.targets \ Range(fall))
    BY <1>4, <1>6, <1>13
  <2> HIDE DEF rest
  <2>3. edges \in Seq(B) /\ Range(edges) = Range(fall) \cup Range(rest)
    BY <1>5, <2>1, <2>2, RangeOfConcat
  <2>4. Addrs(p) \cap last.targets \subseteq Range(edges)
    BY <2>2, <2>3
  <2>5. e <= Len(p) => e \in Range(edges)
    BY <1>5, <2>3
  <2> QED BY <1>8, <1>13, <2>3, <2>4, <2>5 DEF B, e, edges
<1>14. CASE last.flow \in {"Return", "Halt"}
  BY <1>7, <1>8, <1>9, <1>14 DEF B, e, edges
<1>15. CASE last.flow = "IndirectBranch"
  <2>1. edges = Ascending(p, B)
    BY <1>9, <1>15
  <2>2. Addrs(p) \cap B = B
    BY <1>1
  <2> QED BY <1>6, <1>8, <1>15, <2>1, <2>2 DEF B, e, edges
<1> QED BY <1>4, <1>10, <1>11, <1>12, <1>13, <1>14, <1>15 DEF Flows

\* A region reported behind a noreturn call holds no branch target.
LEMMA DeadRegion ==
  ASSUME NEW p, Len(p) \in Nat, Len(p) # 0, NEW d \in find_dead_blocks(p)
  PROVE  \E a \in Addrs(p) :
           /\ is_noreturn_call(p[a], TRUE)
           /\ d.addr = a + 1 /\ d.size \in Int /\ d.addr + d.size \in Nat
           /\ \A t \in collect_branch_targets(p) : t > a => t >= d.addr + d.size
<1>1. PICK a \in Addrs(p) : is_noreturn_call(p[a], TRUE) /\ d = scan_dead_region(p, a)
  BY DEF find_dead_blocks
<1> DEFINE S == {t \in collect_branch_targets(p) : t > a} \cup {Len(p) + 1}
           stop == Min(S)
<1>2. d = [addr |-> a + 1, size |-> stop - (a + 1)]
  BY <1>1 DEF scan_dead_region
<1>3. \A t \in collect_branch_targets(p) : t \in 1..Len(p)
  BY DEF collect_branch_targets, InFunction, Addrs
<1>4. S \in SUBSET Nat /\ S # {}
  BY <1>3
<1>5. \E x \in S : \A y \in S : x <= y
  <2> HIDE DEF S
  <2> QED BY <1>4, LeastExists
<1>6. stop \in S /\ \A y \in S : stop <= y
  <2>1. stop = CHOOSE x \in S : \A y \in S : x =< y
    BY DEF Min
  <2> HIDE DEF S, stop
  <2> QED BY <1>5, <2>1
<1> HIDE DEF S, stop
<1>7. a \in Int /\ stop \in Nat
  BY <1>4, <1>6 DEF Addrs
<1>8. d.addr = a + 1 /\ d.size \in Int /\ d.addr + d.size = stop
  BY <1>2, <1>7
<1>9. \A t \in collect_branch_targets(p) : t > a => t >= stop
  <2>1. \A t \in collect_branch_targets(p) : t > a => t \in S
    BY DEF S
  <2> QED BY <1>3, <1>6, <1>7, <2>1
<1> QED BY <1>1, <1>7, <1>8, <1>9

-----------------------------------------------------------------------------
(* Words. *)

\* Powers of two are positive, grow, and divide each other.
LEMMA Powers ==
  /\ Pow2[0] = 1
  /\ \A n \in 0..W : Pow2[n] \in Nat \ {0}
  /\ \A n \in 0..(W - 1) : Pow2[n + 1] = 2 * Pow2[n]
<1> USE WordAssumption
<1>1. \E g : g = [n \in 0..W |-> IF n = 0 THEN 1 ELSE 2 * g[n - 1]]
  <2> DEFINE step == [n \in 1..W |-> [d \in Nat |-> 2 * d]]
  <2>1. step \in [1..W -> [Nat -> Nat]]
    OBVIOUS
  <2>2. \A n \in 1..W, d \in Nat : step[n][d] = 2 * d
    OBVIOUS
  <2> HIDE DEF step
  <2>3. PICK f \in [0..W -> Nat] : Iterates(f, 1, step, W)
    BY <2>1, RecursionExists
  <2>4. \A n \in 0..W : f[n] = IF n = 0 THEN 1 ELSE 2 * f[n - 1]
    <3>1. \A n \in 1..W : f[n] = step[n][f[n - 1]] /\ f[n - 1] \in Nat
      BY <2>3 DEF Iterates
    <3>2. \A n \in 1..W : f[n] = 2 * f[n - 1]
      BY <2>2, <3>1
    <3> QED BY <2>3, <3>2 DEF Iterates
  <2>5. f = [n \in 0..W |-> IF n = 0 THEN 1 ELSE 2 * f[n - 1]]
    BY <2>4
  <2> QED BY <2>5
<1>2. Pow2 = [n \in 0..W |-> IF n = 0 THEN 1 ELSE 2 * Pow2[n - 1]]
  BY <1>1, Zenon DEF Pow2
<1>3. Pow2[0] = 1 /\ \A n \in 0..(W - 1) : Pow2[n + 1] = 2 * Pow2[n]
  BY <1>2
<1>4. \A n \in 0..W : Pow2[n] \in Nat \ {0}
  <2> DEFINE S == {n \in 0..W : Pow2[n] \in Nat \ {0}}
  <2>1. 0 \in S
    BY <1>3
  <2>2. \A n \in 0..(W - 1) : n \in S => n + 1 \in S
    BY <1>3
  <2>3. 0..W \subseteq S
    <3> HIDE DEF S
    <3> QED BY <2>1, <2>2, UpTo
  <2> QED BY <2>3
<1> QED BY <1>3, <1>4

LEMMA PowersDivide ==
  ASSUME NEW l \in 0..W, NEW w \in l..W
  PROVE  \E q \in Nat \ {0} : Pow2[w] = q * Pow2[l]
<1> DEFINE S == {n \in 0..(W - l) : \E q \in Nat \ {0} : Pow2[l + n] = q * Pow2[l]}
<1> USE WordAssumption
<1>1. 0 \in S
  <2>1. Pow2[l + 0] = 1 * Pow2[l]
    BY Powers
  <2>2. \E q \in Nat \ {0} : Pow2[l + 0] = q * Pow2[l]
    BY <2>1
  <2> QED BY <2>2
<1>2. ASSUME NEW n \in 0..(W - l - 1), n \in S
      PROVE  n + 1 \in S
  <2>1. PICK q \in Nat \ {0} : Pow2[l + n] = q * Pow2[l]
    BY <1>2
  <2>2. Pow2[l + (n + 1)] = 2 * Pow2[l + n] /\ Pow2[l] \in Nat
    <3>1. l + n \in 0..(W - 1) /\ l + (n + 1) = (l + n) + 1
      OBVIOUS
    <3> QED BY <3>1, Powers
  <2>3. \A x \in Nat : 2 * (q * x) = (2 * q) * x
    OBVIOUS
  <2>4. Pow2[l + (n + 1)] = (2 * q) * Pow2[l] /\ 2 * q \in Nat \ {0}
    BY <2>1, <2>2, <2>3
  <2>5. \E r \in Nat \ {0} : Pow2[l + (n + 1)] = r * Pow2[l]
    BY <2>4
  <2> QED BY <2>5
<1>3. 0..(W - l) \subseteq S
  <2>1. W - l \in Nat
    OBVIOUS
  <2> HIDE DEF S
  <2> QED BY <1>1, <1>2, <2>1, UpTo
<1>4. w - l \in 0..(W - l) /\ l + (w - l) = w
  OBVIOUS
<1>5. \E q \in Nat \ {0} : Pow2[l + (w - l)] = q * Pow2[l]
  BY <1>3, <1>4
<1> QED BY <1>4, <1>5

\* A word cut to fewer bits is a word; one that is not zero in its low bits
\* is not zero at any width.
LEMMA Cut ==
  ASSUME NEW x \in Word, NEW w \in LowBits..W
  PROVE  /\ x % Pow2[w] \in Word
         /\ x = 0 => x % Pow2[w] = 0
         /\ x % Pow2[LowBits] # 0 => x # 0 /\ x % Pow2[w] # 0
<1> USE WordAssumption, SccpAssumption
<1>1. w \in 0..W /\ LowBits \in 0..W /\ W \in 0..W /\ W \in w..W
  OBVIOUS
<1>2. Pow2[w] \in Nat \ {0} /\ Pow2[LowBits] \in Nat \ {0} /\ Pow2[W] \in Nat \ {0}
  BY <1>1, Powers
<1>3. x \in Nat
  BY <1>2 DEF Word
<1>4. x % Pow2[w] \in Word
  <2>1. PICK q \in Nat \ {0} : Pow2[W] = q * Pow2[w]
    BY <1>1, PowersDivide
  <2>2. \A m \in Nat \ {0}, n \in Nat \ {0} : m <= n * m
    OBVIOUS
  <2>3. Pow2[w] <= Pow2[W]
    BY <1>2, <2>1, <2>2
  <2>4. \A m \in Nat \ {0} : x % m \in 0..(m - 1)
    BY <1>3
  <2>5. \A m \in Nat \ {0}, n \in Nat \ {0}, y \in Int :
          y \in 0..(m - 1) /\ m <= n => y \in 0..(n - 1)
    OBVIOUS
  <2> DEFINE y == x % Pow2[w]
  <2>6. y \in 0..(Pow2[w] - 1)
    BY <1>2, <2>4
  <2> HIDE DEF y
  <2>7. y \in Int
    BY <2>6
  <2>8. y \in 0..(Pow2[W] - 1)
    BY <1>2, <2>3, <2>5, <2>6, <2>7
  <2> QED BY <2>8 DEF Word, y
<1>5. \A m \in Nat \ {0} : 0 % m = 0
  OBVIOUS
<1>6. x % Pow2[LowBits] # 0 => x % Pow2[w] # 0
  <2>1. PICK q \in Nat \ {0} : Pow2[w] = q * Pow2[LowBits]
    BY <1>1, PowersDivide
  <2>2. ASSUME NEW m \in Nat \ {0}, NEW n \in Nat \ {0}, x % (n * m) = 0
        PROVE  x % m = 0
    <3>1. n * m \in Nat \ {0}
      OBVIOUS
    <3>2. ASSUME NEW j \in Nat \ {0}, x % j = 0
          PROVE  \E d \in Int : x = j * d
      <4>1. x = j * (x \div j) /\ x \div j \in Int
        BY <1>3, <3>2
      <4> QED BY <4>1
    <3>3. PICK d \in Int : x = (n * m) * d
      BY <2>2, <3>1, <3>2
    <3>4. x = m * (n * d) /\ n * d \in Int
      BY <3>3
    <3>5. \A y \in Int : (m * y) % m = 0
      OBVIOUS
    <3> QED BY <3>4, <3>5
  <2> QED BY <1>2, <2>1, <2>2
<1> QED BY <1>2, <1>4, <1>5, <1>6

\* The bits common to two numbers make a word.
LEMMA BitAndType ==
  ASSUME NEW x, NEW y
  PROVE  BitAnd(x, y) \in Word
<1> USE WordAssumption
<1> DEFINE both(n) == Bit(x, n - 1) = 1 /\ Bit(y, n - 1) = 1
           inc(n) == IF both(n) THEN Pow2[n - 1] ELSE 0
<1>1. \A n \in 1..W : inc(n) \in Nat /\ n - 1 \in 0..(W - 1) /\ (n - 1) + 1 = n
  BY Powers
<1>2. \E g : g = [n \in 0..W |->
                    IF n = 0 THEN 0
                    ELSE g[n - 1] + (IF Bit(x, n - 1) = 1 /\ Bit(y, n - 1) = 1
                                     THEN Pow2[n - 1] ELSE 0)]
  <2> DEFINE step == [n \in 1..W |-> [d \in Nat |-> d + inc(n)]]
  <2> HIDE DEF inc
  <2>1. step \in [1..W -> [Nat -> Nat]]
    BY <1>1
  <2>2. \A n \in 1..W, d \in Nat : step[n][d] = d + inc(n)
    OBVIOUS
  <2> HIDE DEF step
  <2>3. PICK f \in [0..W -> Nat] : Iterates(f, 0, step, W)
    BY <2>1, RecursionExists
  <2>4. \A n \in 0..W : f[n] = IF n = 0 THEN 0 ELSE f[n - 1] + inc(n)
    <3>1. \A n \in 1..W : f[n] = step[n][f[n - 1]] /\ f[n - 1] \in Nat
      BY <2>3 DEF Iterates
    <3>2. \A n \in 1..W : f[n] = f[n - 1] + inc(n)
      BY <2>2, <3>1
    <3> QED BY <2>3, <3>2 DEF Iterates
  <2>5. f = [n \in 0..W |-> IF n = 0 THEN 0 ELSE f[n - 1] + inc(n)]
    BY <2>4
  <2> QED BY <2>5 DEF inc
<1> DEFINE sum[n \in 0..W] ==
             IF n = 0 THEN 0
             ELSE sum[n - 1] + (IF Bit(x, n - 1) = 1 /\ Bit(y, n - 1) = 1
                                THEN Pow2[n - 1] ELSE 0)
<1>3. sum = [n \in 0..W |->
               IF n = 0 THEN 0
               ELSE sum[n - 1] + (IF Bit(x, n - 1) = 1 /\ Bit(y, n - 1) = 1
                                  THEN Pow2[n - 1] ELSE 0)]
  BY <1>2, Zenon
<1>4. BitAnd(x, y) = sum[W]
  BY DEF BitAnd
<1> HIDE DEF sum
<1>5. sum[0] = 0 /\ \A n \in 1..W : sum[n] = sum[n - 1] + inc(n)
  BY <1>3
<1> HIDE DEF inc
<1> DEFINE S == {n \in 0..W : sum[n] \in 0..(Pow2[n] - 1)}
<1>6. 0 \in S
  BY <1>5, Powers
<1>7. ASSUME NEW n \in 0..(W - 1), n \in S
      PROVE  n + 1 \in S
  <2>1. n + 1 \in 1..W /\ (n + 1) - 1 = n
    OBVIOUS
  <2>2. sum[n + 1] = sum[n] + inc(n + 1)
    BY <1>5, <2>1
  <2>3. inc(n + 1) \in {0, Pow2[n]}
    BY <2>1 DEF inc
  <2>4. Pow2[n] \in Nat \ {0} /\ Pow2[n + 1] = 2 * Pow2[n] /\ sum[n] \in 0..(Pow2[n] - 1)
    BY <1>7, Powers
  <2>5. \A m \in Nat \ {0}, s \in Int, i \in Int :
          s \in 0..(m - 1) /\ i \in {0, m} => s + i \in 0..(2 * m - 1)
    OBVIOUS
  <2>6. sum[n + 1] \in 0..(Pow2[n + 1] - 1)
    <3>1. sum[n] \in Int /\ inc(n + 1) \in Int
      BY <2>3, <2>4
    <3>2. sum[n] + inc(n + 1) \in 0..(2 * Pow2[n] - 1)
      BY <2>3, <2>4, <2>5, <3>1
    <3> QED BY <2>2, <2>4, <3>2
  <2> QED BY <2>1, <2>6
<1>8. 0..W \subseteq S
  <2> HIDE DEF S
  <2> QED BY <1>6, <1>7, UpTo
<1>9. W \in 0..W
  OBVIOUS
<1> QED BY <1>4, <1>8, <1>9 DEF Word

-----------------------------------------------------------------------------
(* The lattice. *)

LEMMA WordFacts ==
  /\ Bot # Top /\ Bot \notin Word /\ Top \notin Word /\ 0 \in Word
  /\ Word \subseteq Nat /\ Value = Word \cup {Bot, Top}
<1>1. W \in 0..W
  BY WordAssumption
<1>2. Pow2[W] \in Nat \ {0}
  BY <1>1, Powers
<1>3. Word \subseteq Nat /\ 0 \in Word
  BY <1>2 DEF Word
<1>4. \A x \in Word : x \in Int
  BY <1>3
<1>5. Bot \notin Word /\ Top \notin Word /\ Bot # Top
  BY <1>4, WordAssumption
<1> QED BY <1>3, <1>5 DEF Value

LEMMA BinopType ==
  ASSUME NEW op \in {"add", "sub", "and"}, NEW x \in Word, NEW y \in Word
  PROVE  compute_binop(op, x, y) \in Word
<1>1. W \in 0..W
  BY WordAssumption
<1>2. Pow2[W] \in Nat \ {0}
  BY <1>1, Powers
<1>3. \A m \in Nat \ {0}, z \in Int : z % m \in 0..(m - 1)
  OBVIOUS
<1>4. x \in Int /\ y \in Int
  BY WordFacts
<1>5. CASE op = "add"
  <2>1. compute_binop(op, x, y) = (x + y) % Pow2[W]
    BY <1>5 DEF compute_binop
  <2>2. x + y \in Int
    BY <1>4
  <2> QED BY <1>2, <1>3, <2>1, <2>2 DEF Word
<1>6. CASE op = "sub"
  <2>1. compute_binop(op, x, y) = (x - y) % Pow2[W]
    BY <1>6 DEF compute_binop
  <2>2. x - y \in Int
    BY <1>4
  <2> QED BY <1>2, <1>3, <2>1, <2>2 DEF Word
<1>7. CASE op = "and"
  BY <1>7, BitAndType DEF compute_binop
<1> QED BY <1>5, <1>6, <1>7

LEMMA EvalBinop ==
  ASSUME NEW op \in {"add", "sub", "and"}, NEW v \in Value, NEW w \in Value
  PROVE  /\ eval_binop(op, v, w) \in Value
         /\ v # Bot /\ w # Bot => eval_binop(op, v, w) =
              IF v \in Word /\ w \in Word THEN compute_binop(op, v, w) ELSE Top
<1>1. CASE v = Bot \/ w = Bot
  BY <1>1, WordFacts DEF eval_binop
<1>2. CASE v # Bot /\ w # Bot /\ (v = Top \/ w = Top)
  BY <1>2, WordFacts DEF eval_binop
<1>3. CASE v \in Word /\ w \in Word
  <2>1. eval_binop(op, v, w) = compute_binop(op, v, w)
    BY <1>3, WordFacts DEF eval_binop
  <2> QED BY <1>3, <2>1, BinopType, WordFacts
<1> QED BY <1>1, <1>2, <1>3, WordFacts

\* meet is an upper bound, and Leq an order.
LEMMA MeetFacts ==
  ASSUME NEW v \in Value, NEW w \in Value
  PROVE  meet(v, w) \in Value /\ Leq(v, meet(v, w)) /\ Leq(w, meet(v, w))
BY WordFacts DEF meet, Leq

LEMMA LeqTransitive ==
  ASSUME NEW u, NEW v, NEW w, Leq(u, v), Leq(v, w)
  PROVE  Leq(u, w)
BY WordFacts DEF Leq

\* A higher value describes at least the same words.
LEMMA GammaMonotone ==
  ASSUME NEW r, NEW v \in Value, NEW w \in Value, Leq(v, w), NEW x \in Gamma(r, v), x \in Word
  PROVE  x \in Gamma(r, w)
BY WordFacts DEF Gamma, Leq

-----------------------------------------------------------------------------
(* Effects: what the solver computes describes what the machine does. *)

Vals      == [Regs -> Value]
RegFiles  == [Regs -> Word]

Describes(vals, rs) == \A r \in Regs : rs[r] \in Gamma(r, vals[r])

LEMMA OperandType ==
  ASSUME NEW o \in Operands
  PROVE  /\ \A vals \in Vals : Operand(vals, o) \in Value
         /\ \A rs \in RegFiles : Operand(rs, o) \in Word
<1>1. CASE o \in {<<"imm", n>> : n \in Word}
  BY <1>1, WordFacts DEF Operand
<1>2. CASE o \in {<<"reg", r>> : r \in Regs \ {FLAGS}}
  BY <1>2 DEF Operand, Vals, RegFiles
<1> QED BY <1>1, <1>2 DEF Operands

LEMMA OperandSound ==
  ASSUME NEW vals \in Vals, NEW rs \in RegFiles, Describes(vals, rs), NEW o \in Operands
  PROVE  /\ Operand(vals, o) # Bot
         /\ Operand(vals, o) \in Word => Operand(rs, o) = Operand(vals, o)
<1>1. CASE o \in {<<"imm", n>> : n \in Word}
  BY <1>1, WordFacts DEF Operand
<1>2. CASE o \in {<<"reg", r>> : r \in Regs \ {FLAGS}}
  <2>1. PICK r \in Regs \ {FLAGS} : o = <<"reg", r>>
    BY <1>2
  <2>2. Operand(vals, o) = vals[r] /\ Operand(rs, o) = rs[r]
    BY <2>1 DEF Operand
  <2>3. rs[r] \in Gamma(r, vals[r]) /\ r # FLAGS
    BY DEF Describes
  <2> QED BY <2>2, <2>3, WordFacts DEF Gamma
<1> QED BY <1>1, <1>2 DEF Operands

\* The value an effect gives its destination.
NewValue(vals, e) ==
  CASE e.op = "clobber" -> Top
    [] e.op = "mov" -> Operand(vals, e.a)
    [] e.op \notin {"clobber", "mov"} ->
         eval_binop(e.op, Operand(vals, e.a), Operand(vals, e.b))

LEMMA EffectType ==
  ASSUME NEW vals \in Vals, NEW e \in Effects
  PROVE  /\ apply_effect(vals, e) \in Vals
         /\ apply_effect(vals, e) = [vals EXCEPT ![e.dst] = NewValue(vals, e)]
         /\ NewValue(vals, e) \in Value
<1>1. /\ e.dst \in Regs /\ e.op \in {"mov", "add", "sub", "and", "clobber"}
      /\ e.a \in Operands /\ e.b \in Operands
  BY DEF Effects
<1>2. Operand(vals, e.a) \in Value /\ Operand(vals, e.b) \in Value
  BY <1>1, OperandType
<1>3. NewValue(vals, e) \in Value
  <2>1. CASE e.op = "clobber"
    BY <2>1, WordFacts DEF NewValue
  <2>2. CASE e.op = "mov"
    BY <1>2, <2>2 DEF NewValue
  <2>3. CASE e.op \in {"add", "sub", "and"}
    <3>1. NewValue(vals, e) = eval_binop(e.op, Operand(vals, e.a), Operand(vals, e.b))
      BY <2>3 DEF NewValue
    <3> QED BY <1>2, <2>3, <3>1, EvalBinop
  <2> QED BY <1>1, <2>1, <2>2, <2>3
<1>4. apply_effect(vals, e) = [vals EXCEPT ![e.dst] = NewValue(vals, e)]
  BY DEF apply_effect, NewValue
<1>5. [vals EXCEPT ![e.dst] = NewValue(vals, e)] \in Vals
  BY <1>1, <1>3 DEF Vals
<1> QED BY <1>3, <1>4, <1>5

LEMMA EffectSound ==
  ASSUME NEW vals \in Vals, NEW rs \in RegFiles, Describes(vals, rs), NEW e \in Effects,
         NEW v \in Results(rs, e)
  PROVE  /\ [rs EXCEPT ![e.dst] = v] \in RegFiles
         /\ Describes(apply_effect(vals, e), [rs EXCEPT ![e.dst] = v])
<1> DEFINE new == NewValue(vals, e)
           x == CASE e.op = "mov" -> Operand(rs, e.a)
                  [] e.op # "mov" -> compute_binop(e.op, Operand(rs, e.a), Operand(rs, e.b))
<1>1. /\ e.dst \in Regs /\ e.op \in {"mov", "add", "sub", "and", "clobber"}
      /\ e.a \in Operands /\ e.b \in Operands
  BY DEF Effects
<1>2. /\ Operand(rs, e.a) \in Word /\ Operand(rs, e.b) \in Word
      /\ Operand(vals, e.a) \in Value \ {Bot} /\ Operand(vals, e.b) \in Value \ {Bot}
      /\ Operand(vals, e.a) \in Word => Operand(rs, e.a) = Operand(vals, e.a)
      /\ Operand(vals, e.b) \in Word => Operand(rs, e.b) = Operand(vals, e.b)
  BY <1>1, OperandType, OperandSound
<1>3. v \in Word /\ v \in Gamma(e.dst, new)
  <2>1. CASE e.op = "clobber"
    BY <2>1, WordFacts DEF NewValue, Results, Gamma
  <2>2. CASE e.op # "clobber"
    <3>1. x \in Word /\ (new = Top \/ new = x)
      <4>1. CASE e.op = "mov"
        BY <1>2, <4>1, WordFacts DEF NewValue
      <4>2. CASE e.op \in {"add", "sub", "and"}
        <5>1. new = eval_binop(e.op, Operand(vals, e.a), Operand(vals, e.b))
          BY <4>2 DEF NewValue
        <5>2. x = compute_binop(e.op, Operand(rs, e.a), Operand(rs, e.b))
          BY <4>2
        <5> HIDE DEF new, x
        <5>3. x \in Word
          BY <1>2, <4>2, <5>2, BinopType
        <5>4. new = IF Operand(vals, e.a) \in Word /\ Operand(vals, e.b) \in Word
                    THEN compute_binop(e.op, Operand(vals, e.a), Operand(vals, e.b)) ELSE Top
          BY <1>2, <4>2, <5>1, EvalBinop
        <5> QED BY <1>2, <5>2, <5>3, <5>4
      <4> QED BY <1>1, <2>2, <4>1, <4>2
    <3>2. Results(rs, e) = IF e.dst = FLAGS THEN {x % Pow2[w] : w \in Widths} ELSE {x}
      BY <2>2 DEF Results
    <3> HIDE DEF x, new
    <3>3. \A w \in Widths : x % Pow2[w] \in Word
      BY <3>1, Cut DEF Widths
    <3>4. CASE e.dst = FLAGS
      <4>1. PICK w \in Widths : v = x % Pow2[w]
        BY <3>2, <3>4
      <4> QED BY <3>1, <3>3, <3>4, <4>1, WordFacts DEF Gamma
    <3>5. CASE e.dst # FLAGS
      BY <3>1, <3>2, <3>5, WordFacts DEF Gamma
    <3> QED BY <3>4, <3>5
  <2> QED BY <2>1, <2>2
<1>4. [rs EXCEPT ![e.dst] = v] \in RegFiles
  BY <1>1, <1>3 DEF RegFiles
<1>5. apply_effect(vals, e) = [vals EXCEPT ![e.dst] = new]
  BY EffectType
<1> HIDE DEF new
<1>6. ASSUME NEW r \in Regs
      PROVE  [rs EXCEPT ![e.dst] = v][r] \in Gamma(r, [vals EXCEPT ![e.dst] = new][r])
  <2>1. CASE r = e.dst
    BY <1>1, <1>3, <2>1 DEF RegFiles, Vals
  <2>2. CASE r # e.dst
    BY <2>2 DEF RegFiles, Vals, Describes
  <2> QED BY <2>1, <2>2
<1> QED BY <1>4, <1>5, <1>6 DEF Describes

LEMMA ClobbersType ==
  ASSUME NEW S \in SUBSET Regs
  PROVE  Clobbers(S) \in Seq(Effects)
<1>1. IsFiniteSet(S)
  BY SccpAssumption, FS_Subset
<1> DEFINE n == Cardinality(S)
           order == SetToSeq(S)
<1>2. n \in Nat /\ \E f \in [1..n -> S] : IsInjective(f)
  BY <1>1, FS_CardinalityType DEF ExistsBijection, Bijection, Injection
<1>3. order \in [1..n -> S]
  BY <1>2 DEF SetToSeq
<1> HIDE DEF n, order
<1>4. DOMAIN order = 1..n /\ \A i \in 1..n : order[i] \in Regs
  BY <1>3
<1>5. <<"imm", 0>> \in Operands
  BY WordFacts DEF Operands
<1>6. \A i \in 1..n : [dst |-> order[i], op |-> "clobber", a |-> <<"imm", 0>>, b |-> <<"imm", 0>>]
                        \in Effects
  BY <1>4, <1>5 DEF Effects
<1>7. Clobbers(S) = [i \in 1..n |-> [dst |-> order[i], op |-> "clobber",
                                      a |-> <<"imm", 0>>, b |-> <<"imm", 0>>]]
  BY <1>4 DEF Clobbers, order
<1> QED BY <1>2, <1>6, <1>7

LEMMA InstrEffects ==
  ASSUME NEW i \in Instrs
  PROVE  add_instr_effects(i) \in Seq(Effects)
BY ClobbersType, SccpAssumption DEF add_instr_effects, Instrs

\* Applying a sequence of effects is applying them one after the other.
LEMMA ApplyEffects ==
  ASSUME NEW vals \in Vals, NEW effs \in Seq(Effects)
  PROVE  \E after \in [0..Len(effs) -> Vals] :
           /\ after[0] = vals
           /\ \A n \in 1..Len(effs) : after[n] = apply_effect(after[n - 1], effs[n])
           /\ apply_effects(vals, effs) = after[Len(effs)]
<1> DEFINE N == Len(effs)
<1>1. N \in Nat /\ \A n \in 1..N : effs[n] \in Effects
  OBVIOUS
<1>2. PICK f \in [0..N -> Vals] :
        f[0] = vals /\ \A n \in 1..N : f[n] = apply_effect(f[n - 1], effs[n])
  <2> DEFINE step == [n \in 1..N |-> [d \in Vals |-> apply_effect(d, effs[n])]]
  <2>1. step \in [1..N -> [Vals -> Vals]]
    BY <1>1, EffectType
  <2>2. \A n \in 1..N, d \in Vals : step[n][d] = apply_effect(d, effs[n])
    OBVIOUS
  <2> HIDE DEF step
  <2>3. PICK f \in [0..N -> Vals] : Iterates(f, vals, step, N)
    BY <1>1, <2>1, RecursionExists
  <2>4. \A n \in 1..N : f[n] = step[n][f[n - 1]] /\ f[n - 1] \in Vals
    BY <1>1, <2>3 DEF Iterates
  <2>5. f[0] = vals /\ \A n \in 1..N : f[n] = apply_effect(f[n - 1], effs[n])
    BY <2>2, <2>3, <2>4 DEF Iterates
  <2> QED BY <2>5
<1>3. f = [n \in 0..Len(effs) |-> IF n = 0 THEN vals ELSE apply_effect(f[n - 1], effs[n])]
  BY <1>1, <1>2
<1> DEFINE after[n \in 0..Len(effs)] ==
             IF n = 0 THEN vals ELSE apply_effect(after[n - 1], effs[n])
<1>4. after = [n \in 0..Len(effs) |->
                 IF n = 0 THEN vals ELSE apply_effect(after[n - 1], effs[n])]
  BY <1>3, Zenon
<1>5. apply_effects(vals, effs) = after[Len(effs)]
  BY DEF apply_effects
<1> HIDE DEF after
<1>6. after[0] = vals /\ \A n \in 1..N : after[n] = apply_effect(after[n - 1], effs[n])
  BY <1>1, <1>4
<1>7. \A n \in 0..N : after[n] \in Vals
  <2> DEFINE S == {n \in 0..N : after[n] \in Vals}
  <2>1. 0 \in S
    BY <1>1, <1>6
  <2>2. ASSUME NEW n \in 0..(N - 1), n \in S
        PROVE  n + 1 \in S
    <3>1. n + 1 \in 1..N /\ (n + 1) - 1 = n
      BY <1>1
    <3>2. after[n + 1] = apply_effect(after[n], effs[n + 1])
      BY <1>6, <3>1
    <3>3. after[n] \in Vals /\ effs[n + 1] \in Effects
      BY <1>1, <2>2, <3>1
    <3>4. after[n + 1] \in Vals
      BY <3>2, <3>3, EffectType
    <3> QED BY <3>1, <3>4
  <2>3. 0..N \subseteq S
    <3> HIDE DEF S
    <3> QED BY <1>1, <2>1, <2>2, UpTo
  <2> QED BY <2>3
<1>8. after \in [0..N -> Vals]
  BY <1>4, <1>7
<1> QED BY <1>5, <1>6, <1>8

\* The register files after one effect.
After(S, e) == UNION {{[f EXCEPT ![e.dst] = v] : v \in Results(f, e)} : f \in S}

LEMMA AfterType ==
  ASSUME NEW S \in SUBSET RegFiles, NEW e \in Effects
  PROVE  After(S, e) \in SUBSET RegFiles
<1> DEFINE top == [r \in Regs |-> Top]
<1>1. top \in Vals /\ \A f \in RegFiles : Describes(top, f)
  BY WordFacts DEF Vals, RegFiles, Describes, Gamma
<1> HIDE DEF top
<1>2. \A f \in S : \A v \in Results(f, e) : [f EXCEPT ![e.dst] = v] \in RegFiles
  BY <1>1, EffectSound
<1> QED BY <1>2 DEF After

\* An instruction does its effects one after the other.
LEMMA OutcomesSteps ==
  ASSUME NEW rs \in RegFiles, NEW i \in Instrs
  PROVE  LET effs == add_instr_effects(i)
         IN \E out \in [0..Len(effs) -> SUBSET RegFiles] :
              /\ out[0] = {rs}
              /\ \A n \in 1..Len(effs) : out[n] = After(out[n - 1], effs[n])
              /\ Outcomes(rs, i) = out[Len(effs)]
<1> DEFINE effs == add_instr_effects(i)
           N == Len(effs)
<1>1. effs \in Seq(Effects)
  BY InstrEffects
<1>2. N \in Nat /\ \A n \in 1..N : effs[n] \in Effects
  <2> HIDE DEF effs
  <2> QED BY <1>1
<1> DEFINE step == [n \in 1..N |-> [d \in SUBSET RegFiles |-> After(d, effs[n])]]
<1>3. step \in [1..N -> [SUBSET RegFiles -> SUBSET RegFiles]]
  <2> HIDE DEF effs, N
  <2> QED BY <1>2, AfterType
<1>4. \A n \in 1..N, d \in SUBSET RegFiles : step[n][d] = After(d, effs[n])
  <2> HIDE DEF effs, N
  <2> QED OBVIOUS
<1>5. PICK f \in [0..N -> SUBSET RegFiles] : Iterates(f, {rs}, step, N)
  <2>1. {rs} \in SUBSET RegFiles
    OBVIOUS
  <2> HIDE DEF effs, N, step
  <2> QED BY <1>2, <1>3, <2>1, RecursionExists
<1>6. f[0] = {rs} /\ \A n \in 1..N : f[n] = After(f[n - 1], effs[n])
  <2> HIDE DEF effs, N, step
  <2>1. \A n \in 1..N : f[n] = step[n][f[n - 1]] /\ f[n - 1] \in SUBSET RegFiles
    BY <1>2, <1>5 DEF Iterates
  <2> QED BY <1>4, <1>5, <2>1 DEF Iterates
<1>7. f = [n \in 0..Len(effs) |->
             IF n = 0 THEN {rs}
             ELSE UNION {{[g EXCEPT ![effs[n].dst] = v] : v \in Results(g, effs[n])} :
                         g \in f[n - 1]}]
  <2>1. f = [n \in 0..N |-> IF n = 0 THEN {rs} ELSE After(f[n - 1], effs[n])]
    <3> HIDE DEF effs, N, step
    <3> QED BY <1>2, <1>5, <1>6
  <2> QED BY <2>1, Zenon DEF After
<1> DEFINE out[n \in 0..Len(effs)] ==
             IF n = 0 THEN {rs}
             ELSE UNION {{[g EXCEPT ![effs[n].dst] = v] : v \in Results(g, effs[n])} :
                         g \in out[n - 1]}
<1>8. out = [n \in 0..Len(effs) |->
             IF n = 0 THEN {rs}
             ELSE UNION {{[g EXCEPT ![effs[n].dst] = v] : v \in Results(g, effs[n])} :
                         g \in out[n - 1]}]
  <2> HIDE DEF effs
  <2> QED BY <1>7, Zenon
<1>9. Outcomes(rs, i) = out[Len(effs)]
  BY DEF Outcomes, add_instr_effects
<1> HIDE DEF out
<1>10. out = [n \in 0..Len(effs) |-> IF n = 0 THEN {rs} ELSE After(out[n - 1], effs[n])]
  BY <1>8, Zenon DEF After
<1> HIDE DEF effs, step
<1>11. out[0] = {rs} /\ \A n \in 1..N : out[n] = After(out[n - 1], effs[n])
  <2>1. \A n \in 0..Len(effs) : out[n] = IF n = 0 THEN {rs} ELSE After(out[n - 1], effs[n])
    BY <1>10, Zenon
  <2>2. 0 \in 0..N /\ \A n \in 1..N : n \in 0..N /\ n # 0
    BY <1>2
  <2> QED BY <2>1, <2>2
<1>12. \A n \in 0..N : out[n] \in SUBSET RegFiles
  <2> DEFINE S == {n \in 0..N : out[n] \in SUBSET RegFiles}
  <2>1. 0 \in S
    BY <1>2, <1>11
  <2>2. ASSUME NEW n \in 0..(N - 1), n \in S
        PROVE  n + 1 \in S
    <3>1. n + 1 \in 1..N /\ (n + 1) - 1 = n
      BY <1>2
    <3>2. out[n + 1] = After(out[n], effs[n + 1])
      BY <1>11, <3>1
    <3>3. out[n] \in SUBSET RegFiles /\ effs[n + 1] \in Effects
      BY <1>2, <2>2, <3>1
    <3>4. out[n + 1] \in SUBSET RegFiles
      BY <3>2, <3>3, AfterType
    <3> QED BY <3>1, <3>4
  <2>3. 0..N \subseteq S
    <3> HIDE DEF S
    <3> QED BY <1>2, <2>1, <2>2, UpTo
  <2> QED BY <2>3
<1>13. out \in [0..N -> SUBSET RegFiles]
  BY <1>10, <1>12
<1> QED BY <1>9, <1>11, <1>13 DEF effs

\* What the solver computes for an instruction describes every outcome of it.
LEMMA InstrSound ==
  ASSUME NEW vals \in Vals, NEW rs \in RegFiles, Describes(vals, rs), NEW i \in Instrs,
         NEW new \in Outcomes(rs, i)
  PROVE  new \in RegFiles /\ Describes(apply_effects(vals, add_instr_effects(i)), new)
<1> DEFINE effs == add_instr_effects(i)
           N == Len(effs)
<1>1. effs \in Seq(Effects)
  BY InstrEffects
<1>2. PICK out \in [0..N -> SUBSET RegFiles] :
        /\ out[0] = {rs}
        /\ \A n \in 1..N : out[n] = After(out[n - 1], effs[n])
        /\ Outcomes(rs, i) = out[N]
  BY OutcomesSteps
<1> HIDE DEF effs
<1>3. N \in Nat /\ \A n \in 1..N : effs[n] \in Effects
  BY <1>1
<1>4. PICK after \in [0..N -> Vals] :
        /\ after[0] = vals
        /\ \A n \in 1..N : after[n] = apply_effect(after[n - 1], effs[n])
        /\ apply_effects(vals, effs) = after[N]
  BY <1>1, ApplyEffects
<1> DEFINE S == {n \in 0..N : \A f \in out[n] : Describes(after[n], f)}
<1>5. 0 \in S
  BY <1>2, <1>3, <1>4
<1>6. ASSUME NEW n \in 0..(N - 1), n \in S
      PROVE  n + 1 \in S
  <2>1. n + 1 \in 1..N /\ (n + 1) - 1 = n /\ n \in 0..N
    BY <1>3
  <2>2. out[n + 1] = After(out[n], effs[n + 1]) /\ after[n + 1] = apply_effect(after[n], effs[n + 1])
    BY <1>2, <1>4, <2>1
  <2>3. effs[n + 1] \in Effects /\ after[n] \in Vals /\ out[n] \in SUBSET RegFiles
    BY <1>2, <1>3, <1>4, <2>1
  <2>4. ASSUME NEW f \in out[n + 1]
        PROVE  Describes(after[n + 1], f)
    <3>1. PICK g \in out[n] :
            \E v \in Results(g, effs[n + 1]) : f = [g EXCEPT ![effs[n + 1].dst] = v]
      BY <2>2 DEF After
    <3> PICK v \in Results(g, effs[n + 1]) : f = [g EXCEPT ![effs[n + 1].dst] = v]
      BY <3>1
    <3>2. g \in RegFiles /\ Describes(after[n], g)
      BY <1>6, <2>3
    <3>3. Describes(apply_effect(after[n], effs[n + 1]), [g EXCEPT ![effs[n + 1].dst] = v])
      BY <2>3, <3>2, EffectSound
    <3> QED BY <2>2, <3>3
  <2> QED BY <2>1, <2>4
<1>7. 0..N \subseteq S
  <2> HIDE DEF S, N
  <2> QED BY <1>3, <1>5, <1>6, UpTo
<1>8. N \in 0..N
  BY <1>3
<1>9. new \in out[N] /\ out[N] \in SUBSET RegFiles /\ Describes(after[N], new)
  BY <1>2, <1>7, <1>8
<1> QED BY <1>4, <1>9 DEF effs

-----------------------------------------------------------------------------
(* Blocks. *)

LEMMA ProgramFacts ==
  ASSUME NEW p \in Programs
  PROVE  /\ Len(p) \in Nat /\ Len(p) # 0
         /\ \A a \in Addrs(p) : p[a] \in Instrs /\ p[a].flow \in Flows
<1>1. p \in Seq(Instrs) /\ p # <<>>
  BY SccpAssumption
<1>2. Len(p) \in Nat /\ Len(p) # 0 /\ \A a \in 1..Len(p) : p[a] \in Instrs
  BY <1>1
<1> QED BY <1>2 DEF Addrs, Instrs

LEMMA ApplyEffectsType ==
  ASSUME NEW vals \in Vals, NEW effs \in Seq(Effects)
  PROVE  apply_effects(vals, effs) \in Vals
<1>1. PICK after \in [0..Len(effs) -> Vals] : apply_effects(vals, effs) = after[Len(effs)]
  BY ApplyEffects
<1>2. Len(effs) \in 0..Len(effs)
  OBVIOUS
<1> QED BY <1>1, <1>2

\* The values along a block follow from the ones before, one instruction at a
\* time.
LEMMA BlockVals ==
  ASSUME NEW p \in Programs, NEW b \in find_block_starts(p), NEW vals \in Vals
  PROVE  /\ block_vals(p, b, vals) \in [0..(BlockEnd(p, b) - b) -> Vals]
         /\ block_vals(p, b, vals)[0] = vals
         /\ \A n \in 1..(BlockEnd(p, b) - b) :
              block_vals(p, b, vals)[n] =
                apply_effects(block_vals(p, b, vals)[n - 1], add_instr_effects(p[b + n - 1]))
<1> DEFINE N == BlockEnd(p, b) - b
           F(d, n) == apply_effects(d, add_instr_effects(p[b + n - 1]))
<1>1. N \in Nat /\ \A n \in 1..N : b + n - 1 \in Addrs(p)
  <2>1. b \in 1..Len(p) /\ BlockEnd(p, b) \in (b + 1)..(Len(p) + 1) /\ Len(p) \in Nat
    BY ProgramFacts, Starts, Ends DEF Addrs
  <2> QED BY <2>1 DEF Addrs
<1>2. \A n \in 1..N, d \in Vals : F(d, n) \in Vals
  BY <1>1, ProgramFacts, InstrEffects, ApplyEffectsType
<1>3. PICK f \in [0..N -> Vals] : f[0] = vals /\ \A n \in 1..N : f[n] = F(f[n - 1], n)
  <2> DEFINE step == [n \in 1..N |-> [d \in Vals |-> F(d, n)]]
  <2> HIDE DEF F, N
  <2>1. step \in [1..N -> [Vals -> Vals]]
    BY <1>2
  <2>2. \A n \in 1..N, d \in Vals : step[n][d] = F(d, n)
    OBVIOUS
  <2> HIDE DEF step
  <2>3. PICK f \in [0..N -> Vals] : Iterates(f, vals, step, N)
    BY <1>1, <2>1, RecursionExists
  <2>4. \A n \in 1..N : f[n] = step[n][f[n - 1]] /\ f[n - 1] \in Vals
    BY <1>1, <2>3 DEF Iterates
  <2>5. f[0] = vals /\ \A n \in 1..N : f[n] = F(f[n - 1], n)
    BY <2>2, <2>3, <2>4 DEF Iterates
  <2> QED BY <2>5
<1>4. f = [n \in 0..N |-> IF n = 0 THEN vals ELSE F(f[n - 1], n)]
  <2> HIDE DEF F, N
  <2> QED BY <1>1, <1>3
<1> DEFINE after[n \in 0..(BlockEnd(p, b) - b)] ==
             IF n = 0 THEN vals
             ELSE apply_effects(after[n - 1], add_instr_effects(p[b + n - 1]))
<1>5. after = [n \in 0..(BlockEnd(p, b) - b) |->
                 IF n = 0 THEN vals
                 ELSE apply_effects(after[n - 1], add_instr_effects(p[b + n - 1]))]
  BY <1>4, Zenon
<1>6. block_vals(p, b, vals) = after
  BY DEF block_vals
<1> HIDE DEF after
<1>7. after = [n \in 0..N |-> IF n = 0 THEN vals ELSE F(after[n - 1], n)]
  BY <1>5
<1> HIDE DEF F, N
<1>8. after[0] = vals /\ \A n \in 1..N : after[n] = F(after[n - 1], n)
  BY <1>1, <1>7
<1>9. \A n \in 0..N : after[n] \in Vals
  <2> DEFINE S == {n \in 0..N : after[n] \in Vals}
  <2>1. 0 \in S
    BY <1>1, <1>8
  <2>2. ASSUME NEW n \in 0..(N - 1), n \in S
        PROVE  n + 1 \in S
    <3>1. n + 1 \in 1..N /\ (n + 1) - 1 = n
      BY <1>1
    <3>2. after[n + 1] = F(after[n], n + 1) /\ after[n] \in Vals
      BY <1>8, <2>2, <3>1
    <3>3. after[n + 1] \in Vals
      BY <1>2, <3>1, <3>2
    <3> QED BY <3>1, <3>3
  <2>3. 0..N \subseteq S
    <3> HIDE DEF S
    <3> QED BY <1>1, <2>1, <2>2, UpTo
  <2> QED BY <2>3
<1>10. after \in [0..N -> Vals]
  BY <1>7, <1>9
<1> QED BY <1>6, <1>8, <1>10 DEF F, N

-----------------------------------------------------------------------------
(* Folding. *)

\* What the solver knows of a test is what the machine finds.
LEMMA TestSound ==
  ASSUME NEW vals \in Vals, NEW test \in [cc : {"eq", "ne", "lt"}, src : Regs, mask : Word]
  PROVE  /\ tested_zero(test, vals) \in {{}, {TRUE}, {FALSE}}
         /\ \A rs \in RegFiles : Describes(vals, rs) =>
              \A z \in tested_zero(test, vals) : z = ZeroTested(test, rs)
<1> DEFINE v == vals[test.src]
<1>1. v \in Value /\ test.src \in Regs
  BY DEF Vals
<1>2. CASE test.src = FLAGS
  <2>1. tested_zero(test, vals) = flags_zero(v)
    BY <1>2 DEF tested_zero
  <2>2. CASE v \in {Bot, Top}
    BY <2>1, <2>2 DEF flags_zero
  <2>3. CASE v \in Word
    <3> HIDE DEF v
    <3>1. flags_zero(v) = IF v = 0 THEN {TRUE}
                          ELSE IF v % Pow2[LowBits] # 0 THEN {FALSE} ELSE {}
      BY <2>3, WordFacts DEF flags_zero
    <3>2. ASSUME NEW rs \in RegFiles, Describes(vals, rs)
          PROVE  /\ v = 0 => rs[FLAGS] = 0
                 /\ v % Pow2[LowBits] # 0 => rs[FLAGS] # 0
      <4>1. rs[FLAGS] \in Gamma(FLAGS, v)
        BY <1>1, <1>2, <3>2 DEF Describes, v
      <4>2. rs[FLAGS] = v \/ \E w \in Widths : rs[FLAGS] = v % Pow2[w]
        BY <2>3, <4>1, WordFacts DEF Gamma
      <4>3. \A w \in Widths : /\ v = 0 => v % Pow2[w] = 0
                              /\ v % Pow2[LowBits] # 0 => v # 0 /\ v % Pow2[w] # 0
        BY <2>3, Cut DEF Widths
      <4>4. W \in Widths
        BY WordAssumption, SccpAssumption DEF Widths
      <4> QED BY <4>2, <4>3, <4>4
    <3>3. \A rs : ZeroTested(test, rs) = (rs[FLAGS] = 0)
      BY <1>2 DEF ZeroTested
    <3>4. CASE v = 0
      <4>1. tested_zero(test, vals) = {TRUE}
        BY <2>1, <3>1, <3>4
      <4>2. \A rs \in RegFiles : Describes(vals, rs) => ZeroTested(test, rs) = TRUE
        BY <3>2, <3>3, <3>4
      <4> QED BY <4>1, <4>2, Zenon
    <3>5. CASE v # 0 /\ v % Pow2[LowBits] # 0
      <4>1. tested_zero(test, vals) = {FALSE}
        BY <2>1, <3>1, <3>5
      <4>2. \A rs \in RegFiles : Describes(vals, rs) => ZeroTested(test, rs) = FALSE
        BY <3>2, <3>3, <3>5
      <4> QED BY <4>1, <4>2, Zenon
    <3>6. CASE v # 0 /\ ~(v % Pow2[LowBits] # 0)
      <4>1. tested_zero(test, vals) = {}
        BY <2>1, <3>1, <3>6
      <4> QED BY <4>1
    <3> QED BY <3>4, <3>5, <3>6
  <2> QED BY <1>1, <2>2, <2>3, WordFacts
<1>3. CASE test.src # FLAGS
  <2>1. tested_zero(test, vals) = IF v \in {Bot, Top} THEN {} ELSE {BitAnd(v, test.mask) = 0}
    BY <1>3 DEF tested_zero
  <2>2. ASSUME v \notin {Bot, Top}, NEW rs \in RegFiles, Describes(vals, rs)
        PROVE  rs[test.src] = v
    BY <1>1, <1>3, <2>2 DEF Describes, Gamma
  <2>3. \A rs : ZeroTested(test, rs) = (BitAnd(rs[test.src], test.mask) = 0)
    BY <1>3 DEF ZeroTested
  <2> HIDE DEF v
  <2>4. CASE v \in {Bot, Top}
    BY <2>1, <2>4
  <2>5. CASE v \notin {Bot, Top}
    <3> DEFINE z == BitAnd(v, test.mask) = 0
    <3>1. tested_zero(test, vals) = {z} /\ z \in BOOLEAN
      BY <2>1, <2>5
    <3>2. \A rs \in RegFiles : Describes(vals, rs) => z = ZeroTested(test, rs)
      BY <2>2, <2>3, <2>5
    <3> HIDE DEF z
    <3> QED BY <3>1, <3>2
  <2> QED BY <2>4, <2>5
<1> QED BY <1>2, <1>3

\* A branch is folded only the way the machine takes it.
LEMMA BranchSound ==
  ASSUME NEW vals \in Vals, NEW test \in [cc : {"eq", "ne", "lt"}, src : Regs, mask : Word]
  PROVE  LET taken == resolve_branch(test.cc, tested_zero(test, vals))
         IN /\ taken \in {{}, {TRUE}, {FALSE}}
            /\ \A rs \in RegFiles : Describes(vals, rs) =>
                 \A t \in taken : MayBeTaken(test, rs) = {t}
<1> DEFINE zero == tested_zero(test, vals)
<1>1. zero \in {{}, {TRUE}, {FALSE}} /\ test.cc \in {"eq", "ne", "lt"}
  BY TestSound
<1>2. \A rs \in RegFiles : Describes(vals, rs) => \A z \in zero : z = ZeroTested(test, rs)
  BY TestSound
<1> HIDE DEF zero
<1>3. CASE test.cc = "eq"
  <2>1. resolve_branch(test.cc, zero) = zero
    BY <1>3 DEF resolve_branch
  <2>2. \A rs : MayBeTaken(test, rs) = {ZeroTested(test, rs)}
    BY <1>3 DEF MayBeTaken
  <2> QED BY <1>1, <1>2, <2>1, <2>2 DEF zero
<1>4. CASE test.cc = "ne"
  <2>1. resolve_branch(test.cc, zero) = {~z : z \in zero}
    BY <1>4 DEF resolve_branch
  <2>2. \A rs : MayBeTaken(test, rs) = {~ZeroTested(test, rs)}
    BY <1>4 DEF MayBeTaken
  <2>3. {~z : z \in zero} \in {{}, {TRUE}, {FALSE}}
    BY <1>1
  <2> QED BY <1>2, <2>1, <2>2, <2>3 DEF zero
<1>5. CASE test.cc = "lt"
  <2>1. resolve_branch(test.cc, zero) = {}
    BY <1>5 DEF resolve_branch
  <2> QED BY <2>1 DEF zero
<1> QED BY <1>1, <1>3, <1>4, <1>5

LEMMA LastInstr ==
  ASSUME NEW p \in Programs, NEW b \in find_block_starts(p)
  PROVE  /\ BlockEnd(p, b) - 1 \in Addrs(p)
         /\ find_last_instr(p, b) = p[BlockEnd(p, b) - 1]
         /\ find_last_instr(p, b) \in Instrs
<1>1. b \in 1..Len(p) /\ BlockEnd(p, b) \in (b + 1)..(Len(p) + 1)
  BY ProgramFacts, Starts, Ends DEF Addrs
<1>2. BlockEnd(p, b) - 1 \in Addrs(p)
  BY <1>1 DEF Addrs
<1> QED BY <1>2, ProgramFacts DEF find_last_instr

\* Feasible successors are among the edges: all of them, or the targets, or
\* the others.
LEMMA FeasibleCases ==
  ASSUME NEW p \in Programs, NEW b \in find_block_starts(p), NEW vals \in Vals
  PROVE  LET last  == find_last_instr(p, b)
             edges == compute_edges(p, b)
             succs == feasible_succs(p, b, vals)
             taken == resolve_branch(last.test.cc, tested_zero(last.test, vals))
         IN /\ succs \in Seq(find_block_starts(p))
            /\ \/ Range(succs) = Range(edges)
               \/ /\ cond_term(p, b) /\ taken = {TRUE}
                  /\ Range(succs) = Range(edges) \cap last.targets
               \/ /\ cond_term(p, b) /\ taken = {FALSE}
                  /\ Range(succs) = Range(edges) \cap (find_block_starts(p) \ last.targets)
<1> DEFINE B == find_block_starts(p)
           last == find_last_instr(p, b)
           edges == compute_edges(p, b)
           succs == feasible_succs(p, b, vals)
           branch == resolve_branch(last.test.cc, tested_zero(last.test, vals))
           taken == IF cond_term(p, b) THEN branch ELSE {}
<1>1. edges \in Seq(B)
  BY ProgramFacts, Edges
<1>2. taken \in {{}, {TRUE}, {FALSE}}
  <2>1. last \in Instrs
    BY LastInstr
  <2>2. last.test \in [cc : {"eq", "ne", "lt"}, src : Regs, mask : Word]
    BY <2>1 DEF Instrs
  <2>3. branch \in {{}, {TRUE}, {FALSE}}
    BY <2>2, BranchSound
  <2> QED BY <2>3
<1>3. succs = CASE taken = {}      -> edges
                [] taken = {TRUE}  -> Keep(edges, last.targets)
                [] taken = {FALSE} -> Keep(edges, B \ last.targets)
  BY DEF feasible_succs
<1> HIDE DEF B, last, edges, succs, branch
<1>4. CASE taken = {}
  BY <1>1, <1>3, <1>4 DEF B, last, edges, succs
<1>5. CASE taken = {TRUE}
  <2>1. succs = Keep(edges, last.targets) /\ cond_term(p, b) /\ branch = {TRUE}
    BY <1>3, <1>5
  <2>2. succs \in Seq(B) /\ Range(succs) = Range(edges) \cap last.targets
    BY <1>1, <2>1, KeepValues
  <2> QED BY <2>1, <2>2 DEF B, last, edges, succs, branch
<1>6. CASE taken = {FALSE}
  <2>1. succs = Keep(edges, B \ last.targets) /\ cond_term(p, b) /\ branch = {FALSE}
    BY <1>3, <1>6
  <2>2. succs \in Seq(B) /\ Range(succs) = Range(edges) \cap (B \ last.targets)
    BY <1>1, <2>1, KeepValues
  <2> QED BY <2>1, <2>2 DEF B, last, edges, succs, branch
<1> QED BY <1>2, <1>4, <1>5, <1>6

\* Control leaves a block along a feasible edge.
LEMMA FeasibleSound ==
  ASSUME prog \in Programs, NEW b \in Blocks, NEW vals \in Vals, NEW rs \in RegFiles,
         Describes(vals, rs),
         NEW next \in NextAddrs(BlockEnd(prog, b) - 1, rs), next # 0
  PROVE  next \in Range(feasible_succs(prog, b, vals)) /\ next \in Blocks
<1> DEFINE e == BlockEnd(prog, b)
           i == prog[e - 1]
           edges == compute_edges(prog, b)
           succs == feasible_succs(prog, b, vals)
           onward == {IF e - 1 < Len(prog) THEN (e - 1) + 1 ELSE 0}
<1>1. /\ b \in find_block_starts(prog) /\ find_last_instr(prog, b) = i /\ i \in Instrs
      /\ e - 1 \in Addrs(prog) /\ Len(prog) \in Nat
  BY LastInstr, ProgramFacts DEF Blocks
<1>2. /\ i.flow \in Flows /\ i.targets \subseteq 0..Len(prog)
      /\ i.dests \subseteq {0} \cup Blocks
      /\ i.test \in [cc : {"eq", "ne", "lt"}, src : Regs, mask : Word]
  BY <1>1, SccpAssumption DEF Instrs, IndirectSound, Blocks
<1>3. e \in Int /\ (e - 1 < Len(prog) <=> e <= Len(prog)) /\ (e - 1) + 1 = e
  BY <1>1, ProgramFacts, Starts, Ends DEF Addrs, Blocks
<1>4. onward \subseteq {0, e} /\ (e \in onward => e <= Len(prog) \/ e = 0)
  BY <1>3
<1>5. \A x \in i.targets : x # 0 => x \in Addrs(prog)
  BY <1>1, <1>2 DEF Addrs
<1>6. /\ edges \in Seq(Blocks)
      /\ \/ i.flow \in {"Normal", "IndirectCall", "ConditionalBranch"}
         \/ i.flow = "Call" /\ ~is_noreturn_call(i, FALSE)
         => (e <= Len(prog) => e \in Range(edges))
      /\ i.flow \in {"UnconditionalBranch", "ConditionalBranch"} =>
           Addrs(prog) \cap i.targets \subseteq Range(edges)
      /\ i.flow = "IndirectBranch" => Range(edges) = Blocks
  BY <1>1, ProgramFacts, Edges DEF Blocks
<1> DEFINE taken == resolve_branch(i.test.cc, tested_zero(i.test, vals))
<1>7. /\ succs \in Seq(Blocks)
      /\ \/ Range(succs) = Range(edges)
         \/ cond_term(prog, b) /\ taken = {TRUE} /\ Range(succs) = Range(edges) \cap i.targets
         \/ /\ cond_term(prog, b) /\ taken = {FALSE}
            /\ Range(succs) = Range(edges) \cap (Blocks \ i.targets)
  BY <1>1, FeasibleCases DEF Blocks
<1>8. cond_term(prog, b) => i.flow = "ConditionalBranch" /\ e \notin i.targets
  <2> SUFFICES ASSUME cond_term(prog, b)
               PROVE  i.flow = "ConditionalBranch" /\ e \notin i.targets
    OBVIOUS
  <2>1. /\ i.flow = "ConditionalBranch" /\ e <= Len(prog)
        /\ \E t \in Addrs(prog) \ {e} : InFunction(prog, i.targets) = {t}
    BY <1>1 DEF cond_term
  <2>2. e \in Addrs(prog)
    BY <1>1, <1>3, <2>1 DEF Addrs
  <2> HIDE DEF e, i
  <2> QED BY <2>1, <2>2 DEF InFunction
<1>9. \A t \in taken : MayBeTaken(i.test, rs) = {t}
  BY <1>2, BranchSound
<1>10. next \in (CASE i.flow \in {"Normal", "IndirectCall"} -> onward
                   [] i.flow = "Call" -> IF is_noreturn_call(i, TRUE) THEN {0} ELSE onward
                   [] i.flow = "UnconditionalBranch" -> i.targets
                   [] i.flow = "ConditionalBranch" ->
                        UNION {IF t THEN i.targets ELSE onward : t \in MayBeTaken(i.test, rs)}
                   [] i.flow = "IndirectBranch" -> i.dests
                   [] i.flow \in {"Return", "Halt"} -> {0})
  BY DEF NextAddrs
<1>11. next \in Range(edges)
  <2> HIDE DEF e, i, edges, onward, succs, taken
  <2>1. next \in onward => next = e /\ e <= Len(prog)
    BY <1>4
  <2>2. CASE i.flow \in {"Normal", "IndirectCall"}
    BY <1>6, <1>10, <2>1, <2>2
  <2>3. CASE i.flow = "Call"
    <3>1. ~is_noreturn_call(i, TRUE) /\ next \in onward
      BY <1>10, <2>3
    <3>2. ~is_noreturn_call(i, FALSE)
      BY <3>1 DEF is_noreturn_call
    <3> QED BY <1>6, <2>1, <2>3, <3>1, <3>2
  <2>4. CASE i.flow = "UnconditionalBranch"
    BY <1>5, <1>6, <1>10, <2>4
  <2>5. CASE i.flow = "ConditionalBranch"
    <3>1. next \in i.targets \/ next \in onward
      BY <1>10, <2>5
    <3> QED BY <1>5, <1>6, <2>1, <2>5, <3>1
  <2>6. CASE i.flow = "IndirectBranch"
    BY <1>2, <1>6, <1>10, <2>6
  <2>7. CASE i.flow \in {"Return", "Halt"}
    BY <1>10, <2>7
  <2> QED BY <1>2, <2>2, <2>3, <2>4, <2>5, <2>6, <2>7 DEF Flows
<1>12. next \in Blocks
  <2> HIDE DEF edges
  <2> QED BY <1>6, <1>11 DEF Range
<1>13. next \in Range(succs)
  <2> HIDE DEF e, i, edges, onward, succs, taken
  <2>1. CASE Range(succs) = Range(edges)
    BY <1>11, <2>1
  <2>2. CASE /\ cond_term(prog, b) /\ taken = {TRUE}
             /\ Range(succs) = Range(edges) \cap i.targets
    <3>1. MayBeTaken(i.test, rs) = {TRUE}
      BY <1>9, <2>2
    <3>2. next \in i.targets
      BY <1>8, <1>10, <2>2, <3>1
    <3> QED BY <1>11, <2>2, <3>2
  <2>3. CASE /\ cond_term(prog, b) /\ taken = {FALSE}
             /\ Range(succs) = Range(edges) \cap (Blocks \ i.targets)
    <3>1. MayBeTaken(i.test, rs) = {FALSE}
      BY <1>9, <2>3
    <3>2. next \in onward
      BY <1>8, <1>10, <2>3, <3>1
    <3>3. next \notin i.targets
      BY <1>4, <1>8, <2>3, <3>2
    <3> QED BY <1>11, <1>12, <2>3, <3>3
  <2> QED BY <1>7, <2>1, <2>2, <2>3
<1> QED BY <1>12, <1>13

-----------------------------------------------------------------------------
(* The worklist solver. *)

TypeInv ==
  /\ prog \in Programs
  /\ worklist \in Seq(Blocks)
  /\ TypeOK

LEMMA BlocksFacts ==
  ASSUME prog \in Programs
  PROVE  /\ Blocks \subseteq Addrs(prog) /\ 1 \in Blocks
         /\ Len(prog) \in Nat /\ Len(prog) # 0
         /\ IterFactor * Cardinality(Blocks) \in Nat
<1>1. /\ Blocks \subseteq Addrs(prog) /\ 1 \in Blocks
      /\ Len(prog) \in Nat /\ Len(prog) # 0
  BY ProgramFacts, Starts DEF Blocks
<1>2. IsFiniteSet(1..Len(prog))
  BY <1>1, FS_Interval
<1>3. Cardinality(Blocks) \in Nat
  BY <1>1, <1>2, FS_Subset, FS_CardinalityType DEF Addrs
<1>4. \A m, n \in Nat : m * n \in Nat
  OBVIOUS
<1> QED BY <1>1, <1>3, <1>4, SccpAssumption

\* The values the solver has for a place inside a block.
LEMMA EvalType ==
  ASSUME TypeInv, NEW b \in Blocks
  PROVE  /\ \A stop \in b..BlockEnd(prog, b) : eval_until(b, stop) \in Vals
         /\ eval_until(b, b) = reg_vals[b]
         /\ eval_block(b) \in Vals
<1>1. b \in find_block_starts(prog) /\ reg_vals[b] \in Vals /\ prog \in Programs
  BY DEF TypeInv, TypeOK, Blocks, Vals
<1>2. /\ block_vals(prog, b, reg_vals[b]) \in [0..(BlockEnd(prog, b) - b) -> Vals]
      /\ block_vals(prog, b, reg_vals[b])[0] = reg_vals[b]
  BY <1>1, BlockVals
<1>3. b \in Int /\ BlockEnd(prog, b) \in Int /\ BlockEnd(prog, b) \in b..BlockEnd(prog, b)
  BY <1>1, BlocksFacts, Ends DEF Addrs, Blocks
<1>4. ASSUME NEW stop \in b..BlockEnd(prog, b)
      PROVE  eval_until(b, stop) \in Vals
  <2>1. stop - b \in 0..(BlockEnd(prog, b) - b)
    BY <1>3
  <2> QED BY <1>2, <2>1 DEF eval_until
<1>5. eval_until(b, b) = reg_vals[b]
  <2>1. b - b = 0
    BY <1>3
  <2> QED BY <1>2, <2>1 DEF eval_until
<1> QED BY <1>3, <1>4, <1>5 DEF eval_block

\* What one turn of the worklist does to the state of the solver.
LEMMA Propagated ==
  ASSUME TypeInv, worklist # <<>>, NEW b \in Blocks, NEW vals \in Vals, NEW succs \in Seq(Blocks),
         propagate_succs(b, vals, succs)
  PROVE  /\ reg_vals' \in [Blocks -> Vals]
         /\ \A s \in Blocks, r \in Regs : Leq(reg_vals[s][r], reg_vals'[s][r])
         /\ \A s \in Range(succs), r \in Regs : Leq(vals[r], reg_vals'[s][r])
         /\ exec_edges' = exec_edges \cup {<<b, s>> : s \in Range(succs)}
         /\ Range(succs) \subseteq Blocks
         /\ worklist' \in Seq(Blocks)
         /\ Range(Tail(worklist)) \subseteq Range(worklist')
         /\ block_exec \subseteq block_exec' /\ block_exec' \subseteq Blocks
         /\ block_exec' \ block_exec \subseteq Range(worklist')
         /\ \A s \in Blocks : reg_vals'[s] # reg_vals[s] => s \in Range(worklist')
         /\ \A s \in Range(succs) : s \in block_exec' \/ <<b, s>> \in exec_edges
<1> DEFINE new(s)     == [r \in Regs |-> meet(reg_vals[s][r], vals[r])]
           changed(s) == <<b, s>> \notin exec_edges \/ new(s) # reg_vals[s]
           C          == {s \in Blocks : changed(s)}
           again      == Keep(succs, C)
<1>1. /\ reg_vals'   = [s \in Blocks |-> IF s \in Range(succs) THEN new(s) ELSE reg_vals[s]]
      /\ exec_edges' = exec_edges \cup {<<b, s>> : s \in Range(succs)}
      /\ block_exec' = block_exec \cup Range(again)
      /\ worklist'   = Tail(worklist) \o again
  BY DEF propagate_succs
<1>2. reg_vals \in [Blocks -> Vals] /\ block_exec \subseteq Blocks /\ worklist \in Seq(Blocks)
  BY DEF TypeInv, TypeOK, Vals
<1>3. again \in Seq(Blocks) /\ Range(again) = Range(succs) \cap C
  <2> HIDE DEF C
  <2> QED BY KeepValues
<1>4. Range(succs) \subseteq Blocks
  BY DEF Range
<1>5. ASSUME NEW s \in Blocks
      PROVE  /\ new(s) \in Vals
             /\ \A r \in Regs : Leq(reg_vals[s][r], new(s)[r]) /\ Leq(vals[r], new(s)[r])
             /\ \A r \in Regs : Leq(reg_vals[s][r], reg_vals[s][r])
  <2>1. \A r \in Regs : reg_vals[s][r] \in Value /\ vals[r] \in Value
    BY <1>2 DEF Vals
  <2>2. \A r \in Regs : /\ meet(reg_vals[s][r], vals[r]) \in Value
                        /\ Leq(reg_vals[s][r], meet(reg_vals[s][r], vals[r]))
                        /\ Leq(vals[r], meet(reg_vals[s][r], vals[r]))
    BY <2>1, MeetFacts
  <2>3. \A r \in Regs : Leq(reg_vals[s][r], reg_vals[s][r])
    BY DEF Leq
  <2> QED BY <2>2, <2>3 DEF Vals
<1>6. Tail(worklist) \in Seq(Blocks)
  BY <1>2, RangeOfTail
<1> HIDE DEF again
<1>7. worklist' \in Seq(Blocks) /\ Range(worklist') = Range(Tail(worklist)) \cup Range(again)
  <2> DEFINE rest == Tail(worklist)
  <2> HIDE DEF rest
  <2>1. rest \in Seq(Blocks) /\ again \in Seq(Blocks)
    BY <1>3, <1>6 DEF rest
  <2>2. rest \o again \in Seq(Blocks) /\ Range(rest \o again) = Range(rest) \cup Range(again)
    BY <2>1, RangeOfConcat, Zenon
  <2>3. worklist' = rest \o again
    BY <1>1 DEF rest
  <2> QED BY <2>2, <2>3, Zenon DEF rest
<1>8. /\ reg_vals' \in [Blocks -> Vals]
      /\ \A s \in Blocks, r \in Regs : Leq(reg_vals[s][r], reg_vals'[s][r])
      /\ \A s \in Range(succs), r \in Regs : Leq(vals[r], reg_vals'[s][r])
  <2> HIDE DEF new
  <2> QED BY <1>1, <1>2, <1>4, <1>5
<1>9. \A s \in Blocks : reg_vals'[s] # reg_vals[s] => s \in Range(again)
  <2> HIDE DEF new
  <2> QED BY <1>1, <1>3
<1>10. \A s \in Range(succs) : s \in Range(again) \/ <<b, s>> \in exec_edges
  <2> HIDE DEF new
  <2> QED BY <1>3, <1>4
<1>11. block_exec' \subseteq Blocks
  BY <1>1, <1>2, <1>3, <1>4
<1> QED BY <1>1, <1>4, <1>7, <1>8, <1>9, <1>10, <1>11

LEMMA TypeStart ==
  ASSUME Init
  PROVE  TypeInv
<1>1. prog \in Programs /\ 1 \in Blocks
  BY BlocksFacts DEF Init
<1>2. worklist \in Seq(Blocks) /\ Range(worklist) \subseteq Blocks
  BY <1>1 DEF Init, Range
<1>3. reg_vals \in [Blocks -> [Regs -> Value]]
  BY WordFacts DEF Init, init_entry_regs
<1>4. regs \in [Regs -> Word]
  BY WordFacts DEF Init
<1>5. iterations \in 0..(IterFactor * Cardinality(Blocks)) /\ at \in 0..Len(prog)
  BY <1>1, BlocksFacts DEF Init
<1> QED BY <1>1, <1>2, <1>3, <1>4, <1>5 DEF Init, TypeInv, TypeOK

\* Every next-state relation leaves the function and its blocks alone.
LEMMA BlocksKept ==
  ASSUME [Next]_vars
  PROVE  prog' = prog /\ Blocks' = Blocks
<1>1. prog' = prog
  BY DEF Next, vars, Start, Visit, GiveUp, Converge, Report, Step, Returned
<1> QED BY <1>1 DEF Blocks

\* A turn of the worklist that finds an executable block.
LEMMA VisitTurn ==
  ASSUME TypeInv, Visit, Head(worklist) \in block_exec
  PROVE  LET b == Head(worklist)
             vals == eval_block(b)
             succs == feasible_succs(prog, b, vals)
         IN b \in Blocks /\ vals \in Vals /\ succs \in Seq(Blocks) /\ propagate_succs(b, vals, succs)
<1> DEFINE b == Head(worklist)
           vals == eval_block(b)
           succs == feasible_succs(prog, b, vals)
<1>1. worklist # <<>> /\ worklist \in Seq(Blocks) /\ prog \in Programs
  BY DEF Visit, TypeInv
<1>2. b \in Blocks
  BY <1>1, RangeOfTail
<1>3. vals \in Vals
  BY <1>2, EvalType
<1>4. propagate_succs(b, vals, succs)
  BY DEF Visit
<1> HIDE DEF b, vals
<1>5. succs \in Seq(Blocks)
  BY <1>1, <1>2, <1>3, FeasibleCases DEF Blocks
<1> QED BY <1>2, <1>3, <1>4, <1>5 DEF b, vals

LEMMA NextAddrsType ==
  ASSUME prog \in Programs, NEW a \in Addrs(prog), NEW rs
  PROVE  NextAddrs(a, rs) \subseteq 0..Len(prog)
<1> DEFINE i == prog[a]
           onward == {IF a < Len(prog) THEN a + 1 ELSE 0}
<1>1. Len(prog) \in Nat /\ i.flow \in Flows
  BY ProgramFacts
<1>2. onward \subseteq 0..Len(prog) /\ 0 \in 0..Len(prog)
  BY <1>1 DEF Addrs
<1>3. i.targets \subseteq 0..Len(prog)
  BY SccpAssumption
<1>4. i.dests \subseteq 0..Len(prog)
  <2>1. i.dests \subseteq {0} \cup find_block_starts(prog)
    BY SccpAssumption DEF IndirectSound
  <2>2. find_block_starts(prog) \subseteq 1..Len(prog)
    BY BlocksFacts DEF Blocks, Addrs
  <2> QED BY <1>1, <2>1, <2>2
<1>5. NextAddrs(a, rs) =
        CASE i.flow \in {"Normal", "IndirectCall"} -> onward
          [] i.flow = "Call" -> IF is_noreturn_call(i, TRUE) THEN {0} ELSE onward
          [] i.flow = "UnconditionalBranch" -> i.targets
          [] i.flow = "ConditionalBranch" ->
               UNION {IF t THEN i.targets ELSE onward : t \in MayBeTaken(i.test, rs)}
          [] i.flow = "IndirectBranch" -> i.dests
          [] i.flow \in {"Return", "Halt"} -> {0}
  BY DEF NextAddrs
<1> HIDE DEF i, onward
<1>6. CASE i.flow \in {"Normal", "IndirectCall"}
  BY <1>2, <1>5, <1>6
<1>7. CASE i.flow = "Call"
  BY <1>2, <1>5, <1>7
<1>8. CASE i.flow = "UnconditionalBranch"
  BY <1>3, <1>5, <1>8
<1>9. CASE i.flow = "ConditionalBranch"
  BY <1>2, <1>3, <1>5, <1>9
<1>10. CASE i.flow = "IndirectBranch"
  BY <1>4, <1>5, <1>10
<1>11. CASE i.flow \in {"Return", "Halt"}
  BY <1>2, <1>5, <1>11
<1> QED BY <1>1, <1>6, <1>7, <1>8, <1>9, <1>10, <1>11 DEF Flows

LEMMA TypeStep ==
  ASSUME TypeInv, [Next]_vars
  PROVE  TypeInv'
<1> USE DEF TypeInv
<1>1. prog' = prog /\ Blocks' = Blocks /\ prog \in Programs
  BY BlocksKept
<1>2. /\ Len(prog) \in Nat /\ Len(prog) # 0
      /\ IterFactor * Cardinality(Blocks) \in Nat /\ Blocks \subseteq Addrs(prog)
  BY <1>1, BlocksFacts
<1>3. CASE Start
  BY <1>1, <1>3 DEF Start, solver, TypeOK
<1>4. CASE GiveUp
  BY <1>1, <1>4 DEF GiveUp, solver, TypeOK
<1>5. CASE Converge
  BY <1>1, <1>5 DEF Converge, solver, TypeOK
<1>6. CASE Report
  <2>1. at' \in 0..Len(prog)
    BY <1>2, <1>6 DEF Report
  <2> QED BY <1>1, <1>6, <2>1 DEF Report, solver, TypeOK
<1>7. CASE Visit
  <2>1. iterations' \in 0..(IterFactor * Cardinality(Blocks))
    BY <1>2, <1>7 DEF Visit, TypeOK
  <2>2. CASE Head(worklist) \in block_exec
    <3> DEFINE b == Head(worklist)
               vals == eval_block(b)
               succs == feasible_succs(prog, b, vals)
    <3>1. /\ b \in Blocks /\ vals \in Vals /\ succs \in Seq(Blocks)
          /\ propagate_succs(b, vals, succs)
      BY <1>7, <2>2, VisitTurn
    <3> HIDE DEF b, vals, succs
    <3>2. worklist # <<>>
      BY <1>7 DEF Visit
    <3>3. /\ reg_vals' \in [Blocks -> Vals]
          /\ exec_edges' = exec_edges \cup {<<b, s>> : s \in Range(succs)}
          /\ Range(succs) \subseteq Blocks
          /\ worklist' \in Seq(Blocks)
          /\ block_exec' \subseteq Blocks
      BY <3>1, <3>2, Propagated
    <3>4. Range(worklist') \subseteq Blocks
      BY <3>3 DEF Range
    <3>5. exec_edges' \subseteq Blocks \X Blocks
      BY <3>1, <3>3 DEF TypeOK
    <3> QED BY <1>1, <1>7, <2>1, <3>3, <3>4, <3>5 DEF Visit, TypeOK, Vals
  <2>3. CASE Head(worklist) \notin block_exec
    <3>1. worklist' = Tail(worklist) /\ UNCHANGED <<reg_vals, exec_edges, block_exec>>
      BY <1>7, <2>3 DEF Visit
    <3>2. worklist' \in Seq(Blocks)
      BY <1>7, <3>1, RangeOfTail DEF Visit
    <3>3. Range(worklist') \subseteq Blocks
      BY <3>2 DEF Range
    <3> QED BY <1>1, <1>7, <2>1, <3>1, <3>2, <3>3 DEF Visit, TypeOK
  <2> QED BY <2>2, <2>3
<1>8. CASE Step
  <2>1. at \in Addrs(prog) /\ regs \in RegFiles
    BY <1>2, <1>8 DEF Step, TypeOK, Addrs, RegFiles
  <2>2. prog[at] \in Instrs
    BY <1>1, <2>1, ProgramFacts
  <2>3. regs' \in RegFiles
    <3>1. PICK out \in [0..Len(add_instr_effects(prog[at])) -> SUBSET RegFiles] :
            Outcomes(regs, prog[at]) = out[Len(add_instr_effects(prog[at]))]
      BY <2>1, <2>2, OutcomesSteps
    <3>2. Len(add_instr_effects(prog[at])) \in 0..Len(add_instr_effects(prog[at]))
      BY <2>2, InstrEffects
    <3>3. regs' \in Outcomes(regs, prog[at])
      BY <1>8 DEF Step
    <3> QED BY <3>1, <3>2, <3>3
  <2>4. at' \in 0..Len(prog)
    BY <1>1, <1>8, <2>1, NextAddrsType DEF Step
  <2> QED BY <1>1, <1>8, <2>3, <2>4 DEF Step, solver, TypeOK, RegFiles
<1>9. CASE Returned \/ UNCHANGED vars
  BY <1>1, <1>9 DEF Returned, vars, solver, TypeOK
<1> QED BY <1>3, <1>4, <1>5, <1>6, <1>7, <1>8, <1>9 DEF Next

LEMMA TypeAlways == Spec => []TypeInv
<1>1. Init => TypeInv
  BY TypeStart
<1>2. TypeInv /\ [Next]_vars => TypeInv'
  BY TypeStep
<1> QED BY <1>1, <1>2, PTL DEF Spec

(***************************************************************************)
(* Whatever the function, everything the solver folds stays a machine      *)
(* word, it queues only blocks of the function and takes at most           *)
(* IterFactor turns per block; the execution stays inside the function.    *)
(***************************************************************************)
THEOREM TypeCorrect == Spec => []TypeOK
<1>1. TypeInv => TypeOK
  BY DEF TypeInv
<1> QED BY <1>1, TypeAlways, PTL

(***************************************************************************)
(* OnlyUp of run_sccp: no turn of the worklist moves a value down the      *)
(* lattice or makes an executable block unreachable again.                 *)
(***************************************************************************)
THEOREM SolverOnlyUp == Spec => OnlyUp
<1> DEFINE Up == /\ block_exec \subseteq block_exec'
                 /\ \A b \in Blocks, r \in Regs : Leq(reg_vals[b][r], reg_vals'[b][r])
<1>1. TypeInv /\ [Next]_vars => [Up]_vars
  <2> SUFFICES ASSUME TypeInv, Next
               PROVE  Up
    OBVIOUS
  <2>1. CASE reg_vals' = reg_vals /\ block_exec' = block_exec
    BY <2>1 DEF Leq
  <2>2. CASE Visit /\ Head(worklist) \in block_exec
    <3> DEFINE b == Head(worklist)
               vals == eval_block(b)
               succs == feasible_succs(prog, b, vals)
    <3>1. /\ b \in Blocks /\ vals \in Vals /\ succs \in Seq(Blocks)
          /\ propagate_succs(b, vals, succs) /\ worklist # <<>>
      BY <2>2, VisitTurn DEF Visit
    <3> HIDE DEF b, vals, succs
    <3> QED BY <3>1, Propagated
  <2>3. CASE Visit /\ Head(worklist) \notin block_exec
    BY <2>1, <2>3 DEF Visit
  <2> QED
    BY <2>1, <2>2, <2>3 DEF Next, Start, GiveUp, Converge, Report, Step, Returned, solver, vars
<1>2. OnlyUp <=> [][Up]_vars
  BY DEF OnlyUp
<1> QED BY <1>1, <1>2, TypeAlways, PTL DEF Spec

-----------------------------------------------------------------------------
(* The fixpoint. *)

\* The ends of executable edges are executable, the entry is and knows
\* nothing, and whoever is not waiting has told its successors everything.
SolveInv ==
  /\ \A b \in Blocks, s \in Blocks : <<b, s>> \in exec_edges => s \in block_exec
  /\ 1 \in block_exec /\ \A r \in Regs : reg_vals[1][r] = Top
  /\ \A b \in block_exec : b \in Range(worklist) \/ Settled(b)
  /\ pc \in {"find", "run"} /\ ~skipped => worklist = <<>>

\* A block whose own values have not changed stays settled when others rise.
LEMMA StaysSettled ==
  ASSUME NEW b \in Blocks, prog' = prog, reg_vals'[b] = reg_vals[b],
         \A s \in Range(feasible_succs(prog, b, eval_block(b))) :
           /\ s \in block_exec'
           /\ \A r \in Regs : Leq(eval_block(b)[r], reg_vals'[s][r])
  PROVE  Settled(b)'
<1>1. eval_block(b)' = eval_block(b)
  BY DEF eval_block, eval_until
<1> QED BY <1>1 DEF Settled

LEMMA SolveStart ==
  ASSUME Init
  PROVE  SolveInv
<1>1. prog \in Programs /\ 1 \in Blocks
  BY BlocksFacts DEF Init
<1>2. 1 \in Range(worklist) /\ block_exec = {1}
  BY DEF Init, Range
<1>3. \A r \in Regs : reg_vals[1][r] = Top
  BY <1>1 DEF Init, init_entry_regs
<1> QED BY <1>1, <1>2, <1>3 DEF SolveInv, Init

LEMMA SolveStep ==
  ASSUME TypeInv, SolveInv, [Next]_vars
  PROVE  SolveInv'
<1>1. prog' = prog /\ Blocks' = Blocks /\ prog \in Programs /\ 1 \in Blocks
  BY BlocksKept, BlocksFacts DEF TypeInv
<1>2. /\ reg_vals \in [Blocks -> Vals] /\ block_exec \subseteq Blocks /\ worklist \in Seq(Blocks)
      /\ exec_edges \subseteq Blocks \X Blocks
  BY DEF TypeInv, TypeOK, Vals
<1>3. ASSUME NEW b \in Blocks
      PROVE  Range(feasible_succs(prog, b, eval_block(b))) \subseteq Blocks
  <2>1. feasible_succs(prog, b, eval_block(b)) \in Seq(Blocks)
    BY <1>1, <1>3, EvalType, FeasibleCases DEF Blocks
  <2> QED BY <2>1 DEF Range
<1>4. ASSUME UNCHANGED solver, pc' \in {"find", "run"} /\ ~skipped' => worklist = <<>>
      PROVE  SolveInv'
  <2>1. \A b \in block_exec : Settled(b) => Settled(b)'
    BY <1>1, <1>4 DEF Settled, eval_block, eval_until, solver
  <2> QED BY <1>1, <1>4, <2>1 DEF SolveInv, solver
<1>5. CASE Start
  BY <1>4, <1>5 DEF Start
<1>6. CASE GiveUp
  BY <1>4, <1>6 DEF GiveUp
<1>7. CASE Converge
  BY <1>4, <1>7 DEF Converge
<1>8. CASE Report \/ Step \/ Returned \/ UNCHANGED vars
  BY <1>4, <1>8 DEF Report, Step, Returned, vars, solver, SolveInv
<1>9. CASE Visit /\ Head(worklist) \in block_exec
  <2> DEFINE b == Head(worklist)
             vals == eval_block(b)
             succs == feasible_succs(prog, b, vals)
  <2>1. /\ b \in Blocks /\ vals \in Vals /\ succs \in Seq(Blocks)
        /\ propagate_succs(b, vals, succs)
    BY <1>9, VisitTurn
  <2>2. worklist # <<>> /\ pc' = pc /\ pc = "solve"
    BY <1>9 DEF Visit
  <2>3. Range(worklist) = {b} \cup Range(Tail(worklist))
    BY <1>2, <2>2, RangeOfTail
  <2>4. /\ reg_vals' \in [Blocks -> Vals]
        /\ \A s \in Blocks, r \in Regs : Leq(reg_vals[s][r], reg_vals'[s][r])
        /\ \A s \in Range(succs), r \in Regs : Leq(vals[r], reg_vals'[s][r])
        /\ exec_edges' = exec_edges \cup {<<b, s>> : s \in Range(succs)}
        /\ Range(succs) \subseteq Blocks
        /\ Range(Tail(worklist)) \subseteq Range(worklist')
        /\ block_exec \subseteq block_exec' /\ block_exec' \subseteq Blocks
        /\ block_exec' \ block_exec \subseteq Range(worklist')
        /\ \A s \in Blocks : reg_vals'[s] # reg_vals[s] => s \in Range(worklist')
        /\ \A s \in Range(succs) : s \in block_exec' \/ <<b, s>> \in exec_edges
    <3> HIDE DEF b, vals, succs
    <3> QED BY <2>1, <2>2, Propagated
  <2>5. \A s \in Range(succs) : s \in block_exec'
    <3> HIDE DEF b, vals, succs
    <3> QED BY <2>1, <2>4 DEF SolveInv
  <2>6. ASSUME NEW c \in Blocks', NEW s \in Blocks', <<c, s>> \in exec_edges'
        PROVE  s \in block_exec'
    <3> HIDE DEF b, vals, succs
    <3>1. CASE <<c, s>> \in exec_edges
      BY <1>1, <2>4, <3>1 DEF SolveInv
    <3>2. CASE <<c, s>> \in {<<b, x>> : x \in Range(succs)}
      BY <2>5, <3>2
    <3> QED BY <2>4, <2>6, <3>1, <3>2
  <2>7. \A r \in Regs : reg_vals'[1][r] = Top
    BY <1>1, <2>4, WordFacts DEF SolveInv, Leq
  <2>8. ASSUME NEW c \in block_exec', c \notin Range(worklist')
        PROVE  Settled(c)'
    <3>1. c \in block_exec /\ c \in Blocks /\ reg_vals'[c] = reg_vals[c]
      BY <2>4, <2>8
    <3>2. CASE c = b
      <4>1. Range(feasible_succs(prog, c, eval_block(c))) = Range(succs)
            /\ eval_block(c) = vals
        BY <3>2
      <4> HIDE DEF b, vals, succs
      <4> QED BY <1>1, <2>4, <2>5, <3>1, <4>1, StaysSettled
    <3>3. CASE c # b
      <4>1. Settled(c)
        BY <2>3, <2>4, <2>8, <3>1, <3>3 DEF SolveInv
      <4> HIDE DEF b, vals, succs
      <4>2. ASSUME NEW s \in Range(feasible_succs(prog, c, eval_block(c)))
            PROVE  /\ s \in block_exec'
                   /\ \A r \in Regs : Leq(eval_block(c)[r], reg_vals'[s][r])
        <5>1. s \in block_exec /\ \A r \in Regs : Leq(eval_block(c)[r], reg_vals[s][r])
          BY <4>1 DEF Settled
        <5>2. s \in Blocks /\ s \in block_exec'
          BY <1>3, <2>4, <3>1, <5>1
        <5> QED BY <2>4, <5>1, <5>2, LeqTransitive
      <4> QED BY <1>1, <3>1, <4>2, StaysSettled
    <3> QED BY <3>2, <3>3
  <2>9. 1 \in block_exec'
    BY <2>4 DEF SolveInv
  <2> QED BY <2>2, <2>6, <2>7, <2>8, <2>9 DEF SolveInv
<1>10. CASE Visit /\ Head(worklist) \notin block_exec
  <2>1. /\ worklist' = Tail(worklist) /\ UNCHANGED <<reg_vals, exec_edges, block_exec>>
        /\ worklist # <<>> /\ pc' = pc /\ pc = "solve"
    BY <1>10 DEF Visit
  <2>2. Range(worklist) = {Head(worklist)} \cup Range(worklist')
    BY <1>2, <2>1, RangeOfTail
  <2>3. \A b \in block_exec : Settled(b) => Settled(b)'
    BY <1>1, <2>1 DEF Settled, eval_block, eval_until
  <2> QED BY <1>1, <1>10, <2>1, <2>2, <2>3 DEF SolveInv
<1> QED BY <1>5, <1>6, <1>7, <1>8, <1>9, <1>10 DEF Next

LEMMA SolveAlways == Spec => [](TypeInv /\ SolveInv)
<1>1. Init => SolveInv
  BY SolveStart
<1>2. TypeInv /\ SolveInv /\ [Next]_vars => SolveInv'
  BY SolveStep
<1> QED BY <1>1, <1>2, TypeAlways, PTL DEF Spec

(***************************************************************************)
(* Although run_sccp queues a block only when an edge is new or a value    *)
(* changed, no executable block is forgotten: it waits, or its successors  *)
(* know all it has to say.                                                 *)
(***************************************************************************)
THEOREM NothingForgotten == Spec => []WorklistComplete
<1>1. SolveInv => WorklistComplete
  BY DEF SolveInv, WorklistComplete
<1> QED BY <1>1, SolveAlways, PTL

-----------------------------------------------------------------------------
(* The execution. *)

\* One executed instruction, seen from the block it is in.
LEMMA InBlock ==
  ASSUME TypeInv, NEW b \in Blocks, NEW a \in Addrs(prog), b <= a, a < BlockEnd(prog, b),
         Describes(eval_until(b, a), regs), NEW new \in Outcomes(regs, prog[a])
  PROVE  /\ new \in RegFiles /\ Describes(eval_until(b, a + 1), new)
         /\ eval_until(b, a + 1) \in Vals
<1>1. /\ prog \in Programs /\ prog[a] \in Instrs /\ regs \in RegFiles
      /\ reg_vals[b] \in Vals /\ b \in find_block_starts(prog)
  BY ProgramFacts DEF TypeInv, TypeOK, RegFiles, Vals, Blocks
<1>2. b \in Int /\ a \in Int /\ BlockEnd(prog, b) \in Int
  BY <1>1, BlocksFacts, Ends DEF Addrs, Blocks
<1>3. /\ (a + 1) - b \in 1..(BlockEnd(prog, b) - b) /\ ((a + 1) - b) - 1 = a - b
      /\ b + ((a + 1) - b) - 1 = a
      /\ a \in b..BlockEnd(prog, b) /\ a + 1 \in b..BlockEnd(prog, b)
  BY <1>2
<1>4. eval_until(b, a + 1) = apply_effects(eval_until(b, a), add_instr_effects(prog[a]))
  <2> DEFINE f == block_vals(prog, b, reg_vals[b])
             n == (a + 1) - b
  <2>1. \A k \in 1..(BlockEnd(prog, b) - b) :
          f[k] = apply_effects(f[k - 1], add_instr_effects(prog[b + k - 1]))
    BY <1>1, BlockVals
  <2>2. n \in 1..(BlockEnd(prog, b) - b) /\ n - 1 = a - b /\ b + n - 1 = a
    BY <1>3
  <2>3. eval_until(b, a + 1) = f[n] /\ eval_until(b, a) = f[a - b]
    BY DEF eval_until
  <2> HIDE DEF f, n
  <2>4. f[n] = apply_effects(f[n - 1], add_instr_effects(prog[b + n - 1]))
    BY <2>1, <2>2
  <2> QED BY <2>2, <2>3, <2>4
<1>5. eval_until(b, a) \in Vals /\ eval_until(b, a + 1) \in Vals
  BY <1>3, EvalType
<1> QED BY <1>1, <1>4, <1>5, InstrSound

LEMMA RunStep ==
  ASSUME TypeInv, SolveInv, ValuesSound, [Next]_vars
  PROVE  ValuesSound'
<1>1. prog' = prog /\ Blocks' = Blocks /\ prog \in Programs /\ 1 \in Blocks
      /\ Blocks \subseteq Addrs(prog) /\ Len(prog) \in Nat /\ Len(prog) # 0
  BY BlocksKept, BlocksFacts DEF TypeInv
<1>2. \A s \in Blocks : Max({c \in Blocks : c <= s}) = s
  <2>1. \A s \in Blocks : s \in Addrs(prog) /\ s <= s /\ s < BlockEnd(prog, s)
    BY <1>1, Ends DEF Blocks, Addrs
  <2> QED BY <1>1, <2>1, BlockOf DEF Blocks
<1>3. CASE Report
  <2> SUFFICES ASSUME ~skipped PROVE ValuesSound'
    BY <1>3 DEF Report, ValuesSound
  <2>1. at' = 1 /\ regs' \in RegFiles /\ reg_vals' = reg_vals /\ block_exec' = block_exec
    BY <1>3 DEF Report, RegFiles, solver
  <2>2. Max({s \in Blocks' : s <= at'}) = 1
    BY <1>1, <1>2, <2>1
  <2>3. eval_until(1, 1)' = reg_vals[1]
    <3>1. eval_until(1, 1) = reg_vals[1]
      BY <1>1, EvalType
    <3> QED BY <1>1, <2>1, <3>1 DEF eval_until
  <2>4. 1 \in block_exec /\ \A r \in Regs : reg_vals[1][r] = Top
    BY DEF SolveInv
  <2>5. \A r \in Regs : regs'[r] \in Gamma(r, reg_vals[1][r])
    BY <2>1, <2>4, WordFacts DEF Gamma, RegFiles
  <2> QED BY <2>1, <2>2, <2>3, <2>4, <2>5 DEF ValuesSound
<1>4. CASE Step
  <2> SUFFICES ASSUME ~skipped, at' # 0 PROVE ValuesSound'
    BY <1>4 DEF Step, ValuesSound
  <2> DEFINE b == Max({s \in Blocks : s <= at})
  <2>1. /\ pc = "run" /\ at # 0 /\ regs' \in Outcomes(regs, prog[at]) /\ at' \in NextAddrs(at, regs')
        /\ reg_vals' = reg_vals /\ block_exec' = block_exec /\ at \in Addrs(prog)
    BY <1>1, <1>4 DEF Step, solver, TypeInv, TypeOK, Addrs
  <2>2. b \in Blocks /\ b <= at /\ at < BlockEnd(prog, b)
    BY <1>1, <2>1, BlockOf DEF Blocks
  <2>3. b \in block_exec /\ Describes(eval_until(b, at), regs)
    BY <2>1 DEF ValuesSound, Describes
  <2> HIDE DEF b
  <2>4. /\ regs' \in RegFiles /\ Describes(eval_until(b, at + 1), regs')
        /\ eval_until(b, at + 1) \in Vals
    BY <2>1, <2>2, <2>3, InBlock
  <2>5. CASE BlockEnd(prog, b) = at + 1
    <3>1. eval_block(b) = eval_until(b, at + 1) /\ BlockEnd(prog, b) - 1 = at
      BY <2>1, <2>5 DEF eval_block, Addrs
    <3>2. at' \in Range(feasible_succs(prog, b, eval_block(b))) /\ at' \in Blocks
      BY <1>1, <2>1, <2>2, <2>4, <3>1, FeasibleSound
    <3>3. Settled(b)
      <4>1. worklist = <<>>
        BY <2>1 DEF SolveInv
      <4> QED BY <2>3, <4>1 DEF SolveInv, Range
    <3>4. at' \in block_exec /\ \A r \in Regs : Leq(eval_block(b)[r], reg_vals[at'][r])
      BY <3>2, <3>3 DEF Settled
    <3>5. \A r \in Regs : regs'[r] \in Gamma(r, reg_vals[at'][r])
      <4>1. \A r \in Regs : /\ eval_block(b)[r] \in Value /\ reg_vals[at'][r] \in Value
                            /\ regs'[r] \in Word /\ regs'[r] \in Gamma(r, eval_block(b)[r])
        BY <2>4, <3>1, <3>2 DEF TypeInv, TypeOK, Vals, RegFiles, Describes
      <4> QED BY <3>4, <4>1, GammaMonotone
    <3>6. eval_until(at', at') = reg_vals[at']
      BY <3>2, EvalType
    <3>7. Max({s \in Blocks' : s <= at'}) = at'
      BY <1>1, <1>2, <3>2
    <3>8. \A x : eval_until(x, x)' = eval_until(x, x)
      BY <1>1, <2>1 DEF eval_until
    <3> QED BY <2>1, <3>4, <3>5, <3>6, <3>7, <3>8 DEF ValuesSound, eval_until
  <2>6. CASE BlockEnd(prog, b) # at + 1
    <3>1. /\ prog[at].flow = "Normal" /\ at + 1 \in Addrs(prog) /\ at + 1 < BlockEnd(prog, b)
      BY <1>1, <2>1, <2>2, <2>6, BlockLast DEF Blocks
    <3>2. at' = at + 1
      <4>1. at < Len(prog)
        BY <1>1, <2>1, <3>1 DEF Addrs
      <4> QED BY <2>1, <3>1, <4>1 DEF NextAddrs
    <3>3. b <= at + 1
      BY <1>1, <2>1, <2>2 DEF Addrs
    <3>4. Max({s \in Blocks : s <= at + 1}) = b
      BY <1>1, <2>2, <3>1, <3>3, BlockOf DEF Blocks
    <3>5. \A x, y : eval_until(x, y)' = eval_until(x, y)
      BY <1>1, <2>1 DEF eval_until
    <3>6. Max({s \in Blocks' : s <= at'}) = b
      BY <1>1, <3>2, <3>4
    <3>7. \A r \in Regs : regs'[r] \in Gamma(r, eval_until(b, at')[r])
      BY <2>4, <3>2 DEF Describes
    <3> QED BY <2>1, <2>3, <3>5, <3>6, <3>7 DEF ValuesSound
  <2> QED BY <2>5, <2>6
<1>5. CASE Start \/ Visit \/ GiveUp \/ Converge
  BY <1>5 DEF Start, Visit, GiveUp, Converge, ValuesSound
<1>6. CASE Returned \/ UNCHANGED vars
  <2>1. UNCHANGED <<pc, skipped, at, regs, reg_vals, block_exec>>
    BY <1>6 DEF Returned, vars, solver
  <2>2. \A x, y : eval_until(x, y)' = eval_until(x, y)
    BY <1>1, <2>1 DEF eval_until
  <2>3. Max({s \in Blocks : s <= at})' = Max({s \in Blocks : s <= at})
    BY <1>1, <2>1
  <2> QED BY <2>1, <2>2, <2>3 DEF ValuesSound
<1> QED BY <1>3, <1>4, <1>5, <1>6 DEF Next

LEMMA RunAlways == Spec => [](TypeInv /\ SolveInv /\ ValuesSound)
<1>1. Init => ValuesSound
  BY DEF Init, ValuesSound
<1>2. TypeInv /\ SolveInv /\ ValuesSound /\ [Next]_vars => ValuesSound'
  BY RunStep
<1> QED BY <1>1, <1>2, SolveAlways, PTL DEF Spec

(***************************************************************************)
(* For every function, word size and register set: after a finished        *)
(* analysis the execution is only ever in executable blocks, and every     *)
(* register holds a value that eval_block, merge_and_enqueue and           *)
(* feasible_succs allow for at that place.                                 *)
(***************************************************************************)
THEOREM AnalysisSound == Spec => []ValuesSound
BY RunAlways, PTL

-----------------------------------------------------------------------------
(* What is reported as dead. *)

\* The execution is not behind a noreturn call, and the report is what the
\* two searches found.
ReportInv ==
  pc = "run" =>
    /\ \A d \in find_dead_blocks(prog) : at \notin d.addr..(d.addr + d.size - 1)
    /\ dead \subseteq find_dead_blocks(prog) \cup (IF skipped THEN {} ELSE find_sccp_dead)

\* No step leads behind a noreturn call.
LEMMA NotBehindCall ==
  ASSUME TypeInv, Step, NEW d \in find_dead_blocks(prog),
         at \notin d.addr..(d.addr + d.size - 1)
  PROVE  at' \notin d.addr..(d.addr + d.size - 1)
<1> SUFFICES ASSUME at' \in d.addr..(d.addr + d.size - 1)
             PROVE  FALSE
  OBVIOUS
<1> DEFINE i == prog[at]
           onward == {IF at < Len(prog) THEN at + 1 ELSE 0}
           stop == d.addr + d.size
<1>1. /\ prog \in Programs /\ Len(prog) \in Nat /\ Len(prog) # 0 /\ at \in Addrs(prog)
      /\ at \in Nat
  BY BlocksFacts DEF TypeInv, TypeOK, Step, Addrs
<1>2. PICK a \in Addrs(prog) :
        /\ is_noreturn_call(prog[a], TRUE)
        /\ d.addr = a + 1 /\ d.size \in Int /\ stop \in Nat
        /\ \A t \in collect_branch_targets(prog) : t > a => t >= stop
  BY <1>1, DeadRegion
<1>3. a \in Nat /\ at' \in (a + 1)..(stop - 1) /\ at \notin (a + 1)..(stop - 1)
  <2>1. a \in Nat /\ d.addr + d.size - 1 = stop - 1
    BY <1>2 DEF Addrs
  <2> QED BY <1>2, <2>1
<1>4. i.flow \in Flows /\ i.targets \subseteq 0..Len(prog)
  BY <1>1, ProgramFacts, SccpAssumption
<1>5. at' \in NextAddrs(at, regs')
  BY DEF Step
<1>6. at' \in
        CASE i.flow \in {"Normal", "IndirectCall"} -> onward
          [] i.flow = "Call" -> IF is_noreturn_call(i, TRUE) THEN {0} ELSE onward
          [] i.flow = "UnconditionalBranch" -> i.targets
          [] i.flow = "ConditionalBranch" ->
               UNION {IF t THEN i.targets ELSE onward : t \in MayBeTaken(i.test, regs')}
          [] i.flow = "IndirectBranch" -> i.dests
          [] i.flow \in {"Return", "Halt"} -> {0}
  BY <1>5 DEF NextAddrs
<1>7. ASSUME at' \in onward
      PROVE  at = a
  <2> HIDE DEF stop
  <2>1. at' = at + 1 \/ at' = 0
    BY <1>7
  <2> QED BY <1>1, <1>2, <1>3, <2>1
<1>8. ASSUME at' \in i.targets, i.flow # "Call"
      PROVE  FALSE
  <2>1. at' \in Addrs(prog)
    BY <1>1, <1>3, <1>4, <1>8 DEF Addrs
  <2>2. at' \in collect_branch_targets(prog)
    BY <1>1, <1>8, <2>1 DEF collect_branch_targets, InFunction
  <2> HIDE DEF stop
  <2> QED BY <1>2, <1>3, <2>2
<1>9. at' \notin i.dests
  BY <1>1, SccpAssumption DEF IndirectSound
<1>10. 0 \notin (a + 1)..(stop - 1)
  BY <1>3
<1> HIDE DEF i, onward, stop
<1>11. is_noreturn_call(i, TRUE) => i.flow = "Call"
  BY DEF is_noreturn_call
<1>12. at = a => is_noreturn_call(i, TRUE)
  BY <1>2 DEF i
<1>13. CASE i.flow \in {"Normal", "IndirectCall"}
  BY <1>6, <1>7, <1>11, <1>12, <1>13
<1>14. CASE i.flow = "Call"
  BY <1>3, <1>6, <1>7, <1>10, <1>12, <1>14
<1>15. CASE i.flow = "UnconditionalBranch"
  BY <1>6, <1>8, <1>15
<1>16. CASE i.flow = "ConditionalBranch"
  <2>1. at' \in i.targets \/ at' \in onward
    BY <1>6, <1>16
  <2> QED BY <1>7, <1>8, <1>11, <1>12, <1>16, <2>1
<1>17. CASE i.flow = "IndirectBranch"
  BY <1>6, <1>9, <1>17
<1>18. CASE i.flow \in {"Return", "Halt"}
  BY <1>3, <1>6, <1>10, <1>18
<1> QED BY <1>4, <1>13, <1>14, <1>15, <1>16, <1>17, <1>18 DEF Flows

LEMMA ReportStep ==
  ASSUME TypeInv, ReportInv, [Next]_vars
  PROVE  ReportInv'
<1>1. /\ prog' = prog /\ Blocks' = Blocks /\ prog \in Programs
      /\ Len(prog) \in Nat /\ Len(prog) # 0
  BY BlocksKept, BlocksFacts DEF TypeInv
<1>2. CASE Report
  <2>1. \A d \in find_dead_blocks(prog) : 1 \notin d.addr..(d.addr + d.size - 1)
    <3> SUFFICES ASSUME NEW d \in find_dead_blocks(prog)
                 PROVE  1 \notin d.addr..(d.addr + d.size - 1)
      OBVIOUS
    <3>1. PICK a \in Addrs(prog) : d.addr = a + 1
      BY <1>1, DeadRegion
    <3> QED BY <3>1 DEF Addrs
  <2>2. dead' \subseteq find_dead_blocks(prog) \cup (IF skipped THEN {} ELSE find_sccp_dead)
    BY <1>2 DEF Report, merge_dead_blocks
  <2>3. at' = 1 /\ skipped' = skipped /\ find_sccp_dead' = find_sccp_dead
    BY <1>1, <1>2 DEF Report, find_sccp_dead, solver
  <2> QED BY <1>1, <2>1, <2>2, <2>3 DEF ReportInv
<1>3. CASE Step
  <2>1. /\ pc = "run" /\ dead' = dead /\ skipped' = skipped
        /\ find_sccp_dead' = find_sccp_dead
    BY <1>1, <1>3 DEF Step, find_sccp_dead, solver
  <2>2. \A d \in find_dead_blocks(prog) : at' \notin d.addr..(d.addr + d.size - 1)
    BY <1>3, <2>1, NotBehindCall DEF ReportInv
  <2> QED BY <1>1, <2>1, <2>2 DEF ReportInv
<1>4. CASE Start \/ Visit \/ GiveUp \/ Converge
  BY <1>4 DEF Start, Visit, GiveUp, Converge, ReportInv
<1>5. CASE Returned \/ UNCHANGED vars
  <2>1. UNCHANGED <<pc, at, dead, skipped>> /\ find_sccp_dead' = find_sccp_dead
    BY <1>1, <1>5 DEF Returned, vars, solver, find_sccp_dead
  <2> QED BY <1>1, <2>1 DEF ReportInv
<1> QED BY <1>2, <1>3, <1>4, <1>5 DEF Next

LEMMA DeadFollows ==
  ASSUME TypeInv, ValuesSound, ReportInv
  PROVE  DeadNeverEntered
<1> SUFFICES ASSUME pc = "run", NEW d \in dead, at \in d.addr..(d.addr + d.size - 1)
             PROVE  FALSE
  BY DEF DeadNeverEntered
<1>1. ~skipped /\ d \in find_sccp_dead
  BY DEF ReportInv
<1>2. PICK b \in Blocks \ block_exec : d = [addr |-> b, size |-> BlockEnd(prog, b) - b]
  BY <1>1 DEF find_sccp_dead
<1>3. /\ prog \in Programs /\ Len(prog) \in Nat /\ Len(prog) # 0
      /\ Blocks \subseteq Addrs(prog) /\ at \in 0..Len(prog)
  BY BlocksFacts DEF TypeInv, TypeOK
<1>4. b \in Nat \ {0} /\ BlockEnd(prog, b) \in Int
  BY <1>2, <1>3, Ends DEF Addrs, Blocks
<1>5. at \in b..(BlockEnd(prog, b) - 1)
  BY <1>2, <1>4
<1>6. at # 0 /\ at \in Addrs(prog) /\ b <= at /\ at < BlockEnd(prog, b)
  BY <1>3, <1>4, <1>5 DEF Addrs
<1>7. Max({s \in Blocks : s <= at}) = b
  BY <1>2, <1>3, <1>6, BlockOf DEF Blocks
<1> QED BY <1>1, <1>2, <1>6, <1>7 DEF ValuesSound

(***************************************************************************)
(* For every function: no instruction that find_dead_blocks or             *)
(* find_sccp_dead reports as dead is ever executed.                        *)
(***************************************************************************)
THEOREM DeadIsDead == Spec => []DeadNeverEntered
<1>1. Init => ReportInv
  BY DEF Init, ReportInv
<1>2. TypeInv /\ ReportInv /\ [Next]_vars => ReportInv'
  BY ReportStep
<1>3. TypeInv /\ ValuesSound /\ ReportInv => DeadNeverEntered
  BY DeadFollows
<1> QED BY <1>1, <1>2, <1>3, RunAlways, PTL DEF Spec

=============================================================================
