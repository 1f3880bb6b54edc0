------------------------------- MODULE Facts -------------------------------
(***************************************************************************)
(* Facts the proofs share: induction over the natural numbers, for a set   *)
(* in place of a predicate; that a recursion over 0..n has a solution;     *)
(* least and greatest members; and what popping, appending and filtering   *)
(* do to the values of a sequence.                                         *)
(***************************************************************************)
EXTENDS Filter, Functions, FiniteSetsExt, WellFoundedInduction, TLAPS

-----------------------------------------------------------------------------
(* Induction and recursion. *)

\* A set with 0 that is closed under successor up to n contains 0..n.
LEMMA UpTo ==
  ASSUME NEW n \in Nat, NEW S, 0 \in S,
         \A i \in 0..(n - 1) : i \in S => i + 1 \in S
  PROVE  0..n \subseteq S
<1> DEFINE T == {i \in 0..n : i \notin S}
           R == {ss \in Nat \X Nat : ss[1] < ss[2]}
<1>1. SUFFICES ASSUME T # {} PROVE FALSE
  OBVIOUS
<1>2. IsWellFoundedOn(R, Nat)
  BY NatLessThanWellFounded DEF OpToRel
<1>3. T \subseteq Nat
  OBVIOUS
<1>4. \E x \in T : \A y \in T : ~ (<<y, x>> \in R)
  <2> HIDE DEF T, R
  <2> QED BY <1>1, <1>2, <1>3, WFMin
<1>5. PICK x \in T : \A y \in T : ~ (<<y, x>> \in R)
  BY <1>4
<1>6. x \in Nat /\ x # 0 /\ x - 1 \in 0..(n - 1)
  OBVIOUS
<1>7. <<x - 1, x>> \in R
  BY <1>6
<1>8. x - 1 \notin T
  BY <1>5, <1>7
<1> QED BY <1>6, <1>8

\* A non-empty set of natural numbers has a least member.
LEMMA LeastExists ==
  ASSUME NEW S \in SUBSET Nat, S # {}
  PROVE  \E x \in S : \A y \in S : x <= y
<1> DEFINE R == {ss \in Nat \X Nat : ss[1] < ss[2]}
<1>1. IsWellFoundedOn(R, Nat)
  BY NatLessThanWellFounded DEF OpToRel
<1>2. PICK x \in S : \A y \in S : ~ (<<y, x>> \in R)
  <2> HIDE DEF R
  <2> QED BY <1>1, WFMin
<1>3. \A y \in S : x <= y
  <2> SUFFICES ASSUME NEW y \in S PROVE x <= y
    OBVIOUS
  <2>1. x \in Nat /\ y \in Nat
    OBVIOUS
  <2>2. ~(y < x)
    BY <1>2, <2>1
  <2> QED BY <2>1, <2>2
<1> QED BY <1>3

\* A non-empty set of natural numbers up to n has a greatest member.
LEMMA GreatestExists ==
  ASSUME NEW n \in Nat, NEW S \in SUBSET (0..n), S # {}
  PROVE  \E x \in S : \A y \in S : x >= y
<1> DEFINE T == {n - x : x \in S}
<1>1. T \in SUBSET Nat /\ T # {}
  <2>1. \A x \in 0..n : n - x \in Nat
    OBVIOUS
  <2> QED BY <2>1
<1>2. PICK t \in T : \A y \in T : t <= y
  <2> HIDE DEF T
  <2> QED BY <1>1, LeastExists
<1>3. PICK x \in S : t = n - x
  OBVIOUS
<1>4. \A y \in S : n - x <= n - y
  BY <1>2, <1>3
<1> QED BY <1>3, <1>4

\* f starts with a and goes on as step says.
Iterates(f, a, step, n) ==
  f[0] = a /\ \A i \in 1..n : f[i] = step[i][f[i - 1]]

\* Every recursion from 0 to n has a solution; the step is a function here,
\* one for each index.
LEMMA RecursionExists ==
  ASSUME NEW n \in Nat, NEW D, NEW a \in D, NEW step \in [1..n -> [D -> D]]
  PROVE  \E f \in [0..n -> D] : Iterates(f, a, step, n)
<1> DEFINE S == {m \in 0..n : \E f \in [0..m -> D] : Iterates(f, a, step, m)}
<1>1. 0 \in S
  <2>1. [j \in 0..0 |-> a] \in [0..0 -> D] /\ Iterates([j \in 0..0 |-> a], a, step, 0)
    BY DEF Iterates
  <2>2. \E f \in [0..0 -> D] : Iterates(f, a, step, 0)
    BY <2>1
  <2> QED BY <2>2
<1>2. ASSUME NEW m \in 0..(n - 1), m \in S
      PROVE  m + 1 \in S
  <2>1. PICK f \in [0..m -> D] : Iterates(f, a, step, m)
    BY <1>2
  <2> DEFINE g == [j \in 0..(m + 1) |-> IF j <= m THEN f[j] ELSE step[j][f[m]]]
  <2>2. g \in [0..(m + 1) -> D]
    OBVIOUS
  <2>3. Iterates(g, a, step, m + 1)
    <3>1. g[0] = a
      BY <2>1 DEF Iterates
    <3>2. ASSUME NEW i \in 1..(m + 1)
          PROVE  g[i] = step[i][g[i - 1]]
      <4>1. CASE i <= m
        BY <4>1, <2>1 DEF Iterates
      <4>2. CASE i = m + 1
        BY <4>2
      <4> QED BY <4>1, <4>2
    <3> QED BY <3>1, <3>2 DEF Iterates
  <2> HIDE DEF g
  <2>4. \E h \in [0..(m + 1) -> D] : Iterates(h, a, step, m + 1)
    BY <2>2, <2>3
  <2> QED BY <2>4
<1>3. 0..n \subseteq S
  <2> HIDE DEF S
  <2> QED BY <1>1, <1>2, UpTo
<1> QED BY <1>3

-----------------------------------------------------------------------------
(* Least and greatest numbers. *)

\* The least of a set of numbers.
LEMMA MinIsLeast ==
  ASSUME NEW S \in SUBSET Nat, S # {}
  PROVE  Min(S) \in S /\ Min(S) \in Nat /\ \A y \in S : Min(S) <= y
<1>1. \E x \in S : \A y \in S : x <= y
  BY LeastExists
<1> QED BY <1>1 DEF Min

\* The greatest of a bounded one.
LEMMA MaxIsGreatest ==
  ASSUME NEW n \in Nat, NEW S \in SUBSET (0..n), S # {}
  PROVE  Max(S) \in S /\ Max(S) \in Nat /\ \A y \in S : y <= Max(S)
<1>1. PICK x \in S : \A y \in S : x >= y
  BY GreatestExists
<1>2. Max(S) \in S /\ \A y \in S : Max(S) >= y
  BY <1>1 DEF Max
<1>3. S \subseteq Nat
  OBVIOUS
<1> HIDE DEF Max
<1> QED BY <1>2, <1>3

\* A finite set of numbers is bounded.
LEMMA FiniteBounded ==
  ASSUME NEW S \in SUBSET Nat, IsFiniteSet(S)
  PROVE  \E n \in Nat : S \in SUBSET (0..n)
<1>1. PICK seq \in Seq(S) : \A s \in S : \E n \in 1..Len(seq) : seq[n] = s
  BY DEF IsFiniteSet
<1> DEFINE l == Len(seq)
<1>2. l \in Nat /\ \A j \in 1..l : seq[j] \in Nat
  <2>1. \A j \in 1..l : seq[j] \in S
    OBVIOUS
  <2>2. l \in Nat
    OBVIOUS
  <2> HIDE DEF l
  <2>3. S \subseteq Nat
    OBVIOUS
  <2> QED BY <2>1, <2>2, <2>3
<1>3. \A s \in S : \E n \in 1..l : seq[n] = s
  BY <1>1
<1> HIDE DEF l
<1> DEFINE D == {k \in 0..l : \E m \in Nat : \A j \in 1..k : seq[j] <= m}
<1>4. 0 \in D
  BY <1>2
<1>5. ASSUME NEW k \in 0..(l - 1), k \in D PROVE k + 1 \in D
  <2>1. PICK m \in Nat : \A j \in 1..k : seq[j] <= m
    BY <1>5
  <2>2. k + 1 \in 1..l /\ k + 1 \in 0..l
    BY <1>2
  <2>3. seq[k + 1] \in Nat
    BY <1>2, <2>2
  <2> DEFINE b == m + seq[k + 1]
  <2>4. b \in Nat /\ m <= b /\ seq[k + 1] <= b
    BY <2>3
  <2> HIDE DEF b
  <2>5. ASSUME NEW j \in 1..(k + 1) PROVE seq[j] <= b
    <3>1. CASE j = k + 1
      BY <2>4, <3>1
    <3>2. CASE j # k + 1
      <4>1. j \in 1..k /\ j \in 1..l
        BY <1>2, <3>2
      <4>2. seq[j] \in Nat /\ seq[j] <= m
        BY <1>2, <2>1, <4>1
      <4> QED BY <2>4, <4>2
    <3> QED BY <3>1, <3>2
  <2> QED BY <2>2, <2>4, <2>5
<1> HIDE DEF D
<1>6. l \in D
  <2>1. 0..l \subseteq D
    BY <1>2, <1>4, <1>5, UpTo
  <2> QED BY <1>2, <2>1
<1>7. PICK m \in Nat : \A j \in 1..l : seq[j] <= m
  BY <1>6 DEF D
<1>8. \A s \in S : s \in 0..m
  BY <1>2, <1>3, <1>7
<1> QED BY <1>8

-----------------------------------------------------------------------------
(* The values of a sequence. *)

\* What a sequence or function takes as a value is in its range.
LEMMA InRange ==
  ASSUME NEW s, NEW x \in DOMAIN s
  PROVE  s[x] \in Range(s)
BY DEF Range

\* Popping the head leaves its value and the values of the tail.
LEMMA RangeOfTail ==
  ASSUME NEW S, NEW q \in Seq(S), q # <<>>
  PROVE  /\ Head(q) \in S
         /\ Tail(q) \in Seq(S)
         /\ Range(q) = {Head(q)} \cup Range(Tail(q))
<1>1. Head(q) \in S /\ Tail(q) \in Seq(S)
  OBVIOUS
<1>2. Range(q) \subseteq {Head(q)} \cup Range(Tail(q))
  <2>1. SUFFICES ASSUME NEW i \in DOMAIN q, i # 1
                 PROVE  q[i] \in Range(Tail(q))
    BY DEF Range
  <2>2. i - 1 \in DOMAIN Tail(q) /\ Tail(q)[i - 1] = q[i]
    BY <2>1
  <2> QED BY <2>2, InRange
<1>3. {Head(q)} \cup Range(Tail(q)) \subseteq Range(q)
  <2>1. 1 \in DOMAIN q /\ Head(q) = q[1]
    OBVIOUS
  <2>2. ASSUME NEW i \in DOMAIN Tail(q)
        PROVE  i + 1 \in DOMAIN q /\ Tail(q)[i] = q[i + 1]
    OBVIOUS
  <2>3. \A i \in DOMAIN Tail(q) : Tail(q)[i] \in Range(q)
    BY <2>2, InRange
  <2> QED BY <2>1, <2>3, InRange DEF Range
<1> QED BY <1>1, <1>2, <1>3

\* Appending a sequence adds its values.
LEMMA RangeOfConcat ==
  ASSUME NEW S, NEW q \in Seq(S), NEW c \in Seq(S)
  PROVE  q \o c \in Seq(S) /\ Range(q \o c) = Range(q) \cup Range(c)
<1>1. q \o c \in Seq(S)
  OBVIOUS
<1>2. Range(q \o c) \subseteq Range(q) \cup Range(c)
  <2>1. SUFFICES ASSUME NEW i \in 1..Len(q) + Len(c)
                 PROVE  (q \o c)[i] \in Range(q) \cup Range(c)
    BY DEF Range
  <2>2. CASE i <= Len(q)
    <3>1. (q \o c)[i] = q[i] /\ i \in DOMAIN q
      BY <2>2
    <3> QED BY <3>1 DEF Range
  <2>3. CASE i > Len(q)
    <3>1. (q \o c)[i] = c[i - Len(q)] /\ i - Len(q) \in DOMAIN c
      BY <2>3
    <3> QED BY <3>1 DEF Range
  <2> QED BY <2>2, <2>3
<1>3. Range(q) \cup Range(c) \subseteq Range(q \o c)
  <2>1. ASSUME NEW i \in DOMAIN q
        PROVE  i \in DOMAIN (q \o c) /\ (q \o c)[i] = q[i]
    OBVIOUS
  <2>2. ASSUME NEW i \in DOMAIN c
        PROVE  Len(q) + i \in DOMAIN (q \o c) /\ (q \o c)[Len(q) + i] = c[i]
    OBVIOUS
  <2>3. /\ \A i \in DOMAIN q : q[i] \in Range(q \o c)
        /\ \A i \in DOMAIN c : c[i] \in Range(q \o c)
    BY <2>1, <2>2, InRange
  <2> QED BY <2>3 DEF Range
<1> QED BY <1>1, <1>2, <1>3

-----------------------------------------------------------------------------
(* What a filter keeps. *)

\* The filter goes through the sequence once.
KeepStep(q, x, S) == IF x \in S THEN Append(q, x) ELSE q
Keeps(kept, seq, S) ==
  kept[0] = <<>> /\ \A i \in 1..Len(seq) : kept[i] = KeepStep(kept[i - 1], seq[i], S)

LEMMA KeepSteps ==
  ASSUME NEW D, NEW seq \in Seq(D), NEW S
  PROVE  \E kept : Keeps(kept, seq, S) /\ Keep(seq, S) = kept[Len(seq)]
<1> DEFINE n == Len(seq)
           F(q, i) == IF seq[i] \in S THEN Append(q, seq[i]) ELSE q
<1>1. n \in Nat /\ \A i \in 1..n : seq[i] \in D
  OBVIOUS
<1>2. \A i \in 1..n, q \in Seq(D) : F(q, i) \in Seq(D)
  BY <1>1
<1>3. \E g : g = [i \in 0..Len(seq) |->
                    IF i = 0 THEN <<>>
                    ELSE IF seq[i] \in S THEN Append(g[i - 1], seq[i]) ELSE g[i - 1]]
  <2> DEFINE step == [i \in 1..n |-> [q \in Seq(D) |-> F(q, i)]]
  <2>1. step \in [1..n -> [Seq(D) -> Seq(D)]]
    BY <1>2
  <2>2. \A i \in 1..n, q \in Seq(D) : step[i][q] = F(q, i)
    OBVIOUS
  <2> HIDE DEF step
  <2>3. <<>> \in Seq(D)
    OBVIOUS
  <2>4. PICK f \in [0..n -> Seq(D)] : Iterates(f, <<>>, step, n)
    BY <1>1, <2>1, <2>3, RecursionExists
  <2>5. \A i \in 0..n : f[i] = IF i = 0 THEN <<>> ELSE F(f[i - 1], i)
    <3> HIDE DEF F, n
    <3> SUFFICES ASSUME NEW i \in 0..n PROVE f[i] = IF i = 0 THEN <<>> ELSE F(f[i - 1], i)
      OBVIOUS
    <3>1. CASE i = 0
      BY <2>4, <3>1 DEF Iterates
    <3>2. CASE i # 0
      <4>1. i \in 1..n /\ i - 1 \in 0..n
        BY <1>1, <3>2
      <4>2. f[i] = step[i][f[i - 1]] /\ f[i - 1] \in Seq(D)
        BY <2>4, <4>1 DEF Iterates
      <4> QED BY <2>2, <3>2, <4>1, <4>2
    <3> QED BY <3>1, <3>2
  <2>6. f = [i \in 0..n |-> IF i = 0 THEN <<>> ELSE F(f[i - 1], i)]
    <3> HIDE DEF F
    <3> QED BY <2>5
  <2> QED BY <2>6
<1> DEFINE kept[i \in 0..Len(seq)] ==
             IF i = 0 THEN <<>>
             ELSE IF seq[i] \in S THEN Append(kept[i - 1], seq[i]) ELSE kept[i - 1]
<1>4. kept = [i \in 0..Len(seq) |->
                IF i = 0 THEN <<>>
                ELSE IF seq[i] \in S THEN Append(kept[i - 1], seq[i]) ELSE kept[i - 1]]
  BY <1>3, Zenon
<1>5. Keep(seq, S) = kept[Len(seq)]
  BY DEF Keep
<1> HIDE DEF kept
<1>6. kept[0] = <<>> /\ \A i \in 1..n : kept[i] = F(kept[i - 1], i)
  <2>1. \A i \in 0..n : kept[i] = IF i = 0 THEN <<>> ELSE F(kept[i - 1], i)
    BY <1>1, <1>4
  <2> HIDE DEF F
  <2> QED BY <1>1, <2>1
<1> HIDE DEF F
<1>7. Keeps(kept, seq, S)
  BY <1>6 DEF Keeps, KeepStep, F
<1> QED BY <1>5, <1>7

\* What a sequence keeps is what it has in S, in a sequence again.
LEMMA KeepValues ==
  ASSUME NEW D, NEW seq \in Seq(D), NEW S
  PROVE  Keep(seq, S) \in Seq(D) /\ Range(Keep(seq, S)) = Range(seq) \cap S
<1> DEFINE n == Len(seq)
<1>1. n \in Nat /\ \A i \in 1..n : seq[i] \in D
  OBVIOUS
<1>2. PICK kept : Keeps(kept, seq, S) /\ Keep(seq, S) = kept[n]
  BY KeepSteps
<1>6. kept[0] = <<>> /\ \A i \in 1..n : kept[i] = KeepStep(kept[i - 1], seq[i], S)
  BY <1>2 DEF Keeps
<1> DEFINE K == {i \in 0..n : /\ kept[i] \in Seq(D)
                             /\ Range(kept[i]) = {seq[j] : j \in 1..i} \cap S}
<1>7. 0 \in K
  <2>1. Range(<<>>) = {}
    BY DEF Range
  <2>2. {seq[j] : j \in 1..0} = {}
    OBVIOUS
  <2>3. kept[0] \in Seq(D) /\ Range(kept[0]) = {seq[j] : j \in 1..0} \cap S
    BY <1>6, <2>1, <2>2
  <2> QED BY <1>1, <2>3
<1>8. ASSUME NEW i \in 0..(n - 1), i \in K
      PROVE  i + 1 \in K
  <2>1. /\ i + 1 \in 1..n /\ i + 1 - 1 = i
        /\ {seq[j] : j \in 1..(i + 1)} = {seq[j] : j \in 1..i} \cup {seq[i + 1]}
    BY <1>1
  <2>2. kept[i + 1] = KeepStep(kept[i], seq[i + 1], S)
    <3>1. kept[i + 1] = KeepStep(kept[(i + 1) - 1], seq[i + 1], S)
      BY <1>6, <2>1
    <3> QED BY <2>1, <3>1
  <2>3. CASE seq[i + 1] \in S
    <3>1. kept[i + 1] = Append(kept[i], seq[i + 1])
      BY <2>2, <2>3 DEF KeepStep
    <3> DEFINE t == <<seq[i + 1]>>
    <3>2. t \in Seq(D) /\ Range(t) = {seq[i + 1]} /\ Append(kept[i], seq[i + 1]) = kept[i] \o t
      BY <1>1, <1>8, <2>1 DEF Range
    <3>3. kept[i + 1] \in Seq(D) /\ Range(kept[i + 1]) = Range(kept[i]) \cup {seq[i + 1]}
      <4>1. kept[i] \in Seq(D)
        BY <1>8
      <4> HIDE DEF K, t
      <4> QED BY <3>1, <3>2, <4>1, RangeOfConcat
    <3> QED BY <1>8, <2>1, <2>3, <3>3
  <2>4. CASE seq[i + 1] \notin S
    <3>1. kept[i + 1] = kept[i]
      BY <2>2, <2>4 DEF KeepStep
    <3> QED BY <1>8, <2>1, <2>4, <3>1
  <2> QED BY <2>3, <2>4
<1>9. n \in K
  <2>1. 0..n \subseteq K
    <3> HIDE DEF K
    <3> QED BY <1>1, <1>7, <1>8, UpTo
  <2>2. n \in 0..n
    BY <1>1
  <2> HIDE DEF K
  <2> QED BY <2>1, <2>2
<1>10. Range(seq) = {seq[j] : j \in 1..n}
  BY DEF Range
<1> QED BY <1>2, <1>9, <1>10

\* s and t agree in what is in S, up to n.
Agree(s, t, S, n) ==
  /\ n \in Nat /\ Len(s) \in Nat /\ Len(t) \in Nat /\ n <= Len(s) /\ n <= Len(t)
  /\ \A i \in 1..n : s[i] = t[i] \/ (s[i] \notin S /\ t[i] \notin S)

\* Sequences that agree in what is in S, up to n, keep the same up to n.
LEMMA KeepAgree ==
  ASSUME NEW s, NEW t, NEW S, NEW n, Agree(s, t, S, n),
         NEW f, Keeps(f, s, S), NEW g, Keeps(g, t, S)
  PROVE  f[n] = g[n]
<1>0. /\ n \in Nat /\ Len(s) \in Nat /\ Len(t) \in Nat /\ n <= Len(s) /\ n <= Len(t)
      /\ \A i \in 1..n : s[i] = t[i] \/ (s[i] \notin S /\ t[i] \notin S)
  BY DEF Agree
<1>1. f[0] = g[0] /\ \A i \in 1..n : /\ f[i] = KeepStep(f[i - 1], s[i], S)
                                    /\ g[i] = KeepStep(g[i - 1], t[i], S)
  <2>1. \A i \in 1..n : i \in 1..Len(s) /\ i \in 1..Len(t)
    BY <1>0
  <2> QED BY <2>1 DEF Keeps
<1> DEFINE K == {i \in 0..n : f[i] = g[i]}
<1>2. 0 \in K
  BY <1>0, <1>1
<1>3. ASSUME NEW i \in 0..(n - 1), i \in K
      PROVE  i + 1 \in K
  <2>1. i + 1 \in 1..n /\ (i + 1) - 1 = i /\ i + 1 \in 0..n
    BY <1>0
  <2>2. /\ f[i + 1] = KeepStep(f[(i + 1) - 1], s[i + 1], S)
        /\ g[i + 1] = KeepStep(g[(i + 1) - 1], t[i + 1], S)
    BY <1>1, <2>1
  <2>3. s[i + 1] = t[i + 1] \/ (s[i + 1] \notin S /\ t[i + 1] \notin S)
    BY <1>0, <2>1
  <2>4. f[i] = g[i]
    BY <1>3
  <2>5. f[i + 1] = g[i + 1]
    BY <2>1, <2>2, <2>3, <2>4 DEF KeepStep
  <2> QED BY <2>1, <2>5
<1>4. 0..n \subseteq K
  <2> HIDE DEF K
  <2> QED BY <1>0, <1>2, <1>3, UpTo
<1> QED BY <1>0, <1>4

\* Replacing a value outside S by another one changes nothing.
LEMMA KeepSame ==
  ASSUME NEW D, NEW s \in Seq(D), NEW t \in Seq(D), NEW S, Len(s) = Len(t),
         \A i \in 1..Len(s) : s[i] = t[i] \/ (s[i] \notin S /\ t[i] \notin S)
  PROVE  Keep(s, S) = Keep(t, S)
<1>1. PICK f : Keeps(f, s, S) /\ Keep(s, S) = f[Len(s)]
  BY KeepSteps
<1>2. PICK g : Keeps(g, t, S) /\ Keep(t, S) = g[Len(t)]
  BY KeepSteps
<1> DEFINE n == Len(s)
<1>3. Agree(s, t, S, n)
  BY DEF Agree
<1>4. f[n] = g[n]
  BY <1>1, <1>2, <1>3, KeepAgree
<1> QED BY <1>1, <1>2, <1>4

\* The filter of a sequence with one value more.
LEMMA KeepAppend ==
  ASSUME NEW D, NEW q \in Seq(D), NEW x \in D, NEW S
  PROVE  Keep(Append(q, x), S) = KeepStep(Keep(q, S), x, S)
<1> DEFINE t == Append(q, x)
           n == Len(q)
<1>1. /\ t \in Seq(D) /\ Len(t) = n + 1 /\ t[n + 1] = x /\ n \in Nat
      /\ \A i \in 1..n : t[i] = q[i]
  OBVIOUS
<1> HIDE DEF t
<1>2. PICK f : Keeps(f, q, S) /\ Keep(q, S) = f[n]
  BY KeepSteps
<1>3. PICK g : Keeps(g, t, S) /\ Keep(t, S) = g[Len(t)]
  BY <1>1, KeepSteps
<1>4. Agree(q, t, S, n)
  BY <1>1 DEF Agree
<1>5. f[n] = g[n]
  BY <1>2, <1>3, <1>4, KeepAgree
<1>6. g[n + 1] = KeepStep(g[n], x, S)
  <2>1. n + 1 \in 1..Len(t) /\ (n + 1) - 1 = n
    BY <1>1
  <2>2. g[n + 1] = KeepStep(g[(n + 1) - 1], t[n + 1], S)
    BY <1>3, <2>1 DEF Keeps
  <2> QED BY <1>1, <2>1, <2>2
<1> QED BY <1>1, <1>2, <1>3, <1>5, <1>6 DEF t

\* Nothing is kept of nothing.
LEMMA KeepEmpty ==
  ASSUME NEW S
  PROVE  Keep(<<>>, S) = <<>>
<1>1. <<>> \in Seq({}) /\ Len(<<>>) = 0
  OBVIOUS
<1>2. PICK f : Keeps(f, <<>>, S) /\ Keep(<<>>, S) = f[Len(<<>>)]
  BY <1>1, KeepSteps
<1> QED BY <1>1, <1>2 DEF Keeps

\* Appending to the second of two sequences in a row.
LEMMA AppendConcat ==
  ASSUME NEW D, NEW q \in Seq(D), NEW a \in Seq(D), NEW x \in D
  PROVE  q \o Append(a, x) = Append(q \o a, x) /\ q \o a \in Seq(D)
OBVIOUS

\* The filter of two sequences in a row.
LEMMA KeepConcat ==
  ASSUME NEW D, NEW q \in Seq(D), NEW c \in Seq(D), NEW S
  PROVE  Keep(q \o c, S) = Keep(q, S) \o Keep(c, S)
<1> DEFINE n == Len(c)
           pre(i) == SubSeq(c, 1, i)
           K == {i \in 0..n : Keep(q \o pre(i), S) = Keep(q, S) \o Keep(pre(i), S)}
<1>1. n \in Nat /\ \A i \in 1..n : c[i] \in D
  OBVIOUS
<1>2. pre(0) = <<>> /\ pre(n) = c /\ q \o <<>> = q
  OBVIOUS
<1>3. \A i \in 0..n : pre(i) \in Seq(D)
  OBVIOUS
<1>4. \A i \in 0..(n - 1) : pre(i + 1) = Append(pre(i), c[i + 1])
  OBVIOUS
<1>5. Keep(q, S) \in Seq(D) /\ Keep(q, S) \o <<>> = Keep(q, S)
  <2>1. Keep(q, S) \in Seq(D)
    BY KeepValues
  <2> QED BY <2>1
<1> HIDE DEF n, pre
<1>6. 0 \in K
  <2>1. Keep(pre(0), S) = <<>> /\ q \o pre(0) = q
    BY <1>2, KeepEmpty
  <2>2. Keep(q \o pre(0), S) = Keep(q, S) \o Keep(pre(0), S)
    BY <1>5, <2>1
  <2> QED BY <1>1, <2>2
<1>7. ASSUME NEW i \in 0..(n - 1), i \in K
      PROVE  i + 1 \in K
  <2> DEFINE a == pre(i)
             x == c[i + 1]
  <2>1. i + 1 \in 0..n /\ a \in Seq(D) /\ x \in D /\ pre(i + 1) = Append(a, x)
    BY <1>1, <1>3, <1>4
  <2>2. Keep(q \o a, S) = Keep(q, S) \o Keep(a, S)
    BY <1>7
  <2> HIDE DEF a, x, K
  <2>3. q \o Append(a, x) = Append(q \o a, x) /\ q \o a \in Seq(D)
    BY <2>1, AppendConcat
  <2>4. /\ Keep(Append(a, x), S) = KeepStep(Keep(a, S), x, S)
        /\ Keep(Append(q \o a, x), S) = KeepStep(Keep(q \o a, S), x, S)
    BY <2>1, <2>3, KeepAppend
  <2>5. Keep(a, S) \in Seq(D)
    BY <2>1, KeepValues
  <2> DEFINE A == Keep(a, S)
             Q == Keep(q, S)
  <2>6. KeepStep(Q \o A, x, S) = Q \o KeepStep(A, x, S)
    <3> HIDE DEF A, Q
    <3>1. Q \in Seq(D) /\ A \in Seq(D)
      BY <1>5, <2>5 DEF A, Q
    <3>2. x \in D
      BY <2>1
    <3>3. Q \o Append(A, x) = Append(Q \o A, x)
      BY <3>1, <3>2, AppendConcat
    <3> QED BY <3>3 DEF KeepStep
  <2>7. Keep(q \o pre(i + 1), S) = Keep(q, S) \o Keep(pre(i + 1), S)
    BY <2>1, <2>2, <2>3, <2>4, <2>6
  <2> QED BY <2>1, <2>7 DEF K
<1>8. 0..n \subseteq K
  <2> HIDE DEF K
  <2> QED BY <1>1, <1>6, <1>7, UpTo
<1>9. n \in K
  <2> HIDE DEF K
  <2> QED BY <1>1, <1>8
<1> QED BY <1>2, <1>9

\* A stretch of a sequence grows by its next value.
LEMMA StretchStep ==
  ASSUME NEW D, NEW s \in Seq(D), NEW a \in Nat, NEW i \in Nat, a + i + 1 <= Len(s)
  PROVE  /\ s[a + i + 1] \in D
         /\ SubSeq(s, a + 1, a + (i + 1)) = Append(SubSeq(s, a + 1, a + i), s[a + i + 1])
<1>1. a + i + 1 \in 1..Len(s)
  OBVIOUS
<1>2. s[a + i + 1] \in D
  BY <1>1
<1> DEFINE p == SubSeq(s, a + 1, a + i)
           q == SubSeq(s, a + 1, a + (i + 1))
           r == Append(p, s[a + i + 1])
<1>3. p \in Seq(D) /\ Len(p) = i /\ \A k \in 1..i : p[k] = s[a + k]
  <2>1. a + i <= Len(s)
    OBVIOUS
  <2> QED BY <2>1
<1>4. q \in Seq(D) /\ Len(q) = i + 1 /\ \A k \in 1..(i + 1) : q[k] = s[a + k]
  OBVIOUS
<1> HIDE DEF p, q
<1>5. r \in Seq(D) /\ Len(r) = i + 1 /\ r[i + 1] = s[a + i + 1] /\ \A k \in 1..i : r[k] = p[k]
  BY <1>2, <1>3
<1> HIDE DEF r
<1>6. \A k \in 1..(i + 1) : q[k] = r[k]
  <2> SUFFICES ASSUME NEW k \in 1..(i + 1) PROVE q[k] = r[k]
    OBVIOUS
  <2>1. CASE k = i + 1
    <3>1. a + k = a + i + 1
      BY <2>1
    <3> QED BY <1>4, <1>5, <2>1, <3>1
  <2>2. CASE k # i + 1
    <3>1. k \in 1..i
      BY <2>2
    <3> QED BY <1>3, <1>4, <1>5, <3>1
  <2> QED BY <2>1, <2>2
<1>7. q = r
  BY <1>4, <1>5, <1>6
<1> QED BY <1>2, <1>7 DEF p, q, r

\* Nothing is kept of values outside S.
LEMMA KeepNone ==
  ASSUME NEW D, NEW c \in Seq(D), NEW S, \A i \in 1..Len(c) : c[i] \notin S
  PROVE  Keep(c, S) = <<>>
<1> DEFINE k == Keep(c, S)
<1>1. k \in Seq(D) /\ Range(k) = Range(c) \cap S
  BY KeepValues
<1>2. Range(c) \cap S = {}
  BY DEF Range
<1> HIDE DEF k
<1>3. \A i \in DOMAIN k : k[i] \in Range(k)
  BY InRange
<1>4. DOMAIN k = {}
  BY <1>1, <1>2, <1>3
<1>5. k = <<>>
  BY <1>1, <1>4
<1> QED BY <1>5 DEF k

\* The same, for all sequences over D at once.
LEMMA KeepConcats ==
  ASSUME NEW D, NEW S
  PROVE  \A q, c \in Seq(D) : Keep(q \o c, S) = Keep(q, S) \o Keep(c, S)
BY KeepConcat

\* Of four parts, the second keeps what M keeps and the third keeps nothing:
\* they keep what they keep with M in place of the two.
MiddleMoved(A, L, G, Z, M, S) ==
  Keep(L, S) = Keep(M, S) /\ Keep(G, S) = <<>> =>
    Keep(A \o L \o G \o Z, S) = Keep(A \o M \o Z, S)

\* A sequence in four parts keeps what its parts keep.
LEMMA KeepParts ==
  ASSUME NEW D, NEW S
  PROVE  \A A, L, G, Z, M \in Seq(D) : MiddleMoved(A, L, G, Z, M, S)
<1> SUFFICES ASSUME NEW A \in Seq(D), NEW L \in Seq(D), NEW G \in Seq(D), NEW Z \in Seq(D),
                    NEW M \in Seq(D), Keep(L, S) = Keep(M, S), Keep(G, S) = <<>>
             PROVE  Keep(A \o L \o G \o Z, S) = Keep(A \o M \o Z, S)
  BY DEF MiddleMoved
<1>0. \A q, c \in Seq(D) : Keep(q \o c, S) = Keep(q, S) \o Keep(c, S)
  BY KeepConcats, Zenon
<1>1. A \o L \in Seq(D) /\ A \o M \in Seq(D) /\ (A \o L) \o G \in Seq(D)
  OBVIOUS
<1>2. Keep(A \o L, S) = Keep(A, S) \o Keep(L, S)
  BY <1>0, Zenon
<1>3. Keep(A \o M, S) = Keep(A, S) \o Keep(M, S)
  BY <1>0, Zenon
<1>4. Keep((A \o L) \o G, S) = Keep(A \o L, S) \o Keep(G, S)
  BY <1>0, <1>1, Zenon
<1>5. Keep(((A \o L) \o G) \o Z, S) = Keep((A \o L) \o G, S) \o Keep(Z, S)
  BY <1>0, <1>1, Zenon
<1>6. Keep((A \o M) \o Z, S) = Keep(A \o M, S) \o Keep(Z, S)
  BY <1>0, <1>1, Zenon
<1> DEFINE B == Keep(A \o M, S)
<1>7. B \in Seq(D)
  BY <1>1, KeepValues
<1>8. B \o <<>> = B
  <2> HIDE DEF B
  <2> QED BY <1>7
<1>9. Keep(A \o L, S) = B
  BY <1>2, <1>3, Zenon
<1>10. Keep((A \o L) \o G, S) = B
  BY <1>4, <1>8, <1>9, Zenon
<1> QED BY <1>5, <1>6, <1>10, Zenon

\* A stretch cut in two is put together again.
LEMMA TwoParts ==
  ASSUME NEW D, NEW s \in Seq(D), NEW a \in Nat, NEW b \in Nat, a <= b, b <= Len(s)
  PROVE  /\ SubSeq(s, 1, a) \in Seq(D) /\ SubSeq(s, a + 1, b) \in Seq(D)
         /\ SubSeq(s, 1, b) \in Seq(D)
         /\ SubSeq(s, 1, a) \o SubSeq(s, a + 1, b) = SubSeq(s, 1, b)
<1> DEFINE p == SubSeq(s, 1, a)
           q == SubSeq(s, a + 1, b)
           r == SubSeq(s, 1, b)
           t == p \o q
<1>1. p \in Seq(D) /\ Len(p) = a /\ \A k \in 1..a : p[k] = s[k]
  OBVIOUS
<1>2. r \in Seq(D) /\ Len(r) = b /\ \A k \in 1..b : r[k] = s[k]
  OBVIOUS
<1>3. q \in Seq(D) /\ Len(q) = b - a /\ \A k \in 1..(b - a) : q[k] = s[a + k]
  OBVIOUS
<1> HIDE DEF p, q, r
<1>4. /\ t \in Seq(D) /\ Len(t) = b
      /\ \A k \in 1..a : t[k] = p[k]
      /\ \A k \in 1..(b - a) : t[a + k] = q[k]
  BY <1>1, <1>3
<1> HIDE DEF t
<1>5. \A k \in 1..b : t[k] = r[k]
  <2> SUFFICES ASSUME NEW k \in 1..b PROVE t[k] = r[k]
    OBVIOUS
  <2>1. CASE k <= a
    <3>1. k \in 1..a
      BY <2>1
    <3> QED BY <1>1, <1>2, <1>4, <3>1
  <2>2. CASE k > a
    <3>1. k - a \in 1..(b - a) /\ a + (k - a) = k
      BY <2>2
    <3>2. t[a + (k - a)] = q[k - a] /\ q[k - a] = s[a + (k - a)]
      BY <1>3, <1>4, <3>1
    <3> QED BY <1>2, <3>1, <3>2
  <2> QED BY <2>1, <2>2
<1>6. t = r
  BY <1>2, <1>4, <1>5
<1> QED BY <1>1, <1>2, <1>3, <1>6 DEF p, q, r, t

\* A sequence cut at two places is put together again.
LEMMA ThreeParts ==
  ASSUME NEW D, NEW s \in Seq(D), NEW a \in Nat, NEW b \in Nat, a <= b, b <= Len(s)
  PROVE  /\ SubSeq(s, 1, a) \in Seq(D) /\ SubSeq(s, a + 1, b) \in Seq(D)
         /\ SubSeq(s, b + 1, Len(s)) \in Seq(D)
         /\ (SubSeq(s, 1, a) \o SubSeq(s, a + 1, b)) \o SubSeq(s, b + 1, Len(s)) = s
<1> DEFINE n == Len(s)
<1>1. n \in Nat /\ n <= Len(s) /\ SubSeq(s, 1, n) = s
  OBVIOUS
<1>2. /\ SubSeq(s, 1, a) \in Seq(D) /\ SubSeq(s, a + 1, b) \in Seq(D)
      /\ SubSeq(s, 1, a) \o SubSeq(s, a + 1, b) = SubSeq(s, 1, b)
  BY TwoParts, Zenon
<1>3. /\ SubSeq(s, b + 1, n) \in Seq(D)
      /\ SubSeq(s, 1, b) \o SubSeq(s, b + 1, n) = SubSeq(s, 1, n)
  <2> HIDE DEF n
  <2> QED BY <1>1, TwoParts, Zenon DEF n
<1> QED BY <1>1, <1>2, <1>3, Zenon

-----------------------------------------------------------------------------
(* Sequences in a row. *)

\* q is A and B, or A, L, G and Z, in a row.
Row(q, A, B) ==
  /\ Len(q) = Len(A) + Len(B)
  /\ \A k \in 1..Len(A) : q[k] = A[k]
  /\ \A k \in 1..Len(B) : q[Len(A) + k] = B[k]
LongRow(q, A, L, G, Z) ==
  /\ Len(q) = Len(A) + Len(L) + Len(G) + Len(Z)
  /\ \A k \in 1..Len(A) : q[k] = A[k]
  /\ \A k \in 1..Len(L) : q[Len(A) + k] = L[k]
  /\ \A k \in 1..Len(G) : q[Len(A) + Len(L) + k] = G[k]
  /\ \A k \in 1..Len(Z) : q[Len(A) + Len(L) + Len(G) + k] = Z[k]

LEMMA TwoInRow ==
  ASSUME NEW D, NEW A \in Seq(D), NEW B \in Seq(D)
  PROVE  A \o B \in Seq(D) /\ Row(A \o B, A, B)
BY DEF Row

LEMMA FourInRow ==
  ASSUME NEW D, NEW A \in Seq(D), NEW L \in Seq(D), NEW G \in Seq(D), NEW Z \in Seq(D)
  PROVE  LongRow(A \o L \o G \o Z, A, L, G, Z)
<1> DEFINE a == Len(A)
           l == Len(L)
           g == Len(G)
           z == Len(Z)
           s == A \o L
           t == s \o G
           q == t \o Z
<1>1. a \in Nat /\ l \in Nat /\ g \in Nat /\ z \in Nat
  OBVIOUS
<1>2. s \in Seq(D) /\ Row(s, A, L)
  BY TwoInRow
<1> HIDE DEF s
<1>3. t \in Seq(D) /\ Row(t, s, G)
  BY <1>2, TwoInRow
<1> HIDE DEF t
<1>4. Row(q, t, Z)
  BY <1>3, TwoInRow
<1> HIDE DEF q
<1>5. /\ Len(s) = a + l /\ \A k \in 1..a : s[k] = A[k]
      /\ \A k \in 1..l : s[a + k] = L[k]
  BY <1>2 DEF Row
<1>6. /\ Len(t) = a + l + g /\ \A k \in 1..(a + l) : t[k] = s[k]
      /\ \A k \in 1..g : t[a + l + k] = G[k]
  BY <1>3, <1>5 DEF Row
<1>7. /\ Len(q) = a + l + g + z /\ \A k \in 1..(a + l + g) : q[k] = t[k]
      /\ \A k \in 1..z : q[a + l + g + k] = Z[k]
  BY <1>4, <1>6 DEF Row
<1> HIDE DEF a, l, g, z
<1>8. ASSUME NEW k \in 1..a
      PROVE  q[k] = A[k]
  <2>1. k \in 1..(a + l) /\ k \in 1..(a + l + g)
    BY <1>1
  <2> QED BY <1>5, <1>6, <1>7, <2>1
<1>9. ASSUME NEW k \in 1..l
      PROVE  q[a + k] = L[k]
  <2>1. a + k \in 1..(a + l) /\ a + k \in 1..(a + l + g)
    BY <1>1
  <2> QED BY <1>5, <1>6, <1>7, <2>1
<1>10. ASSUME NEW k \in 1..g
       PROVE  q[a + l + k] = G[k]
  <2>1. a + l + k \in 1..(a + l + g)
    BY <1>1
  <2> QED BY <1>6, <1>7, <2>1
<1>11. LongRow(q, A, L, G, Z)
  BY <1>7, <1>8, <1>9, <1>10 DEF LongRow, a, l, g, z
<1> QED BY <1>11 DEF q, t, s

=============================================================================
