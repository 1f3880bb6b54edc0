-------------------------- MODULE CompactionProofs --------------------------
(***************************************************************************)
(* Proofs about the plan of a compaction, for every image, page size and   *)
(* layout of .text.  The arithmetic comes first: sums, shifts and what is  *)
(* left of .text; then how a plan is made and revised.                     *)
(***************************************************************************)
EXTENDS Compaction, FiniteSetTheorems, Facts

-----------------------------------------------------------------------------
(* Sums. *)

\* The partial sums of a sequence.
LEMMA SumSteps ==
  ASSUME NEW s \in Seq(Int)
  PROVE  \E f \in [0..Len(s) -> Int] :
           /\ f[0] = 0 /\ \A i \in 1..Len(s) : f[i] = f[i - 1] + s[i]
           /\ SumOf(s) = f[Len(s)]
<1> DEFINE n == Len(s)
<1>1. n \in Nat /\ \A i \in 1..n : s[i] \in Int
  OBVIOUS
<1>2. PICK f \in [0..n -> Int] : f[0] = 0 /\ \A i \in 1..n : f[i] = f[i - 1] + s[i]
  <2> DEFINE step == [i \in 1..n |-> [d \in Int |-> d + s[i]]]
  <2> HIDE DEF n
  <2>1. step \in [1..n -> [Int -> Int]]
    BY <1>1
  <2>2. \A i \in 1..n, d \in Int : step[i][d] = d + s[i]
    OBVIOUS
  <2> HIDE DEF step
  <2>3. PICK f \in [0..n -> Int] : Iterates(f, 0, step, n)
    <3>1. 0 \in Int
      OBVIOUS
    <3> QED BY <1>1, <2>1, <3>1, RecursionExists
  <2>4. \A i \in 1..n : f[i] = step[i][f[i - 1]] /\ f[i - 1] \in Int
    BY <1>1, <2>3 DEF Iterates
  <2>5. f[0] = 0 /\ \A i \in 1..n : f[i] = f[i - 1] + s[i]
    BY <2>2, <2>3, <2>4 DEF Iterates
  <2> QED BY <2>5
<1>3. f = [i \in 0..n |-> IF i = 0 THEN 0 ELSE f[i - 1] + s[i]]
  <2> HIDE DEF n
  <2> QED BY <1>1, <1>2
<1> DEFINE sum[i \in 0..Len(s)] == IF i = 0 THEN 0 ELSE sum[i - 1] + s[i]
<1>4. sum = [i \in 0..Len(s) |-> IF i = 0 THEN 0 ELSE sum[i - 1] + s[i]]
  BY <1>3, Zenon
<1>5. SumOf(s) = sum[Len(s)]
  BY DEF SumOf
<1> HIDE DEF sum
<1>6. sum = [i \in 0..n |-> IF i = 0 THEN 0 ELSE sum[i - 1] + s[i]]
  BY <1>4
<1> HIDE DEF n
<1>7. sum[0] = 0 /\ \A i \in 1..n : sum[i] = sum[i - 1] + s[i]
  BY <1>1, <1>6
<1>8. \A i \in 0..n : sum[i] \in Int
  <2> DEFINE S == {i \in 0..n : sum[i] \in Int}
  <2>1. 0 \in S
    BY <1>1, <1>7
  <2>2. ASSUME NEW i \in 0..(n - 1), i \in S
        PROVE  i + 1 \in S
    <3>1. i + 1 \in 1..n /\ (i + 1) - 1 = i
      BY <1>1
    <3>2. sum[i + 1] = sum[i] + s[i + 1]
      BY <1>7, <3>1
    <3> QED BY <1>1, <2>2, <3>1, <3>2
  <2>3. 0..n \subseteq S
    <3> HIDE DEF S
    <3> QED BY <1>1, <2>1, <2>2, UpTo
  <2> QED BY <2>3
<1>9. sum \in [0..n -> Int]
  BY <1>6, <1>8
<1> QED BY <1>5, <1>7, <1>9 DEF n

\* A sum is at most another whose terms are no smaller.
LEMMA SumLeq ==
  ASSUME NEW s \in Seq(Int), NEW t \in Seq(Int), Len(s) = Len(t),
         \A i \in 1..Len(s) : s[i] <= t[i]
  PROVE  SumOf(s) \in Int /\ SumOf(t) \in Int /\ SumOf(s) <= SumOf(t)
<1> DEFINE n == Len(s)
<1>1. n \in Nat /\ \A i \in 1..n : s[i] \in Int /\ t[i] \in Int /\ s[i] <= t[i]
  OBVIOUS
<1>2. PICK f \in [0..n -> Int] : /\ f[0] = 0 /\ \A i \in 1..n : f[i] = f[i - 1] + s[i]
                                 /\ SumOf(s) = f[n]
  BY SumSteps
<1>3. PICK g \in [0..n -> Int] : /\ g[0] = 0 /\ \A i \in 1..n : g[i] = g[i - 1] + t[i]
                                 /\ SumOf(t) = g[n]
  BY SumSteps
<1> DEFINE S == {i \in 0..n : f[i] <= g[i]}
<1> HIDE DEF n
<1>4. 0 \in S
  BY <1>1, <1>2, <1>3
<1>5. ASSUME NEW i \in 0..(n - 1), i \in S
      PROVE  i + 1 \in S
  <2>1. i + 1 \in 1..n /\ (i + 1) - 1 = i /\ i \in 0..n /\ i + 1 \in 0..n
    BY <1>1
  <2>2. f[i + 1] = f[i] + s[i + 1] /\ g[i + 1] = g[i] + t[i + 1]
    BY <1>2, <1>3, <2>1
  <2>3. f[i] \in Int /\ g[i] \in Int /\ s[i + 1] \in Int /\ t[i + 1] \in Int
        /\ f[i] <= g[i] /\ s[i + 1] <= t[i + 1]
    BY <1>1, <1>5, <2>1
  <2>4. f[i + 1] <= g[i + 1]
    BY <2>2, <2>3
  <2> QED BY <2>1, <2>4
<1>6. 0..n \subseteq S
  <2> HIDE DEF S
  <2> QED BY <1>1, <1>4, <1>5, UpTo
<1>7. n \in 0..n
  BY <1>1
<1> QED BY <1>2, <1>3, <1>6, <1>7

\* One term more by one makes the sum one more.
LEMMA SumOne ==
  ASSUME NEW s \in Seq(Int), NEW t \in Seq(Int), Len(s) = Len(t), NEW j \in 1..Len(s),
         t[j] = s[j] + 1, \A i \in 1..Len(s) : i # j => s[i] = t[i]
  PROVE  SumOf(t) = SumOf(s) + 1
<1> DEFINE n == Len(s)
<1>1. n \in Nat /\ j \in 1..n /\ t[j] = s[j] + 1
      /\ \A i \in 1..n : s[i] \in Int /\ t[i] \in Int /\ (i # j => s[i] = t[i])
  OBVIOUS
<1>2. PICK f \in [0..n -> Int] : /\ f[0] = 0 /\ \A i \in 1..n : f[i] = f[i - 1] + s[i]
                                 /\ SumOf(s) = f[n]
  BY SumSteps
<1>3. PICK g \in [0..n -> Int] : /\ g[0] = 0 /\ \A i \in 1..n : g[i] = g[i - 1] + t[i]
                                 /\ SumOf(t) = g[n]
  BY SumSteps
<1> DEFINE S == {i \in 0..n : g[i] = f[i] + (IF i < j THEN 0 ELSE 1)}
<1> HIDE DEF n
<1>4. 0 \in S
  BY <1>1, <1>2, <1>3
<1>5. ASSUME NEW i \in 0..(n - 1), i \in S
      PROVE  i + 1 \in S
  <2>1. i + 1 \in 1..n /\ (i + 1) - 1 = i /\ i \in 0..n /\ i + 1 \in 0..n
    BY <1>1
  <2>2. f[i + 1] = f[i] + s[i + 1] /\ g[i + 1] = g[i] + t[i + 1]
    BY <1>2, <1>3, <2>1
  <2>3. f[i] \in Int /\ g[i] \in Int /\ s[i + 1] \in Int /\ t[i + 1] \in Int
        /\ g[i] = f[i] + (IF i < j THEN 0 ELSE 1)
    BY <1>1, <1>5, <2>1
  <2>4. CASE i + 1 = j
    <3>0. i < j /\ ~(i + 1 < j)
      BY <1>1, <2>4
    <3>1. t[i + 1] = s[i + 1] + 1 /\ i < j /\ ~(i + 1 < j)
      BY <1>1, <2>4, <3>0
    <3>2. g[i] = f[i]
      BY <2>3, <3>0
    <3>3. g[i + 1] = f[i + 1] + 1
      BY <2>2, <2>3, <3>1, <3>2
    <3> QED BY <2>1, <3>1, <3>3
  <2>5. CASE i + 1 # j
    <3>1. t[i + 1] = s[i + 1]
      BY <1>1, <2>1, <2>5
    <3>2. i < j <=> i + 1 < j
      <4>1. i \in Int /\ j \in Int
        BY <1>1
      <4> QED BY <2>5, <4>1
    <3>3. CASE i < j
      <4>1. g[i] = f[i] /\ i + 1 < j
        BY <2>3, <3>2, <3>3
      <4>2. g[i + 1] = f[i + 1] + 0
        BY <2>2, <2>3, <3>1, <4>1
      <4> QED BY <2>1, <4>1, <4>2
    <3>4. CASE ~(i < j)
      <4>1. g[i] = f[i] + 1 /\ ~(i + 1 < j)
        BY <2>3, <3>2, <3>4
      <4>2. g[i + 1] = f[i + 1] + 1
        BY <2>2, <2>3, <3>1, <4>1
      <4> QED BY <2>1, <4>1, <4>2
    <3> QED BY <3>3, <3>4
  <2> QED BY <2>4, <2>5
<1>6. 0..n \subseteq S
  <2> HIDE DEF S
  <2> QED BY <1>1, <1>4, <1>5, UpTo
<1>7. n \in 0..n /\ ~(n < j)
  BY <1>1
<1>8. g[n] = f[n] + 1
  BY <1>6, <1>7
<1> QED BY <1>2, <1>3, <1>8

-----------------------------------------------------------------------------
(* Shifts. *)

\* What the lemmas need of the layout.
LEMMA TextBounds ==
  ts \in Nat /\ te \in Nat /\ FileEnd \in Nat /\ 0 < ts /\ ts < te /\ te < FileEnd
BY LayoutAssumption DEF ts, te

\* The intervals inside .text.
TextIv == {p \in (ts..te) \X (ts..te) : p[1] <= p[2]}

\* The ends of such an interval.
LEMMA IvType ==
  \A iv \in TextIv : iv[1] \in Nat /\ iv[2] \in Nat /\ ts <= iv[1] /\ iv[1] <= iv[2] /\ iv[2] <= te
BY TextBounds DEF TextIv

\* An interval has as many bytes before an address as it has, or fewer.
LEMMA BytesType ==
  ASSUME NEW iv \in TextIv, NEW a \in Int
  PROVE  /\ Bytes(iv) \in Nat
         /\ BytesBefore(iv, a) \in 0..Bytes(iv)
<1>1. iv[1] \in ts..te /\ iv[2] \in ts..te /\ iv[1] <= iv[2]
  BY DEF TextIv
<1> QED BY <1>1, TextBounds DEF Bytes, BytesBefore

\* The sequences that shift_at and total_dead sum up.
LEMMA SizesType ==
  ASSUME NEW p \in Seq(TextIv), NEW a \in Int
  PROVE  /\ [i \in 1..Len(p) |-> BytesBefore(p[i], a)] \in Seq(Int)
         /\ [i \in 1..Len(p) |-> Bytes(p[i])] \in Seq(Int)
         /\ [i \in 1..Len(p) |-> 0] \in Seq(Int)
<1>1. Len(p) \in Nat /\ \A i \in 1..Len(p) : p[i] \in TextIv
  OBVIOUS
<1>2. \A i \in 1..Len(p) : BytesBefore(p[i], a) \in 0..Bytes(p[i]) /\ Bytes(p[i]) \in Nat
  BY <1>1, BytesType
<1> QED BY <1>1, <1>2

\* A sum of zeros.
LEMMA SumZero ==
  ASSUME NEW n \in Nat
  PROVE  SumOf([i \in 1..n |-> 0]) = 0
<1> DEFINE s == [i \in 1..n |-> 0]
<1>1. s \in Seq(Int) /\ Len(s) = n /\ \A i \in 1..n : s[i] = 0
  OBVIOUS
<1> HIDE DEF s
<1>2. PICK f \in [0..n -> Int] : /\ f[0] = 0 /\ \A i \in 1..n : f[i] = f[i - 1] + s[i]
                                 /\ SumOf(s) = f[n]
  BY <1>1, SumSteps
<1> DEFINE S == {i \in 0..n : f[i] = 0}
<1>3. 0 \in S
  BY <1>2
<1>4. ASSUME NEW i \in 0..(n - 1), i \in S
      PROVE  i + 1 \in S
  <2>1. i + 1 \in 1..n /\ (i + 1) - 1 = i /\ i + 1 \in 0..n
    OBVIOUS
  <2>2. f[i + 1] = f[i] + s[i + 1]
    BY <1>2, <2>1
  <2> QED BY <1>1, <1>4, <2>1, <2>2
<1>5. 0..n \subseteq S
  <2> HIDE DEF S
  <2> QED BY <1>3, <1>4, UpTo
<1>6. f[n] = 0
  BY <1>5
<1> QED BY <1>2, <1>6 DEF s

\* The removed bytes before an address are at most all of them.
LEMMA ShiftType ==
  ASSUME NEW p \in Seq(TextIv), NEW a \in Int
  PROVE  total_dead(p) \in Nat /\ shift_at(a, p) \in 0..total_dead(p)
<1> DEFINE s == [i \in 1..Len(p) |-> BytesBefore(p[i], a)]
           t == [i \in 1..Len(p) |-> Bytes(p[i])]
           z == [i \in 1..Len(p) |-> 0]
<1>1. s \in Seq(Int) /\ t \in Seq(Int) /\ z \in Seq(Int) /\ Len(p) \in Nat
  BY SizesType
<1>2. Len(s) = Len(p) /\ Len(t) = Len(p) /\ Len(z) = Len(p)
  OBVIOUS
<1>3. \A i \in 1..Len(p) : z[i] <= s[i] /\ s[i] <= t[i]
  <2>1. \A i \in 1..Len(p) : p[i] \in TextIv
    OBVIOUS
  <2>2. \A i \in 1..Len(p) : BytesBefore(p[i], a) \in 0..Bytes(p[i]) /\ Bytes(p[i]) \in Nat
    BY <2>1, BytesType
  <2> QED BY <2>2
<1>4. SumOf(z) = 0
  BY <1>1, SumZero
<1>5. shift_at(a, p) = SumOf(s) /\ total_dead(p) = SumOf(t)
  BY DEF shift_at, total_dead
<1> HIDE DEF s, t, z
<1>6. SumOf(z) <= SumOf(s) /\ SumOf(s) <= SumOf(t) /\ SumOf(s) \in Int /\ SumOf(t) \in Int
  BY <1>1, <1>2, <1>3, SumLeq
<1> QED BY <1>4, <1>5, <1>6

\* Equal shifts, interval by interval.
LEMMA ShiftSame ==
  ASSUME NEW p \in Seq(TextIv), NEW a \in Int, NEW b \in Int,
         \A i \in 1..Len(p) : BytesBefore(p[i], a) = BytesBefore(p[i], b)
  PROVE  shift_at(a, p) = shift_at(b, p)
BY DEF shift_at

\* Every removed byte lies before an address behind all of the intervals.
LEMMA ShiftAll ==
  ASSUME NEW p \in Seq(TextIv), NEW a \in Int,
         \A i \in 1..Len(p) : p[i][2] <= a
  PROVE  shift_at(a, p) = total_dead(p)
<1>1. \A i \in 1..Len(p) : p[i] \in TextIv
  OBVIOUS
<1>2. \A i \in 1..Len(p) : BytesBefore(p[i], a) = Bytes(p[i])
  <2> SUFFICES ASSUME NEW i \in 1..Len(p) PROVE BytesBefore(p[i], a) = Bytes(p[i])
    OBVIOUS
  <2>1. p[i][1] \in Int /\ p[i][2] \in Int /\ p[i][1] <= p[i][2] /\ p[i][2] <= a
    BY <1>1, IvType
  <2> QED BY <2>1 DEF BytesBefore, Bytes
<1> QED BY <1>2 DEF shift_at, total_dead

\* No removed byte lies before an address in front of all of the intervals.
LEMMA ShiftNone ==
  ASSUME NEW p \in Seq(TextIv), NEW a \in Int,
         \A i \in 1..Len(p) : a <= p[i][1]
  PROVE  shift_at(a, p) = 0
<1>1. \A i \in 1..Len(p) : p[i] \in TextIv
  OBVIOUS
<1>2. \A i \in 1..Len(p) : BytesBefore(p[i], a) = 0
  <2> SUFFICES ASSUME NEW i \in 1..Len(p) PROVE BytesBefore(p[i], a) = 0
    OBVIOUS
  <2>1. p[i][1] \in Int /\ a <= p[i][1]
    BY <1>1, IvType
  <2> QED BY <2>1 DEF BytesBefore
<1>3. shift_at(a, p) = SumOf([i \in 1..Len(p) |-> 0])
  BY <1>2 DEF shift_at
<1> QED BY <1>3, SumZero

\* Whole pages of the removed bytes are at most the removed bytes.
LEMMA ShrinkType ==
  ASSUME NEW p \in Seq(TextIv)
  PROVE  page_shrink(p) \in 0..total_dead(p)
<1> DEFINE d == total_dead(p)
<1>1. d \in Nat
  BY ShiftType, 0 \in Int
<1> HIDE DEF d
<1>2. (d \div PAGE_SIZE) * PAGE_SIZE \in 0..d
  BY <1>1, PageAssumption
<1> QED BY <1>2 DEF page_shrink, d

-----------------------------------------------------------------------------
(* What compaction_fits establishes. *)

\* The intervals of a plan that fits follow each other.
LEMMA FitsOrdered ==
  ASSUME NEW p \in Seq(TextIv), NEW b, compaction_fits(p, ts, te, b)
  PROVE  \A i, j \in 1..Len(p) : i < j => p[i][2] <= p[j][1]
<1> DEFINE n == Len(p)
           lo(i) == p[i][1]
           hi(i) == p[i][2]
<1>1. n \in Nat /\ \A i \in 1..n : lo(i) \in Nat /\ hi(i) \in Nat /\ lo(i) <= hi(i)
  BY IvType
<1>2. \A i \in 1..n : i # 1 => lo(i) >= hi(i - 1)
  BY DEF compaction_fits
<1> HIDE DEF n, lo, hi
<1>3. \A i \in 1..(n - 1) : lo(i + 1) >= hi(i)
  <2> SUFFICES ASSUME NEW i \in 1..(n - 1) PROVE lo(i + 1) >= hi(i)
    OBVIOUS
  <2>1. i + 1 \in 1..n /\ i + 1 # 1 /\ (i + 1) - 1 = i
    BY <1>1
  <2> QED BY <1>2, <2>1
<1>4. ASSUME NEW i \in 1..n, NEW j \in 1..n, i < j
      PROVE  hi(i) <= lo(j)
  <2> DEFINE S == {k \in 0..(n - i - 1) : hi(i) <= lo(i + 1 + k)}
  <2>1. n - i - 1 \in Nat /\ j - i - 1 \in 0..(n - i - 1) /\ i + 1 + (j - i - 1) = j
        /\ i \in 1..(n - 1) /\ i + 1 + 0 = i + 1
    BY <1>1, <1>4
  <2>2. 0 \in S
    <3>1. i + 1 \in 1..n
      BY <1>1, <2>1
    <3> QED BY <1>1, <1>3, <2>1, <3>1
  <2>3. ASSUME NEW k \in 0..(n - i - 1 - 1), k \in S
        PROVE  k + 1 \in S
    <3>1. i + 1 + k \in 1..(n - 1) /\ i + 1 + k \in 1..n /\ (i + 1 + k) + 1 \in 1..n
          /\ i + 1 + (k + 1) = (i + 1 + k) + 1 /\ k + 1 \in 0..(n - i - 1)
      BY <1>1, <2>1, <2>3
    <3>2. hi(i) <= lo(i + 1 + k) /\ lo(i + 1 + k) <= hi(i + 1 + k)
          /\ hi(i + 1 + k) <= lo((i + 1 + k) + 1)
      BY <1>1, <1>3, <2>3, <3>1
    <3>3. hi(i) <= lo((i + 1 + k) + 1)
      BY <1>1, <3>1, <3>2
    <3> QED BY <3>1, <3>3
  <2>4. 0..(n - i - 1) \subseteq S
    <3> HIDE DEF S
    <3> QED BY <2>1, <2>2, <2>3, UpTo
  <2>5. hi(i) <= lo(i + 1 + (j - i - 1))
    BY <2>1, <2>4
  <2> QED BY <2>1, <2>5
<1> QED BY <1>4 DEF n, lo, hi

\* The shift grows by one over a removed byte, and only there.
LEMMA ShiftStep ==
  ASSUME NEW p \in Seq(TextIv), NEW b, compaction_fits(p, ts, te, b), NEW a \in Int
  PROVE  shift_at(a + 1, p) = shift_at(a, p) + (IF in_dead_range(a, p) THEN 1 ELSE 0)
<1> DEFINE s == [i \in 1..Len(p) |-> BytesBefore(p[i], a)]
           t == [i \in 1..Len(p) |-> BytesBefore(p[i], a + 1)]
<1>1. Len(p) \in Nat /\ DOMAIN p = 1..Len(p) /\ \A i \in 1..Len(p) : p[i] \in TextIv
  OBVIOUS
<1>2. a + 1 \in Int /\ s \in Seq(Int) /\ t \in Seq(Int)
  BY SizesType
<1>3. Len(s) = Len(p) /\ Len(t) = Len(p)
  OBVIOUS
<1>4. ASSUME NEW i \in 1..Len(p)
      PROVE  /\ p[i][1] <= a /\ a < p[i][2] => t[i] = s[i] + 1
             /\ ~(p[i][1] <= a /\ a < p[i][2]) => s[i] = t[i]
  <2>1. p[i][1] \in Int /\ p[i][2] \in Int /\ p[i][1] <= p[i][2]
    BY <1>1, IvType
  <2> QED BY <2>1 DEF BytesBefore
<1>5. shift_at(a, p) = SumOf(s) /\ shift_at(a + 1, p) = SumOf(t)
  BY DEF shift_at
<1> HIDE DEF s, t
<1>6. CASE in_dead_range(a, p)
  <2>1. PICK j \in 1..Len(p) : p[j][1] <= a /\ a < p[j][2]
    BY <1>1, <1>6 DEF in_dead_range
  <2>2. t[j] = s[j] + 1
    BY <1>4, <2>1
  <2>3. ASSUME NEW i \in 1..Len(p), i # j
        PROVE  s[i] = t[i]
    <3>1. /\ p[i][1] \in Int /\ p[i][2] \in Int /\ p[i][1] <= p[i][2]
          /\ p[j][1] \in Int /\ p[j][2] \in Int /\ p[j][1] <= p[j][2]
      BY <1>1, IvType
    <3>2. p[i][2] <= p[j][1] \/ p[j][2] <= p[i][1]
      BY <1>1, <2>3, FitsOrdered
    <3>3. ~(p[i][1] <= a /\ a < p[i][2])
      BY <2>1, <3>1, <3>2
    <3> QED BY <1>4, <3>3
  <2>4. SumOf(t) = SumOf(s) + 1
    BY <1>2, <1>3, <2>2, <2>3, SumOne
  <2> QED BY <1>5, <1>6, <2>4
<1>7. CASE ~in_dead_range(a, p)
  <2>1. \A i \in 1..Len(p) : ~(p[i][1] <= a /\ a < p[i][2])
    BY <1>1, <1>7 DEF in_dead_range
  <2>2. \A i \in 1..Len(p) : s[i] = t[i]
    BY <1>4, <2>1
  <2>3. s = t
    BY <2>2 DEF s, t
  <2>4. shift_at(a, p) \in Int
    BY ShiftType
  <2> QED BY <1>5, <1>7, <2>3, <2>4
<1> QED BY <1>6, <1>7

-----------------------------------------------------------------------------
(* Unwind records the plan leaves alone. *)

\* An interval, and every interval of a plan, stays off [lo, hi).
Off(iv, lo, hi) == iv[2] <= lo \/ hi <= iv[1]
Clear(p, f) == \A i \in 1..Len(p) : Off(p[i], f.begin, FdeEnd(f))

FdeType == [begin : Nat \ {0}, range : Nat, rows : Seq(Nat), caf : Nat,
            opaque : BOOLEAN, lsda : BOOLEAN]

\* A function no interval touches keeps its length, wherever it lies, and so
\* does one without bytes: it is never stuck.
LEMMA ClearFollows ==
  ASSUME NEW p \in Seq(TextIv), NEW f \in FdeType, Clear(p, f)
  PROVE  plan_shrink(f, [ivs |-> p, ts |-> ts, te |-> te])
<1> DEFINE c == [ivs |-> p, ts |-> ts, te |-> te]
           b == f.begin
           e == FdeEnd(f)
           P == page_shrink(p)
           D == total_dead(p)
           length == map_end(c, e) - map(c, b)
<1>1. b \in Nat /\ f.range \in Nat /\ e = b + f.range /\ e \in Nat
  BY DEF FdeType, FdeEnd
<1>2. Len(p) \in Nat /\ \A i \in 1..Len(p) : ts <= p[i][1] /\ p[i][2] <= te /\ p[i][1] \in Nat
                                            /\ p[i][2] \in Nat /\ p[i][1] <= p[i][2]
  BY IvType
<1>2a. \A i \in 1..Len(p) : p[i][2] <= b \/ e <= p[i][1]
  BY DEF Clear, Off
<1>3. P \in Nat /\ D \in Nat /\ P <= D /\ \A a \in Int : shift_at(a, p) \in 0..D
  <2>1. 0 \in Int
    OBVIOUS
  <2> HIDE DEF c
  <2> QED BY <2>1, ShiftType, ShrinkType
<1>3a. P \in Nat /\ D \in Nat /\ P <= D
  BY <1>3
<1>4. c.ivs = p /\ c.ts = ts /\ c.te = te
  OBVIOUS
<1> HIDE DEF c
<1>5. map(c, b) = b - total_shift(b, p, ts, te)
  BY <1>4 DEF map
<1>6. map_end(c, e) = IF ts < e /\ e <= te THEN e - shift_at(e, p)
                      ELSE e - total_shift(e, p, ts, te)
  BY <1>4 DEF map_end, map
<1>7. ASSUME NEW a \in Nat
      PROVE  /\ a < ts => total_shift(a, p, ts, te) = 0
             /\ ts <= a /\ a < te => total_shift(a, p, ts, te) = shift_at(a, p)
             /\ te <= a => total_shift(a, p, ts, te) = P
  BY TextBounds DEF total_shift
<1> HIDE DEF b, e, P, D
<1>8. NewRange(f, c) = IF length \in 0..f.range THEN length ELSE f.range
  BY DEF NewRange, b, e
<1>9. SUFFICES ASSUME f.range # 0 PROVE ~(length \in 0..f.range) \/ length = f.range
  <2> HIDE DEF length
  <2>1. f.range = 0 /\ length \in 0..f.range => length = f.range
    BY <1>1
  <2> QED BY <1>8, <2>1 DEF plan_shrink, c
<1>10. b < e
  BY <1>1, <1>9
<1>11. CASE b < ts
  <2>1. map(c, b) = b
    BY <1>1, <1>5, <1>7, <1>11
  <2>2. \A i \in 1..Len(p) : e <= p[i][1]
    BY <1>1, <1>2, <1>2a, <1>11, TextBounds
  <2>3. shift_at(e, p) = 0
    BY <1>1, <2>2, ShiftNone
  <2>4. CASE e < ts
    BY <1>1, <1>6, <1>7, <2>1, <2>4, TextBounds
  <2>5. CASE ts <= e /\ e <= te
    <3>1. e = ts => map_end(c, e) = e
      BY <1>1, <1>6, <1>7, <2>3, TextBounds
    <3>2. e # ts => map_end(c, e) = e
      BY <1>1, <1>6, <2>3, <2>5, TextBounds
    <3> QED BY <1>1, <2>1, <3>1, <3>2
  <2>6. CASE te < e
    <3>1. ASSUME NEW i \in 1..Len(p) PROVE p[i][2] <= e
      <4>1. p[i][1] \in Nat /\ p[i][2] \in Nat /\ p[i][1] <= p[i][2] /\ p[i][2] <= te
        BY <1>2
      <4>2. e <= p[i][1]
        BY <2>2
      <4> QED BY <1>1, <2>6, <4>1, <4>2, TextBounds
    <3>2. shift_at(e, p) = D
      <4>1. e \in Int
        BY <1>1
      <4> QED BY <3>1, <4>1, ShiftAll DEF D
    <3>3. P = 0
      BY <1>3, <2>3, <3>2
    <3>4. map_end(c, e) = e
      BY <1>1, <1>6, <1>7, <2>6, <3>3, TextBounds
    <3> QED BY <1>1, <2>1, <3>4
  <2> QED BY <1>1, <2>4, <2>5, <2>6, TextBounds
<1>12. CASE ts <= b /\ b < te
  <2>1. map(c, b) = b - shift_at(b, p)
    BY <1>1, <1>5, <1>7, <1>12
  <2>2. CASE e <= te
    <3>1. map_end(c, e) = e - shift_at(e, p)
      BY <1>1, <1>6, <1>10, <1>12, <2>2, TextBounds
    <3>2. ASSUME NEW i \in 1..Len(p)
          PROVE  BytesBefore(p[i], b) = BytesBefore(p[i], e)
      <4>1. p[i][1] \in Nat /\ p[i][2] \in Nat /\ p[i][1] <= p[i][2]
            /\ (p[i][2] <= b \/ e <= p[i][1])
        BY <1>2, <1>2a
      <4> QED BY <1>1, <1>10, <4>1 DEF BytesBefore
    <3>3. shift_at(b, p) = shift_at(e, p)
      BY <1>1, <3>2, ShiftSame
    <3>4. shift_at(b, p) \in Int
      BY <1>1, <1>3
    <3> QED BY <1>1, <2>1, <3>1, <3>3, <3>4
  <2>3. CASE te < e
    <3>1. map_end(c, e) = e - P
      BY <1>1, <1>6, <1>7, <2>3, TextBounds
    <3>2. ASSUME NEW i \in 1..Len(p) PROVE p[i][2] <= b
      <4>1. p[i][1] \in Nat /\ p[i][2] \in Nat /\ p[i][1] <= p[i][2] /\ p[i][2] <= te
            /\ (p[i][2] <= b \/ e <= p[i][1])
        BY <1>2, <1>2a
      <4> QED BY <1>1, <2>3, <4>1, TextBounds
    <3>3. shift_at(b, p) = D
      <4>1. b \in Int
        BY <1>1
      <4> QED BY <3>2, <4>1, ShiftAll DEF D
    <3>4. length >= f.range
      <4>1. length = (e - P) - (b - D)
        BY <2>1, <3>1, <3>3
      <4>2. (e - P) - (b - D) >= f.range
        BY <1>1, <1>3a
      <4> HIDE DEF length
      <4> QED BY <4>1, <4>2
    <3>5. length \in 0..f.range => length = f.range
      <4> HIDE DEF length
      <4> QED BY <1>1, <3>4
    <3> QED BY <3>5
  <2> QED BY <1>1, <2>2, <2>3, TextBounds
<1>13. CASE te <= b
  <2>1. map(c, b) = b - P
    BY <1>1, <1>5, <1>7, <1>13
  <2>2. map_end(c, e) = e - P
    BY <1>1, <1>6, <1>7, <1>10, <1>13, TextBounds
  <2>3. length = (e - P) - (b - P)
    BY <2>1, <2>2
  <2>4. (e - P) - (b - P) = f.range
    BY <1>1, <1>3a
  <2> HIDE DEF length
  <2> QED BY <2>3, <2>4
<1> QED BY <1>1, <1>11, <1>12, <1>13, TextBounds

-----------------------------------------------------------------------------
(* Whole units. *)

\* Sums and differences of whole units are whole units.
LEMMA WholeUnits ==
  ASSUME NEW al \in Nat \ {0}, NEW a \in Int, NEW b \in Int, a % al = 0, b % al = 0
  PROVE  (a + b) % al = 0 /\ (a - b) % al = 0
<1> DEFINE k == a \div al
           l == b \div al
<1>1. k \in Int /\ l \in Int /\ a = al * k /\ b = al * l
  OBVIOUS
<1> HIDE DEF k, l
<1>2. al * k + al * l = (k + l) * al /\ al * k - al * l = (k - l) * al
  BY <1>1
<1>3. ((k + l) * al) % al = 0 /\ ((k - l) * al) % al = 0
  BY <1>1
<1> QED BY <1>1, <1>2, <1>3

\* Rounding down to whole units.
LEMMA RoundedDown ==
  ASSUME NEW al \in Nat \ {0}, NEW a \in Nat
  PROVE  (a \div al) * al \in 0..a /\ ((a \div al) * al) % al = 0
<1>1. a \div al \in Int
  OBVIOUS
<1>2. (a \div al) * al \in 0..a
  OBVIOUS
<1>3. \A k \in Int : (k * al) % al = 0
  OBVIOUS
<1> QED BY <1>1, <1>2, <1>3

\* The intervals of .text made of whole units that hold no address of X.
UnitIv(al, X) ==
  {p \in TextIv : /\ (p[1] - ts) % al = 0 /\ (p[2] - ts) % al = 0
                  /\ \A a \in X : ~(p[1] <= a /\ a < p[2])}

\* A step by whole units from a boundary leads to a boundary.
LEMMA UnitStep ==
  ASSUME NEW al \in Nat \ {0}, NEW a \in Nat, (a - ts) % al = 0, NEW d \in Nat, d % al = 0
  PROVE  ((a + d) - ts) % al = 0 /\ ((a - d) - ts) % al = 0
<1>1. a - ts \in Int /\ (a + d) - ts = (a - ts) + d /\ (a - d) - ts = (a - ts) - d
  BY TextBounds
<1>2. ((a - ts) + d) % al = 0 /\ ((a - ts) - d) % al = 0
  BY <1>1, WholeUnits
<1> QED BY <1>1, <1>2

\* What makes a pair such an interval.
LEMMA MakeUnitIv ==
  ASSUME NEW al \in Nat \ {0}, NEW X \in SUBSET Nat, NEW a \in ts..te, NEW b \in ts..te, a <= b,
         (a - ts) % al = 0, (b - ts) % al = 0, \A x \in X : ~(a <= x /\ x < b)
  PROVE  <<a, b>> \in UnitIv(al, X)
BY DEF UnitIv, TextIv

\* The pieces of an interval that stay off [lo, hi).
PieceOf(iv, lo, hi, al, X) ==
  {q \in UnitIv(al, X) : Off(q, lo, hi) /\ iv[1] <= q[1] /\ q[2] <= iv[2]}

\* What is left of an interval lies inside it, off the range that was cut
\* out, and is whole units again.
LEMMA PiecesInside ==
  ASSUME NEW al \in Nat \ {0}, NEW X \in SUBSET Nat, NEW iv \in UnitIv(al, X), NEW lo \in Nat, NEW hi \in Nat, lo <= hi
  PROVE  Pieces(iv, <<lo, hi>>, al) \in Seq(PieceOf(iv, lo, hi, al, X))
<1> DEFINE r == <<lo, hi>>
           dl == ((lo - iv[1]) \div al) * al
           dr == ((iv[2] - hi) \div al) * al
           left == <<iv[1], iv[1] + dl>>
           right == <<iv[2] - dr, iv[2]>>
           P == PieceOf(iv, lo, hi, al, X)
<1>1. iv \in TextIv /\ (iv[1] - ts) % al = 0 /\ (iv[2] - ts) % al = 0
  BY DEF UnitIv
<1>1a. \A x \in X : ~(iv[1] <= x /\ x < iv[2])
  BY DEF UnitIv
<1>2. iv[1] \in Nat /\ iv[2] \in Nat /\ ts <= iv[1] /\ iv[1] <= iv[2] /\ iv[2] <= te
  BY <1>1, IvType
<1>3. CASE iv[2] <= lo \/ iv[1] >= hi
  <2>1. Pieces(iv, r, al) = <<iv>>
    BY <1>3 DEF Pieces
  <2>2. iv \in P
    BY <1>2, <1>3 DEF Off, PieceOf
  <2> HIDE DEF P
  <2>3. <<iv>> \in Seq(P)
    BY <2>2
  <2> QED BY <2>1, <2>3 DEF P
<1>4. CASE ~(iv[2] <= lo \/ iv[1] >= hi)
  <2>1. Pieces(iv, r, al) = (IF iv[1] < lo THEN <<left>> ELSE <<>>)
                              \o (IF hi < iv[2] THEN <<right>> ELSE <<>>)
    BY <1>4 DEF Pieces
  <2>2. iv[1] < lo => left \in P
    <3> SUFFICES ASSUME iv[1] < lo PROVE left \in P
      OBVIOUS
    <3>1. lo - iv[1] \in Nat
      BY <1>2
    <3>2. dl \in 0..(lo - iv[1]) /\ dl % al = 0
      BY <3>1, RoundedDown
    <3> HIDE DEF dl
    <3>3. iv[1] + dl \in ts..te /\ iv[1] \in ts..te /\ iv[1] <= iv[1] + dl
          /\ iv[1] + dl <= lo /\ iv[1] + dl <= iv[2]
      BY <1>2, <1>4, <3>2, TextBounds
    <3>4. ((iv[1] + dl) - ts) % al = 0
      BY <1>1, <1>2, <3>2, UnitStep
    <3>6. \A x \in X : ~(iv[1] <= x /\ x < iv[1] + dl)
      <4> SUFFICES ASSUME NEW x \in X, iv[1] <= x /\ x < iv[1] + dl PROVE FALSE
        OBVIOUS
      <4>1. x \in Nat /\ ~(iv[1] <= x /\ x < iv[2])
        BY <1>1a
      <4> QED BY <1>2, <3>2, <3>3, <4>1, TextBounds
    <3>5. left \in UnitIv(al, X)
      BY <1>1, <3>3, <3>4, <3>6, MakeUnitIv
    <3> QED BY <1>2, <3>3, <3>5 DEF Off, PieceOf
  <2>3. hi < iv[2] => right \in P
    <3> SUFFICES ASSUME hi < iv[2] PROVE right \in P
      OBVIOUS
    <3>1. iv[2] - hi \in Nat
      BY <1>2
    <3>2. dr \in 0..(iv[2] - hi) /\ dr % al = 0
      BY <3>1, RoundedDown
    <3> HIDE DEF dr
    <3>3. iv[2] - dr \in ts..te /\ iv[2] \in ts..te /\ iv[2] - dr <= iv[2]
          /\ hi <= iv[2] - dr /\ iv[1] <= iv[2] - dr
      BY <1>2, <1>4, <3>2, TextBounds
    <3>4. ((iv[2] - dr) - ts) % al = 0
      <4>1. dr \in Nat
        BY <1>2, <3>1, <3>2
      <4>2. \A a \in Nat, d \in Nat :
              (a - ts) % al = 0 /\ d % al = 0 => ((a - d) - ts) % al = 0
        BY UnitStep
      <4> QED BY <1>1, <1>2, <3>2, <4>1, <4>2
    <3>6. \A x \in X : ~(iv[2] - dr <= x /\ x < iv[2])
      <4> SUFFICES ASSUME NEW x \in X, iv[2] - dr <= x /\ x < iv[2] PROVE FALSE
        OBVIOUS
      <4>1. x \in Nat /\ ~(iv[1] <= x /\ x < iv[2])
        BY <1>1a
      <4> QED BY <1>2, <3>2, <3>3, <4>1, TextBounds
    <3>5. right \in UnitIv(al, X)
      BY <1>1, <3>3, <3>4, <3>6, MakeUnitIv
    <3> QED BY <1>2, <3>3, <3>5 DEF Off, PieceOf
  <2> HIDE DEF left, right, P
  <2> DEFINE ls == IF iv[1] < lo THEN <<left>> ELSE <<>>
             rs == IF hi < iv[2] THEN <<right>> ELSE <<>>
  <2>4. ls \in Seq(P) /\ rs \in Seq(P)
    BY <2>2, <2>3
  <2>5. Pieces(iv, r, al) = ls \o rs
    BY <2>1
  <2> HIDE DEF ls, rs
  <2>6. ls \o rs \in Seq(P)
    BY <2>4
  <2> QED BY <2>5, <2>6 DEF P
<1> QED BY <1>3, <1>4

-----------------------------------------------------------------------------
(* Cutting. *)

\* A concatenation of n sequences exists and is a sequence.
LEMMA ConcatExists ==
  ASSUME NEW n \in Nat, NEW T, NEW part \in [1..n -> Seq(T)]
  PROVE  \E g : g = [i \in 0..n |-> IF i = 0 THEN <<>> ELSE g[i - 1] \o part[i]]
<1> DEFINE step == [i \in 1..n |-> [q \in Seq(T) |-> q \o part[i]]]
<1>1. step \in [1..n -> [Seq(T) -> Seq(T)]]
  OBVIOUS
<1>2. \A i \in 1..n, q \in Seq(T) : step[i][q] = q \o part[i]
  OBVIOUS
<1> HIDE DEF step
<1>3. <<>> \in Seq(T)
  OBVIOUS
<1>4. PICK f \in [0..n -> Seq(T)] : Iterates(f, <<>>, step, n)
  BY <1>1, <1>3, RecursionExists
<1>5. ASSUME NEW i \in 0..n
      PROVE  f[i] = IF i = 0 THEN <<>> ELSE f[i - 1] \o part[i]
  <2>1. CASE i = 0
    BY <1>4, <2>1 DEF Iterates
  <2>2. CASE i # 0
    <3>1. i \in 1..n /\ i - 1 \in 0..n
      BY <2>2
    <3>2. f[i] = step[i][f[i - 1]] /\ f[i - 1] \in Seq(T)
      BY <1>4, <3>1 DEF Iterates
    <3> QED BY <1>2, <2>2, <3>1, <3>2
  <2> QED BY <2>1, <2>2
<1>6. f = [i \in 0..n |-> IF i = 0 THEN <<>> ELSE f[i - 1] \o part[i]]
  BY <1>5
<1> QED BY <1>6

LEMMA ConcatType ==
  ASSUME NEW n \in Nat, NEW T, NEW part \in [1..n -> Seq(T)],
         NEW g, g[0] = <<>>, \A i \in 1..n : g[i] = g[i - 1] \o part[i]
  PROVE  g[n] \in Seq(T)
<1> DEFINE S == {i \in 0..n : g[i] \in Seq(T)}
<1>1. 0 \in S
  <2>1. 0 \in 0..n /\ <<>> \in Seq(T)
    OBVIOUS
  <2> QED BY <2>1
<1>2. ASSUME NEW i \in 0..(n - 1), i \in S
      PROVE  i + 1 \in S
  <2>1. i + 1 \in 1..n /\ (i + 1) - 1 = i /\ i + 1 \in 0..n
    OBVIOUS
  <2>2. g[i + 1] = g[(i + 1) - 1] \o part[i + 1]
    BY <2>1
  <2>3. g[i + 1] = g[i] \o part[i + 1]
    BY <2>1, <2>2
  <2>4. part[i + 1] \in Seq(T) /\ g[i] \in Seq(T)
    BY <1>2, <2>1
  <2>5. g[i + 1] \in Seq(T)
    BY <2>3, <2>4
  <2> QED BY <2>1, <2>5
<1>3. 0..n \subseteq S
  <2> HIDE DEF S
  <2> QED BY <1>1, <1>2, UpTo
<1> QED BY <1>3

\* What cut_range leaves of a plan: pieces of its intervals, off the range.
LEMMA CutInside ==
  ASSUME NEW al \in Nat \ {0}, NEW X \in SUBSET Nat, NEW p \in Seq(UnitIv(al, X)),
         NEW lo \in Nat, NEW hi \in Nat, lo <= hi
  PROVE  cut_range(p, <<lo, hi>>, al)
           \in Seq(UNION {PieceOf(p[i], lo, hi, al, X) : i \in 1..Len(p)})
<1> DEFINE n == Len(p)
           r == <<lo, hi>>
           T == UNION {PieceOf(p[i], lo, hi, al, X) : i \in 1..n}
           part == [i \in 1..n |-> Pieces(p[i], r, al)]
<1>1. n \in Nat /\ \A i \in 1..n : p[i] \in UnitIv(al, X)
  OBVIOUS
<1>2. ASSUME NEW i \in 1..n
      PROVE  Pieces(p[i], r, al) \in Seq(T)
  <2> DEFINE P == PieceOf(p[i], lo, hi, al, X)
             q == Pieces(p[i], r, al)
  <2>1. q \in Seq(P)
    BY <1>1, PiecesInside
  <2>2. P \subseteq T
    OBVIOUS
  <2> HIDE DEF P, T, q
  <2>3. q \in Seq(T)
    BY <2>1, <2>2
  <2> QED BY <2>3 DEF q
<1>3. part \in [1..n -> Seq(T)]
  <2> HIDE DEF T
  <2> QED BY <1>2
<1>4. \A i \in 1..n : part[i] = Pieces(p[i], r, al)
  OBVIOUS
<1>5. \E g : g = [i \in 0..Len(p) |-> IF i = 0 THEN <<>> ELSE g[i - 1] \o Pieces(p[i], r, al)]
  <2>1. PICK g : g = [i \in 0..n |-> IF i = 0 THEN <<>> ELSE g[i - 1] \o part[i]]
    <3> HIDE DEF n, part, T
    <3> QED BY <1>1, <1>3, ConcatExists
  <2>2. [i \in 0..n |-> IF i = 0 THEN <<>> ELSE g[i - 1] \o part[i]]
          = [i \in 0..Len(p) |-> IF i = 0 THEN <<>> ELSE g[i - 1] \o Pieces(p[i], r, al)]
    OBVIOUS
  <2>3. g = [i \in 0..Len(p) |-> IF i = 0 THEN <<>> ELSE g[i - 1] \o Pieces(p[i], r, al)]
    BY <2>1, <2>2, Zenon
  <2> QED BY <2>3
<1> DEFINE cut[i \in 0..Len(p)] ==
             IF i = 0 THEN <<>> ELSE cut[i - 1] \o Pieces(p[i], r, al)
<1>6. cut = [i \in 0..Len(p) |-> IF i = 0 THEN <<>> ELSE cut[i - 1] \o Pieces(p[i], r, al)]
  BY <1>5, Zenon
<1> DEFINE all == cut[Len(p)]
           k == {iv \in Range(all) : iv[1] < iv[2]}
<1>7. cut_range(p, r, al) = Keep(all, k)
  BY DEF cut_range
<1> HIDE DEF cut
<1>8. cut[0] = <<>> /\ \A i \in 1..n : cut[i] = cut[i - 1] \o part[i]
  <2>1. \A i \in 0..n : cut[i] = IF i = 0 THEN <<>> ELSE cut[i - 1] \o Pieces(p[i], r, al)
    BY <1>1, <1>6
  <2> HIDE DEF n, part, r
  <2>2. cut[0] = <<>>
    BY <1>1, <2>1
  <2>3. ASSUME NEW i \in 1..n PROVE cut[i] = cut[i - 1] \o part[i]
    <3>1. i \in 0..n /\ i # 0
      BY <1>1
    <3>2. cut[i] = cut[i - 1] \o Pieces(p[i], r, al)
      BY <2>1, <3>1
    <3> QED BY <1>4, <3>2
  <2> QED BY <2>2, <2>3
<1>9. all \in Seq(T)
  <2>1. cut[n] \in Seq(T)
    <3> HIDE DEF n, part, T
    <3> QED BY <1>1, <1>3, <1>8, ConcatType, Zenon
  <2> QED BY <2>1
<1>10. Keep(all, k) \in Seq(T)
  <2> HIDE DEF all, k, T
  <2> QED BY <1>9, KeepValues
<1> HIDE DEF all, k
<1> QED BY <1>7, <1>10

\* Cutting a function out clears it, and clears no other function's way.
LEMMA CutClears ==
  ASSUME NEW al \in Nat \ {0}, NEW X \in SUBSET Nat, NEW p \in Seq(UnitIv(al, X)), NEW f \in FdeType
  PROVE  LET q == cut_range(p, <<f.begin, FdeEnd(f)>>, al)
         IN /\ q \in Seq(UnitIv(al, X))
            /\ Clear(q, f)
            /\ \A g \in FdeType : Clear(p, g) => Clear(q, g)
<1> DEFINE lo == f.begin
           hi == FdeEnd(f)
           q == cut_range(p, <<lo, hi>>, al)
           T == UNION {PieceOf(p[i], lo, hi, al, X) : i \in 1..Len(p)}
<1>1. lo \in Nat /\ hi \in Nat /\ lo <= hi
  BY DEF FdeType, FdeEnd
<1>2. q \in Seq(T)
  <2> HIDE DEF lo, hi
  <2> QED BY <1>1, CutInside
<1> HIDE DEF q
<1>3. T \subseteq UnitIv(al, X)
  BY DEF PieceOf
<1>4. q \in Seq(UnitIv(al, X))
  <2> HIDE DEF T
  <2> QED BY <1>2, <1>3
<1>5. ASSUME NEW j \in 1..Len(q)
      PROVE  q[j] \in T
  <2> HIDE DEF T
  <2> QED BY <1>2
<1>6. Clear(q, f)
  BY <1>5 DEF Clear, PieceOf
<1>7. ASSUME NEW g \in FdeType, Clear(p, g)
      PROVE  Clear(q, g)
  <2> DEFINE b == g.begin
             e == FdeEnd(g)
  <2>1. b \in Nat /\ e \in Nat
    BY DEF FdeType, FdeEnd
  <2>2. SUFFICES ASSUME NEW j \in 1..Len(q) PROVE Off(q[j], b, e)
    BY DEF Clear
  <2>3. PICK i \in 1..Len(p) : q[j] \in PieceOf(p[i], lo, hi, al, X)
    BY <1>5
  <2>4. p[i] \in UnitIv(al, X) /\ q[j] \in UnitIv(al, X) /\ p[i][1] <= q[j][1] /\ q[j][2] <= p[i][2]
    BY <2>3 DEF PieceOf
  <2>5. p[i] \in TextIv /\ q[j] \in TextIv
    BY <2>4 DEF UnitIv
  <2>6. Off(p[i], b, e)
    BY <1>7 DEF Clear
  <2> HIDE DEF b, e
  <2>7. /\ p[i][1] \in Nat /\ p[i][2] \in Nat /\ q[j][1] \in Nat /\ q[j][2] \in Nat
    BY <2>5, IvType
  <2> QED BY <2>1, <2>4, <2>6, <2>7 DEF Off
<1> QED BY <1>4, <1>6, <1>7 DEF q

\* A round of unwind_safe_intervals clears every stuck function and keeps
\* clear what was clear.
LEMMA RoundClears ==
  ASSUME NEW al \in Nat \ {0}, NEW X \in SUBSET Nat, NEW p \in Seq(UnitIv(al, X)), NEW fs \in Seq(FdeType),
         NEW c, c.ivs = p
  PROVE  LET q == CutStuck(fs, c, al)
         IN /\ q \in Seq(UnitIv(al, X))
            /\ \A f \in FdeType : Clear(p, f) => Clear(q, f)
            /\ \A f \in Range(stuck_ranges(fs, c)) : Clear(q, f)
<1> DEFINE stuck == stuck_ranges(fs, c)
           n == Len(stuck)
           U == UnitIv(al, X)
           C(q, i) == cut_range(q, <<stuck[i].begin, FdeEnd(stuck[i])>>, al)
<1>1. stuck \in Seq(FdeType)
  BY KeepValues DEF stuck_ranges
<1> HIDE DEF stuck
<1>2. n \in Nat /\ \A i \in 1..n : stuck[i] \in FdeType
  BY <1>1
<1>3. ASSUME NEW i \in 1..n, NEW q \in Seq(U)
      PROVE  /\ C(q, i) \in Seq(U)
             /\ Clear(C(q, i), stuck[i])
             /\ \A g \in FdeType : Clear(q, g) => Clear(C(q, i), g)
  BY <1>2, CutClears
<1> HIDE DEF n
<1>4. \E g : g = [i \in 0..n |-> IF i = 0 THEN c.ivs ELSE C(g[i - 1], i)]
  <2> HIDE DEF C, U
  <2> DEFINE step == [i \in 1..n |-> [q \in Seq(U) |-> C(q, i)]]
  <2>1. step \in [1..n -> [Seq(U) -> Seq(U)]]
    BY <1>3
  <2>2. \A i \in 1..n, q \in Seq(U) : step[i][q] = C(q, i)
    OBVIOUS
  <2>3. p \in Seq(U)
    BY DEF U
  <2> HIDE DEF step
  <2>4. PICK f \in [0..n -> Seq(U)] : Iterates(f, p, step, n)
    BY <1>2, <2>1, <2>3, RecursionExists
  <2>5. ASSUME NEW i \in 0..n
        PROVE  f[i] = IF i = 0 THEN c.ivs ELSE C(f[i - 1], i)
    <3>1. CASE i = 0
      BY <2>4, <3>1 DEF Iterates
    <3>2. CASE i # 0
      <4>1. i \in 1..n /\ i - 1 \in 0..n
        BY <1>2, <3>2
      <4>2. f[i] = step[i][f[i - 1]] /\ f[i - 1] \in Seq(U)
        BY <2>4, <4>1 DEF Iterates
      <4> QED BY <2>2, <3>2, <4>1, <4>2
    <3> QED BY <3>1, <3>2
  <2>6. f = [i \in 0..n |-> IF i = 0 THEN c.ivs ELSE C(f[i - 1], i)]
    BY <2>5
  <2> QED BY <2>6
<1> DEFINE cut[i \in 0..Len(stuck)] ==
             IF i = 0 THEN c.ivs
             ELSE cut_range(cut[i - 1], <<stuck[i].begin, FdeEnd(stuck[i])>>, al)
<1>5. cut = [i \in 0..Len(stuck) |->
               IF i = 0 THEN c.ivs
               ELSE cut_range(cut[i - 1], <<stuck[i].begin, FdeEnd(stuck[i])>>, al)]
  <2>1. \E g : g = [i \in 0..Len(stuck) |->
                      IF i = 0 THEN c.ivs
                      ELSE cut_range(g[i - 1], <<stuck[i].begin, FdeEnd(stuck[i])>>, al)]
    BY <1>4, Zenon DEF n
  <2> QED BY <2>1, Zenon
<1>6. CutStuck(fs, c, al) = cut[Len(stuck)]
  BY DEF CutStuck, stuck
<1> HIDE DEF cut
<1>7. cut[0] = p /\ \A i \in 1..n : cut[i] = C(cut[i - 1], i)
  <2>1. \A i \in 0..n : cut[i] = IF i = 0 THEN c.ivs ELSE C(cut[i - 1], i)
    BY <1>5, Zenon DEF n
  <2> HIDE DEF C
  <2>2. cut[0] = p
    BY <1>2, <2>1
  <2>3. ASSUME NEW i \in 1..n PROVE cut[i] = C(cut[i - 1], i)
    <3>1. i \in 0..n /\ i # 0
      BY <1>2
    <3> QED BY <2>1, <3>1
  <2> QED BY <2>2, <2>3
<1> HIDE DEF C
<1> DEFINE Good(i) == /\ cut[i] \in Seq(U)
                      /\ \A g \in FdeType : Clear(p, g) => Clear(cut[i], g)
                      /\ \A j \in 1..i : Clear(cut[i], stuck[j])
           S == {i \in 0..n : Good(i)}
<1>8. 0 \in S
  <2>1. Good(0)
    BY <1>7
  <2> QED BY <1>2, <2>1
<1>9. ASSUME NEW i \in 0..(n - 1), i \in S
      PROVE  i + 1 \in S
  <2>1. i + 1 \in 1..n /\ (i + 1) - 1 = i /\ i + 1 \in 0..n /\ 1..(i + 1) = 1..i \cup {i + 1}
    BY <1>2
  <2>2. cut[i + 1] = C(cut[(i + 1) - 1], i + 1)
    BY <1>7, <2>1
  <2>3. cut[i + 1] = C(cut[i], i + 1)
    BY <2>1, <2>2
  <2>4. cut[i] \in Seq(U)
    BY <1>9
  <2>5. /\ cut[i + 1] \in Seq(U) /\ Clear(cut[i + 1], stuck[i + 1])
        /\ \A g \in FdeType : Clear(cut[i], g) => Clear(cut[i + 1], g)
    <3> HIDE DEF U
    <3> QED BY <1>3, <2>1, <2>3, <2>4
  <2>6. \A j \in 1..(i + 1) : Clear(cut[i + 1], stuck[j])
    <3> SUFFICES ASSUME NEW j \in 1..(i + 1) PROVE Clear(cut[i + 1], stuck[j])
      OBVIOUS
    <3>1. j = i + 1 \/ (j \in 1..i /\ j \in 1..n)
      BY <1>2, <2>1
    <3>2. CASE j = i + 1
      BY <2>5, <3>2
    <3>3. CASE j \in 1..i /\ j \in 1..n
      BY <1>2, <1>9, <2>5, <3>3
    <3> QED BY <3>1, <3>2, <3>3
  <2>7. Good(i + 1)
    BY <1>9, <2>5, <2>6
  <2> HIDE DEF Good
  <2> QED BY <2>1, <2>7
<1>10. 0..n \subseteq S
  <2> HIDE DEF S
  <2> QED BY <1>2, <1>8, <1>9, UpTo
<1>11. Good(n)
  <2> HIDE DEF Good
  <2> QED BY <1>2, <1>10
<1>12. \A f \in Range(stuck) : Clear(cut[n], f)
  BY <1>11 DEF Range, n
<1> QED BY <1>6, <1>11, <1>12 DEF stuck, n

-----------------------------------------------------------------------------
(* Making the plan. *)

\* The pairs before x in the order of sort.
Before(S, x) == {y \in S : PairLess(y, x)}

\* Every place of the sorted sequence is taken: distinct pairs have distinct
\* numbers of predecessors, so all numbers below the size of the set occur.
LEMMA SortValues ==
  ASSUME NEW S \in SUBSET (Nat \X Nat), IsFiniteSet(S)
  PROVE  sort(S) \in Seq(S)
<1> DEFINE n == Cardinality(S)
           rank == [x \in S |-> Cardinality(Before(S, x))]
<1>1. n \in Nat
  BY FS_CardinalityType
<1>2. ASSUME NEW x \in S
      PROVE  IsFiniteSet(Before(S, x)) /\ rank[x] \in 0..(n - 1)
  <2>1. Before(S, x) \in SUBSET S /\ x \notin Before(S, x)
    BY DEF Before, PairLess
  <2>2. /\ IsFiniteSet(Before(S, x)) /\ Cardinality(Before(S, x)) <= n
        /\ n = Cardinality(Before(S, x)) => S = Before(S, x)
    BY <2>1, FS_Subset
  <2>3. Cardinality(Before(S, x)) \in Nat /\ Cardinality(Before(S, x)) # n
    BY <2>1, <2>2, FS_CardinalityType
  <2>4. rank[x] = Cardinality(Before(S, x))
    OBVIOUS
  <2> HIDE DEF rank, n
  <2> QED BY <1>1, <2>2, <2>3, <2>4 DEF n
<1>3. ASSUME NEW x \in S, NEW y \in S, PairLess(x, y)
      PROVE  rank[x] < rank[y]
  <2>1. Before(S, x) \in SUBSET Before(S, y) /\ x \in Before(S, y) /\ x \notin Before(S, x)
    BY <1>3 DEF Before, PairLess
  <2>2. IsFiniteSet(Before(S, x)) /\ IsFiniteSet(Before(S, y))
    BY <1>2
  <2>3. /\ Cardinality(Before(S, x)) <= Cardinality(Before(S, y))
        /\ Cardinality(Before(S, x)) # Cardinality(Before(S, y))
    BY <2>1, <2>2, FS_Subset
  <2>4. Cardinality(Before(S, x)) \in Nat /\ Cardinality(Before(S, y)) \in Nat
    BY <2>2, FS_CardinalityType
  <2> QED BY <2>3, <2>4
<1>4. \A x, y \in S : x # y => rank[x] # rank[y]
  <2> SUFFICES ASSUME NEW x \in S, NEW y \in S, x # y PROVE rank[x] # rank[y]
    OBVIOUS
  <2>1. PairLess(x, y) \/ PairLess(y, x)
    <3>1. PICK a \in Nat, b \in Nat : x = <<a, b>>
      OBVIOUS
    <3>2. PICK d \in Nat, e \in Nat : y = <<d, e>>
      OBVIOUS
    <3> QED BY <3>1, <3>2 DEF PairLess
  <2>2. rank[x] \in Int /\ rank[y] \in Int
    <3> HIDE DEF rank
    <3> QED BY <1>1, <1>2
  <2> HIDE DEF rank
  <2> QED BY <1>3, <2>1, <2>2
<1>5. rank \in Injection(S, 0..(n - 1))
  <2>1. rank \in [S -> 0..(n - 1)]
    BY <1>2
  <2> HIDE DEF rank
  <2> QED BY <1>4, <2>1 DEF Injection, IsInjective
<1>6. rank \in Surjection(S, 0..(n - 1))
  <2>1. IsFiniteSet(0..(n - 1)) /\ Cardinality(0..(n - 1)) = n
    <3>1. 0 \in Int /\ n - 1 \in Int
      BY <1>1
    <3>2. /\ IsFiniteSet(0..(n - 1))
          /\ Cardinality(0..(n - 1)) = IF 0 > n - 1 THEN 0 ELSE (n - 1) - 0 + 1
      BY <3>1, FS_Interval
    <3> HIDE DEF n
    <3> QED BY <1>1, <3>2
  <2> HIDE DEF rank
  <2> QED BY <1>5, <2>1, FS_Injection
<1>7. ASSUME NEW i \in 1..n
      PROVE  \E x \in S : Cardinality({y \in S : PairLess(y, x)}) = i - 1
  <2>1. i - 1 \in 0..(n - 1)
    BY <1>1
  <2>2. PICK x \in S : rank[x] = i - 1
    BY <1>6, <2>1 DEF Surjection
  <2> QED BY <2>2 DEF Before
<1> DEFINE at(i) == CHOOSE x \in S : Cardinality({y \in S : PairLess(y, x)}) = i - 1
<1>8. \A i \in 1..n : at(i) \in S
  BY <1>7
<1>9. sort(S) = [i \in 1..n |-> at(i)]
  BY DEF sort
<1> HIDE DEF at, n
<1> QED BY <1>1, <1>8, <1>9

\* Two whole-unit intervals that meet make one.
LEMMA UnitsMerge ==
  ASSUME NEW al \in Nat \ {0}, NEW X \in SUBSET Nat, NEW last \in UnitIv(al, X),
         NEW iv \in UnitIv(al, X), iv[1] <= last[2]
  PROVE  <<last[1], IF iv[2] > last[2] THEN iv[2] ELSE last[2]>> \in UnitIv(al, X)
<1>1. /\ last \in TextIv /\ (last[1] - ts) % al = 0 /\ (last[2] - ts) % al = 0
      /\ iv \in TextIv /\ (iv[2] - ts) % al = 0
  BY DEF UnitIv
<1>2. /\ last[1] \in ts..te /\ last[2] \in ts..te /\ last[1] <= last[2]
      /\ iv[2] \in ts..te /\ (iv[2] > last[2] => last[1] <= iv[2])
  <2>1. /\ last[1] \in Nat /\ last[2] \in Nat /\ ts <= last[1] /\ last[1] <= last[2]
        /\ last[2] <= te
    BY <1>1, IvType
  <2>2. iv[2] \in Nat /\ iv[1] \in Nat /\ ts <= iv[1] /\ iv[1] <= iv[2] /\ iv[2] <= te
    BY <1>1, IvType
  <2> QED BY <2>1, <2>2, TextBounds
<1>3. \A x \in X : x \in Nat /\ ~(last[1] <= x /\ x < last[2]) /\ ~(iv[1] <= x /\ x < iv[2])
  BY DEF UnitIv
<1>4. iv[1] \in Nat
  BY <1>1, IvType
<1>5. CASE iv[2] > last[2]
  <2>1. \A x \in X : ~(last[1] <= x /\ x < iv[2])
    <3> SUFFICES ASSUME NEW x \in X, last[1] <= x, x < iv[2] PROVE FALSE
      OBVIOUS
    <3>1. x \in Nat /\ ~(x < last[2]) /\ ~(iv[1] <= x)
      BY <1>3
    <3>2. last[2] \in Nat /\ iv[1] <= last[2]
      BY <1>1, IvType
    <3> QED BY <1>4, <3>1, <3>2
  <2>2. <<last[1], iv[2]>> \in UnitIv(al, X)
    BY <1>1, <1>2, <1>5, <2>1, MakeUnitIv
  <2> QED BY <1>5, <2>2
<1>6. CASE ~(iv[2] > last[2])
  <2>1. <<last[1], last[2]>> \in UnitIv(al, X)
    BY <1>1, <1>2, <1>3, MakeUnitIv
  <2> QED BY <1>6, <2>1
<1> QED BY <1>5, <1>6

\* Merging makes intervals of every kind that joining two that meet keeps.
LEMMA MergeKinds ==
  ASSUME NEW U \in SUBSET TextIv, NEW S \in SUBSET U, IsFiniteSet(S),
         \A last, iv \in U : iv[1] <= last[2] =>
           <<last[1], IF iv[2] > last[2] THEN iv[2] ELSE last[2]>> \in U
  PROVE  merge_intervals(S) \in Seq(U)
<1> DEFINE sorted == sort(S)
           n == Len(sorted)
           M(m, i) == IF m # <<>> /\ sorted[i][1] <= m[Len(m)][2]
                      THEN [m EXCEPT ![Len(m)] =
                              <<@[1], IF sorted[i][2] > @[2] THEN sorted[i][2] ELSE @[2]>>]
                      ELSE Append(m, sorted[i])
<1>1. sorted \in Seq(U)
  <2>1. U \subseteq Nat \X Nat
    BY TextBounds DEF TextIv
  <2>2. sorted \in Seq(S)
    <3>1. S \in SUBSET (Nat \X Nat)
      BY <2>1
    <3> QED BY <3>1, SortValues
  <2> HIDE DEF sorted
  <2> QED BY <2>2
<1> HIDE DEF sorted
<1>2. n \in Nat /\ \A i \in 1..n : sorted[i] \in U
  BY <1>1
<1>3. ASSUME NEW i \in 1..n, NEW m \in Seq(U)
      PROVE  M(m, i) \in Seq(U)
  <2> DEFINE iv == sorted[i]
             last == m[Len(m)]
  <2>1. iv \in U
    BY <1>2
  <2> HIDE DEF iv
  <2>2. CASE m # <<>> /\ iv[1] <= last[2]
    <3>1. last \in U /\ Len(m) \in 1..Len(m)
      BY <2>2
    <3> DEFINE new == <<last[1], IF iv[2] > last[2] THEN iv[2] ELSE last[2]>>
    <3>2. new \in U
      BY <2>1, <2>2, <3>1
    <3>3. M(m, i) = [m EXCEPT ![Len(m)] = new]
      BY <2>2 DEF iv
    <3> HIDE DEF new, M
    <3>4. [m EXCEPT ![Len(m)] = new] \in Seq(U)
      BY <3>1, <3>2
    <3> QED BY <3>3, <3>4
  <2>3. CASE ~(m # <<>> /\ iv[1] <= last[2])
    <3>1. M(m, i) = Append(m, iv)
      BY <2>3 DEF iv
    <3> HIDE DEF M
    <3> QED BY <2>1, <3>1
  <2> QED BY <2>2, <2>3
<1> HIDE DEF M, n
<1>4. \E g : g = [i \in 0..n |-> IF i = 0 THEN <<>> ELSE M(g[i - 1], i)]
  <2> DEFINE step == [i \in 1..n |-> [q \in Seq(U) |-> M(q, i)]]
  <2>1. step \in [1..n -> [Seq(U) -> Seq(U)]]
    BY <1>3
  <2>2. \A i \in 1..n, q \in Seq(U) : step[i][q] = M(q, i)
    OBVIOUS
  <2>3. <<>> \in Seq(U)
    OBVIOUS
  <2> HIDE DEF step
  <2>4. PICK f \in [0..n -> Seq(U)] : Iterates(f, <<>>, step, n)
    BY <1>2, <2>1, <2>3, RecursionExists
  <2>5. ASSUME NEW i \in 0..n
        PROVE  f[i] = IF i = 0 THEN <<>> ELSE M(f[i - 1], i)
    <3>1. CASE i = 0
      BY <2>4, <3>1 DEF Iterates
    <3>2. CASE i # 0
      <4>1. i \in 1..n /\ i - 1 \in 0..n
        BY <1>2, <3>2
      <4>2. f[i] = step[i][f[i - 1]] /\ f[i - 1] \in Seq(U)
        BY <2>4, <4>1 DEF Iterates
      <4> QED BY <2>2, <3>2, <4>1, <4>2
    <3> QED BY <3>1, <3>2
  <2>6. f = [i \in 0..n |-> IF i = 0 THEN <<>> ELSE M(f[i - 1], i)]
    BY <2>5
  <2> QED BY <2>6
<1> DEFINE merged[i \in 0..Len(sorted)] ==
             IF i = 0 THEN <<>>
             ELSE LET m  == merged[i - 1]
                      k  == Len(m)
                      iv == sorted[i]
                  IN IF m # <<>> /\ iv[1] <= m[k][2]
                     THEN [m EXCEPT ![k] = <<@[1], IF iv[2] > @[2] THEN iv[2] ELSE @[2]>>]
                     ELSE Append(m, iv)
<1>5. merged = [i \in 0..n |-> IF i = 0 THEN <<>> ELSE M(merged[i - 1], i)]
  BY <1>4, Zenon DEF n, M
<1>6. merge_intervals(S) = merged[n]
  BY Zenon DEF merge_intervals, n, sorted
<1> HIDE DEF merged
<1> DEFINE K == {i \in 0..n : merged[i] \in Seq(U)}
<1>7. \A i \in 0..n : merged[i] = IF i = 0 THEN <<>> ELSE M(merged[i - 1], i)
  BY <1>5, Zenon
<1>8. 0 \in K
  <2>1. 0 \in 0..n /\ <<>> \in Seq(U)
    BY <1>2
  <2> QED BY <1>7, <2>1
<1>9. ASSUME NEW i \in 0..(n - 1), i \in K
      PROVE  i + 1 \in K
  <2>1. i + 1 \in 1..n /\ (i + 1) - 1 = i /\ i + 1 \in 0..n /\ i + 1 # 0
    BY <1>2
  <2>2. merged[i + 1] = M(merged[(i + 1) - 1], i + 1)
    BY <1>7, <2>1
  <2>3. merged[i] \in Seq(U)
    BY <1>9
  <2>4. merged[i + 1] \in Seq(U)
    BY <1>3, <2>1, <2>2, <2>3
  <2> QED BY <2>1, <2>4
<1>10. 0..n \subseteq K
  <2> HIDE DEF K
  <2> QED BY <1>2, <1>8, <1>9, UpTo
<1> QED BY <1>2, <1>6, <1>10

\* Merging whole-unit intervals makes whole-unit intervals.
LEMMA MergeType ==
  ASSUME NEW al \in Nat \ {0}, NEW X \in SUBSET Nat, NEW S \in SUBSET UnitIv(al, X), IsFiniteSet(S)
  PROVE  merge_intervals(S) \in Seq(UnitIv(al, X))
<1> DEFINE U == UnitIv(al, X)
<1>1. \A last, iv \in U : iv[1] <= last[2] =>
        <<last[1], IF iv[2] > last[2] THEN iv[2] ELSE last[2]>> \in U
  BY UnitsMerge
<1>2. U \in SUBSET TextIv
  BY DEF UnitIv
<1>3. S \in SUBSET U
  OBVIOUS
<1> HIDE DEF U
<1>4. merge_intervals(S) \in Seq(U)
  BY <1>1, <1>2, <1>3, MergeKinds
<1> QED BY <1>4 DEF U

\* Merging intervals that are not empty makes no empty ones.
LEMMA MergeLong ==
  ASSUME NEW al \in Nat \ {0}, NEW X \in SUBSET Nat, NEW S \in SUBSET UnitIv(al, X), IsFiniteSet(S),
         \A iv \in S : iv[1] < iv[2]
  PROVE  LET m == merge_intervals(S) IN \A i \in DOMAIN m : m[i][1] < m[i][2]
<1> DEFINE U == {iv \in UnitIv(al, X) : iv[1] < iv[2]}
           m == merge_intervals(S)
<1>1. ASSUME NEW last \in U, NEW iv \in U, iv[1] <= last[2]
      PROVE  <<last[1], IF iv[2] > last[2] THEN iv[2] ELSE last[2]>> \in U
  <2> DEFINE e == IF iv[2] > last[2] THEN iv[2] ELSE last[2]
  <2>1. <<last[1], e>> \in UnitIv(al, X)
    BY <1>1, UnitsMerge
  <2>2. last[1] \in Nat /\ last[2] \in Nat /\ iv[2] \in Nat /\ last[1] < last[2]
    BY IvType DEF UnitIv
  <2>3. last[1] < e
    BY <2>2
  <2> HIDE DEF e
  <2>4. <<last[1], e>>[1] = last[1] /\ <<last[1], e>>[2] = e
    OBVIOUS
  <2>5. <<last[1], e>> \in U
    BY <2>1, <2>3, <2>4
  <2> QED BY <2>5 DEF e
<1>2. U \in SUBSET TextIv /\ S \in SUBSET U
  BY DEF UnitIv
<1> HIDE DEF U
<1>3. m \in Seq(U)
  BY <1>1, <1>2, MergeKinds
<1> HIDE DEF m
<1>4. \A i \in DOMAIN m : m[i] \in U
  BY <1>3
<1>5. \A iv \in U : iv[1] < iv[2]
  BY DEF U
<1>6. \A i \in DOMAIN m : m[i][1] < m[i][2]
  BY <1>4, <1>5
<1> QED BY <1>6 DEF m

\* Every run of X begins and ends outside the padding.
Sealed(X, pad) ==
  \A x \in X : \E l, h \in X \ pad : l <= x /\ x <= h /\ l..h \subseteq X

\* The padding next to an interval extends it by whole units, and never into
\* a sealed set: it stops where a run begins or ends.
LEMMA ExpandType ==
  ASSUME NEW al \in Nat \ {0}, NEW X \in SUBSET Nat, NEW iv \in UnitIv(al, X), NEW pad,
         X \cap pad = {} \/ (Sealed(X, pad) /\ iv[1] < iv[2])
  PROVE  expand_one(iv, pad, ts, te, al) \in UnitIv(al, X)
<1> DEFINE lows  == {l \in ts..iv[1] : l..(iv[1] - 1) \subseteq pad}
           highs == {h \in iv[2]..te : /\ (h - iv[2]) % al = 0
                                       /\ iv[2]..(h - 1) \subseteq pad}
           low   == IF al = 1 THEN Min(lows) ELSE iv[1]
<1>1. iv \in TextIv /\ (iv[1] - ts) % al = 0 /\ (iv[2] - ts) % al = 0
  BY DEF UnitIv
<1>1a. \A x \in X : ~(iv[1] <= x /\ x < iv[2])
  BY DEF UnitIv
<1>2. iv[1] \in Nat /\ iv[2] \in Nat /\ ts <= iv[1] /\ iv[1] <= iv[2] /\ iv[2] <= te
  BY <1>1, IvType
<1>3. Min(lows) \in lows
  <2>1. lows \in SUBSET Nat /\ iv[1] \in lows
    BY <1>2, TextBounds
  <2> HIDE DEF lows
  <2>2. \E x \in lows : \A y \in lows : x <= y
    BY <2>1, LeastExists
  <2> QED BY <2>2 DEF Min
<1>4. Max(highs) \in highs
  <2>1. highs \in SUBSET (0..te) /\ iv[2] \in highs
    <3>1. (iv[2] - iv[2]) % al = 0
      BY <1>2
    <3> QED BY <1>2, <3>1, TextBounds
  <2> HIDE DEF highs
  <2>2. te \in Nat
    BY TextBounds
  <2>3. \E x \in highs : \A y \in highs : x >= y
    BY <2>1, <2>2, GreatestExists
  <2> QED BY <2>3 DEF Max
<1>5. low \in ts..iv[1] /\ (low - ts) % al = 0 /\ low..(iv[1] - 1) \subseteq pad
  <2>1. CASE al = 1
    <3> DEFINE x == Min(lows)
    <3>1. x \in ts..iv[1] /\ x..(iv[1] - 1) \subseteq pad
      BY <1>3
    <3> HIDE DEF x, lows
    <3>2. (x - ts) % 1 = 0
      BY <1>2, <3>1, TextBounds
    <3> QED BY <2>1, <3>1, <3>2 DEF x
  <2>2. CASE al # 1
    <3>1. iv[1]..(iv[1] - 1) = {}
      BY <1>2
    <3> HIDE DEF lows
    <3> QED BY <1>1, <1>2, <2>2, <3>1, TextBounds
  <2> QED BY <2>1, <2>2
<1> DEFINE high == Max(highs)
<1>6. high \in iv[2]..te /\ (high - ts) % al = 0 /\ iv[2]..(high - 1) \subseteq pad
  <2>1. high \in iv[2]..te /\ (high - iv[2]) % al = 0 /\ iv[2]..(high - 1) \subseteq pad
    BY <1>4
  <2> HIDE DEF high
  <2>4. high \in Int /\ iv[2] \in Int /\ ts \in Int
    BY <1>2, <2>1, TextBounds
  <2>2. high - iv[2] \in Int /\ iv[2] - ts \in Int
        /\ (high - iv[2]) + (iv[2] - ts) = high - ts
    BY <2>4
  <2>3. ((high - iv[2]) + (iv[2] - ts)) % al = 0
    BY <1>1, <2>1, <2>2, WholeUnits
  <2> QED BY <2>1, <2>2, <2>3
<1>7. expand_one(iv, pad, ts, te, al) = <<low, high>>
  BY DEF expand_one
<1> HIDE DEF low, high
<1>8. low \in ts..te /\ high \in ts..te /\ low <= high
  BY <1>2, <1>5, <1>6, TextBounds
<1>9. \A x \in X : ~(low <= x /\ x < high)
  <2> SUFFICES ASSUME NEW x \in X, low <= x, x < high PROVE FALSE
    OBVIOUS
  <2>1. x \in Nat /\ ~(iv[1] <= x /\ x < iv[2])
    BY <1>1a
  <2>2. low \in Int /\ high \in Int
    BY <1>8, TextBounds
  <2>3. CASE X \cap pad = {}
    <3>1. x \notin pad
      BY <2>3
    <3>2. ~(x \in low..(iv[1] - 1)) /\ ~(x \in iv[2]..(high - 1))
      BY <1>5, <1>6, <3>1
    <3> QED BY <1>2, <2>1, <2>2, <3>2
  <2> SUFFICES ASSUME Sealed(X, pad), iv[1] < iv[2] PROVE FALSE
    BY <2>3
  <2>4. PICK l \in X \ pad, h \in X \ pad : l <= x /\ x <= h /\ l..h \subseteq X
    BY DEF Sealed
  <2>5. l \in Nat /\ h \in Nat
    BY <2>4
  <2>6. CASE x < iv[1]
    <3>1. CASE h < iv[1]
      <4>1. h \in low..(iv[1] - 1)
        BY <1>2, <2>2, <2>4, <2>5, <3>1
      <4> QED BY <1>5, <2>4, <4>1
    <3>2. CASE iv[1] <= h
      <4>1. iv[1] \in l..h
        BY <1>2, <2>1, <2>4, <2>5, <2>6, <3>2
      <4> QED BY <1>1a, <1>2, <2>4, <3>2, <4>1
    <3> QED BY <1>2, <2>5, <3>1, <3>2
  <2>7. CASE iv[2] <= x
    <3>1. CASE iv[2] <= l
      <4>1. l \in iv[2]..(high - 1)
        BY <1>2, <2>1, <2>2, <2>4, <2>5, <3>1
      <4> QED BY <1>6, <2>4, <4>1
    <3>2. CASE l < iv[2]
      <4>1. iv[2] - 1 \in l..h
        BY <1>2, <2>1, <2>4, <2>5, <2>7, <3>2
      <4> QED BY <1>1a, <1>2, <2>4, <3>2, <4>1
    <3> QED BY <1>2, <2>5, <3>1, <3>2
  <2> QED BY <1>2, <2>1, <2>6, <2>7
<1> QED BY <1>5, <1>6, <1>7, <1>8, <1>9, MakeUnitIv

\* So does widening every interval of a plan.
LEMMA DefragType ==
  ASSUME NEW al \in Nat \ {0}, NEW X \in SUBSET Nat, NEW m \in Seq(UnitIv(al, X)), NEW pad,
         X \cap pad = {} \/ (Sealed(X, pad) /\ \A i \in DOMAIN m : m[i][1] < m[i][2])
  PROVE  defrag_intervals(m, pad, ts, te, al) \in Seq(UnitIv(al, X))
<1> DEFINE n == Len(m)
           ex(i) == expand_one(m[i], pad, ts, te, al)
           S == {ex(i) : i \in DOMAIN m}
           f == [i \in 1..n |-> ex(i)]
<1>1. n \in Nat /\ DOMAIN m = 1..n /\ \A i \in 1..n : m[i] \in UnitIv(al, X)
  OBVIOUS
<1>2. ASSUME NEW i \in 1..n
      PROVE  ex(i) \in UnitIv(al, X)
  <2>1. m[i] \in UnitIv(al, X) /\ (X \cap pad = {} \/ (Sealed(X, pad) /\ m[i][1] < m[i][2]))
    BY <1>1
  <2> QED BY <2>1, ExpandType
<1>3. defrag_intervals(m, pad, ts, te, al) = merge_intervals(S)
  BY DEF defrag_intervals
<1> HIDE DEF ex, n
<1>4. f \in Surjection(1..n, S)
  BY <1>1 DEF Surjection
<1>5. IsFiniteSet(1..n)
  <2>1. 1 \in Int /\ n \in Int
    BY <1>1
  <2> QED BY <2>1, FS_Interval
<1>6. IsFiniteSet(S)
  <2> HIDE DEF f, S
  <2> QED BY <1>4, <1>5, FS_Surjection
<1>7. S \in SUBSET UnitIv(al, X)
  BY <1>1, <1>2
<1> HIDE DEF S
<1> QED BY <1>3, <1>6, <1>7, MergeType

-----------------------------------------------------------------------------
(* The live bytes. *)

Byte == (0..(FileEnd - 1)) \cup {Filled}

\* build_live_text goes through .text once.
LEMMA LiveSteps ==
  ASSUME file \in Seq(Byte), te <= Len(file)
  PROVE  \E live : /\ build_live_text = live[te - ts]
                   /\ live[0] = <<>>
                   /\ \A i \in 0..(te - ts) : live[i] \in Seq(Byte)
                   /\ \A i \in 0..(te - ts - 1) :
                        live[i + 1] = IF in_dead_range(ts + i, ivs) THEN live[i]
                                      ELSE Append(live[i], file[ts + i + 1])
<1> DEFINE n == te - ts
           L(q, i) == IF in_dead_range(ts + i - 1, ivs) THEN q ELSE Append(q, file[ts + i])
<1>1. n \in Nat
  BY TextBounds
<1>2. ASSUME NEW i \in 1..n
      PROVE  ts + i \in 1..Len(file) /\ file[ts + i] \in Byte
  <2>1. Len(file) \in Nat /\ \A k \in 1..Len(file) : file[k] \in Byte
    OBVIOUS
  <2>2. ts + i \in 1..Len(file)
    BY <1>2, <2>1, TextBounds
  <2> QED BY <2>1, <2>2
<1>3. ASSUME NEW i \in 1..n, NEW q \in Seq(Byte)
      PROVE  L(q, i) \in Seq(Byte)
  <2>1. file[ts + i] \in Byte
    BY <1>2
  <2> QED BY <2>1
<1> HIDE DEF n, L
<1>4. \E g : g = [i \in 0..n |-> IF i = 0 THEN <<>> ELSE L(g[i - 1], i)]
  <2> DEFINE step == [i \in 1..n |-> [q \in Seq(Byte) |-> L(q, i)]]
  <2>1. step \in [1..n -> [Seq(Byte) -> Seq(Byte)]]
    BY <1>3
  <2>2. \A i \in 1..n, q \in Seq(Byte) : step[i][q] = L(q, i)
    OBVIOUS
  <2>3. <<>> \in Seq(Byte)
    OBVIOUS
  <2> HIDE DEF step
  <2>4. PICK f \in [0..n -> Seq(Byte)] : Iterates(f, <<>>, step, n)
    BY <1>1, <2>1, <2>3, RecursionExists
  <2>5. ASSUME NEW i \in 0..n
        PROVE  f[i] = IF i = 0 THEN <<>> ELSE L(f[i - 1], i)
    <3>1. CASE i = 0
      BY <2>4, <3>1 DEF Iterates
    <3>2. CASE i # 0
      <4>1. i \in 1..n /\ i - 1 \in 0..n
        BY <1>1, <3>2
      <4>2. f[i] = step[i][f[i - 1]] /\ f[i - 1] \in Seq(Byte)
        BY <2>4, <4>1 DEF Iterates
      <4> QED BY <2>2, <3>2, <4>1, <4>2
    <3> QED BY <3>1, <3>2
  <2>6. f = [i \in 0..n |-> IF i = 0 THEN <<>> ELSE L(f[i - 1], i)]
    BY <2>5
  <2> QED BY <2>6
<1> DEFINE live[i \in 0..(te - ts)] ==
             IF i = 0 THEN <<>>
             ELSE IF in_dead_range(ts + i - 1, ivs) THEN live[i - 1]
             ELSE Append(live[i - 1], file[ts + i])
<1>5. live = [i \in 0..n |-> IF i = 0 THEN <<>> ELSE L(live[i - 1], i)]
  BY <1>4, Zenon DEF n, L
<1>6. build_live_text = live[n]
  BY Zenon DEF build_live_text, n
<1> HIDE DEF live
<1>7. \A i \in 0..n : live[i] = IF i = 0 THEN <<>> ELSE L(live[i - 1], i)
  BY <1>5, Zenon
<1> DEFINE K == {i \in 0..n : live[i] \in Seq(Byte)}
<1>8. live[0] = <<>>
  BY <1>1, <1>7
<1>9. 0 \in K
  <2>1. 0 \in 0..n /\ <<>> \in Seq(Byte)
    BY <1>1
  <2> QED BY <1>8, <2>1
<1>10. ASSUME NEW i \in 0..(n - 1)
       PROVE  i + 1 \in 1..n /\ i + 1 \in 0..n /\ live[i + 1] = L(live[i], i + 1)
  <2>1. i + 1 \in 1..n /\ (i + 1) - 1 = i /\ i + 1 \in 0..n /\ i + 1 # 0
    BY <1>1
  <2>2. live[i + 1] = L(live[(i + 1) - 1], i + 1)
    BY <1>7, <2>1
  <2> QED BY <2>1, <2>2
<1>11. ASSUME NEW i \in 0..(n - 1), i \in K
       PROVE  i + 1 \in K
  <2>1. live[i] \in Seq(Byte)
    BY <1>11
  <2>2. live[i + 1] \in Seq(Byte)
    BY <1>3, <1>10, <2>1
  <2> QED BY <1>10, <2>2
<1>12. 0..n \subseteq K
  <2> HIDE DEF K
  <2> QED BY <1>1, <1>9, <1>11, UpTo
<1>13. \A i \in 0..n : live[i] \in Seq(Byte)
  BY <1>12
<1>14. ASSUME NEW i \in 0..(n - 1)
       PROVE  live[i + 1] = IF in_dead_range(ts + i, ivs) THEN live[i]
                            ELSE Append(live[i], file[ts + i + 1])
  <2>1. ts + (i + 1) - 1 = ts + i /\ ts + (i + 1) = ts + i + 1
    BY <1>1, TextBounds
  <2> QED BY <1>10, <2>1 DEF L
<1> QED BY <1>6, <1>8, <1>13, <1>14 DEF n

\* The bytes it drops are those the shift counts: every live byte moves by
\* the shift of its address.
LEMMA LiveMoves ==
  ASSUME ivs \in Seq(TextIv), NEW b, compaction_fits(ivs, ts, te, b),
         file \in Seq(Byte), te <= Len(file)
  PROVE  /\ build_live_text \in Seq(Byte)
         /\ Len(build_live_text) + total_dead(ivs) = te - ts
         /\ \A a \in ts..(te - 1) : ~in_dead_range(a, ivs) =>
              /\ a - ts - shift_at(a, ivs) + 1 \in 1..Len(build_live_text)
              /\ build_live_text[a - ts - shift_at(a, ivs) + 1] = file[a + 1]
<1> DEFINE n == te - ts
           sh(i) == shift_at(ts + i, ivs)
           dead(i) == in_dead_range(ts + i, ivs)
           At(q, i) == i - sh(i) + 1 \in 1..Len(q) /\ q[i - sh(i) + 1] = file[ts + i + 1]
<1>1. n \in Nat
  BY TextBounds
<1>2. PICK live : /\ build_live_text = live[n]
                  /\ live[0] = <<>>
                  /\ \A i \in 0..n : live[i] \in Seq(Byte)
                  /\ \A i \in 0..(n - 1) :
                       live[i + 1] = IF dead(i) THEN live[i]
                                     ELSE Append(live[i], file[ts + i + 1])
  BY LiveSteps
<1>3. ASSUME NEW i \in 0..n
      PROVE  sh(i) \in Int
  <2>1. ts + i \in Int
    BY <1>1, TextBounds
  <2> QED BY <2>1, ShiftType
<1>4. ASSUME NEW i \in 0..n
      PROVE  sh(i + 1) = sh(i) + (IF dead(i) THEN 1 ELSE 0)
  <2>1. ts + i \in Int /\ ts + (i + 1) = (ts + i) + 1
    BY <1>1, TextBounds
  <2>2. shift_at((ts + i) + 1, ivs)
          = shift_at(ts + i, ivs) + (IF in_dead_range(ts + i, ivs) THEN 1 ELSE 0)
    BY <2>1, ShiftStep
  <2> QED BY <2>1, <2>2
<1>5. sh(0) = 0
  <2>1. ts \in Int /\ \A i \in 1..Len(ivs) : ts <= ivs[i][1]
    BY IvType, TextBounds
  <2>2. shift_at(ts, ivs) = 0
    BY <2>1, ShiftNone
  <2>3. ts + 0 = ts
    BY TextBounds
  <2> QED BY <2>2, <2>3
<1>6. sh(n) = total_dead(ivs)
  <2>1. te \in Int /\ \A i \in 1..Len(ivs) : ivs[i][2] <= te
    BY IvType, TextBounds
  <2>2. ts + n = te
    BY TextBounds
  <2> QED BY <2>1, <2>2, ShiftAll
<1> HIDE DEF n, sh, dead
<1> DEFINE K == {i \in 0..n : Len(live[i]) + sh(i) = i /\ \A j \in 0..(i - 1) : ~dead(j) => At(live[i], j)}
<1>7. 0 \in K
  <2>1. Len(live[0]) = 0 /\ 0 \in 0..n /\ 0..(0 - 1) = {}
    BY <1>1, <1>2
  <2>2. Len(live[0]) + sh(0) = 0
    BY <1>5, <2>1
  <2> QED BY <2>1, <2>2
<1>8. ASSUME NEW i \in 0..(n - 1), i \in K
      PROVE  i + 1 \in K
  <2> DEFINE q == live[i]
             x == file[ts + i + 1]
  <2>1. i \in Nat /\ i \in 0..n /\ i + 1 \in 0..n /\ (i + 1) - 1 = i
    BY <1>1
  <2>2. q \in Seq(Byte) /\ Len(q) \in Nat /\ sh(i) \in Int /\ Len(q) + sh(i) = i
    BY <1>2, <1>3, <1>8, <2>1
  <2>3. \A j \in 0..(i - 1) : ~dead(j) => At(q, j)
    BY <1>8
  <2>4. live[i + 1] = IF dead(i) THEN q ELSE Append(q, x)
    BY <1>2
  <2>5. sh(i + 1) = sh(i) + (IF dead(i) THEN 1 ELSE 0)
    BY <1>4, <2>1
  <2> HIDE DEF q
  <2>6. CASE dead(i)
    <3>1. live[i + 1] = q /\ sh(i + 1) = sh(i) + 1
      BY <2>4, <2>5, <2>6
    <3>2. Len(live[i + 1]) + sh(i + 1) = i + 1
      <4>1. \A x1, y1, z1 \in Int : x1 + y1 = z1 => x1 + (y1 + 1) = z1 + 1
        OBVIOUS
      <4>2. Len(q) \in Int /\ i \in Int
        BY <2>1, <2>2
      <4>3. Len(q) + (sh(i) + 1) = i + 1
        BY <2>2, <4>1, <4>2, Zenon
      <4> QED BY <3>1, <4>3
    <3>3. ASSUME NEW j \in 0..i, ~dead(j)
          PROVE  At(live[i + 1], j)
      <4>1. j \in 0..(i - 1)
        <5>1. j # i
          BY <2>6, <3>3
        <5> QED BY <2>1, <5>1
      <4> HIDE DEF At
      <4> QED BY <2>3, <3>1, <3>3, <4>1
    <3> HIDE DEF At
    <3> QED BY <2>1, <3>2, <3>3
  <2>7. CASE ~dead(i)
    <3>1. live[i + 1] = Append(q, x) /\ sh(i + 1) = sh(i)
      BY <2>2, <2>4, <2>5, <2>7
    <3>2. Len(live[i + 1]) = Len(q) + 1 /\ live[i + 1][Len(q) + 1] = x
          /\ \A k \in 1..Len(q) : live[i + 1][k] = q[k]
      <4> HIDE DEF x
      <4> QED BY <2>2, <3>1
    <3>3. Len(live[i + 1]) + sh(i + 1) = i + 1
      BY <2>1, <2>2, <3>1, <3>2
    <3>4. ASSUME NEW j \in 0..i, ~dead(j)
          PROVE  At(live[i + 1], j)
      <4>1. CASE j = i
        <5>1. i - sh(i) + 1 = Len(q) + 1 /\ Len(q) + 1 \in 1..Len(live[i + 1])
          BY <2>1, <2>2, <3>2
        <5> QED BY <3>2, <4>1, <5>1
      <4>2. CASE j # i
        <5>1. j \in 0..(i - 1)
          BY <2>1, <4>2
        <5>2. At(q, j)
          <6> HIDE DEF At
          <6> QED BY <2>3, <3>4, <5>1
        <5> DEFINE k == j - sh(j) + 1
        <5>3. k \in 1..Len(q) /\ q[k] = file[ts + j + 1]
          BY <5>2
        <5> HIDE DEF k
        <5>4. k \in 1..Len(live[i + 1]) /\ live[i + 1][k] = file[ts + j + 1]
          BY <2>2, <3>2, <5>3
        <5> QED BY <5>4 DEF k
      <4> QED BY <4>1, <4>2
    <3> HIDE DEF At
    <3> QED BY <2>1, <3>3, <3>4
  <2> QED BY <2>6, <2>7
<1>9. 0..n \subseteq K
  <2> HIDE DEF K
  <2> QED BY <1>1, <1>7, <1>8, UpTo
<1>10. Len(live[n]) + sh(n) = n /\ \A j \in 0..(n - 1) : ~dead(j) => At(live[n], j)
  <2> HIDE DEF At
  <2> QED BY <1>1, <1>9
<1>11. live[n] \in Seq(Byte)
  BY <1>1, <1>2
<1>12. ASSUME NEW a \in ts..(te - 1), ~in_dead_range(a, ivs)
       PROVE  /\ a - ts - shift_at(a, ivs) + 1 \in 1..Len(live[n])
              /\ live[n][a - ts - shift_at(a, ivs) + 1] = file[a + 1]
  <2> DEFINE j == a - ts
  <2>1. j \in 0..(n - 1) /\ ts + j = a /\ ts + j + 1 = a + 1
    BY TextBounds DEF n
  <2>2. ~dead(j) /\ sh(j) = shift_at(a, ivs)
    BY <1>12, <2>1 DEF dead, sh
  <2>3. At(live[n], j)
    <3> HIDE DEF At, j
    <3> QED BY <1>10, <2>1, <2>2
  <2> QED BY <2>1, <2>2, <2>3
<1> QED BY <1>2, <1>6, <1>10, <1>11, <1>12 DEF n

-----------------------------------------------------------------------------
(* The pipeline. *)

\* As many functions are clear of the plan as rounds were made.
Spared ==
  \E D \in SUBSET (1..Len(fdes)) : /\ Cardinality(D) >= rounds
                                   /\ \A i \in D : Clear(ivs, fdes[i])

\* The code that does not even look like padding.
Solid == (0..(FileEnd - 1)) \ (DeadBytes \cup input.pad)

\* The inductive invariant.
PlanInv ==
  /\ input \in Inputs
  /\ pc \in {"split", "plan", "unwind", "patch", "compact", "fill", "done"}
  /\ ivs \in Seq(UnitIv(input.align, Solid))
  /\ file \in Seq(Byte)
  /\ pc # "done" => Len(file) = FileEnd
  /\ rounds \in 0..(Len(input.fdes) + 1)
  /\ pc \notin {"compact", "done"} => fdes = input.fdes
  /\ pc \in {"split", "plan"} => rounds = 0
  /\ pc = "unwind" => Spared
  /\ pc \in {"patch", "compact"} => compaction_fits(ivs, ts, te, te <= Len(file))
  /\ pc = "patch" => stuck_ranges(fdes, cx) = <<>>

\* What the inputs are assumed to be.
LEMMA InputType ==
  ASSUME NEW image \in Inputs
  PROVE  /\ image.align \in Nat \ {0}
         /\ IsFiniteSet(image.dead) /\ IsFiniteSet(image.blocks)
         /\ image.fdes \in Seq(FdeType)
         /\ image.aot \in BOOLEAN /\ image.is64 \in BOOLEAN
BY InputAssumption DEF FdeType

\* What split_dead and retain_unwindable_blocks leave is given up by the
\* analysis.
LEMMA DeadRange ==
  ASSUME input \in Inputs, NEW r \in input.dead \cup Blocks
  PROVE  r \in Nat \X Nat /\ BytesOf(r) \subseteq DeadBytes
<1>1. r \in input.dead \cup input.blocks
  BY DEF Blocks, retain_unwindable_blocks
<1>2. r \in Nat \X Nat
  BY <1>1, InputAssumption
<1>3. CASE r \in input.dead
  BY <1>2, <1>3 DEF DeadBytes
<1>4. CASE r \in Blocks
  <2>1. /\ r \in input.blocks
        /\ \A f \in Range(input.fdes) : f.lsda => r[2] <= f.begin \/ FdeEnd(f) <= r[1]
    BY <1>4 DEF Blocks, retain_unwindable_blocks
  <2>2. ASSUME NEW x \in BytesOf(r), NEW f \in Range(input.fdes), f.lsda,
               x \in BytesOf(<<f.begin, FdeEnd(f)>>)
        PROVE  FALSE
    <3>1. f \in FdeType
      <4>1. input.fdes \in Seq(FdeType)
        BY InputType
      <4> QED BY <4>1 DEF Range
    <3>2. f.begin \in Nat /\ FdeEnd(f) \in Nat
      BY <3>1 DEF FdeType, FdeEnd
    <3>3. r[1] \in Nat /\ r[2] \in Nat
      BY <1>2
    <3>4. x \in r[1]..(r[2] - 1) /\ x \in f.begin..(FdeEnd(f) - 1)
      BY <2>2 DEF BytesOf
    <3>5. r[2] <= f.begin \/ FdeEnd(f) <= r[1]
      BY <2>1, <2>2
    <3> QED BY <3>2, <3>3, <3>4, <3>5
  <2>3. \A x \in BytesOf(r) : x \notin Unwindable
    BY <2>2 DEF Unwindable
  <2>4. \A x \in BytesOf(r) : x \in UNION {BytesOf(b) : b \in input.blocks}
    BY <2>1
  <2>5. \A x \in BytesOf(r) : x \in DeadBytes
    <3> SUFFICES ASSUME NEW x \in BytesOf(r) PROVE x \in DeadBytes
      OBVIOUS
    <3>1. x \notin Unwindable
      BY <2>3
    <3>2. x \in UNION {BytesOf(b) : b \in input.blocks}
      BY <2>4
    <3> HIDE DEF BytesOf
    <3> QED BY <3>1, <3>2, Zenon DEF DeadBytes
  <2> QED BY <1>2, <2>5
<1> QED BY <1>3, <1>4

\* In .text they are whole units.
LEMMA DeadUnits ==
  ASSUME input \in Inputs, NEW r \in input.dead \cup Blocks, lies_within(r, ts, te)
  PROVE  r \in UnitIv(input.align, Solid)
<1>1. r \in input.dead \cup input.blocks
  BY DEF Blocks, retain_unwindable_blocks
<1>2. /\ r \in Nat \X Nat /\ r[1] <= r[2]
      /\ (r[1] - ts) % input.align = 0 /\ (r[2] - ts) % input.align = 0
  BY <1>1, InputAssumption DEF ts, te
<1>3. ts <= r[1] /\ r[2] <= te
  BY DEF lies_within
<1>4. r[1] \in ts..te /\ r[2] \in ts..te /\ r = <<r[1], r[2]>>
  BY <1>2, <1>3, TextBounds
<1>5. input.align \in Nat \ {0}
  BY InputType
<1>6. \A x \in Solid : ~(r[1] <= x /\ x < r[2])
  <2> SUFFICES ASSUME NEW x \in Solid, r[1] <= x, x < r[2] PROVE FALSE
    OBVIOUS
  <2>1. x \in Int /\ x \notin DeadBytes
    BY TextBounds DEF Solid
  <2>2. x \in BytesOf(r)
    BY <1>2, <2>1 DEF BytesOf
  <2> QED BY <2>1, <2>2, DeadRange
<1>7. Solid \in SUBSET Nat
  BY TextBounds DEF Solid
<1>8. <<r[1], r[2]>> \in UnitIv(input.align, Solid)
  BY <1>2, <1>4, <1>5, <1>6, <1>7, MakeUnitIv
<1> QED BY <1>4, <1>8

\* The code is a set of offsets that only depends on the input.
LEMMA SolidType ==
  Solid \in SUBSET Nat /\ (input' = input => Solid' = Solid /\ DeadBytes' = DeadBytes)
<1>1. Solid \in SUBSET Nat
  BY TextBounds DEF Solid
<1>2. ASSUME input' = input PROVE Solid' = Solid /\ DeadBytes' = DeadBytes
  <2>1. Unwindable' = Unwindable
    BY <1>2 DEF Unwindable
  <2>2. DeadBytes' = DeadBytes
    BY <1>2, <2>1 DEF DeadBytes
  <2> QED BY <1>2, <2>2 DEF Solid
<1> QED BY <1>1, <1>2

\* Whole-unit intervals are intervals of .text.
LEMMA UnitSeq ==
  ASSUME NEW al, NEW X \in SUBSET Nat, NEW p \in Seq(UnitIv(al, X))
  PROVE  p \in Seq(TextIv)
<1>1. UnitIv(al, X) \subseteq TextIv
  BY DEF UnitIv
<1> QED BY <1>1

\* The invariant holds at the start.
LEMMA InitPlan ==
  Init => PlanInv
<1> SUFFICES ASSUME Init PROVE PlanInv
  OBVIOUS
<1>1. input \in Inputs /\ pc = "split" /\ ivs = <<>> /\ rounds = 0 /\ file = InitialFile
      /\ fdes = input.fdes
  BY DEF Init
<1>2. input.fdes \in Seq(FdeType)
  BY <1>1, InputType
<1>3. InitialFile \in Seq(Byte) /\ Len(InitialFile) = FileEnd
  <2>1. FileEnd \in Nat /\ \A i \in 1..FileEnd : i - 1 \in Byte
    BY TextBounds DEF Byte
  <2> QED BY <2>1 DEF InitialFile
<1>4. rounds \in 0..(Len(input.fdes) + 1) /\ ivs \in Seq(UnitIv(input.align, Solid))
  BY <1>1, <1>2
<1> QED BY <1>1, <1>3, <1>4 DEF PlanInv

\* Overwriting ranges keeps the length of the file.
LEMMA FillType ==
  ASSUME file \in Seq(Byte), NEW S
  PROVE  zero_fill(S) \in Seq(Byte) /\ Len(zero_fill(S)) = Len(file)
<1> DEFINE at(i) == IF \E d \in S : d[1] < i /\ i <= d[2] THEN Filled ELSE file[i]
<1>1. Len(file) \in Nat /\ DOMAIN file = 1..Len(file)
      /\ \A i \in 1..Len(file) : file[i] \in Byte
  OBVIOUS
<1>2. Filled \in Byte
  BY DEF Byte
<1>3. \A i \in 1..Len(file) : at(i) \in Byte
  BY <1>1, <1>2
<1>4. zero_fill(S) = [i \in 1..Len(file) |-> at(i)]
  BY <1>1 DEF zero_fill
<1> HIDE DEF at
<1> QED BY <1>1, <1>3, <1>4

\* A plan made from the dead ranges is whole units.
LEMMA PlanType ==
  ASSUME input \in Inputs
  PROVE  defrag_intervals(merge_intervals(TextDead \cup blocks_within),
                          input.pad, ts, te, input.align) \in Seq(UnitIv(input.align, Solid))
<1> DEFINE al == input.align
           X == Solid
           S == TextDead \cup blocks_within
           m == merge_intervals(S)
<1>1. al \in Nat \ {0} /\ IsFiniteSet(input.dead) /\ IsFiniteSet(input.blocks)
  BY InputType
<1>2. /\ TextDead \in SUBSET input.dead /\ blocks_within \in SUBSET input.blocks
      /\ blocks_within \in SUBSET Blocks
  BY DEF TextDead, blocks_within, Blocks, retain_unwindable_blocks
<1>3. IsFiniteSet(TextDead) /\ IsFiniteSet(blocks_within)
  BY <1>1, <1>2, FS_Subset
<1>4. IsFiniteSet(S)
  BY <1>3, FS_Union
<1>5. S \in SUBSET UnitIv(al, X)
  <2>1. \A r \in S : r \in input.dead \cup Blocks /\ lies_within(r, ts, te)
    BY <1>2 DEF TextDead, blocks_within
  <2> HIDE DEF S
  <2>2. \A r \in S : r \in UnitIv(al, X)
    BY <2>1, DeadUnits
  <2> QED BY <2>2
<1>8. X \in SUBSET Nat /\ X \cap input.pad = {}
  BY TextBounds DEF Solid
<1> HIDE DEF S, al, X
<1>6. m \in Seq(UnitIv(al, X))
  BY <1>1, <1>4, <1>5, <1>8, MergeType
<1> HIDE DEF m
<1>7. defrag_intervals(m, input.pad, ts, te, al) \in Seq(UnitIv(al, X))
  BY <1>1, <1>6, <1>8, DefragType
<1> QED BY <1>7 DEF al, m, S, X

\* A stuck function is touched by the plan.
LEMMA StuckIsTouched ==
  ASSUME ivs \in Seq(TextIv), fdes \in Seq(FdeType), NEW f \in Range(stuck_ranges(fdes, cx))
  PROVE  /\ ~Clear(ivs, f)
         /\ \E j \in 1..Len(fdes) : fdes[j] = f
<1> DEFINE Q == {g \in Range(fdes) : ~fde_dead(g, cx) /\ ~plan_shrink(g, cx)}
<1>1. stuck_ranges(fdes, cx) = Keep(fdes, Q)
  BY DEF stuck_ranges
<1>2. Range(Keep(fdes, Q)) = Range(fdes) \cap Q
  <2> HIDE DEF Q
  <2> QED BY KeepValues
<1>3. f \in Range(fdes) /\ ~plan_shrink(f, cx)
  BY <1>1, <1>2
<1>4. PICK j \in 1..Len(fdes) : fdes[j] = f
  BY <1>3 DEF Range
<1>5. f \in FdeType
  BY <1>4
<1>6. ~Clear(ivs, f)
  BY <1>3, <1>5, ClearFollows DEF cx
<1> QED BY <1>4, <1>6

\* A round clears one function more.
LEMMA RoundSpares ==
  ASSUME ivs \in Seq(UnitIv(input.align, Solid)), input.align \in Nat \ {0}, fdes \in Seq(FdeType),
         rounds \in Nat, Spared, stuck_ranges(fdes, cx) # <<>>
  PROVE  LET q == CutStuck(fdes, cx, input.align)
         IN /\ q \in Seq(UnitIv(input.align, Solid))
            /\ \E D \in SUBSET (1..Len(fdes)) : /\ Cardinality(D) >= rounds + 1
                                                /\ \A i \in D : Clear(q, fdes[i])
<1> DEFINE q == CutStuck(fdes, cx, input.align)
           stuck == stuck_ranges(fdes, cx)
<1>1. cx.ivs = ivs
  BY DEF cx
<1>2. /\ q \in Seq(UnitIv(input.align, Solid))
      /\ \A f \in FdeType : Clear(ivs, f) => Clear(q, f)
      /\ \A f \in Range(stuck) : Clear(q, f)
  BY <1>1, RoundClears, SolidType
<1>3. ivs \in Seq(TextIv)
  BY UnitSeq, SolidType
<1>4. stuck \in Seq(FdeType) /\ stuck # <<>>
  BY KeepValues DEF stuck_ranges
<1> HIDE DEF q
<1>5. PICK f \in Range(stuck) : TRUE
  <2> HIDE DEF stuck
  <2>1. 1 \in DOMAIN stuck
    BY <1>4
  <2> QED BY <2>1, InRange
<1>6. ~Clear(ivs, f) /\ \E j \in 1..Len(fdes) : fdes[j] = f
  BY <1>3, <1>5, StuckIsTouched
<1>7. PICK j \in 1..Len(fdes) : fdes[j] = f
  BY <1>6
<1>8. PICK D \in SUBSET (1..Len(fdes)) : Cardinality(D) >= rounds /\ \A i \in D : Clear(ivs, fdes[i])
  BY DEF Spared
<1>9. j \notin D
  BY <1>6, <1>7, <1>8
<1>10. IsFiniteSet(D)
  <2>1. IsFiniteSet(1..Len(fdes))
    <3>1. 1 \in Int /\ Len(fdes) \in Int
      OBVIOUS
    <3> QED BY <3>1, FS_Interval
  <2> QED BY <2>1, FS_Subset
<1> DEFINE E == D \cup {j}
<1>11. Cardinality(E) = Cardinality(D) + 1 /\ Cardinality(D) \in Nat
  BY <1>9, <1>10, FS_AddElement, FS_CardinalityType
<1>12. \A i \in E : Clear(q, fdes[i])
  <2>1. \A i \in D : Clear(q, fdes[i])
    BY <1>2, <1>8
  <2>2. Clear(q, fdes[j])
    BY <1>2, <1>5, <1>7
  <2> QED BY <2>1, <2>2
<1>13. E \in SUBSET (1..Len(fdes)) /\ Cardinality(E) >= rounds + 1
  BY <1>8, <1>11
<1> HIDE DEF E
<1> QED BY <1>2, <1>12, <1>13 DEF q

\* The bound on the rounds is never what ends them.
LEMMA RoundsSuffice ==
  ASSUME fdes \in Seq(FdeType), rounds \in Nat, Spared
  PROVE  rounds <= Len(fdes)
<1>1. PICK D \in SUBSET (1..Len(fdes)) : Cardinality(D) >= rounds
  BY DEF Spared
<1>2. Len(fdes) \in Nat
  OBVIOUS
<1>3. IsFiniteSet(1..Len(fdes)) /\ Cardinality(1..Len(fdes)) = Len(fdes)
  <2>1. 1 \in Int /\ Len(fdes) \in Int
    OBVIOUS
  <2>2. /\ IsFiniteSet(1..Len(fdes))
        /\ Cardinality(1..Len(fdes)) = IF 1 > Len(fdes) THEN 0 ELSE Len(fdes) - 1 + 1
    BY <2>1, FS_Interval
  <2> QED BY <1>2, <2>2
<1>4. IsFiniteSet(D) /\ Cardinality(D) <= Len(fdes)
  BY <1>3, FS_Subset
<1>5. Cardinality(D) \in Nat
  BY <1>4, FS_CardinalityType
<1> QED BY <1>1, <1>2, <1>4, <1>5

\* Every step keeps the invariant.
LEMMA NextPlan ==
  PlanInv /\ [Next]_vars => PlanInv'
<1> SUFFICES ASSUME PlanInv, [Next]_vars PROVE PlanInv'
  OBVIOUS
<1>1. /\ input \in Inputs
      /\ pc \in {"split", "plan", "unwind", "patch", "compact", "fill", "done"}
      /\ ivs \in Seq(UnitIv(input.align, Solid)) /\ file \in Seq(Byte)
      /\ rounds \in 0..(Len(input.fdes) + 1)
  BY DEF PlanInv
<1>2. /\ input.align \in Nat \ {0} /\ input.fdes \in Seq(FdeType)
      /\ Len(input.fdes) \in Nat /\ rounds \in Nat
  <2>1. input.align \in Nat \ {0} /\ input.fdes \in Seq(FdeType)
    BY <1>1, InputType
  <2>2. Len(input.fdes) \in Nat
    BY <2>1
  <2> QED BY <1>1, <2>1, <2>2
<1>3. CASE zero_fill_ranges
  <2>1. /\ pc = "split" /\ file' = zero_fill(OtherDead)
        /\ pc' = (IF input.aot THEN "fill" ELSE "plan")
        /\ input' = input /\ ivs' = ivs /\ rounds' = rounds /\ fdes' = fdes
    BY <1>3 DEF zero_fill_ranges
  <2>2. pc' \in {"fill", "plan"}
    BY <2>1
  <2>3. file' \in Seq(Byte) /\ Len(file') = Len(file)
    BY <1>1, <2>1, FillType
  <2>4. Len(file) = FileEnd /\ rounds = 0 /\ fdes = input.fdes
    BY <2>1 DEF PlanInv
  <2> QED BY <1>1, <2>1, <2>2, <2>3, <2>4, SolidType DEF PlanInv
<1>4. CASE PlanIntervals
  <2>1. /\ pc = "plan" /\ pc' = "unwind"
        /\ ivs' = defrag_intervals(merge_intervals(TextDead \cup blocks_within),
                                   input.pad, ts, te, input.align)
        /\ input' = input /\ file' = file /\ rounds' = rounds /\ fdes' = fdes
    BY <1>4 DEF PlanIntervals
  <2>2. ivs' \in Seq(UnitIv(input.align, Solid))
    BY <1>1, <2>1, PlanType
  <2>3. Len(file) = FileEnd /\ rounds = 0 /\ fdes = input.fdes
    BY <2>1 DEF PlanInv
  <2>4. Spared'
    <3>1. {} \in SUBSET (1..Len(fdes')) /\ Cardinality({}) >= rounds'
          /\ \A i \in {} : Clear(ivs', fdes'[i])
      BY <2>1, <2>3, FS_EmptySet
    <3> QED BY <3>1 DEF Spared
  <2> QED BY <1>1, <2>1, <2>2, <2>3, <2>4, SolidType DEF PlanInv
<1>5. CASE unwind_safe_intervals
  <2>1. /\ pc = "unwind" /\ input' = input /\ file' = file /\ fdes' = fdes
    BY <1>5 DEF unwind_safe_intervals
  <2>2. Len(file) = FileEnd /\ fdes = input.fdes /\ Spared
    BY <2>1 DEF PlanInv
  <2>3. rounds <= Len(fdes)
    BY <1>2, <2>2, RoundsSuffice
  <2>4. rounds # Len(fdes) + 1
    BY <1>2, <2>2, <2>3
  <2>5. CASE stuck_ranges(fdes, cx) = <<>>
    <3>1. /\ pc' = (IF input.decodes /\ compaction_fits(ivs, ts, te, te <= Len(file))
                    THEN "patch" ELSE "fill")
          /\ ivs' = ivs /\ rounds' = rounds
      BY <1>5, <2>5 DEF unwind_safe_intervals
    <3>2. pc' \in {"patch", "fill"}
          /\ (pc' = "patch" => compaction_fits(ivs, ts, te, te <= Len(file)))
      BY <3>1
    <3>3. cx' = cx
      BY <3>1 DEF cx, ts, te
    <3> QED BY <1>1, <2>1, <2>2, <2>5, <3>1, <3>2, <3>3, SolidType DEF PlanInv
  <2>6. CASE stuck_ranges(fdes, cx) # <<>>
    <3>1. ivs' = CutStuck(fdes, cx, input.align) /\ rounds' = rounds + 1 /\ pc' = pc
      BY <1>5, <2>4, <2>6 DEF unwind_safe_intervals
    <3>2. fdes \in Seq(FdeType)
      BY <1>2, <2>2
    <3>3. /\ ivs' \in Seq(UnitIv(input.align, Solid))
          /\ \E D \in SUBSET (1..Len(fdes)) : /\ Cardinality(D) >= rounds + 1
                                              /\ \A i \in D : Clear(ivs', fdes[i])
      BY <1>1, <1>2, <2>2, <2>6, <3>1, <3>2, RoundSpares
    <3>4. Spared'
      BY <2>1, <3>1, <3>3 DEF Spared
    <3>5. rounds' \in 0..(Len(input.fdes) + 1)
      BY <1>2, <2>2, <2>3, <3>1
    <3> QED BY <1>1, <2>1, <2>2, <3>1, <3>3, <3>4, <3>5, SolidType DEF PlanInv
  <2> QED BY <2>5, <2>6
<1>6. CASE apply_patches
  <2>1. /\ pc = "patch" /\ pc' = "compact"
        /\ input' = input /\ ivs' = ivs /\ rounds' = rounds /\ file' = file
    BY <1>6 DEF apply_patches
  <2>2. Len(file) = FileEnd /\ compaction_fits(ivs, ts, te, te <= Len(file))
    BY <2>1 DEF PlanInv
  <2> QED BY <1>1, <2>1, <2>2, SolidType DEF PlanInv
<1>7. CASE compact_text
  <2> DEFINE live  == build_live_text
             freed == (te - ts) - Len(live)
             ps    == page_shrink(ivs)
             gap   == [i \in 1..(freed - ps) |-> Filled]
  <2>1. /\ pc = "compact" /\ pc' = "done"
        /\ file' = IF freed = 0 \/ ps > freed THEN file
                   ELSE SubSeq(file, 1, ts) \o live \o gap \o SubSeq(file, te + 1, Len(file))
        /\ input' = input /\ ivs' = ivs /\ rounds' = rounds /\ fdes' = fdes
    BY <1>7 DEF compact_text
  <2>2. Len(file) = FileEnd /\ compaction_fits(ivs, ts, te, te <= Len(file))
    BY <2>1 DEF PlanInv
  <2>3. ivs \in Seq(TextIv) /\ te <= Len(file)
    BY <1>1, <2>2, UnitSeq, SolidType, TextBounds
  <2>4. live \in Seq(Byte) /\ Len(live) + total_dead(ivs) = te - ts
    BY <1>1, <2>2, <2>3, LiveMoves
  <2>5. ps \in 0..total_dead(ivs) /\ total_dead(ivs) \in Nat
    BY <2>3, 0 \in Int, ShrinkType, ShiftType
  <2>6. freed - ps \in Nat
    <3> DEFINE d == total_dead(ivs)
               l == Len(live)
    <3>1. l \in Nat
      BY <2>4
    <3> HIDE DEF d, l, ps, live
    <3> QED BY <2>4, <2>5, <3>1, TextBounds DEF d, l
  <2> HIDE DEF freed, ps, live
  <2>7. gap \in Seq(Byte)
    <3>1. Filled \in Byte
      BY DEF Byte
    <3> QED BY <2>6, <3>1
  <2> HIDE DEF gap
  <2>8. SubSeq(file, 1, ts) \in Seq(Byte) /\ SubSeq(file, te + 1, Len(file)) \in Seq(Byte)
    BY <1>1, <2>3, TextBounds
  <2>9. file' \in Seq(Byte)
    BY <1>1, <2>1, <2>4, <2>7, <2>8
  <2> QED BY <1>1, <2>1, <2>9, SolidType DEF PlanInv
<1>8. CASE fill_in_place
  <2> DEFINE S == TextDead \cup (IF input.aot THEN Blocks ELSE blocks_removed)
  <2>1. /\ pc = "fill" /\ pc' = "done" /\ file' = zero_fill(S)
        /\ input' = input /\ ivs' = ivs /\ rounds' = rounds /\ fdes' = fdes
    BY <1>8 DEF fill_in_place
  <2>2. file' \in Seq(Byte)
    <3> HIDE DEF S
    <3> QED BY <1>1, <2>1, FillType
  <2> QED BY <1>1, <2>1, <2>2, SolidType DEF PlanInv
<1>9. CASE UNCHANGED vars
  <2>1. /\ input' = input /\ pc' = pc /\ ivs' = ivs /\ rounds' = rounds /\ file' = file
        /\ fdes' = fdes
    BY <1>9 DEF vars
  <2>2. cx' = cx /\ (Spared => Spared')
    BY <2>1 DEF cx, ts, te, Spared
  <2> QED BY <2>1, <2>2, SolidType DEF PlanInv
<1>10. CASE Terminated
  BY <1>9, <1>10 DEF Terminated
<1> QED BY <1>3, <1>4, <1>5, <1>6, <1>7, <1>8, <1>9, <1>10 DEF Next

\* The invariant always holds.
LEMMA PlanAlways ==
  Spec => []PlanInv
BY InitPlan, NextPlan, PTL DEF Spec

-----------------------------------------------------------------------------
(* Theorems. *)

(***************************************************************************)
(* Type correctness for every image: the plan stays inside .text through   *)
(* merging, widening and cutting, the rounds stay within their bound and   *)
(* the file holds bytes of the input or filling.                           *)
(***************************************************************************)
THEOREM TypeCorrect ==
  Spec => []TypeOK
<1>1. PlanInv => TypeOK
  <2> SUFFICES ASSUME PlanInv PROVE TypeOK
    OBVIOUS
  <2>1. /\ input \in Inputs
        /\ pc \in {"split", "plan", "unwind", "patch", "compact", "fill", "done"}
        /\ ivs \in Seq(UnitIv(input.align, Solid)) /\ file \in Seq(Byte)
        /\ rounds \in 0..(Len(input.fdes) + 1)
    BY DEF PlanInv
  <2>2. input.aot \in BOOLEAN /\ input.is64 \in BOOLEAN
    BY <2>1, InputType
  <2>3. \A i \in DOMAIN ivs : ivs[i] \in (ts..te) \X (ts..te)
    BY <2>1 DEF UnitIv, TextIv
  <2>4. Range(file) \subseteq (0..(FileEnd - 1)) \cup {Filled}
    BY <2>1 DEF Range, Byte
  <2> QED BY <2>1, <2>2, <2>3, <2>4 DEF TypeOK
<1> QED BY <1>1, PlanAlways, PTL

(***************************************************************************)
(* What merge_intervals, expand_one and cut_range make of whole-unit       *)
(* ranges is whole units: no instruction behind a removed interval loses   *)
(* its alignment.                                                          *)
(***************************************************************************)
THEOREM PlanIsAligned ==
  Spec => []AlignmentKept
<1>1. PlanInv => AlignmentKept
  <2> SUFFICES ASSUME PlanInv, NEW i \in DOMAIN ivs
               PROVE  (ivs[i][2] - ivs[i][1]) % input.align = 0
    BY DEF AlignmentKept
  <2> DEFINE al == input.align
             iv == ivs[i]
  <2>1. al \in Nat \ {0} /\ iv \in UnitIv(al, Solid)
    BY InputType DEF PlanInv
  <2> HIDE DEF al, iv
  <2>2. iv \in TextIv /\ (iv[1] - ts) % al = 0 /\ (iv[2] - ts) % al = 0
    BY <2>1 DEF UnitIv
  <2>3. iv[1] \in Nat /\ iv[2] \in Nat
    BY <2>2, IvType
  <2>4. iv[1] - ts \in Int /\ iv[2] - ts \in Int
        /\ (iv[2] - ts) - (iv[1] - ts) = iv[2] - iv[1]
    BY <2>3, TextBounds
  <2>5. ((iv[2] - ts) - (iv[1] - ts)) % al = 0
    BY <2>1, <2>2, <2>4, WholeUnits
  <2> QED BY <2>4, <2>5 DEF al, iv
<1> QED BY <1>1, PlanAlways, PTL

(***************************************************************************)
(* A plan that reaches the patches is carried out in full: the rounds of   *)
(* unwind_safe_intervals always end because no function is stuck, never    *)
(* because they are used up, and the bytes left in .text are those the     *)
(* shifts account for.                                                     *)
(***************************************************************************)
THEOREM PlanIsCarriedOut ==
  Spec => []NeverHalfApplied
<1>1. PlanInv => NeverHalfApplied
  <2> SUFFICES ASSUME PlanInv PROVE NeverHalfApplied
    OBVIOUS
  <2>1. pc = "patch" => stuck_ranges(fdes, cx) = <<>>
    BY DEF PlanInv
  <2>2. ASSUME pc \in {"patch", "compact"}
        PROVE  Len(build_live_text) + total_dead(ivs) = te - ts
    <3>1. /\ ivs \in Seq(UnitIv(input.align, Solid)) /\ file \in Seq(Byte) /\ Len(file) = FileEnd
          /\ compaction_fits(ivs, ts, te, te <= Len(file))
      BY <2>2 DEF PlanInv
    <3>2. ivs \in Seq(TextIv) /\ te <= Len(file)
      BY <3>1, UnitSeq, SolidType, TextBounds
    <3> QED BY <3>1, <3>2, LiveMoves
  <2> QED BY <2>1, <2>2 DEF NeverHalfApplied
<1> QED BY <1>1, PlanAlways, PTL
-----------------------------------------------------------------------------
(* Where the bytes go. *)

\* Every byte is where it was in the input, or was dead and is overwritten.
InPlace(q) ==
  /\ Len(q) = FileEnd
  /\ \A i \in 1..FileEnd : q[i] = i - 1 \/ (q[i] = Filled /\ i - 1 \in DeadBytes)

\* Code is numbers, so an overwritten byte is not taken for code.
LEMMA FilledIsNoCode ==
  Filled \notin Solid
BY LayoutAssumption DEF Solid

\* In such a file no code byte is lost.
LEMMA InPlaceKeeps ==
  ASSUME NEW q \in Seq(Byte), InPlace(q)
  PROVE  Keep(q, Solid) = Keep(InitialFile, Solid)
<1>1. InitialFile \in Seq(Byte) /\ Len(InitialFile) = FileEnd
      /\ \A i \in 1..FileEnd : InitialFile[i] = i - 1
  <2>1. FileEnd \in Nat /\ \A i \in 1..FileEnd : i - 1 \in Byte
    BY TextBounds DEF Byte
  <2> QED BY <2>1 DEF InitialFile
<1>2. Len(q) = FileEnd
  BY DEF InPlace
<1>3. \A i \in 1..Len(q) : q[i] = InitialFile[i] \/ (q[i] \notin Solid /\ InitialFile[i] \notin Solid)
  <2>1. \A i \in 1..FileEnd : q[i] = i - 1 \/ (q[i] = Filled /\ i - 1 \notin Solid)
    BY DEF InPlace, Solid
  <2> QED BY <1>1, <1>2, <2>1, FilledIsNoCode
<1> HIDE DEF InitialFile
<1> QED BY <1>1, <1>2, <1>3, KeepSame

\* Overwriting ranges the analysis gave up overwrites no code.
LEMMA FillInPlace ==
  ASSUME input \in Inputs, file \in Seq(Byte), InPlace(file),
         NEW S \in SUBSET (input.dead \cup Blocks)
  PROVE  InPlace(zero_fill(S))
<1>1. Len(file) = FileEnd
  BY DEF InPlace
<1>2. Len(zero_fill(S)) = FileEnd
  BY <1>1, FillType
<1>3. ASSUME NEW i \in 1..FileEnd
      PROVE  \/ zero_fill(S)[i] = i - 1
             \/ zero_fill(S)[i] = Filled /\ i - 1 \in DeadBytes
  <2>1. file[i] = i - 1 \/ (file[i] = Filled /\ i - 1 \in DeadBytes)
    BY <1>3 DEF InPlace
  <2>2. zero_fill(S)[i] = IF \E d \in S : d[1] < i /\ i <= d[2] THEN Filled ELSE file[i]
    BY <1>1, <1>3 DEF zero_fill
  <2>3. CASE \E d \in S : d[1] < i /\ i <= d[2]
    <3>1. PICK d \in S : d[1] < i /\ i <= d[2]
      BY <2>3
    <3>2. d \in Nat \X Nat /\ BytesOf(d) \subseteq DeadBytes
      BY DeadRange
    <3>3. i \in Nat /\ d[1] \in Nat /\ d[2] \in Nat
      BY <1>3, <3>2, TextBounds
    <3>4. i - 1 \in d[1]..(d[2] - 1)
      BY <3>1, <3>3
    <3>5. i - 1 \in DeadBytes
      BY <3>2, <3>4 DEF BytesOf
    <3> QED BY <2>2, <2>3, <3>5
  <2>4. CASE ~(\E d \in S : d[1] < i /\ i <= d[2])
    BY <2>1, <2>2, <2>4
  <2> QED BY <2>3, <2>4
<1> QED BY <1>2, <1>3 DEF InPlace

\* The plan removes no code: what is left of .text keeps the code of .text.
LEMMA LiveKeeps ==
  ASSUME ivs \in Seq(UnitIv(input.align, Solid)), file \in Seq(Byte), InPlace(file)
  PROVE  Keep(build_live_text, Solid) = Keep(SubSeq(file, ts + 1, te), Solid)
<1> DEFINE n == te - ts
           pre(i) == SubSeq(file, ts + 1, ts + i)
           dead(i) == in_dead_range(ts + i, ivs)
<1>1. n \in Nat /\ ts \in Nat /\ te <= FileEnd /\ FileEnd \in Nat /\ ts + n = te
  BY TextBounds
<1>2. Len(file) = FileEnd /\ te <= Len(file)
  BY <1>1 DEF InPlace
<1>3. PICK live : /\ build_live_text = live[n]
                  /\ live[0] = <<>>
                  /\ \A i \in 0..n : live[i] \in Seq(Byte)
                  /\ \A i \in 0..(n - 1) :
                       live[i + 1] = IF dead(i) THEN live[i]
                                     ELSE Append(live[i], file[ts + i + 1])
  BY <1>2, LiveSteps
<1>4. pre(0) = <<>> /\ pre(n) = SubSeq(file, ts + 1, te)
  BY <1>1, <1>2
<1>5. \A i \in 0..n : pre(i) \in Seq(Byte)
  BY <1>1, <1>2
<1>6. ASSUME NEW i \in 0..(n - 1)
      PROVE  file[ts + i + 1] \in Byte /\ pre(i + 1) = Append(pre(i), file[ts + i + 1])
  <2>1. i \in Nat /\ ts + i + 1 <= Len(file)
    BY <1>1, <1>2
  <2> QED BY <1>1, <2>1, StretchStep
<1>7. ASSUME NEW i \in 0..(n - 1), dead(i)
      PROVE  file[ts + i + 1] \notin Solid
  <2>1. PICK k \in DOMAIN ivs : ivs[k][1] <= ts + i /\ ts + i < ivs[k][2]
    BY <1>7 DEF in_dead_range
  <2>2. ivs[k] \in UnitIv(input.align, Solid)
    BY <2>1
  <2>3. ts + i \notin Solid
    BY <2>1, <2>2 DEF UnitIv
  <2>4. ts + i + 1 \in 1..FileEnd /\ (ts + i + 1) - 1 = ts + i
    BY <1>1
  <2>5. file[ts + i + 1] = (ts + i + 1) - 1 \/ file[ts + i + 1] = Filled
    BY <2>4 DEF InPlace
  <2> QED BY <2>3, <2>4, <2>5, FilledIsNoCode
<1> DEFINE K == {i \in 0..n : Keep(live[i], Solid) = Keep(pre(i), Solid)}
<1> HIDE DEF n, pre, dead
<1>8. 0 \in K
  BY <1>1, <1>3, <1>4
<1>9. ASSUME NEW i \in 0..(n - 1), i \in K
      PROVE  i + 1 \in K
  <2> DEFINE x == file[ts + i + 1]
             a == pre(i)
             q == live[i]
  <2>1. i \in 0..n /\ i + 1 \in 0..n
    BY <1>1
  <2>2. /\ x \in Byte /\ a \in Seq(Byte) /\ q \in Seq(Byte)
        /\ pre(i + 1) = Append(a, x)
        /\ Keep(q, Solid) = Keep(a, Solid)
    BY <1>3, <1>5, <1>6, <1>9, <2>1
  <2>3. live[i + 1] = IF dead(i) THEN q ELSE Append(q, x)
    BY <1>3
  <2>4. dead(i) => x \notin Solid
    BY <1>7
  <2> HIDE DEF x, a, q, K
  <2>5. /\ Keep(Append(a, x), Solid) = KeepStep(Keep(a, Solid), x, Solid)
        /\ Keep(Append(q, x), Solid) = KeepStep(Keep(q, Solid), x, Solid)
    BY <2>2, KeepAppend
  <2>6. Keep(live[i + 1], Solid) = Keep(pre(i + 1), Solid)
    BY <2>2, <2>3, <2>4, <2>5 DEF KeepStep
  <2> QED BY <2>1, <2>6 DEF K
<1>10. 0..n \subseteq K
  <2> HIDE DEF K
  <2> QED BY <1>1, <1>8, <1>9, UpTo
<1>11. n \in K
  <2> HIDE DEF K
  <2> QED BY <1>1, <1>10
<1> QED BY <1>3, <1>4, <1>11
\* Moving the bytes loses no code.
LEMMA CompactKeeps ==
  ASSUME PlanInv, InPlace(file), compact_text
  PROVE  Keep(file', Solid) = Keep(file, Solid)
<1> DEFINE live  == build_live_text
           freed == (te - ts) - Len(live)
           ps    == page_shrink(ivs)
           gap   == [i \in 1..(freed - ps) |-> Filled]
           A     == SubSeq(file, 1, ts)
           M     == SubSeq(file, ts + 1, te)
           Z     == SubSeq(file, te + 1, Len(file))
<1>1. /\ pc = "compact" /\ ivs \in Seq(UnitIv(input.align, Solid)) /\ file \in Seq(Byte)
      /\ Len(file) = FileEnd /\ compaction_fits(ivs, ts, te, te <= Len(file))
  BY DEF PlanInv, compact_text
<1>2. file' = IF freed = 0 \/ ps > freed THEN file ELSE A \o live \o gap \o Z
  BY DEF compact_text
<1>3. ivs \in Seq(TextIv) /\ te <= Len(file)
  BY <1>1, UnitSeq, SolidType, TextBounds
<1>4. live \in Seq(Byte)
  BY <1>1, <1>3, LiveMoves
<1>5. Keep(live, Solid) = Keep(M, Solid)
  BY <1>1, LiveKeeps
<1>6. ts \in Nat /\ te \in Nat /\ ts <= te
  BY TextBounds
<1>7. A \in Seq(Byte) /\ M \in Seq(Byte) /\ Z \in Seq(Byte) /\ A \o M \o Z = file
  BY <1>1, <1>3, <1>6, ThreeParts
<1> HIDE DEF A, M, Z
<1>8. CASE freed = 0 \/ ps > freed
  BY <1>2, <1>8
<1>9. CASE ~(freed = 0 \/ ps > freed)
  <2>1. ps \in Nat
    BY <1>3, ShrinkType
  <2>2. freed \in Int
    <3> HIDE DEF live
    <3> QED BY <1>4, <1>6
  <2> HIDE DEF freed, ps, live
  <2>3. freed - ps \in Nat
    BY <1>9, <2>1, <2>2
  <2>4. gap \in Seq(Byte) /\ \A i \in 1..Len(gap) : gap[i] \notin Solid
    <3>1. Filled \in Byte
      BY DEF Byte
    <3> QED BY <2>3, <3>1, FilledIsNoCode
  <2> HIDE DEF gap
  <2>5. Keep(gap, Solid) = <<>>
    BY <2>4, KeepNone
  <2>6. Keep(A \o live \o gap \o Z, Solid) = Keep(A \o M \o Z, Solid)
    <3>1. MiddleMoved(A, live, gap, Z, M, Solid)
      BY <1>4, <1>7, <2>4, KeepParts
    <3> QED BY <1>5, <2>5, <3>1, Zenon DEF MiddleMoved
  <2> QED BY <1>2, <1>7, <1>9, <2>6
<1> QED BY <1>8, <1>9
\* Until the end every byte is in place; at the end the code is in order.
KeptInv ==
  /\ pc # "done" => InPlace(file)
  /\ pc = "done" => Keep(file, Solid) = Keep(InitialFile, Solid)

LEMMA InitKept ==
  Init => KeptInv
<1> SUFFICES ASSUME Init PROVE KeptInv
  OBVIOUS
<1>1. pc = "split" /\ file = InitialFile
  BY DEF Init
<1>2. InPlace(InitialFile)
  <2>1. FileEnd \in Nat
    BY TextBounds
  <2> QED BY <2>1 DEF InPlace, InitialFile
<1> QED BY <1>1, <1>2 DEF KeptInv

LEMMA NextKept ==
  PlanInv /\ KeptInv /\ [Next]_vars => KeptInv'
<1> SUFFICES ASSUME PlanInv, KeptInv, [Next]_vars PROVE KeptInv'
  OBVIOUS
<1>1. input \in Inputs /\ file \in Seq(Byte)
  BY DEF PlanInv
<1>2. /\ pc # "done" => InPlace(file)
      /\ pc = "done" => Keep(file, Solid) = Keep(InitialFile, Solid)
  BY DEF KeptInv
<1>3. ASSUME input' = input
      PROVE  /\ Solid' = Solid /\ InitialFile' = InitialFile
             /\ InPlace(file') => InPlace(file)'
  <2>1. Solid' = Solid /\ DeadBytes' = DeadBytes
    BY <1>3, SolidType
  <2> QED BY <2>1 DEF InPlace, InitialFile
<1>4. CASE zero_fill_ranges
  <2>1. /\ pc = "split" /\ file' = zero_fill(OtherDead) /\ input' = input
        /\ pc' = (IF input.aot THEN "fill" ELSE "plan")
    BY <1>4 DEF zero_fill_ranges
  <2>2. pc' # "done" /\ InPlace(file)
    BY <1>2, <2>1
  <2>3. OtherDead \in SUBSET (input.dead \cup Blocks)
    BY DEF OtherDead
  <2>4. InPlace(file')
    BY <1>1, <2>1, <2>2, <2>3, FillInPlace
  <2> QED BY <1>3, <2>1, <2>2, <2>4 DEF KeptInv
<1>5. CASE PlanIntervals \/ unwind_safe_intervals \/ apply_patches
  <2>1. input' = input /\ file' = file /\ pc' # "done" /\ pc # "done"
    <3>1. CASE PlanIntervals
      BY <3>1 DEF PlanIntervals
    <3>2. CASE unwind_safe_intervals
      BY <3>2 DEF unwind_safe_intervals
    <3>3. CASE apply_patches
      BY <3>3 DEF apply_patches
    <3> QED BY <1>5, <3>1, <3>2, <3>3
  <2>2. InPlace(file')
    BY <1>2, <2>1
  <2> QED BY <1>3, <2>1, <2>2 DEF KeptInv
<1>6. CASE compact_text
  <2>1. pc = "compact" /\ pc' = "done" /\ input' = input
    BY <1>6 DEF compact_text
  <2>2. InPlace(file)
    BY <1>2, <2>1
  <2>3. Keep(file', Solid) = Keep(file, Solid)
    BY <1>6, <2>2, CompactKeeps
  <2>4. Keep(file, Solid) = Keep(InitialFile, Solid)
    BY <1>1, <2>2, InPlaceKeeps
  <2> QED BY <1>3, <2>1, <2>3, <2>4 DEF KeptInv
<1>7. CASE fill_in_place
  <2> DEFINE S == TextDead \cup (IF input.aot THEN Blocks ELSE blocks_removed)
  <2>1. pc = "fill" /\ pc' = "done" /\ input' = input /\ file' = zero_fill(S)
    BY <1>7 DEF fill_in_place
  <2>2. InPlace(file)
    BY <1>2, <2>1
  <2>3. S \in SUBSET (input.dead \cup Blocks)
    BY DEF TextDead, blocks_removed, blocks_within
  <2> HIDE DEF S
  <2>4. InPlace(file') /\ file' \in Seq(Byte)
    BY <1>1, <2>1, <2>2, <2>3, FillInPlace, FillType
  <2>5. Keep(file', Solid) = Keep(InitialFile, Solid)
    BY <2>4, InPlaceKeeps
  <2> QED BY <1>3, <2>1, <2>5 DEF KeptInv
<1>8. CASE UNCHANGED vars
  <2>1. input' = input /\ pc' = pc /\ file' = file
    BY <1>8 DEF vars
  <2> QED BY <1>2, <1>3, <2>1 DEF KeptInv
<1> QED BY <1>4, <1>5, <1>6, <1>7, <1>8 DEF Next, Terminated

(***************************************************************************)
(* However the file is rewritten, by moving bytes or by filling them in    *)
(* place, it ends with every byte of live code, in its order: provided     *)
(* that what looks like padding to is_padding is padding.                  *)
(***************************************************************************)
THEOREM CodeIsKept ==
  Spec => [](input.lookalike = {} => LiveCodeKept)
<1>1. Init => PlanInv /\ KeptInv
  BY InitPlan, InitKept
<1>2. PlanInv /\ KeptInv /\ [Next]_vars => (PlanInv /\ KeptInv)'
  BY NextPlan, NextKept
<1>3. KeptInv => (input.lookalike = {} => LiveCodeKept)
  <2> SUFFICES ASSUME KeptInv, input.lookalike = {}, pc = "done"
               PROVE  Keep(file, CodeBytes) = Keep(InitialFile, CodeBytes)
    BY DEF LiveCodeKept
  <2>1. CodeBytes = Solid
    BY DEF CodeBytes, Solid
  <2> QED BY <2>1 DEF KeptInv
<1> QED BY <1>1, <1>2, <1>3, PTL DEF Spec
-----------------------------------------------------------------------------
(* The headers. *)

\* The headers hs and the table offset so, once ps bytes have left .text.
Moved(hs, so, ps) ==
  /\ DOMAIN hs = {"init", "text", "data"}
  /\ hs["init"].offset = 0 /\ hs["init"].size = ts
  /\ hs["text"].offset = ts /\ hs["text"].size = te - ts - ps
  /\ hs["data"].offset = te - ps /\ hs["data"].size = FileEnd - te
  /\ so = FileEnd - 1 - ps

\* The code in a file from which ps bytes of .text were drained.
Places(q, ps) ==
  /\ ps \in 0..(te - ts) /\ Len(q) = FileEnd - ps
  /\ \A b \in Solid : b < ts => q[b + 1] = b
  /\ \A b \in Solid : ts <= b /\ b < te => \E k \in 1..(te - ts - ps) : q[ts + k] = b
  /\ \A b \in Solid \cup {FileEnd - 1} : te <= b => q[b + 1 - ps] = b

\* The headers hs and the table offset so describe the file q.
Describes(q, hs, so) ==
  /\ so < Len(q) /\ q[so + 1] = FileEnd - 1
  /\ \A n \in DOMAIN hs :
       /\ hs[n].offset + hs[n].size <= Len(q)
       /\ \A b \in Solid :
            InitialShdrs[n].offset <= b /\ b < InitialShdrs[n].offset + InitialShdrs[n].size
              => \E i \in 1..hs[n].size : q[hs[n].offset + i] = b

\* Where the sections of the input are.
LEMMA Sections ==
  /\ DOMAIN InitialShdrs = {"init", "text", "data"}
  /\ InitialShdrs["init"] = [addr |-> 0, offset |-> 0, size |-> ts]
  /\ InitialShdrs["text"] = [addr |-> ts, offset |-> ts, size |-> te - ts]
  /\ InitialShdrs["data"] = [addr |-> DataStart, offset |-> te, size |-> FileEnd - te]
BY DEF InitialShdrs

\* Headers and bytes that moved alike still fit each other.
LEMMA MovedDescribes ==
  ASSUME NEW q, NEW hs, NEW so, NEW ps, Moved(hs, so, ps), Places(q, ps)
  PROVE  Describes(q, hs, so)
<1>1. /\ ts \in Nat /\ te \in Nat /\ FileEnd \in Nat /\ 0 < ts /\ ts < te /\ te < FileEnd
  BY TextBounds, LayoutAssumption DEF ts, te
<1>2. ps \in 0..(te - ts) /\ Len(q) = FileEnd - ps
  BY DEF Places
<1>3. so < Len(q) /\ q[so + 1] = FileEnd - 1
  <2>1. so = FileEnd - 1 - ps
    BY DEF Moved
  <2>2. q[(FileEnd - 1) + 1 - ps] = FileEnd - 1
    <3>1. te <= FileEnd - 1
      BY <1>1
    <3> QED BY <3>1 DEF Places
  <2>3. so + 1 = (FileEnd - 1) + 1 - ps /\ so < Len(q)
    BY <1>1, <1>2, <2>1
  <2> QED BY <2>2, <2>3
<1>4. Solid \in SUBSET Nat /\ \A b \in Solid : b < FileEnd
  BY <1>1, SolidType DEF Solid
<1>5. ASSUME NEW n \in {"init", "text", "data"}
      PROVE  /\ hs[n].offset + hs[n].size <= Len(q)
             /\ \A b \in Solid :
                  InitialShdrs[n].offset <= b /\ b < InitialShdrs[n].offset + InitialShdrs[n].size
                    => \E i \in 1..hs[n].size : q[hs[n].offset + i] = b
  <2>1. CASE n = "init"
    <3>1. /\ hs[n].offset = 0 /\ hs[n].size = ts
          /\ InitialShdrs[n].offset = 0 /\ InitialShdrs[n].size = ts
      BY <2>1, Sections DEF Moved
    <3>2. ASSUME NEW b \in Solid, b < ts
          PROVE  \E i \in 1..ts : q[0 + i] = b
      <4>1. q[b + 1] = b
        BY <3>2 DEF Places
      <4>2. b + 1 \in 1..ts /\ 0 + (b + 1) = b + 1
        BY <1>1, <1>4, <3>2
      <4> QED BY <4>1, <4>2
    <3>3. 0 + ts <= Len(q) /\ 0 + ts = ts
      BY <1>1, <1>2
    <3> QED BY <3>1, <3>2, <3>3
  <2>2. CASE n = "text"
    <3>1. /\ hs[n].offset = ts /\ hs[n].size = te - ts - ps
          /\ InitialShdrs[n].offset = ts /\ InitialShdrs[n].size = te - ts
      BY <2>2, Sections DEF Moved
    <3>2. ASSUME NEW b \in Solid, ts <= b, b < te
          PROVE  \E i \in 1..(te - ts - ps) : q[ts + i] = b
      BY <3>2 DEF Places
    <3>3. ts + (te - ts - ps) <= Len(q) /\ ts + (te - ts) = te
      BY <1>1, <1>2
    <3> QED BY <3>1, <3>2, <3>3
  <2>3. CASE n = "data"
    <3>1. /\ hs[n].offset = te - ps /\ hs[n].size = FileEnd - te
          /\ InitialShdrs[n].offset = te /\ InitialShdrs[n].size = FileEnd - te
      BY <2>3, Sections DEF Moved
    <3>2. ASSUME NEW b \in Solid, te <= b
          PROVE  \E i \in 1..(FileEnd - te) : q[te - ps + i] = b
      <4>1. q[b + 1 - ps] = b
        BY <3>2 DEF Places
      <4>2. b - te + 1 \in 1..(FileEnd - te) /\ te - ps + (b - te + 1) = b + 1 - ps
        BY <1>1, <1>2, <1>4, <3>2
      <4> QED BY <4>1, <4>2
    <3>3. te - ps + (FileEnd - te) <= Len(q)
      BY <1>1, <1>2
    <3> QED BY <3>1, <3>2, <3>3
  <2> QED BY <2>1, <2>2, <2>3
<1> QED BY <1>3, <1>5 DEF Describes, Moved

\* The headers of the input are where nothing has moved.
LEMMA InitialMoved ==
  Moved(InitialShdrs, FileEnd - 1, 0)
<1>1. te - ts - 0 = te - ts /\ te - 0 = te /\ FileEnd - 1 - 0 = FileEnd - 1
  BY TextBounds
<1> QED BY <1>1, Sections DEF Moved

\* The section header table is no dead code.
LEMMA TableStays ==
  ASSUME input \in Inputs
  PROVE  FileEnd - 1 \notin DeadBytes
<1>1. FileEnd \in Nat
  BY TextBounds
<1>2. ASSUME NEW r \in input.dead \cup input.blocks
      PROVE  FileEnd - 1 \notin BytesOf(r)
  <2>1. r \in Nat \X Nat /\ r[2] < FileEnd
    BY <1>2, InputAssumption
  <2>2. r[1] \in Nat /\ r[2] \in Nat
    BY <2>1
  <2> QED BY <1>1, <2>1, <2>2 DEF BytesOf
<1> QED BY <1>2, Zenon DEF DeadBytes

\* A file with every byte in place holds the code where it was.
LEMMA InPlacePlaces ==
  ASSUME NEW q, InPlace(q), input \in Inputs
  PROVE  Places(q, 0)
<1>1. /\ ts \in Nat /\ te \in Nat /\ FileEnd \in Nat /\ ts < te /\ te < FileEnd
  BY TextBounds, LayoutAssumption DEF ts, te
<1>2. ASSUME NEW b \in Solid \cup {FileEnd - 1}
      PROVE  b \in 0..(FileEnd - 1) /\ q[b + 1] = b
  <2>1. b \in 0..(FileEnd - 1) /\ b \notin DeadBytes
    BY <1>1, <1>2, TableStays DEF Solid
  <2>2. b + 1 \in 1..FileEnd /\ (b + 1) - 1 = b
    BY <1>1, <2>1
  <2>3. q[b + 1] = (b + 1) - 1 \/ (b + 1) - 1 \in DeadBytes
    BY <2>2 DEF InPlace
  <2> QED BY <2>1, <2>2, <2>3
<1>3. ASSUME NEW b \in Solid, ts <= b, b < te
      PROVE  \E k \in 1..(te - ts - 0) : q[ts + k] = b
  <2>1. b \in Nat /\ q[b + 1] = b
    BY <1>2
  <2>2. b - ts + 1 \in 1..(te - ts - 0) /\ ts + (b - ts + 1) = b + 1
    BY <1>1, <1>3, <2>1
  <2> QED BY <2>1, <2>2
<1>4. ASSUME NEW b \in Solid \cup {FileEnd - 1}
      PROVE  q[b + 1 - 0] = b
  <2>1. b \in Nat /\ q[b + 1] = b
    BY <1>1, <1>2
  <2> QED BY <2>1
<1>5. 0 \in 0..(te - ts) /\ Len(q) = FileEnd - 0
  BY <1>1 DEF InPlace
<1> QED BY <1>2, <1>3, <1>4, <1>5 DEF Places
\* patch_headers takes the drained pages out of .text and moves what follows.
LEMMA PatchMoves ==
  ASSUME ivs \in Seq(TextIv), input.is64, patch_headers,
         shdrs = InitialShdrs, shoff = FileEnd - 1
  PROVE  Moved(shdrs', shoff', page_shrink(ivs))
<1> DEFINE ps == page_shrink(ivs)
<1>1. /\ ts \in Nat /\ te \in Nat /\ FileEnd \in Nat /\ 0 < ts /\ ts < te /\ te < FileEnd
      /\ DataStart \in Nat /\ ts < DataStart
  BY TextBounds, LayoutAssumption DEF ts, te, DataStart
<1>2. ps \in Nat
  BY ShrinkType, ShiftType, 0 \in Int
<1>3. CASE ps = 0
  <2>1. shdrs' = InitialShdrs /\ shoff' = FileEnd - 1
    BY <1>3 DEF patch_headers
  <2> QED BY <1>3, <2>1, InitialMoved
<1>4. CASE ps # 0
  <2>1. /\ shdrs' = [n \in {"init", "text", "data"} |-> patch_one_shdr(InitialShdrs[n], ps)]
        /\ shoff' = IF FileEnd - 1 >= te THEN FileEnd - 1 - ps ELSE FileEnd - 1
    BY <1>4, Sections DEF patch_headers
  <2> HIDE DEF ps
  <2>2. shoff' = FileEnd - 1 - ps
    BY <1>1, <2>1
  <2>3. shdrs'["init"].offset = 0 /\ shdrs'["init"].size = ts
    <3>1. shdrs'["init"] = patch_one_shdr(InitialShdrs["init"], ps)
      BY <2>1
    <3>2. ~(0 >= te) /\ 0 # ts
      BY <1>1
    <3> QED BY <3>1, <3>2, Sections DEF patch_one_shdr
  <2>4. shdrs'["text"].offset = ts /\ shdrs'["text"].size = te - ts - ps
    <3>1. shdrs'["text"] = patch_one_shdr(InitialShdrs["text"], ps)
      BY <2>1
    <3>2. ~(ts >= te)
      BY <1>1
    <3> QED BY <3>1, <3>2, Sections DEF patch_one_shdr
  <2>5. shdrs'["data"].offset = te - ps /\ shdrs'["data"].size = FileEnd - te
    <3>1. shdrs'["data"] = patch_one_shdr(InitialShdrs["data"], ps)
      BY <2>1
    <3>2. te >= te /\ DataStart # ts
      BY <1>1
    <3> QED BY <3>1, <3>2, Sections DEF patch_one_shdr
  <2>6. DOMAIN shdrs' = {"init", "text", "data"}
    BY <2>1
  <2> QED BY <2>2, <2>3, <2>4, <2>5, <2>6 DEF Moved, ps
<1> QED BY <1>3, <1>4

\* Moving the bytes leaves the code where the shifts say.
LEMMA CompactPlaces ==
  ASSUME PlanInv, InPlace(file), compact_text
  PROVE  Places(file', page_shrink(ivs))
<1> DEFINE live  == build_live_text
           n     == Len(live)
           d     == total_dead(ivs)
           freed == (te - ts) - Len(live)
           ps    == page_shrink(ivs)
           gap   == [i \in 1..(freed - ps) |-> Filled]
           A     == SubSeq(file, 1, ts)
           Z     == SubSeq(file, te + 1, Len(file))
<1>0. /\ ts \in Nat /\ te \in Nat /\ FileEnd \in Nat /\ ts < te /\ te < FileEnd
  BY TextBounds, LayoutAssumption DEF ts, te
<1>1. /\ input \in Inputs
      /\ pc = "compact" /\ ivs \in Seq(UnitIv(input.align, Solid)) /\ file \in Seq(Byte)
      /\ Len(file) = FileEnd /\ compaction_fits(ivs, ts, te, te <= Len(file))
  BY DEF PlanInv, compact_text
<1>2. file' = IF freed = 0 \/ ps > freed THEN file ELSE A \o live \o gap \o Z
  BY DEF compact_text
<1>3. ivs \in Seq(TextIv) /\ te <= Len(file)
  BY <1>1, UnitSeq, SolidType, TextBounds
<1>4. /\ live \in Seq(Byte) /\ n + d = te - ts
      /\ \A a \in ts..(te - 1) : ~in_dead_range(a, ivs) =>
           /\ a - ts - shift_at(a, ivs) + 1 \in 1..n
           /\ live[a - ts - shift_at(a, ivs) + 1] = file[a + 1]
  BY <1>1, <1>3, LiveMoves
<1>5. d \in Nat /\ ps \in 0..d
  BY <1>3, ShrinkType, ShiftType, 0 \in Int
<1>6. n \in Nat
  <2> HIDE DEF live
  <2> QED BY <1>4
<1>7. freed = d
  <2> HIDE DEF live, d
  <2> QED BY <1>0, <1>4, <1>5, <1>6
<1>8. ASSUME NEW b \in Solid \cup {FileEnd - 1}
      PROVE  b \in Nat /\ b < FileEnd /\ file[b + 1] = b
  <2>1. b \in 0..(FileEnd - 1) /\ b \notin DeadBytes
    BY <1>0, <1>1, <1>8, TableStays DEF Solid
  <2>2. b + 1 \in 1..FileEnd /\ (b + 1) - 1 = b
    BY <1>0, <2>1
  <2>3. file[b + 1] = (b + 1) - 1 \/ (b + 1) - 1 \in DeadBytes
    BY <2>2 DEF InPlace
  <2> QED BY <1>0, <2>1, <2>2, <2>3
<1>9. CASE d = 0
  <2>1. ps = 0 /\ file' = file
    BY <1>2, <1>5, <1>7, <1>9
  <2> QED BY <1>1, <2>1, InPlacePlaces
<1>10. CASE d # 0
  <2>1. file' = A \o live \o gap \o Z
    <3> HIDE DEF A, Z, gap, live, freed, ps, d
    <3> QED BY <1>2, <1>5, <1>7, <1>10
  <2>2. /\ A \in Seq(Byte) /\ Len(A) = ts /\ \A k \in 1..ts : A[k] = file[k]
    BY <1>0, <1>1
  <2>3. /\ Z \in Seq(Byte) /\ Len(Z) = FileEnd - te
        /\ \A k \in 1..(FileEnd - te) : Z[k] = file[te + k]
    BY <1>0, <1>1
  <2>4. gap \in Seq(Byte) /\ Len(gap) = d - ps
    <3>1. Filled \in Byte /\ d - ps \in Nat
      <4> HIDE DEF d, ps
      <4> QED BY <1>5 DEF Byte
    <3>2. gap = [i \in 1..(d - ps) |-> Filled]
      BY <1>7
    <3> HIDE DEF gap, d, ps
    <3> QED BY <3>1, <3>2
  <2> HIDE DEF A, Z, gap, live, freed, ps
  <2>5. LongRow(file', A, live, gap, Z)
    BY <1>4, <2>1, <2>2, <2>3, <2>4, FourInRow
  <2> HIDE DEF n, d
  <2>6. ts + n + (d - ps) = te - ps /\ ts + n + (d - ps) + (FileEnd - te) = FileEnd - ps
    BY <1>0, <1>4, <1>5, <1>6
  <2>7. /\ Len(file') = FileEnd - ps
        /\ \A k \in 1..ts : file'[k] = file[k]
        /\ \A k \in 1..n : file'[ts + k] = live[k]
        /\ \A k \in 1..(FileEnd - te) : file'[te - ps + k] = file[te + k]
    BY <2>2, <2>3, <2>4, <2>5, <2>6 DEF n, LongRow
  <2>8. ps \in 0..(te - ts) /\ n <= te - ts - ps
    BY <1>0, <1>4, <1>5, <1>6
  <2>9. ASSUME NEW b \in Solid, b < ts
        PROVE  file'[b + 1] = b
    <3>1. b \in Nat /\ file[b + 1] = b
      BY <1>8
    <3>2. b + 1 \in 1..ts
      BY <1>0, <2>9, <3>1
    <3> QED BY <2>7, <3>1, <3>2
  <2>10. ASSUME NEW b \in Solid, ts <= b, b < te
         PROVE  \E k \in 1..(te - ts - ps) : file'[ts + k] = b
    <3>1. b \in Nat /\ file[b + 1] = b
      BY <1>8
    <3>2. b \in ts..(te - 1)
      BY <1>0, <2>10, <3>1
    <3>3. ~in_dead_range(b, ivs)
      BY <1>1 DEF in_dead_range, UnitIv
    <3> DEFINE k == b - ts - shift_at(b, ivs) + 1
    <3>4. k \in 1..n /\ live[k] = b
      BY <1>4, <3>1, <3>2, <3>3
    <3> HIDE DEF k
    <3>5. k \in 1..(te - ts - ps)
      BY <1>0, <1>5, <1>6, <2>8, <3>4
    <3> QED BY <2>7, <3>4, <3>5
  <2>11. ASSUME NEW b \in Solid \cup {FileEnd - 1}, te <= b
         PROVE  file'[b + 1 - ps] = b
    <3>1. b \in Nat /\ b < FileEnd /\ file[b + 1] = b
      BY <1>8
    <3> DEFINE k == b - te + 1
    <3>2. k \in 1..(FileEnd - te) /\ te + k = b + 1 /\ te - ps + k = b + 1 - ps
      BY <1>0, <2>8, <2>11, <3>1
    <3> HIDE DEF k
    <3>3. file'[te - ps + k] = file[te + k]
      BY <2>7, <3>2
    <3> QED BY <3>1, <3>2, <3>3
  <2> QED BY <2>7, <2>8, <2>9, <2>10, <2>11 DEF Places, ps
<1> QED BY <1>9, <1>10
\* The headers are the input's until the patches, then those of the file
\* that the move will make.
HeadInv ==
  /\ pc \notin {"compact", "done"} => shdrs = InitialShdrs /\ shoff = FileEnd - 1
  /\ pc = "compact" /\ input.is64 => Moved(shdrs, shoff, page_shrink(ivs))
  /\ pc = "done" /\ input.is64 => Describes(file, shdrs, shoff)

LEMMA NextHead ==
  PlanInv /\ KeptInv /\ HeadInv /\ [Next]_vars => HeadInv'
<1> SUFFICES ASSUME PlanInv, KeptInv, HeadInv, [Next]_vars PROVE HeadInv'
  OBVIOUS
<1>1. input \in Inputs /\ file \in Seq(Byte) /\ ivs \in Seq(TextIv)
  BY UnitSeq, SolidType DEF PlanInv
<1>2. pc # "done" => InPlace(file)
  BY DEF KeptInv
<1>3. /\ pc \notin {"compact", "done"} => shdrs = InitialShdrs /\ shoff = FileEnd - 1
      /\ pc = "compact" /\ input.is64 => Moved(shdrs, shoff, page_shrink(ivs))
      /\ pc = "done" /\ input.is64 => Describes(file, shdrs, shoff)
  BY DEF HeadInv
<1>4. InitialShdrs' = InitialShdrs
  BY DEF InitialShdrs, ts, te, DataStart
<1>5. ASSUME input' = input
      PROVE  Describes(file', shdrs', shoff') => Describes(file, shdrs, shoff)'
  <2>1. Solid' = Solid
    BY <1>5, SolidType
  <2> QED BY <1>4, <2>1 DEF Describes
<1>6. CASE zero_fill_ranges \/ PlanIntervals \/ unwind_safe_intervals
  <2>1. /\ pc \notin {"compact", "done"} /\ pc' \notin {"compact", "done"}
        /\ shdrs' = shdrs /\ shoff' = shoff
    <3>1. CASE zero_fill_ranges
      BY <3>1 DEF zero_fill_ranges
    <3>2. CASE PlanIntervals
      BY <3>2 DEF PlanIntervals
    <3>3. CASE unwind_safe_intervals
      BY <3>3 DEF unwind_safe_intervals
    <3> QED BY <1>6, <3>1, <3>2, <3>3
  <2> QED BY <1>3, <1>4, <2>1 DEF HeadInv
<1>7. CASE apply_patches
  <2>1. pc = "patch" /\ pc' = "compact" /\ input' = input /\ ivs' = ivs /\ patch_headers
    BY <1>7 DEF apply_patches
  <2>2. ASSUME input.is64
        PROVE  Moved(shdrs', shoff', page_shrink(ivs))
    BY <1>1, <1>3, <2>1, <2>2, PatchMoves
  <2>3. Moved(shdrs', shoff', page_shrink(ivs)) => Moved(shdrs, shoff, page_shrink(ivs))'
    BY <2>1 DEF Moved, ts, te
  <2> QED BY <2>1, <2>2, <2>3 DEF HeadInv
<1>8. CASE compact_text
  <2>1. pc = "compact" /\ pc' = "done" /\ input' = input /\ shdrs' = shdrs /\ shoff' = shoff
    BY <1>8 DEF compact_text
  <2>2. Places(file', page_shrink(ivs))
    BY <1>2, <1>8, <2>1, CompactPlaces
  <2>3. ASSUME input.is64
        PROVE  Describes(file', shdrs', shoff')
    BY <1>3, <2>1, <2>2, <2>3, MovedDescribes
  <2> QED BY <1>5, <2>1, <2>3 DEF HeadInv
<1>9. CASE fill_in_place
  <2> DEFINE S == TextDead \cup (IF input.aot THEN Blocks ELSE blocks_removed)
  <2>1. /\ pc = "fill" /\ pc' = "done" /\ input' = input /\ file' = zero_fill(S)
        /\ shdrs' = shdrs /\ shoff' = shoff
    BY <1>9 DEF fill_in_place
  <2>2. S \in SUBSET (input.dead \cup Blocks)
    BY DEF TextDead, blocks_removed, blocks_within
  <2> HIDE DEF S
  <2>3. InPlace(file')
    BY <1>1, <1>2, <2>1, <2>2, FillInPlace
  <2>4. Places(file', 0)
    BY <1>1, <2>3, InPlacePlaces
  <2>5. shdrs' = InitialShdrs /\ shoff' = FileEnd - 1
    BY <1>3, <2>1
  <2>6. Describes(file', shdrs', shoff')
    BY <2>4, <2>5, InitialMoved, MovedDescribes
  <2> QED BY <1>5, <2>1, <2>6 DEF HeadInv
<1>10. CASE UNCHANGED vars
  <2>1. /\ input' = input /\ pc' = pc /\ file' = file /\ ivs' = ivs
        /\ shdrs' = shdrs /\ shoff' = shoff
    BY <1>10 DEF vars
  <2>2. Moved(shdrs, shoff, page_shrink(ivs)) => Moved(shdrs, shoff, page_shrink(ivs))'
    BY <2>1 DEF Moved, ts, te
  <2>3. Describes(file, shdrs, shoff) => Describes(file, shdrs, shoff)'
    BY <1>5, <2>1
  <2> QED BY <1>3, <1>4, <2>1, <2>2, <2>3 DEF HeadInv
<1> QED BY <1>6, <1>7, <1>8, <1>9, <1>10 DEF Next, Terminated

(***************************************************************************)
(* The headers that patch_headers writes before the bytes move describe    *)
(* the file that compact_text makes after it, whatever was removed and     *)
(* however many pages left; and a file filled in place keeps its own.      *)
(* The headers of 32-bit images are not patched.                           *)
(***************************************************************************)
THEOREM HeadersDescribe ==
  Spec => [](input.is64 /\ input.lookalike = {} => HeadersFollow)
<1>1. Init => PlanInv /\ KeptInv /\ HeadInv
  <2>1. Init => HeadInv
    BY DEF Init, HeadInv
  <2> QED BY <2>1, InitPlan, InitKept
<1>2. PlanInv /\ KeptInv /\ HeadInv /\ [Next]_vars => (PlanInv /\ KeptInv /\ HeadInv)'
  BY NextPlan, NextKept, NextHead
<1>3. HeadInv => (input.is64 /\ input.lookalike = {} => HeadersFollow)
  <2> SUFFICES ASSUME HeadInv, input.is64, input.lookalike = {}, pc = "done"
               PROVE  HeadersFollow
    BY DEF HeadersFollow
  <2>1. CodeBytes = Solid
    BY DEF CodeBytes, Solid
  <2>2. Describes(file, shdrs, shoff)
    BY DEF HeadInv
  <2>3. shoff < Len(file) /\ file[shoff + 1] = FileEnd - 1
    BY <2>2 DEF Describes
  <2>4. ASSUME NEW n \in DOMAIN shdrs
        PROVE  LET h    == shdrs[n]
                   g    == InitialShdrs[n]
                   mine == {b \in CodeBytes : g.offset <= b /\ b < g.offset + g.size}
               IN /\ h.offset + h.size <= Len(file)
                  /\ mine \subseteq {file[h.offset + i] : i \in 1..h.size}
    <3> DEFINE h == shdrs[n]
               g == InitialShdrs[n]
    <3>1. /\ h.offset + h.size <= Len(file)
          /\ \A b \in Solid : g.offset <= b /\ b < g.offset + g.size
               => \E i \in 1..h.size : file[h.offset + i] = b
      BY <2>2, Zenon DEF Describes
    <3> HIDE DEF h, g
    <3>2. {b \in Solid : g.offset <= b /\ b < g.offset + g.size}
            \subseteq {file[h.offset + i] : i \in 1..h.size}
      BY <3>1
    <3> QED BY <2>1, <3>1, <3>2 DEF h, g
  <2> QED BY <2>3, <2>4 DEF HeadersFollow
<1> QED BY <1>1, <1>2, <1>3, PTL DEF Spec

=============================================================================
