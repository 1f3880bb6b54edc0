---------------------------- MODULE MovedProofs ----------------------------
(***************************************************************************)
(* Proofs about what a compaction leaves in memory: that references,       *)
(* unwind records and landing pads follow the bytes, for every image whose *)
(* program headers map it as its sections lie.  First the shifts between   *)
(* two addresses, then where the bytes go in the file and in memory, then  *)
(* the pipeline.                                                           *)
(***************************************************************************)
EXTENDS CompactionProofs

-----------------------------------------------------------------------------
(* Shifts between two addresses. *)

\* A plan that can be carried out.
Fits(p) == p \in Seq(TextIv) /\ compaction_fits(p, ts, te, TRUE)

\* How the shift grows over n bytes: by one for each that is removed.
LEMMA ShiftOver ==
  ASSUME NEW p, Fits(p), NEW x \in Int, NEW n \in Nat
  PROVE  /\ shift_at(x, p) \in Nat
         /\ shift_at(x + n, p) \in shift_at(x, p)..(shift_at(x, p) + n)
         /\ (\A y \in x..(x + n - 1) : in_dead_range(y, p))
              => shift_at(x + n, p) = shift_at(x, p) + n
         /\ (\A y \in x..(x + n - 1) : ~in_dead_range(y, p))
              => shift_at(x + n, p) = shift_at(x, p)
<1> DEFINE sh(i) == shift_at(x + i, p)
           dead(i) == in_dead_range(x + i, p)
<1>1. p \in Seq(TextIv) /\ compaction_fits(p, ts, te, TRUE)
  BY DEF Fits
<1>2. ASSUME NEW i \in Nat
      PROVE  sh(i) \in Nat /\ sh(i + 1) = sh(i) + (IF dead(i) THEN 1 ELSE 0)
  <2>1. x + i \in Int /\ x + (i + 1) = (x + i) + 1
    OBVIOUS
  <2>2. shift_at(x + i, p) \in Nat
    BY <1>1, <2>1, ShiftType
  <2>3. shift_at((x + i) + 1, p)
          = shift_at(x + i, p) + (IF in_dead_range(x + i, p) THEN 1 ELSE 0)
    BY <1>1, <2>1, ShiftStep
  <2> QED BY <2>1, <2>2, <2>3
<1>3. sh(0) = shift_at(x, p)
  <2>1. x + 0 = x
    OBVIOUS
  <2> QED BY <2>1
<1>4. \A y \in x..(x + n - 1) : \E i \in 0..(n - 1) : y = x + i
  <2> TAKE y \in x..(x + n - 1)
  <2>1. y - x \in 0..(n - 1) /\ y = x + (y - x)
    OBVIOUS
  <2> QED BY <2>1
<1>5. \A i \in 0..(n - 1) : x + i \in x..(x + n - 1)
  OBVIOUS
<1>6. /\ (\A y \in x..(x + n - 1) : in_dead_range(y, p)) => \A i \in 0..(n - 1) : dead(i)
      /\ (\A y \in x..(x + n - 1) : ~in_dead_range(y, p)) => \A i \in 0..(n - 1) : ~dead(i)
  BY <1>5
<1> HIDE DEF sh, dead
<1> DEFINE K == {i \in 0..n : /\ sh(i) \in sh(0)..(sh(0) + i)
                              /\ (\A j \in 0..(i - 1) : dead(j)) => sh(i) = sh(0) + i
                              /\ (\A j \in 0..(i - 1) : ~dead(j)) => sh(i) = sh(0)}
<1>7. 0 \in K
  <2>1. sh(0) \in Nat
    BY <1>2
  <2> QED BY <2>1
<1>8. ASSUME NEW i \in 0..(n - 1), i \in K
      PROVE  i + 1 \in K
  <2>1. /\ i \in Nat /\ i + 1 \in 0..n /\ i \in 0..((i + 1) - 1)
        /\ \A j \in 0..(i - 1) : j \in 0..((i + 1) - 1)
    OBVIOUS
  <2>2. sh(0) \in Nat /\ sh(i) \in Nat /\ sh(i + 1) = sh(i) + (IF dead(i) THEN 1 ELSE 0)
    BY <1>2, <2>1
  <2>3. /\ sh(i) \in sh(0)..(sh(0) + i)
        /\ (\A j \in 0..(i - 1) : dead(j)) => sh(i) = sh(0) + i
        /\ (\A j \in 0..(i - 1) : ~dead(j)) => sh(i) = sh(0)
    BY <1>8
  <2>4. sh(i + 1) \in sh(0)..(sh(0) + (i + 1))
    BY <2>1, <2>2, <2>3
  <2>5. ASSUME \A j \in 0..((i + 1) - 1) : dead(j)
        PROVE  sh(i + 1) = sh(0) + (i + 1)
    <3>1. dead(i) /\ sh(i) = sh(0) + i
      BY <2>1, <2>3, <2>5
    <3> QED BY <2>1, <2>2, <3>1
  <2>6. ASSUME \A j \in 0..((i + 1) - 1) : ~dead(j)
        PROVE  sh(i + 1) = sh(0)
    <3>1. ~dead(i) /\ sh(i) = sh(0)
      BY <2>1, <2>3, <2>6
    <3> QED BY <2>1, <2>2, <3>1
  <2> QED BY <2>1, <2>4, <2>5, <2>6
<1>9. n \in K
  <2> HIDE DEF K
  <2>1. 0..n \subseteq K
    BY <1>7, <1>8, UpTo
  <2> QED BY <2>1
<1>10. sh(0) \in Nat
  BY <1>2
<1>11. sh(n) = shift_at(x + n, p)
  BY DEF sh
<1> QED BY <1>3, <1>6, <1>9, <1>10, <1>11

\* The same between two addresses; with no removed byte among them none of
\* the distances changes.
LEMMA ShiftBetween ==
  ASSUME NEW p, Fits(p), NEW x \in Int, NEW y \in Int, x <= y
  PROVE  /\ shift_at(x, p) \in Nat /\ shift_at(y, p) \in Nat
         /\ shift_at(x, p) <= shift_at(y, p)
         /\ x - shift_at(x, p) <= y - shift_at(y, p)
         /\ (\A z \in x..(y - 1) : in_dead_range(z, p))
              => x - shift_at(x, p) = y - shift_at(y, p)
         /\ (\A z \in x..(y - 1) : ~in_dead_range(z, p))
              => shift_at(x, p) = shift_at(y, p)
<1> DEFINE n == y - x
<1>1. n \in Nat /\ x + n = y /\ x + n - 1 = y - 1
  OBVIOUS
<1> HIDE DEF n
<1>2. /\ shift_at(x, p) \in Nat
      /\ shift_at(y, p) \in shift_at(x, p)..(shift_at(x, p) + n)
      /\ (\A z \in x..(y - 1) : in_dead_range(z, p)) => shift_at(y, p) = shift_at(x, p) + n
      /\ (\A z \in x..(y - 1) : ~in_dead_range(z, p)) => shift_at(y, p) = shift_at(x, p)
  BY <1>1, ShiftOver
<1>3. shift_at(y, p) \in Nat
  BY <1>1, <1>2
<1> QED BY <1>1, <1>2, <1>3 DEF n

\* The shift at the ends of .text, and behind it.
LEMMA ShiftEnds ==
  ASSUME NEW p, Fits(p)
  PROVE  /\ \A x \in Int : x <= ts => shift_at(x, p) = 0
         /\ \A x \in Int : te <= x => shift_at(x, p) = total_dead(p)
         /\ total_dead(p) \in 0..(te - ts)
         /\ page_shrink(p) \in 0..total_dead(p)
         /\ \A x \in Int : ~(ts <= x /\ x < te) => ~in_dead_range(x, p)
<1>1. p \in Seq(TextIv) /\ ts \in Int /\ te \in Int /\ ts < te
  BY TextBounds DEF Fits
<1>2. \A i \in 1..Len(p) : p[i][1] \in Int /\ p[i][2] \in Int /\ ts <= p[i][1] /\ p[i][2] <= te
  BY <1>1, IvType
<1>3. ASSUME NEW x \in Int, x <= ts
      PROVE  shift_at(x, p) = 0
  <2>1. \A i \in 1..Len(p) : x <= p[i][1]
    BY <1>1, <1>2, <1>3
  <2> QED BY <1>1, <2>1, ShiftNone
<1>4. ASSUME NEW x \in Int, te <= x
      PROVE  shift_at(x, p) = total_dead(p)
  <2>1. \A i \in 1..Len(p) : p[i][2] <= x
    BY <1>1, <1>2, <1>4
  <2> QED BY <1>1, <2>1, ShiftAll
<1>5. page_shrink(p) \in 0..total_dead(p) /\ total_dead(p) \in Nat
  BY <1>1, ShrinkType, ShiftType
<1>6. total_dead(p) <= te - ts
  <2>1. shift_at(ts, p) = 0 /\ shift_at(te, p) = total_dead(p)
    BY <1>1, <1>3, <1>4
  <2>2. ts - shift_at(ts, p) <= te - shift_at(te, p)
    BY <1>1, ShiftBetween
  <2> QED BY <1>1, <1>5, <2>1, <2>2
<1>7. ASSUME NEW x \in Int, in_dead_range(x, p)
      PROVE  ts <= x /\ x < te
  <2>1. PICK i \in DOMAIN p : p[i][1] <= x /\ x < p[i][2]
    BY <1>7 DEF in_dead_range
  <2>2. i \in 1..Len(p)
    BY <1>1
  <2> QED BY <1>1, <1>2, <2>1, <2>2
<1> QED BY <1>1, <1>3, <1>4, <1>5, <1>6, <1>7

-----------------------------------------------------------------------------
(* Where the bytes go in the file. *)

\* The offset of byte b once the plan p is carried out.
Where(b, p) == b - total_shift(b, p, ts, te)

\* Up to the end of .text the shift counts removed bytes, behind it pages.
LEMMA WhereIs ==
  ASSUME NEW p, Fits(p), NEW b \in Int
  PROVE  /\ total_shift(b, p, ts, te) \in Nat
         /\ b < te => total_shift(b, p, ts, te) = shift_at(b, p)
         /\ te <= b => total_shift(b, p, ts, te) = page_shrink(p)
<1>1. ts \in Int /\ te \in Int /\ ts < te
  BY TextBounds
<1>2. b < ts => shift_at(b, p) = 0
  BY <1>1, ShiftEnds
<1>3. /\ b < ts => total_shift(b, p, ts, te) = 0
      /\ ts <= b /\ b < te => total_shift(b, p, ts, te) = shift_at(b, p)
      /\ te <= b => total_shift(b, p, ts, te) = page_shrink(p)
  BY <1>1 DEF total_shift
<1>4. shift_at(b, p) \in Nat /\ page_shrink(p) \in Nat
  <2>1. total_dead(p) \in Nat /\ page_shrink(p) \in 0..total_dead(p)
    BY <1>1, ShiftEnds
  <2>2. shift_at(b, p) \in Nat
    <3>1. b <= b
      OBVIOUS
    <3> QED BY <3>1, ShiftBetween
  <2> QED BY <2>1, <2>2
<1> QED BY <1>1, <1>2, <1>3, <1>4

\* A byte that stays in front of the end of .text comes to lie in front of
\* the end of what is left of it.
LEMMA WhereInText ==
  ASSUME NEW p, Fits(p), NEW b \in Nat, b < te, ~in_dead_range(b, p)
  PROVE  /\ Where(b, p) = b - shift_at(b, p)
         /\ Where(b, p) \in 0..(te - total_dead(p) - 1)
         /\ ts <= b => ts <= Where(b, p)
<1>1. ts \in Int /\ te \in Int /\ ts < te /\ total_dead(p) \in Nat
  BY TextBounds, ShiftEnds
<1>2. Where(b, p) = b - shift_at(b, p)
  BY WhereIs DEF Where
<1>3. shift_at(b + 1, p) = shift_at(b, p) /\ shift_at(b, p) \in Nat
  <2>1. b \in Int /\ b + 1 \in Int /\ b <= b + 1 /\ \A z \in b..((b + 1) - 1) : z = b
    OBVIOUS
  <2> QED BY <2>1, ShiftBetween
<1>4. (b + 1) - shift_at(b + 1, p) <= te - shift_at(te, p)
  <2>1. b + 1 \in Int /\ b + 1 <= te
    BY <1>1
  <2> QED BY <1>1, <2>1, ShiftBetween
<1>5. shift_at(te, p) = total_dead(p)
  BY <1>1, ShiftEnds
<1>6. 0 <= b - shift_at(b, p)
  <2>1. 0 - shift_at(0, p) <= b - shift_at(b, p)
    BY ShiftBetween
  <2>2. shift_at(0, p) = 0
    BY TextBounds, ShiftEnds
  <2> QED BY <2>1, <2>2
<1>7. ts <= b => ts <= b - shift_at(b, p)
  <2> HAVE ts <= b
  <2>1. ts - shift_at(ts, p) <= b - shift_at(b, p)
    BY <1>1, ShiftBetween
  <2>2. shift_at(ts, p) = 0
    BY <1>1, ShiftEnds
  <2> QED BY <1>1, <2>1, <2>2
<1> QED BY <1>1, <1>2, <1>3, <1>4, <1>5, <1>6, <1>7

\* Every place of what is left of .text is taken by a byte that stays.
LEMMA PlaceTaken ==
  ASSUME NEW p, Fits(p), NEW k \in Nat, k < te - ts - total_dead(p)
  PROVE  \E a \in ts..(te - 1) : ~in_dead_range(a, p) /\ a - ts - shift_at(a, p) = k
<1>0. p \in Seq(TextIv) /\ compaction_fits(p, ts, te, TRUE)
  BY Zenon DEF Fits
<1> DEFINE left(z) == z - ts - shift_at(z, p)
           S == {a \in Nat : ts <= a /\ k + 1 <= left(a + 1)}
<1>1. ts \in Nat /\ te \in Nat /\ ts < te /\ total_dead(p) \in Nat /\ k \in Int
  BY TextBounds, ShiftEnds
<1>2. ASSUME NEW x \in Nat
      PROVE  /\ left(x) \in Int
             /\ left(x + 1) = left(x) + (IF in_dead_range(x, p) THEN 0 ELSE 1)
  <2>1. x \in Int
    OBVIOUS
  <2>2. shift_at(x + 1, p) = shift_at(x, p) + (IF in_dead_range(x, p) THEN 1 ELSE 0)
    BY <1>0, <2>1, ShiftStep
  <2>3. shift_at(x, p) \in Int
    BY <1>0, <2>1, ShiftType
  <2> QED BY <1>1, <2>2, <2>3
<1>3. te - 1 \in S
  <2>1. (te - 1) + 1 = te /\ te - 1 \in Nat /\ ts <= te - 1
    BY <1>1
  <2>2. shift_at(te, p) = total_dead(p)
    BY <1>1, ShiftEnds
  <2> QED BY <1>1, <2>1, <2>2
<1>4. left(ts) = 0
  <2>1. shift_at(ts, p) = 0
    BY <1>1, ShiftEnds
  <2> QED BY <1>1, <2>1
<1> HIDE DEF left
<1>5. PICK a \in S : \A y \in S : a <= y
  <2> HIDE DEF S
  <2>1. S \in SUBSET Nat /\ S # {}
    BY <1>3 DEF S
  <2> QED BY <2>1, LeastExists
<1>6. a \in Nat /\ ts <= a /\ k + 1 <= left(a + 1) /\ a <= te - 1
  BY <1>3, <1>5
<1>7. left(a) <= k
  <2>1. CASE a = ts
    BY <1>4, <2>1
  <2>2. CASE a # ts
    <3>1. a - 1 \in Nat /\ ts <= a - 1 /\ (a - 1) + 1 = a /\ ~(a <= a - 1)
      BY <1>1, <1>6, <2>2
    <3>2. a - 1 \notin S
      <4> HIDE DEF S
      <4> QED BY <1>5, <3>1
    <3>3. ~(k + 1 <= left(a))
      BY <3>1, <3>2
    <3> QED BY <1>1, <1>2, <1>6, <3>3
  <2> QED BY <2>1, <2>2
<1>8. ~in_dead_range(a, p) /\ left(a) = k
  <2>1. left(a) \in Int /\ left(a + 1) = left(a) + (IF in_dead_range(a, p) THEN 0 ELSE 1)
    BY <1>2, <1>6
  <2> QED BY <1>1, <1>6, <1>7, <2>1
<1>9. a \in ts..(te - 1)
  BY <1>1, <1>6
<1> QED BY <1>8, <1>9 DEF left

\* Nothing moves by the empty plan.
LEMMA EmptyPlan ==
  /\ Fits(<<>>) /\ page_shrink(<<>>) = 0
  /\ \A b \in Int : /\ ~in_dead_range(b, <<>>) /\ shift_at(b, <<>>) = 0
                    /\ total_shift(b, <<>>, ts, te) = 0 /\ Where(b, <<>>) = b
<1>1. <<>> \in Seq(TextIv) /\ Len(<<>>) = 0 /\ DOMAIN <<>> = {} /\ 1..0 = {}
  OBVIOUS
<1>2. compaction_fits(<<>>, ts, te, TRUE) /\ Fits(<<>>)
  BY <1>1 DEF compaction_fits, Fits
<1>3. ASSUME NEW b \in Int
      PROVE  shift_at(b, <<>>) = 0
  BY <1>1, ShiftNone
<1>4. total_dead(<<>>) = 0
  <2>1. te \in Int
    BY TextBounds
  <2>2. shift_at(te, <<>>) = total_dead(<<>>)
    BY <1>2, <2>1, ShiftEnds
  <2> QED BY <1>3, <2>1, <2>2
<1>5. page_shrink(<<>>) = 0
  <2>1. page_shrink(<<>>) \in 0..total_dead(<<>>)
    BY <1>2, ShiftEnds
  <2> QED BY <1>4, <2>1
<1>6. ASSUME NEW b \in Int
      PROVE  ~in_dead_range(b, <<>>) /\ total_shift(b, <<>>, ts, te) = 0 /\ Where(b, <<>>) = b
  <2>1. ~in_dead_range(b, <<>>)
    BY <1>1 DEF in_dead_range
  <2>2. total_shift(b, <<>>, ts, te) = 0
    <3>1. te \in Int /\ (b < te \/ te <= b)
      BY TextBounds
    <3> QED BY <1>2, <1>3, <1>5, <3>1, WhereIs
  <2> QED BY <2>1, <2>2 DEF Where
<1> QED BY <1>2, <1>3, <1>5, <1>6

\* The file q holds, and only holds, the bytes that stay, each where the
\* shifts say; the dead ones among them may be overwritten if nothing moves.
Laid(q, p) ==
  /\ q \in Seq(Byte) /\ Len(q) = FileEnd - page_shrink(p)
  /\ \A b \in 0..(FileEnd - 1) :
       ~in_dead_range(b, p) /\ (b \notin DeadBytes \/ (p # <<>> /\ ts <= b))
         => q[Where(b, p) + 1] = b
  /\ \A k \in 1..Len(q) :
       q[k] = Filled \/ (q[k] \in 0..(FileEnd - 1) /\ k = Where(q[k], p) + 1)

\* Only dead bytes in front of .text have been overwritten.
Intact(q) ==
  InPlace(q) /\ \A i \in 1..FileEnd : ts < i => q[i] = i - 1

LEMMA InPlaceLaid ==
  ASSUME NEW q \in Seq(Byte), InPlace(q)
  PROVE  Laid(q, <<>>)
<1>1. FileEnd \in Nat /\ Len(q) = FileEnd /\ page_shrink(<<>>) = 0
  BY TextBounds, EmptyPlan DEF InPlace
<1>2. ASSUME NEW b \in 0..(FileEnd - 1), b \notin DeadBytes
      PROVE  q[Where(b, <<>>) + 1] = b
  <2>1. b + 1 \in 1..FileEnd /\ (b + 1) - 1 = b /\ Where(b, <<>>) = b
    BY <1>1, EmptyPlan
  <2>2. q[b + 1] = (b + 1) - 1 \/ (b + 1) - 1 \in DeadBytes
    BY <2>1 DEF InPlace
  <2> QED BY <1>2, <2>1, <2>2
<1>3. ASSUME NEW k \in 1..Len(q), q[k] # Filled
      PROVE  q[k] \in 0..(FileEnd - 1) /\ k = Where(q[k], <<>>) + 1
  <2>1. k \in 1..FileEnd /\ k - 1 \in 0..(FileEnd - 1) /\ k - 1 \in Int
    BY <1>1
  <2>2. q[k] = k - 1
    BY <1>3, <2>1 DEF InPlace
  <2>3. Where(k - 1, <<>>) = k - 1
    BY <2>1, EmptyPlan
  <2>4. k = (k - 1) + 1
    BY <2>1
  <2> QED BY <2>1, <2>2, <2>3, <2>4
<1>4. Len(q) = FileEnd - page_shrink(<<>>)
  BY <1>1
<1> QED BY <1>2, <1>3, <1>4 DEF Laid


\* What a plan that fits makes of the places of the file: those of the bytes
\* in front of .text and behind it.
LEMMA WhereOutside ==
  ASSUME NEW p, Fits(p), NEW b \in Int
  PROVE  /\ b < ts => Where(b, p) = b
         /\ te <= b => Where(b, p) = b - page_shrink(p)
<1>1. ts \in Int /\ te \in Int /\ ts < te
  BY TextBounds
<1>2. b < ts => shift_at(b, p) = 0
  BY <1>1, ShiftEnds
<1> QED BY <1>1, <1>2, WhereIs DEF Where

\* Moving the bytes lays them out by the plan.
LEMMA CompactLaid ==
  ASSUME PlanInv, Intact(file), compact_text
  PROVE  Laid(file', ivs)
<1> DEFINE live  == build_live_text
           n     == Len(live)
           d     == total_dead(ivs)
           freed == (te - ts) - Len(live)
           ps    == page_shrink(ivs)
           gap   == [i \in 1..(freed - ps) |-> Filled]
           A     == SubSeq(file, 1, ts)
           Z     == SubSeq(file, te + 1, Len(file))
<1>0. /\ ts \in Nat /\ te \in Nat /\ FileEnd \in Nat /\ ts < te /\ te < FileEnd
  BY TextBounds, LayoutAssumption DEF ts, te
<1>1. /\ pc = "compact" /\ ivs \in Seq(UnitIv(input.align, Solid)) /\ file \in Seq(Byte)
      /\ Len(file) = FileEnd /\ compaction_fits(ivs, ts, te, te <= Len(file))
  BY DEF PlanInv, compact_text
<1>2. file' = IF freed = 0 \/ ps > freed THEN file ELSE A \o live \o gap \o Z
  BY DEF compact_text
<1>3. ivs \in Seq(TextIv) /\ te <= Len(file)
  BY <1>1, UnitSeq, SolidType, TextBounds
<1>4. /\ live \in Seq(Byte) /\ n + d = te - ts
      /\ \A a \in ts..(te - 1) : ~in_dead_range(a, ivs) =>
           /\ a - ts - shift_at(a, ivs) + 1 \in 1..n
           /\ live[a - ts - shift_at(a, ivs) + 1] = file[a + 1]
  BY <1>1, <1>3, LiveMoves
<1>5. Fits(ivs)
  <2>1. (te <= Len(file)) = TRUE
    BY <1>0, <1>1
  <2> QED BY <1>1, <1>3, <2>1 DEF Fits
<1>6. d \in 0..(te - ts) /\ ps \in 0..d /\ d \in Nat /\ ps \in Nat /\ n \in Nat
  <2>1. d \in 0..(te - ts) /\ ps \in 0..d
    BY <1>5, ShiftEnds
  <2>2. n \in Nat
    <3> HIDE DEF live
    <3> QED BY <1>4
  <2> QED BY <1>0, <2>1, <2>2
<1>7. freed = d
  <2> HIDE DEF live, d
  <2> QED BY <1>0, <1>4, <1>6
<1>8. ASSUME NEW b \in 0..(FileEnd - 1), b \notin DeadBytes \/ ts <= b
      PROVE  b \in Nat /\ b < FileEnd /\ file[b + 1] = b
  <2>1. b \in Nat /\ b < FileEnd /\ b + 1 \in 1..FileEnd /\ (b + 1) - 1 = b /\ (ts <= b => ts < b + 1)
    BY <1>0
  <2>2. /\ file[b + 1] = (b + 1) - 1 \/ (b + 1) - 1 \in DeadBytes
        /\ ts < b + 1 => file[b + 1] = (b + 1) - 1
    BY <2>1 DEF Intact, InPlace
  <2> QED BY <1>8, <2>1, <2>2
<1>9. ASSUME NEW k \in 1..FileEnd, file[k] # Filled
      PROVE  file[k] = k - 1
  BY <1>9 DEF Intact, InPlace
<1>10. CASE d = 0
  <2>1. ps = 0 /\ file' = file
    BY <1>2, <1>6, <1>7, <1>10
  <2>2. ASSUME NEW b \in 0..(FileEnd - 1)
        PROVE  Where(b, ivs) = b
    <3>1. b \in Int
      OBVIOUS
    <3>2. shift_at(b, ivs) \in 0..d
      BY <1>3, <3>1, ShiftType
    <3>3. total_shift(b, ivs, ts, te) = 0
      BY <1>0, <1>5, <1>10, <2>1, <3>1, <3>2, WhereIs
    <3> QED BY <3>1, <3>3 DEF Where
  <2>3. Len(file') = FileEnd - ps
    BY <1>0, <1>1, <2>1
  <2>4. ASSUME NEW b \in 0..(FileEnd - 1), b \notin DeadBytes \/ (ivs # <<>> /\ ts <= b)
        PROVE  file'[Where(b, ivs) + 1] = b
    BY <1>8, <2>1, <2>2, <2>4
  <2>5. ASSUME NEW k \in 1..Len(file'), file'[k] # Filled
        PROVE  file'[k] \in 0..(FileEnd - 1) /\ k = Where(file'[k], ivs) + 1
    <3>1. k \in 1..FileEnd /\ k - 1 \in 0..(FileEnd - 1) /\ k = (k - 1) + 1
      BY <1>0, <2>1, <2>3
    <3>2. file'[k] = k - 1
      BY <1>9, <2>1, <2>5, <3>1
    <3> QED BY <2>2, <3>1, <3>2
  <2> QED BY <1>1, <2>1, <2>3, <2>4, <2>5 DEF Laid
<1>11. CASE d # 0
  <2>1. file' = A \o live \o gap \o Z
    <3> HIDE DEF A, Z, gap, live, freed, ps, d
    <3> QED BY <1>2, <1>6, <1>7, <1>11
  <2>2. /\ A \in Seq(Byte) /\ Len(A) = ts /\ \A k \in 1..ts : A[k] = file[k]
    BY <1>0, <1>1
  <2>3. /\ Z \in Seq(Byte) /\ Len(Z) = FileEnd - te
        /\ \A k \in 1..(FileEnd - te) : Z[k] = file[te + k]
    BY <1>0, <1>1
  <2>4. /\ gap \in Seq(Byte) /\ Len(gap) = d - ps
        /\ \A k \in 1..(d - ps) : gap[k] = Filled
    <3>1. Filled \in Byte /\ d - ps \in Nat
      <4> HIDE DEF d, ps
      <4> QED BY <1>6 DEF Byte
    <3>2. gap = [i \in 1..(d - ps) |-> Filled]
      BY <1>7
    <3> HIDE DEF gap, d, ps
    <3> QED BY <3>1, <3>2
  <2> HIDE DEF A, Z, gap, live, freed, ps
  <2>5. LongRow(file', A, live, gap, Z)
    BY <1>4, <2>1, <2>2, <2>3, <2>4, FourInRow
  <2>11. file' \in Seq(Byte)
    BY <1>4, <2>1, <2>2, <2>3, <2>4
  <2> HIDE DEF n, d
  <2>6. /\ ts + n + (d - ps) = te - ps /\ ts + n + (d - ps) + (FileEnd - te) = FileEnd - ps
        /\ ts + n = te - d
    BY <1>0, <1>4, <1>6
  <2>7. /\ Len(file') = FileEnd - ps
        /\ \A k \in 1..ts : file'[k] = file[k]
        /\ \A k \in 1..n : file'[ts + k] = live[k]
        /\ \A k \in 1..(d - ps) : file'[te - d + k] = Filled
        /\ \A k \in 1..(FileEnd - te) : file'[te - ps + k] = file[te + k]
    BY <2>2, <2>3, <2>4, <2>5, <2>6 DEF n, LongRow
  <2>8. ASSUME NEW b \in 0..(FileEnd - 1), ~in_dead_range(b, ivs), b \notin DeadBytes \/ ts <= b
        PROVE  file'[Where(b, ivs) + 1] = b
    <3>1. b \in Nat /\ b < FileEnd /\ file[b + 1] = b
      BY <1>8, <2>8
    <3>2. CASE b < ts
      <4>1. Where(b, ivs) = b /\ b + 1 \in 1..ts
        BY <1>0, <1>5, <3>1, <3>2, WhereOutside
      <4> QED BY <2>7, <3>1, <4>1
    <3>3. CASE ts <= b /\ b < te
      <4> DEFINE k == b - ts - shift_at(b, ivs) + 1
      <4>1. b \in ts..(te - 1)
        BY <1>0, <3>1, <3>3
      <4>2. k \in 1..n /\ live[k] = b
        BY <1>4, <2>8, <3>1, <4>1
      <4>3. Where(b, ivs) = b - shift_at(b, ivs) /\ shift_at(b, ivs) \in Int
        <5>1. b \in Int
          BY <3>1
        <5> QED BY <1>3, <1>5, <2>8, <3>1, <3>3, <5>1, WhereInText, ShiftType
      <4>4. Where(b, ivs) + 1 = ts + k
        BY <1>0, <3>1, <4>3
      <4> HIDE DEF k
      <4> QED BY <2>7, <4>2, <4>4
    <3>4. CASE te <= b
      <4> DEFINE k == b - te + 1
      <4>1. k \in 1..(FileEnd - te) /\ te + k = b + 1 /\ te - ps + k = (b - ps) + 1
        BY <1>0, <1>6, <3>1, <3>4
      <4>2. Where(b, ivs) = b - ps
        BY <1>5, <3>1, <3>4, WhereOutside DEF ps
      <4> HIDE DEF k
      <4>3. file'[te - ps + k] = file[te + k]
        BY <2>7, <4>1
      <4> QED BY <3>1, <4>1, <4>2, <4>3
    <3> QED BY <1>0, <3>1, <3>2, <3>3, <3>4
  <2>9. ASSUME NEW k \in 1..(FileEnd - ps), file'[k] # Filled
        PROVE  \E b \in 0..(FileEnd - 1) : file'[k] = b /\ k = Where(b, ivs) + 1
    <3>1. CASE k <= ts
      <4>1. k \in 1..ts /\ k \in 1..FileEnd /\ k - 1 \in 0..(FileEnd - 1) /\ k - 1 < ts /\ k = (k - 1) + 1
        BY <1>0, <1>6, <3>1
      <4>2. file'[k] = k - 1
        BY <1>9, <2>7, <2>9, <4>1
      <4>3. k - 1 \in Int
        BY <4>1
      <4>4. Where(k - 1, ivs) = k - 1
        BY <1>5, <4>1, <4>3, WhereOutside
      <4> QED BY <4>1, <4>2, <4>4
    <3>2. CASE ts < k /\ k <= te - d
      <4> DEFINE j == k - ts - 1
      <4>1. j \in Nat /\ j < te - ts - d /\ j + 1 \in 1..n /\ ts + (j + 1) = k
        BY <1>0, <1>6, <2>6, <3>2
      <4> HIDE DEF j
      <4>2. PICK a \in ts..(te - 1) : ~in_dead_range(a, ivs) /\ a - ts - shift_at(a, ivs) = j
        BY <1>5, <4>1, PlaceTaken DEF d
      <4>3. live[j + 1] = file[a + 1]
        BY <1>4, <4>2
      <4>4. a \in Nat /\ a \in 0..(FileEnd - 1) /\ ts <= a /\ a < te
        BY <1>0
      <4>5. file[a + 1] = a
        BY <1>8, <4>4
      <4>6. file'[k] = a
        BY <2>7, <4>1, <4>3, <4>5
      <4>7. Where(a, ivs) = a - shift_at(a, ivs) /\ shift_at(a, ivs) \in Int
        <5>1. a \in Int
          BY <4>4
        <5> QED BY <1>3, <1>5, <4>2, <4>4, <5>1, WhereInText, ShiftType
      <4>8. k = Where(a, ivs) + 1
        BY <1>0, <4>1, <4>2, <4>4, <4>7
      <4> QED BY <4>4, <4>6, <4>8
    <3>3. CASE te - d < k /\ k <= te - ps
      <4> DEFINE j == k - (te - d)
      <4>1. j \in 1..(d - ps) /\ te - d + j = k
        BY <1>0, <1>6, <3>3
      <4> HIDE DEF j
      <4>2. file'[k] = Filled
        BY <2>7, <4>1
      <4> QED BY <2>9, <4>2
    <3>4. CASE te - ps < k
      <4> DEFINE j == k - (te - ps)
                 b == te + j - 1
      <4>1. /\ j \in 1..(FileEnd - te) /\ te - ps + j = k /\ b \in 0..(FileEnd - 1) /\ b \in Int
            /\ te <= b /\ ts <= b /\ te + j = b + 1 /\ k = (b - ps) + 1
        BY <1>0, <1>6, <3>4
      <4> HIDE DEF j, b
      <4>2. file'[k] = file[te + j]
        BY <2>7, <4>1
      <4>3. file[b + 1] = b
        BY <1>8, <4>1
      <4>4. Where(b, ivs) = b - ps
        BY <1>5, <4>1, WhereOutside DEF ps
      <4> QED BY <4>1, <4>2, <4>3, <4>4
    <3>5. k \in Int /\ d \in Int /\ ps \in Int /\ ts \in Int /\ te \in Int
      BY <1>0, <1>6
    <3> QED BY <3>1, <3>2, <3>3, <3>4, <3>5
  <2>10. \A k \in 1..Len(file') : file'[k] = Filled
             \/ (file'[k] \in 0..(FileEnd - 1) /\ k = Where(file'[k], ivs) + 1)
    BY <2>7, <2>9
  <2> QED BY <2>7, <2>8, <2>10, <2>11 DEF Laid, ps
<1> QED BY <1>10, <1>11

-----------------------------------------------------------------------------
(* Where the loader puts them. *)

\* The address of the byte at offset o, once ps bytes have left .text.
AddressOf(o, ps) == IF o < te - ps THEN o ELSE o + DataGap

\* The segments P map every byte in front of the section header table, and
\* each byte where it belongs.
Maps(P, ps) ==
  /\ \A h \in P : /\ h.addr \in Nat /\ h.offset \in Nat /\ h.size \in Nat
                  /\ \/ h.offset = h.addr /\ (h.addr + h.size <= te - ps \/ DataGap = 0)
                     \/ DataStart - ps <= h.addr /\ h.offset + DataGap = h.addr
  /\ \A o \in 0..(FileEnd - ps - 2) :
       \E h \in P : h.addr <= AddressOf(o, ps) /\ AddressOf(o, ps) < h.addr + h.size

\* The byte at address a, when the segments map it.
LEMMA MemoryAt ==
  ASSUME NEW ps \in 0..(te - ts), Maps(phdrs, ps), file \in Seq(Byte), Len(file) = FileEnd - ps,
         NEW a \in 0..(FileEnd + DataGap)
  PROVE  /\ \A o \in 0..(FileEnd - ps - 2) : a = AddressOf(o, ps) => Memory[a] = file[o + 1]
         /\ \/ Memory[a] = Filled
            \/ \E o \in 0..(FileEnd - ps - 1) : a = AddressOf(o, ps) /\ Memory[a] = file[o + 1]
<1> DEFINE hits == {h \in phdrs : h.addr <= a /\ a < h.addr + h.size}
           h == CHOOSE g \in hits : TRUE
           at == h.offset + (a - h.addr)
<1>1. /\ ts \in Nat /\ te \in Nat /\ FileEnd \in Nat /\ DataGap \in Nat /\ ts < te /\ te < FileEnd
      /\ DataStart = te + DataGap /\ ps \in Nat /\ ps <= te /\ a \in Nat
  BY TextBounds, LayoutAssumption DEF ts, te, DataStart
<1>2. Memory[a] = IF hits = {} THEN Filled ELSE IF at < Len(file) THEN file[at + 1] ELSE Filled
  BY DEF Memory
<1>3. ASSUME hits # {}
      PROVE  /\ h.addr \in Nat /\ h.offset \in Nat /\ h.size \in Nat
             /\ h.addr <= a /\ a < h.addr + h.size
             /\ \/ h.offset = h.addr /\ (h.addr + h.size <= te - ps \/ DataGap = 0)
                \/ DataStart - ps <= h.addr /\ h.offset + DataGap = h.addr
  <2>1. h \in hits
    BY <1>3
  <2> HIDE DEF h
  <2>2. h \in phdrs /\ h.addr <= a /\ a < h.addr + h.size
    BY <2>1
  <2> QED BY <2>2 DEF Maps
<1> HIDE DEF h
<1>4. ASSUME hits # {}
      PROVE  at \in Nat /\ a = AddressOf(at, ps)
  <2> HIDE DEF hits
  <2>0. /\ h.addr \in Nat /\ h.offset \in Nat /\ h.size \in Nat
        /\ h.addr <= a /\ a < h.addr + h.size
    BY <1>3, <1>4
  <2>1. CASE h.offset = h.addr /\ (h.addr + h.size <= te - ps \/ DataGap = 0)
    <3>1. at = a /\ (a < te - ps \/ DataGap = 0)
      BY <1>1, <2>0, <2>1
    <3> HIDE DEF at
    <3> QED BY <1>1, <3>1 DEF AddressOf
  <2>2. CASE DataStart - ps <= h.addr /\ h.offset + DataGap = h.addr
    <3>0. \A x, o, y, g, t1, s1 \in Nat :
            x <= y /\ o + g = x /\ (t1 + g) - s1 <= x
              => o + (y - x) \in Nat /\ o + (y - x) + g = y /\ t1 - s1 <= o + (y - x)
      OBVIOUS
    <3>1. at \in Nat /\ at + DataGap = a /\ te - ps <= at
      BY <1>1, <2>0, <2>2, <3>0
    <3> HIDE DEF at
    <3> QED BY <1>1, <3>1 DEF AddressOf
  <2> QED BY <1>3, <1>4, <2>1, <2>2
<1>5. ASSUME NEW o \in 0..(FileEnd - ps - 2), a = AddressOf(o, ps)
      PROVE  Memory[a] = file[o + 1]
  <2>1. hits # {}
    <3>1. PICK g \in phdrs : g.addr <= a /\ a < g.addr + g.size
      BY <1>5 DEF Maps
    <3> QED BY <3>1
  <2>2. at \in Nat /\ AddressOf(at, ps) = AddressOf(o, ps)
    BY <1>4, <1>5, <2>1
  <2> HIDE DEF at, hits
  <2>3. at = o
    BY <1>1, <2>2 DEF AddressOf
  <2>4. at < Len(file)
    BY <1>1, <2>3
  <2> QED BY <1>2, <2>1, <2>3, <2>4
<1>6. ASSUME Memory[a] # Filled
      PROVE  \E o \in 0..(FileEnd - ps - 1) : a = AddressOf(o, ps) /\ Memory[a] = file[o + 1]
  <2>1. hits # {} /\ at < Len(file) /\ Memory[a] = file[at + 1]
    <3> HIDE DEF hits, at
    <3> QED BY <1>2, <1>6
  <2>2. at \in Nat /\ a = AddressOf(at, ps)
    BY <1>4, <2>1
  <2> HIDE DEF at, hits
  <2>3. at \in 0..(FileEnd - ps - 1)
    BY <1>1, <2>1, <2>2
  <2> QED BY <2>1, <2>2, <2>3
<1> QED BY <1>5, <1>6

\* The program headers of an image that is mapped as its sections lie: every
\* byte but those of the section header table is in a segment; a segment
\* holds all of .text, or ends in front of it, or starts with the data; it
\* is mapped from the offsets it has, and only goes on from .text to the data
\* when there is no gap between their addresses.
Loadable(P) ==
  /\ \A h \in P :
       /\ h.addr \in Nat /\ h.offset \in Nat /\ h.size \in Nat
       /\ \/ /\ h.offset = h.addr /\ h.addr <= ts /\ te <= h.addr + h.size
             /\ h.addr + h.size = te \/ DataGap = 0
          \/ h.offset = h.addr /\ h.addr + h.size <= ts
          \/ DataStart <= h.addr /\ h.offset + DataGap = h.addr
  /\ \A b \in 0..(FileEnd - 2) :
       \E h \in P : h.addr <= AddressOf(b, 0) /\ AddressOf(b, 0) < h.addr + h.size

\* Such headers map the input.
LEMMA InputMapped ==
  ASSUME NEW P, Loadable(P)
  PROVE  Maps(P, 0)
<1>1. /\ ts \in Nat /\ te \in Nat /\ FileEnd \in Nat /\ DataGap \in Nat /\ ts < te
      /\ DataStart \in Nat /\ te - 0 = te /\ DataStart - 0 = DataStart /\ FileEnd - 0 - 2 = FileEnd - 2
  BY TextBounds, LayoutAssumption DEF ts, te, DataStart
<1>2. ASSUME NEW h \in P
      PROVE  /\ h.addr \in Nat /\ h.offset \in Nat /\ h.size \in Nat
             /\ \/ h.offset = h.addr /\ (h.addr + h.size <= te - 0 \/ DataGap = 0)
                \/ DataStart - 0 <= h.addr /\ h.offset + DataGap = h.addr
  BY <1>1 DEF Loadable
<1>3. \A o \in 0..(FileEnd - 0 - 2) :
        \E h \in P : h.addr <= AddressOf(o, 0) /\ AddressOf(o, 0) < h.addr + h.size
  BY <1>1 DEF Loadable
<1> QED BY <1>2, <1>3 DEF Maps

\* Patched they map the file that is left.
LEMMA PatchedMapped ==
  ASSUME Fits(ivs), NEW P, Loadable(P)
  PROVE  LET ps == page_shrink(ivs) IN Maps({patch_one_phdr(h, ps) : h \in P}, ps)
<1> DEFINE ps == page_shrink(ivs)
           N == {patch_one_phdr(h, ps) : h \in P}
<1>1. /\ ts \in Nat /\ te \in Nat /\ FileEnd \in Nat /\ DataGap \in Nat /\ ts < te /\ te < FileEnd
      /\ DataStart = te + DataGap /\ ps \in Nat /\ ps <= te - ts
  <2>1. ps \in 0..total_dead(ivs) /\ total_dead(ivs) \in 0..(te - ts)
    BY ShiftEnds
  <2> HIDE DEF ps
  <2> QED BY <2>1, TextBounds, LayoutAssumption DEF ts, te, DataStart
<1>2. ASSUME NEW x \in Nat
      PROVE  /\ x <= ts => total_shift(x, ivs, ts, te) = 0
             /\ te <= x => total_shift(x, ivs, ts, te) = ps
  <2>1. x \in Int
    OBVIOUS
  <2>2. x <= ts => shift_at(x, ivs) = 0
    BY <2>1, ShiftEnds
  <2> QED BY <1>1, <2>1, <2>2, WhereIs
<1> HIDE DEF ps
<1>3. ASSUME NEW h \in P
      PROVE  LET g == patch_one_phdr(h, ps) IN
             /\ h.addr \in Nat /\ h.offset \in Nat /\ h.size \in Nat
             /\ \/ /\ h.offset = h.addr /\ h.addr <= ts /\ te <= h.addr + h.size
                   /\ h.addr + h.size = te \/ DataGap = 0
                   /\ g.addr = h.addr /\ g.offset = h.offset /\ g.size = h.size - ps
                \/ /\ h.offset = h.addr /\ h.addr + h.size <= ts
                   /\ g.addr = h.addr /\ g.offset = h.offset /\ g.size = h.size
                \/ /\ DataStart <= h.addr /\ h.offset + DataGap = h.addr
                   /\ g.addr = h.addr - ps /\ g.offset = h.offset - ps /\ g.size = h.size
  <2> DEFINE g == patch_one_phdr(h, ps)
  <2>1. /\ g.addr = h.addr - total_shift(h.addr, ivs, ts, te)
        /\ g.offset = (IF h.offset >= te THEN h.offset - ps ELSE h.offset)
        /\ g.size = (IF h.addr <= ts /\ te <= h.addr + h.size THEN h.size - ps ELSE h.size)
    BY DEF patch_one_phdr
  <2> HIDE DEF g
  <2>2. /\ h.addr \in Nat /\ h.offset \in Nat /\ h.size \in Nat
        /\ \/ /\ h.offset = h.addr /\ h.addr <= ts /\ te <= h.addr + h.size
              /\ h.addr + h.size = te \/ DataGap = 0
           \/ h.offset = h.addr /\ h.addr + h.size <= ts
           \/ DataStart <= h.addr /\ h.offset + DataGap = h.addr
    BY DEF Loadable
  <2>3. /\ h.addr <= ts => total_shift(h.addr, ivs, ts, te) = 0
        /\ te <= h.addr => total_shift(h.addr, ivs, ts, te) = ps
    BY <1>2, <2>2
  <2>4. CASE /\ h.offset = h.addr /\ h.addr <= ts /\ te <= h.addr + h.size
             /\ h.addr + h.size = te \/ DataGap = 0
    BY <1>1, <2>1, <2>2, <2>3, <2>4 DEF g
  <2>5. CASE h.offset = h.addr /\ h.addr + h.size <= ts
    BY <1>1, <2>1, <2>2, <2>3, <2>5 DEF g
  <2>6. CASE DataStart <= h.addr /\ h.offset + DataGap = h.addr
    BY <1>1, <2>1, <2>2, <2>3, <2>6 DEF g
  <2> QED BY <2>2, <2>4, <2>5, <2>6
<1>4. ASSUME NEW g \in N
      PROVE  /\ g.addr \in Nat /\ g.offset \in Nat /\ g.size \in Nat
             /\ \/ g.offset = g.addr /\ (g.addr + g.size <= te - ps \/ DataGap = 0)
                \/ DataStart - ps <= g.addr /\ g.offset + DataGap = g.addr
  <2>1. PICK h \in P : g = patch_one_phdr(h, ps)
    OBVIOUS
  <2> QED BY <1>1, <1>3, <2>1
<1>5. ASSUME NEW o \in 0..(FileEnd - ps - 2)
      PROVE  \E g \in N : g.addr <= AddressOf(o, ps) /\ AddressOf(o, ps) < g.addr + g.size
  <2> DEFINE b == IF o < te - ps THEN o ELSE o + ps
             x == AddressOf(b, 0)
             y == AddressOf(o, ps)
  <2>1. b \in 0..(FileEnd - 2) /\ te - 0 = te
    BY <1>1
  <2>2. PICK h \in P : h.addr <= x /\ x < h.addr + h.size
    BY <2>1 DEF Loadable
  <2>3. o \in Nat /\ (o < te - ps => x = o /\ y = o) /\ (te - ps <= o => x = o + ps + DataGap /\ y = o + DataGap)
    BY <1>1, <2>1 DEF AddressOf
  <2> HIDE DEF b, x, y
  <2> DEFINE g == patch_one_phdr(h, ps)
  <2>4. g.addr <= y /\ y < g.addr + g.size
    BY <1>1, <1>3, <2>2, <2>3
  <2> QED BY <2>4 DEF y
<1> QED BY <1>4, <1>5 DEF Maps, ps


\* Where byte b is found in memory once the plan p has been carried out, and
\* that it is found nowhere else.
LEMMA ByteAt ==
  ASSUME NEW p, Fits(p), Laid(file, p), Maps(phdrs, page_shrink(p)),
         NEW b \in 0..(FileEnd - 2), ~in_dead_range(b, p),
         b \notin DeadBytes \/ (p # <<>> /\ ts <= b)
  PROVE  LET a == Where(AddressOf(b, 0), p) IN
         /\ a \in DOMAIN Memory /\ Memory[a] = b
         /\ \A x \in DOMAIN Memory : Memory[x] = b => x = a
<1> DEFINE ps == page_shrink(p)
           o  == Where(b, p)
           a  == Where(AddressOf(b, 0), p)
<1>1. /\ ts \in Nat /\ te \in Nat /\ FileEnd \in Nat /\ DataGap \in Nat /\ ts < te /\ te < FileEnd
      /\ b \in Nat /\ b \in Int /\ b + DataGap \in Int /\ b \in 0..(FileEnd - 1)
  BY TextBounds, LayoutAssumption DEF ts, te
<1>2. ps \in 0..total_dead(p) /\ total_dead(p) \in 0..(te - ts)
  BY ShiftEnds
<1>3. ps \in 0..(te - ts) /\ ps \in Nat /\ total_dead(p) \in Nat
  <2> HIDE DEF ps
  <2> QED BY <1>1, <1>2
<1>4. o \in 0..(FileEnd - ps - 2) /\ a = AddressOf(o, ps)
  <2>1. CASE b < te
    <3>1. o \in 0..(te - total_dead(p) - 1)
      BY <1>1, <2>1, WhereInText
    <3>2. AddressOf(b, 0) = b
      BY <1>1, <2>1 DEF AddressOf
    <3>3. a = o
      BY <3>2
    <3> HIDE DEF o, ps, a
    <3> QED BY <1>1, <1>2, <1>3, <3>1, <3>3 DEF AddressOf
  <2>2. CASE te <= b
    <3>1. o = b - ps
      BY <1>1, <2>2, WhereOutside
    <3>2. AddressOf(b, 0) = b + DataGap
      BY <1>1, <2>2 DEF AddressOf
    <3>3. te <= b + DataGap
      BY <1>1, <2>2
    <3>4. a = (b + DataGap) - ps
      BY <1>1, <3>2, <3>3, WhereOutside
    <3> HIDE DEF o, ps, a
    <3> QED BY <1>1, <1>2, <1>3, <2>2, <3>1, <3>4 DEF AddressOf
  <2> QED BY <1>1, <2>1, <2>2
<1>5. file \in Seq(Byte) /\ Len(file) = FileEnd - ps /\ file[o + 1] = b
  BY <1>1 DEF Laid
<1>6. DOMAIN Memory = 0..(FileEnd + DataGap)
  BY DEF Memory
<1> HIDE DEF o, ps, a
<1>7. a \in 0..(FileEnd + DataGap)
  BY <1>1, <1>3, <1>4 DEF AddressOf
<1>8. Maps(phdrs, ps)
  BY DEF ps
<1>9. Memory[a] = b
  BY <1>3, <1>4, <1>5, <1>7, <1>8, MemoryAt
<1>10. ASSUME NEW x \in 0..(FileEnd + DataGap), Memory[x] = b
       PROVE  x = a
  <2>1. b # Filled
    BY <1>1, LayoutAssumption
  <2>2. PICK k \in 0..(FileEnd - ps - 1) : x = AddressOf(k, ps) /\ Memory[x] = file[k + 1]
    BY <1>3, <1>5, <1>8, <1>10, <2>1, MemoryAt
  <2>3. k + 1 \in 1..Len(file) /\ o \in Int /\ k \in Int
    BY <1>1, <1>3, <1>4, <1>5
  <2>4. k + 1 = Where(file[k + 1], p) + 1
    BY <1>10, <2>1, <2>2, <2>3 DEF Laid
  <2>5. k + 1 = o + 1
    BY <1>10, <2>2, <2>4 DEF o
  <2>6. k = o
    BY <2>3, <2>5
  <2> QED BY <1>4, <2>2, <2>6
<1> QED BY <1>6, <1>7, <1>9, <1>10 DEF a

-----------------------------------------------------------------------------
(* References. *)

\* The addresses of the bytes in front of the section header table.
Addresses == {AddressOf(b, 0) : b \in 0..(FileEnd - 2)}

\* The references trim rewrites in full: between bytes of the image, from
\* mixed data only to .text and what is in front of it, and with relocations
\* of the type number that patch_rela_entry knows.
RefsUnderstood ==
  \A x \in DOMAIN InputRefs :
    LET r == InputRefs[x] IN
    /\ r \in [kind : {"branch", "data"}, at : Int, val : Int]
             \cup [kind : {"got", "rela", "entry", "sym"}, type : Nat, at : Int, val : Int]
    /\ r.at \in Addresses /\ PointsTo(r, r.at) \in Addresses
    /\ r.kind = "data" => r.val < te
    /\ r.kind = "rela" => r.type = 8

\* Reference r, which was old, points from where its slot is to where its
\* target is.
Aims(r, old, p) ==
  ~in_dead_range(old.at, p) =>
    /\ PointsTo(r, Where(old.at, p)) = Where(PointsTo(old, old.at), p)
    /\ old.kind = "rela" => r.at = Where(old.at, p)

LEMMA AddressType ==
  /\ Addresses \subseteq Nat
  /\ \A a \in Addresses : OldOffset(a) \in 0..(FileEnd - 2) /\ AddressOf(OldOffset(a), 0) = a
<1>1. te \in Nat /\ FileEnd \in Nat /\ DataGap \in Nat /\ te < FileEnd
  BY TextBounds, LayoutAssumption DEF te
<1>2. ASSUME NEW b \in 0..(FileEnd - 2)
      PROVE  AddressOf(b, 0) \in Nat /\ OldOffset(AddressOf(b, 0)) = b
  BY <1>1 DEF AddressOf, OldOffset
<1>3. ASSUME NEW a \in Addresses
      PROVE  a \in Nat /\ OldOffset(a) \in 0..(FileEnd - 2) /\ AddressOf(OldOffset(a), 0) = a
  <2>1. PICK b \in 0..(FileEnd - 2) : a = AddressOf(b, 0)
    BY DEF Addresses
  <2>2. a \in Nat /\ OldOffset(a) = b
    BY <1>2, <2>1
  <2> QED BY <2>1, <2>2
<1> QED BY <1>3

\* Patching a reference aims it.
LEMMA PatchedAims ==
  ASSUME Fits(ivs), RefsUnderstood, NEW x \in DOMAIN InputRefs
  PROVE  Aims(Patched(InputRefs[x]), InputRefs[x], ivs)
<1> DEFINE r == InputRefs[x]
           S(a) == total_shift(a, ivs, ts, te)
<1>1. /\ r \in [kind : {"branch", "data"}, at : Int, val : Int]
               \cup [kind : {"got", "rela", "entry", "sym"}, type : Nat, at : Int, val : Int]
      /\ r.at \in Addresses /\ PointsTo(r, r.at) \in Addresses
      /\ r.kind = "data" => r.val < te
      /\ r.kind = "rela" => r.type = 8
  BY DEF RefsUnderstood
<1> HIDE DEF r
<1>2. /\ r.at \in Int /\ r.val \in Int
      /\ r.kind \in {"branch", "data", "got", "rela", "entry", "sym"}
  BY <1>1
<1>3. ASSUME NEW a \in Int
      PROVE  S(a) \in Int
  BY WhereIs
<1>4. ts \in Int /\ te \in Int /\ 0 < ts /\ ts < te
  BY TextBounds
<1>5. \A a : Where(a, ivs) = a - S(a)
  BY DEF Where
<1> SUFFICES ASSUME ~in_dead_range(r.at, ivs)
             PROVE  /\ PointsTo(Patched(r), Where(r.at, ivs)) = Where(PointsTo(r, r.at), ivs)
                    /\ r.kind = "rela" => Patched(r).at = Where(r.at, ivs)
  BY DEF Aims, r
<1>6. CASE r.kind = "branch"
  <2>1. Patched(r) = [r EXCEPT !.val = @ + S(r.at) - S(r.at + r.val)]
    BY <1>6 DEF Patched, patch_one_rel
  <2>2. Patched(r).kind = "branch" /\ Patched(r).val = r.val + S(r.at) - S(r.at + r.val)
    BY <1>1, <1>6, <2>1
  <2>3. S(r.at) \in Int /\ S(r.at + r.val) \in Int
    BY <1>2, <1>3
  <2>4. PointsTo(Patched(r), Where(r.at, ivs))
          = (r.at - S(r.at)) + (r.val + S(r.at) - S(r.at + r.val))
    BY <1>5, <2>2 DEF PointsTo
  <2>5. Where(PointsTo(r, r.at), ivs) = (r.at + r.val) - S(r.at + r.val)
    BY <1>5, <1>6 DEF PointsTo
  <2> HIDE DEF S
  <2> QED BY <1>2, <1>6, <2>3, <2>4, <2>5
<1>7. ASSUME r.kind # "branch", Patched(r).kind = r.kind, Patched(r).val = r.val - S(r.val)
      PROVE  PointsTo(Patched(r), Where(r.at, ivs)) = Where(PointsTo(r, r.at), ivs)
  BY <1>5, <1>7 DEF PointsTo
<1>8. CASE r.kind = "got"
  <2>1. Patched(r) = [r EXCEPT !.val = @ - S(r.val)]
    BY <1>8 DEF Patched, patch_one_data_sec
  <2>2. Patched(r).kind = r.kind /\ Patched(r).val = r.val - S(r.val)
    BY <1>1, <1>8, <2>1
  <2> QED BY <1>7, <1>8, <2>2
<1>9. CASE r.kind = "data"
  <2> DEFINE s == IF ts <= r.val /\ r.val < te THEN shift_at(r.val, ivs) ELSE 0
  <2>1. Patched(r) = [r EXCEPT !.val = @ - s]
    BY <1>9 DEF Patched, patch_one_data_sec
  <2>2. s = S(r.val)
    <3>1. r.val < ts => shift_at(r.val, ivs) = 0
      BY <1>2, <1>4, ShiftEnds
    <3> QED BY <1>1, <1>2, <1>4, <1>9, <3>1, WhereIs
  <2> HIDE DEF s, S
  <2>3. Patched(r).kind = r.kind /\ Patched(r).val = r.val - S(r.val)
    BY <1>1, <1>9, <2>1, <2>2
  <2> QED BY <1>7, <1>9, <2>3
<1>10. CASE r.kind = "rela"
  <2>1. Patched(r) = [r EXCEPT !.at = @ - S(r.at), !.val = @ - S(r.val)]
    BY <1>1, <1>10 DEF Patched, patch_rela_entry
  <2> HIDE DEF S
  <2>2. /\ Patched(r).kind = r.kind /\ Patched(r).val = r.val - S(r.val)
        /\ Patched(r).at = r.at - S(r.at)
    BY <1>1, <1>10, <2>1
  <2> QED BY <1>5, <1>7, <1>10, <2>2
<1>11. CASE r.kind = "entry"
  <2>1. Patched(r) = [r EXCEPT !.val = @ - S(r.val)]
    BY <1>11 DEF Patched, patch_entry_point
  <2>2. Patched(r).kind = r.kind /\ Patched(r).val = r.val - S(r.val)
    BY <1>1, <1>11, <2>1
  <2> QED BY <1>7, <1>11, <2>2
<1>12. CASE r.kind = "sym"
  <2>1. CASE r.val = 0
    <3>1. Patched(r) = r
      BY <1>12, <2>1 DEF Patched, patch_one_sym
    <3>2. S(0) = 0
      <4>1. shift_at(0, ivs) = 0
        BY <1>4, ShiftEnds
      <4> QED BY <1>4, <4>1, WhereIs
    <3>3. Patched(r).kind = r.kind /\ Patched(r).val = r.val - S(r.val)
      BY <2>1, <3>1, <3>2
    <3> QED BY <1>7, <1>12, <3>3
  <2>2. CASE r.val # 0
    <3>1. Patched(r) = [r EXCEPT !.val = @ - S(r.val)]
      BY <1>12, <2>2 DEF Patched, patch_one_sym
    <3>2. Patched(r).kind = r.kind /\ Patched(r).val = r.val - S(r.val)
      BY <1>1, <1>12, <3>1
    <3> QED BY <1>7, <1>12, <3>2
  <2> QED BY <2>1, <2>2
<1> QED BY <1>2, <1>6, <1>8, <1>9, <1>10, <1>11, <1>12


\* Without a plan a reference aims where it aimed.
LEMMA SameAims ==
  ASSUME RefsUnderstood, NEW x \in DOMAIN InputRefs
  PROVE  Aims(InputRefs[x], InputRefs[x], <<>>)
<1> DEFINE r == InputRefs[x]
<1>1. r.at \in Nat /\ PointsTo(r, r.at) \in Nat
  BY AddressType DEF RefsUnderstood
<1> HIDE DEF r
<1>2. Where(r.at, <<>>) = r.at /\ Where(PointsTo(r, r.at), <<>>) = PointsTo(r, r.at)
  BY <1>1, EmptyPlan
<1> QED BY <1>2 DEF Aims, r

-----------------------------------------------------------------------------
(* Unwind records. *)

\* The function of a record ends with .text or before, or is behind it.
Apart(f) == FdeEnd(f) <= te \/ te <= f.begin

\* Record f, which was old, begins where its function does, covers every byte
\* of it that stays, and tells its rows apart where it did.
Follows(f, old, p) ==
  /\ DOMAIN f.rows = DOMAIN old.rows
  /\ f.begin = Where(old.begin, p)
  /\ \A b \in old.begin..(FdeEnd(old) - 1) : ~in_dead_range(b, p) =>
       /\ Where(b, p) \in f.begin..(FdeEnd(f) - 1)
       /\ \A k \in DOMAIN old.rows : f.rows[k] <= Where(b, p) <=> old.rows[k] <= b

\* map_end up to the end of .text, and behind it.
LEMMA MapEnd ==
  ASSUME Fits(ivs), NEW a \in Nat
  PROVE  /\ map(cx, a) = Where(a, ivs)
         /\ a <= te => map_end(cx, a) = a - shift_at(a, ivs)
         /\ te < a => map_end(cx, a) = a - page_shrink(ivs)
<1>1. ts \in Int /\ te \in Int /\ ts < te /\ a \in Int
  BY TextBounds
<1>2. cx.ivs = ivs /\ cx.ts = ts /\ cx.te = te
  BY DEF cx
<1>3. map(cx, a) = Where(a, ivs)
  BY <1>2 DEF map, Where
<1>4. map_end(cx, a) = IF ts < a /\ a <= te THEN a - shift_at(a, ivs) ELSE map(cx, a)
  BY <1>2 DEF map_end
<1>5. a <= ts => Where(a, ivs) = a - shift_at(a, ivs)
  <2>1. a <= ts => a < te
    BY <1>1
  <2> QED BY <1>1, <2>1, WhereIs DEF Where
<1>6. te < a => Where(a, ivs) = a - page_shrink(ivs)
  <2>1. te < a => te <= a
    BY <1>1
  <2> QED BY <1>1, <2>1, WhereOutside
<1> QED BY <1>1, <1>3, <1>4, <1>5, <1>6

\* The length of a function that ends in .text: no byte of it that stays is
\* cut off, and it keeps its length only if nothing was removed from it.
LEMMA NewLength ==
  ASSUME Fits(ivs), NEW f \in FdeType, FdeEnd(f) <= te, f.begin < te
  PROVE  /\ NewRange(f, cx) \in Nat
         /\ Where(f.begin, ivs) = f.begin - shift_at(f.begin, ivs)
         /\ Where(f.begin, ivs) + NewRange(f, cx) = FdeEnd(f) - shift_at(FdeEnd(f), ivs)
         /\ NewRange(f, cx) = f.range => shift_at(f.begin, ivs) = shift_at(FdeEnd(f), ivs)
<1> DEFINE b == f.begin
           e == FdeEnd(f)
<1>1. b \in Nat /\ f.range \in Nat /\ e = b + f.range /\ e \in Nat /\ b <= e /\ b \in Int /\ e \in Int
  BY DEF FdeType, FdeEnd
<1>2. te \in Int
  BY TextBounds
<1> HIDE DEF b, e
<1>3. /\ shift_at(b, ivs) \in Nat /\ shift_at(e, ivs) \in Nat
      /\ shift_at(b, ivs) <= shift_at(e, ivs) /\ b - shift_at(b, ivs) <= e - shift_at(e, ivs)
  BY <1>1, ShiftBetween
<1>4. Where(b, ivs) = b - shift_at(b, ivs)
  BY <1>1, WhereIs DEF Where, b
<1>5. map_end(cx, e) = e - shift_at(e, ivs) /\ map(cx, b) = b - shift_at(b, ivs)
  BY <1>1, <1>4, MapEnd DEF e
<1>6. NewRange(f, cx) = LET l == (e - shift_at(e, ivs)) - (b - shift_at(b, ivs))
                        IN IF l \in 0..f.range THEN l ELSE f.range
  BY <1>5 DEF NewRange, b, e
<1>7. (e - shift_at(e, ivs)) - (b - shift_at(b, ivs)) \in 0..f.range
  BY <1>1, <1>3
<1>8. NewRange(f, cx) = (e - shift_at(e, ivs)) - (b - shift_at(b, ivs))
  BY <1>6, <1>7
<1> QED BY <1>1, <1>3, <1>4, <1>7, <1>8 DEF b, e

\* A function behind .text moves as a whole.
LEMMA BehindFollows ==
  ASSUME Fits(ivs), NEW f \in FdeType, te <= f.begin
  PROVE  Follows(patch_fde(f, cx), f, ivs)
<1> DEFINE n  == patch_fde(f, cx)
           ps == page_shrink(ivs)
<1>1. /\ f.begin \in Nat \ {0} /\ f.range \in Nat /\ FdeEnd(f) = f.begin + f.range /\ FdeEnd(f) \in Nat
      /\ DOMAIN f.rows = 1..Len(f.rows) /\ \A k \in DOMAIN f.rows : f.rows[k] \in Nat
      /\ DOMAIN f = {"begin", "range", "rows", "caf", "opaque", "lsda"}
  BY DEF FdeType, FdeEnd
<1>2. te \in Nat /\ ps \in Nat
  <2>1. ps \in 0..total_dead(ivs) /\ total_dead(ivs) \in 0..(te - ts) /\ te \in Nat /\ ts \in Nat
    BY ShiftEnds, TextBounds
  <2> HIDE DEF ps
  <2> QED BY <2>1
<1>3. ASSUME NEW a \in Nat, te <= a
      PROVE  Where(a, ivs) = a - ps
  BY <1>3, WhereOutside
<1>4. map(cx, f.begin) = f.begin - ps
  BY <1>1, <1>3, MapEnd
<1>5. ~fde_dead(f, cx)
  <2> SUFFICES ASSUME NEW i \in DOMAIN ivs, f.begin < ivs[i][2] PROVE FALSE
    BY DEF fde_dead, cx
  <2>1. ivs[i][2] \in Int /\ ivs[i][2] <= te
    BY IvType DEF Fits
  <2> QED BY <1>1, <1>2, <2>1
<1>6. NewRange(f, cx) = f.range
  <2>1. CASE te < FdeEnd(f)
    <3>1. map_end(cx, FdeEnd(f)) = FdeEnd(f) - ps
      BY <1>1, <2>1, MapEnd
    <3>2. map_end(cx, FdeEnd(f)) - map(cx, f.begin) = f.range
      BY <1>1, <1>2, <1>4, <3>1
    <3> QED BY <3>2 DEF NewRange
  <2>2. CASE ~(te < FdeEnd(f))
    <3>1. f.range = 0
      BY <1>1, <1>2, <2>2
    <3>2. \A l : l \in 0..0 => l = 0
      OBVIOUS
    <3> QED BY <3>1, <3>2 DEF NewRange
  <2> QED BY <2>1, <2>2
<1>7. n = [f EXCEPT !.begin = map(cx, f.begin), !.range = f.range,
                    !.rows = [k \in DOMAIN f.rows |-> MovedRow(f, cx, f.rows[k])]]
  <2>1. f.begin # 0
    BY <1>1
  <2> QED BY <1>5, <1>6, <2>1 DEF patch_fde, plan_shrink
<1> HIDE DEF ps
<1>8. /\ n.begin = f.begin - ps /\ n.range = f.range
      /\ n.rows = [k \in DOMAIN f.rows |-> MovedRow(f, cx, f.rows[k])]
  BY <1>1, <1>4, <1>7
<1> HIDE DEF n
<1>9. ASSUME NEW b \in f.begin..(FdeEnd(f) - 1)
      PROVE  /\ Where(b, ivs) \in n.begin..(FdeEnd(n) - 1)
             /\ \A k \in DOMAIN f.rows : n.rows[k] <= Where(b, ivs) <=> f.rows[k] <= b
  <2>1. b \in Nat /\ te <= b
    BY <1>1, <1>2
  <2>2. Where(b, ivs) = b - ps
    BY <1>3, <2>1
  <2>3. FdeEnd(n) = (f.begin - ps) + f.range
    BY <1>8 DEF FdeEnd
  <2>4. Where(b, ivs) \in n.begin..(FdeEnd(n) - 1)
    BY <1>1, <1>2, <1>8, <2>1, <2>2, <2>3
  <2>5. ASSUME NEW k \in DOMAIN f.rows
        PROVE  n.rows[k] <= Where(b, ivs) <=> f.rows[k] <= b
    <3>1. n.rows[k] = (f.begin - ps) + (f.rows[k] - f.begin)
      BY <1>4, <1>6, <1>8 DEF MovedRow
    <3>2. f.rows[k] \in Nat
      BY <1>1
    <3> QED BY <1>1, <1>2, <2>1, <2>2, <3>1, <3>2
  <2> QED BY <2>4, <2>5
<1>10. n.begin = Where(f.begin, ivs)
  BY <1>1, <1>3, <1>8
<1>11. DOMAIN n.rows = DOMAIN f.rows
  BY <1>8
<1> QED BY <1>9, <1>10, <1>11 DEF Follows, n

\* A record that can follow the plan follows it.
LEMMA PatchedFollows ==
  ASSUME Fits(ivs), NEW f \in FdeType, FdeEnd(f) <= te, fde_dead(f, cx) \/ plan_shrink(f, cx)
  PROVE  Follows(patch_fde(f, cx), f, ivs)
<1> DEFINE n == patch_fde(f, cx)
           w(a) == a - shift_at(a, ivs)
<1>1. /\ f.begin \in Nat \ {0} /\ f.range \in Nat /\ FdeEnd(f) = f.begin + f.range /\ FdeEnd(f) \in Nat
      /\ DOMAIN f.rows = 1..Len(f.rows) /\ \A k \in DOMAIN f.rows : f.rows[k] \in Nat
  BY DEF FdeType, FdeEnd
<1>2. ts \in Int /\ te \in Int /\ ts < te
  BY TextBounds
<1>3. DOMAIN f = {"begin", "range", "rows", "caf", "opaque", "lsda"}
  BY DEF FdeType
<1>4. CASE fde_dead(f, cx)
  <2>1. n = [f EXCEPT !.begin = map(cx, f.begin), !.range = 0]
    <3>1. f.begin # 0
      BY <1>1
    <3> QED BY <1>4, <3>1 DEF patch_fde
  <2>2. n.begin = Where(f.begin, ivs) /\ n.rows = f.rows
    <3>1. map(cx, f.begin) = Where(f.begin, ivs)
      BY <1>1, MapEnd
    <3> QED BY <1>3, <2>1, <3>1
  <2>3. ASSUME NEW b \in f.begin..(FdeEnd(f) - 1)
        PROVE  in_dead_range(b, ivs)
    <3>1. PICK i \in DOMAIN ivs : ivs[i][1] <= f.begin /\ FdeEnd(f) <= ivs[i][2]
      BY <1>4 DEF fde_dead, cx
    <3>2. ivs[i][1] \in Int /\ ivs[i][2] \in Int
      BY IvType DEF Fits
    <3>3. ivs[i][1] <= b /\ b < ivs[i][2]
      BY <1>1, <3>1, <3>2
    <3> QED BY <3>3 DEF in_dead_range
  <2> HIDE DEF n
  <2> QED BY <2>2, <2>3 DEF Follows, n
<1>5. CASE ~fde_dead(f, cx)
  <2>1. n = [f EXCEPT !.begin = map(cx, f.begin), !.range = NewRange(f, cx),
                      !.rows = [k \in DOMAIN f.rows |-> MovedRow(f, cx, f.rows[k])]]
    <3>1. f.begin # 0
      BY <1>1
    <3> QED BY <1>5, <3>1 DEF patch_fde
  <2>2. /\ n.begin = Where(f.begin, ivs) /\ n.range = NewRange(f, cx)
        /\ n.rows = [k \in DOMAIN f.rows |-> MovedRow(f, cx, f.rows[k])]
    <3>1. map(cx, f.begin) = Where(f.begin, ivs)
      BY <1>1, MapEnd
    <3> QED BY <1>3, <2>1, <3>1
  <2> HIDE DEF n
  <2>3. ASSUME NEW b \in f.begin..(FdeEnd(f) - 1), ~in_dead_range(b, ivs)
        PROVE  /\ Where(b, ivs) \in n.begin..(FdeEnd(n) - 1)
               /\ \A k \in DOMAIN f.rows : n.rows[k] <= Where(b, ivs) <=> f.rows[k] <= b
    <3> DEFINE e == FdeEnd(f)
    <3>1. /\ b \in Nat /\ b < te /\ f.begin <= b /\ f.begin < te /\ b + 1 <= e /\ b <= e /\ b + 1 \in Nat
          /\ e \in Nat /\ e <= te /\ f.begin <= e
      BY <1>1, <1>2
    <3>2. Where(b, ivs) = w(b)
      BY <2>3, <3>1, WhereInText
    <3>3. /\ NewRange(f, cx) \in Nat
          /\ n.begin = w(f.begin) /\ FdeEnd(n) = w(e)
          /\ NewRange(f, cx) = f.range => shift_at(f.begin, ivs) = shift_at(e, ivs)
      <4>1. FdeEnd(n) = Where(f.begin, ivs) + NewRange(f, cx)
        BY <2>2 DEF FdeEnd
      <4> QED BY <2>2, <3>1, <4>1, NewLength
    <3> HIDE DEF e
    <3>4. ASSUME NEW x \in Nat, NEW y \in Nat, x <= y
          PROVE  /\ shift_at(x, ivs) \in Nat /\ shift_at(y, ivs) \in Nat
                 /\ shift_at(x, ivs) <= shift_at(y, ivs) /\ w(x) <= w(y)
      <4>1. x \in Int /\ y \in Int
        OBVIOUS
      <4> QED BY <3>4, <4>1, ShiftBetween
    <3>5. shift_at(b + 1, ivs) = shift_at(b, ivs)
      <4>1. b \in Int /\ b + 1 \in Int /\ b <= b + 1 /\ \A z \in b..((b + 1) - 1) : z = b
        BY <3>1
      <4> QED BY <2>3, <4>1, ShiftBetween
    <3>6. /\ w(f.begin) <= w(b) /\ w(b) < w(e) /\ w(b + 1) = w(b) + 1
          /\ w(f.begin) \in Int /\ w(b) \in Int /\ w(e) \in Int
      <4>1. /\ w(f.begin) <= w(b) /\ w(b + 1) <= w(e)
            /\ shift_at(f.begin, ivs) \in Nat /\ shift_at(b, ivs) \in Nat /\ shift_at(e, ivs) \in Nat
        BY <1>1, <3>1, <3>4
      <4>2. w(b + 1) = w(b) + 1 /\ w(b) \in Int /\ w(e) \in Int
        BY <3>1, <3>5, <4>1
      <4>3. w(f.begin) \in Int
        BY <1>1, <4>1
      <4> HIDE DEF w
      <4> QED BY <4>1, <4>2, <4>3
    <3>7. ASSUME NEW k \in DOMAIN f.rows
          PROVE  n.rows[k] <= w(b) <=> f.rows[k] <= b
      <4> DEFINE r == f.rows[k]
      <4>1. r \in Nat /\ n.rows[k] = MovedRow(f, cx, r)
        BY <1>1, <2>2
      <4> HIDE DEF r
      <4>2. CASE NewRange(f, cx) = f.range
        <5>1. MovedRow(f, cx, r) = Where(f.begin, ivs) + (r - f.begin)
          BY <1>1, <4>2, MapEnd DEF MovedRow
        <5>2. shift_at(f.begin, ivs) = shift_at(b, ivs) /\ shift_at(b, ivs) \in Nat
          <6>1. /\ shift_at(f.begin, ivs) <= shift_at(b, ivs) /\ shift_at(b, ivs) <= shift_at(e, ivs)
                /\ shift_at(f.begin, ivs) \in Nat /\ shift_at(b, ivs) \in Nat
            BY <1>1, <3>1, <3>4
          <6> QED BY <3>3, <4>2, <6>1
        <5>3. Where(f.begin, ivs) = f.begin - shift_at(b, ivs)
          BY <2>2, <3>3, <5>2
        <5> QED BY <1>1, <3>1, <4>1, <5>1, <5>2, <5>3 DEF r
      <4>3. CASE NewRange(f, cx) # f.range
        <5>1. MovedRow(f, cx, r) = map(cx, f.begin) + (map_end(cx, r) - map_end(cx, f.begin))
          BY <4>3 DEF MovedRow
        <5>2. map(cx, f.begin) = w(f.begin) /\ map_end(cx, f.begin) = w(f.begin)
          <6>1. f.begin <= te
            BY <1>1, <1>2, <3>1
          <6> QED BY <1>1, <2>2, <3>3, <6>1, MapEnd
        <5>3. w(f.begin) \in Int
          <6>1. shift_at(f.begin, ivs) \in Nat
            BY <1>1, <3>1, <3>4
          <6> QED BY <1>1, <6>1
        <5>4. CASE r <= te
          <6>1. map_end(cx, r) = w(r)
            BY <4>1, <5>4, MapEnd
          <6>2. w(r) \in Int
            <7>1. r <= r
              BY <4>1
            <7>2. shift_at(r, ivs) \in Nat
              BY <3>4, <4>1, <7>1
            <7> QED BY <4>1, <7>2
          <6>3. r <= b => w(r) <= w(b)
            BY <3>1, <3>4, <4>1
          <6>4. b + 1 <= r => w(b + 1) <= w(r)
            BY <3>1, <3>4, <4>1
          <6> HIDE DEF w
          <6>5. n.rows[k] = w(r)
            BY <4>1, <5>1, <5>2, <5>3, <6>1, <6>2
          <6> QED BY <3>1, <3>6, <4>1, <6>2, <6>3, <6>4, <6>5 DEF r
        <5>5. CASE te < r
          <6>1. map_end(cx, r) = r - page_shrink(ivs)
            BY <4>1, <5>5, MapEnd
          <6>2. page_shrink(ivs) \in 0..total_dead(ivs) /\ shift_at(te, ivs) = total_dead(ivs)
                /\ total_dead(ivs) \in Nat
            BY <1>2, ShiftEnds
          <6>3. w(e) <= w(te)
            BY <1>2, <3>1, <3>4
          <6>4. w(te) = te - total_dead(ivs)
            BY <6>2
          <6>5. w(e) \in Int
            <7>1. shift_at(e, ivs) \in Nat
              BY <1>1, <3>1, <3>4
            <7> QED BY <3>1, <7>1
          <6> HIDE DEF w
          <6>6. n.rows[k] = r - page_shrink(ivs)
            BY <1>2, <4>1, <5>1, <5>2, <5>3, <6>1, <6>2
          <6>7. ~(n.rows[k] <= w(b)) /\ ~(r <= b)
            BY <1>2, <3>1, <3>6, <4>1, <5>5, <6>2, <6>3, <6>4, <6>5, <6>6
          <6> QED BY <6>7 DEF r
        <5> QED BY <1>2, <4>1, <5>4, <5>5
      <4> QED BY <4>2, <4>3
    <3> HIDE DEF w
    <3> QED BY <3>2, <3>3, <3>6, <3>7
  <2>4. DOMAIN n.rows = DOMAIN f.rows
    BY <2>2
  <2> QED BY <2>2, <2>3, <2>4 DEF Follows, n
<1> QED BY <1>4, <1>5

\* Without a plan a record follows.
LEMMA SameFollows ==
  ASSUME NEW f \in FdeType
  PROVE  Follows(f, f, <<>>)
<1>1. f.begin \in Nat /\ f.range \in Nat /\ FdeEnd(f) = f.begin + f.range
  BY DEF FdeType, FdeEnd
<1>2. Where(f.begin, <<>>) = f.begin
  BY <1>1, EmptyPlan
<1>3. ASSUME NEW b \in f.begin..(FdeEnd(f) - 1)
      PROVE  Where(b, <<>>) = b
  <2>1. b \in Int
    BY <1>1
  <2> QED BY <2>1, EmptyPlan
<1> QED BY <1>2, <1>3 DEF Follows


-----------------------------------------------------------------------------
(* The pipeline. *)

\* The references, records and program headers of the image follow the plan.
Carried(p) ==
  /\ Fits(p)
  /\ RefsUnderstood => /\ DOMAIN refs = DOMAIN InputRefs
                       /\ \A x \in DOMAIN InputRefs : Aims(refs[x], InputRefs[x], p)
  /\ DOMAIN fdes = DOMAIN input.fdes
  /\ \A i \in DOMAIN input.fdes :
       Apart(input.fdes[i]) => Follows(fdes[i], input.fdes[i], p)
  /\ input.is64 /\ Loadable(input.phdrs) => Maps(phdrs, page_shrink(p))

\* Everything is the input's until the patches, which carry the plan out for
\* all that refers to the bytes; then the bytes follow.  When they are filled
\* in place nothing moves.
MovedInv ==
  /\ pc \notin {"compact", "done"} => refs = InputRefs /\ phdrs = input.phdrs
  /\ pc \notin {"fill", "done"} => Intact(file)
  /\ pc = "compact" => Carried(ivs)
  /\ pc = "done" => \E p \in {ivs, <<>>} : Carried(p) /\ Laid(file, p)

\* A range in front of .text leaves .text and what follows it alone.
LEMMA FillIntact ==
  ASSUME input \in Inputs, file \in Seq(Byte), Intact(file)
  PROVE  Intact(zero_fill(OtherDead))
<1>1. InPlace(file) /\ Len(file) = FileEnd
  BY DEF Intact, InPlace
<1>2. InPlace(zero_fill(OtherDead))
  <2>1. OtherDead \in SUBSET (input.dead \cup Blocks)
    BY DEF OtherDead
  <2> QED BY <1>1, <2>1, FillInPlace
<1>3. ASSUME NEW i \in 1..FileEnd, ts < i
      PROVE  zero_fill(OtherDead)[i] = i - 1
  <2>1. zero_fill(OtherDead)[i]
          = IF \E d \in OtherDead : d[1] < i /\ i <= d[2] THEN Filled ELSE file[i]
    BY <1>1, <1>3 DEF zero_fill
  <2>2. \A d \in OtherDead : ~(i <= d[2])
    <3> SUFFICES ASSUME NEW d \in OtherDead PROVE ~(i <= d[2])
      OBVIOUS
    <3>1. d \in input.dead \cup Blocks /\ d[2] <= ts
      BY DEF OtherDead, lies_within
    <3>2. d \in Nat \X Nat
      BY <3>1, DeadRange
    <3>3. d[2] \in Nat /\ i \in Nat /\ ts \in Nat
      BY <3>2, TextBounds
    <3> QED BY <1>3, <3>1, <3>3
  <2>3. file[i] = i - 1
    BY <1>3 DEF Intact
  <2> QED BY <2>1, <2>2, <2>3
<1> QED BY <1>2, <1>3 DEF Intact

\* The input carries the empty plan.
LEMMA InputCarries ==
  ASSUME input \in Inputs, refs = InputRefs, fdes = input.fdes, phdrs = input.phdrs
  PROVE  Carried(<<>>)
<1>1. input.fdes \in Seq(FdeType)
  BY InputType
<1>2. ASSUME RefsUnderstood
      PROVE  \A x \in DOMAIN InputRefs : Aims(refs[x], InputRefs[x], <<>>)
  BY <1>2, SameAims
<1>3. \A i \in DOMAIN input.fdes : Follows(fdes[i], input.fdes[i], <<>>)
  <2> TAKE i \in DOMAIN input.fdes
  <2>1. input.fdes[i] \in FdeType
    <3> HIDE DEF FdeType
    <3> QED BY <1>1
  <2> QED BY <2>1, SameFollows
<1>4. Loadable(input.phdrs) => Maps(phdrs, page_shrink(<<>>))
  BY InputMapped, EmptyPlan
<1> QED BY <1>2, <1>3, <1>4, EmptyPlan DEF Carried

\* The patches carry the plan out.
LEMMA PatchesCarry ==
  ASSUME PlanInv, MovedInv, apply_patches
  PROVE  Carried(ivs)'
<1>1. /\ pc = "patch" /\ refs = InputRefs /\ phdrs = input.phdrs /\ fdes = input.fdes
      /\ input \in Inputs /\ ivs \in Seq(UnitIv(input.align, Solid))
      /\ compaction_fits(ivs, ts, te, te <= Len(file)) /\ Len(file) = FileEnd
      /\ stuck_ranges(fdes, cx) = <<>>
  BY DEF PlanInv, MovedInv, apply_patches
<1>2. /\ refs' = [x \in DOMAIN refs |-> Patched(refs[x])]
      /\ fdes' = [i \in DOMAIN fdes |-> patch_fde(fdes[i], cx)]
      /\ patch_headers /\ input' = input /\ ivs' = ivs
  BY DEF apply_patches
<1>3. Fits(ivs)
  <2>1. (te <= Len(file)) = TRUE
    BY <1>1, TextBounds
  <2>2. ivs \in Seq(TextIv)
    BY <1>1, UnitSeq, SolidType
  <2> QED BY <1>1, <2>1, <2>2 DEF Fits
<1>4. ASSUME RefsUnderstood
      PROVE  /\ DOMAIN refs' = DOMAIN InputRefs
             /\ \A x \in DOMAIN InputRefs : Aims(refs'[x], InputRefs[x], ivs)
  BY <1>1, <1>2, <1>3, <1>4, PatchedAims
<1>5. ASSUME NEW i \in DOMAIN input.fdes, Apart(input.fdes[i])
      PROVE  Follows(fdes'[i], input.fdes[i], ivs)
  <2> DEFINE f == input.fdes[i]
  <2>1. input.fdes \in Seq(FdeType)
    BY <1>1, InputType
  <2>2. f \in FdeType
    <3> HIDE DEF FdeType
    <3> QED BY <2>1
  <2>3. fde_dead(f, cx) \/ plan_shrink(f, cx)
    <3> DEFINE T == {g \in Range(fdes) : ~fde_dead(g, cx) /\ ~plan_shrink(g, cx)}
    <3>1. Range(Keep(fdes, T)) = Range(fdes) \cap T
      BY <1>1, <2>1, KeepValues
    <3>2. Keep(fdes, T) = <<>>
      BY <1>1 DEF stuck_ranges
    <3>3. Range(<<>>) = {}
      BY DEF Range
    <3>4. f \in Range(fdes)
      BY <1>1, InRange
    <3> QED BY <3>1, <3>2, <3>3, <3>4
  <2> HIDE DEF f
  <2>4. Follows(patch_fde(f, cx), f, ivs)
    BY <1>3, <1>5, <2>2, <2>3, PatchedFollows, BehindFollows DEF f, Apart
  <2>5. fdes'[i] = patch_fde(f, cx)
    BY <1>1, <1>2 DEF f
  <2> QED BY <2>4, <2>5 DEF f
<1>6. ASSUME input.is64, Loadable(input.phdrs)
      PROVE  Maps(phdrs', page_shrink(ivs))
  <2>1. CASE page_shrink(ivs) = 0
    <3>1. phdrs' = input.phdrs
      BY <1>1, <1>2, <2>1 DEF patch_headers
    <3> QED BY <1>6, <2>1, <3>1, InputMapped
  <2>2. CASE page_shrink(ivs) # 0
    <3>1. phdrs' = {patch_one_phdr(h, page_shrink(ivs)) : h \in input.phdrs}
      BY <1>1, <1>2, <1>6, <2>2 DEF patch_headers
    <3> QED BY <1>3, <1>6, <3>1, PatchedMapped
  <2> QED BY <2>1, <2>2
<1>7. DOMAIN fdes' = DOMAIN input.fdes
  BY <1>1, <1>2
<1>8. /\ Fits(ivs)' = Fits(ivs) /\ RefsUnderstood' = RefsUnderstood
      /\ Loadable(input.phdrs)' = Loadable(input.phdrs)
  BY <1>2 DEF Fits, RefsUnderstood, Loadable
<1> QED BY <1>2, <1>3, <1>4, <1>5, <1>6, <1>7, <1>8 DEF Carried, Apart, Aims, Follows, Maps, Where, te, ts


\* What the pipeline does not touch carries on.
LEMMA CarriedStays ==
  ASSUME NEW p, Carried(p), UNCHANGED <<input, refs, fdes, phdrs>>
  PROVE  Carried(p)'
BY DEF Carried, Apart, Aims, Follows, Maps, Where, Fits, RefsUnderstood, Loadable

\* The input is intact.
LEMMA InitMoved ==
  Init => MovedInv
<1> SUFFICES ASSUME Init PROVE MovedInv
  OBVIOUS
<1>1. pc = "split" /\ refs = InputRefs /\ phdrs = input.phdrs /\ file = InitialFile
  BY DEF Init
<1>2. Intact(InitialFile)
  <2>1. FileEnd \in Nat
    BY TextBounds
  <2> QED BY <2>1 DEF Intact, InPlace, InitialFile
<1> QED BY <1>1, <1>2 DEF MovedInv

\* How a rewritten image came about, for its last step.
Ends(p) == Carried(p) /\ Laid(file, p)

\* Patching, compacting and filling each leave the image the way MovedInv says;
\* the other steps do not touch it.
LEMMA NextMoved ==
  PlanInv /\ KeptInv /\ MovedInv /\ [Next]_vars => MovedInv'
<1> SUFFICES ASSUME PlanInv, KeptInv, MovedInv, [Next]_vars PROVE MovedInv'
  OBVIOUS
<1>1. input \in Inputs /\ file \in Seq(Byte)
  BY DEF PlanInv
<1>2. /\ pc \notin {"compact", "done"} => refs = InputRefs /\ phdrs = input.phdrs
      /\ pc \notin {"fill", "done"} => Intact(file)
      /\ pc = "compact" => Carried(ivs)
      /\ pc = "done" => Ends(ivs) \/ Ends(<<>>)
  BY DEF MovedInv, Ends
<1>3. ASSUME input' = input
      PROVE  Intact(file') => Intact(file)'
  <2>1. DeadBytes' = DeadBytes
    BY <1>3, SolidType
  <2> QED BY <2>1 DEF Intact, InPlace
<1>4. ASSUME NEW p, Carried(p), Laid(file', p), UNCHANGED <<input, refs, fdes, phdrs>>
      PROVE  Ends(p)'
  <2>1. DeadBytes' = DeadBytes
    BY <1>4, SolidType
  <2>2. Laid(file', p) => Laid(file, p)'
    BY <2>1 DEF Laid, Where
  <2> QED BY <1>4, <2>2, CarriedStays DEF Ends
<1>5. CASE zero_fill_ranges
  <2>1. /\ pc = "split" /\ pc' \in {"fill", "plan"} /\ input' = input
        /\ file' = zero_fill(OtherDead) /\ refs' = refs /\ phdrs' = phdrs
    BY <1>5 DEF zero_fill_ranges
  <2>2. Intact(file')
    BY <1>1, <1>2, <2>1, FillIntact
  <2> QED BY <1>2, <1>3, <2>1, <2>2 DEF MovedInv
<1>6. CASE PlanIntervals \/ unwind_safe_intervals
  <2>1. /\ pc \notin {"fill", "compact", "done"} /\ pc' \notin {"compact", "done"}
        /\ input' = input /\ file' = file /\ refs' = refs /\ phdrs' = phdrs
    <3>1. CASE PlanIntervals
      BY <3>1 DEF PlanIntervals
    <3>2. CASE unwind_safe_intervals
      BY <3>2 DEF unwind_safe_intervals
    <3> QED BY <1>6, <3>1, <3>2
  <2>2. Intact(file')
    BY <1>2, <2>1
  <2> QED BY <1>2, <1>3, <2>1, <2>2 DEF MovedInv
<1>7. CASE apply_patches
  <2>1. pc = "patch" /\ pc' = "compact" /\ input' = input /\ file' = file
    BY <1>7 DEF apply_patches
  <2>2. Carried(ivs)'
    BY <1>7, PatchesCarry
  <2>3. Intact(file')
    BY <1>2, <2>1
  <2> QED BY <1>3, <2>1, <2>2, <2>3 DEF MovedInv
<1>8. CASE compact_text
  <2>1. pc = "compact" /\ pc' = "done" /\ ivs' = ivs /\ UNCHANGED <<input, refs, fdes, phdrs>>
    BY <1>8 DEF compact_text
  <2>2. Laid(file', ivs)
    BY <1>2, <1>8, <2>1, CompactLaid
  <2>3. Carried(ivs)
    BY <1>2, <2>1
  <2>4. Ends(ivs)'
    <3>1. PICK p : p = ivs
      OBVIOUS
    <3>2. Ends(p)'
      BY <1>4, <2>1, <2>2, <2>3, <3>1
    <3>3. p = ivs'
      BY <2>1, <3>1
    <3> QED BY <3>2, <3>3 DEF Ends, Carried, Laid
  <2> QED BY <2>1, <2>4 DEF MovedInv, Ends
<1>9. CASE fill_in_place
  <2> DEFINE S == TextDead \cup (IF input.aot THEN Blocks ELSE blocks_removed)
  <2>1. /\ pc = "fill" /\ pc' = "done" /\ file' = zero_fill(S)
        /\ UNCHANGED <<input, refs, fdes, phdrs>>
    BY <1>9 DEF fill_in_place
  <2>2. S \in SUBSET (input.dead \cup Blocks)
    BY DEF TextDead, blocks_removed, blocks_within
  <2> HIDE DEF S
  <2>3. InPlace(file)
    BY <2>1 DEF KeptInv
  <2>4. InPlace(file') /\ file' \in Seq(Byte)
    BY <1>1, <2>1, <2>2, <2>3, FillInPlace, FillType
  <2>5. Laid(file', <<>>)
    BY <2>4, InPlaceLaid
  <2>6. fdes = input.fdes
    BY <2>1 DEF PlanInv
  <2>7. Carried(<<>>)
    BY <1>1, <1>2, <2>1, <2>6, InputCarries
  <2>8. Ends(<<>>)'
    BY <1>4, <2>1, <2>5, <2>7
  <2> QED BY <2>1, <2>8 DEF MovedInv, Ends
<1>10. CASE UNCHANGED vars
  <2>1. pc' = pc /\ file' = file /\ ivs' = ivs /\ UNCHANGED <<input, refs, fdes, phdrs>>
    BY <1>10 DEF vars
  <2>2. Ends(<<>>) => Ends(<<>>)'
    BY <1>4, <2>1 DEF Ends
  <2>3. ASSUME NEW p, p = ivs
        PROVE  (Carried(p) => Carried(ivs)') /\ (Ends(p) => Ends(ivs)')
    <3>1. Carried(p) => Carried(p)'
      BY <2>1, CarriedStays
    <3>2. Ends(p) => Ends(p)'
      BY <1>4, <2>1 DEF Ends
    <3>3. p = ivs'
      BY <2>1, <2>3
    <3> QED BY <3>1, <3>2, <3>3 DEF Ends, Carried, Laid
  <2>4. Intact(file) => Intact(file)'
    BY <1>3, <2>1
  <2> QED BY <1>2, <2>1, <2>2, <2>3, <2>4 DEF MovedInv, Ends
<1> QED BY <1>5, <1>6, <1>7, <1>8, <1>9, <1>10 DEF Next, Terminated


-----------------------------------------------------------------------------
(* What the rewritten image holds. *)

\* A 64-bit image that is mapped as its sections lie, and in which what looks
\* like padding is padding.
WellMapped ==
  input.is64 /\ input.lookalike = {} /\ Loadable(input.phdrs)

\* What the end of the pipeline knows of the plan it carried out.
LEMMA AtTheEnd ==
  ASSUME PlanInv, MovedInv, WellMapped, pc = "done"
  PROVE  \E p : /\ Fits(p) /\ Ends(p) /\ Maps(phdrs, page_shrink(p))
                /\ \A b \in Solid : ~in_dead_range(b, p)
<1>1. ASSUME NEW p \in {ivs, <<>>}, Ends(p)
      PROVE  Fits(p) /\ Maps(phdrs, page_shrink(p)) /\ \A b \in Solid : ~in_dead_range(b, p)
  <2>1. Fits(p) /\ Maps(phdrs, page_shrink(p))
    BY <1>1 DEF Ends, Carried, WellMapped
  <2>2. p \in Seq(UnitIv(input.align, Solid))
    <3>1. ivs \in Seq(UnitIv(input.align, Solid))
      BY DEF PlanInv
    <3>2. <<>> \in Seq(UnitIv(input.align, Solid))
      OBVIOUS
    <3> QED BY <1>1, <3>1, <3>2, Zenon
  <2>3. \A b \in Solid : ~in_dead_range(b, p)
    BY <2>2 DEF in_dead_range, UnitIv
  <2> QED BY <2>1, <2>3
<1>2. \E p \in {ivs, <<>>} : Ends(p)
  BY DEF MovedInv, Ends
<1> QED BY <1>1, <1>2

\* The first code byte from an offset on.
LEMMA Survivor ==
  ASSUME input \in Inputs, FileEnd - 1 \notin input.pad, NEW o \in 0..(FileEnd - 1)
  PROVE  LET s == Min({b \in Solid : b >= o}) IN s \in Solid /\ s \in Nat /\ o <= s
<1> DEFINE S == {b \in Solid : b >= o}
<1>1. Solid \in SUBSET Nat /\ FileEnd \in Nat /\ 0 < FileEnd
  BY SolidType, TextBounds
<1>2. FileEnd - 1 \in S
  <2>1. FileEnd - 1 \in 0..(FileEnd - 1) /\ FileEnd - 1 >= o
    BY <1>1
  <2> QED BY <2>1, TableStays DEF Solid
<1>3. PICK x \in S : \A y \in S : x <= y
  <2>1. S \in SUBSET Nat /\ S # {}
    BY <1>1, <1>2
  <2> HIDE DEF S
  <2> QED BY <2>1, LeastExists
<1>4. Min(S) \in S
  <2> HIDE DEF S
  <2> QED BY <1>3 DEF Min
<1>5. ASSUME NEW s \in S
      PROVE  s \in Solid /\ s \in Nat /\ o <= s
  BY <1>1
<1> HIDE DEF S
<1>6. Min(S) \in Solid /\ Min(S) \in Nat /\ o <= Min(S)
  BY <1>4, <1>5
<1> QED BY <1>6 DEF S

\* Where a removed byte was, the next byte that stays has come to lie.
LEMMA NextAfter ==
  ASSUME NEW p, Fits(p), NEW o \in Nat, in_dead_range(o, p),
         NEW s \in Nat, o <= s, s < te, ~in_dead_range(s, p)
  PROVE  \E g \in o..s : ~in_dead_range(g, p) /\ ts <= g /\ g < te /\ Where(g, p) = Where(o, p)
<1> DEFINE S == {y \in Nat : o <= y /\ ~in_dead_range(y, p)}
<1>1. PICK g \in S : \A y \in S : g <= y
  <2>1. S \in SUBSET Nat /\ s \in S
    OBVIOUS
  <2> HIDE DEF S
  <2> QED BY <2>1, LeastExists
<1>2. g \in Nat /\ o <= g /\ ~in_dead_range(g, p) /\ g <= s
  BY <1>1
<1>3. ts \in Nat /\ te \in Nat /\ ts <= o
  BY TextBounds, ShiftEnds
<1>4. \A z \in o..(g - 1) : in_dead_range(z, p)
  <2> TAKE z \in o..(g - 1)
  <2>1. z \in Nat /\ o <= z /\ ~(g <= z)
    BY <1>2
  <2>2. z \notin S
    <3> HIDE DEF S
    <3> QED BY <1>1, <2>1
  <2> QED BY <2>1, <2>2
<1>5. o - shift_at(o, p) = g - shift_at(g, p)
  <2>1. o \in Int /\ g \in Int
    BY <1>2
  <2> QED BY <1>2, <1>4, <2>1, ShiftBetween
<1>6. Where(o, p) = o - shift_at(o, p) /\ Where(g, p) = g - shift_at(g, p)
  <2>1. o \in Int /\ g \in Int /\ o < te /\ g < te
    BY <1>2, <1>3
  <2> QED BY <2>1, WhereIs DEF Where
<1>7. g \in o..s /\ ts <= g /\ g < te
  BY <1>2, <1>3
<1> QED BY <1>2, <1>5, <1>6, <1>7

\* A reference that aims leads to the byte it led to, or to the next.
LEMMA AimedFollow ==
  ASSUME PlanInv, MovedInv, WellMapped, RefsUnderstood, FileEnd - 1 \notin input.pad, pc = "done",
         NEW r \in DOMAIN refs
  PROVE  LET place(o)    == CHOOSE a \in DOMAIN Memory : Memory[a] = o
             survivor(o) == Min({b \in Solid : b >= o})
             old  == InputRefs[r]
             goal == OldOffset(PointsTo(old, old.at))
             src  == OldOffset(old.at)
         IN /\ src \in Solid /\ goal \notin DeadBytes
            /\ goal < te => survivor(goal) < te
            => /\ Memory[PointsTo(refs[r], place(src))] \in goal..survivor(goal)
               /\ old.kind = "rela" => Memory[refs[r].at] = src
<1> DEFINE place(o)    == CHOOSE a \in DOMAIN Memory : Memory[a] = o
           survivor(o) == Min({b \in Solid : b >= o})
           old  == InputRefs[r]
           to   == PointsTo(old, old.at)
           goal == OldOffset(to)
           src  == OldOffset(old.at)
<1> SUFFICES ASSUME src \in Solid, goal \notin DeadBytes, goal < te => survivor(goal) < te
             PROVE  /\ Memory[PointsTo(refs[r], place(src))] \in goal..survivor(goal)
                    /\ old.kind = "rela" => Memory[refs[r].at] = src
  OBVIOUS
<1>1. PICK p : /\ Fits(p) /\ Ends(p) /\ Maps(phdrs, page_shrink(p))
               /\ \A b \in Solid : ~in_dead_range(b, p)
  BY AtTheEnd
<1>2. Laid(file, p) /\ r \in DOMAIN InputRefs /\ Aims(refs[r], old, p)
  BY <1>1 DEF Ends, Carried
<1>3. old.at \in Addresses /\ to \in Addresses
  BY <1>2 DEF RefsUnderstood
<1> HIDE DEF old, to
<1>4. /\ src \in 0..(FileEnd - 2) /\ AddressOf(src, 0) = old.at
      /\ goal \in 0..(FileEnd - 2) /\ AddressOf(goal, 0) = to
      /\ old.at \in Nat /\ to \in Nat
  BY <1>3, AddressType
<1>5. /\ ts \in Nat /\ te \in Nat /\ FileEnd \in Nat /\ DataGap \in Nat /\ ts < te /\ te < FileEnd
      /\ input \in Inputs
  BY TextBounds, LayoutAssumption DEF ts, te, PlanInv
<1> HIDE DEF src, goal
<1>6. src \notin DeadBytes
  BY DEF Solid
<1>7. ~in_dead_range(old.at, p)
  <2>1. CASE src < te
    <3>1. old.at = src
      BY <1>4, <1>5, <2>1 DEF AddressOf
    <3> QED BY <1>1, <3>1
  <2>2. CASE te <= src
    <3>1. te <= old.at
      BY <1>4, <1>5, <2>2 DEF AddressOf
    <3> QED BY <1>1, <1>4, <1>5, <3>1, ShiftEnds
  <2> QED BY <1>4, <1>5, <2>1, <2>2
<1>8. /\ PointsTo(refs[r], Where(old.at, p)) = Where(to, p)
      /\ old.kind = "rela" => refs[r].at = Where(old.at, p)
  BY <1>2, <1>7 DEF Aims, to
<1>9. /\ Where(old.at, p) \in DOMAIN Memory /\ Memory[Where(old.at, p)] = src
      /\ \A x \in DOMAIN Memory : Memory[x] = src => x = Where(old.at, p)
  <2>1. ~in_dead_range(src, p)
    BY <1>1
  <2> QED BY <1>1, <1>2, <1>4, <1>6, <2>1, ByteAt
<1>10. place(src) = Where(old.at, p)
  BY <1>9
<1> HIDE DEF place
<1>11. survivor(goal) \in Solid /\ survivor(goal) \in Nat /\ goal <= survivor(goal)
  <2>1. goal \in 0..(FileEnd - 1)
    BY <1>4, <1>5
  <2> QED BY <1>5, <2>1, Survivor
<1> HIDE DEF survivor
<1>12. Memory[Where(to, p)] \in goal..survivor(goal)
  <2>1. CASE ~in_dead_range(goal, p)
    <3>1. Memory[Where(to, p)] = goal
      BY <1>1, <1>2, <1>4, <2>1, ByteAt
    <3> QED BY <1>4, <1>11, <3>1
  <2>2. CASE in_dead_range(goal, p)
    <3>1. goal \in Nat /\ goal \in Int /\ p # <<>>
      BY <1>4, <2>2, EmptyPlan
    <3>2. goal < te
      BY <1>1, <1>5, <2>2, <3>1, ShiftEnds
    <3>3. survivor(goal) < te /\ ~in_dead_range(survivor(goal), p)
      BY <1>1, <1>11, <3>2
    <3>4. PICK g \in goal..survivor(goal) :
            ~in_dead_range(g, p) /\ ts <= g /\ g < te /\ Where(g, p) = Where(goal, p)
      BY <1>1, <1>11, <2>2, <3>1, <3>3, NextAfter
    <3>5. g \in 0..(FileEnd - 2) /\ AddressOf(g, 0) = g /\ to = goal
      BY <1>4, <1>5, <1>11, <3>1, <3>2, <3>4 DEF AddressOf
    <3>6. Memory[Where(g, p)] = g
      BY <1>1, <1>2, <3>1, <3>4, <3>5, ByteAt
    <3> QED BY <3>4, <3>5, <3>6
  <2> QED BY <2>1, <2>2
<1> QED BY <1>8, <1>9, <1>10, <1>12

\* The bytes of the image are what CodeBytes says when padding is padding.
LEMMA CodeIsSolid ==
  ASSUME input.lookalike = {}
  PROVE  CodeBytes = Solid
BY DEF CodeBytes, Solid

(***************************************************************************)
(* Whatever the plan removes and however many pages leave the file, the    *)
(* values the patches compute before any byte moves are right once         *)
(* compact_text has moved them: in the image as the loader maps it each    *)
(* reference leads from its slot to the byte it led to, or to the first    *)
(* byte left behind the padding it led to.                                 *)
(***************************************************************************)
THEOREM ReferencesFollow ==
  Spec => [](WellMapped /\ RefsUnderstood /\ FileEnd - 1 \notin input.pad => RefsFollow)
<1>1. Init => PlanInv /\ KeptInv /\ MovedInv
  BY InitPlan, InitKept, InitMoved
<1>2. PlanInv /\ KeptInv /\ MovedInv /\ [Next]_vars => (PlanInv /\ KeptInv /\ MovedInv)'
  BY NextPlan, NextKept, NextMoved
<1>3. PlanInv /\ MovedInv => (WellMapped /\ RefsUnderstood /\ FileEnd - 1 \notin input.pad => RefsFollow)
  <2> SUFFICES ASSUME PlanInv, MovedInv, WellMapped, RefsUnderstood,
                      FileEnd - 1 \notin input.pad, pc = "done"
               PROVE  RefsFollow
    BY DEF RefsFollow
  <2>1. CodeBytes = Solid
    BY CodeIsSolid DEF WellMapped
  <2> QED BY <2>1, AimedFollow DEF RefsFollow
<1> QED BY <1>1, <1>2, <1>3, PTL DEF Spec


\* The functions that have records end with .text or before it; or they are
\* code behind it, at the addresses that are its offsets.
PlacedFde(f) ==
  FdeEnd(f) <= te \/ (DataGap = 0 /\ te <= f.begin /\ FdeEnd(f) < FileEnd)

FdesPlaced == \A i \in DOMAIN input.fdes : PlacedFde(input.fdes[i])

(***************************************************************************)
(* An unwind record that patch_fde rewrote, its CFA rows re-spaced where   *)
(* the function lost bytes, covers every byte of the function that stayed  *)
(* and starts each row at the instruction it started at.                   *)
(***************************************************************************)
THEOREM UnwindRecordsFollow ==
  Spec => [](WellMapped /\ FdesPlaced => UnwindFollows)
<1>1. Init => PlanInv /\ KeptInv /\ MovedInv
  BY InitPlan, InitKept, InitMoved
<1>2. PlanInv /\ KeptInv /\ MovedInv /\ [Next]_vars => (PlanInv /\ KeptInv /\ MovedInv)'
  BY NextPlan, NextKept, NextMoved
<1>3. PlanInv /\ MovedInv => (WellMapped /\ FdesPlaced => UnwindFollows)
  <2> DEFINE row(f, a) == Cardinality({k \in DOMAIN f.rows : f.rows[k] <= a})
  <2> SUFFICES ASSUME PlanInv, MovedInv, WellMapped, FdesPlaced, pc = "done",
                      NEW i \in DOMAIN fdes,
                      NEW b \in CodeBytes \cap (input.fdes[i].begin..(FdeEnd(input.fdes[i]) - 1))
               PROVE  \E a \in fdes[i].begin..(FdeEnd(fdes[i]) - 1) :
                        Memory[a] = b /\ row(fdes[i], a) = row(input.fdes[i], b)
    BY DEF UnwindFollows
  <2> DEFINE old == input.fdes[i]
             f == fdes[i]
  <2>1. PICK p : /\ Fits(p) /\ Ends(p) /\ Maps(phdrs, page_shrink(p))
                 /\ \A x \in Solid : ~in_dead_range(x, p)
    BY AtTheEnd
  <2>2. Laid(file, p) /\ i \in DOMAIN input.fdes /\ Follows(f, old, p)
    BY <2>1 DEF Ends, Carried, FdesPlaced, PlacedFde, Apart
  <2>3. PlacedFde(old) /\ old.begin \in Nat /\ FdeEnd(old) \in Nat
    <3>1. input.fdes \in Seq(FdeType)
      BY InputType DEF PlanInv
    <3>2. old \in FdeType
      <4> HIDE DEF FdeType
      <4> QED BY <2>2, <3>1
    <3> QED BY <2>2, <3>2 DEF FdesPlaced, FdeType, FdeEnd
  <2>4. b \in Solid /\ b \in old.begin..(FdeEnd(old) - 1)
    BY CodeIsSolid DEF WellMapped
  <2> HIDE DEF old, f
  <2>5. ~in_dead_range(b, p) /\ b \notin DeadBytes
    BY <2>1, <2>4 DEF Solid
  <2>6. b \in 0..(FileEnd - 2) /\ AddressOf(b, 0) = b
    <3>1. te \in Nat /\ FileEnd \in Nat /\ te < FileEnd
      BY TextBounds
    <3> QED BY <2>3, <2>4, <3>1 DEF AddressOf, PlacedFde
  <2>7. Memory[Where(b, p)] = b
    BY <2>1, <2>2, <2>5, <2>6, ByteAt
  <2>8. /\ Where(b, p) \in f.begin..(FdeEnd(f) - 1)
        /\ DOMAIN f.rows = DOMAIN old.rows
        /\ \A k \in DOMAIN old.rows : f.rows[k] <= Where(b, p) <=> old.rows[k] <= b
    BY <2>2, <2>4, <2>5 DEF Follows
  <2>9. {k \in DOMAIN f.rows : f.rows[k] <= Where(b, p)} = {k \in DOMAIN old.rows : old.rows[k] <= b}
    BY <2>8
  <2> QED BY <2>7, <2>8, <2>9 DEF old, f
<1> QED BY <1>1, <1>2, <1>3, PTL DEF Spec


-----------------------------------------------------------------------------
(* Functions with landing pads. *)

\* No range the analysis gave up touches the function, and it does not begin
\* with what looks like padding.
Undisturbed(f) ==
  /\ f.begin \notin input.pad
  /\ \A d \in input.dead : d[2] <= f.begin \/ FdeEnd(f) <= d[1]

\* The function up to its last byte that does not look like padding.
CoreOf(f) == {x \in f.begin..(FdeEnd(f) - 1) : \E c \in Solid : x <= c /\ c < FdeEnd(f)}

PadFunctions == {f \in Range(input.fdes) : f.lsda /\ Undisturbed(f)}

\* The code a plan cannot reach: what does not look like padding, and all
\* of a function with landing pads, the padding inside it too.
Shield == Solid \cup UNION {CoreOf(f) : f \in PadFunctions}

\* No range that was given up is empty.
RangesHold == \A r \in input.dead \cup input.blocks : r[1] < r[2]

\* The records are of functions with addresses.
LEMMA PadFunctionType ==
  ASSUME input \in Inputs, NEW f \in Range(input.fdes)
  PROVE  f \in FdeType /\ f.begin \in Nat /\ FdeEnd(f) \in Nat
<1>1. input.fdes \in Seq(FdeType)
  BY InputType
<1>2. f \in FdeType
  <2> HIDE DEF FdeType
  <2> QED BY <1>1 DEF Range
<1> QED BY <1>2 DEF FdeType, FdeEnd

\* The shield is a set of offsets that only depends on the input, and every
\* run of it ends in code.
LEMMA ShieldType ==
  ASSUME input \in Inputs
  PROVE  /\ Shield \in SUBSET Nat /\ Solid \subseteq Shield
         /\ Sealed(Shield, input.pad)
<1>1. Solid \in SUBSET Nat /\ \A x \in Solid : x \notin input.pad
  BY SolidType DEF Solid
<1>2. ASSUME NEW f \in PadFunctions
      PROVE  /\ f \in Range(input.fdes) /\ f.begin \in Nat /\ FdeEnd(f) \in Nat
             /\ f.begin \notin input.pad /\ CoreOf(f) \in SUBSET Nat /\ CoreOf(f) \subseteq Shield
  <2>1. f \in Range(input.fdes) /\ f.begin \notin input.pad
    BY DEF PadFunctions, Undisturbed
  <2>2. f.begin \in Nat /\ FdeEnd(f) \in Nat
    BY <2>1, PadFunctionType
  <2>3. CoreOf(f) \in SUBSET Nat
    BY <2>2 DEF CoreOf
  <2> QED BY <2>1, <2>2, <2>3 DEF Shield
<1>3. Shield \in SUBSET Nat /\ Solid \subseteq Shield
  BY <1>1, <1>2 DEF Shield
<1>4. ASSUME NEW x \in Shield
      PROVE  \E l, h \in Shield \ input.pad : l <= x /\ x <= h /\ l..h \subseteq Shield
  <2>1. CASE x \in Solid
    <3>1. x \in Nat /\ x \notin input.pad /\ x..x = {x}
      BY <1>1, <2>1
    <3>2. x \in Shield \ input.pad /\ x <= x /\ x..x \subseteq Shield
      BY <3>1
    <3> QED BY <3>2
  <2>2. CASE x \notin Solid
    <3>1. PICK f \in PadFunctions : x \in CoreOf(f)
      BY <2>2 DEF Shield
    <3>2. PICK c \in Solid : x <= c /\ c < FdeEnd(f)
      BY <3>1 DEF CoreOf
    <3>3. /\ f.begin \in Nat /\ FdeEnd(f) \in Nat /\ x \in Nat /\ c \in Nat /\ f.begin <= x
          /\ f.begin \notin input.pad /\ c \notin input.pad
      BY <1>1, <1>2, <3>1 DEF CoreOf
    <3>4. f.begin..c \subseteq CoreOf(f)
      <4> SUFFICES ASSUME NEW z \in f.begin..c PROVE z \in CoreOf(f)
        OBVIOUS
      <4>1. z \in f.begin..(FdeEnd(f) - 1) /\ z <= c
        BY <3>2, <3>3
      <4> QED BY <3>2, <4>1 DEF CoreOf
    <3>5. f.begin..c \subseteq Shield
      BY <1>2, <3>4
    <3>6. f.begin \in f.begin..c /\ c \in f.begin..c
      BY <3>2, <3>3
    <3>7. f.begin \in Shield \ input.pad /\ c \in Shield \ input.pad
      BY <3>3, <3>5, <3>6
    <3> QED BY <3>2, <3>3, <3>5, <3>7
  <2> QED BY <2>1, <2>2
<1> QED BY <1>3, <1>4 DEF Sealed

\* What was given up leaves the shield alone: a dead function does by the
\* choice of the functions, a dead block since retain_unwindable_blocks keeps
\* the blocks of functions with landing pads.
LEMMA ShieldedUnits ==
  ASSUME input \in Inputs, NEW r \in input.dead \cup Blocks, lies_within(r, ts, te)
  PROVE  r \in UnitIv(input.align, Shield)
<1>1. r \in UnitIv(input.align, Solid)
  BY DeadUnits
<1>2. r \in TextIv /\ (r[1] - ts) % input.align = 0 /\ (r[2] - ts) % input.align = 0
      /\ \A x \in Solid : ~(r[1] <= x /\ x < r[2])
  BY <1>1 DEF UnitIv
<1>3. r[1] \in Nat /\ r[2] \in Nat
  BY <1>2, IvType
<1>4. ASSUME NEW f \in PadFunctions, NEW x \in CoreOf(f)
      PROVE  ~(r[1] <= x /\ x < r[2])
  <2>1. f \in Range(input.fdes) /\ f.lsda /\ Undisturbed(f)
    BY DEF PadFunctions
  <2>2. f.begin \in Nat /\ FdeEnd(f) \in Nat
    BY <2>1, PadFunctionType
  <2>3. r[2] <= f.begin \/ FdeEnd(f) <= r[1]
    <3>1. CASE r \in input.dead
      BY <2>1, <3>1 DEF Undisturbed
    <3>2. CASE r \in Blocks
      BY <2>1, <3>2 DEF Blocks, retain_unwindable_blocks
    <3> QED BY <3>1, <3>2
  <2>4. x \in f.begin..(FdeEnd(f) - 1)
    BY DEF CoreOf
  <2> QED BY <1>3, <2>2, <2>3, <2>4
<1>5. \A x \in Shield : ~(r[1] <= x /\ x < r[2])
  BY <1>2, <1>4 DEF Shield
<1> QED BY <1>2, <1>5 DEF UnitIv

\* A plan made from what was given up leaves it alone as well, however far
\* the padding widens it.
LEMMA ShieldedPlan ==
  ASSUME input \in Inputs, RangesHold
  PROVE  defrag_intervals(merge_intervals(TextDead \cup blocks_within),
                          input.pad, ts, te, input.align) \in Seq(UnitIv(input.align, Shield))
<1> DEFINE al == input.align
           X == Shield
           S == TextDead \cup blocks_within
           m == merge_intervals(S)
<1>1. al \in Nat \ {0} /\ IsFiniteSet(input.dead) /\ IsFiniteSet(input.blocks)
  BY InputType
<1>2. /\ TextDead \in SUBSET input.dead /\ blocks_within \in SUBSET input.blocks
      /\ blocks_within \in SUBSET Blocks
  BY DEF TextDead, blocks_within, Blocks, retain_unwindable_blocks
<1>3. IsFiniteSet(S)
  <2>1. IsFiniteSet(TextDead) /\ IsFiniteSet(blocks_within)
    BY <1>1, <1>2, FS_Subset
  <2> QED BY <2>1, FS_Union
<1>4. S \in SUBSET UnitIv(al, X)
  <2>1. \A r \in S : r \in input.dead \cup Blocks /\ lies_within(r, ts, te)
    BY <1>2 DEF TextDead, blocks_within
  <2> HIDE DEF S
  <2>2. \A r \in S : r \in UnitIv(al, X)
    BY <2>1, ShieldedUnits
  <2> QED BY <2>2
<1>5. \A r \in S : r[1] < r[2]
  BY <1>2 DEF RangesHold
<1>6. X \in SUBSET Nat /\ Sealed(X, input.pad)
  BY ShieldType
<1> HIDE DEF S, al, X
<1>7. m \in Seq(UnitIv(al, X)) /\ \A i \in DOMAIN m : m[i][1] < m[i][2]
  BY <1>1, <1>3, <1>4, <1>5, <1>6, MergeType, MergeLong
<1> HIDE DEF m
<1>8. defrag_intervals(m, input.pad, ts, te, al) \in Seq(UnitIv(al, X))
  BY <1>1, <1>6, <1>7, DefragType
<1> QED BY <1>8 DEF al, m, S, X

\* The plan stays off the shield.
ShieldInv == RangesHold => ivs \in Seq(UnitIv(input.align, Shield))

\* The rounds of unwind_safe_intervals only cut, so every step keeps it so.
LEMMA NextShield ==
  PlanInv /\ ShieldInv /\ [Next]_vars => ShieldInv'
<1> SUFFICES ASSUME PlanInv, ShieldInv, [Next]_vars, RangesHold' PROVE ivs' \in Seq(UnitIv(input.align, Shield))'
  BY DEF ShieldInv
<1>1. input' = input
  BY DEF Next, vars, zero_fill_ranges, PlanIntervals, unwind_safe_intervals, apply_patches,
         compact_text, fill_in_place, Terminated
<1>2. RangesHold /\ Shield' = Shield
  <2>1. Solid' = Solid
    BY <1>1, SolidType
  <2>2. \A f : CoreOf(f)' = CoreOf(f)
    BY <2>1 DEF CoreOf
  <2>3. PadFunctions' = PadFunctions
    BY <1>1 DEF PadFunctions, Undisturbed
  <2> QED BY <1>1, <2>1, <2>2, <2>3 DEF Shield, RangesHold
<1>3. /\ input \in Inputs /\ input.align \in Nat \ {0} /\ input.fdes \in Seq(FdeType)
      /\ Shield \in SUBSET Nat
  BY InputType, ShieldType DEF PlanInv
<1>4. ivs \in Seq(UnitIv(input.align, Shield))
  BY <1>2 DEF ShieldInv
<1>5. ivs' \in Seq(UnitIv(input.align, Shield))
  <2>1. CASE PlanIntervals
    BY <1>2, <1>3, <2>1, ShieldedPlan DEF PlanIntervals
  <2>2. CASE unwind_safe_intervals
    <3>1. pc = "unwind" /\ (ivs' = ivs \/ ivs' = CutStuck(fdes, cx, input.align))
      BY <2>2 DEF unwind_safe_intervals
    <3>2. fdes = input.fdes /\ cx.ivs = ivs
      BY <3>1 DEF PlanInv, cx
    <3>3. CutStuck(fdes, cx, input.align) \in Seq(UnitIv(input.align, Shield))
      BY <1>3, <1>4, <3>2, RoundClears
    <3> QED BY <1>4, <3>1, <3>3
  <2>3. CASE ivs' = ivs
    BY <1>4, <2>3
  <2>4. PlanIntervals \/ unwind_safe_intervals \/ ivs' = ivs
    BY DEF Next, vars, zero_fill_ranges, apply_patches, compact_text, fill_in_place, Terminated
  <2> QED BY <2>1, <2>2, <2>3, <2>4
<1> QED BY <1>1, <1>2, <1>5


\* A function with landing pads is either left alone or given up whole.
PadFunctionsWhole ==
  \A i \in DOMAIN input.fdes :
    LET f == input.fdes[i]
    IN f.lsda => Undisturbed(f) \/ f.begin..(FdeEnd(f) - 1) \subseteq DeadBytes

\* Two bytes with nothing removed between them keep their distance.
LEMMA SameDistance ==
  ASSUME NEW p, Fits(p), NEW x \in Nat, NEW y \in Nat, x <= y, y < te \/ te <= x,
         \A z \in x..y : ~in_dead_range(z, p)
  PROVE  Where(x, p) + (y - x) = Where(y, p)
<1>1. te \in Int /\ x \in Int /\ y \in Int
  BY TextBounds
<1>2. total_shift(x, p, ts, te) = total_shift(y, p, ts, te)
  <2>1. CASE y < te
    <3>1. \A z \in x..(y - 1) : ~in_dead_range(z, p)
      <4>1. x..(y - 1) \subseteq x..y
        BY <1>1
      <4> QED BY <4>1
    <3>2. shift_at(x, p) = shift_at(y, p)
      BY <1>1, <3>1, ShiftBetween
    <3>3. x < te
      BY <1>1, <2>1
    <3> QED BY <1>1, <2>1, <3>2, <3>3, WhereIs
  <2>2. CASE te <= x
    <3>1. te <= y
      BY <1>1, <2>2
    <3> QED BY <1>1, <2>2, <3>1, WhereIs
  <2> QED BY <2>1, <2>2
<1>3. total_shift(x, p, ts, te) \in Nat
  BY <1>1, WhereIs
<1> QED BY <1>1, <1>2, <1>3 DEF Where

(***************************************************************************)
(* Call-site tables, which no patch touches, stay right: no plan takes a   *)
(* byte, not even one that looks like padding, from between the start of a *)
(* function with landing pads and any code of it, so that every such byte  *)
(* is found at the offset from the patched start of the function that it   *)
(* had from the old one.                                                   *)
(***************************************************************************)
THEOREM LandingPadsStay ==
  Spec => [](WellMapped /\ FdesPlaced /\ RangesHold /\ PadFunctionsWhole => LsdaOffsetsKept)
<1>1. Init => PlanInv /\ KeptInv /\ MovedInv /\ ShieldInv
  <2>1. Init => ShieldInv
    <3> SUFFICES ASSUME Init PROVE ivs \in Seq(UnitIv(input.align, Shield))
      BY DEF ShieldInv
    <3>1. ivs = <<>>
      BY DEF Init
    <3> QED BY <3>1
  <2> QED BY <2>1, InitPlan, InitKept, InitMoved
<1>2. PlanInv /\ KeptInv /\ MovedInv /\ ShieldInv /\ [Next]_vars
        => (PlanInv /\ KeptInv /\ MovedInv /\ ShieldInv)'
  BY NextPlan, NextKept, NextMoved, NextShield
<1>3. PlanInv /\ MovedInv /\ ShieldInv
        => (WellMapped /\ FdesPlaced /\ RangesHold /\ PadFunctionsWhole => LsdaOffsetsKept)
  <2> SUFFICES ASSUME PlanInv, MovedInv, ShieldInv,
                      WellMapped, FdesPlaced, RangesHold, PadFunctionsWhole, pc = "done",
                      NEW i \in DOMAIN fdes, input.fdes[i].lsda,
                      NEW b \in CodeBytes \cap (input.fdes[i].begin..(FdeEnd(input.fdes[i]) - 1))
               PROVE  Memory[fdes[i].begin + (b - input.fdes[i].begin)] = b
    BY DEF LsdaOffsetsKept
  <2> DEFINE old == input.fdes[i]
             f == fdes[i]
  <2>1. PICK p \in {ivs, <<>>} : Ends(p)
    BY DEF MovedInv, Ends
  <2>2. Fits(p) /\ Maps(phdrs, page_shrink(p)) /\ Laid(file, p)
        /\ i \in DOMAIN input.fdes /\ Follows(f, old, p)
    BY <2>1 DEF Ends, Carried, FdesPlaced, PlacedFde, Apart, WellMapped
  <2>3. \A x \in Shield : ~in_dead_range(x, p)
    <3>1. ivs \in Seq(UnitIv(input.align, Shield)) /\ <<>> \in Seq(UnitIv(input.align, Shield))
      BY DEF ShieldInv
    <3>2. p \in Seq(UnitIv(input.align, Shield))
      BY <2>1, <3>1, Zenon
    <3> QED BY <3>2 DEF in_dead_range, UnitIv
  <2>4. old \in Range(input.fdes) /\ old.lsda /\ PlacedFde(old) /\ input \in Inputs
    BY <2>2 DEF FdesPlaced, Range, PlanInv
  <2>5. old.begin \in Nat /\ FdeEnd(old) \in Nat
    BY <2>4, PadFunctionType
  <2>6. b \in Solid /\ b \in old.begin..(FdeEnd(old) - 1)
    BY CodeIsSolid DEF WellMapped
  <2>7. Undisturbed(old)
    <3>1. b \notin DeadBytes
      BY <2>6 DEF Solid
    <3>2. Undisturbed(old) \/ old.begin..(FdeEnd(old) - 1) \subseteq DeadBytes
      BY <2>2, <2>4 DEF PadFunctionsWhole
    <3> QED BY <2>6, <3>1, <3>2
  <2> HIDE DEF old, f
  <2>8. \A z \in old.begin..b : ~in_dead_range(z, p)
    <3> SUFFICES ASSUME NEW z \in old.begin..b PROVE z \in Shield
      BY <2>3
    <3>1. z \in old.begin..(FdeEnd(old) - 1) /\ z <= b /\ b < FdeEnd(old)
      BY <2>5, <2>6
    <3>2. z \in CoreOf(old)
      BY <2>6, <3>1 DEF CoreOf
    <3>3. old \in PadFunctions
      BY <2>4, <2>7 DEF PadFunctions
    <3> QED BY <3>2, <3>3 DEF Shield
  <2>9. /\ b \in Nat /\ b \in 0..(FileEnd - 2) /\ AddressOf(b, 0) = b
        /\ old.begin <= b /\ (b < te \/ te <= old.begin)
    <3>1. te \in Nat /\ FileEnd \in Nat /\ te < FileEnd
      BY TextBounds
    <3> QED BY <2>4, <2>5, <2>6, <3>1 DEF AddressOf, PlacedFde
  <2>10. Where(old.begin, p) + (b - old.begin) = Where(b, p)
    BY <2>2, <2>5, <2>8, <2>9, SameDistance
  <2>11. Memory[Where(b, p)] = b
    <3>1. ~in_dead_range(b, p) /\ b \notin DeadBytes
      <4>1. b \in old.begin..b
        BY <2>5, <2>9
      <4> QED BY <2>6, <2>8, <4>1 DEF Solid
    <3> QED BY <2>2, <2>9, <3>1, ByteAt
  <2>12. f.begin = Where(old.begin, p)
    BY <2>2 DEF Follows
  <2> QED BY <2>10, <2>11, <2>12 DEF old, f
<1> QED BY <1>1, <1>2, <1>3, PTL DEF Spec

=============================================================================
