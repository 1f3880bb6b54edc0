-------------------------- MODULE ElfAnalysisProofs --------------------------
(***************************************************************************)
(* Proofs about the functions found in an ELF image, for every image: the  *)
(* pieces a stripped .text is cut into do not overlap, whatever its FDEs,  *)
(* exports, calls and data are, and no FDE is split between two; and what  *)
(* the program executes after the analysis was not reported dead.          *)
(***************************************************************************)
EXTENDS ElfAnalysis, Facts

-----------------------------------------------------------------------------
(* Pieces and the map made of them. *)

\* Two ranges have no byte in common.
Apart(p, q) == p.end <= q.start \/ q.end <= p.start

\* The pieces are nonempty parts of [lo, hi) that do not overlap.
Tidy(P, lo, hi) ==
  /\ \A p \in P : /\ p.start \in Nat /\ p.end \in Nat
                  /\ lo <= p.start /\ p.start < p.end /\ p.end <= hi
  /\ \A p, q \in P : p = q \/ Apart(p, q)

\* The function of a name is one of the pieces of that name.
MadeOf(m, P) ==
  /\ DOMAIN m = {p.name : p \in P}
  /\ \A n \in DOMAIN m :
       \E p \in P : /\ p.name = n /\ m[n].addr = p.start /\ FuncEnd(m, n) = p.end
                    /\ m[n] = [addr |-> p.start, size |-> p.end - p.start, is_global |-> p.global]

LEMMA MapOfPieces ==
  ASSUME NEW lo \in Nat, NEW hi \in Nat, NEW P, Tidy(P, lo, hi),
         NEW m, m = pieces_to_map(P)
  PROVE  MadeOf(m, P)
<1> DEFINE last(n) == CHOOSE p \in P : /\ p.name = n
                                       /\ \A q \in P : q.name = n => q.start <= p.start
<1>1. m = [n \in {p.name : p \in P} |->
             [addr |-> last(n).start, size |-> last(n).end - last(n).start,
              is_global |-> last(n).global]]
  BY DEF pieces_to_map
<1>2. ASSUME NEW n \in {p.name : p \in P}
      PROVE  last(n) \in P /\ last(n).name = n
  <2> DEFINE S == {p.start : p \in {q \in P : q.name = n}}
  <2>1. S \in SUBSET (0..hi) /\ S # {}
    BY DEF Tidy
  <2>2. PICK x \in S : \A y \in S : x >= y
    <3> HIDE DEF S
    <3> QED BY <2>1, GreatestExists
  <2>3. PICK p \in P : p.name = n /\ p.start = x
    OBVIOUS
  <2>4. \A q \in P : q.name = n => q.start <= p.start
    <3> SUFFICES ASSUME NEW q \in P, q.name = n PROVE q.start <= p.start
      OBVIOUS
    <3>1. q.start \in S
      OBVIOUS
    <3>2. q.start \in Nat /\ p.start \in Nat
      BY DEF Tidy
    <3> QED BY <2>2, <2>3, <3>1, <3>2
  <2> QED BY <2>3, <2>4
<1> HIDE DEF last
<1>3. DOMAIN m = {p.name : p \in P}
  BY <1>1
<1>4. ASSUME NEW n \in DOMAIN m
      PROVE  \E p \in P : /\ p.name = n /\ m[n].addr = p.start /\ FuncEnd(m, n) = p.end
                          /\ m[n] = [addr |-> p.start, size |-> p.end - p.start, is_global |-> p.global]
  <2>1. last(n) \in P /\ last(n).name = n
    BY <1>2, <1>3, <1>4
  <2>2. m[n] = [addr |-> last(n).start, size |-> last(n).end - last(n).start,
                is_global |-> last(n).global]
    BY <1>1, <1>3
  <2>3. last(n).start \in Nat /\ last(n).end \in Nat
    BY <2>1 DEF Tidy
  <2>4. FuncEnd(m, n) = last(n).end
    BY <2>2, <2>3 DEF FuncEnd
  <2> QED BY <2>1, <2>2, <2>4
<1> QED BY <1>3, <1>4 DEF MadeOf

\* So the functions do not overlap either.
LEMMA MapTidy ==
  ASSUME NEW lo \in Nat, NEW hi \in Nat, NEW P, Tidy(P, lo, hi),
         NEW m, m = pieces_to_map(P),
         NEW k \in DOMAIN m, NEW n \in DOMAIN m
  PROVE  /\ lo <= m[n].addr /\ FuncEnd(m, n) <= hi
         /\ k = n \/ FuncEnd(m, k) <= m[n].addr \/ FuncEnd(m, n) <= m[k].addr
<1>1. MadeOf(m, P)
  BY MapOfPieces
<1>2. PICK p \in P : p.name = n /\ m[n].addr = p.start /\ FuncEnd(m, n) = p.end
  BY <1>1 DEF MadeOf
<1>3. PICK q \in P : q.name = k /\ m[k].addr = q.start /\ FuncEnd(m, k) = q.end
  BY <1>1 DEF MadeOf
<1> QED BY <1>2, <1>3 DEF Tidy, Apart

-----------------------------------------------------------------------------
(* The runs between starts. *)

\* The runs of some starts are pieces that do not overlap.
LEMMA RunsTidy ==
  ASSUME NEW starts, NEW lo \in Nat, NEW hi \in Nat, DOMAIN starts \subseteq Nat
  PROVE  /\ Tidy(Runs(starts, lo, hi), lo, hi)
         /\ \A p \in Runs(starts, lo, hi) :
              p.start \in DOMAIN starts /\ p.name = starts[p.start].name
<1> DEFINE inner == {a \in DOMAIN starts : lo <= a /\ a < hi}
           after(a) == {b \in inner : b > a} \cup {hi}
           run(a) == [start |-> a, end |-> Min(after(a)),
                      name |-> starts[a].name, global |-> starts[a].global]
<1>1. Runs(starts, lo, hi) = {run(a) : a \in inner}
  BY DEF Runs
<1>2. \A a \in inner : a \in Nat /\ lo <= a /\ a < hi /\ a \in DOMAIN starts
  OBVIOUS
<1>3. ASSUME NEW a \in inner
      PROVE  /\ Min(after(a)) \in Nat
             /\ a < Min(after(a)) /\ Min(after(a)) <= hi
             /\ \A b \in inner : b > a => Min(after(a)) <= b
  <2>1. after(a) \in SUBSET Nat /\ after(a) # {} /\ hi \in after(a)
    OBVIOUS
  <2>2. \A b \in after(a) : b > a
    OBVIOUS
  <2>3. \A b \in inner : b > a => b \in after(a)
    OBVIOUS
  <2> HIDE DEF after
  <2>4. /\ Min(after(a)) \in after(a) /\ Min(after(a)) \in Nat
        /\ \A y \in after(a) : Min(after(a)) <= y
    BY <2>1, MinIsLeast
  <2> HIDE DEF Min, inner
  <2> QED BY <1>2, <2>1, <2>2, <2>3, <2>4
<1> HIDE DEF after, inner
<1>4. \A a \in inner : /\ run(a).start = a /\ run(a).end = Min(after(a))
                       /\ run(a).name = starts[a].name
  OBVIOUS
<1> HIDE DEF run
<1>5. \A a \in inner, b \in inner : run(a) = run(b) \/ Apart(run(a), run(b))
  <2> SUFFICES ASSUME NEW a \in inner, NEW b \in inner, a # b
               PROVE  Apart(run(a), run(b))
    OBVIOUS
  <2>1. a \in Nat /\ b \in Nat
    BY <1>2
  <2>2. CASE a < b
    BY <1>3, <1>4, <2>2 DEF Apart
  <2>3. CASE b < a
    BY <1>3, <1>4, <2>3 DEF Apart
  <2> QED BY <2>1, <2>2, <2>3
<1>6. \A a \in inner : /\ run(a).start \in Nat /\ run(a).end \in Nat
                       /\ lo <= run(a).start /\ run(a).start < run(a).end
                       /\ run(a).end <= hi
  BY <1>2, <1>3, <1>4
<1> DEFINE R == {run(a) : a \in inner}
<1>7. Tidy(R, lo, hi)
  BY <1>5, <1>6 DEF Tidy
<1>8. \A p \in R : p.start \in DOMAIN starts /\ p.name = starts[p.start].name
  BY <1>2, <1>4
<1> QED BY <1>1, <1>7, <1>8

-----------------------------------------------------------------------------
(* The spans of the FDEs. *)

\* What the FDEs cover, before overlapping ranges are merged.
RawSpans(i) == {[b |-> f.begin, e |-> FdeEnd(f)] :
                  f \in {g \in i.fdes : g.len > 0 /\ InText(g.begin)}}

\* The starts of merged ranges, and the ranges merged into the one at h.
Heads(R) == {s.b : s \in {t \in R : \A u \in R : u.b < t.b => u.e <= t.b}}
Joined(R, h) == {s \in R : s.b >= h /\ \A g \in Heads(R) : g <= s.b => g <= h}

IsSpan(s) == /\ s.b \in Nat /\ s.e \in Nat
             /\ TextStart <= s.b /\ s.b < s.e /\ s.e <= TextEnd

LEMMA RawSpansLieInText ==
  ASSUME NEW i \in Images, NEW s \in RawSpans(i)
  PROVE  IsSpan(s)
<1>1. PICK f \in i.fdes : /\ f.len > 0 /\ InText(f.begin)
                          /\ s = [b |-> f.begin, e |-> FdeEnd(f)]
  BY DEF RawSpans
<1>2. f.begin \in Nat /\ f.len \in Nat /\ TextStart \in Nat /\ TextEnd \in Nat
  BY ImageAssumption
<1> DEFINE E == {f.begin + f.len, TextEnd}
<1>3. E \in SUBSET Nat /\ E # {}
  BY <1>2
<1>4. Min(E) \in E /\ \A y \in E : Min(E) <= y
  <2> HIDE DEF E
  <2> QED BY <1>3, MinIsLeast
<1>5. FdeEnd(f) = Min(E)
  BY DEF FdeEnd
<1>6. FdeEnd(f) \in Nat /\ f.begin < FdeEnd(f) /\ FdeEnd(f) <= TextEnd
  BY <1>1, <1>2, <1>4, <1>5 DEF InText
<1>7. s.b = f.begin /\ s.e = FdeEnd(f)
  BY <1>1
<1> QED BY <1>1, <1>2, <1>6, <1>7 DEF IsSpan, InText

\* The end of the merged range at head h.
SpanEnd(R, h) == Max({s.e : s \in Joined(R, h)})

LEMMA SpanEndIs ==
  ASSUME NEW R, \A s \in R : IsSpan(s), NEW h \in Heads(R)
  PROVE  /\ h \in Nat /\ TextStart <= h /\ h < SpanEnd(R, h) /\ SpanEnd(R, h) <= TextEnd
         /\ SpanEnd(R, h) \in Nat
         /\ \E s \in Joined(R, h) : s.e = SpanEnd(R, h)
         /\ \A s \in Joined(R, h) : s.e <= SpanEnd(R, h)
<1> DEFINE E == {s.e : s \in Joined(R, h)}
<1>1. PICK t \in R : t.b = h
  BY DEF Heads
<1>2. t \in Joined(R, h)
  BY <1>1 DEF Joined, IsSpan
<1>3. \A s \in Joined(R, h) : IsSpan(s)
  BY DEF Joined
<1>4. TextEnd \in Nat /\ TextStart \in Nat
  BY ImageAssumption
<1>5. E \in SUBSET (0..TextEnd) /\ t.e \in E
  BY <1>2, <1>3, <1>4 DEF IsSpan
<1>6. Max(E) \in E /\ Max(E) \in Nat /\ \A y \in E : y <= Max(E)
  <2> HIDE DEF E
  <2> QED BY <1>4, <1>5, MaxIsGreatest
<1>7. SpanEnd(R, h) = Max(E)
  BY DEF SpanEnd
<1> HIDE DEF Max
<1>8. \E s \in Joined(R, h) : s.e = SpanEnd(R, h)
  BY <1>6, <1>7
<1>9. \A s \in Joined(R, h) : s.e <= SpanEnd(R, h)
  BY <1>6, <1>7
<1>10. SpanEnd(R, h) <= TextEnd
  BY <1>3, <1>8 DEF IsSpan
<1> HIDE DEF E
<1> QED BY <1>1, <1>2, <1>3, <1>6, <1>7, <1>8, <1>9, <1>10 DEF IsSpan

\* Every range is merged into some span.
LEMMA EveryRangeJoins ==
  ASSUME NEW R, \A s \in R : IsSpan(s), NEW r \in R
  PROVE  \E h \in Heads(R) : r \in Joined(R, h)
<1> DEFINE B == {s.b : s \in R}
           H == {h \in Heads(R) : h <= r.b}
<1>1. B \in SUBSET Nat /\ B # {}
  BY DEF IsSpan
<1>2. PICK x \in B : \A y \in B : x <= y
  <2> HIDE DEF B
  <2> QED BY <1>1, LeastExists
<1>3. PICK s \in R : s.b = x
  OBVIOUS
<1>4. \A u \in R : s.b <= u.b /\ u.b \in Nat
  BY <1>2, <1>3 DEF IsSpan
<1>5. s.b \in Heads(R) /\ s.b <= r.b
  <2>1. \A u \in R : u.b < s.b => u.e <= s.b
    BY <1>4
  <2> QED BY <1>4, <2>1 DEF Heads
<1>6. r.b \in Nat /\ Heads(R) \subseteq Nat
  BY DEF Heads, IsSpan
<1>7. H \in SUBSET (0..r.b) /\ H # {}
  BY <1>5, <1>6
<1>8. PICK h \in H : \A g \in H : h >= g
  <2> HIDE DEF H
  <2> QED BY <1>6, <1>7, GreatestExists
<1>9. \A g \in Heads(R) : g <= r.b => g <= h
  BY <1>6, <1>8
<1>10. r.b >= h
  BY <1>6
<1> QED BY <1>8, <1>9, <1>10 DEF Joined

\* The spans are parts of .text that do not overlap, and cover every FDE.
SpansTidy(S) ==
  /\ \A s \in S : IsSpan(s)
  /\ \A s, u \in S : s = u \/ s.e <= u.b \/ u.e <= s.b

\* Spans of FDEs do not overlap and cover every FDE in .text.
LEMMA FdeSpans ==
  ASSUME NEW i \in Images
  PROVE  /\ SpansTidy(fde_spans(i))
         /\ \A f \in i.fdes : f.len > 0 /\ InText(f.begin) =>
              \E s \in fde_spans(i) : s.b <= f.begin /\ FdeEnd(f) <= s.e
<1> DEFINE R == RawSpans(i)
           span(h) == [b |-> h, e |-> SpanEnd(R, h)]
<1>1. fde_spans(i) = {span(h) : h \in Heads(R)}
  BY DEF fde_spans, RawSpans, Heads, Joined, SpanEnd, FdeEnd
<1>2. \A s \in R : IsSpan(s)
  BY RawSpansLieInText
<1>3. \A f \in i.fdes : f.len > 0 /\ InText(f.begin) =>
         \E r \in R : r.b = f.begin /\ r.e = FdeEnd(f)
  <2> SUFFICES ASSUME NEW f \in i.fdes, f.len > 0, InText(f.begin)
               PROVE  \E r \in R : r.b = f.begin /\ r.e = FdeEnd(f)
    OBVIOUS
  <2> DEFINE r == [b |-> f.begin, e |-> FdeEnd(f)]
  <2>1. r \in R
    BY DEF RawSpans
  <2>2. r.b = f.begin /\ r.e = FdeEnd(f)
    OBVIOUS
  <2> HIDE DEF r
  <2> QED BY <2>1, <2>2
<1> HIDE DEF R
<1>4. \A h \in Heads(R) :
        /\ h \in Nat /\ TextStart <= h /\ h < SpanEnd(R, h) /\ SpanEnd(R, h) <= TextEnd
        /\ SpanEnd(R, h) \in Nat
        /\ \E s \in Joined(R, h) : s.e = SpanEnd(R, h)
        /\ \A s \in Joined(R, h) : s.e <= SpanEnd(R, h)
  BY <1>2, SpanEndIs
<1>5. ASSUME NEW h \in Heads(R), NEW g \in Heads(R), h < g
      PROVE  SpanEnd(R, h) <= g
  <2>1. PICK s \in Joined(R, h) : s.e = SpanEnd(R, h)
    BY <1>4
  <2>2. s \in R /\ s.b \in Nat /\ ~(g <= s.b)
    BY <1>2, <1>4, <1>5, <2>1 DEF Joined, IsSpan
  <2>3. PICK t \in R : t.b = g /\ \A u \in R : u.b < t.b => u.e <= t.b
    BY DEF Heads
  <2> QED BY <1>4, <2>1, <2>2, <2>3
<1>6. \A h \in Heads(R) : span(h).b = h /\ span(h).e = SpanEnd(R, h)
  OBVIOUS
<1> HIDE DEF span
<1>7. \A h \in Heads(R) : IsSpan(span(h))
  BY <1>4, <1>6 DEF IsSpan
<1>8. \A h, g \in Heads(R) :
        span(h) = span(g) \/ span(h).e <= span(g).b \/ span(g).e <= span(h).b
  <2> SUFFICES ASSUME NEW h \in Heads(R), NEW g \in Heads(R), h # g
               PROVE  span(h).e <= span(g).b \/ span(g).e <= span(h).b
    OBVIOUS
  <2>1. h < g \/ g < h
    BY <1>4
  <2> QED BY <1>5, <1>6, <2>1
<1>9. SpansTidy(fde_spans(i))
  BY <1>1, <1>7, <1>8 DEF SpansTidy
<1>10. ASSUME NEW f \in i.fdes, f.len > 0, InText(f.begin)
       PROVE  \E s \in fde_spans(i) : s.b <= f.begin /\ FdeEnd(f) <= s.e
  <2>1. PICK r \in R : r.b = f.begin /\ r.e = FdeEnd(f)
    BY <1>3, <1>10
  <2>2. PICK h \in Heads(R) : r \in Joined(R, h)
    BY <1>2, EveryRangeJoins
  <2>3. h <= r.b /\ r.e <= SpanEnd(R, h)
    BY <1>2, <1>4, <2>2 DEF Joined, IsSpan
  <2> QED BY <1>1, <1>6, <2>1, <2>3
<1> QED BY <1>9, <1>10

-----------------------------------------------------------------------------
(* What lies between the spans. *)

\* The name of a piece depends on where it starts alone.
NameAt(starts, a) == IF a \in DOMAIN starts THEN starts[a].name ELSE <<"sub", a>>
Named(P, starts) == \A p \in P : p.name = NameAt(starts, p.start)

\* The code before the first start of a gap.
LEMMA FirstCode ==
  ASSUME NEW i \in Images, NEW lo \in Nat, NEW hi \in Nat, NEW a \in first_code(i, lo, hi)
  PROVE  a \in Nat /\ lo <= a /\ a < hi /\ first_code(i, lo, hi) = {a}
<1> DEFINE code == {c \in DOMAIN i.code : lo <= c /\ c < hi /\ ~IsPad(i.code[c])}
<1>1. first_code(i, lo, hi) = IF code = {} THEN {} ELSE {Min(code)}
  BY DEF first_code
<1>2. code \in SUBSET Nat
  BY ImageAssumption
<1>3. \A c \in code : lo <= c /\ c < hi
  OBVIOUS
<1> HIDE DEF code
<1>4. code # {} /\ a = Min(code)
  BY <1>1
<1>5. a \in code /\ a \in Nat
  BY <1>2, <1>4, MinIsLeast
<1> QED BY <1>1, <1>3, <1>4, <1>5

\* What is cut out of a gap between spans does not overlap either.
LEMMA UncoveredTidy ==
  ASSUME NEW i \in Images, NEW starts, NEW lo \in Nat, NEW hi \in Nat, lo <= hi,
         DOMAIN starts \subseteq Nat, NEW after
  PROVE  /\ Tidy(uncovered(i, starts, lo, hi, after), lo, hi)
         /\ Named(uncovered(i, starts, lo, hi, after), starts)
<1> DEFINE inner == {a \in DOMAIN starts : lo <= a /\ a < hi}
           first == Min(inner \cup {hi})
           extra == IF after THEN first_code(i, lo, first) ELSE {}
           head(a) == [start |-> a, end |-> first, name |-> <<"sub", a>>, global |-> FALSE]
           R == Runs(starts, lo, hi)
           X == {head(a) : a \in extra}
<1>1. uncovered(i, starts, lo, hi, after) = R \cup X
  BY DEF uncovered
<1>2. /\ Tidy(R, lo, hi)
      /\ \A p \in R : p.start \in DOMAIN starts /\ p.name = starts[p.start].name
  BY RunsTidy
<1>3. first \in Nat /\ lo <= first /\ first <= hi /\ \A a \in inner : first <= a
  <2> DEFINE S == inner \cup {hi}
  <2>1. S \in SUBSET Nat /\ S # {} /\ hi \in S /\ (\A a \in S : lo <= a) /\ inner \subseteq S
    OBVIOUS
  <2>2. first = Min(S)
    OBVIOUS
  <2> HIDE DEF S, first, inner
  <2>3. Min(S) \in S /\ Min(S) \in Nat /\ \A y \in S : Min(S) <= y
    BY <2>1, MinIsLeast
  <2> QED BY <2>1, <2>2, <2>3
<1>4. \A p \in R : p.start \in inner
  BY <1>2 DEF Tidy
<1>5. ASSUME NEW a \in extra
      PROVE  /\ a \in Nat /\ lo <= a /\ a < first /\ extra = {a} /\ a \notin DOMAIN starts
  <2> HIDE DEF first
  <2>1. a \in first_code(i, lo, first) /\ extra = first_code(i, lo, first)
    OBVIOUS
  <2> HIDE DEF extra
  <2>2. a \in Nat /\ lo <= a /\ a < first /\ first_code(i, lo, first) = {a}
    BY <1>3, <2>1, FirstCode
  <2>3. a \notin inner
    <3> HIDE DEF inner
    <3> QED BY <1>3, <2>2
  <2>4. a < hi
    BY <1>3, <2>2
  <2> QED BY <2>1, <2>2, <2>3, <2>4
<1> HIDE DEF R, first, extra, inner
<1>6. \A a \in extra : /\ head(a).start = a /\ head(a).end = first
                       /\ head(a).name = <<"sub", a>>
  OBVIOUS
<1>7. \A x \in X : \E a \in extra : x = head(a)
  OBVIOUS
<1>8. \A x \in X : \A y \in X : x = y
  BY <1>5, <1>7
<1> HIDE DEF head, X
<1>9. \A x \in X : /\ x.start \in Nat /\ x.end = first /\ lo <= x.start /\ x.start < first
                   /\ x.start \notin DOMAIN starts /\ x.name = <<"sub", x.start>>
  BY <1>5, <1>6, <1>7
<1>10. \A x \in X, p \in R : Apart(x, p)
  BY <1>3, <1>4, <1>9 DEF Apart
<1>11. Tidy(R \cup X, lo, hi)
  BY <1>2, <1>3, <1>8, <1>9, <1>10 DEF Tidy, Apart
<1>12. Named(R \cup X, starts)
  BY <1>2, <1>9 DEF Named, NameAt
<1> QED BY <1>1, <1>11, <1>12

-----------------------------------------------------------------------------
(* The partition. *)

\* Where the gap that starts at lo ends.
GapEnd(spans, lo) == Min({s.b : s \in {t \in spans : t.b >= lo}} \cup {TextEnd})
GapStarts(spans) == {TextStart} \cup {s.e : s \in spans}

\* No span reaches into a gap, and no gap into the next one.
LEMMA Gaps ==
  ASSUME NEW spans, SpansTidy(spans), NEW lo \in GapStarts(spans), lo <= TextEnd
  PROVE  /\ lo \in Nat /\ TextStart <= lo
         /\ GapEnd(spans, lo) \in Nat /\ lo <= GapEnd(spans, lo) /\ GapEnd(spans, lo) <= TextEnd
         /\ \A s \in spans : s.e <= lo \/ GapEnd(spans, lo) <= s.b
         /\ \A l \in GapStarts(spans) : l > lo => GapEnd(spans, lo) <= l
<1> DEFINE B == {s.b : s \in {t \in spans : t.b >= lo}} \cup {TextEnd}
<1>0. TextStart \in Nat /\ TextEnd \in Nat
  BY ImageAssumption
<1>1. \A s \in spans : /\ s.b \in Nat /\ s.e \in Nat /\ TextStart <= s.b
                       /\ s.b < s.e /\ s.e <= TextEnd
  BY DEF SpansTidy, IsSpan
<1>2. lo \in Nat /\ TextStart <= lo
  BY <1>0, <1>1 DEF GapStarts
<1>3. B \in SUBSET Nat /\ B # {} /\ TextEnd \in B /\ \A x \in B : lo <= x
  BY <1>0, <1>1, <1>2
<1>4. \A s \in spans : s.b >= lo => s.b \in B
  OBVIOUS
<1>5. GapEnd(spans, lo) = Min(B)
  BY DEF GapEnd
<1> HIDE DEF B
<1>6. Min(B) \in B /\ Min(B) \in Nat /\ \A y \in B : Min(B) <= y
  BY <1>3, MinIsLeast
<1>7. ASSUME NEW s \in spans, s.b < lo
      PROVE  s.e <= lo
  <2>1. PICK u \in spans : lo = u.e
    BY <1>0, <1>1, <1>7 DEF GapStarts
  <2>2. s = u \/ s.e <= u.b \/ u.e <= s.b
    BY DEF SpansTidy
  <2> QED BY <1>1, <1>2, <1>7, <2>1, <2>2
<1>8. \A s \in spans : s.e <= lo \/ GapEnd(spans, lo) <= s.b
  <2> SUFFICES ASSUME NEW s \in spans PROVE s.e <= lo \/ GapEnd(spans, lo) <= s.b
    OBVIOUS
  <2>1. s.b < lo \/ s.b >= lo
    BY <1>1, <1>2
  <2> QED BY <1>4, <1>5, <1>6, <1>7, <2>1
<1>9. \A l \in GapStarts(spans) : l > lo => GapEnd(spans, lo) <= l
  <2> SUFFICES ASSUME NEW l \in GapStarts(spans), l > lo PROVE GapEnd(spans, lo) <= l
    OBVIOUS
  <2>1. PICK u \in spans : l = u.e
    BY <1>0, <1>2 DEF GapStarts
  <2> QED BY <1>1, <1>2, <1>5, <1>6, <1>8, <2>1
<1> QED BY <1>2, <1>3, <1>5, <1>6, <1>8, <1>9

\* The pieces of the gap that starts at lo.
GapPieces(i, starts, spans, lo) ==
  uncovered(i, starts, lo, GapEnd(spans, lo), lo # TextStart)

\* A piece is a span or lies in a gap.
LEMMA PartitionParts ==
  ASSUME NEW i, NEW starts, NEW spans
  PROVE  partition(i, starts, spans) =
           {fde_piece(starts, s) : s \in spans}
             \cup UNION {GapPieces(i, starts, spans, lo) : lo \in GapStarts(spans)}
BY DEF partition, GapPieces, GapEnd, GapStarts

\* Nor do the pieces of a whole partition.
LEMMA PartitionTidy ==
  ASSUME NEW i \in Images, NEW starts, DOMAIN starts \subseteq Nat,
         NEW spans, SpansTidy(spans), spans # {}
  PROVE  /\ Tidy(partition(i, starts, spans), TextStart, TextEnd)
         /\ Named(partition(i, starts, spans), starts)
         /\ \A s \in spans : \E p \in partition(i, starts, spans) :
                              p.start = s.b /\ p.end = s.e
<1> DEFINE F == {fde_piece(starts, s) : s \in spans}
           G(lo) == GapPieces(i, starts, spans, lo)
           L == GapStarts(spans)
           U == UNION {G(lo) : lo \in L}
           hi(lo) == GapEnd(spans, lo)
<1>0. TextStart \in Nat /\ TextEnd \in Nat
  BY ImageAssumption
<1>1. partition(i, starts, spans) = F \cup U
  BY PartitionParts
<1>2. /\ \A s \in spans : /\ s.b \in Nat /\ s.e \in Nat /\ TextStart <= s.b
                          /\ s.b < s.e /\ s.e <= TextEnd
      /\ \A s, u \in spans : s = u \/ s.e <= u.b \/ u.e <= s.b
  BY DEF SpansTidy, IsSpan
<1>3. \A lo \in L : lo <= TextEnd
  BY <1>0, <1>2 DEF GapStarts
<1>4. \A lo \in L : /\ lo \in Nat /\ TextStart <= lo
                    /\ hi(lo) \in Nat /\ lo <= hi(lo) /\ hi(lo) <= TextEnd
                    /\ \A s \in spans : s.e <= lo \/ hi(lo) <= s.b
                    /\ \A l \in L : l > lo => hi(lo) <= l
  BY <1>3, Gaps
<1>5. \A lo \in L : Tidy(G(lo), lo, hi(lo)) /\ Named(G(lo), starts)
  <2> SUFFICES ASSUME NEW lo \in L PROVE Tidy(G(lo), lo, hi(lo)) /\ Named(G(lo), starts)
    OBVIOUS
  <2> QED BY <1>4, UncoveredTidy DEF GapPieces
<1>6. \A p \in U : \E lo \in L : p \in G(lo)
  OBVIOUS
<1> HIDE DEF G, U, L, hi
<1>7. \A s \in spans : /\ fde_piece(starts, s).start = s.b /\ fde_piece(starts, s).end = s.e
                       /\ fde_piece(starts, s).name = NameAt(starts, s.b)
  BY DEF fde_piece, NameAt
<1>8. \A p \in F : \E s \in spans : /\ p = fde_piece(starts, s) /\ p.start = s.b /\ p.end = s.e
                                     /\ p.name = NameAt(starts, s.b)
  BY <1>7
<1>9. \A s \in spans : \E p \in F : p.start = s.b /\ p.end = s.e
  BY <1>7
<1> HIDE DEF F
<1>10. \A p \in F : /\ p.start \in Nat /\ p.end \in Nat /\ TextStart <= p.start
                    /\ p.start < p.end /\ p.end <= TextEnd
  BY <1>2, <1>8
<1>11. \A p \in U : /\ p.start \in Nat /\ p.end \in Nat /\ TextStart <= p.start
                    /\ p.start < p.end /\ p.end <= TextEnd
  <2> SUFFICES ASSUME NEW p \in U
               PROVE  /\ p.start \in Nat /\ p.end \in Nat /\ TextStart <= p.start
                      /\ p.start < p.end /\ p.end <= TextEnd
    OBVIOUS
  <2>1. PICK lo \in L : p \in G(lo)
    BY <1>6
  <2>2. /\ p.start \in Nat /\ p.end \in Nat /\ lo <= p.start
        /\ p.start < p.end /\ p.end <= hi(lo)
    BY <1>5, <2>1 DEF Tidy
  <2> QED BY <1>0, <1>4, <2>2
<1>12. \A p, q \in F : p = q \/ Apart(p, q)
  <2> SUFFICES ASSUME NEW p \in F, NEW q \in F PROVE p = q \/ Apart(p, q)
    OBVIOUS
  <2>1. PICK s \in spans : p = fde_piece(starts, s) /\ p.start = s.b /\ p.end = s.e
    BY <1>8
  <2>2. PICK u \in spans : q = fde_piece(starts, u) /\ q.start = u.b /\ q.end = u.e
    BY <1>8
  <2>3. s = u \/ s.e <= u.b \/ u.e <= s.b
    BY <1>2
  <2> QED BY <2>1, <2>2, <2>3 DEF Apart
<1>13. \A p \in F, q \in U : Apart(p, q)
  <2> SUFFICES ASSUME NEW p \in F, NEW q \in U PROVE Apart(p, q)
    OBVIOUS
  <2>1. PICK s \in spans : p.start = s.b /\ p.end = s.e
    BY <1>8
  <2>2. PICK lo \in L : q \in G(lo)
    BY <1>6
  <2>3. q.start \in Nat /\ q.end \in Nat /\ lo <= q.start /\ q.end <= hi(lo)
    BY <1>5, <2>2 DEF Tidy
  <2>4. s.e <= lo \/ hi(lo) <= s.b
    BY <1>4
  <2>5. lo \in Nat /\ hi(lo) \in Nat /\ s.e \in Nat /\ s.b \in Nat
    BY <1>2, <1>4
  <2> QED BY <2>1, <2>3, <2>4, <2>5 DEF Apart
<1>14. \A p, q \in U : p = q \/ Apart(p, q)
  <2> SUFFICES ASSUME NEW p \in U, NEW q \in U PROVE p = q \/ Apart(p, q)
    OBVIOUS
  <2>1. PICK lo \in L : p \in G(lo)
    BY <1>6
  <2>2. PICK l \in L : q \in G(l)
    BY <1>6
  <2>3. p.start \in Nat /\ p.end \in Nat /\ lo <= p.start /\ p.end <= hi(lo)
    BY <1>5, <2>1 DEF Tidy
  <2>4. q.start \in Nat /\ q.end \in Nat /\ l <= q.start /\ q.end <= hi(l)
    BY <1>5, <2>2 DEF Tidy
  <2>5. lo \in Nat /\ hi(lo) \in Nat /\ l \in Nat /\ hi(l) \in Nat
    BY <1>4
  <2>6. CASE lo = l
    BY <1>5, <2>1, <2>2, <2>6 DEF Tidy
  <2>7. CASE lo < l
    <3>1. hi(lo) <= l
      BY <1>4, <2>5, <2>7
    <3> QED BY <2>3, <2>4, <2>5, <3>1 DEF Apart
  <2>8. CASE l < lo
    <3>1. hi(l) <= lo
      BY <1>4, <2>5, <2>8
    <3> QED BY <2>3, <2>4, <2>5, <3>1 DEF Apart
  <2> QED BY <2>5, <2>6, <2>7, <2>8
<1>15. \A p \in F, q \in U : Apart(q, p)
  BY <1>13 DEF Apart
<1>16. Tidy(F \cup U, TextStart, TextEnd)
  BY <1>10, <1>11, <1>12, <1>13, <1>14, <1>15 DEF Tidy
<1>17. Named(F \cup U, starts)
  <2>1. \A p \in U : p.name = NameAt(starts, p.start)
    BY <1>5, <1>6 DEF Named
  <2>2. \A p \in F : p.name = NameAt(starts, p.start)
    BY <1>8
  <2> QED BY <2>1, <2>2 DEF Named
<1> QED BY <1>1, <1>9, <1>16, <1>17

-----------------------------------------------------------------------------
(* Names. *)

\* Where the export that took a name without a suffix lies.
FirstAddr(i, b) ==
  i.dynsyms[Min({k \in {j \in DOMAIN i.dynsyms :
                          /\ i.dynsyms[j].defined
                          /\ InText(i.dynsyms[j].addr) \/ i.dynsyms[j].addr \in InitCode} :
                   i.dynsyms[k].base = b})].addr

LEMMA ExportName ==
  ASSUME NEW i \in Images, NEW d \in get_dynamic_symbols(i)
  PROVE  \E b \in STRING :
           /\ b # "sub" /\ (b = "_start" => d.addr = i.entry) /\ d.addr \in Nat
           /\ \/ d.name = <<b, 0>> /\ d.addr = FirstAddr(i, b)
              \/ d.name = <<b, d.addr>>
<1> DEFINE code == {j \in DOMAIN i.dynsyms :
                     /\ i.dynsyms[j].defined
                     /\ InText(i.dynsyms[j].addr) \/ i.dynsyms[j].addr \in InitCode}
           first(b) == i.dynsyms[Min({k \in code : i.dynsyms[k].base = b})]
           key(e) == <<e.base, IF e.addr = first(e.base).addr THEN 0 ELSE e.addr>>
<1>1. get_dynamic_symbols(i) =
        {[name |-> key(i.dynsyms[k]), addr |-> i.dynsyms[k].addr] : k \in code}
  BY DEF get_dynamic_symbols
<1>2. \A b : FirstAddr(i, b) = first(b).addr
  BY DEF FirstAddr
<1> HIDE DEF first
<1>3. PICK k \in code : d = [name |-> key(i.dynsyms[k]), addr |-> i.dynsyms[k].addr]
  BY <1>1
<1>4. k \in DOMAIN i.dynsyms
  OBVIOUS
<1> HIDE DEF code
<1> DEFINE e == i.dynsyms[k]
<1>5. e.base \in STRING /\ e.addr \in Nat
  <2> DEFINE E == [base : STRING, addr : Nat, defined : BOOLEAN]
  <2>1. i.dynsyms \in Seq(E)
    BY ImageAssumption
  <2>2. e \in E
    <3> HIDE DEF E
    <3> QED BY <1>4, <2>1
  <2> HIDE DEF e
  <2> QED BY <2>2
<1>6. e.base # "sub" /\ (e.base = "_start" => e.addr = i.entry)
  BY <1>4, ImageAssumption
<1>7. d.addr = e.addr /\ d.name = key(e)
  BY <1>3
<1>8. \/ d.name = <<e.base, 0>> /\ d.addr = FirstAddr(i, e.base)
      \/ d.name = <<e.base, d.addr>>
  BY <1>2, <1>7
<1> HIDE DEF e
<1> QED BY <1>5, <1>6, <1>7, <1>8

\* What the piece that starts at a can be called.
LEMMA NameForms ==
  ASSUME NEW i \in Images, NEW a \in Nat, NEW name, name = NameAt(infer_starts(i), a)
  PROVE  \/ \E b \in STRING : /\ b # "sub" /\ (b = "_start" => a = i.entry)
                              /\ name = <<b, 0>> /\ a = FirstAddr(i, b)
         \/ \E b \in STRING : b # "sub" /\ name = <<b, a>>
         \/ name = <<"_start", 0>> /\ a = i.entry
         \/ name = <<"sub", a>>
<1> DEFINE dyn == {d \in get_dynamic_symbols(i) : InText(d.addr)}
           exported(x) == {d \in dyn : d.addr = x}
           given(x) == IF exported(x) # {} THEN (CHOOSE d \in exported(x) : TRUE).name
                       ELSE IF x = i.entry THEN <<"_start", 0>> ELSE <<"sub", x>>
<1>1. a \in DOMAIN infer_starts(i) => infer_starts(i)[a].name = given(a)
  BY DEF infer_starts
<1>2. CASE a \notin DOMAIN infer_starts(i)
  BY <1>2 DEF NameAt
<1>3. CASE a \in DOMAIN infer_starts(i)
  <2>1. name = given(a)
    BY <1>1, <1>3 DEF NameAt
  <2>2. CASE exported(a) = {}
    <3> HIDE DEF exported
    <3> QED BY <2>1, <2>2
  <2>3. CASE exported(a) # {}
    <3>1. PICK d \in exported(a) : name = d.name
      <4> HIDE DEF exported
      <4> QED BY <2>1, <2>3
    <3>2. d \in get_dynamic_symbols(i) /\ d.addr = a
      OBVIOUS
    <3>3. PICK b \in STRING :
            /\ b # "sub" /\ (b = "_start" => d.addr = i.entry)
            /\ \/ d.name = <<b, 0>> /\ d.addr = FirstAddr(i, b)
               \/ d.name = <<b, d.addr>>
      BY <3>2, ExportName
    <3> QED BY <3>1, <3>2, <3>3
  <2> QED BY <2>2, <2>3
<1> QED BY <1>2, <1>3

\* No two pieces have one name.
LEMMA NamesApart ==
  ASSUME NEW i \in Images, NEW a \in Nat, NEW b \in Nat, a # 0, b # 0,
         NameAt(infer_starts(i), a) = NameAt(infer_starts(i), b)
  PROVE  a = b
<1> DEFINE n == NameAt(infer_starts(i), a)
<1>0. n = NameAt(infer_starts(i), b)
  OBVIOUS
<1>1. \/ \E x \in STRING : /\ x # "sub" /\ (x = "_start" => a = i.entry)
                           /\ n = <<x, 0>> /\ a = FirstAddr(i, x)
      \/ \E x \in STRING : x # "sub" /\ n = <<x, a>>
      \/ n = <<"_start", 0>> /\ a = i.entry
      \/ n = <<"sub", a>>
  BY NameForms
<1>2. \/ \E x \in STRING : /\ x # "sub" /\ (x = "_start" => b = i.entry)
                           /\ n = <<x, 0>> /\ b = FirstAddr(i, x)
      \/ \E x \in STRING : x # "sub" /\ n = <<x, b>>
      \/ n = <<"_start", 0>> /\ b = i.entry
      \/ n = <<"sub", b>>
  <2> HIDE DEF n
  <2> QED BY <1>0, NameForms
<1> HIDE DEF n
<1> QED BY <1>1, <1>2

LEMMA StartsAreNat ==
  ASSUME NEW i \in Images
  PROVE  DOMAIN infer_starts(i) \subseteq Nat
<1> DEFINE dyn == {d \in get_dynamic_symbols(i) : InText(d.addr)}
           called == collect_call_targets(i) \cup collect_ref_targets(i)
           all == ({d.addr : d \in dyn} \cup {i.entry}) \cup called \cup scan_data_code_refs(i)
<1>1. DOMAIN infer_starts(i) = {b \in all : InText(b)}
  BY DEF infer_starts
<1>2. {d.addr : d \in dyn} \subseteq Nat
  BY ExportName
<1>3. i.entry \in Nat
  BY ImageAssumption
<1>4. called \subseteq Nat
  <2>1. \A a \in DOMAIN i.code : i.code[a].ref \subseteq Nat
    BY ImageAssumption
  <2> QED BY <2>1 DEF collect_call_targets, collect_ref_targets, targets, pc_rel_target
<1>5. scan_data_code_refs(i) \subseteq Nat
  BY ImageAssumption DEF scan_data_code_refs
<1> HIDE DEF called, dyn
<1> QED BY <1>1, <1>2, <1>3, <1>4, <1>5

-----------------------------------------------------------------------------
(* Roots. *)

IsPiece(p) == p = [start |-> p.start, end |-> p.end, name |-> p.name, global |-> p.global]

LEMMA PiecesAre ==
  ASSUME NEW i, NEW starts, NEW spans, NEW p \in partition(i, starts, spans)
  PROVE  IsPiece(p)
<1>1. \A s : IsPiece(fde_piece(starts, s))
  BY DEF IsPiece, fde_piece
<1>2. ASSUME NEW lo, NEW hi, NEW after, NEW q \in uncovered(i, starts, lo, hi, after)
      PROVE  IsPiece(q)
  <2>1. \A a, e, n, g : IsPiece([start |-> a, end |-> e, name |-> n, global |-> g])
    BY DEF IsPiece
  <2>2. \E a, e, n, g : q = [start |-> a, end |-> e, name |-> n, global |-> g]
    BY <1>2, Zenon DEF uncovered, Runs
  <2> QED BY <2>1, <2>2
<1>3. \/ \E s \in spans : p = fde_piece(starts, s)
      \/ \E lo \in GapStarts(spans) : p \in GapPieces(i, starts, spans, lo)
  BY PartitionParts
<1> QED BY <1>1, <1>2, <1>3 DEF GapPieces

\* mark_taken leaves the pieces where they are and what they are called.
LEMMA MarkTakenKeeps ==
  ASSUME NEW i, NEW P, NEW lo, NEW hi, Tidy(P, lo, hi), \A p \in P : IsPiece(p)
  PROVE  /\ Tidy(mark_taken(i, P), lo, hi)
         /\ \A p \in mark_taken(i, P) :
              \E q \in P : p.start = q.start /\ p.end = q.end /\ p.name = q.name
         /\ \A q \in P : \E p \in mark_taken(i, P) :
              p.start = q.start /\ p.end = q.end /\ p.name = q.name
<1> DEFINE inside == data_code_values(i) \cup i.personalities
           exact  == IF i.fixed THEN code_immediates(i, P) ELSE {}
           held(p) == \E a \in inside : p.start <= a /\ a < p.end
           mark(p) == [p EXCEPT !.global = @ \/ held(p) \/ p.start \in exact]
           M == {mark(p) : p \in P}
<1>1. mark_taken(i, P) = M
  BY DEF mark_taken
<1>2. \A p \in P : mark(p).start = p.start /\ mark(p).end = p.end /\ mark(p).name = p.name
  <2> HIDE DEF held, exact
  <2> QED BY DEF IsPiece
<1> HIDE DEF mark
<1>3. Tidy(M, lo, hi)
  BY <1>2 DEF Tidy, Apart
<1>4. \A p \in M : \E q \in P : p.start = q.start /\ p.end = q.end /\ p.name = q.name
  BY <1>2
<1>5. \A q \in P : \E p \in M : p.start = q.start /\ p.end = q.end /\ p.name = q.name
  BY <1>2
<1> QED BY <1>1, <1>3, <1>4, <1>5

-----------------------------------------------------------------------------
(* The functions of a stripped image. *)

\* What BoundariesExact says of a function map.
MapExact(i, m) ==
  /\ \A k, n \in DOMAIN m :
       /\ TextStart <= m[n].addr /\ FuncEnd(m, n) <= TextEnd
       /\ k = n \/ FuncEnd(m, k) <= m[n].addr \/ FuncEnd(m, n) <= m[k].addr
  /\ fde_hints(i) =>
       \A f \in i.fdes : (f.len > 0 /\ InText(f.begin)) =>
         \E n \in DOMAIN m : m[n].addr <= f.begin /\ FdeEnd(f) <= FuncEnd(m, n)

\* Functions found without FDEs.
LEMMA InferredDisjoint ==
  ASSUME NEW i \in Images, NEW k \in DOMAIN infer_functions(i), NEW n \in DOMAIN infer_functions(i)
  PROVE  /\ TextStart <= infer_functions(i)[n].addr
         /\ FuncEnd(infer_functions(i), n) <= TextEnd
         /\ \/ k = n
            \/ FuncEnd(infer_functions(i), k) <= infer_functions(i)[n].addr
            \/ FuncEnd(infer_functions(i), n) <= infer_functions(i)[k].addr
<1> DEFINE P == Runs(infer_starts(i), TextStart, TextEnd)
           m == infer_functions(i)
<1>1. TextStart \in Nat /\ TextEnd \in Nat
  BY ImageAssumption
<1>2. Tidy(P, TextStart, TextEnd)
  BY <1>1, StartsAreNat, RunsTidy
<1>3. m = pieces_to_map(P)
  BY DEF infer_functions
<1> HIDE DEF P, m
<1>4. k \in DOMAIN m /\ n \in DOMAIN m
  BY DEF m
<1>5. /\ TextStart <= m[n].addr /\ FuncEnd(m, n) <= TextEnd
      /\ k = n \/ FuncEnd(m, k) <= m[n].addr \/ FuncEnd(m, n) <= m[k].addr
  BY <1>1, <1>2, <1>3, <1>4, MapTidy
<1> QED BY <1>5 DEF m

\* Functions cut at the FDEs.
LEMMA FdeFunctionsExact ==
  ASSUME NEW i \in Images, fde_spans(i) # {}
  PROVE  MapExact(i, infer_functions_fde(i).funcs)
<1> DEFINE starts == infer_starts(i)
           spans  == fde_spans(i)
           Q == partition(i, starts, spans)
           P == mark_taken(i, Q)
           m == infer_functions_fde(i).funcs
<1>0. TextStart \in Nat \ {0} /\ TextEnd \in Nat
  BY ImageAssumption
<1>1. m = pieces_to_map(P)
  BY DEF infer_functions_fde
<1>2. /\ SpansTidy(spans)
      /\ \A f \in i.fdes : f.len > 0 /\ InText(f.begin) =>
           \E s \in spans : s.b <= f.begin /\ FdeEnd(f) <= s.e
  BY FdeSpans
<1>3. DOMAIN starts \subseteq Nat
  BY StartsAreNat
<1>4. /\ Tidy(Q, TextStart, TextEnd) /\ Named(Q, starts)
      /\ \A s \in spans : \E p \in Q : p.start = s.b /\ p.end = s.e
  <2> HIDE DEF starts, spans
  <2> QED BY <1>2, <1>3, PartitionTidy DEF spans
<1>5. \A p \in Q : IsPiece(p)
  <2> HIDE DEF starts, spans
  <2> QED BY PiecesAre
<1> HIDE DEF Q, m
<1>6. /\ Tidy(P, TextStart, TextEnd)
      /\ \A p \in P : \E q \in Q : p.start = q.start /\ p.end = q.end /\ p.name = q.name
      /\ \A q \in Q : \E p \in P : p.start = q.start /\ p.end = q.end /\ p.name = q.name
  BY <1>4, <1>5, MarkTakenKeeps
<1> HIDE DEF P
<1>7. MadeOf(m, P)
  BY <1>0, <1>1, <1>6, MapOfPieces
<1>8. \A k, n \in DOMAIN m :
        /\ TextStart <= m[n].addr /\ FuncEnd(m, n) <= TextEnd
        /\ k = n \/ FuncEnd(m, k) <= m[n].addr \/ FuncEnd(m, n) <= m[k].addr
  BY <1>0, <1>1, <1>6, MapTidy
<1>9. \A p \in P : p.start \in Nat /\ p.start # 0 /\ p.name = NameAt(starts, p.start)
  <2> HIDE DEF starts
  <2> QED BY <1>0, <1>4, <1>6 DEF Named, Tidy
<1>10. \A p, q \in P : p.name = q.name => p = q
  <2> SUFFICES ASSUME NEW p \in P, NEW q \in P, p.name = q.name PROVE p = q
    OBVIOUS
  <2>1. p.start = q.start
    BY <1>9, NamesApart
  <2>2. p = q \/ Apart(p, q)
    BY <1>6 DEF Tidy
  <2> QED BY <1>6, <2>1, <2>2 DEF Tidy, Apart
<1>11. ASSUME NEW f \in i.fdes, f.len > 0, InText(f.begin)
       PROVE  \E n \in DOMAIN m : m[n].addr <= f.begin /\ FdeEnd(f) <= FuncEnd(m, n)
  <2> HIDE DEF starts, spans
  <2>1. PICK s \in spans : s.b <= f.begin /\ FdeEnd(f) <= s.e
    BY <1>2, <1>11
  <2>2. PICK q \in Q : q.start = s.b /\ q.end = s.e
    BY <1>4
  <2>3. PICK p \in P : p.start = q.start /\ p.end = q.end
    BY <1>6
  <2>4. p.name \in DOMAIN m
    BY <1>7 DEF MadeOf
  <2>5. PICK r \in P : /\ r.name = p.name /\ m[p.name].addr = r.start
                       /\ FuncEnd(m, p.name) = r.end
    BY <1>7, <2>4 DEF MadeOf
  <2>6. r = p
    BY <1>10, <2>5
  <2> QED BY <2>1, <2>2, <2>3, <2>4, <2>5, <2>6
<1>12. MapExact(i, m)
  BY <1>8, <1>11 DEF MapExact
<1> QED BY <1>12 DEF m

\* The map of an image whose symbol table lists no function.
LEMMA StrippedExact ==
  ASSUME NEW i \in Images, DOMAIN get_functions_symtab(i) = {}
  PROVE  MapExact(i, build_func_map(i).funcs)
<1>1. DOMAIN get_functions_symtab(i) = {}
  OBVIOUS
<1>2. CASE ~fde_hints(i)
  <2>1. build_func_map(i).funcs = infer_functions(i)
    BY <1>1, <1>2 DEF build_func_map
  <2> QED BY <1>2, <2>1, InferredDisjoint DEF MapExact
<1>3. CASE fde_hints(i)
  <2>1. build_func_map(i).funcs = infer_functions_fde(i).funcs
    BY <1>1, <1>3 DEF build_func_map
  <2>2. CASE fde_spans(i) # {}
    BY <2>1, <2>2, FdeFunctionsExact
  <2>3. CASE fde_spans(i) = {}
    <3>1. build_func_map(i).funcs = infer_functions(i)
      BY <2>1, <2>3 DEF infer_functions_fde
    <3>2. \A f \in i.fdes : ~(f.len > 0 /\ InText(f.begin))
      BY <2>3, FdeSpans
    <3> QED BY <3>1, <3>2, InferredDisjoint DEF MapExact
  <2> QED BY <2>2, <2>3
<1> QED BY <1>2, <1>3

-----------------------------------------------------------------------------
(* The specification. *)

\* The functions, once found, are those of the image.
FoundInv ==
  /\ img \in Images
  /\ funcs = <<>> \/ funcs = build_func_map(img).funcs

\* Functions are found once and never change.
LEMMA FoundStep ==
  ASSUME FoundInv, [Next]_vars
  PROVE  FoundInv'
<1>1. CASE FindFunctions
  BY <1>1 DEF FoundInv, FindFunctions
<1>2. CASE Refuse
  BY <1>2 DEF FoundInv, Refuse
<1>3. CASE Analyse
  <2>1. img' = img
    BY <1>3 DEF Analyse
  <2>2. funcs' = funcs
    BY <1>3 DEF Analyse, Search!Next, Search!BuildGraph, Search!BfsStep, Search!BfsEnd,
                Search!AliasExpand, Search!find_dead, Search!Terminated, Search!image, Search!vars
  <2> QED BY <2>1, <2>2 DEF FoundInv
<1>4. CASE Enter \/ Execute \/ UNCHANGED vars
  BY <1>4 DEF FoundInv, Enter, Execute, vars, analysis
<1> QED BY <1>1, <1>2, <1>3, <1>4 DEF Next

\* build_func_map: whatever FDEs, exports, calls and data a stripped image
\* has, its functions lie in .text and do not overlap, and no trusted FDE is
\* split between functions.
THEOREM FunctionsAreExact == Spec => []BoundariesExact
<1>1. Init => FoundInv
  BY DEF Init, FoundInv
<1>2. FoundInv /\ [Next]_vars => FoundInv'
  BY FoundStep
<1>3. FoundInv => BoundariesExact
  <2> SUFFICES ASSUME FoundInv, img.symtab = <<>>
               PROVE  BoundariesExact
    BY DEF BoundariesExact
  <2>1. CASE funcs = <<>>
    <3>1. DOMAIN funcs = {}
      BY <2>1
    <3> QED BY <2>1, <3>1 DEF BoundariesExact
  <2>2. CASE funcs = build_func_map(img).funcs
    <3>1. DOMAIN get_functions_symtab(img) = {}
      BY DEF get_functions_symtab
    <3>2. MapExact(img, funcs)
      BY <2>2, <3>1, StrippedExact DEF FoundInv
    <3> QED BY <3>2 DEF MapExact, BoundariesExact
  <2> QED BY <2>1, <2>2 DEF FoundInv
<1> QED BY <1>1, <1>2, <1>3, PTL DEF Spec

-----------------------------------------------------------------------------
(***************************************************************************)
(* From here on: an image, run after the analysis, never enters a function *)
(* reported dead.  What the search promises of its live set is taken from  *)
(* ReachabilityProofs; what is shown is that the functions found and the   *)
(* references handed over account for every way the program can get from   *)
(* one instruction to the next.                                            *)
(***************************************************************************)

(***************************************************************************)
(* The images for which what runs is kept.  They differ in how functions   *)
(* are found: from symbols, from FDEs, or from starts alone.               *)
(***************************************************************************)
Stripped == DOMAIN get_functions_symtab(img) = {}
CutAtFdes == fde_hints(img) /\ fde_spans(img) # {}

\* The instruction at a is followed by the one behind it.
Continues(a) ==
  /\ img.code[a].flow \notin {"ret", "jmp", "ijmp", "halt", "int3"}
  /\ ~(is_call(img.code[a]) /\ a \in img.noreturn)

Behind(a) == a + img.code[a].len

\* Functions that hold the address are global, the runtime's, or have a start
\* that is a word of the data.
Rooted(m, a) ==
  \A n \in DOMAIN m : Contains(m, n, a) =>
    m[n].is_global \/ n \in RUNTIME_KEEP \/ m[n].addr \in ScannedWords

\* If .init, .fini or the PLT enters .text, some of that code lies in no
\* function that could be dead.
InitKept ==
  (\E t \in img.init : InText(t)) =>
    \E a \in InitCode : Rooted(build_func_map(img).funcs, a)

(***************************************************************************)
(* With FDEs: one instruction starts where the last one ended, or later;   *)
(* NOPs are entered from the instruction before them only; a call that     *)
(* ends an FDE does not return; the tables code uses are the ones the scan *)
(* reads; pointers lie where mark_taken looks for them, and immediates are *)
(* starts of functions of a fixed image.                                   *)
(***************************************************************************)
Linear ==
  \A a, b \in DOMAIN img.code : a < b => Behind(a) <= b

NopsArePadding ==
  \A a \in DOMAIN img.code : img.code[a].flow = "nop" =>
    /\ a \notin EntryPoints
    /\ \A b \in DOMAIN img.code :
         a \notin targets(img.code[b]) /\ a \notin Forms(img.code[b])

EndingCallsStay ==
  \A a \in DOMAIN img.code, f \in img.fdes :
    is_call(img.code[a]) /\ f.len > 0 /\ Behind(a) = f.begin + f.len
      => a \in img.noreturn

TablesRead ==
  \A a \in DOMAIN img.code : img.code[a].flow = "lea" =>
    \A r \in img.code[a].ref : r \in DOMAIN img.tables =>
      /\ img.tables[r] <= MAX_TABLE_ENTRIES
      /\ \A k \in 0..img.tables[r]-1 :
           /\ InText(r + img.slots[r + k])
           /\ k > 0 => r + k \notin collect_ref_targets(img)

PointersScanned ==
  \A w \in img.words : InText(w.val) =>
    w.sec \in ptr_secs(img) /\ (w.width = 8 \/ img.fixed)

ImmediatesAreStarts ==
  \A a \in DOMAIN img.code : img.code[a].flow = "imm" =>
    \A r \in img.code[a].ref : InText(r) =>
      /\ img.fixed
      /\ \E p \in partition(img, infer_starts(img), fde_spans(img)) : p.start = r

CutRegular ==
  /\ Linear /\ NopsArePadding /\ EndingCallsStay /\ TablesRead
  /\ PointersScanned /\ ImmediatesAreStarts

(***************************************************************************)
(* Without FDEs functions end at the next start: no start lies between an  *)
(* instruction and where it goes on or the cases of its switch; addresses  *)
(* that are taken otherwise than by lea are held in .data.                 *)
(***************************************************************************)
SameRun(a, b) == \A s \in DOMAIN infer_starts(img) : s <= a <=> s <= b

Immediates(i) == IF i.flow = "imm" THEN i.ref ELSE {}

Cases(i) ==
  UNION {{r + img.slots[r + k] : k \in 0..img.tables[r]-1} :
           r \in {t \in pc_rel_target(i) : t \in DOMAIN img.tables}}

PlainRegular ==
  /\ \A a \in Pointers \cup img.personalities : InText(a) => a \in scan_data_code_refs(img)
  /\ \A a \in DOMAIN img.code :
       /\ Continues(a) /\ InText(Behind(a)) => SameRun(a, Behind(a))
       /\ \A b \in Cases(img.code[a]) : InText(b) => SameRun(a, b)
       /\ \A b \in Immediates(img.code[a]) : InText(b) => b \in scan_data_code_refs(img)

(***************************************************************************)
(* With symbols: ranges coincide or are disjoint; what an instruction goes *)
(* on to lies in its function; and what is entered otherwise than by a     *)
(* branch, lea or export lies in functions that are roots.                 *)
(***************************************************************************)
SymbolsRegular ==
  LET m == build_func_map(img).funcs IN
  /\ \A k, n \in DOMAIN m :
       /\ m[n].addr > 0
       /\ \/ m[k].addr = m[n].addr /\ m[k].size = m[n].size
          \/ FuncEnd(m, k) <= m[n].addr \/ FuncEnd(m, n) <= m[k].addr
  /\ \A a \in {img.entry} \cup Pointers \cup img.personalities : InText(a) => Rooted(m, a)
  /\ \A a \in DOMAIN img.code :
       /\ Continues(a) /\ InText(Behind(a)) =>
            \A n \in DOMAIN m : Contains(m, n, Behind(a)) => Contains(m, n, a)
       /\ \A b \in Cases(img.code[a]) : InText(b) =>
            \A n \in DOMAIN m : Contains(m, n, b) => Contains(m, n, a)
       /\ \A b \in Immediates(img.code[a]) : InText(b) => Rooted(m, b)

Regular ==
  /\ InitKept
  /\ IF ~Stripped THEN SymbolsRegular ELSE IF CutAtFdes THEN CutRegular ELSE PlainRegular

-----------------------------------------------------------------------------
(* The search, with the maps and references of images. *)

AllMaps == UNION {[D -> FuncInfo] : D \in SUBSET Names}
AllRefSets == SUBSET [addr : Nat, target : Nat]

R == INSTANCE ReachabilityProofs
       WITH FuncMaps <- AllMaps, RefSets <- AllRefSets,
            WordSets <- SUBSET Nat, ManagedSets <- SUBSET Nat

\* The names and types of images are what the search assumes.
LEMMA SearchAssumptions == R!NamesAssumption /\ R!ImageAssumption
<1>1. R!NamesAssumption
  BY NamesAssumption DEF R!NamesAssumption, R!IsFiniteSet, IsFiniteSet
<1>2. \A m \in AllMaps : DOMAIN m \subseteq Names /\ m \in [DOMAIN m -> FuncInfo]
  BY DEF AllMaps
<1>3. R!FuncInfo = FuncInfo
  BY DEF R!FuncInfo, FuncInfo
<1>4. R!ImageAssumption
  BY <1>2, <1>3 DEF R!ImageAssumption, AllRefSets
<1> QED BY <1>1, <1>4

\* The steps of the analysis are steps of the search.
LEMMA SearchStep ==
  /\ Search!Next => R!Next
  /\ Search!vars = R!vars
<1> QED BY DEF Search!Next, R!Next, Search!BuildGraph, R!BuildGraph, Search!StartBfs, R!StartBfs,
       Search!Orders, R!Orders, Search!image, R!image, Search!BfsStep, R!BfsStep,
       Search!BfsEnd, R!BfsEnd, Search!AliasExpand, R!AliasExpand, Search!Aliases, R!Aliases,
       Search!find_dead, R!find_dead, Search!Terminated, R!Terminated, Search!vars, R!vars,
       Search!Ties, R!Ties, Search!Starts, R!Starts, Search!RefGraph, R!RefGraph,
       Search!resolve_addr_fast, R!resolve_addr_fast, Search!StartBelow, R!StartBelow,
       Search!FuncEnd, R!FuncEnd, Search!determine_roots, R!determine_roots,
       Search!DataRefNames, R!DataRefNames,
       Search!scan_data_for_func_addrs, R!scan_data_for_func_addrs,
       Search!managed_funcs, R!managed_funcs, Search!OrphanRefs, R!OrphanRefs,
       Search!Cardinality, R!Cardinality, Search!Range, R!Range

\* The invariant of the search is kept on images.
LEMMA SearchKeeps ==
  ASSUME R!IInv, [R!Next]_(R!vars)
  PROVE  R!IInv'
<1>1. R!TypeOK
  BY DEF R!IInv
<1>2. R!TypeOK'
  BY <1>1, SearchAssumptions, R!TypeStep DEF R!NamesAssumption, R!ImageAssumption
<1> QED BY <1>2, SearchAssumptions, R!InvStep DEF R!NamesAssumption, R!ImageAssumption

-----------------------------------------------------------------------------
(* Roots among the functions found. *)

\* Exports and the entry point are starts and roots; words of .data are starts.
LEMMA RootStarts ==
  ASSUME NEW i \in Images
  PROVE  /\ \A a \in DOMAIN infer_starts(i) : infer_starts(i)[a].global \in BOOLEAN
         /\ \A a : InText(a) /\ (a = i.entry \/ \E d \in get_dynamic_symbols(i) : d.addr = a)
              => a \in DOMAIN infer_starts(i) /\ infer_starts(i)[a].global
         /\ \A a \in scan_data_code_refs(i) : InText(a) => a \in DOMAIN infer_starts(i)
<1> DEFINE dyn    == {d \in get_dynamic_symbols(i) : InText(d.addr)}
           syms   == {d.addr : d \in dyn} \cup {i.entry}
           refd   == collect_call_targets(i) \cup collect_ref_targets(i)
           exported(a) == {d \in dyn : d.addr = a}
           name(a) == IF exported(a) # {} THEN (CHOOSE d \in exported(a) : TRUE).name
                      ELSE IF a = i.entry THEN <<"_start", 0>> ELSE <<"sub", a>>
           D == {b \in syms \cup refd \cup scan_data_code_refs(i) : InText(b)}
<1>1. infer_starts(i) = [a \in D |-> [name |-> name(a), global |-> a \in syms \/ a \notin refd]]
  BY DEF infer_starts
<1>2. \A a : InText(a) /\ (a = i.entry \/ \E d \in get_dynamic_symbols(i) : d.addr = a)
              => a \in syms /\ a \in D
  OBVIOUS
<1>3. \A a \in scan_data_code_refs(i) : InText(a) => a \in D
  OBVIOUS
<1> HIDE DEF D, syms, refd, name
<1>4. /\ DOMAIN infer_starts(i) = D
      /\ \A a \in D : infer_starts(i)[a].global = (a \in syms \/ a \notin refd)
  BY <1>1
<1>5. \A a \in D : infer_starts(i)[a].global \in BOOLEAN
  BY <1>4, Zenon
<1>6. \A a \in D : a \in syms => infer_starts(i)[a].global
  BY <1>4, Zenon
<1> QED BY <1>2, <1>3, <1>4, <1>5, <1>6, Zenon

\* A start inside a run is where the run starts.
LEMMA RunOfStart ==
  ASSUME NEW starts, NEW lo \in Nat, NEW hi \in Nat, DOMAIN starts \subseteq Nat,
         NEW p \in Runs(starts, lo, hi)
  PROVE  /\ p.start \in DOMAIN starts /\ p.global = starts[p.start].global
         /\ p.end = hi \/ p.end \in DOMAIN starts
         /\ \A a \in DOMAIN starts : p.start <= a /\ a < p.end => a = p.start
<1> DEFINE inner == {a \in DOMAIN starts : lo <= a /\ a < hi}
           run(a) == [start |-> a, end |-> Min({b \in inner : b > a} \cup {hi}),
                      name |-> starts[a].name, global |-> starts[a].global]
<1>1. Runs(starts, lo, hi) = {run(a) : a \in inner}
  BY DEF Runs
<1>2. Tidy(Runs(starts, lo, hi), lo, hi)
  BY RunsTidy
<1>3. \A a : run(a).start = a /\ run(a).global = starts[a].global
  OBVIOUS
<1>4. ASSUME NEW a \in inner PROVE run(a).end = hi \/ run(a).end \in DOMAIN starts
  <2> DEFINE E == {b \in inner : b > a} \cup {hi}
  <2>1. E \in SUBSET Nat /\ E # {} /\ \A e \in E : e = hi \/ e \in DOMAIN starts
    OBVIOUS
  <2>2. run(a).end = Min(E)
    OBVIOUS
  <2> HIDE DEF E, run
  <2> QED BY <2>1, <2>2, MinIsLeast
<1> HIDE DEF run
<1>5. PICK x \in inner : p = run(x)
  BY <1>1
<1>6. ASSUME NEW a \in DOMAIN starts, p.start <= a, a < p.end
      PROVE  a = p.start
  <2>1. p.start \in Nat /\ p.end \in Nat /\ lo <= p.start /\ p.end <= hi /\ a \in Nat
    BY <1>2 DEF Tidy
  <2>2. a \in inner
    BY <1>6, <2>1
  <2>3. run(a) \in Runs(starts, lo, hi)
    BY <1>1, <2>2
  <2>4. run(a).start < run(a).end /\ run(a).end \in Nat
    BY <1>2, <2>3 DEF Tidy
  <2>5. p = run(a) \/ Apart(p, run(a))
    BY <1>2, <2>3 DEF Tidy
  <2>6. run(a).start = a
    BY <1>3
  <2> QED BY <1>6, <2>1, <2>4, <2>5, <2>6 DEF Apart
<1> QED BY <1>3, <1>4, <1>5, <1>6

\* A piece that holds a start that is a root is a root.
LEMMA RootPiece ==
  ASSUME NEW i \in Images, NEW starts, DOMAIN starts \subseteq Nat,
         \A a \in DOMAIN starts : starts[a].global \in BOOLEAN,
         NEW spans, SpansTidy(spans), spans # {},
         NEW p \in partition(i, starts, spans)
  PROVE  /\ p.global \in BOOLEAN
         /\ \A a \in DOMAIN starts : p.start <= a /\ a < p.end /\ starts[a].global => p.global
<1>1. CASE \E s \in spans : p = fde_piece(starts, s)
  BY <1>1 DEF fde_piece
<1>2. CASE \E lo \in GapStarts(spans) : p \in GapPieces(i, starts, spans, lo)
  <2>1. PICK lo \in GapStarts(spans) : p \in GapPieces(i, starts, spans, lo)
    BY <1>2
  <2>2. lo <= TextEnd
    BY ImageAssumption DEF GapStarts, SpansTidy, IsSpan
  <2> DEFINE hi == GapEnd(spans, lo)
             inner == {a \in DOMAIN starts : lo <= a /\ a < hi}
             first == Min(inner \cup {hi})
  <2>3. lo \in Nat /\ hi \in Nat /\ lo <= hi
    BY <2>2, Gaps
  <2> HIDE DEF hi
  <2>4. p \in uncovered(i, starts, lo, hi, lo # TextStart)
    BY <2>1 DEF GapPieces, hi
  <2>5. p.start \in Nat /\ p.end \in Nat /\ lo <= p.start /\ p.start < p.end /\ p.end <= hi
    BY <2>3, <2>4, UncoveredTidy DEF Tidy
  <2>6. CASE p \in Runs(starts, lo, hi)
    <3>1. /\ p.start \in DOMAIN starts /\ p.global = starts[p.start].global
          /\ \A a \in DOMAIN starts : p.start <= a /\ a < p.end => a = p.start
      BY <2>3, <2>6, RunOfStart
    <3> QED BY <3>1
  <2>7. CASE p \notin Runs(starts, lo, hi)
    <3>1. p.end = first /\ p.global = FALSE
      BY <2>4, <2>7 DEF uncovered
    <3>2. (inner \cup {hi}) \in SUBSET Nat
      BY <2>3
    <3>3. \A a \in inner : first <= a
      <4> HIDE DEF inner
      <4> QED BY <3>2, MinIsLeast
    <3>4. ASSUME NEW a \in DOMAIN starts, p.start <= a, a < p.end PROVE FALSE
      <4>1. a \in inner
        BY <2>3, <2>5, <3>4
      <4> QED BY <2>5, <3>1, <3>3, <3>4, <4>1
    <3> QED BY <3>1, <3>4
  <2> QED BY <2>6, <2>7
<1> QED BY <1>1, <1>2, PartitionParts

\* The pieces of an image that is cut at its FDEs.
CutPieces(i) == mark_taken(i, partition(i, infer_starts(i), fde_spans(i)))

\* What makes a piece a root: a start inside it that is one, an address inside
\* it that data or a personality holds, its start as an immediate.
LEMMA CutRoots ==
  ASSUME NEW i \in Images, fde_spans(i) # {}, NEW p \in CutPieces(i)
  PROVE  /\ p.global \in BOOLEAN
         /\ \A a \in DOMAIN infer_starts(i) :
              p.start <= a /\ a < p.end /\ infer_starts(i)[a].global => p.global
         /\ \A a \in data_code_values(i) \cup i.personalities :
              p.start <= a /\ a < p.end => p.global
         /\ (i.fixed /\ p.start \in code_immediates(i, partition(i, infer_starts(i), fde_spans(i))))
              => p.global
<1> DEFINE starts == infer_starts(i)
           Q == partition(i, starts, fde_spans(i))
           inside == data_code_values(i) \cup i.personalities
           exact  == IF i.fixed THEN code_immediates(i, Q) ELSE {}
           held(q) == \E a \in inside : q.start <= a /\ a < q.end
           mark(q) == [q EXCEPT !.global = @ \/ held(q) \/ q.start \in exact]
<1>1. CutPieces(i) = {mark(q) : q \in Q}
  BY DEF CutPieces, mark_taken
<1>2. PICK q \in Q : p = mark(q)
  BY <1>1
<1>3. IsPiece(q)
  BY PiecesAre
<1>4. /\ p.start = q.start /\ p.end = q.end
      /\ p.global = (q.global \/ held(q) \/ q.start \in exact)
  <2> HIDE DEF held, exact, Q
  <2> QED BY <1>2, <1>3 DEF IsPiece
<1>5. /\ q.global \in BOOLEAN
      /\ \A a \in DOMAIN starts : q.start <= a /\ a < q.end /\ starts[a].global => q.global
  <2>1. DOMAIN starts \subseteq Nat
    BY StartsAreNat
  <2>2. \A a \in DOMAIN starts : starts[a].global \in BOOLEAN
    BY RootStarts
  <2>3. SpansTidy(fde_spans(i))
    BY FdeSpans
  <2> HIDE DEF starts
  <2> QED BY <2>1, <2>2, <2>3, RootPiece
<1>6. \A a \in inside : q.start <= a /\ a < q.end => held(q)
  OBVIOUS
<1>7. i.fixed /\ q.start \in code_immediates(i, Q) => q.start \in exact
  OBVIOUS
<1> HIDE DEF inside, held, exact, Q, starts
<1>8. p.global \in BOOLEAN
  BY <1>4, <1>5, Zenon
<1>9. q.global \/ held(q) \/ q.start \in exact => p.global
  BY <1>4, Zenon
<1>10. \A a \in DOMAIN starts : p.start <= a /\ a < p.end /\ starts[a].global => p.global
  BY <1>4, <1>5, <1>9, Zenon
<1>11. \A a \in inside : p.start <= a /\ a < p.end => p.global
  BY <1>4, <1>6, <1>9, Zenon
<1>12. i.fixed /\ p.start \in code_immediates(i, Q) => p.global
  BY <1>4, <1>7, <1>9, Zenon
<1> QED BY <1>8, <1>10, <1>11, <1>12 DEF inside, Q, starts

\* The pieces do not overlap, and the functions are made of them.
LEMMA CutMap ==
  ASSUME NEW i \in Images, fde_spans(i) # {}
  PROVE  /\ Tidy(CutPieces(i), TextStart, TextEnd)
         /\ MadeOf(infer_functions_fde(i).funcs, CutPieces(i))
         /\ \A q \in partition(i, infer_starts(i), fde_spans(i)) :
              \E p \in CutPieces(i) : p.start = q.start
         /\ infer_functions_fde(i).links =
              fallthrough_links(i, CutPieces(i), fde_spans(i)) \cup table_links(i)
<1> DEFINE starts == infer_starts(i)
           spans == fde_spans(i)
           Q == partition(i, starts, spans)
           m == infer_functions_fde(i)
<1>1. TextStart \in Nat /\ TextEnd \in Nat
  BY ImageAssumption
<1>2. /\ m.funcs = pieces_to_map(CutPieces(i))
      /\ m.links = fallthrough_links(i, CutPieces(i), spans) \cup table_links(i)
  BY DEF infer_functions_fde, CutPieces
<1>3. DOMAIN starts \subseteq Nat
  BY StartsAreNat
<1>4. SpansTidy(spans)
  BY FdeSpans
<1>5. CutPieces(i) = mark_taken(i, Q)
  BY DEF CutPieces
<1> HIDE DEF starts, m
<1>6. Tidy(Q, TextStart, TextEnd)
  <2>1. spans # {}
    OBVIOUS
  <2> HIDE DEF spans
  <2> QED BY <1>3, <1>4, <2>1, PartitionTidy
<1>7. \A q \in Q : IsPiece(q)
  BY PiecesAre
<1> HIDE DEF Q
<1>8. /\ Tidy(CutPieces(i), TextStart, TextEnd)
      /\ \A q \in Q : \E p \in CutPieces(i) : p.start = q.start
  BY <1>5, <1>6, <1>7, MarkTakenKeeps
<1>9. MadeOf(m.funcs, CutPieces(i))
  BY <1>1, <1>2, <1>8, MapOfPieces
<1> QED BY <1>2, <1>8, <1>9 DEF Q, starts, m

\* The same without FDEs.
LEMMA PlainMap ==
  ASSUME NEW i \in Images
  PROVE  /\ Tidy(Runs(infer_starts(i), TextStart, TextEnd), TextStart, TextEnd)
         /\ MadeOf(infer_functions(i), Runs(infer_starts(i), TextStart, TextEnd))
         /\ \A p \in Runs(infer_starts(i), TextStart, TextEnd) :
              /\ p.global \in BOOLEAN /\ p.start \in DOMAIN infer_starts(i)
              /\ p.global = infer_starts(i)[p.start].global
              /\ p.end = TextEnd \/ p.end \in DOMAIN infer_starts(i)
              /\ \A a \in DOMAIN infer_starts(i) : p.start <= a /\ a < p.end => a = p.start
<1> DEFINE starts == infer_starts(i)
           P == Runs(starts, TextStart, TextEnd)
<1>1. TextStart \in Nat /\ TextEnd \in Nat
  BY ImageAssumption
<1>2. DOMAIN starts \subseteq Nat /\ \A a \in DOMAIN starts : starts[a].global \in BOOLEAN
  BY StartsAreNat, RootStarts
<1>3. infer_functions(i) = pieces_to_map(P)
  BY DEF infer_functions
<1> HIDE DEF starts
<1>4. Tidy(P, TextStart, TextEnd)
  BY <1>1, <1>2, RunsTidy
<1>5. \A p \in P :
        /\ p.start \in DOMAIN starts /\ p.global = starts[p.start].global
        /\ p.end = TextEnd \/ p.end \in DOMAIN starts
        /\ \A a \in DOMAIN starts : p.start <= a /\ a < p.end => a = p.start
  BY <1>1, <1>2, RunOfStart
<1>6. \A p \in P : p.global \in BOOLEAN
  BY <1>2, <1>5
<1>7. MadeOf(infer_functions(i), P)
  BY <1>1, <1>3, <1>4, MapOfPieces
<1> QED BY <1>4, <1>5, <1>6, <1>7 DEF starts

-----------------------------------------------------------------------------
(* Types: what the search is given. *)

\* Functions made of pieces have the type the search expects.
LEMMA MadeType ==
  ASSUME NEW m, NEW P, Tidy(P, TextStart, TextEnd), MadeOf(m, P),
         \A p \in P : p.global \in BOOLEAN, NEW n \in DOMAIN m
  PROVE  m[n] \in FuncInfo
<1>1. PICK p \in P : m[n] = [addr |-> p.start, size |-> p.end - p.start, is_global |-> p.global]
  BY DEF MadeOf
<1>2. p.start \in Nat /\ p.end \in Nat /\ p.start < p.end
  BY DEF Tidy
<1>3. p.end - p.start \in Nat \ {0}
  BY <1>2
<1> QED BY <1>1, <1>2, <1>3 DEF FuncInfo

\* So have those of a symbol table.
LEMMA SymbolType ==
  ASSUME NEW i \in Images, NEW n \in DOMAIN get_functions_symtab(i)
  PROVE  get_functions_symtab(i)[n] \in FuncInfo
<1> DEFINE T == i.symtab
           syms == {k \in DOMAIN T : T[k].func /\ T[k].size > 0}
           K(x) == {k \in syms : T[k].name = x}
           last(x) == T[Max(K(x))]
           D == {T[k].name : k \in syms}
           Entry == [name : Names, func : BOOLEAN, addr : Nat, size : Nat,
                   bind : {"local", "global", "weak"}]
<1>1. get_functions_symtab(i) =
        [x \in D |-> [addr |-> last(x).addr, size |-> last(x).size,
                      is_global |-> last(x).bind # "local"]]
  BY DEF get_functions_symtab
<1>2. T \in Seq(Entry)
  BY ImageAssumption
<1> HIDE DEF T, Entry
<1>3. Len(T) \in Nat /\ DOMAIN T = 1..Len(T) /\ \A k \in DOMAIN T : T[k] \in Entry
  BY <1>2
<1>4. n \in D
  BY <1>1
<1>5. K(n) \in SUBSET (0..Len(T)) /\ K(n) # {}
  BY <1>3, <1>4
<1>6. Max(K(n)) \in K(n)
  <2> HIDE DEF K
  <2> QED BY <1>3, <1>5, MaxIsGreatest
<1>7. last(n) \in Entry /\ last(n).size > 0
  BY <1>3, <1>6
<1>8. get_functions_symtab(i)[n] = [addr |-> last(n).addr, size |-> last(n).size,
                                    is_global |-> last(n).bind # "local"]
  BY <1>1, <1>4
<1> HIDE DEF last
<1>9. last(n).addr \in Nat /\ last(n).size \in Nat \ {0}
  BY <1>7 DEF Entry
<1>10. (last(n).bind # "local") \in BOOLEAN
  OBVIOUS
<1> HIDE DEF D
<1> QED BY <1>8, <1>9, <1>10 DEF FuncInfo

\* Symbols after root_dynamic_exports.
LEMMA ExportedType ==
  ASSUME NEW i, NEW m, \A n \in DOMAIN m : m[n] \in FuncInfo,
         NEW n \in DOMAIN root_dynamic_exports(i, m)
  PROVE  /\ n \in DOMAIN m /\ root_dynamic_exports(i, m)[n] \in FuncInfo
         /\ root_dynamic_exports(i, m)[n].addr = m[n].addr
         /\ root_dynamic_exports(i, m)[n].size = m[n].size
         /\ (\E d \in get_dynamic_symbols(i) : Contains(m, n, d.addr))
              => root_dynamic_exports(i, m)[n].is_global
<1> DEFINE rooted == funcs_containing(m, {d.addr : d \in get_dynamic_symbols(i)})
           x == root_dynamic_exports(i, m)
<1>1. x = [k \in DOMAIN m |-> [m[k] EXCEPT !.is_global = @ \/ k \in rooted]]
  BY DEF root_dynamic_exports
<1>2. n \in DOMAIN m
  BY <1>1
<1>3. (\E d \in get_dynamic_symbols(i) : Contains(m, n, d.addr)) => n \in rooted
  BY <1>2 DEF funcs_containing
<1> HIDE DEF rooted, x
<1>4. /\ m[n] = [addr |-> m[n].addr, size |-> m[n].size, is_global |-> m[n].is_global]
      /\ m[n].addr \in Nat /\ m[n].size \in Nat \ {0}
  BY <1>2 DEF FuncInfo
<1>5. x[n] = [m[n] EXCEPT !.is_global = @ \/ n \in rooted]
  BY <1>1, <1>2
<1>6. /\ x[n].addr = m[n].addr /\ x[n].size = m[n].size
      /\ x[n].is_global = (m[n].is_global \/ n \in rooted)
      /\ x[n] = [addr |-> m[n].addr, size |-> m[n].size, is_global |-> (m[n].is_global \/ n \in rooted)]
  BY <1>4, <1>5
<1>7. (m[n].is_global \/ n \in rooted) \in BOOLEAN
  OBVIOUS
<1>8. x[n] \in FuncInfo
  <2> DEFINE g == m[n].is_global \/ n \in rooted
  <2>1. g \in BOOLEAN
    OBVIOUS
  <2>2. x[n] = [addr |-> m[n].addr, size |-> m[n].size, is_global |-> g]
    BY <1>6
  <2> HIDE DEF g
  <2> QED BY <1>4, <2>1, <2>2 DEF FuncInfo
<1>9. n \in rooted => x[n].is_global
  BY <1>6, Zenon
<1> QED BY <1>2, <1>3, <1>6, <1>8, <1>9 DEF x

\* However found, the functions of an image are a map of the search.
LEMMA MapType ==
  ASSUME NEW i \in Images
  PROVE  build_func_map(i).funcs \in AllMaps
<1> DEFINE m == build_func_map(i).funcs
           s == get_functions_symtab(i)
<1>1. DOMAIN m \subseteq Names
  BY ImageAssumption
<1>2. CASE DOMAIN s # {}
  <2>1. m = root_dynamic_exports(i, s)
    BY <1>2 DEF build_func_map
  <2>2. m = [n \in DOMAIN m |-> m[n]]
    BY <2>1 DEF root_dynamic_exports
  <2>3. \A n \in DOMAIN s : s[n] \in FuncInfo
    BY SymbolType
  <2> HIDE DEF m, s
  <2>4. \A n \in DOMAIN m : m[n] \in FuncInfo
    BY <2>1, <2>3, ExportedType
  <2>5. m \in [DOMAIN m -> FuncInfo]
    BY <2>2, <2>4
  <2> QED BY <1>1, <2>5 DEF AllMaps, m
<1>3. CASE DOMAIN s = {}
  <2>1. \/ m = infer_functions_fde(i).funcs /\ fde_spans(i) # {}
        \/ m = infer_functions(i)
    BY <1>3 DEF build_func_map, infer_functions_fde
  <2>2. m = [n \in DOMAIN m |-> m[n]]
    BY <1>3 DEF build_func_map, infer_functions_fde, infer_functions, pieces_to_map
  <2> HIDE DEF m, s
  <2>3. CASE m = infer_functions_fde(i).funcs /\ fde_spans(i) # {}
    <3>1. \A n \in DOMAIN m : m[n] \in FuncInfo
      BY <2>3, CutMap, CutRoots, MadeType
    <3> QED BY <1>1, <2>2, <3>1 DEF AllMaps, m
  <2>4. CASE m = infer_functions(i)
    <3>1. \A n \in DOMAIN m : m[n] \in FuncInfo
      <4> DEFINE P == Runs(infer_starts(i), TextStart, TextEnd)
      <4>1. Tidy(P, TextStart, TextEnd) /\ MadeOf(m, P) /\ \A p \in P : p.global \in BOOLEAN
        BY <2>4, PlainMap
      <4> HIDE DEF P
      <4> QED BY <4>1, MadeType
    <3> QED BY <1>1, <2>2, <3>1 DEF AllMaps, m
  <2> QED BY <2>1, <2>3, <2>4
<1> QED BY <1>2, <1>3

\* The instruction before an address is one of the image.
LEMMA FallsType ==
  ASSUME NEW i \in Images, NEW at \in Nat, NEW E, NEW a \in falls_into(i, at, E)
  PROVE  a \in DOMAIN i.code
<1> DEFINE before == {b \in DOMAIN i.code : b < at}
           real   == {b \in before : i.code[b].flow # "nop"}
<1>1. DOMAIN i.code \subseteq Nat
  BY ImageAssumption
<1>2. before \in SUBSET (0..at) /\ real \in SUBSET (0..at)
  BY <1>1
<1>3. before # {} /\ (a = Max(before) \/ (real # {} /\ a = Max(real)))
  BY DEF falls_into
<1>4. before \subseteq DOMAIN i.code /\ real \subseteq DOMAIN i.code
  OBVIOUS
<1> HIDE DEF before, real
<1> QED BY <1>2, <1>3, <1>4, MaxIsGreatest

\* The references the search is given.
LEMMA AllRefsAre ==
  ASSUME NEW L, NEW r
  PROVE  r \in AllRefs(L) <=>
           \/ \E a \in DOMAIN img.code : \E t \in targets(img.code[a]) : r = [addr |-> a, target |-> t]
           \/ \E a \in InitCode : \E t \in img.init : r = [addr |-> a, target |-> t]
           \/ r \in L
BY DEF AllRefs

\* References lead from addresses to addresses.
LEMMA RefsType ==
  ASSUME img \in Images
  PROVE  AllRefs(build_func_map(img).links) \in AllRefSets
<1> DEFINE Pair == [addr : Nat, target : Nat]
           L == build_func_map(img).links
<1>1. /\ DOMAIN img.code \subseteq Nat /\ img.init \subseteq Nat /\ InitCode \subseteq Nat
      /\ \A a \in DOMAIN img.code : img.code[a].ref \subseteq Nat
  BY ImageAssumption
<1>2. \A a \in DOMAIN img.code : targets(img.code[a]) \subseteq Nat
  BY <1>1 DEF targets
<1>3. L \subseteq Pair => AllRefs(L) \in AllRefSets
  <2> HIDE DEF L
  <2>1. ASSUME L \subseteq Pair, NEW r \in AllRefs(L)
        PROVE  r \in Pair
    <3>1. \/ \E a \in DOMAIN img.code : \E t \in targets(img.code[a]) : r = [addr |-> a, target |-> t]
          \/ \E a \in InitCode : \E t \in img.init : r = [addr |-> a, target |-> t]
          \/ r \in L
      BY <2>1, AllRefsAre
    <3>2. \A a \in Nat, t \in Nat : [addr |-> a, target |-> t] \in Pair
      OBVIOUS
    <3> HIDE DEF Pair
    <3>3. CASE \E a \in DOMAIN img.code : \E t \in targets(img.code[a]) : r = [addr |-> a, target |-> t]
      <4>1. PICK a \in DOMAIN img.code : \E t \in targets(img.code[a]) : r = [addr |-> a, target |-> t]
        BY <3>3
      <4>2. PICK t \in targets(img.code[a]) : r = [addr |-> a, target |-> t]
        BY <4>1
      <4>3. a \in Nat /\ t \in Nat
        BY <1>1, <1>2
      <4> QED BY <3>2, <4>2, <4>3
    <3>4. CASE \E a \in InitCode : \E t \in img.init : r = [addr |-> a, target |-> t]
      BY <1>1, <3>2, <3>4
    <3> QED BY <2>1, <3>1, <3>3, <3>4
  <2> HIDE DEF Pair
  <2> QED BY <2>1 DEF AllRefSets, Pair
<1>4. table_links(img) \subseteq Pair
  <2> DEFINE end(b) == Min({c \in collect_ref_targets(img) : c > b} \cup {Max(DOMAIN img.slots) + 1})
  <2>1. \A r \in table_links(img) :
          \E a \in DOMAIN img.code : \E b \in pc_rel_target(img.code[a]) :
            \E t \in table_targets(img, b, end(b)) : r = [addr |-> a, target |-> t]
    <3> HIDE DEF end
    <3> QED BY DEF table_links, end
  <2>2. ASSUME NEW b \in Nat, NEW e, NEW t \in table_targets(img, b, e)
        PROVE  t \in Nat
    <3> DEFINE entry(k) == b + img.slots[b + k]
    <3>1. PICK k \in 0..MAX_TABLE_ENTRIES-1 :
            b + k \in DOMAIN img.slots /\ (\A l \in 0..k : InText(entry(l))) /\ t = entry(k)
      BY <2>2 DEF table_targets
    <3>2. img.slots[b + k] \in Int
      BY <3>1, ImageAssumption
    <3>3. t \in Int /\ k \in Nat
      BY <3>1, <3>2
    <3>4. InText(t)
      BY <3>1, <3>3
    <3> QED BY <3>3, <3>4, ImageAssumption DEF InText
  <2>3. \A a \in DOMAIN img.code : pc_rel_target(img.code[a]) \subseteq Nat
    BY <1>1 DEF pc_rel_target
  <2> HIDE DEF end
  <2> QED BY <1>1, <2>1, <2>2, <2>3
<1>5. CASE L = {}
  BY <1>3, <1>5
<1>6. CASE L # {}
  <2>1. fde_spans(img) # {} /\ L = infer_functions_fde(img).links
    BY <1>6 DEF build_func_map, infer_functions_fde
  <2> DEFINE P == CutPieces(img)
             E == {s.e : s \in fde_spans(img)}
  <2>2. /\ Tidy(P, TextStart, TextEnd)
        /\ L = fallthrough_links(img, P, fde_spans(img)) \cup table_links(img)
    BY <2>1, CutMap
  <2>3. \A p \in P : p.start \in Nat
    BY <2>2 DEF Tidy
  <2> HIDE DEF P
  <2>4. \A r \in fallthrough_links(img, P, fde_spans(img)) :
          \E p \in P : \E a \in falls_into(img, p.start, E) : r = [addr |-> a, target |-> p.start]
    BY DEF fallthrough_links
  <2> HIDE DEF E
  <2>5. fallthrough_links(img, P, fde_spans(img)) \subseteq Pair
    BY <1>1, <2>3, <2>4, FallsType
  <2> HIDE DEF L
  <2>6. L \subseteq Pair
    BY <1>4, <2>2, <2>5
  <2> QED BY <1>3, <2>6 DEF L
<1> QED BY <1>5, <1>6

\* Words are addresses.
LEMMA WordsType ==
  ASSUME img \in Images
  PROVE  ScannedWords \subseteq Nat
BY ImageAssumption DEF ScannedWords

-----------------------------------------------------------------------------
(* What the search promises. *)

\* The search under way is that of the image.
Searched ==
  /\ funcs = build_func_map(img).funcs
  /\ refs = AllRefs(build_func_map(img).links)
  /\ words = ScannedWords
  /\ R!IInv

\* Every function that holds the address is live.
Safe(a) == \A n \in DOMAIN funcs : Contains(funcs, n, a) => n \in live

\* Functions coincide or are disjoint, which RemovalSound's argument needs.
LEMMA FuncsFlat ==
  ASSUME img \in Images, Regular, funcs = build_func_map(img).funcs
  PROVE  R!Flat(funcs) /\ \A n \in DOMAIN funcs : funcs[n].addr > 0
<1>1. CASE Stripped
  <2>1. MapExact(img, funcs)
    BY <1>1, StrippedExact DEF Stripped
  <2>2. TextStart \in Nat \ {0}
    BY ImageAssumption
  <2>3. \A n \in DOMAIN funcs : TextStart <= funcs[n].addr
    BY <2>1 DEF MapExact
  <2>4. R!Flat(funcs)
    BY <2>1 DEF MapExact, R!Flat, R!FuncEnd, FuncEnd
  <2>5. \A n \in DOMAIN funcs : funcs[n].addr \in Nat
    BY MapType DEF AllMaps, FuncInfo
  <2> QED BY <2>2, <2>3, <2>4, <2>5
<1>2. CASE ~Stripped
  BY <1>2 DEF Regular, SymbolsRegular, R!Flat, R!FuncEnd, FuncEnd
<1> QED BY <1>1, <1>2

\* Roots are live, and what live code refers to is live.
LEMMA LiveHolds ==
  ASSUME img \in Images, Regular, Searched, pc = "done"
  PROVE  /\ \A n \in DOMAIN funcs : n \in RUNTIME_KEEP \/ funcs[n].is_global \/ funcs[n].addr \in words
                                    => n \in live
         /\ \A r \in refs : Safe(r.addr) => Safe(r.target)
<1>1. R!Flat(funcs)
  BY FuncsFlat DEF Searched
<1>2. R!ReachClosed(live)
  BY <1>1, SearchAssumptions, R!LiveReachClosed DEF Searched, R!NamesAssumption, R!ImageAssumption
<1>3. \A n, a : R!Contains(funcs, n, a) = Contains(funcs, n, a)
  BY DEF R!Contains, Contains, R!FuncEnd, FuncEnd
<1>4. ASSUME NEW r \in refs, Safe(r.addr)
      PROVE  Safe(r.target)
  <2>1. R!RunsFrom(live, r)
    BY <1>3, <1>4 DEF R!RunsFrom, Safe
  <2> QED BY <1>2, <1>3, <2>1 DEF R!ReachClosed, Safe
<1> QED BY <1>2, <1>4 DEF R!ReachClosed

-----------------------------------------------------------------------------
(* How the program gets from one instruction to the next. *)

\* The analysis has ended and was given the image.
Analysed == img \in Images /\ Regular /\ Searched /\ pc = "done"

\* An address all of whose functions are roots is live.
LEMMA RootedSafe ==
  ASSUME Analysed, NEW a, Rooted(funcs, a)
  PROVE  Safe(a)
BY LiveHolds DEF Analysed, Searched, Rooted, Safe

\* So is what an instruction, a link or code outside .text refers to.
LEMMA ReferredSafe ==
  ASSUME Analysed, NEW a, Safe(a), NEW t,
         \/ a \in DOMAIN img.code /\ t \in targets(img.code[a])
         \/ [addr |-> a, target |-> t] \in build_func_map(img).links
         \/ a \in InitCode /\ t \in img.init
  PROVE  Safe(t)
<1> DEFINE r == [addr |-> a, target |-> t]
           L == build_func_map(img).links
<1>1. r.addr = a /\ r.target = t
  OBVIOUS
<1>2. r \in AllRefs(L)
  <2>1. CASE a \in DOMAIN img.code /\ t \in targets(img.code[a])
    BY <2>1, AllRefsAre
  <2>2. CASE r \in L
    <3> HIDE DEF r, L
    <3> QED BY <2>2, AllRefsAre
  <2>3. CASE a \in InitCode /\ t \in img.init
    BY <2>3, AllRefsAre
  <2> QED BY <2>1, <2>2, <2>3
<1>3. r \in refs
  BY <1>2 DEF Analysed, Searched
<1> HIDE DEF r
<1> QED BY <1>1, <1>3, LiveHolds DEF Analysed

\* Functions of images that are cut, and of plain ones, are pieces.
LEMMA CutFunctions ==
  ASSUME Analysed, Stripped, CutAtFdes
  PROVE  /\ MadeOf(funcs, CutPieces(img)) /\ Tidy(CutPieces(img), TextStart, TextEnd)
         /\ build_func_map(img).links =
              fallthrough_links(img, CutPieces(img), fde_spans(img)) \cup table_links(img)
         /\ CutRegular
<1>1. funcs = infer_functions_fde(img).funcs /\ build_func_map(img).links = infer_functions_fde(img).links
  BY DEF Analysed, Searched, Stripped, CutAtFdes, build_func_map
<1>2. img \in Images /\ fde_spans(img) # {} /\ CutRegular
  BY DEF Analysed, CutAtFdes, Regular
<1> QED BY <1>1, <1>2, CutMap

\* The functions of an image without FDEs are the runs between starts.
LEMMA PlainFunctions ==
  ASSUME Analysed, Stripped, ~CutAtFdes
  PROVE  /\ MadeOf(funcs, Runs(infer_starts(img), TextStart, TextEnd))
         /\ Tidy(Runs(infer_starts(img), TextStart, TextEnd), TextStart, TextEnd)
         /\ PlainRegular
<1>1. funcs = infer_functions(img)
  BY DEF Analysed, Searched, Stripped, CutAtFdes, build_func_map, infer_functions_fde
<1>2. img \in Images /\ PlainRegular
  BY DEF Analysed, Regular
<1> QED BY <1>1, <1>2, PlainMap

\* The piece behind a function that holds an address.
LEMMA PieceAt ==
  ASSUME NEW P, MadeOf(funcs, P), NEW n \in DOMAIN funcs, NEW a, Contains(funcs, n, a)
  PROVE  \E p \in P : /\ p.start <= a /\ a < p.end
                      /\ funcs[n].addr = p.start /\ FuncEnd(funcs, n) = p.end
                      /\ funcs[n].is_global = p.global
<1>1. PICK p \in P :
        /\ funcs[n].addr = p.start /\ FuncEnd(funcs, n) = p.end
        /\ funcs[n] = [addr |-> p.start, size |-> p.end - p.start, is_global |-> p.global]
  BY DEF MadeOf
<1>2. funcs[n].is_global = p.global
  BY <1>1
<1>3. p.start <= a /\ a < p.end
  BY <1>1 DEF Contains
<1> QED BY <1>1, <1>2, <1>3

\* The functions of an image with symbols are its symbols and exports.
LEMMA SymbolFunctions ==
  ASSUME Analysed, ~Stripped
  PROVE  /\ funcs = root_dynamic_exports(img, get_functions_symtab(img))
         /\ SymbolsRegular
BY DEF Analysed, Searched, Stripped, build_func_map, Regular

\* An export or the entry point: a root, however functions were found.
LEMMA SymbolSafe ==
  ASSUME Analysed, NEW a, InText(a),
         a = img.entry \/ \E d \in get_dynamic_symbols(img) : d.addr = a
  PROVE  Safe(a)
<1> SUFFICES Rooted(funcs, a)
  BY RootedSafe
<1> SUFFICES ASSUME NEW n \in DOMAIN funcs, Contains(funcs, n, a)
             PROVE  Rooted(funcs, a) \/ funcs[n].is_global
  BY Zenon DEF Rooted
<1>1. CASE ~Stripped
  <2>1. CASE a = img.entry
    BY <1>1, <2>1, SymbolFunctions DEF SymbolsRegular, Analysed, Searched
  <2>2. CASE \E d \in get_dynamic_symbols(img) : d.addr = a
    <3> DEFINE s == get_functions_symtab(img)
    <3>1. \A k \in DOMAIN s : s[k] \in FuncInfo
      BY SymbolType DEF Analysed
    <3>2. funcs = root_dynamic_exports(img, s)
      BY <1>1, SymbolFunctions
    <3> HIDE DEF s
    <3>3. /\ funcs[n].addr = s[n].addr /\ funcs[n].size = s[n].size
          /\ (\E d \in get_dynamic_symbols(img) : Contains(s, n, d.addr)) => funcs[n].is_global
      BY <3>1, <3>2, ExportedType
    <3>4. Contains(s, n, a)
      BY <3>3 DEF Contains, FuncEnd
    <3> QED BY <2>2, <3>3, <3>4
  <2> QED BY <2>1, <2>2
<1>2. CASE Stripped
  <2>1. a \in DOMAIN infer_starts(img) /\ infer_starts(img)[a].global
    BY RootStarts DEF Analysed
  <2>2. CASE CutAtFdes
    <3>1. PICK p \in CutPieces(img) : /\ p.start <= a /\ a < p.end
                                      /\ funcs[n].is_global = p.global
      BY <1>2, <2>2, CutFunctions, PieceAt
    <3>2. p.global
      BY <2>1, <2>2, <3>1, CutRoots DEF Analysed, CutAtFdes
    <3> QED BY <3>1, <3>2
  <2>3. CASE ~CutAtFdes
    <3> DEFINE P == Runs(infer_starts(img), TextStart, TextEnd)
    <3>1. MadeOf(funcs, P)
      BY <1>2, <2>3, PlainFunctions
    <3>2. \A p \in P : /\ p.global = infer_starts(img)[p.start].global
                       /\ \A b \in DOMAIN infer_starts(img) : p.start <= b /\ b < p.end => b = p.start
      BY PlainMap DEF Analysed
    <3> HIDE DEF P
    <3>3. PICK p \in P : p.start <= a /\ a < p.end /\ funcs[n].is_global = p.global
      BY <3>1, PieceAt
    <3> QED BY <2>1, <3>2, <3>3
  <2> QED BY <2>2, <2>3
<1> QED BY <1>1, <1>2

\* Without FDEs, a word of .data that is a code address is where a function
\* starts, and makes it a root.
LEMMA DataWordSafe ==
  ASSUME Analysed, Stripped, ~CutAtFdes, NEW a \in scan_data_code_refs(img), InText(a)
  PROVE  Safe(a)
<1> DEFINE P == Runs(infer_starts(img), TextStart, TextEnd)
<1>1. a \in DOMAIN infer_starts(img)
  BY RootStarts DEF Analysed
<1>2. a \in ScannedWords
  BY DEF scan_data_code_refs, ScannedWords
<1>3. MadeOf(funcs, P)
  BY PlainFunctions
<1>4. \A p \in P : \A b \in DOMAIN infer_starts(img) : p.start <= b /\ b < p.end => b = p.start
  BY PlainMap DEF Analysed
<1> HIDE DEF P
<1>5. ASSUME NEW n \in DOMAIN funcs, Contains(funcs, n, a) PROVE funcs[n].addr = a
  <2>1. PICK p \in P : p.start <= a /\ a < p.end /\ funcs[n].addr = p.start
    BY <1>3, <1>5, PieceAt
  <2> QED BY <1>1, <1>4, <2>1
<1> QED BY <1>2, <1>5, RootedSafe DEF Rooted

\* Wherever the program is entered from outside, it enters live functions.
LEMMA EntrySafe ==
  ASSUME Analysed, NEW a \in EntryPoints
  PROVE  Safe(a)
<1>1. InText(a)
  BY DEF EntryPoints
<1>2. CASE a = img.entry \/ \E d \in get_dynamic_symbols(img) : d.addr = a
  BY <1>1, <1>2, SymbolSafe
<1>3. CASE a \in img.init
  <2>1. PICK x \in InitCode : Rooted(funcs, x)
    BY <1>1, <1>3 DEF Analysed, Regular, InitKept, Searched
  <2> QED BY <1>3, <2>1, RootedSafe, ReferredSafe
<1>4. CASE a \in img.personalities \cup Pointers
  <2>1. CASE ~Stripped
    <3>1. Rooted(funcs, a)
      BY <1>1, <1>4, <2>1, SymbolFunctions DEF SymbolsRegular, Analysed, Searched
    <3> QED BY <3>1, RootedSafe
  <2>2. CASE Stripped /\ ~CutAtFdes
    <3>1. a \in scan_data_code_refs(img)
      BY <1>1, <1>4, <2>2, PlainFunctions DEF PlainRegular
    <3> QED BY <1>1, <2>2, <3>1, DataWordSafe
  <2>3. CASE Stripped /\ CutAtFdes
    <3>1. a \in data_code_values(img) \cup img.personalities
      BY <1>1, <1>4, <2>3, CutFunctions DEF CutRegular, PointersScanned, Pointers, data_code_values
    <3>2. ASSUME NEW n \in DOMAIN funcs, Contains(funcs, n, a) PROVE funcs[n].is_global
      <4>1. PICK p \in CutPieces(img) : p.start <= a /\ a < p.end /\ funcs[n].is_global = p.global
        BY <2>3, <3>2, CutFunctions, PieceAt
      <4>2. p.global
        BY <2>3, <3>1, <4>1, CutRoots DEF Analysed, CutAtFdes
      <4> QED BY <4>1, <4>2
    <3> QED BY <3>2, RootedSafe DEF Rooted
  <2> QED BY <2>1, <2>2, <2>3
<1> QED BY <1>2, <1>3, <1>4 DEF EntryPoints

-----------------------------------------------------------------------------
(* Switch tables. *)

\* Cases inside .text are addresses.
LEMMA CaseType ==
  ASSUME img \in Images, NEW a \in DOMAIN img.code, NEW x \in Cases(img.code[a]), InText(x)
  PROVE  x \in Nat
<1>1. PICK r \in pc_rel_target(img.code[a]) :
        r \in DOMAIN img.tables /\ \E k \in 0..img.tables[r]-1 : x = r + img.slots[r + k]
  BY DEF Cases
<1>2. PICK k \in 0..img.tables[r]-1 : x = r + img.slots[r + k]
  BY <1>1
<1>3. r \in Nat
  BY ImageAssumption DEF pc_rel_target
<1>4. img.slots[r + k] \in Int
  BY <1>1, ImageAssumption
<1>5. x \in Int
  BY <1>2, <1>3, <1>4
<1> QED BY <1>5, ImageAssumption DEF InText

\* The cases of a table that is read are references of the code that uses it.
LEMMA CasesLinked ==
  ASSUME img \in Images, TablesRead, NEW a \in DOMAIN img.code, NEW x \in Cases(img.code[a])
  PROVE  [addr |-> a, target |-> x] \in table_links(img)
<1> DEFINE S == DOMAIN img.slots
           bounds == collect_ref_targets(img)
           end(b) == Min({c \in bounds : c > b} \cup {Max(S) + 1})
<1>1. PICK r \in pc_rel_target(img.code[a]) :
        r \in DOMAIN img.tables /\ \E k \in 0..img.tables[r]-1 : x = r + img.slots[r + k]
  BY DEF Cases
<1>2. PICK k \in 0..img.tables[r]-1 : x = r + img.slots[r + k]
  BY <1>1
<1>3. /\ img.code[a].flow = "lea" /\ r \in img.code[a].ref
  BY <1>1 DEF pc_rel_target
<1>4. /\ img.tables[r] \in Nat /\ img.tables[r] <= MAX_TABLE_ENTRIES
      /\ \A l \in 0..img.tables[r]-1 :
           /\ r + l \in S /\ InText(r + img.slots[r + l])
           /\ l > 0 => r + l \notin bounds
  BY <1>1, <1>3, ImageAssumption DEF TablesRead
<1>5. /\ r \in Nat /\ bounds \subseteq Nat /\ S \in SUBSET Nat /\ IsFiniteSet(S)
  <2>1. \A b \in DOMAIN img.code : img.code[b].ref \subseteq Nat
    BY ImageAssumption
  <2>2. bounds \subseteq Nat
    BY <2>1 DEF collect_ref_targets, pc_rel_target
  <2> QED BY <1>3, <2>1, <2>2, ImageAssumption
<1>6. PICK n \in Nat : S \in SUBSET (0..n)
  <2> HIDE DEF S
  <2> QED BY <1>5, FiniteBounded
<1> DEFINE t == img.tables[r]
<1>7. t \in Nat /\ k \in 0..(t - 1) /\ k \in 0..MAX_TABLE_ENTRIES-1 /\ \A l \in 0..k : l \in 0..(t - 1)
  <2>1. t \in Nat /\ t <= MAX_TABLE_ENTRIES /\ k \in 0..(t - 1)
    BY <1>4
  <2> HIDE DEF t
  <2>2. t \in Nat /\ t <= MAX_TABLE_ENTRIES /\ k \in Nat /\ k <= t - 1
    BY <2>1, ImageAssumption
  <2>3. MAX_TABLE_ENTRIES \in Nat
    BY ImageAssumption
  <2> QED BY <2>1, <2>2, <2>3
<1>8. \A l \in 0..k : r + l \in S /\ InText(r + img.slots[r + l]) /\ (l > 0 => r + l \notin bounds)
  BY <1>4, <1>7
<1> HIDE DEF S, bounds, t
<1>9. Max(S) \in Nat /\ \A y \in S : y <= Max(S)
  <2>1. S # {}
    BY <1>7, <1>8
  <2> QED BY <1>6, <2>1, MaxIsGreatest
<1>10. r + k < end(r) /\ r \in S /\ r + k \in S
  <2> DEFINE E == {c \in bounds : c > r} \cup {Max(S) + 1}
  <2>1. E \in SUBSET Nat /\ E # {}
    <3>1. Max(S) + 1 \in Nat
      BY <1>9
    <3> HIDE DEF Max
    <3> QED BY <1>5, <3>1
  <2>2. r + 0 \in S /\ r + k \in S /\ k \in Nat
    BY <1>7, <1>8
  <2>3. ASSUME NEW y \in E PROVE r + k < y
    <3>1. CASE y = Max(S) + 1
      BY <1>5, <1>9, <2>2, <3>1
    <3>2. CASE y \in bounds /\ y > r
      <4>1. y \in Nat /\ y - r \in Nat /\ y - r > 0 /\ r + (y - r) = y
        BY <1>5, <3>2
      <4>2. y - r \notin 0..k
        BY <1>8, <3>2, <4>1
      <4> QED BY <1>5, <2>2, <4>1, <4>2
    <3> QED BY <3>1, <3>2
  <2> HIDE DEF E
  <2>4. Min(E) \in E
    BY <2>1, MinIsLeast
  <2>5. r + k < Min(E)
    BY <2>3, <2>4
  <2> QED BY <1>5, <2>2, <2>5 DEF E
<1>11. x \in table_targets(img, r, end(r))
  <2> HIDE DEF end
  <2> QED BY <1>2, <1>7, <1>8, <1>10 DEF table_targets, S
<1>12. table_links(img) = UNION {{[addr |-> b, target |-> y] :
                                    y \in UNION {table_targets(img, q, end(q)) :
                                                   q \in pc_rel_target(img.code[b])}} :
                                 b \in DOMAIN img.code}
  BY DEF table_links, S, bounds
<1> HIDE DEF end
<1> QED BY <1>1, <1>11, <1>12

\* An instruction forms an address it refers to, an immediate, or the cases
\* of a switch.
LEMMA FormsAre ==
  ASSUME NEW i, NEW x \in Forms(i)
  PROVE  x \in targets(i) \/ x \in Immediates(i) \/ x \in Cases(i)
<1>1. PICK r \in i.ref :
        x \in (IF i.flow = "imm" THEN {r}
               ELSE IF i.flow # "lea" THEN {}
               ELSE IF r \in DOMAIN img.tables
                    THEN {r + img.slots[r + k] : k \in 0..img.tables[r]-1} ELSE {r})
  BY DEF Forms
<1>2. CASE i.flow = "imm"
  BY <1>1, <1>2 DEF Immediates
<1>3. CASE i.flow = "lea" /\ r \in DOMAIN img.tables
  <2> DEFINE K(q) == {q + img.slots[q + k] : k \in 0..img.tables[q]-1}
             B == {q \in pc_rel_target(i) : q \in DOMAIN img.tables}
  <2>1. x \in K(r)
    BY <1>1, <1>3
  <2>2. r \in B
    BY <1>3 DEF pc_rel_target
  <2>3. Cases(i) = UNION {K(q) : q \in B}
    BY DEF Cases
  <2> HIDE DEF K, B
  <2> QED BY <2>1, <2>2, <2>3
<1>4. CASE i.flow = "lea" /\ r \notin DOMAIN img.tables
  BY <1>1, <1>4 DEF targets
<1> QED BY <1>1, <1>2, <1>3, <1>4

\* Without FDEs, what lies in the run of a live instruction is live.
LEMMA SameRunSafe ==
  ASSUME Analysed, Stripped, ~CutAtFdes, NEW a \in Nat, InText(a), Safe(a),
         NEW b \in Nat, SameRun(a, b)
  PROVE  Safe(b)
<1> DEFINE starts == infer_starts(img)
           P == Runs(starts, TextStart, TextEnd)
<1>1. MadeOf(funcs, P) /\ Tidy(P, TextStart, TextEnd)
  BY PlainFunctions
<1>2. \A p \in P : p.start \in DOMAIN starts /\ (p.end = TextEnd \/ p.end \in DOMAIN starts)
  BY PlainMap DEF Analysed
<1>3. \A s \in DOMAIN starts : s <= a <=> s <= b
  BY DEF SameRun
<1> HIDE DEF P, starts
<1> SUFFICES ASSUME NEW n \in DOMAIN funcs, Contains(funcs, n, b)
             PROVE  Contains(funcs, n, a)
  BY DEF Safe
<1>4. PICK p \in P : /\ p.start <= b /\ b < p.end
                     /\ funcs[n].addr = p.start /\ FuncEnd(funcs, n) = p.end
  BY <1>1, PieceAt
<1>5. p.start \in Nat /\ p.end \in Nat
  BY <1>1 DEF Tidy
<1>6. p.start <= a
  BY <1>2, <1>3, <1>4
<1>7. a < p.end
  <2>1. CASE p.end = TextEnd
    BY <2>1 DEF InText
  <2>2. CASE p.end \in DOMAIN starts
    BY <1>3, <1>4, <1>5, <2>2
  <2> QED BY <1>2, <2>1, <2>2
<1> QED BY <1>4, <1>6, <1>7 DEF Contains

\* Every address that live code forms is in live functions.
LEMMA FormedSafe ==
  ASSUME Analysed, NEW a \in DOMAIN img.code, Safe(a), NEW x \in Forms(img.code[a]), InText(x)
  PROVE  Safe(x)
<1>0. a \in Nat /\ InText(a) /\ img \in Images
  BY ImageAssumption DEF Analysed
<1>1. CASE x \in targets(img.code[a])
  BY <1>1, ReferredSafe
<1>2. CASE x \in Immediates(img.code[a])
  <2>1. CASE ~Stripped
    <3>1. Rooted(funcs, x)
      BY <1>2, <2>1, SymbolFunctions DEF SymbolsRegular, Analysed, Searched
    <3> QED BY <3>1, RootedSafe
  <2>2. CASE Stripped /\ ~CutAtFdes
    <3>1. x \in scan_data_code_refs(img)
      BY <1>2, <2>2, PlainFunctions DEF PlainRegular
    <3> QED BY <2>2, <3>1, DataWordSafe
  <2>3. CASE Stripped /\ CutAtFdes
    <3> DEFINE Q == partition(img, infer_starts(img), fde_spans(img))
               P == CutPieces(img)
    <3>1. img.code[a].flow = "imm" /\ x \in img.code[a].ref
      BY <1>2 DEF Immediates
    <3>2. img.fixed /\ \E q \in Q : q.start = x
      BY <2>3, <3>1, CutFunctions DEF CutRegular, ImmediatesAreStarts
    <3>3. x \in code_immediates(img, Q)
      <4> HIDE DEF Q
      <4> QED BY <3>1, <3>2 DEF code_immediates
    <3>4. PICK q \in P : q.start = x
      BY <1>0, <2>3, <3>2, CutMap DEF CutAtFdes
    <3>5. MadeOf(funcs, P) /\ Tidy(P, TextStart, TextEnd)
      BY <2>3, CutFunctions
    <3>6. \A p \in P : (img.fixed /\ p.start \in code_immediates(img, Q)) => p.global
      BY <1>0, <2>3, CutRoots DEF CutAtFdes
    <3> HIDE DEF P, Q
    <3>7. ASSUME NEW n \in DOMAIN funcs, Contains(funcs, n, x) PROVE funcs[n].is_global
      <4>1. PICK p \in P : p.start <= x /\ x < p.end /\ funcs[n].is_global = p.global
        BY <3>5, <3>7, PieceAt
      <4>2. p.start = x
        BY <3>4, <3>5, <4>1 DEF Tidy, Apart
      <4> QED BY <3>2, <3>3, <3>6, <4>1, <4>2
    <3> QED BY <3>7, RootedSafe DEF Rooted
  <2> QED BY <2>1, <2>2, <2>3
<1>3. CASE x \in Cases(img.code[a])
  <2>1. CASE ~Stripped
    <3>1. \A n \in DOMAIN funcs : Contains(funcs, n, x) => Contains(funcs, n, a)
      BY <1>3, <2>1, SymbolFunctions DEF SymbolsRegular, Analysed, Searched
    <3> QED BY <3>1 DEF Safe
  <2>2. CASE Stripped /\ ~CutAtFdes
    <3>1. SameRun(a, x)
      BY <1>3, <2>2, PlainFunctions DEF PlainRegular
    <3>2. x \in Nat
      BY <1>0, <1>3, CaseType
    <3> QED BY <1>0, <2>2, <3>1, <3>2, SameRunSafe
  <2>3. CASE Stripped /\ CutAtFdes
    <3>1. [addr |-> a, target |-> x] \in table_links(img)
      BY <1>0, <1>3, <2>3, CutFunctions, CasesLinked DEF CutRegular
    <3>2. [addr |-> a, target |-> x] \in build_func_map(img).links
      BY <2>3, <3>1, CutFunctions
    <3> QED BY <3>2, ReferredSafe
  <2> QED BY <2>1, <2>2, <2>3
<1> QED BY <1>1, <1>2, <1>3, FormsAre

-----------------------------------------------------------------------------
(* Falling through. *)

\* A span ends where an FDE ends, or with .text.
LEMMA SpanEnds ==
  ASSUME NEW i \in Images, NEW s \in fde_spans(i), s.e < TextEnd
  PROVE  \E f \in i.fdes : f.len > 0 /\ s.e = f.begin + f.len
<1> DEFINE W == RawSpans(i)
<1>1. fde_spans(i) = {[b |-> h, e |-> SpanEnd(W, h)] : h \in Heads(W)}
  BY DEF fde_spans, RawSpans, Heads, Joined, SpanEnd, FdeEnd
<1>2. PICK h \in Heads(W) : s.e = SpanEnd(W, h)
  <2> HIDE DEF W
  <2> QED BY <1>1
<1>3. PICK r \in W : r.e = s.e
  <2>1. \A u \in W : IsSpan(u)
    BY RawSpansLieInText
  <2> HIDE DEF W
  <2>2. \E r \in Joined(W, h) : r.e = SpanEnd(W, h)
    BY <2>1, SpanEndIs
  <2> QED BY <1>2, <2>2 DEF Joined
<1>4. PICK f \in i.fdes : f.len > 0 /\ r = [b |-> f.begin, e |-> FdeEnd(f)]
  BY DEF RawSpans
<1>5. f.begin \in Nat /\ f.len \in Nat /\ TextEnd \in Nat
  BY ImageAssumption
<1> DEFINE E == {f.begin + f.len, TextEnd}
<1>6. E \in SUBSET Nat /\ E # {}
  BY <1>5
<1>7. s.e = Min(E)
  BY <1>3, <1>4 DEF FdeEnd
<1>8. s.e \in E
  <2> HIDE DEF E
  <2> QED BY <1>6, <1>7, MinIsLeast
<1>9. s.e = f.begin + f.len
  BY <1>5, <1>8
<1> QED BY <1>4, <1>9

\* The last instruction before a that is no NOP is live and goes on.
Trail(a) ==
  \E x \in DOMAIN img.code :
    /\ x < a /\ img.code[x].flow # "nop" /\ Safe(x) /\ Continues(x)
    /\ \A y \in DOMAIN img.code : x < y /\ y < a => img.code[y].flow = "nop"

\* NOPs between functions are crossed.
Trailed(a) == a \in DOMAIN img.code /\ img.code[a].flow = "nop" => Trail(a)

\* If the instruction at a runs into or over the start of a piece, a live
\* instruction refers to that start.
LEMMA FallLinked ==
  ASSUME Analysed, Stripped, CutAtFdes, NEW a \in DOMAIN img.code,
         Safe(a), Trailed(a), Continues(a),
         NEW p \in CutPieces(img), a < p.start, p.start <= Behind(a)
  PROVE  \E x \in DOMAIN img.code : Safe(x) /\ x \in falls_into(img, p.start, {s.e : s \in fde_spans(img)})
<1> DEFINE at == p.start
           ends == {s.e : s \in fde_spans(img)}
           before == {y \in DOMAIN img.code : y < at}
           real == {y \in before : img.code[y].flow # "nop"}
<1>0. img \in Images /\ CutRegular /\ Tidy(CutPieces(img), TextStart, TextEnd)
  BY CutFunctions DEF Analysed
<1>1. /\ \A y \in DOMAIN img.code : y \in Nat /\ InText(y) /\ img.code[y].len \in Nat
      /\ at \in Nat /\ at < TextEnd /\ TextEnd \in Nat
  BY <1>0, ImageAssumption DEF Tidy
<1>2. \A y, z \in DOMAIN img.code : y < z => Behind(y) <= z
  BY <1>0 DEF CutRegular, Linear
<1>3. \A y \in DOMAIN img.code : Behind(y) \in Nat /\ Behind(y) = y + img.code[y].len
  BY <1>1 DEF Behind
<1> HIDE DEF at
<1>4. before \in SUBSET (0..at) /\ a \in before /\ \A y \in before : y <= a
  <2>1. a \in before
    BY DEF at
  <2>2. ASSUME NEW y \in before PROVE y <= a
    <3>1. a \in Nat /\ y \in Nat /\ Behind(a) \in Nat /\ y < at /\ at <= Behind(a)
      BY <1>1, <1>3 DEF at
    <3>2. a < y => Behind(a) <= y
      BY <1>2
    <3> QED BY <1>1, <3>1, <3>2
  <2> QED BY <1>1, <2>1, <2>2
<1>5. Max(before) = a
  <2>1. before # {}
    BY <1>4
  <2> HIDE DEF before
  <2>2. Max(before) \in before /\ Max(before) \in Nat /\ \A y \in before : y <= Max(before)
    BY <1>1, <1>4, <2>1, MaxIsGreatest
  <2>3. a <= Max(before) /\ Max(before) <= a
    BY <1>4, <2>2
  <2> QED BY <1>1, <2>2, <2>3
<1>6. falls_into(img, at, ends) =
        (IF before = {} THEN {}
         ELSE IF Max(before) + img.code[Max(before)].len # at THEN {Max(before)}
         ELSE IF \/ real = {} \/ img.code[Max(real)].flow = "int3"
                 \/ ~falls_through(img.code[Max(real)])
                 \/ (is_call(img.code[Max(real)]) /\ Max(real) + img.code[Max(real)].len \in ends)
              THEN {} ELSE {Max(real)})
  BY DEF falls_into
<1>7. CASE Behind(a) # at
  <2>1. a \in falls_into(img, at, ends)
    <3> HIDE DEF before, real, ends
    <3> QED BY <1>3, <1>4, <1>5, <1>6, <1>7
  <2> QED BY <2>1 DEF at
<1>8. CASE Behind(a) = at
  <2>1. PICK x \in real : Safe(x) /\ Continues(x) /\ \A y \in real : y <= x
    <3>1. CASE img.code[a].flow # "nop"
      BY <1>4, <3>1
    <3>2. CASE img.code[a].flow = "nop"
      <4>1. PICK x \in DOMAIN img.code :
              /\ x < a /\ img.code[x].flow # "nop" /\ Safe(x) /\ Continues(x)
              /\ \A y \in DOMAIN img.code : x < y /\ y < a => img.code[y].flow = "nop"
        BY <3>2 DEF Trailed, Trail
      <4>2. x \in real
        <5>1. x \in Nat /\ a \in Nat /\ a < at
          BY <1>1 DEF at
        <5> QED BY <1>1, <4>1, <5>1
      <4>3. ASSUME NEW y \in real PROVE y <= x
        <5>1. y \in DOMAIN img.code /\ y \in Nat /\ x \in Nat /\ a \in Nat /\ y <= a /\ img.code[y].flow # "nop"
          BY <1>1, <1>4
        <5> QED BY <3>2, <4>1, <5>1
      <4> QED BY <4>1, <4>2, <4>3
    <3> QED BY <3>1, <3>2
  <2>2. Max(real) = x /\ real # {}
    <3>1. real \in SUBSET (0..at) /\ real # {} /\ x \in Nat
      BY <1>1, <1>4
    <3> HIDE DEF real
    <3>2. Max(real) \in real /\ Max(real) \in Nat /\ \A y \in real : y <= Max(real)
      BY <1>1, <3>1, MaxIsGreatest
    <3> QED BY <2>1, <3>1, <3>2
  <2>3. img.code[x].flow # "int3" /\ falls_through(img.code[x])
    BY <2>1 DEF Continues, falls_through
  <2>4. ~(is_call(img.code[x]) /\ x + img.code[x].len \in ends)
    <3> SUFFICES ASSUME is_call(img.code[x]), x + img.code[x].len \in ends PROVE FALSE
      OBVIOUS
    <3>1. PICK s \in fde_spans(img) : s.e = Behind(x)
      BY <1>3
    <3>2. Behind(x) < TextEnd
      <4>1. x \in Nat /\ a \in Nat /\ x <= a /\ a < TextEnd /\ Behind(x) \in Nat
        BY <1>1, <1>3, <1>4 DEF InText
      <4>2. CASE x = a
        BY <1>1, <1>8, <4>2
      <4>3. CASE x < a
        BY <1>1, <1>2, <4>1, <4>3
      <4> QED BY <4>1, <4>2, <4>3
    <3>3. PICK f \in img.fdes : f.len > 0 /\ s.e = f.begin + f.len
      BY <1>0, <3>1, <3>2, SpanEnds
    <3>4. x \in img.noreturn
      BY <1>0, <3>1, <3>3 DEF CutRegular, EndingCallsStay
    <3> QED BY <2>1, <3>4 DEF Continues
  <2>5. before # {} /\ Max(before) + img.code[Max(before)].len = at
    BY <1>3, <1>4, <1>5, <1>8
  <2>6. x \in falls_into(img, at, ends)
    <3> HIDE DEF before, real, ends
    <3> QED BY <1>6, <2>2, <2>3, <2>4, <2>5
  <2> QED BY <2>1, <2>6 DEF at
<1> QED BY <1>7, <1>8

\* Execution that goes on behind a live instruction stays in live functions.
LEMMA ContinueSafe ==
  ASSUME Analysed, NEW a \in DOMAIN img.code, Safe(a), Continues(a), InText(Behind(a)),
         Stripped /\ CutAtFdes => Trailed(a)
  PROVE  Safe(Behind(a))
<1>1. /\ a \in Nat /\ InText(a) /\ Behind(a) \in Nat /\ a < Behind(a)
  BY ImageAssumption DEF Analysed, Behind
<1>2. CASE ~Stripped
  <2>1. \A n \in DOMAIN funcs : Contains(funcs, n, Behind(a)) => Contains(funcs, n, a)
    BY <1>2, SymbolFunctions DEF SymbolsRegular, Analysed, Searched
  <2> QED BY <2>1 DEF Safe
<1>3. CASE Stripped /\ ~CutAtFdes
  <2>1. SameRun(a, Behind(a))
    BY <1>3, PlainFunctions DEF PlainRegular
  <2> QED BY <1>1, <1>3, <2>1, SameRunSafe
<1>4. CASE Stripped /\ CutAtFdes
  <2> DEFINE P == CutPieces(img)
             ends == {s.e : s \in fde_spans(img)}
  <2> SUFFICES ASSUME NEW n \in DOMAIN funcs, Contains(funcs, n, Behind(a))
               PROVE  n \in live
    BY DEF Safe
  <2>1. MadeOf(funcs, P) /\ Tidy(P, TextStart, TextEnd)
    BY <1>4, CutFunctions
  <2>2. PICK p \in P : /\ p.start <= Behind(a) /\ Behind(a) < p.end
                       /\ funcs[n].addr = p.start /\ FuncEnd(funcs, n) = p.end
    BY <2>1, PieceAt
  <2>3. p.start \in Nat /\ p.end \in Nat /\ p.start < p.end
    BY <2>1 DEF Tidy
  <2>4. CASE p.start <= a
    <3>1. a < p.end
      BY <1>1, <2>2, <2>3
    <3>2. Contains(funcs, n, a)
      BY <2>2, <2>4, <3>1 DEF Contains
    <3> QED BY <3>2 DEF Safe
  <2>5. CASE a < p.start
    <3>1. PICK x \in DOMAIN img.code : Safe(x) /\ x \in falls_into(img, p.start, ends)
      BY <1>4, <2>2, <2>5, FallLinked
    <3>2. [addr |-> x, target |-> p.start] \in fallthrough_links(img, P, fde_spans(img))
      <4> DEFINE T(r) == {[addr |-> y, target |-> r.start] : y \in falls_into(img, r.start, ends)}
      <4>1. fallthrough_links(img, P, fde_spans(img)) = UNION {T(r) : r \in P}
        BY DEF fallthrough_links
      <4>2. [addr |-> x, target |-> p.start] \in T(p)
        BY <3>1
      <4> HIDE DEF T, P
      <4> QED BY <4>1, <4>2
    <3>3. [addr |-> x, target |-> p.start] \in build_func_map(img).links
      BY <1>4, <3>2, CutFunctions
    <3>4. Safe(p.start)
      BY <3>1, <3>3, ReferredSafe
    <3>5. Contains(funcs, n, p.start)
      BY <2>2, <2>3 DEF Contains
    <3> QED BY <3>4, <3>5 DEF Safe
  <2> QED BY <1>1, <2>3, <2>4, <2>5
<1> QED BY <1>2, <1>3, <1>4

\* A NOP entered from the instruction before it has a live one before it.
LEMMA ContinueTrailed ==
  ASSUME Analysed, Stripped, CutAtFdes, NEW a \in DOMAIN img.code,
         Safe(a), Trailed(a), Continues(a)
  PROVE  Trailed(Behind(a))
<1> SUFFICES ASSUME Behind(a) \in DOMAIN img.code, img.code[Behind(a)].flow = "nop"
             PROVE  Trail(Behind(a))
  BY DEF Trailed
<1>1. \A y \in DOMAIN img.code : y \in Nat
  BY ImageAssumption DEF Analysed
<1>2. a \in Nat /\ Behind(a) \in Nat /\ a < Behind(a)
  BY ImageAssumption DEF Analysed, Behind
<1>3. \A y \in DOMAIN img.code : a < y => Behind(a) <= y
  BY CutFunctions DEF CutRegular, Linear
<1>4. CASE img.code[a].flow # "nop"
  <2>1. \A y \in DOMAIN img.code : ~(a < y /\ y < Behind(a))
    BY <1>1, <1>2, <1>3
  <2> QED BY <1>2, <1>4, <2>1 DEF Trail
<1>5. CASE img.code[a].flow = "nop"
  <2>1. PICK x \in DOMAIN img.code :
          /\ x < a /\ img.code[x].flow # "nop" /\ Safe(x) /\ Continues(x)
          /\ \A y \in DOMAIN img.code : x < y /\ y < a => img.code[y].flow = "nop"
    BY <1>5 DEF Trailed, Trail
  <2>2. x < Behind(a)
    BY <1>1, <1>2, <2>1
  <2>3. ASSUME NEW y \in DOMAIN img.code, x < y, y < Behind(a) PROVE img.code[y].flow = "nop"
    <3>1. y < a \/ y = a \/ a < y
      BY <1>1
    <3>2. ~(a < y)
      BY <1>1, <1>2, <1>3, <2>3
    <3> QED BY <1>5, <2>1, <2>3, <3>1, <3>2
  <2> QED BY <2>1, <2>2, <2>3 DEF Trail
<1> QED BY <1>4, <1>5

-----------------------------------------------------------------------------
(* The specification. *)

\* The program has run in live functions only, and NOPs it stands on were
\* fallen into.
RunInv ==
  Analysed =>
    /\ pos # 0 => Safe(pos) /\ (Stripped /\ CutAtFdes => Trailed(pos))
    /\ \A k \in known :
         /\ InText(k) /\ Safe(k)
         /\ \E b \in DOMAIN img.code : k \in Forms(img.code[b])

\* One instruction.
LEMMA ExecuteSafe ==
  ASSUME Analysed, RunInv, pos # 0, Execute
  PROVE  /\ Safe(pos') /\ (Stripped /\ CutAtFdes => Trailed(pos'))
         /\ \A k \in known' : /\ InText(k) /\ Safe(k)
                              /\ \E b \in DOMAIN img.code : k \in Forms(img.code[b])
<1> DEFINE i == img.code[pos]
           q == pos'
<1>1. pos \in DOMAIN img.code /\ Safe(pos) /\ (Stripped /\ CutAtFdes => Trailed(pos))
  BY DEF Execute, RunInv
<1>2. /\ q \in Successors(pos) /\ InText(q)
      /\ known' = known \cup {a \in Forms(i) : InText(a)}
  BY DEF Execute
<1>3. \A k \in known : /\ InText(k) /\ Safe(k)
                       /\ \E b \in DOMAIN img.code : k \in Forms(img.code[b])
  BY DEF RunInv
<1> HIDE DEF q
<1>4. \A k \in known' : /\ InText(k) /\ Safe(k)
                        /\ \E b \in DOMAIN img.code : k \in Forms(img.code[b])
  BY <1>1, <1>2, <1>3, FormedSafe
<1>5. \/ i.flow \in {"jmp", "jcc", "call"} /\ q \in i.ref
      \/ q \in known \/ q \in Pointers
      \/ Continues(pos) /\ q = Behind(pos)
  BY <1>2 DEF Successors, Continues, Behind
<1>6. CASE q \in targets(i) \/ q \in known \/ q \in Pointers
  <2>1. Safe(q)
    <3>1. CASE q \in targets(i)
      BY <1>1, <3>1, ReferredSafe
    <3>2. CASE q \in Pointers
      BY <1>2, <3>2, EntrySafe DEF EntryPoints
    <3> QED BY <1>3, <1>6, <3>1, <3>2
  <2>2. ASSUME Stripped, CutAtFdes, q \in DOMAIN img.code PROVE img.code[q].flow # "nop"
    <3>1. NopsArePadding
      BY <2>2, CutFunctions DEF CutRegular
    <3>2. q \in Pointers => q \in EntryPoints
      BY <1>2 DEF EntryPoints
    <3> QED BY <1>1, <1>3, <1>6, <2>2, <3>1, <3>2 DEF NopsArePadding
  <2>3. Stripped /\ CutAtFdes => Trailed(q)
    BY <2>2 DEF Trailed
  <2> QED BY <1>4, <2>1, <2>3 DEF q
<1>7. CASE Continues(pos) /\ q = Behind(pos)
  <2>1. Safe(q)
    BY <1>1, <1>2, <1>7, ContinueSafe
  <2>2. Stripped /\ CutAtFdes => Trailed(q)
    BY <1>1, <1>7, ContinueTrailed
  <2> QED BY <1>4, <2>1, <2>2 DEF q
<1>8. i.flow \in {"jmp", "jcc", "call"} /\ q \in i.ref => q \in targets(i)
  BY DEF targets
<1> QED BY <1>5, <1>6, <1>7, <1>8

\* What the steps of the analysis keep: until it ends the program has not
\* started; a refused image has no functions; any other one is being searched.
AnalysisInv ==
  /\ img \in Images
  /\ pc = "load" =>
       /\ funcs = <<>> /\ managed = {} /\ roots = {} /\ seeds = {} /\ live = {}
       /\ queue = <<>> /\ prev_size = 0 /\ dead = {}
  /\ \/ pc \in {"load", "done"} /\ dead = {} /\ funcs = <<>>
     \/ pc # "load" /\ Searched
  /\ pc # "done" => pos = 0 /\ known = {}

\* FindFunctions hands the search a map, references and words of its types.
LEMMA FindStep ==
  ASSUME AnalysisInv, FindFunctions
  PROVE  Searched'
<1>1. /\ img' = img /\ img \in Images
      /\ funcs' = build_func_map(img).funcs
      /\ refs' = AllRefs(build_func_map(img).links)
      /\ words' = ScannedWords
      /\ graph' = [n \in DOMAIN funcs' |-> {}]
      /\ pc' = "graph"
  BY DEF FindFunctions, AnalysisInv
<1>2. /\ managed' = {} /\ roots' = {} /\ seeds' = {} /\ live' = {}
      /\ queue' = <<>> /\ prev_size' = 0 /\ dead' = {}
  BY DEF FindFunctions, AnalysisInv
<1>3. funcs' \in AllMaps /\ refs' \in AllRefSets /\ words' \in SUBSET Nat
  BY <1>1, MapType, RefsType, WordsType
<1>4. R!Init'
  BY <1>1, <1>2, <1>3 DEF R!Init
<1>5. R!IInv'
  BY <1>4, SearchAssumptions, R!InitStep DEF R!NamesAssumption, R!ImageAssumption
<1> QED BY <1>1, <1>5 DEF Searched, AllRefs, ScannedWords

\* The search leaves what it was given alone, and goes on to its end.
LEMMA AnalyseStep ==
  ASSUME AnalysisInv, Analyse
  PROVE  /\ UNCHANGED <<img, funcs, refs, words, pos, known>> /\ pc' # "load"
         /\ Searched => Searched'
         /\ pc = "done" => UNCHANGED analysis
<1> USE DEF Search!image
<1>1. /\ Search!Next /\ pc # "load" /\ UNCHANGED <<img, pos, known>>
  BY DEF Analyse
<1>2. UNCHANGED <<funcs, refs, words>>
  BY <1>1 DEF Search!Next, Search!BuildGraph, Search!BfsStep, Search!BfsEnd,
              Search!AliasExpand, Search!find_dead, Search!Terminated, Search!vars
<1>3. pc' # "load"
  BY <1>1 DEF Search!Next, Search!BuildGraph, Search!BfsStep, Search!BfsEnd,
              Search!AliasExpand, Search!find_dead, Search!Terminated, Search!vars
<1>4. Searched => Searched'
  <2> SUFFICES ASSUME Searched PROVE Searched'
    OBVIOUS
  <2>1. R!IInv'
    BY <1>1, SearchStep, SearchKeeps DEF Searched
  <2> QED BY <1>1, <1>2, <2>1 DEF Searched, AllRefs, ScannedWords
<1>5. pc = "done" => UNCHANGED analysis
  BY <1>1 DEF Search!Next, Search!BuildGraph, Search!BfsStep, Search!BfsEnd,
              Search!AliasExpand, Search!find_dead, Search!Terminated, Search!vars, analysis
<1> QED BY <1>1, <1>2, <1>3, <1>4, <1>5

\* What is said of an image stays true while its variable is left alone.
LEMMA Unmoved ==
  ASSUME UNCHANGED <<img, analysis>>
  PROVE  /\ Analysed' <=> Analysed
         /\ Searched => Searched'
<1> USE DEF analysis
<1>1. Stripped' = Stripped /\ CutAtFdes' = CutAtFdes
  BY DEF Stripped, CutAtFdes
<1>2. InitKept' = InitKept
  BY DEF InitKept, Rooted, ScannedWords
<1>3. SymbolsRegular' = SymbolsRegular
  BY DEF SymbolsRegular, Rooted, ScannedWords, Pointers, Continues, Behind, Cases, Immediates
<1>4. CutRegular' = CutRegular
  BY DEF CutRegular, Linear, NopsArePadding, EndingCallsStay, TablesRead, PointersScanned,
         ImmediatesAreStarts, Behind, EntryPoints, Pointers, Forms
<1>5. PlainRegular' = PlainRegular
  BY DEF PlainRegular, Pointers, Continues, Behind, SameRun, Cases, Immediates
<1>6. Regular' = Regular
  BY <1>1, <1>2, <1>3, <1>4, <1>5 DEF Regular
<1>7. R!IInv' = R!IInv
  BY DEF R!IInv, R!TypeOK, R!SearchInv, R!LoopInv, R!GraphInv, R!DeadInv, R!LiveLeast,
         R!Pending, R!Aliases, R!ClosedSet, R!image
<1>8. Searched' = Searched
  BY <1>7 DEF Searched, AllRefs, ScannedWords
<1> QED BY <1>6, <1>8 DEF Analysed

\* While the program does not move, what is known of it stays.
LEMMA RestStep ==
  ASSUME RunInv, UNCHANGED vars
  PROVE  RunInv'
<1> SUFFICES ASSUME Analysed' PROVE RunInv'
  BY DEF RunInv
<1>1. UNCHANGED <<img, analysis>>
  BY DEF vars
<1>2. Analysed
  BY <1>1, Unmoved
<1> QED BY <1>1, <1>2 DEF RunInv, vars, analysis, Safe, Stripped, CutAtFdes, Trailed, Trail,
               Continues, Forms

\* Every step keeps the invariant of the running program: it starts at an entry
\* point once the analysis has ended, and goes on from there.
LEMMA RunStep ==
  ASSUME AnalysisInv, RunInv, [Next]_vars
  PROVE  RunInv'
<1> USE DEF vars
<1>0. 0 \notin DOMAIN img.code
  BY ImageAssumption DEF AnalysisInv, InText
<1>1. CASE Refuse \/ FindFunctions
  <2>1. pos' = 0 /\ known' = {}
    BY <1>1 DEF AnalysisInv, Refuse, FindFunctions
  <2> QED BY <2>1 DEF RunInv
<1>2. CASE Analyse
  <2>1. UNCHANGED <<img, pos, known>> /\ (pc = "done" => UNCHANGED analysis)
    BY <1>2, AnalyseStep
  <2>2. CASE pc = "done"
    BY <2>1, <2>2, RestStep
  <2>3. CASE pc # "done"
    <3>1. pos' = 0 /\ known' = {}
      BY <2>1, <2>3 DEF AnalysisInv
    <3> QED BY <3>1 DEF RunInv
  <2> QED BY <2>2, <2>3
<1>3. CASE Enter
  <2> SUFFICES ASSUME Analysed' PROVE RunInv'
    BY DEF RunInv
  <2>1. UNCHANGED <<img, analysis>> /\ known' = known /\ pos' \in EntryPoints
    BY <1>3 DEF Enter
  <2>2. Analysed
    BY <2>1, Unmoved
  <2>3. Safe(pos')
    BY <2>1, <2>2, EntrySafe
  <2>4. Stripped /\ CutAtFdes => Trailed(pos')
    BY <2>1, <2>2, CutFunctions DEF CutRegular, NopsArePadding, Trailed
  <2> QED BY <2>1, <2>2, <2>3, <2>4 DEF RunInv, analysis, Safe, Stripped, CutAtFdes,
                 Trailed, Trail, Continues, Forms
<1>4. CASE Execute
  <2> SUFFICES ASSUME Analysed' PROVE RunInv'
    BY DEF RunInv
  <2>1. UNCHANGED <<img, analysis>> /\ pos # 0
    BY <1>0, <1>4 DEF Execute
  <2>2. Analysed
    BY <2>1, Unmoved
  <2>3. /\ Safe(pos') /\ (Stripped /\ CutAtFdes => Trailed(pos'))
        /\ \A k \in known' : /\ InText(k) /\ Safe(k)
                             /\ \E b \in DOMAIN img.code : k \in Forms(img.code[b])
    BY <1>4, <2>1, <2>2, ExecuteSafe
  <2> QED BY <2>1, <2>3 DEF RunInv, analysis, Safe, Stripped, CutAtFdes,
                 Trailed, Trail, Continues, Forms
<1>5. CASE UNCHANGED vars
  BY <1>5, RestStep
<1> QED BY <1>1, <1>2, <1>3, <1>4, <1>5 DEF Next

\* Every step keeps the invariant of the analysis.
LEMMA AnalysisStep ==
  ASSUME AnalysisInv, [Next]_vars
  PROVE  AnalysisInv'
<1> USE DEF vars
<1>0. 0 \notin DOMAIN img.code
  BY ImageAssumption DEF AnalysisInv, InText
<1>1. CASE Refuse
  BY <1>1 DEF AnalysisInv, Refuse
<1>2. CASE FindFunctions
  <2>1. Searched'
    BY <1>2, FindStep
  <2> QED BY <1>2, <2>1 DEF AnalysisInv, FindFunctions
<1>3. CASE Analyse
  <2>1. /\ UNCHANGED <<img, funcs, pos, known>> /\ pc' # "load"
        /\ Searched => Searched'
        /\ pc = "done" => UNCHANGED analysis
    BY <1>3, AnalyseStep
  <2>2. CASE pc = "done"
    BY <2>1, <2>2 DEF AnalysisInv, analysis
  <2>3. CASE pc # "done"
    <3>1. Searched
      BY <1>3, <2>3 DEF AnalysisInv, Analyse
    <3> QED BY <2>1, <2>3, <3>1 DEF AnalysisInv
  <2> QED BY <2>2, <2>3
<1>4. CASE Enter \/ Execute \/ UNCHANGED vars
  <2>1. UNCHANGED <<img, analysis>> /\ (pc # "done" => UNCHANGED <<pos, known>>)
    BY <1>0, <1>4 DEF Enter, Execute, AnalysisInv
  <2>2. Searched => Searched'
    BY <2>1, Unmoved
  <2> QED BY <2>1, <2>2 DEF AnalysisInv, analysis
<1> QED BY <1>1, <1>2, <1>3, <1>4 DEF Next

\* A program in live functions stands on no dead one.
LEMMA SafeKept ==
  ASSUME AnalysisInv, RunInv, Regular
  PROVE  ReachedKept
<1> SUFFICES ASSUME NEW n \in dead, Contains(funcs, n, pos) PROVE FALSE
  BY DEF ReachedKept
<1>1. Searched
  BY DEF AnalysisInv
<1>2. pc = "done" /\ n \in DOMAIN funcs /\ n \notin live
  BY <1>1 DEF Searched, R!IInv, R!DeadInv
<1>3. Analysed
  BY <1>1, <1>2 DEF AnalysisInv, Analysed
<1>4. CASE pos = 0
  <2>1. funcs[n].addr > 0 /\ funcs[n].addr <= 0
    BY <1>1, <1>2, <1>4, FuncsFlat DEF AnalysisInv, Searched, Contains
  <2>2. funcs[n].addr \in Nat
    BY <1>1, <1>2, SearchAssumptions DEF Searched, R!IInv, R!TypeOK, R!ImageAssumption, R!FuncInfo
  <2> QED BY <2>1, <2>2
<1>5. CASE pos # 0
  BY <1>2, <1>3, <1>5 DEF RunInv, Safe
<1> QED BY <1>4, <1>5

(***************************************************************************)
(* What the program executes is not reported dead: however functions were  *)
(* found, references resolved and hash sets iterated, the program that     *)
(* runs after analyze_elf_full never stands on a byte of a dead function.  *)
(***************************************************************************)
THEOREM ExecutedKept == Spec => [](Regular => ReachedKept)
<1>1. Init => AnalysisInv /\ RunInv
  BY DEF Init, AnalysisInv, RunInv, Analysed
<1>2. AnalysisInv /\ RunInv /\ [Next]_vars => AnalysisInv' /\ RunInv'
  BY AnalysisStep, RunStep
<1>3. AnalysisInv /\ RunInv => (Regular => ReachedKept)
  BY SafeKept
<1> QED BY <1>1, <1>2, <1>3, PTL DEF Spec

=============================================================================
