----------------------------- MODULE RelrProofs -----------------------------
(***************************************************************************)
(* Proofs about Relr, for images with any segments, tables and relocations *)
(* and any page size: a refused input comes back as it was, and what the   *)
(* drain moves can still be mapped.                                        *)
(***************************************************************************)
EXTENDS Relr, Facts

-----------------------------------------------------------------------------
(* Types. *)

\* After the checks the plan is made and only the copy changes.
Rewriting == {"addends", "tables", "dynamic", "header", "drain", "append"}

\* The checks pass or give one of their reasons.
LEMMA PlanWhy == \A d, s : Plan(d, s).why \in Reasons
<1> QED BY SMTT(60) DEF Plan, refused, Reasons

\* Where the copy is still the input, or must be.
TypeInv ==
  /\ static \in BOOLEAN /\ pc \in Steps /\ plan.why \in Reasons
  /\ pc = "check" => out = img /\ plan.why = "none"
  /\ pc \in Rewriting => plan.why = "none"
  /\ pc = "addends" => out = img
  /\ pc \in {"done", "loaded"} /\ plan.why # "none" => out = img

\* It holds at the start.
LEMMA InitType ==
  ASSUME Init
  PROVE  TypeInv
<1>1. static \in BOOLEAN
  BY Zenon DEF Init
<1>2. plan.why = "none" /\ out = img /\ pc = "check"
  BY DEF Init, refused
<1>3. plan.why \in Reasons
  BY <1>2 DEF Reasons
<1> QED BY <1>1, <1>2, <1>3 DEF TypeInv, Steps, Rewriting

\* Every step keeps it.
LEMMA TypeStep ==
  ASSUME TypeInv, [Next]_vars
  PROVE  TypeInv'
<1> USE DEF TypeInv, Steps, Rewriting
<1>1. CASE pack_relative
  BY <1>1, PlanWhy DEF pack_relative
<1>2. CASE write_addends
  BY <1>2 DEF write_addends
<1>3. CASE write_tables
  BY <1>3 DEF write_tables
<1>4. CASE write_dynamic
  BY <1>4 DEF write_dynamic
<1>5. CASE update_rela_header
  BY <1>5 DEF update_rela_header
<1>6. CASE apply_drain
  BY <1>6 DEF apply_drain, after_drain
<1>7. CASE keep_slack
  BY <1>7 DEF keep_slack, after_drain
<1>8. CASE append_header
  BY <1>8 DEF append_header
<1>9. CASE leave_unnamed
  BY <1>9 DEF leave_unnamed
<1>10. CASE Load
  BY <1>10 DEF Load
<1>11. CASE UNCHANGED vars
  BY <1>11 DEF vars
<1> QED BY <1>1, <1>2, <1>3, <1>4, <1>5, <1>6, <1>7, <1>8, <1>9, <1>10, <1>11 DEF Next, Done

\* No step leaves the stages of pack_relative, and an image that some check
\* refuses comes back as it was.
THEOREM TypeCorrect == Spec => []TypeOK
<1>1. Init => TypeInv
  BY InitType
<1>2. TypeInv /\ [Next]_vars => TypeInv'
  BY TypeStep
<1>3. TypeInv => TypeOK
  BY DEF TypeInv, TypeOK, Steps, Rewriting
<1> QED BY <1>1, <1>2, <1>3, PTL DEF Spec

-----------------------------------------------------------------------------
(* What the checks leave of the table. *)

\* Where tags lead.
LEMMA TagType ==
  ASSUME NEW tags, \A i \in DOMAIN tags : i \in Nat /\ tags[i] \in Nat \X Nat, NEW k
  PROVE  (has(tags, k) => tag(tags, k) \in Nat) /\ tag_or_0(tags, k) \in Nat
<1> DEFINE S == {i \in DOMAIN tags : tags[i][1] = k}
<1>1. ASSUME has(tags, k) PROVE tag(tags, k) \in Nat
  <2>1. S \in SUBSET Nat /\ S # {}
    BY <1>1 DEF has
  <2>2. Min(S) \in S
    <3> HIDE DEF S
    <3> QED BY <2>1, MinIsLeast
  <2>3. tags[Min(S)][2] \in Nat
    BY <2>2
  <2> QED BY <2>3 DEF tag
<1> QED BY <1>1 DEF tag_or_0

Phdrs == [ptype : STRING, offset : Nat, vaddr : Nat, filesz : Nat, memsz : Nat, align : Nat \ {0}]
Shdrs == [name : STRING, stype : STRING, offset : Nat, size : Nat, addr : Nat]

\* The parts of an image.
LEMMA ImageParts ==
  ASSUME NEW d \in Images
  PROVE  /\ d.phdrs \in Seq(Phdrs) /\ DOMAIN d.phdrs = 1..Len(d.phdrs) /\ Len(d.phdrs) \in Nat
         /\ d.shdrs \in Seq(Shdrs)
         /\ Len(d.file) \in Nat /\ d.shoff \in Nat /\ d.phoff \in Nat
<1>1. /\ d.phdrs \in Seq(Phdrs) /\ d.shdrs \in Seq(Shdrs)
      /\ Len(d.file) \in Nat /\ d.shoff \in Nat /\ d.phoff \in Nat
  BY ImageAssumption, Zenon DEF Phdrs, Shdrs
<1> QED BY <1>1

\* Program headers are records of numbers.
LEMMA PhdrType ==
  ASSUME NEW d \in Images, NEW i \in DOMAIN d.phdrs
  PROVE  /\ d.phdrs[i] \in Phdrs
         /\ d.phdrs[i].offset \in Nat /\ d.phdrs[i].vaddr \in Nat /\ d.phdrs[i].filesz \in Nat
         /\ d.phdrs[i].align \in Nat \ {0}
<1>1. d.phdrs \in Seq(Phdrs)
  BY ImageParts
<1>2. d.phdrs[i] \in Phdrs
  BY <1>1
<1> QED BY <1>2 DEF Phdrs

\* A segment that was found is one.
LEMMA SegmentFound ==
  ASSUME NEW d \in Images, NEW a, NEW n, load_seg(d, a, n) # 0
  PROVE  load_seg(d, a, n) \in DOMAIN d.phdrs
<1> DEFINE S == {i \in ptype(d, "LOAD") : /\ d.phdrs[i].vaddr <= a
                                          /\ a + n <= d.phdrs[i].vaddr + d.phdrs[i].filesz}
<1>1. load_seg(d, a, n) = IF S = {} THEN 0 ELSE Min(S)
  BY DEF load_seg
<1>2. DOMAIN d.phdrs \subseteq Nat
  <2> HIDE DEF S
  <2> QED BY ImageParts
<1>3. S \in SUBSET Nat /\ S \subseteq DOMAIN d.phdrs
  BY <1>2 DEF ptype
<1> HIDE DEF S
<1> QED BY <1>1, <1>3, MinIsLeast

\* If nothing was refused the table is in a segment and the new ones fit.
LEMMA PlanFits ==
  ASSUME img \in Images, plan = Plan(img, static), plan.why = "none"
  PROVE  /\ t.off \in Int /\ t.size \in Nat
         /\ left + relr_size \in 0..t.size
         /\ new_end \in Int
<1> DEFINE tb == rela_table(img)
           relocs == entries(img, tb.off, tb.size)
           keep == split_keep(img, relocs)
           words == encode_relr(sorted_offsets(split_packed(img, relocs)))
<1>1. /\ plan.t = tb /\ plan.keep = keep /\ plan.words = words
      /\ ~bad_table(img) /\ ptype(img, "DYNAMIC") # {}
      /\ Len(keep) * RELA_SIZE + Len(words) * WORD \in 0..tb.size
  BY SMTT(60) DEF Plan, refused
<1> DEFINE tags == read_dynamic(img)
           addr == tag(tags, DT_RELA)
           size == tag_or_0(tags, DT_RELASZ)
<1>2. \A i \in DOMAIN tags : i \in Nat /\ tags[i] \in Nat \X Nat
  BY <1>1, ImageAssumption
<1>3. has(tags, DT_RELA) /\ load_seg(img, addr, size) # 0
  BY <1>1 DEF bad_table
<1>4. addr \in Nat /\ size \in Nat
  BY <1>2, <1>3, TagType
<1>5. load_range(img, addr, size) \in Int
  BY <1>3, <1>4, SegmentFound, PhdrType DEF load_range
<1>6. tb.off \in Int /\ tb.size \in Nat
  BY <1>4, <1>5 DEF rela_table
<1> HIDE DEF keep, words, tb
<1>7. t = tb /\ left + relr_size = Len(keep) * RELA_SIZE + Len(words) * WORD
  BY <1>1 DEF t, left, relr_size
<1>8. left + relr_size \in 0..t.size
  BY <1>1, <1>7
<1>9. left + relr_size \in Int
  BY <1>6, <1>7, <1>8
<1> HIDE DEF left, relr_size
<1> QED BY <1>6, <1>7, <1>8, <1>9 DEF new_end

-----------------------------------------------------------------------------
(* How far things move. *)

\* The offset where content goes on.
LEMMA NextContentType ==
  ASSUME NEW d \in Images
  PROVE  next_content(d) \in Nat
<1> DEFINE X == {s.offset : s \in {x \in secs(d) \cup {shtab(d), phtab(d)} : x.size > 0}}
           Y == {p.offset : p \in {x \in ToSet(d.phdrs) : x.filesz > 0}}
           S == {Len(d.file) * WORD} \cup {o \in X \cup Y : o >= old_end}
<1>1. d.shdrs \in Seq(Shdrs) /\ d.shoff \in Nat /\ d.phoff \in Nat /\ Len(d.file) \in Nat
  BY ImageParts
<1>2. \A i \in DOMAIN d.shdrs : d.shdrs[i].offset \in Nat
  <2>1. \A i \in DOMAIN d.shdrs : d.shdrs[i] \in Shdrs
    BY <1>1
  <2> QED BY <2>1 DEF Shdrs
<1>3. X \subseteq Nat
  BY <1>1, <1>2 DEF secs, shtab, phtab
<1>4. Y \subseteq Nat
  BY PhdrType DEF ToSet
<1>5. Len(d.file) * WORD \in Nat
  <2>1. WORD \in Nat
    BY RelrAssumption
  <2> QED BY <1>1, <2>1
<1> HIDE DEF X, Y
<1>6. S \in SUBSET Nat /\ S # {}
  BY <1>3, <1>4, <1>5
<1>7. next_content(d) = Min(S)
  BY DEF next_content, X, Y
<1> HIDE DEF S
<1> QED BY <1>6, <1>7, MinIsLeast

\* What moves is aligned to the greatest alignment that moves.
LEMMA ShiftAlignIs ==
  ASSUME NEW d \in Images, NEW from
  PROVE  /\ shift_align(d, from) \in {PAGE} \cup {d.phdrs[i].align : i \in DOMAIN d.phdrs}
         /\ shift_align(d, from) \in Nat \ {0}
         /\ \A i \in DOMAIN d.phdrs :
              d.phdrs[i].filesz > 0 /\ d.phdrs[i].offset >= from
                => d.phdrs[i].align <= shift_align(d, from)
<1> DEFINE A == {PAGE} \cup {d.phdrs[i].align : i \in DOMAIN d.phdrs}
           S == {PAGE} \cup {p.align : p \in {x \in ToSet(d.phdrs) : x.filesz > 0 /\ x.offset >= from}}
           l == Len(d.phdrs)
           seq == [k \in 1..(l + 1) |-> IF k = l + 1 THEN PAGE ELSE d.phdrs[k].align]
<1>1. DOMAIN d.phdrs = 1..l /\ l \in Nat
  BY ImageParts
<1>2. PAGE \in Nat \ {0} /\ \A i \in DOMAIN d.phdrs : d.phdrs[i].align \in Nat \ {0}
  BY PhdrType, RelrAssumption
<1> HIDE DEF l
<1>3. A \in SUBSET (Nat \ {0})
  BY <1>2
<1>4. IsFiniteSet(A)
  <2>1. seq \in Seq(A)
    BY <1>1
  <2>2. \A s \in A : \E n \in 1..(l + 1) : seq[n] = s
    <3>1. seq[l + 1] = PAGE /\ l + 1 \in 1..(l + 1)
      BY <1>1
    <3>2. ASSUME NEW i \in DOMAIN d.phdrs PROVE i \in 1..(l + 1) /\ seq[i] = d.phdrs[i].align
      BY <1>1
    <3> QED BY <3>1, <3>2
  <2>3. Len(seq) = l + 1
    BY <1>1
  <2> HIDE DEF seq, A
  <2> QED BY <2>1, <2>2, <2>3 DEF IsFiniteSet
<1>5. S \subseteq A /\ S # {}
  BY DEF ToSet
<1>6. shift_align(d, from) = Max(S)
  BY DEF shift_align
<1>7. \A i \in DOMAIN d.phdrs : d.phdrs[i].filesz > 0 /\ d.phdrs[i].offset >= from
                => d.phdrs[i].align \in S
  BY DEF ToSet
<1>8. PICK n \in Nat : A \in SUBSET (0..n)
  <2> HIDE DEF A
  <2> QED BY <1>3, <1>4, FiniteBounded
<1> HIDE DEF A, S
<1>9. Max(S) \in S /\ \A y \in S : y <= Max(S)
  <2>1. S \in SUBSET (0..n)
    BY <1>5, <1>8
  <2> QED BY <1>5, <2>1, MaxIsGreatest
<1> QED BY <1>3, <1>5, <1>6, <1>7, <1>9 DEF A

\* A multiple of a multiple does not change a remainder of 0.
LEMMA ShiftedRemainder ==
  ASSUME NEW a \in Nat \ {0}, NEW A \in Int, A % a = 0, NEW q \in Int, NEW x \in Int, x % a = 0
  PROVE  (x - q * A) % a = 0
<1>1. A = a * (A \div a) /\ A \div a \in Int
  OBVIOUS
<1>2. x = a * (x \div a) /\ x \div a \in Int
  OBVIOUS
<1>3. \A m, n \in Int : a * n - q * (a * m) = a * (n - q * m)
  OBVIOUS
<1>4. x - q * A = a * ((x \div a) - q * (A \div a))
  BY <1>1, <1>2, <1>3
<1>5. \A k \in Int : (a * k) % a = 0
  OBVIOUS
<1>6. (x \div a) - q * (A \div a) \in Int
  BY <1>1, <1>2
<1> QED BY <1>4, <1>5, <1>6

-----------------------------------------------------------------------------
(* Segments. *)

(***************************************************************************)
(* The input can be mapped: alignments are powers of two, so the greater   *)
(* is a multiple of the smaller; the offset and the address of a segment   *)
(* agree modulo its alignment; and every segment has bytes in the file,    *)
(* since shift_align only asks those.                                      *)
(***************************************************************************)
Alignments(d) == {PAGE} \cup {d.phdrs[i].align : i \in DOMAIN d.phdrs}

WasMappable ==
  /\ \A a, b \in Alignments(img) : a <= b => b % a = 0
  /\ \A i \in ptype(img, "LOAD") :
       /\ (img.phdrs[i].offset - img.phdrs[i].vaddr) % img.phdrs[i].align = 0
       /\ img.phdrs[i].filesz > 0

\* The drain leaves the types of segments alone.
LEMMA DrainTypes ==
  ASSUME img \in Images, NEW next, NEW n, NEW i \in DOMAIN img.phdrs
  PROVE  moved_phdrs(img, next, n)[i].ptype = img.phdrs[i].ptype
<1> DEFINE s == img.phdrs[i]
           p == moved_phdrs(img, next, n)[i]
<1>1. s \in Phdrs
  BY PhdrType
<1>2. p = IF i = t.seg THEN [s EXCEPT !.filesz = new_end - s.offset, !.memsz = new_end - s.offset]
          ELSE [s EXCEPT !.offset = down(s.offset, next, n)]
  BY DEF moved_phdrs
<1> HIDE DEF s, p
<1>3. p.ptype = s.ptype
  BY <1>1, <1>2 DEF Phdrs
<1> QED BY <1>3 DEF s, p

\* The drain moves each segment by a multiple of its alignment.
LEMMA DrainAligned ==
  ASSUME img \in Images, WasMappable, plan = Plan(img, static), plan.why = "none",
         NEW i \in ptype(img, "LOAD")
  PROVE  LET p == moved_phdrs(img, next_content(img), drain_len(img))[i]
         IN /\ p.align = img.phdrs[i].align /\ p.ptype = img.phdrs[i].ptype
            /\ p.vaddr = img.phdrs[i].vaddr
            /\ (p.offset - p.vaddr) % p.align = 0
<1> DEFINE s == img.phdrs[i]
           from == next_content(img)
           A == shift_align(img, from)
           q == (from - new_end) \div A
           n == drain_len(img)
           p == moved_phdrs(img, from, n)[i]
<1>1. i \in DOMAIN img.phdrs
  BY DEF ptype
<1>2. s.offset \in Nat /\ s.vaddr \in Nat /\ s.align \in Nat \ {0} /\ s.filesz \in Nat
  BY <1>1, PhdrType
<1>3. from \in Nat /\ new_end \in Int
  BY NextContentType, PlanFits
<1>4. A \in Nat \ {0} /\ A \in Alignments(img) /\ s.align \in Alignments(img)
      /\ (s.offset >= from => s.align <= A)
  BY <1>1, ShiftAlignIs DEF Alignments, WasMappable
<1>5. n = q * A
  BY DEF drain_len
<1> HIDE DEF A, from
<1>6. q \in Int
  BY <1>3, <1>4
<1>7. (s.offset - s.vaddr) % s.align = 0
  BY DEF WasMappable
<1>8. /\ p.align = s.align /\ p.ptype = s.ptype /\ p.vaddr = s.vaddr
      /\ p.offset = s.offset \/ (s.offset >= from /\ p.offset = s.offset - n)
  <2>1. s \in Phdrs
    BY <1>1, PhdrType
  <2>2. p = IF i = t.seg THEN [s EXCEPT !.filesz = new_end - s.offset, !.memsz = new_end - s.offset]
            ELSE [s EXCEPT !.offset = down(s.offset, from, n)]
    BY <1>1 DEF moved_phdrs
  <2> HIDE DEF s, p, n
  <2> QED BY <2>1, <2>2 DEF Phdrs, down
<1> HIDE DEF n, p, q, s
<1>9. ASSUME s.offset >= from PROVE ((s.offset - n) - s.vaddr) % s.align = 0
  <2>1. A % s.align = 0
    BY <1>4, <1>9 DEF WasMappable
  <2>2. ((s.offset - s.vaddr) - q * A) % s.align = 0
    <3>1. s.offset - s.vaddr \in Int /\ A \in Int
      BY <1>2, <1>4
    <3> QED BY <1>2, <1>6, <1>7, <2>1, <3>1, ShiftedRemainder
  <2>3. (s.offset - n) - s.vaddr = (s.offset - s.vaddr) - q * A
    BY <1>2, <1>4, <1>5, <1>6
  <2> QED BY <2>2, <2>3
<1>10. (p.offset - p.vaddr) % p.align = 0
  BY <1>7, <1>8, <1>9
<1> QED BY <1>8, <1>10 DEF p, n, from, s


\* The program headers apply_drain leaves.
Moved == moved_phdrs(img, next_content(img), drain_len(img))

\* Up to the drain the program headers are the input's, afterwards they are
\* those or the ones apply_drain moved.
HeaderInv ==
  /\ img \in Images
  /\ {"phdrs", "shdrs", "strs", "shoff", "phoff", "file"} \subseteq DOMAIN out
  /\ pc # "check" /\ plan.why = "none" => plan = Plan(img, static)
  /\ \/ out.phdrs = img.phdrs
     \/ /\ pc \in {"append", "done", "loaded"} /\ plan.why = "none"
        /\ out.phdrs = Moved

\* Writing words leaves the headers alone.
LEMMA PutKeeps ==
  ASSUME NEW d, NEW new
  PROVE  /\ DOMAIN put(d, new) = DOMAIN d
         /\ "phdrs" \in DOMAIN d => put(d, new).phdrs = d.phdrs
BY DEF put

\* What the drain makes of the headers depends on the image and the plan.
LEMMA DrainFixed ==
  ASSUME UNCHANGED <<img, plan>>
  PROVE  Moved' = Moved
<1>1. UNCHANGED <<t, left, relr_size, new_end, old_end>>
  BY DEF t, left, relr_size, new_end, old_end
<1>2. next_content(img)' = next_content(img)
  BY <1>1 DEF next_content, secs, shtab, phtab, old_end, t
<1>3. drain_len(img)' = drain_len(img)
  BY <1>1, <1>2 DEF drain_len
<1> QED BY <1>1, <1>2, <1>3 DEF Moved, moved_phdrs

\* Every step keeps it.
LEMMA HeaderStep ==
  ASSUME TypeInv, HeaderInv, [Next]_vars
  PROVE  HeaderInv'
<1> USE DEF HeaderInv
<1>1. CASE pack_relative
  BY <1>1 DEF pack_relative
<1>2. CASE write_addends
  BY <1>2, PutKeeps DEF write_addends
<1>3. CASE write_tables
  <2> DEFINE new == [o \in {t.off + k * WORD : k \in 0..(t.size \div WORD - 1)} |->
       LET k == (o - t.off) \div WORD + 1
       IN IF k <= Len(table_words) THEN table_words[k] ELSE 0]
  <2>1. out' = put(out, new) /\ pc = "tables" /\ UNCHANGED <<img, static, plan>> /\ pc' = "dynamic"
    BY <1>3 DEF write_tables
  <2> HIDE DEF new
  <2> QED BY <2>1, PutKeeps
<1>4. CASE write_dynamic
  <2> DEFINE new == [o \in {dyn(img).offset + k * WORD : k \in 0..(2 * slots(img) - 1)} |->
       LET k == (o - dyn(img).offset) \div WORD
           i == k \div 2 + 1
       IN IF i <= Len(plan.tags) THEN plan.tags[i][(k % 2) + 1] ELSE 0]
  <2>1. out' = put(out, new) /\ pc = "dynamic" /\ UNCHANGED <<img, static, plan>> /\ pc' = "header"
    BY <1>4 DEF write_dynamic
  <2> HIDE DEF new
  <2> QED BY <2>1, PutKeeps
<1>5. CASE update_rela_header
  <2>1. DOMAIN out' = DOMAIN out /\ out'.phdrs = out.phdrs
    BY <1>5 DEF update_rela_header
  <2> QED BY <1>5, <2>1 DEF update_rela_header
<1>6. CASE apply_drain
  <2>1. /\ out.phdrs = img.phdrs /\ plan.why = "none"
    BY <1>6 DEF apply_drain, TypeInv, Rewriting
  <2>2. DOMAIN out' = DOMAIN out
        /\ out'.phdrs = moved_phdrs(out, next_content(img), drain_len(img))
    BY <1>6 DEF apply_drain
  <2>3. moved_phdrs(out, next_content(img), drain_len(img)) = Moved
    BY <2>1 DEF Moved, moved_phdrs
  <2>4. UNCHANGED <<img, static, plan>> /\ pc = "drain" /\ pc' \in {"append", "done"}
    BY <1>6 DEF apply_drain, after_drain
  <2>5. Moved' = Moved
    BY <2>4, DrainFixed
  <2> QED BY <2>1, <2>2, <2>3, <2>4, <2>5
<1>7. CASE keep_slack
  BY <1>7, DrainFixed DEF keep_slack, after_drain
<1>8. CASE append_header
  <2>1. DOMAIN out' = DOMAIN out /\ out'.phdrs = out.phdrs
    BY <1>8 DEF append_header
  <2> QED BY <1>8, <2>1, DrainFixed DEF append_header
<1>9. CASE leave_unnamed
  BY <1>9, DrainFixed DEF leave_unnamed
<1>10. CASE Load
  BY <1>10, DrainFixed DEF Load
<1>11. CASE UNCHANGED vars
  BY <1>11, DrainFixed DEF vars
<1> QED BY <1>1, <1>2, <1>3, <1>4, <1>5, <1>6, <1>7, <1>8, <1>9, <1>10, <1>11 DEF Next, Done

(***************************************************************************)
(* An image that could be mapped still can: whatever pages plan_drain lets *)
(* apply_drain take out, the offset of every segment agrees with its       *)
(* address modulo its own alignment, which may be coarser than a page.     *)
(***************************************************************************)
THEOREM DrainKeepsMappable == Spec => [](WasMappable => StillMappable)
<1>1. Init => TypeInv /\ HeaderInv
  <2>1. Init => HeaderInv
    BY ImageAssumption DEF Init, HeaderInv
  <2> QED BY <2>1, InitType
<1>2. TypeInv /\ HeaderInv /\ [Next]_vars => TypeInv' /\ HeaderInv'
  BY TypeStep, HeaderStep
<1>3. TypeInv /\ HeaderInv => (WasMappable => StillMappable)
  <2> SUFFICES ASSUME TypeInv, HeaderInv, WasMappable, pc = "done", NEW i \in ptype(out, "LOAD")
               PROVE  (out.phdrs[i].offset - out.phdrs[i].vaddr) % out.phdrs[i].align = 0
    BY DEF StillMappable
  <2>1. CASE out.phdrs = img.phdrs
    <3>1. i \in ptype(img, "LOAD")
      BY <2>1 DEF ptype
    <3> QED BY <2>1, <3>1 DEF WasMappable
  <2>2. CASE out.phdrs = Moved /\ plan.why = "none"
    <3>1. DOMAIN out.phdrs = DOMAIN img.phdrs
      BY <2>2 DEF Moved, moved_phdrs
    <3>2. img \in Images /\ plan = Plan(img, static)
      BY <2>2 DEF HeaderInv
    <3>3. out.phdrs[i].ptype = img.phdrs[i].ptype
      BY <2>2, <3>1, <3>2, DrainTypes DEF ptype, Moved
    <3>4. i \in ptype(img, "LOAD")
      BY <3>1, <3>3 DEF ptype
    <3> QED BY <2>2, <3>2, <3>4, DrainAligned DEF Moved
  <2> QED BY <2>1, <2>2 DEF HeaderInv
<1> QED BY <1>1, <1>2, <1>3, PTL DEF Spec


=============================================================================
