-------------------------------- MODULE Relr --------------------------------
(***************************************************************************)
(* pack_relative of format/elf/relr.rs: RELATIVE relocations move from the *)
(* DT_RELA table to a RELR table that takes its place, and the pages that  *)
(* this frees leave the file.  All checks come first (Plan); then one      *)
(* action per function of rewrite.                                         *)
(*                                                                         *)
(* Offsets, addresses and sizes are in bytes, the file is a sequence of    *)
(* words of WORD bytes.  Program and section headers are kept apart from   *)
(* the bytes as records; their tables still take room in the file.  An     *)
(* image is a record:                                                      *)
(*   machine, class, le, etype, entry, xnum (a PN_XNUM or SHN_XINDEX       *)
(*   escape)  what the ELF header says                                     *)
(*   phoff, shoff, shstrndx              place of the header tables        *)
(*   phdrs    [ptype, offset, vaddr, filesz, memsz, align]                 *)
(*   shdrs    [name, stype, offset, size, addr]                            *)
(*   libc     whether some DT_NEEDED name starts with libc.so.             *)
(*   versions the Verneed entries with the names of their Vernaux entries  *)
(*   strs     the section name table, shared: whether another name in it   *)
(*            overlaps the bytes of .rela.dyn                              *)
(*   file     the words                                                    *)
(***************************************************************************)
EXTENDS Integers, Sequences, FiniteSets, SequencesExt, FiniteSetsExt

CONSTANTS
  WORD, BITMAP_BITS, PAGE,
  EHDR_SIZE, PHDR_SIZE, SHDR_SIZE, DYN_SIZE, REL_SIZE, RELA_SIZE,
  MAX_VERSIONS, SHN_LORESERVE,
  NameWord,   \* the bytes of the name .relr.dyn, one word
  Images      \* the images considered

ASSUME RelrAssumption ==
  /\ {WORD, BITMAP_BITS, PAGE} \subseteq Nat \ {0}
  /\ WORD % 2 = 0
  /\ {PAGE, EHDR_SIZE, PHDR_SIZE, SHDR_SIZE} \subseteq {WORD * k : k \in 1..PAGE}
  /\ DYN_SIZE = 2 * WORD /\ REL_SIZE = 2 * WORD /\ RELA_SIZE = 3 * WORD
  /\ NameWord \in Nat \ {0}

DT_NULL == 0
DT_PLTRELSZ == 2
DT_STRTAB == 5
DT_RELA == 7
DT_RELASZ == 8
DT_RELAENT == 9
DT_REL == 17
DT_PLTREL == 20
DT_JMPREL == 23
DT_RELRSZ == 35
DT_RELR == 36
DT_RELRENT == 37
DT_RELACOUNT == 40   \* stands for 0x6ffffff9
DT_FLAGS_1 == 41     \* stands for 0x6ffffffb, its value 1 for DF_1_PIE
DT_VERNEED == 42     \* stands for 0x6ffffffe

VARIABLES
  img,       \* the input
  static,    \* --relr-static
  pc,        \* the next step
  plan,      \* what the checks found: t, keep, packed, words, tags
  out,       \* the copy being rewritten
  why,       \* why the input was refused or its slack kept
  memory     \* what the loader makes of the file on disk

vars == <<img, static, pc, plan, out, why, memory>>

-----------------------------------------------------------------------------
(* Reading the image. *)

rd(d, off) == d.file[off \div WORD + 1]
inside(d, off, len) == off + len <= Len(d.file) * WORD

ptype(d, t) == {i \in DOMAIN d.phdrs : d.phdrs[i].ptype = t}

\* The first PT_LOAD whose file-backed part holds len bytes at addr, or 0.
load_seg(d, addr, len) ==
  LET S == {i \in ptype(d, "LOAD") :
              /\ d.phdrs[i].vaddr <= addr
              /\ addr + len <= d.phdrs[i].vaddr + d.phdrs[i].filesz}
  IN IF S = {} THEN 0 ELSE Min(S)

load_range(d, addr, len) ==
  LET p == d.phdrs[load_seg(d, addr, len)] IN p.offset + (addr - p.vaddr)

dyn(d) == d.phdrs[Min(ptype(d, "DYNAMIC"))]
slots(d) == dyn(d).filesz \div DYN_SIZE
slot(d, i) == LET at == dyn(d).offset + (i - 1) * DYN_SIZE
              IN <<rd(d, at), rd(d, at + WORD)>>

\* The tags before the first DT_NULL.
read_dynamic(d) ==
  LET nulls == {i \in 1..slots(d) : slot(d, i)[1] = DT_NULL}
  IN [i \in 1..(IF nulls = {} THEN slots(d) ELSE Min(nulls) - 1) |-> slot(d, i)]

\* Offsets, addresses, sizes and dynamic tags are numbers.
ASSUME ImageAssumption ==
  \A d \in Images :
    /\ {"file", "phdrs", "shdrs", "shoff", "phoff", "strs"} \subseteq DOMAIN d
    /\ Len(d.file) \in Nat /\ d.shoff \in Nat /\ d.phoff \in Nat
    /\ d.phdrs \in Seq([ptype : STRING, offset : Nat, vaddr : Nat, filesz : Nat,
                        memsz : Nat, align : Nat \ {0}])
    /\ d.shdrs \in Seq([name : STRING, stype : STRING, offset : Nat, size : Nat, addr : Nat])
    /\ ptype(d, "DYNAMIC") # {} =>
         \A i \in DOMAIN read_dynamic(d) : i \in Nat /\ read_dynamic(d)[i] \in Nat \X Nat

has(tags, t) == \E i \in DOMAIN tags : tags[i][1] = t
tag(tags, t) == tags[Min({i \in DOMAIN tags : tags[i][1] = t})][2]
tag_or_0(tags, t) == IF has(tags, t) THEN tag(tags, t) ELSE 0

\* The entries of a table of n bytes at file offset off.  An r_info is a
\* record [rel, sym]: whether it has the RELATIVE type, and the symbol.
entries(d, off, n) ==
  [i \in 1..(n \div RELA_SIZE) |->
     LET at == off + (i - 1) * RELA_SIZE
     IN [r_offset |-> rd(d, at), info |-> rd(d, at + WORD), addend |-> rd(d, at + 2 * WORD)]]

\* The version walk meets each Verneed entry and then its Vernaux entries.
walk(versions) == FlattenSeq([i \in DOMAIN versions |-> <<"verneed">> \o versions[i]])
relr_version(versions) ==
  SelectInSeq(walk(versions), LAMBDA v : v = "GLIBC_ABI_DT_RELR")
\* A longer walk is an error, which refuses the input as a missing version does.
needs_version(versions) == relr_version(versions) \in 1..MAX_VERSIONS

\* DT_RELA: its place, its segment and its section header (0 when the file
\* has no section headers).
rela_section(d, addr, off, size) ==
  {i \in DOMAIN d.shdrs : /\ d.shdrs[i].stype = "RELA"
                          /\ d.shdrs[i].offset = off
                          /\ d.shdrs[i].size = size
                          /\ d.shdrs[i].addr = addr}

rela_table(d) ==
  LET tags == read_dynamic(d)
      addr == tag(tags, DT_RELA)
      size == tag_or_0(tags, DT_RELASZ)
      off  == load_range(d, addr, size)
      secs == rela_section(d, addr, off, size)
  IN [off |-> off, addr |-> addr, size |-> size, seg |-> load_seg(d, addr, size),
      sec |-> IF secs = {} THEN 0 ELSE Min(secs)]

jmprel_overlaps(tags, addr, size) ==
  /\ has(tags, DT_JMPREL) /\ tag_or_0(tags, DT_PLTRELSZ) > 0
  /\ tag(tags, DT_JMPREL) < addr + size
  /\ addr < tag(tags, DT_JMPREL) + tag(tags, DT_PLTRELSZ)

packable(d, e) ==
  /\ e.info.rel /\ e.info.sym = 0
  /\ e.r_offset % WORD = 0
  /\ load_seg(d, e.r_offset, WORD) # 0

split_packed(d, relocs) == SelectSeq(relocs, LAMBDA e : packable(d, e))
split_keep(d, relocs)   == SelectSeq(relocs, LAMBDA e : ~packable(d, e))

\* Mutant: every kept RELATIVE entry is counted, not the leading ones.
lead_All(keep) == Len(SelectSeq(keep, LAMBDA e : e.info.rel))

\* The new DT_RELACOUNT: how many kept entries, from the first on, are RELATIVE.
lead(keep) ==
  LET others == {i \in DOMAIN keep : ~keep[i].info.rel}
  IN IF others = {} THEN Len(keep) ELSE Min(others) - 1

sorted_offsets(packed) ==
  LET S == {e.r_offset : e \in ToSet(packed)}
  IN [i \in 1..Cardinality(S) |->
        CHOOSE a \in S : Cardinality({b \in S : b <= a}) = i]

\* Where the PLT relocations apply; DT_PLTREL tells the size of an entry.
jmprel_offsets(d) ==
  LET tags == read_dynamic(d)
      size == tag_or_0(tags, DT_PLTRELSZ)
      off  == load_range(d, tag(tags, DT_JMPREL), size)
      entsize == IF tag_or_0(tags, DT_PLTREL) = DT_RELA THEN RELA_SIZE ELSE REL_SIZE
  IN IF ~has(tags, DT_JMPREL) \/ size = 0 THEN {}
     ELSE {rd(d, off + i * entsize) : i \in 0..((size - 1) \div entsize)}

\* Some word of offsets shares a byte with [lo, lo + len).
overlaps(offsets, lo, len) ==
  \E a \in ToSet(offsets) : a + WORD > lo /\ a < lo + len

also_patched(others, offsets) == \E a \in others : overlaps(offsets, a, WORD)

-----------------------------------------------------------------------------
(* RELR: an even word is an address, an odd one a bitmap for the words     *)
(* after the last one the entry before it covered.                         *)

SPAN == BITMAP_BITS * WORD

\* words[i, base]: the words for the offsets from i on, when the next bitmap
\* would start at base (0: an address must come first).
encode_relr(offsets) ==
  LET n == Len(offsets)
      bits(C, base) ==
        MapThenSumSet(LAMBDA j : 2 ^ ((offsets[j] - base) \div WORD), C)
      words[i \in 1..(n + 1), base \in Nat] ==
        LET C == {j \in i..n : base > 0 /\ offsets[j] - base < SPAN} IN
        IF i > n THEN <<>>
        ELSE IF C = {} THEN <<offsets[i]>> \o words[i + 1, offsets[i] + WORD]
        ELSE <<2 * bits(C, base) + 1>> \o words[i + Cardinality(C), base + SPAN]
  IN words[1, 0]

decode_relr(words) ==
  LET bitmap(w, next) ==
        [k \in 1..BITMAP_BITS |-> IF (w \div 2 ^ k) % 2 = 1
                                  THEN <<next + (k - 1) * WORD>> ELSE <<>>]
      step(acc, w) ==
        IF w % 2 = 0
        THEN [out |-> Append(acc.out, w), next |-> w + WORD]
        ELSE [out |-> acc.out \o FlattenSeq(bitmap(w, acc.next)), next |-> acc.next + SPAN]
  IN FoldLeft(step, [out |-> <<>>, next |-> 0], words).out

\* The new tags: RELA resized, or dropped when no entry stays.
rela_tags == {DT_RELA, DT_RELASZ, DT_RELAENT, DT_RELACOUNT}
new_tags(tags, t, keep, words) ==
  LET left == Len(keep) * RELA_SIZE
      stay == SelectSeq(tags, LAMBDA x : left # 0 \/ x[1] \notin rela_tags)
      resize(x) == CASE x[1] = DT_RELASZ    -> <<x[1], left>>
                     [] x[1] = DT_RELACOUNT -> <<x[1], lead(keep)>>
                     [] OTHER               -> x
  IN [i \in DOMAIN stay |-> resize(stay[i])]
     \o << <<DT_RELR, t.addr + left>>, <<DT_RELRSZ, Len(words) * WORD>>, <<DT_RELRENT, WORD>> >>

-----------------------------------------------------------------------------
(* Every reason to refuse, in the order the code looks for them. *)

relocates_itself(d) ==
  /\ ptype(d, "INTERP") = {}
  /\ tag_or_0(read_dynamic(d), DT_FLAGS_1) = 1 \/ d.entry # 0

check_glibc(d) ==
  LET tags == read_dynamic(d)
  IN /\ has(tags, DT_VERNEED)
     /\ \/ ~has(tags, DT_STRTAB) \/ load_seg(d, tag(tags, DT_STRTAB), 1) = 0
        \/ d.libc /\ ~needs_version(d.versions)

bad_table(d) ==
  LET tags == read_dynamic(d)
      addr == tag(tags, DT_RELA)
      size == tag_or_0(tags, DT_RELASZ)
  IN \/ has(tags, DT_RELR) \/ has(tags, DT_REL) \/ ~has(tags, DT_RELA)
     \/ tag_or_0(tags, DT_RELAENT) # RELA_SIZE
     \/ size = 0 \/ size % RELA_SIZE # 0 \/ addr % WORD # 0
     \/ jmprel_overlaps(tags, addr, size)
     \/ load_seg(d, addr, size) = 0
     \/ load_range(d, addr, size) % WORD # 0
     \/ d.shdrs # <<>> /\ rela_section(d, addr, load_range(d, addr, size), size) = {}

relative_type(d) == d.machine \in {"x86-64", "AArch64"} /\ d.class = 64 /\ d.le

\* Counts that do not fit the ELF header are in section header 0, unread.
check_numbering(d) == ~d.xnum /\ (d.shdrs = <<>> => d.shoff = 0)

disagree(packed) ==
  \E e, f \in ToSet(packed) : e.r_offset = f.r_offset /\ e.addend # f.addend

in_tables(d, t, offsets) ==
  overlaps(offsets, t.addr, t.size) \/ overlaps(offsets, dyn(d).vaddr, slots(d) * DYN_SIZE)

refused(reason) == [why |-> reason]

Plan(d, allow_static) ==
  LET t       == rela_table(d)
      relocs  == entries(d, t.off, t.size)
      packed  == split_packed(d, relocs)
      keep    == split_keep(d, relocs)
      offsets == sorted_offsets(packed)
      words   == encode_relr(offsets)
      tags    == new_tags(read_dynamic(d), t, keep, words)
  IN CASE ~relative_type(d)                           -> refused("relative_type")
       [] ~check_numbering(d)                        -> refused("check_numbering")
       [] d.etype # "DYN"                            -> refused("etype")
       [] ptype(d, "DYNAMIC") = {}                   -> refused("read_dynamic")
       [] check_glibc(d)                             -> refused("check_glibc")
       [] bad_table(d)                               -> refused("rela_table")
       [] ~allow_static /\ relocates_itself(d)       -> refused("static_pie")
       [] packed = <<>>                              -> refused("split_relocs")
       [] disagree(packed)                           -> refused("sorted_offsets")
       [] \/ also_patched({e.r_offset : e \in ToSet(keep)} \cup jmprel_offsets(d), offsets)
          \/ in_tables(d, t, offsets)                -> refused("check_targets")
       [] decode_relr(words) # offsets               -> refused("round_trip")
       [] Len(tags) + 1 > slots(d)                   -> refused("new_tags")
       [] Len(keep) * RELA_SIZE + Len(words) * WORD \notin 0..t.size
                                                     -> refused("write_tables")
       [] OTHER -> [why |-> "none", t |-> t, keep |-> keep, packed |-> packed,
                    words |-> words, tags |-> tags]

-----------------------------------------------------------------------------
(* The loader, external: it maps the segments, adds the load address to    *)
(* the words RELR names, then applies the RELA and PLT entries in order.   *)
(* The first DT_RELACOUNT entries are taken for RELATIVE unseen.           *)

mapped(d, a) ==
  \E i \in ptype(d, "LOAD") :
    d.phdrs[i].vaddr <= a /\ a + WORD <= d.phdrs[i].vaddr + d.phdrs[i].memsz

word(d, a) == IF load_seg(d, a, WORD) # 0 THEN rd(d, load_range(d, a, WORD)) ELSE 0

loader_tags(d) ==
  LET at(i) == dyn(d).vaddr + (i - 1) * DYN_SIZE
      nulls == {i \in 1..slots(d) : word(d, at(i)) = DT_NULL}
  IN [i \in 1..(Min(nulls) - 1) |-> <<word(d, at(i)), word(d, at(i) + WORD)>>]

\* The words the RELR table names, as often as it names them.
relr_targets(d) ==
  LET tags == loader_tags(d)
      w(i) == word(d, tag(tags, DT_RELR) + (i - 1) * WORD)
      n == tag_or_0(tags, DT_RELRSZ) \div WORD
      even == {i \in 1..n : w(i) % 2 = 0}
      start(i) == LET j == Max({e \in even : e < i})
                  IN w(j) + WORD + (i - j - 1) * SPAN
  IN {<<i, 0, w(i)>> : i \in even}
     \cup {<<x[1], x[2], start(x[1]) + (x[2] - 1) * WORD>> :
             x \in {y \in ((1..n) \ even) \X (1..BITMAP_BITS) :
                      (w(y[1]) \div 2 ^ y[2]) % 2 = 1}}

loader_table(d, addr, size) ==
  [i \in 1..(size \div RELA_SIZE) |->
     LET a == addr + (i - 1) * RELA_SIZE
     IN [r_offset |-> word(d, a), info |-> word(d, a + WORD), addend |-> word(d, a + 2 * WORD)]]

loader_relocs(d) ==
  LET tags == loader_tags(d)
      n == tag_or_0(tags, DT_RELACOUNT)
      table(a, s) == IF has(tags, a) THEN loader_table(d, tag(tags, a), tag_or_0(tags, s)) ELSE <<>>
      rela == table(DT_RELA, DT_RELASZ)
  IN [i \in DOMAIN rela |-> IF i <= n THEN [rela[i] EXCEPT !.info.rel = TRUE] ELSE rela[i]]
     \o table(DT_JMPREL, DT_PLTRELSZ)

\* The word at a once loaded: the load address, hits times, plus what it
\* held; or what the last entry stores there; or parts of what entries that
\* straddle words leave.
loaded(d, a, targets, relocs) ==
  LET hits  == Cardinality({x \in targets : x[3] = a})
      touch == SelectSeq(relocs, LAMBDA e : e.r_offset < a + WORD /\ a < e.r_offset + WORD)
  IN IF ~mapped(d, a) THEN <<"unmapped">>
     ELSE IF touch = <<>> THEN <<"base", hits, word(d, a)>>
     ELSE LET e == Last(touch) IN
          IF e.r_offset # a THEN <<"part", hits, word(d, a), touch>>
          ELSE IF e.info.rel THEN <<"base", 1, e.addend>>
          ELSE <<"symbol", e.info.sym, e.addend>>

relocation_tags == rela_tags \cup {DT_RELR, DT_RELRSZ, DT_RELRENT}

\* The words of the program: not the relocation table, not .dynamic.
program_words(d) ==
  LET tags == loader_tags(d)
      addr == tag_or_0(tags, DT_RELA)
  IN {a \in UNION {{p.vaddr + k * WORD : k \in 0..(p.memsz \div WORD - 1)} :
                     p \in {d.phdrs[i] : i \in ptype(d, "LOAD")}} :
        /\ ~(addr <= a /\ a < addr + tag_or_0(tags, DT_RELASZ))
        /\ ~(dyn(d).vaddr <= a /\ a < dyn(d).vaddr + slots(d) * DYN_SIZE)}

Memory(d) ==
  LET targets == relr_targets(d)
      relocs  == loader_relocs(d)
  IN IF ptype(d, "DYNAMIC") = {} THEN <<>>
     ELSE [words |-> [a \in program_words(img) |-> loaded(d, a, targets, relocs)],
           tags  |-> SelectSeq(loader_tags(d), LAMBDA x : x[1] \notin relocation_tags)]

-----------------------------------------------------------------------------
Init ==
  /\ img \in Images
  /\ static \in BOOLEAN
  /\ pc = "check" /\ plan = refused("none") /\ out = img /\ why = "none"
  /\ memory = Memory(img)

\* The file with the words of the function new, from offsets to words, put in.
put(d, new) ==
  [d EXCEPT !.file = [i \in DOMAIN @ |->
     IF (i - 1) * WORD \in DOMAIN new THEN new[(i - 1) * WORD] ELSE @[i]]]

\* Mutant: the addends are written before .dynamic is known to have room.
pack_relative_Early ==
  /\ pc = "check"
  /\ plan' = Plan(img, static)
  /\ why' = plan'.why
  /\ out' = IF why' = "new_tags"
            THEN put(img, [o \in {load_range(img, e.r_offset, WORD) :
                                   e \in ToSet(split_packed(img,
                                     entries(img, rela_table(img).off, rela_table(img).size)))} |-> 0])
            ELSE img
  /\ pc' = IF why' = "none" THEN "addends" ELSE "done"
  /\ UNCHANGED <<img, static, memory>>

pack_relative ==
  /\ pc = "check"
  /\ plan' = Plan(img, static)
  /\ why' = plan'.why
  /\ pc' = IF why' = "none" THEN "addends" ELSE "done"
  /\ UNCHANGED <<img, static, out, memory>>

-----------------------------------------------------------------------------
(* Rewriting the copy. *)

t == plan.t
left == Len(plan.keep) * RELA_SIZE
relr_size == Len(plan.words) * WORD
new_end == t.off + (left + relr_size)

\* The addends by file offset of their word.
addends ==
  [o \in {load_range(img, e.r_offset, WORD) : e \in ToSet(plan.packed)} |->
     (CHOOSE e \in ToSet(plan.packed) : load_range(img, e.r_offset, WORD) = o).addend]

\* Each packed word gets its addend.
write_addends ==
  /\ pc = "addends"
  /\ out' = put(out, addends)
  /\ pc' = "tables"
  /\ UNCHANGED <<img, static, plan, why, memory>>

\* The kept entries, the RELR words, zeros up to the old end.
table_words ==
  FlattenSeq([i \in DOMAIN plan.keep |->
     <<plan.keep[i].r_offset, plan.keep[i].info, plan.keep[i].addend>>])
  \o plan.words

write_tables ==
  /\ pc = "tables"
  /\ out' = put(out, [o \in {t.off + k * WORD : k \in 0..(t.size \div WORD - 1)} |->
       LET k == (o - t.off) \div WORD + 1
       IN IF k <= Len(table_words) THEN table_words[k] ELSE 0])
  /\ pc' = "dynamic"
  /\ UNCHANGED <<img, static, plan, why, memory>>

write_dynamic ==
  /\ pc = "dynamic"
  /\ out' = put(out, [o \in {dyn(img).offset + k * WORD : k \in 0..(2 * slots(img) - 1)} |->
       LET k == (o - dyn(img).offset) \div WORD
           i == k \div 2 + 1
       IN IF i <= Len(plan.tags) THEN plan.tags[i][(k % 2) + 1] ELSE 0])
  /\ pc' = "header"
  /\ UNCHANGED <<img, static, plan, why, memory>>

\* .rela.dyn shrinks, or becomes .relr.dyn when no entry stays; its name
\* then changes when the table has the new one or the old is nobody else's.
renames(d) ==
  /\ d.shstrndx \in DOMAIN d.shdrs
  /\ ".relr.dyn" \in d.strs \/ (d.shdrs[t.sec].name = ".rela.dyn" /\ ~d.shared)

update_rela_header ==
  /\ pc = "header"
  /\ out' = CASE t.sec = 0 -> out
              [] left # 0 -> [out EXCEPT !.shdrs[t.sec].size = left]
              [] OTHER ->
                   [out EXCEPT !.shdrs[t.sec] =
                      [@ EXCEPT !.stype = "RELR", !.size = relr_size,
                                !.name = IF renames(out) THEN ".relr.dyn" ELSE @],
                               !.strs = IF renames(out) THEN @ \cup {".relr.dyn"} ELSE @]
  /\ pc' = "drain"
  /\ UNCHANGED <<img, static, plan, why, memory>>

-----------------------------------------------------------------------------
(* The drain. *)

in_file(s) == s.stype # "NOBITS"
shtab(d) == [offset |-> d.shoff, size |-> Len(d.shdrs) * SHDR_SIZE]
phtab(d) == [offset |-> d.phoff, size |-> Len(d.phdrs) * PHDR_SIZE]
secs(d) == {d.shdrs[i] : i \in {j \in DOMAIN d.shdrs : in_file(d.shdrs[j])}}
old_end == t.off + t.size

content_end(d) ==
  Max({EHDR_SIZE} \cup {s.offset + s.size : s \in secs(d) \cup {shtab(d), phtab(d)}}
                  \cup {p.offset + p.filesz : p \in ToSet(d.phdrs)})

next_content(d) ==
  Min({Len(d.file) * WORD} \cup
      {o \in {s.offset : s \in {x \in secs(d) \cup {shtab(d), phtab(d)} : x.size > 0}}
             \cup {p.offset : p \in {x \in ToSet(d.phdrs) : x.filesz > 0}} : o >= old_end})

\* Some other content has bytes in [lo, hi).
straddler(d, lo, hi) ==
  LET hit(off, len) == len > 0 /\ off < hi /\ off + len > lo IN
  \/ \E i \in DOMAIN d.shdrs \ {t.sec} :
       in_file(d.shdrs[i]) /\ hit(d.shdrs[i].offset, d.shdrs[i].size)
  \/ \E i \in DOMAIN d.phdrs \ {t.seg} : hit(d.phdrs[i].offset, d.phdrs[i].filesz)
  \/ \E x \in {shtab(d), phtab(d)} : hit(x.offset, x.size)

\* Mutant: whole pages, whatever the alignment of what moves.
shift_align_Page(d, from) == PAGE

\* What moves keeps its alignment.
shift_align(d, from) ==
  Max({PAGE} \cup {p.align : p \in {x \in ToSet(d.phdrs) : x.filesz > 0 /\ x.offset >= from}})

drain_len(d) ==
  LET next == next_content(d) align == shift_align(d, next)
  IN ((next - new_end) \div align) * align

plan_drain(d) ==
  LET seg == d.phdrs[t.seg] next == next_content(d) IN
  CASE seg.offset + seg.filesz # old_end          -> "follower"
    [] seg.memsz # seg.filesz                     -> "zero-filled tail"
    [] Len(d.file) * WORD > content_end(d)        -> "overlay"
    [] straddler(d, new_end, next)                -> "straddler"
    [] drain_len(d) = 0                           -> "less than a page"
    [] OTHER                                      -> "none"

after_drain == IF t.sec # 0 /\ left # 0 THEN "append" ELSE "done"

drained(d, next, len) ==
  SubSeq(d.file, 1, (next - len) \div WORD) \o SubSeq(d.file, next \div WORD + 1, Len(d.file))

\* len bytes before next leave; what is at or after next moves down.
down(o, next, len) == IF o >= next THEN o - len ELSE o

\* The segment of the table ends with the new tables.
moved_phdrs(d, next, len) ==
  [i \in DOMAIN d.phdrs |->
     LET p == d.phdrs[i] IN
     IF i = t.seg THEN [p EXCEPT !.filesz = new_end - p.offset, !.memsz = new_end - p.offset]
     ELSE [p EXCEPT !.offset = down(p.offset, next, len)]]

\* Mutant: the section headers stay as they were.
moved_shdrs_Stale(d, next, len) == d.shdrs

moved_shdrs(d, next, len) ==
  [i \in DOMAIN d.shdrs |-> [d.shdrs[i] EXCEPT !.offset = down(@, next, len)]]

apply_drain ==
  LET next == next_content(img)
      len  == drain_len(img)
  IN
  /\ pc = "drain" /\ plan_drain(img) = "none"
  /\ out' = [out EXCEPT !.phdrs = moved_phdrs(out, next, len),
                        !.shdrs = moved_shdrs(out, next, len),
                        !.shoff = IF Len(out.shdrs) > 0 THEN down(@, next, len) ELSE @,
                        !.phoff = down(@, next, len),
                        !.file  = drained(out, next, len)]
  /\ pc' = after_drain
  /\ UNCHANGED <<img, static, plan, why, memory>>

keep_slack ==
  /\ pc = "drain" /\ plan_drain(img) # "none"
  /\ why' = plan_drain(img)
  /\ pc' = after_drain
  /\ UNCHANGED <<img, static, plan, out, memory>>

-----------------------------------------------------------------------------
(* A section header of its own for the RELR table. *)

cannot_append(d) ==
  \/ Len(d.shdrs) + 1 >= SHN_LORESERVE
  \/ ~inside(d, d.shoff, Len(d.shdrs) * SHDR_SIZE)
  \/ d.shoff + Len(d.shdrs) * SHDR_SIZE # Len(d.file) * WORD
  \/ d.shstrndx \notin DOMAIN d.shdrs

\* The name goes at the end of the name table when only zeros follow it, else
\* a copy of the table with the name goes to the end.  body is the file
\* without its section header table.
place_name(body, st, strs) ==
  LET end  == st.offset + st.size
      cells == SubSeq(body, st.offset \div WORD + 1, end \div WORD)
      free == end <= Len(body) * WORD
              /\ \A i \in (end \div WORD + 1)..Len(body) : body[i] = 0
  IN IF ".relr.dyn" \in strs THEN [body |-> body, offset |-> st.offset, size |-> st.size]
     ELSE IF free THEN [body |-> Append(SubSeq(body, 1, end \div WORD), NameWord),
                        offset |-> st.offset, size |-> st.size + WORD]
     ELSE [body |-> Append(body \o cells, NameWord),
           offset |-> Len(body) * WORD, size |-> st.size + WORD]

append_header ==
  LET placed == place_name(SubSeq(out.file, 1, out.shoff \div WORD),
                           out.shdrs[out.shstrndx], out.strs)
      named == [out.shdrs EXCEPT ![out.shstrndx].offset = placed.offset,
                                 ![out.shstrndx].size = placed.size]
      zeros == [i \in 1..(((Len(out.shdrs) + 1) * SHDR_SIZE) \div WORD) |-> 0]
  IN
  /\ pc = "append" /\ ~cannot_append(out)
  /\ out' = [out EXCEPT
       !.shdrs = Append(named, [name |-> ".relr.dyn", stype |-> "RELR", size |-> relr_size,
                                addr |-> t.addr + left, offset |-> t.off + left]),
       !.strs = @ \cup {".relr.dyn"},
       !.shoff = Len(placed.body) * WORD,
       !.file = placed.body \o zeros]
  /\ pc' = "done"
  /\ UNCHANGED <<img, static, plan, why, memory>>

leave_unnamed ==
  /\ pc = "append" /\ cannot_append(out)
  /\ pc' = "done"
  /\ UNCHANGED <<img, static, plan, out, why, memory>>

\* The image returned is written back, and later loaded.
Load ==
  /\ pc = "done"
  /\ memory' = Memory(out)
  /\ pc' = "loaded"
  /\ UNCHANGED <<img, static, plan, out, why>>

Done == pc = "loaded" /\ UNCHANGED vars

Next == \/ pack_relative \/ write_addends \/ write_tables \/ write_dynamic
        \/ update_rela_header \/ apply_drain \/ keep_slack
        \/ append_header \/ leave_unnamed \/ Load \/ Done

Spec == Init /\ [][Next]_vars
-----------------------------------------------------------------------------
(* Properties. *)

Steps == {"check", "addends", "tables", "dynamic", "header", "drain", "append", "done", "loaded"}

Reasons == {"relative_type", "check_numbering", "etype", "read_dynamic", "check_glibc",
            "rela_table", "static_pie", "split_relocs", "sorted_offsets", "check_targets",
            "round_trip", "new_tags", "write_tables", "none"}

\* The copy only ever differs from the input once no check refused it.
TypeOK ==
  /\ static \in BOOLEAN /\ pc \in Steps /\ plan.why \in Reasons
  /\ pc \in {"check", "addends"} \/ plan.why # "none" => out = img

\* The program in memory is the same whether the loader reads the RELA
\* table of the input or the tables pack_relative leaves: each word is
\* relocated once, with the same addend, and the other tags of .dynamic stay.
SameProgram == INSTANCE LoadedImage WITH rewritten <- (pc = "loaded")
LoadsTheSame == SameProgram!Spec

\* plan_drain and apply_drain: what moves in the file moves by a multiple of
\* the alignment of every segment that moves, so it can still be mapped.
StillMappable ==
  pc = "done" =>
    \A i \in ptype(out, "LOAD") :
      (out.phdrs[i].offset - out.phdrs[i].vaddr) % out.phdrs[i].align = 0

section_bytes(d, i) ==
  SubSeq(d.file, d.shdrs[i].offset \div WORD + 1,
         (d.shdrs[i].offset + d.shdrs[i].size) \div WORD)

\* Every section the pass is not about holds the bytes it held, wherever the
\* drain and append_header moved it; the name table only grew; .relr.dyn
\* covers the RELR words; the section header table overlaps no section.
SectionsKept ==
  pc = "done" /\ plan.why = "none" /\ img.shdrs # <<>> =>
    /\ \A i \in DOMAIN img.shdrs \ {t.sec, img.shstrndx} :
         in_file(img.shdrs[i]) /\ img.shdrs[i].offset # dyn(img).offset =>
           /\ out.shdrs[i].size = img.shdrs[i].size
           /\ section_bytes(out, i) = section_bytes(put(img, addends), i)
    /\ IsPrefix(section_bytes(img, img.shstrndx), section_bytes(out, out.shstrndx))
    /\ \A i \in DOMAIN out.shdrs :
         out.shdrs[i].stype = "RELR" => section_bytes(out, i) = plan.words
    /\ \A s \in secs(out) :
         s.offset + s.size <= out.shoff \/ s.offset >= out.shoff + shtab(out).size
    /\ inside(out, out.shoff, shtab(out).size)
=============================================================================
