------------------------------- MODULE MCRelr -------------------------------
(***************************************************************************)
(* Small images for Relr: a read-only segment that holds the headers, the  *)
(* PLT relocations and the RELA table, and a writable one with six words   *)
(* of data and .dynamic; then the name table and the section headers.  A   *)
(* word is two bytes, so that an address can lie between words.            *)
(***************************************************************************)
EXTENDS Relr

TableOff == 18
JmpOff == 12
DataWords == 6

roundup(x, a) == ((x + a - 1) \div a) * a
zeros(n) == [i \in 1..n |-> 0]

\* An entry by its place relative to the writable segment.
Rel(k)  == [at |-> 2 * k, rel |-> TRUE, sym |-> 0, addend |-> 100 + k]
Glob(k) == [at |-> 2 * k, rel |-> FALSE, sym |-> 1, addend |-> 0]
Straddle == [at |-> 9, rel |-> TRUE, sym |-> 0, addend |-> 200]
BssRel(o) == [at |-> 2 * (DataWords + 2 * o.slots), rel |-> TRUE, sym |-> 0, addend |-> 201]

\* What an image may vary in, and the plain image.
Plain == [relas |-> <<Rel(0), Rel(1)>>, kept |-> 0, follow |-> 0, pad |-> TRUE, align |-> 8,
          tail |-> 0, shdrs |-> TRUE, zeros |-> FALSE, bss |-> FALSE, bssAlign |-> 8,
          slots |-> 11, jmp |-> 6, flags |-> 0,
          machine |-> "x86-64", class |-> 64, le |-> TRUE, xnum |-> FALSE, lost |-> 0, etype |-> "DYN", dynamic |-> TRUE, interp |-> TRUE,
          entry |-> 4, verneed |-> FALSE, strtab |-> <<>>, libc |-> FALSE, versions |-> <<>>, name |-> FALSE,
          extra |-> <<>>, comment |-> <<>>, relaent |-> 6]

Image(o) ==
  LET relas == o.relas \o IF o.kept = 0 THEN <<>> ELSE <<BssRel(o)>>
      size == 6 * Len(relas)
      end1 == TableOff + size + o.follow
      off2 == IF o.pad THEN roundup(end1, o.align) ELSE end1
      v2   == off2 + 4 * o.align
      dynOff == off2 + 2 * DataWords
      end2 == dynOff + 4 * o.slots
      entry(e) == <<v2 + e.at, [rel |-> e.rel, sym |-> e.sym], e.addend>>
      leading == {i \in DOMAIN relas : ~relas[i].rel}
      tags == << <<DT_RELA, TableOff>>, <<DT_RELASZ, size>>, <<DT_RELAENT, o.relaent>>,
                 <<DT_RELACOUNT, IF leading = {} THEN Len(relas) ELSE Min(leading) - 1>>,
                 <<DT_JMPREL, JmpOff>>, <<DT_PLTRELSZ, o.jmp>>, <<DT_PLTREL, DT_RELA>>,
                 <<DT_FLAGS_1, o.flags>> >>
              \o (IF o.verneed THEN << <<DT_VERNEED, 1>> >> \o o.strtab ELSE <<>>) \o o.extra
      jmpTarget == v2 + 2 * (DataWords - 1)
      file == zeros(JmpOff \div 2)
              \o <<jmpTarget, [rel |-> FALSE, sym |-> 2], 0>>
              \o FlattenSeq([i \in DOMAIN relas |-> entry(relas[i])])
              \o [i \in 1..(o.follow \div 2) |-> 60 + i]
              \o zeros((off2 - end1) \div 2)
              \o [i \in 1..DataWords |-> IF i % 2 = 0 THEN 40 + i ELSE 0]
              \o FlattenSeq(tags) \o zeros(2 * (o.slots - Len(tags)))
              \o (IF o.shdrs THEN <<77>> ELSE <<>>)
              \o o.comment
      load(off, v, fs, ms) == [ptype |-> "LOAD", offset |-> off, vaddr |-> v, filesz |-> fs,
                               memsz |-> ms, align |-> o.align]
      sec(name, type, off, sz, a) ==
        [name |-> name, stype |-> type, offset |-> off, size |-> sz, addr |-> a]
      shdrs == IF ~o.shdrs THEN <<>> ELSE
        << sec(".rela.dyn", "RELA", TableOff, size, TableOff),
           sec(".shstrtab", "STRTAB", end2, 2, 0),
           sec(".data", "PROGBITS", off2, 2 * DataWords, v2),
           sec(".dynamic", "DYNAMIC", dynOff, 4 * o.slots, v2 + 2 * DataWords),
           sec(".bss", "NOBITS", end2, 4, v2 + 2 * DataWords + 4 * o.slots),
           sec(".after", "PROGBITS", TableOff + size, o.follow, TableOff + size) >>
        \o IF o.comment # <<>> THEN << sec(".comment", "PROGBITS", end2 + 2, 2, 0) >> ELSE <<>>
  IN [machine |-> o.machine, class |-> o.class, le |-> o.le, xnum |-> o.xnum,
      etype |-> o.etype, entry |-> o.entry,
      phoff |-> EHDR_SIZE, shoff |-> IF o.shdrs THEN 2 * Len(file) ELSE o.lost, shstrndx |-> 2,
      libc |-> o.libc, versions |-> o.versions, shared |-> o.bss, strs |-> IF o.name THEN {".relr.dyn"} ELSE {},
      shdrs |-> shdrs,
      phdrs |-> << load(0, 0, end1, end1 + IF o.zeros THEN 2 ELSE 0),
                   load(off2, v2, end2 - off2, end2 - off2 + 4) >>
                \o (IF o.dynamic THEN << [load(dynOff, v2 + 2 * DataWords, 4 * o.slots, 4 * o.slots)
                                           EXCEPT !.ptype = "DYNAMIC", !.align = 2] >> ELSE <<>>)
                \o (IF o.interp THEN << [load(2, 2, 2, 2) EXCEPT !.ptype = "INTERP", !.align = 1] >> ELSE <<>>)
                \o (IF o.bss THEN << [load(end2, end2 + 4 * o.bssAlign, 0, 4)
                                       EXCEPT !.align = o.bssAlign] >> ELSE <<>>),
      file |-> file \o zeros(Len(shdrs)) \o [i \in 1..o.tail |-> 66]]

Ascending(S) == LET q == SetToSortSeq(S, <) IN [i \in DOMAIN q |-> Rel(q[i])]
Descending(S) == Reverse(Ascending(S))

\* Which words are packed, in which order, and what is kept around them.
Contents ==
  {[Plain EXCEPT !.relas = k[1] \o q \o k[2], !.kept = k[3], !.slots = s] :
     s \in {9, 12},
     q \in {Ascending(S) : S \in SUBSET (0..5)} \cup {Descending({0, 1, 4}), <<Rel(2), Rel(2)>>,
             <<Rel(0), [Rel(0) EXCEPT !.addend = 7]>>, <<Rel(1), Rel(6)>>, <<Rel(0), Rel(-16)>>},
     k \in { <<<<>>, <<>>, 0>>, <<<<Glob(3)>>, <<>>, 1>>, <<<<Straddle>>, <<Glob(2)>>, 1>>,
             <<<<Glob(5), Straddle>>, <<>>, 0>>, <<<<>>, <<[Rel(3) EXCEPT !.sym = 1]>>, 0>> }}

\* Where the table lies, what follows it, which headers there are.
Layouts ==
  {[Plain EXCEPT !.relas = r, !.follow = f, !.pad = p, !.align = a, !.tail = t1,
                 !.shdrs = h, !.zeros = z, !.comment = c, !.name = m, !.slots = 12] :
     r \in {<<Rel(0), Rel(1), Rel(3)>>, <<Rel(0), Glob(1), Rel(3), Rel(4)>>},
     f \in {0, 2}, p \in BOOLEAN, a \in {8, 16}, t1 \in {0, 1},
     h \in BOOLEAN, z \in BOOLEAN, c \in {<<>>, <<55>>}, m \in BOOLEAN}

\* Inputs the checks are for.
Odd ==
  {[Plain EXCEPT !.machine = "AArch64"], [Plain EXCEPT !.machine = "ARM"], [Plain EXCEPT !.le = FALSE],
   [Plain EXCEPT !.class = 32], [Plain EXCEPT !.xnum = TRUE], [Plain EXCEPT !.shdrs = FALSE, !.lost = 4],
   [Plain EXCEPT !.etype = "EXEC"], [Plain EXCEPT !.dynamic = FALSE],
   [Plain EXCEPT !.interp = FALSE], [Plain EXCEPT !.interp = FALSE, !.entry = 0],
   [Plain EXCEPT !.interp = FALSE, !.entry = 0, !.flags = 1],
   [Plain EXCEPT !.relaent = 2], [Plain EXCEPT !.jmp = 12], [Plain EXCEPT !.jmp = 0],
   [Plain EXCEPT !.extra = << <<DT_RELR, 4>> >>], [Plain EXCEPT !.extra = << <<DT_REL, 4>> >>]}
  \cup {[Plain EXCEPT !.verneed = TRUE, !.libc = l, !.versions = v, !.strtab = s, !.slots = 14] :
          l \in BOOLEAN, s \in {<<>>, << <<DT_STRTAB, 2>> >>, << <<DT_STRTAB, 999>> >>},
          v \in {<<>>, << <<"GLIBC_2.2.5">> >>, << <<"GLIBC_2.2.5", "GLIBC_ABI_DT_RELR">> >>,
                 << <<"A", "B">>, <<"C", "GLIBC_ABI_DT_RELR">> >>}}

\* A section of zeros between the name table and the section headers.
ZeroComment ==
  {Image([Plain EXCEPT !.relas = <<Rel(0), Glob(1), Rel(3), Rel(4)>>, !.comment = <<0>>,
                       !.slots = 12])}

MCImages == {Image(o) : o \in Contents \cup Layouts \cup Odd}
=============================================================================
