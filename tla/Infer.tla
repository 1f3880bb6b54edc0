------------------------------- MODULE Infer -------------------------------
(***************************************************************************)
(* Where an ELF image's functions are: format/elf/mod.rs build_func_map.   *)
(* With a symbol table the functions are its symbols; a stripped image     *)
(* gets inferred ones (decode/infer.rs), cut exactly at the ranges of      *)
(* .eh_frame where that table may be trusted, with the fall-through and    *)
(* jump-table references such cuts would lose.                             *)
(*                                                                         *)
(* An image is a record: code, the decoded instructions of .text by        *)
(* address; slots, the 32-bit entries of .rodata by address; words, the    *)
(* pointer-like values of its data sections; symtab and dynsyms; fdes and  *)
(* personalities from .eh_frame; init, the addresses that .init, .fini and *)
(* the PLT branch to.  An instruction is [flow, len, ref], ref holding at  *)
(* most one address: a branch's, a RIP-relative operand's ("lea") or an    *)
(* absolute one ("imm").  A name is a pair: a base and the address that a  *)
(* suffix adds, 0 without one.                                             *)
(***************************************************************************)
EXTENDS CallGraph, Integers, FiniteSetsExt

CONSTANTS
  TextStart, TextEnd,  \* the bounds of .text, ts and te
  InitCode,            \* the addresses of the other executable sections
  MAX_TABLE_ENTRIES    \* longest jump table read

InText(a) == TextStart <= a /\ a < TextEnd

\* What the decoder says of an instruction.
is_call(i)       == i.flow \in {"call", "icall"}
falls_through(i) == i.flow \notin {"ret", "jmp", "ijmp", "halt"}
pc_rel_target(i) == IF i.flow = "lea" THEN i.ref ELSE {}
targets(i)       == IF i.flow \in {"call", "jmp", "jcc", "lea"} THEN i.ref ELSE {}

-----------------------------------------------------------------------------
(***************************************************************************)
(* Symbol tables (format/elf/symbols.rs).  Of several functions with one   *)
(* name the last of .symtab wins; of several exports with one name, those  *)
(* at another address than the first get it as a suffix.                   *)
(***************************************************************************)
get_functions_symtab(img) ==
  LET syms == {i \in DOMAIN img.symtab : img.symtab[i].func /\ img.symtab[i].size > 0}
      last(n) == img.symtab[Max({i \in syms : img.symtab[i].name = n})]
  IN [n \in {img.symtab[i].name : i \in syms} |->
        [addr |-> last(n).addr, size |-> last(n).size,
         is_global |-> last(n).bind # "local"]]

\* Defined entries, whatever their type, that lie in executable sections.
get_dynamic_symbols(img) ==
  LET code == {i \in DOMAIN img.dynsyms :
                 /\ img.dynsyms[i].defined
                 /\ InText(img.dynsyms[i].addr) \/ img.dynsyms[i].addr \in InitCode}
      first(b) == img.dynsyms[Min({i \in code : img.dynsyms[i].base = b})]
      key(d) == <<d.base, IF d.addr = first(d.base).addr THEN 0 ELSE d.addr>>
  IN {[name |-> key(img.dynsyms[i]), addr |-> img.dynsyms[i].addr] : i \in code}

funcs_containing(funcs, addrs) ==
  {n \in DOMAIN funcs : \E a \in addrs : Contains(funcs, n, a)}

\* Functions of .symtab that hold an exported address become global.
root_dynamic_exports(img, funcs) ==
  LET rooted == funcs_containing(funcs, {d.addr : d \in get_dynamic_symbols(img)})
  IN [n \in DOMAIN funcs |-> [funcs[n] EXCEPT !.is_global = @ \/ n \in rooted]]

-----------------------------------------------------------------------------
(***************************************************************************)
(* Inferred starts, address -> [name, global].  A name once given stays:   *)
(* an address that is called or referenced and also held in data is not    *)
(* global here (the words of the data sections make it a root later).      *)
(***************************************************************************)
collect_call_targets(img) ==
  UNION {targets(img.code[a]) : a \in {b \in DOMAIN img.code : is_call(img.code[b])}}

collect_ref_targets(img) == UNION {pc_rel_target(img.code[a]) : a \in DOMAIN img.code}

\* The sections scanned by name; .rodata is not among them.
scan_data_code_refs(img) ==
  {w.val : w \in {v \in img.words : v.sec = "data" /\ v.width = 8}}

infer_starts(img) ==
  LET dyn    == {d \in get_dynamic_symbols(img) : InText(d.addr)}
      syms   == {d.addr : d \in dyn} \cup {img.entry}
      refd   == collect_call_targets(img) \cup collect_ref_targets(img)
      exported(a) == {d \in dyn : d.addr = a}
  IN [a \in {b \in syms \cup refd \cup scan_data_code_refs(img) : InText(b)} |->
        [name |-> IF exported(a) # {} THEN (CHOOSE d \in exported(a) : TRUE).name
                  ELSE IF a = img.entry THEN <<"_start", 0>> ELSE <<"sub", a>>,
         global |-> a \in syms \/ a \notin refd]]

\* Each start of [lo, hi) runs to the next one or to hi.
Runs(starts, lo, hi) ==
  LET inner == {a \in DOMAIN starts : lo <= a /\ a < hi}
  IN {[start |-> a, end |-> Min({b \in inner : b > a} \cup {hi}),
       name |-> starts[a].name, global |-> starts[a].global] : a \in inner}

\* The function map of the pieces: of two with one name the later one stays.
pieces_to_map(pieces) ==
  LET last(n) == CHOOSE p \in pieces :
                   /\ p.name = n
                   /\ \A q \in pieces : q.name = n => q.start <= p.start
  IN [n \in {p.name : p \in pieces} |->
        [addr |-> last(n).start, size |-> last(n).end - last(n).start,
         is_global |-> last(n).global]]

\* infer_functions: boundaries from the starts alone.
infer_functions(img) == pieces_to_map(Runs(infer_starts(img), TextStart, TextEnd))

-----------------------------------------------------------------------------
(***************************************************************************)
(* Cutting at the FDEs (infer_functions_fde).                              *)
(***************************************************************************)
\* Mutant: spans are taken as they come.
fde_spans_Raw(img) ==
  {[b |-> f.begin, e |-> Min({f.begin + f.len, TextEnd})] :
     f \in {g \in img.fdes : g.len > 0 /\ InText(g.begin)}}

\* Ranges that start inside .text, clipped to its end; overlapping ones merge.
fde_spans(img) ==
  LET span  == {[b |-> f.begin, e |-> Min({f.begin + f.len, TextEnd})] :
                  f \in {g \in img.fdes : g.len > 0 /\ InText(g.begin)}}
      heads == {s.b : s \in {t \in span : \A u \in span : u.b < t.b => u.e <= t.b}}
      joined(h) == {s \in span : s.b >= h /\ \A g \in heads : g <= s.b => g <= h}
  IN {[b |-> h, e |-> Max({s.e : s \in joined(h)})] : h \in heads}

IsPad(i) == i.flow \in {"nop", "int3"}

\* The first address in [lo, hi) that is not padding, as a set.
first_code(img, lo, hi) ==
  LET code == {a \in DOMAIN img.code : lo <= a /\ a < hi /\ ~IsPad(img.code[a])}
  IN IF code = {} THEN {} ELSE {Min(code)}

\* The functions of [lo, hi), which no FDE covers; behind an FDE the code
\* before the first start becomes a function too.
uncovered(img, starts, lo, hi, after_fde) ==
  LET inner == {a \in DOMAIN starts : lo <= a /\ a < hi}
      first == Min(inner \cup {hi})
      extra == IF after_fde THEN first_code(img, lo, first) ELSE {}
  IN Runs(starts, lo, hi) \cup
       {[start |-> a, end |-> first, name |-> <<"sub", a>>, global |-> FALSE] : a \in extra}

\* One function per span, a root if any start inside it is one.
fde_piece(starts, s) ==
  [start |-> s.b, end |-> s.e,
   name |-> IF s.b \in DOMAIN starts THEN starts[s.b].name ELSE <<"sub", s.b>>,
   global |-> \E a \in DOMAIN starts : s.b <= a /\ a < s.e /\ starts[a].global]

partition(img, starts, spans) ==
  LET hi(lo) == Min({s.b : s \in {t \in spans : t.b >= lo}} \cup {TextEnd})
  IN {fde_piece(starts, s) : s \in spans} \cup
       UNION {uncovered(img, starts, lo, hi(lo), lo # TextStart) :
                lo \in {TextStart} \cup {s.e : s \in spans}}

\* The data sections that can hold an absolute code address.
ptr_secs(img) ==
  IF img.fixed \/ img.textrel THEN {"data", "rw", "rodata"} ELSE {"data", "rw"}

data_code_values(img) ==
  {w.val : w \in {v \in img.words : /\ v.sec \in ptr_secs(img)
                                    /\ v.width = 8 \/ img.fixed
                                    /\ InText(v.val)}}

\* Piece starts that some instruction holds as an absolute address.
code_immediates(img, pieces) ==
  {p.start : p \in pieces} \cap
    UNION {img.code[a].ref : a \in {b \in DOMAIN img.code : img.code[b].flow = "imm"}}

\* Functions whose address is taken outside the decoded code become roots.
mark_taken(img, pieces) ==
  LET inside == data_code_values(img) \cup img.personalities
      exact  == IF img.fixed THEN code_immediates(img, pieces) ELSE {}
      held(p) == \E a \in inside : p.start <= a /\ a < p.end
  IN {[p EXCEPT !.global = @ \/ held(p) \/ p.start \in exact] : p \in pieces}

(***************************************************************************)
(* The instruction whose execution continues at an address, as a set: the  *)
(* last one before it that is not a NOP, unless it ends the flow, traps,   *)
(* or is a call that ends its FDE.  One that straddles it counts.          *)
(***************************************************************************)
\* Mutant: padding between two functions is not crossed.
falls_into_NoPadding(img, at, fde_ends) ==
  LET before == {a \in DOMAIN img.code : a < at}
      x      == Max(before)
      end    == x + img.code[x].len
  IN IF before = {} \/ IsPad(img.code[x]) THEN {}
     ELSE IF end # at THEN {x}
     ELSE {y \in {x} : /\ falls_through(img.code[y])
                       /\ ~(is_call(img.code[y]) /\ end \in fde_ends)}

falls_into(img, at, fde_ends) ==
  LET before == {a \in DOMAIN img.code : a < at}
      last   == Max(before)
      real   == {a \in before : img.code[a].flow # "nop"}
      x      == Max(real)
      i      == img.code[x]
  IN IF before = {} THEN {}
     ELSE IF last + img.code[last].len # at THEN {last}
     ELSE IF real = {} \/ i.flow = "int3" \/ ~falls_through(i)
               \/ (is_call(i) /\ x + i.len \in fde_ends)
          THEN {} ELSE {x}

fallthrough_links(img, pieces, spans) ==
  UNION {{[addr |-> a, target |-> p.start] :
            a \in falls_into(img, p.start, {s.e : s \in spans})} : p \in pieces}

\* The targets of the relative entries from base to end, up to the first
\* entry that does not lead into .text.
table_targets(img, base, end) ==
  LET room == {k \in 0..MAX_TABLE_ENTRIES-1 :
                 base \in DOMAIN img.slots /\ base + k \in DOMAIN img.slots
                   /\ base + k < end}
      entry(k) == base + img.slots[base + k]
  IN {entry(k) : k \in {j \in room : \A l \in 0..j : InText(entry(l))}}

\* The next RIP-referenced address ends a table.  Addresses of slots count
\* entries, so every one is aligned as the code demands of a table.
table_links(img) ==
  LET bounds == collect_ref_targets(img)
      end(b) == Min({c \in bounds : c > b} \cup {Max(DOMAIN img.slots) + 1})
  IN UNION {{[addr |-> a, target |-> t] :
               t \in UNION {table_targets(img, b, end(b)) :
                              b \in pc_rel_target(img.code[a])}} :
            a \in DOMAIN img.code}

infer_functions_fde(img) ==
  LET starts == infer_starts(img)
      spans  == fde_spans(img)
      pieces == mark_taken(img, partition(img, starts, spans))
  IN IF spans = {} THEN [funcs |-> infer_functions(img), links |-> {}]
     ELSE [funcs |-> pieces_to_map(pieces),
           links |-> fallthrough_links(img, pieces, spans) \cup table_links(img)]

(***************************************************************************)
(* The function map and the references it needs beside the decoded ones.   *)
(* FDEs are trusted in 64-bit x86-64 images that are not NativeAOT.        *)
(***************************************************************************)
fde_hints(img) == img.exact /\ \E f \in img.fdes : f.len > 0

build_func_map(img) ==
  LET symtab == get_functions_symtab(img)
  IN IF DOMAIN symtab # {}
     THEN [funcs |-> root_dynamic_exports(img, symtab), links |-> {}]
     ELSE IF fde_hints(img) THEN infer_functions_fde(img)
     ELSE [funcs |-> infer_functions(img), links |-> {}]

=============================================================================
