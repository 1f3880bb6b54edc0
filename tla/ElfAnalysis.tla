---------------------------- MODULE ElfAnalysis ----------------------------
(***************************************************************************)
(* analyze_elf_full: an ELF image is loaded, its functions are found       *)
(* (Infer), the live ones computed (Reachability) and the rest reported    *)
(* dead.  Afterwards the original program runs, one instruction per step,  *)
(* so that a property can ask whether it enters what was reported.         *)
(***************************************************************************)
EXTENDS Infer, Sequences

CONSTANT Images

(***************************************************************************)
(* .text does not start at address 0, and holds the decoded instructions;  *)
(* addresses are numbers.  No export is called like a function the         *)
(* analysis names itself: sub_<addr>, or _start unless it is the entry     *)
(* point.                                                                  *)
(***************************************************************************)
ASSUME ImageAssumption ==
  /\ TextStart \in Nat \ {0} /\ TextEnd \in Nat /\ MAX_TABLE_ENTRIES \in Nat
  /\ \A a \in InitCode : a \in Nat /\ ~InText(a)
  /\ \A i \in Images :
       /\ i.entry \in Nat /\ i.init \subseteq Nat /\ i.personalities \subseteq Nat
       /\ \A a \in DOMAIN i.code : a \in Nat /\ InText(a)
       /\ \A a \in DOMAIN i.code : i.code[a].ref \subseteq Nat /\ i.code[a].len \in Nat \ {0}
       /\ IsFiniteSet(DOMAIN i.slots)
       /\ \A a \in DOMAIN i.slots : a \in Nat /\ i.slots[a] \in Int
       /\ \A t \in DOMAIN i.tables :
            i.tables[t] \in Nat /\ \A k \in 0..i.tables[t]-1 : t + k \in DOMAIN i.slots
       /\ \A w \in i.words : w.val \in Nat
       /\ \A f \in i.fdes : f.begin \in Nat /\ f.len \in Nat
       /\ i.symtab \in Seq([name : Names, func : BOOLEAN, addr : Nat, size : Nat,
                            bind : {"local", "global", "weak"}])
       /\ i.dynsyms \in Seq([base : STRING, addr : Nat, defined : BOOLEAN])
       /\ \A k \in DOMAIN i.dynsyms :
            /\ i.dynsyms[k].base # "sub"
            /\ i.dynsyms[k].base = "_start" => i.dynsyms[k].addr = i.entry
       /\ DOMAIN build_func_map(i).funcs \subseteq Names

VARIABLES
  img,                                  \* the file
  funcs, refs, words, managed,          \* what the search works on
  pc, graph, roots, seeds, live, queue, prev_size, dead,  \* its state
  pos,                                  \* the running program's position, 0 before
  known                                 \* code addresses the program has formed

analysis == <<funcs, refs, words, managed, pc, graph, roots, seeds, live,
              queue, prev_size, dead>>
vars == <<img, analysis, pos, known>>

Search == INSTANCE Reachability
            WITH FuncMaps <- {}, RefSets <- {}, WordSets <- {}, ManagedSets <- {}

Init ==
  /\ img \in Images
  /\ pc = "load"
  /\ funcs = <<>> /\ refs = {} /\ words = {} /\ managed = {}
  /\ graph = <<>> /\ roots = {} /\ seeds = {} /\ live = {} /\ queue = <<>>
  /\ prev_size = 0 /\ dead = {}
  /\ pos = 0 /\ known = {}

\* The references of .text, of the code outside it and the synthetic ones.
AllRefs(links) ==
  (UNION {{[addr |-> a, target |-> t] : t \in targets(img.code[a])} :
            a \in DOMAIN img.code})
    \cup {[addr |-> a, target |-> t] : a \in InitCode, t \in img.init}
    \cup links

\* Words of the data sections scanned by name, .rodata among them.
ScannedWords == {w.val : w \in {v \in img.words : v.sec # "rw" /\ v.width = 8}}

\* Nothing is analysed: code that lies outside the file, no code, no function.
Refuse ==
  /\ pc = "load"
  /\ \/ ~img.whole
     \/ DOMAIN img.code = {}
     \/ DOMAIN build_func_map(img).funcs = {}
  /\ pc' = "done"
  /\ UNCHANGED <<img, funcs, refs, words, managed, graph, roots, seeds, live,
                 queue, prev_size, dead, pos, known>>

FindFunctions ==
  /\ pc = "load"
  /\ img.whole /\ DOMAIN img.code # {}
  /\ LET found == build_func_map(img) IN
       /\ DOMAIN found.funcs # {}
       /\ funcs' = found.funcs
       /\ refs' = AllRefs(found.links)
       /\ graph' = [n \in DOMAIN found.funcs |-> {}]
  /\ words' = ScannedWords
  /\ pc' = "graph"
  /\ UNCHANGED <<img, managed, roots, seeds, live, queue, prev_size, dead, pos, known>>

Analyse ==
  /\ pc # "load"
  /\ Search!Next
  /\ UNCHANGED <<img, pos, known>>

(***************************************************************************)
(* The program.  It is entered at its entry point, at an export, from      *)
(* .init, .fini or the PLT, by the unwinder at a personality routine, or   *)
(* through a pointer in its data.  Code forms addresses with lea and imm;  *)
(* an indirect branch goes to an address that is formed or in the data.    *)
(***************************************************************************)
Pointers == {w.val : w \in img.words}

EntryPoints ==
  {a \in {img.entry} \cup {d.addr : d \in get_dynamic_symbols(img)}
           \cup img.init \cup img.personalities \cup Pointers : InText(a)}

\* What an instruction forms: an address, or the entries of a switch table.
Forms(i) ==
  UNION {IF i.flow = "imm" THEN {r}
         ELSE IF i.flow # "lea" THEN {}
         ELSE IF r \in DOMAIN img.tables
              THEN {r + img.slots[r + k] : k \in 0..img.tables[r]-1} ELSE {r} : r \in i.ref}

Successors(a) ==
  LET i == img.code[a]
  IN (IF i.flow \in {"jmp", "jcc", "call"} THEN i.ref ELSE {})
       \cup (IF i.flow \in {"ijmp", "icall"} THEN known \cup Pointers ELSE {})
       \cup (IF /\ i.flow \notin {"ret", "jmp", "ijmp", "halt", "int3"}
                /\ ~(is_call(i) /\ a \in img.noreturn)
             THEN {a + i.len} ELSE {})

Enter ==
  /\ pc = "done" /\ pos = 0
  /\ pos' \in EntryPoints
  /\ UNCHANGED <<img, analysis, known>>

Execute ==
  /\ pos \in DOMAIN img.code
  /\ known' = known \cup {a \in Forms(img.code[pos]) : InText(a)}
  /\ pos' \in {a \in Successors(pos) : InText(a)}
  /\ UNCHANGED <<img, analysis>>

Next == Refuse \/ FindFunctions \/ Analyse \/ Enter \/ Execute

Spec == Init /\ [][Next]_vars

-----------------------------------------------------------------------------
\* An FDE's range inside .text.
FdeEnd(f) == Min({f.begin + f.len, TextEnd})

(***************************************************************************)
(* The functions of a stripped image lie inside .text and no two overlap,  *)
(* however FDEs, exports, calls and data divide it; and where FDEs are     *)
(* trusted, none of them is split between functions.                       *)
(***************************************************************************)
BoundariesExact ==
  img.symtab = <<>> =>
    /\ \A m, n \in DOMAIN funcs :
         /\ TextStart <= funcs[n].addr /\ FuncEnd(funcs, n) <= TextEnd
         /\ \/ m = n
            \/ FuncEnd(funcs, m) <= funcs[n].addr
            \/ FuncEnd(funcs, n) <= funcs[m].addr
    /\ (funcs # <<>> /\ fde_hints(img)) =>
         \A f \in img.fdes : (f.len > 0 /\ InText(f.begin)) =>
           \E n \in DOMAIN funcs :
             funcs[n].addr <= f.begin /\ FdeEnd(f) <= FuncEnd(funcs, n)

(***************************************************************************)
(* Nothing the program executes is reported dead: whatever the boundaries  *)
(* inferred, the references followed and the addresses taken, the running  *)
(* program never stands on a byte of a dead function.                      *)
(***************************************************************************)
ReachedKept == \A n \in dead : ~Contains(funcs, n, pos)

=============================================================================
