----------------------------- MODULE CallGraph -----------------------------
(***************************************************************************)
(* From decoded references to the call graph and its roots: how            *)
(* decode/callgraph.rs resolves addresses to functions, decode/scan.rs     *)
(* finds function pointers in data and analysis/roots.rs picks the roots.  *)
(*                                                                         *)
(* A function map is a function from names to [addr, size, is_global].     *)
(* Several names may share an address (aliases).  Every map of the Rust    *)
(* code is a HashMap, whose iteration order is random per process, so      *)
(* wherever aliases compete for one slot any of them may win: a tie record *)
(* holds those choices.                                                    *)
(***************************************************************************)
EXTENDS Naturals, FiniteSets

CONSTANTS
  Names,        \* symbol names
  NoFunc,       \* what a failed lookup yields (Option::None)
  RUNTIME_KEEP, \* names that are always roots
  MinDeadSize   \* smallest function worth removing (4 bytes)

ASSUME NamesAssumption ==
  /\ IsFiniteSet(Names)
  /\ NoFunc \notin Names
  /\ MinDeadSize \in Nat

FuncInfo == [addr : Nat, size : Nat \ {0}, is_global : BOOLEAN]

FuncEnd(funcs, n) == funcs[n].addr + funcs[n].size

\* Address a lies in the range of function n.
Contains(funcs, n, a) == funcs[n].addr <= a /\ a < FuncEnd(funcs, n)

Starts(funcs) == {funcs[n].addr : n \in DOMAIN funcs}

(***************************************************************************)
(* The choices hash order makes among aliases: which one binary search     *)
(* hits, which one the stable sort leaves last, and which one the          *)
(* address-to-name map of run_analysis keeps.                              *)
(***************************************************************************)
Ties(funcs) ==
  LET choice == {f \in [Starts(funcs) -> DOMAIN funcs] :
                   \A s \in Starts(funcs) : funcs[f[s]].addr = s}
  IN [exact : choice, last : choice, by_addr : choice]

\* The greatest function start at or below a, as a set of at most one.
StartBelow(funcs, a) ==
  {s \in Starts(funcs) :
     s <= a /\ \A t \in Starts(funcs) : t <= a => t <= s}

\* Mutant: only exact starts resolve.
resolve_addr_fast_Exact(funcs, tie, a) ==
  IF a \in Starts(funcs) THEN tie.exact[a] ELSE NoFunc

(***************************************************************************)
(* Look an address up in the sorted index: an exact start first, else the  *)
(* last entry that starts below it, if that one reaches it.                *)
(***************************************************************************)
resolve_addr_fast(funcs, tie, a) ==
  IF a \in Starts(funcs)
  THEN tie.exact[a]
  ELSE LET hit == {tie.last[s] : s \in StartBelow(funcs, a)}
           ok  == {n \in hit : a < FuncEnd(funcs, n)}
       IN IF ok = {} THEN NoFunc ELSE CHOOSE n \in ok : TRUE

(***************************************************************************)
(* A reference is one (instruction, target) pair: [addr, target].          *)
(* build_ref_graph_fast: the edges between distinct functions, and the     *)
(* functions referenced from code inside no function.                      *)
(***************************************************************************)
RefGraph(funcs, refs, tie) ==
  [n \in DOMAIN funcs |->
     {m \in DOMAIN funcs \ {n} :
        \E r \in refs : /\ resolve_addr_fast(funcs, tie, r.addr) = n
                        /\ resolve_addr_fast(funcs, tie, r.target) = m}]

OrphanRefs(funcs, refs, tie) ==
  {m \in DOMAIN funcs :
     \E r \in refs : /\ resolve_addr_fast(funcs, tie, r.addr) = NoFunc
                     /\ resolve_addr_fast(funcs, tie, r.target) = m}

\* Function starts found as pointer-sized words of the data sections.
scan_data_for_func_addrs(funcs, words) == words \cap Starts(funcs)

\* Functions that start in NativeAOT managed code are live as a whole.
managed_funcs(funcs, managed) == {n \in DOMAIN funcs : funcs[n].addr \in managed}

\* The data_names of run_analysis: one alias per pointer found.
DataRefNames(funcs, words, managed, tie) ==
  {tie.by_addr[a] : a \in scan_data_for_func_addrs(funcs, words)}
    \cup managed_funcs(funcs, managed)

\* Mutant: runtime names are roots whether or not the image has them.
determine_roots_Absent(funcs, data_names, orphans) ==
  RUNTIME_KEEP \cup {n \in DOMAIN funcs : funcs[n].is_global}
    \cup data_names \cup orphans

determine_roots(funcs, data_names, orphans) ==
  {n \in DOMAIN funcs : n \in RUNTIME_KEEP \/ funcs[n].is_global}
    \cup data_names \cup orphans

=============================================================================
