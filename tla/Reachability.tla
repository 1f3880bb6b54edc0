---------------------------- MODULE Reachability ----------------------------
(***************************************************************************)
(* The live-function analysis of analysis/reachability.rs, driven the way  *)
(* format/elf/mod.rs run_analysis drives it: build the graph, search it    *)
(* breadth-first from the roots, then alternate alias expansion and search *)
(* until the number of live functions stops growing; what is left is dead. *)
(* One step is one turn of a loop.  The order in which a HashSet yields    *)
(* its members is random, so every queue is filled in some order.          *)
(***************************************************************************)
EXTENDS CallGraph, Sequences, Functions

CONSTANTS
  FuncMaps,  \* function maps the image may have
  RefSets,   \* sets of code references the image may have
  WordSets,  \* sets of words its data sections may hold
  ManagedSets \* sets of addresses of NativeAOT managed code ({} elsewhere)

ASSUME ImageAssumption ==
  /\ \A m \in FuncMaps : DOMAIN m \subseteq Names /\ m \in [DOMAIN m -> FuncInfo]
  /\ \A R \in RefSets : \A r \in R : r \in [addr : Nat, target : Nat]

VARIABLES
  funcs, refs, words, managed, \* the image
  pc,                   \* "graph", "bfs", "alias", "rebfs", "find", "done"
  graph,                \* the reference graph
  roots,                \* the roots of the first search
  seeds,                \* the roots argument of the search under way
  live, queue,          \* the state of that search
  prev_size,            \* live functions before the last alias expansion
  dead                  \* the result

image == <<funcs, refs, words, managed>>
vars  == <<image, pc, graph, roots, seeds, live, queue, prev_size, dead>>

\* The sequences that list the members of S once each.
Orders(S) == {s \in [1..Cardinality(S) -> S] : Range(s) = S}

\* The functions that share an address with a member of S.
Aliases(S) == {n \in DOMAIN funcs :
                 \E m \in S \cap DOMAIN funcs : funcs[n].addr = funcs[m].addr}

\* Types; no search ever queues, visits or keeps a name that is not a
\* function of the image, though RUNTIME_KEEP and the managed lists name others.
TypeOK ==
  /\ funcs \in FuncMaps /\ refs \in RefSets /\ words \in WordSets
  /\ managed \in ManagedSets
  /\ pc \in {"graph", "bfs", "alias", "rebfs", "find", "done"}
  /\ graph \in [DOMAIN funcs -> SUBSET DOMAIN funcs]
  /\ roots \subseteq DOMAIN funcs
  /\ seeds \subseteq DOMAIN funcs
  /\ live \subseteq DOMAIN funcs
  /\ queue \in Seq(DOMAIN funcs)
  /\ prev_size \in Nat
  /\ dead \subseteq DOMAIN funcs

Init ==
  /\ funcs \in FuncMaps /\ refs \in RefSets /\ words \in WordSets
  /\ managed \in ManagedSets
  /\ pc = "graph"
  /\ graph = [n \in DOMAIN funcs |-> {}]
  /\ roots = {} /\ seeds = {} /\ live = {} /\ queue = <<>>
  /\ prev_size = 0
  /\ dead = {}

\* bfs(S, graph): enter the search with an empty live set.
StartBfs(S) ==
  /\ seeds' = S
  /\ live' = {}
  /\ queue' \in Orders(S)

BuildGraph ==
  /\ pc = "graph"
  /\ \E tie \in Ties(funcs) :
       /\ graph' = RefGraph(funcs, refs, tie)
       /\ roots' = determine_roots(funcs,
                                   DataRefNames(funcs, words, managed, tie),
                                   OrphanRefs(funcs, refs, tie))
  /\ StartBfs(roots')
  /\ pc' = "bfs"
  /\ UNCHANGED <<image, prev_size, dead>>

\* Mutant: a name already live is skipped before it is popped.
BfsStep_NoPop ==
  /\ pc \in {"bfs", "rebfs"}
  /\ queue # <<>>
  /\ LET name == Head(queue) IN
       \/ /\ name \in live
          /\ UNCHANGED <<queue, live>>
       \/ /\ name \notin live
          /\ live' = live \cup {name}
          /\ \E callees \in Orders(graph[name] \ live') :
               queue' = Tail(queue) \o callees
  /\ UNCHANGED <<image, pc, graph, roots, seeds, prev_size, dead>>

\* Pop a name: skip it when already live, else queue its callees not yet live.
BfsStep ==
  /\ pc \in {"bfs", "rebfs"}
  /\ queue # <<>>
  /\ LET name == Head(queue) IN
       \/ /\ name \in live
          /\ queue' = Tail(queue)
          /\ UNCHANGED live
       \/ /\ name \notin live
          /\ live' = live \cup {name}
          /\ \E callees \in Orders(graph[name] \ live') :
               queue' = Tail(queue) \o callees
  /\ UNCHANGED <<image, pc, graph, roots, seeds, prev_size, dead>>

\* Mutant: one turn of the fixpoint loop is thought enough.
BfsEnd_Once ==
  /\ pc \in {"bfs", "rebfs"}
  /\ queue = <<>>
  /\ pc' = IF pc = "rebfs" THEN "find" ELSE "alias"
  /\ UNCHANGED <<image, graph, roots, seeds, live, queue, prev_size, dead>>

\* The search ends; after a repeated one the loop ends when nothing grew.
BfsEnd ==
  /\ pc \in {"bfs", "rebfs"}
  /\ queue = <<>>
  /\ pc' = IF pc = "rebfs" /\ Cardinality(live) = prev_size
           THEN "find" ELSE "alias"
  /\ UNCHANGED <<image, graph, roots, seeds, live, queue, prev_size, dead>>

\* Mutant: a function that starts where a live one ends counts as its alias.
AliasExpand_Touching ==
  /\ pc = "alias"
  /\ prev_size' = Cardinality(live)
  /\ StartBfs(live \cup {n \in DOMAIN funcs :
                           \E m \in live : /\ funcs[m].addr <= funcs[n].addr
                                           /\ funcs[n].addr <= FuncEnd(funcs, m)})
  /\ pc' = "rebfs"
  /\ UNCHANGED <<image, graph, roots, dead>>

\* One turn of the fixpoint loop: add the aliases, search again from all.
AliasExpand ==
  /\ pc = "alias"
  /\ prev_size' = Cardinality(live)
  /\ StartBfs(live \cup Aliases(live))
  /\ pc' = "rebfs"
  /\ UNCHANGED <<image, graph, roots, dead>>

find_dead ==
  /\ pc = "find"
  /\ dead' = {n \in DOMAIN funcs \ live : funcs[n].size >= MinDeadSize}
  /\ pc' = "done"
  /\ UNCHANGED <<image, graph, roots, seeds, live, queue, prev_size>>

Terminated == pc = "done" /\ UNCHANGED vars

Next == BuildGraph \/ BfsStep \/ BfsEnd \/ AliasExpand \/ find_dead \/ Terminated

Spec == Init /\ [][Next]_vars

\* The analysis is one thread that is never blocked: it keeps stepping.
FairSpec == Spec /\ WF_vars(Next)

-----------------------------------------------------------------------------
(***************************************************************************)
(* The reference: S contains the roots and is closed under edges and       *)
(* under sharing an address.                                               *)
(***************************************************************************)
ClosedSet(S) ==
  /\ roots \subseteq S
  /\ \A n \in S \cap DOMAIN funcs : graph[n] \subseteq S
  /\ Aliases(S) \subseteq S

(***************************************************************************)
(* What can really run, told from ranges alone: functions the runtime      *)
(* enters by name or that are exported, those whose address the data       *)
(* holds, and whatever a reference from running code, or from code in no   *)
(* function, lands in.                                                     *)
(***************************************************************************)
RunsFrom(S, r) ==
  \/ \E n \in S : Contains(funcs, n, r.addr)
  \/ \A n \in DOMAIN funcs : ~Contains(funcs, n, r.addr)

ReachClosed(S) ==
  /\ \A n \in DOMAIN funcs :
       n \in RUNTIME_KEEP \/ funcs[n].is_global
         \/ funcs[n].addr \in words \cup managed
         => n \in S
  /\ \A r \in refs : RunsFrom(S, r) =>
       \A n \in DOMAIN funcs : Contains(funcs, n, r.target) => n \in S

Reached == {n \in DOMAIN funcs :
              \A S \in SUBSET DOMAIN funcs : ReachClosed(S) => n \in S}

DisjointRanges(m, n) ==
  FuncEnd(funcs, m) <= funcs[n].addr \/ FuncEnd(funcs, n) <= funcs[m].addr

(***************************************************************************)
(* When compute_live_set returns, the live set holds every root and is     *)
(* closed under calls and aliases, whatever order the hash sets yielded.   *)
(* Stopping the loop on an equal count (not an equal set) is enough.       *)
(***************************************************************************)
LiveClosed == pc \in {"find", "done"} => ClosedSet(live)

(***************************************************************************)
(* No function is kept without a reason: everything ever live or queued    *)
(* lies in every closed set, so together with LiveClosed the result is the *)
(* least closed set and does not depend on the iteration order.            *)
(***************************************************************************)
LiveLeast ==
  pc # "graph" =>
    \A S \in SUBSET DOMAIN funcs :
      ClosedSet(S) => (live \cup Range(queue)) \subseteq S

(***************************************************************************)
(* The bytes find_dead hands to removal never overlap a function that can  *)
(* run.  Needs function ranges that coincide or are disjoint.              *)
(***************************************************************************)
NoReachedCodeRemoved ==
  \A d \in dead, r \in Reached : DisjointRanges(d, r)

(***************************************************************************)
(* The inductive invariant behind the three.  A search owes every seed and *)
(* every callee of a live function to the live set or the queue; a         *)
(* repeated search was seeded with the aliases of prev_size functions; and *)
(* graph and roots come from one set of tie choices.                       *)
(***************************************************************************)
Pending == live \cup Range(queue)

SearchInv ==
  pc # "graph" =>
    /\ roots \subseteq seeds
    /\ seeds \subseteq Pending
    /\ \A n \in live : graph[n] \subseteq Pending
    /\ pc \notin {"bfs", "rebfs"} => queue = <<>>

LoopInv ==
  /\ pc = "rebfs" =>
       \E old \in SUBSET DOMAIN funcs :
         prev_size = Cardinality(old) /\ seeds = old \cup Aliases(old)
  /\ pc \in {"find", "done"} => Aliases(live) \subseteq live

GraphInv ==
  pc # "graph" =>
    \E tie \in Ties(funcs) :
      /\ graph = RefGraph(funcs, refs, tie)
      /\ roots = determine_roots(funcs,
                                 DataRefNames(funcs, words, managed, tie),
                                 OrphanRefs(funcs, refs, tie))

DeadInv ==
  IF pc = "done"
  THEN dead = {n \in DOMAIN funcs \ live : funcs[n].size >= MinDeadSize}
  ELSE dead = {}

IInv == TypeOK /\ SearchInv /\ LoopInv /\ GraphInv /\ DeadInv /\ LiveLeast

\* Every two functions of m have the same range or disjoint ranges.
Flat(m) ==
  \A a, b \in DOMAIN m :
    \/ m[a].addr = m[b].addr /\ m[a].size = m[b].size
    \/ FuncEnd(m, a) <= m[b].addr
    \/ FuncEnd(m, b) <= m[a].addr

\* The worklist and the fixpoint loop both end.
Termination == <>(pc = "done")

=============================================================================
