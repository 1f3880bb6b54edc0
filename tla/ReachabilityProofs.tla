------------------------- MODULE ReachabilityProofs -------------------------
(***************************************************************************)
(* Proofs about Reachability, for any finite set of names, any images and  *)
(* any order in which the hash sets are iterated.                          *)
(***************************************************************************)
EXTENDS Reachability, FiniteSetTheorems, Facts

-----------------------------------------------------------------------------
(* The orders of a set. *)

\* A listing of a finite set is a sequence with that set as its range.
LEMMA OrdersType ==
  ASSUME NEW S, IsFiniteSet(S), NEW T, S \subseteq T, NEW q \in Orders(S)
  PROVE  q \in Seq(T) /\ Range(q) = S
<1>1. Cardinality(S) \in Nat
  BY FS_CardinalityType
<1>2. q \in [1..Cardinality(S) -> T] /\ Range(q) = S
  BY DEF Orders
<1> QED BY <1>1, <1>2

\* Every set of functions of an image is finite.
LEMMA FuncSetsFinite ==
  ASSUME funcs \in FuncMaps, NEW S, S \subseteq DOMAIN funcs
  PROVE  IsFiniteSet(S)
BY FS_Subset, ImageAssumption, NamesAssumption

-----------------------------------------------------------------------------
(* Type correctness. *)

\* The graph and the roots only mention functions of the image.
LEMMA GraphType ==
  ASSUME NEW tie \in Ties(funcs)
  PROVE  /\ RefGraph(funcs, refs, tie) \in [DOMAIN funcs -> SUBSET DOMAIN funcs]
         /\ determine_roots(funcs, DataRefNames(funcs, words, managed, tie),
                            OrphanRefs(funcs, refs, tie)) \subseteq DOMAIN funcs
<1>1. RefGraph(funcs, refs, tie) \in [DOMAIN funcs -> SUBSET DOMAIN funcs]
  BY DEF RefGraph
<1>2. DataRefNames(funcs, words, managed, tie) \subseteq DOMAIN funcs
  <2>1. tie.by_addr \in [Starts(funcs) -> DOMAIN funcs]
    BY DEF Ties
  <2> QED BY <2>1 DEF DataRefNames, scan_data_for_func_addrs, managed_funcs
<1>3. OrphanRefs(funcs, refs, tie) \subseteq DOMAIN funcs
  BY DEF OrphanRefs
<1> QED BY <1>1, <1>2, <1>3 DEF determine_roots

\* Entering a search establishes the types of its state.
LEMMA StartBfsType ==
  ASSUME funcs \in FuncMaps, NEW S, S \subseteq DOMAIN funcs, StartBfs(S)
  PROVE  /\ seeds' = S /\ live' = {}
         /\ queue' \in Seq(DOMAIN funcs)
         /\ Range(queue') = S
BY FuncSetsFinite, OrdersType DEF StartBfs

\* What BfsStep does to the queue, in terms of the set of queued names.
LEMMA BfsStepEffect ==
  ASSUME TypeOK, BfsStep
  PROVE  LET name == Head(queue) IN
         /\ name \in DOMAIN funcs
         /\ queue' \in Seq(DOMAIN funcs)
         /\ \/ /\ name \in live /\ live' = live
               /\ Range(queue) = {name} \cup Range(queue')
            \/ /\ name \notin live /\ live' = live \cup {name}
               /\ Range(queue) \subseteq {name} \cup Range(queue')
               /\ Range(queue') \subseteq Range(queue) \cup graph[name]
               /\ graph[name] \subseteq live' \cup Range(queue')
<1> DEFINE name == Head(queue)
<1>1. /\ name \in DOMAIN funcs /\ Tail(queue) \in Seq(DOMAIN funcs)
      /\ Range(queue) = {name} \cup Range(Tail(queue))
  BY RangeOfTail DEF TypeOK, BfsStep
<1>2. CASE name \in live /\ queue' = Tail(queue) /\ UNCHANGED live
  BY <1>1, <1>2
<1>3. CASE /\ name \notin live /\ live' = live \cup {name}
           /\ \E callees \in Orders(graph[name] \ live') :
                queue' = Tail(queue) \o callees
  <2>1. PICK callees \in Orders(graph[name] \ live') :
          queue' = Tail(queue) \o callees
    BY <1>3
  <2>2. graph[name] \ live' \subseteq DOMAIN funcs
    BY <1>1 DEF TypeOK
  <2>3. IsFiniteSet(graph[name] \ live')
    BY <2>2, FuncSetsFinite DEF TypeOK
  <2>4. callees \in Seq(DOMAIN funcs) /\ Range(callees) = graph[name] \ live'
    BY <2>1, <2>2, <2>3, OrdersType
  <2>5. /\ queue' \in Seq(DOMAIN funcs)
        /\ Range(queue') = Range(Tail(queue)) \cup (graph[name] \ live')
    <3> DEFINE rest == Tail(queue)
               D == DOMAIN funcs
    <3>1. rest \in Seq(D) /\ callees \in Seq(D)
      BY <1>1, <2>4
    <3> HIDE DEF rest, D
    <3>2. /\ rest \o callees \in Seq(D)
          /\ Range(rest \o callees) = Range(rest) \cup Range(callees)
      BY <3>1, RangeOfConcat
    <3> USE DEF rest, D
    <3> QED BY <2>1, <2>4, <3>2
  <2> QED BY <1>1, <1>3, <2>5
<1> QED BY <1>2, <1>3 DEF BfsStep

\* Every step of the analysis keeps its state well typed.
LEMMA TypeStep ==
  ASSUME TypeOK, [Next]_vars
  PROVE  TypeOK'
<1> USE DEF image
<1>1. CASE BuildGraph
  <2>1. PICK tie \in Ties(funcs) :
          /\ graph' = RefGraph(funcs, refs, tie)
          /\ roots' = determine_roots(funcs,
                        DataRefNames(funcs, words, managed, tie),
                        OrphanRefs(funcs, refs, tie))
    BY <1>1 DEF BuildGraph
  <2>2. /\ graph' \in [DOMAIN funcs -> SUBSET DOMAIN funcs]
        /\ roots' \subseteq DOMAIN funcs
    BY <2>1, GraphType
  <2>3. /\ seeds' \subseteq DOMAIN funcs /\ live' = {}
        /\ queue' \in Seq(DOMAIN funcs)
    BY <1>1, <2>2, StartBfsType DEF BuildGraph, TypeOK
  <2> QED BY <1>1, <2>2, <2>3 DEF BuildGraph, TypeOK
<1>2. CASE BfsStep
  <2>1. live' \subseteq DOMAIN funcs /\ queue' \in Seq(DOMAIN funcs)
    BY <1>2, BfsStepEffect DEF TypeOK
  <2> QED BY <1>2, <2>1 DEF BfsStep, TypeOK
<1>3. CASE BfsEnd
  BY <1>3 DEF BfsEnd, TypeOK
<1>4. CASE AliasExpand
  <2>1. live \cup Aliases(live) \subseteq DOMAIN funcs
    BY DEF TypeOK, Aliases
  <2>2. /\ seeds' \subseteq DOMAIN funcs /\ live' = {}
        /\ queue' \in Seq(DOMAIN funcs)
    BY <1>4, <2>1, StartBfsType DEF AliasExpand, TypeOK
  <2>3. prev_size' \in Nat
    BY <1>4, FuncSetsFinite, FS_CardinalityType DEF AliasExpand, TypeOK
  <2> QED BY <1>4, <2>2, <2>3 DEF AliasExpand, TypeOK
<1>5. CASE find_dead
  BY <1>5 DEF find_dead, TypeOK
<1>6. CASE Terminated \/ UNCHANGED vars
  BY <1>6 DEF Terminated, vars, TypeOK
<1> QED BY <1>1, <1>2, <1>3, <1>4, <1>5, <1>6 DEF Next

(***************************************************************************)
(* Every state the analysis reaches is well typed: in particular searches  *)
(* and alias expansion never leave the names of the function map, so every *)
(* lookup graph.get(name) succeeds.                                        *)
(***************************************************************************)
THEOREM TypeCorrect == Spec => []TypeOK
<1>1. Init => TypeOK
  BY DEF Init, TypeOK
<1>2. TypeOK /\ [Next]_vars => TypeOK'
  BY TypeStep
<1> QED BY <1>1, <1>2, PTL DEF Spec

-----------------------------------------------------------------------------
(* The inductive invariant. *)

\* A set and its aliases are within every closed set around it.
LEMMA AliasesInClosed ==
  ASSUME NEW S, S \subseteq DOMAIN funcs, ClosedSet(S), NEW T, T \subseteq S
  PROVE  T \cup Aliases(T) \subseteq S
BY DEF ClosedSet, Aliases

\* What ClosedSet, Aliases and GraphInv mean does not change once the graph is built.
LEMMA StableMeaning ==
  ASSUME UNCHANGED <<image, graph, roots>>
  PROVE  /\ \A S : ClosedSet(S)' <=> ClosedSet(S)
         /\ \A S : Aliases(S)' = Aliases(S)
BY DEF ClosedSet, Aliases, image

\* Every step keeps the inductive invariant.
LEMMA InvStep ==
  ASSUME IInv, TypeOK', [Next]_vars
  PROVE  IInv'
<1> USE DEF image
<1>0. TypeOK /\ SearchInv /\ LoopInv /\ GraphInv /\ DeadInv /\ LiveLeast
  BY DEF IInv
<1>1. CASE BuildGraph
  <2>1. PICK tie \in Ties(funcs) :
          /\ graph' = RefGraph(funcs, refs, tie)
          /\ roots' = determine_roots(funcs,
                        DataRefNames(funcs, words, managed, tie),
                        OrphanRefs(funcs, refs, tie))
    BY <1>1 DEF BuildGraph
  <2>2. roots' \subseteq DOMAIN funcs
    BY <2>1, GraphType
  <2>3. seeds' = roots' /\ live' = {} /\ Range(queue') = roots'
    BY <1>0, <1>1, <2>2, StartBfsType DEF BuildGraph, TypeOK
  <2>4. pc = "graph" /\ pc' = "bfs" /\ UNCHANGED <<image, prev_size, dead>>
    BY <1>1 DEF BuildGraph
  <2>5. SearchInv'
    BY <2>3, <2>4 DEF SearchInv, Pending
  <2>6. GraphInv'
    BY <2>1, <2>4 DEF GraphInv
  <2>7. LoopInv' /\ DeadInv'
    BY <1>0, <2>4 DEF LoopInv, DeadInv
  <2>8. LiveLeast'
    BY <2>3, <2>4 DEF LiveLeast, ClosedSet
  <2> QED BY <2>5, <2>6, <2>7, <2>8 DEF IInv
<1>2. CASE BfsStep
  <2> DEFINE name == Head(queue)
  <2>1. /\ pc \in {"bfs", "rebfs"} /\ queue # <<>>
        /\ UNCHANGED <<image, pc, graph, roots, seeds, prev_size, dead>>
    BY <1>2 DEF BfsStep
  <2>2. /\ name \in DOMAIN funcs
        /\ \/ /\ name \in live /\ live' = live
              /\ Range(queue) = {name} \cup Range(queue')
           \/ /\ name \notin live /\ live' = live \cup {name}
              /\ Range(queue) \subseteq {name} \cup Range(queue')
              /\ Range(queue') \subseteq Range(queue) \cup graph[name]
              /\ graph[name] \subseteq live' \cup Range(queue')
    BY <1>0, <1>2, BfsStepEffect
  <2>3. name \in Range(queue)
    BY <1>0, <2>1, RangeOfTail DEF TypeOK
  <2> HIDE DEF name
  <2>4. Pending \subseteq Pending'
    BY <2>2 DEF Pending
  <2>5. SearchInv'
    <3>1. \A n \in live' : graph[n] \subseteq Pending'
      BY <1>0, <2>1, <2>2, <2>4 DEF SearchInv, Pending
    <3> QED BY <1>0, <2>1, <2>4, <3>1 DEF SearchInv
  <2>6. LoopInv' /\ GraphInv' /\ DeadInv'
    BY <1>0, <2>1 DEF LoopInv, GraphInv, DeadInv, Aliases
  <2>7. LiveLeast'
    <3>1. SUFFICES ASSUME NEW S \in SUBSET DOMAIN funcs, ClosedSet(S)
                   PROVE  (live' \cup Range(queue')) \subseteq S
      BY <2>1, StableMeaning DEF LiveLeast
    <3>2. (live \cup Range(queue)) \subseteq S
      BY <1>0, <2>1, <3>1 DEF LiveLeast
    <3>3. graph[name] \subseteq S
      BY <2>3, <2>2, <3>1, <3>2 DEF ClosedSet
    <3> QED BY <2>2, <2>3, <3>2, <3>3
  <2> QED BY <2>5, <2>6, <2>7 DEF IInv
<1>3. CASE BfsEnd
  <2>1. /\ pc \in {"bfs", "rebfs"} /\ queue = <<>>
        /\ pc' = IF pc = "rebfs" /\ Cardinality(live) = prev_size
                 THEN "find" ELSE "alias"
        /\ UNCHANGED <<image, graph, roots, seeds, live, queue, prev_size, dead>>
    BY <1>3 DEF BfsEnd
  <2>2. Pending = live
    BY <2>1 DEF Pending, Range
  <2>3. SearchInv'
    BY <1>0, <2>1 DEF SearchInv, Pending
  <2>4. LoopInv'
    <3>1. CASE pc' = "find"
      <4>1. PICK old \in SUBSET DOMAIN funcs :
              prev_size = Cardinality(old) /\ seeds = old \cup Aliases(old)
        BY <1>0, <2>1, <3>1 DEF LoopInv
      <4>2. old \subseteq live /\ Cardinality(live) = Cardinality(old)
        BY <1>0, <2>1, <2>2, <3>1, <4>1 DEF SearchInv
      <4>3. IsFiniteSet(live)
        BY <1>0, FuncSetsFinite DEF TypeOK
      <4>4. old = live
        BY <4>2, <4>3, FS_Subset
      <4>5. Aliases(live) \subseteq live
        BY <1>0, <2>1, <2>2, <4>1, <4>4 DEF SearchInv
      <4> QED BY <2>1, <3>1, <4>5 DEF LoopInv, Aliases
    <3>2. CASE pc' = "alias"
      BY <3>2 DEF LoopInv
    <3> QED BY <2>1, <3>1, <3>2
  <2>5. GraphInv' /\ DeadInv'
    BY <1>0, <2>1 DEF GraphInv, DeadInv
  <2>6. LiveLeast'
    BY <1>0, <2>1, StableMeaning DEF LiveLeast
  <2> QED BY <2>3, <2>4, <2>5, <2>6 DEF IInv
<1>4. CASE AliasExpand
  <2>1. /\ pc = "alias" /\ pc' = "rebfs"
        /\ prev_size' = Cardinality(live)
        /\ UNCHANGED <<image, graph, roots, dead>>
    BY <1>4 DEF AliasExpand
  <2>2. live \subseteq DOMAIN funcs /\ live \cup Aliases(live) \subseteq DOMAIN funcs
    BY <1>0 DEF TypeOK, Aliases
  <2>3. /\ seeds' = live \cup Aliases(live) /\ live' = {}
        /\ Range(queue') = live \cup Aliases(live)
    BY <1>0, <1>4, <2>2, StartBfsType DEF AliasExpand, TypeOK
  <2>4. roots \subseteq live
    <3>1. queue = <<>> /\ roots \subseteq seeds /\ seeds \subseteq Pending
      BY <1>0, <2>1 DEF SearchInv
    <3> QED BY <3>1 DEF Pending, Range
  <2>5. SearchInv'
    BY <2>1, <2>3, <2>4 DEF SearchInv, Pending
  <2>6. LoopInv'
    BY <2>1, <2>2, <2>3 DEF LoopInv, Aliases
  <2>7. GraphInv' /\ DeadInv'
    BY <1>0, <2>1 DEF GraphInv, DeadInv
  <2>8. LiveLeast'
    <3>1. SUFFICES ASSUME NEW S \in SUBSET DOMAIN funcs, ClosedSet(S)
                   PROVE  (live' \cup Range(queue')) \subseteq S
      BY <2>1, StableMeaning DEF LiveLeast
    <3>2. live \subseteq S
      BY <1>0, <2>1, <3>1 DEF LiveLeast
    <3> QED BY <2>3, <3>1, <3>2, AliasesInClosed
  <2> QED BY <2>5, <2>6, <2>7, <2>8 DEF IInv
<1>5. CASE find_dead
  <2>1. /\ pc = "find" /\ pc' = "done"
        /\ UNCHANGED <<image, graph, roots, seeds, live, queue, prev_size>>
        /\ dead' = {n \in DOMAIN funcs \ live : funcs[n].size >= MinDeadSize}
    BY <1>5 DEF find_dead
  <2>2. SearchInv' /\ GraphInv' /\ DeadInv'
    BY <1>0, <2>1 DEF SearchInv, GraphInv, DeadInv, Pending
  <2>3. LoopInv' /\ LiveLeast'
    BY <1>0, <2>1, StableMeaning DEF LoopInv, LiveLeast
  <2> QED BY <2>2, <2>3 DEF IInv
<1>6. CASE Terminated \/ UNCHANGED vars
  <2>1. UNCHANGED vars
    BY <1>6 DEF Terminated
  <2>2. SearchInv' /\ GraphInv' /\ DeadInv'
    BY <1>0, <2>1 DEF vars, SearchInv, GraphInv, DeadInv, Pending
  <2>3. LoopInv' /\ LiveLeast'
    BY <1>0, <2>1, StableMeaning DEF vars, LoopInv, LiveLeast
  <2> QED BY <2>2, <2>3 DEF IInv
<1> QED BY <1>1, <1>2, <1>3, <1>4, <1>5, <1>6 DEF Next

\* A step that sets up the search establishes the inductive invariant.
LEMMA InitStep ==
  ASSUME Init'
  PROVE  IInv'
BY DEF Init, IInv, TypeOK, SearchInv, LoopInv, GraphInv, DeadInv, LiveLeast

\* The inductive invariant: the visited set of a breadth-first search, its
\* queue and its seeds account for every edge of the graph (bfs), the alias
\* loop of compute_live_set starts each round from its last result and the
\* roots, and find_dead complements what it ends with.
THEOREM InductiveInvariant == Spec => []IInv
<1>1. Init => IInv
  BY DEF Init, IInv, TypeOK, SearchInv, LoopInv, GraphInv, DeadInv, LiveLeast
<1>2. IInv /\ TypeOK' /\ [Next]_vars => IInv'
  BY InvStep
<1> QED BY <1>1, <1>2, TypeCorrect, PTL DEF Spec

(***************************************************************************)
(* compute_live_set stops only at a set that holds the roots and is closed *)
(* under calls and aliases, although it compares sizes, not sets.          *)
(***************************************************************************)
THEOREM LiveSetClosed == Spec => []LiveClosed
<1>1. IInv => LiveClosed
  <2> SUFFICES ASSUME IInv, pc \in {"find", "done"} PROVE ClosedSet(live)
    BY DEF LiveClosed
  <2>1. queue = <<>> /\ roots \subseteq seeds /\ seeds \subseteq Pending
        /\ \A n \in live : graph[n] \subseteq Pending
    BY DEF IInv, SearchInv
  <2>2. Pending = live
    BY <2>1 DEF Pending, Range
  <2> QED BY <2>1, <2>2 DEF IInv, LoopInv, ClosedSet
<1> QED BY <1>1, InductiveInvariant, PTL

(***************************************************************************)
(* Nothing is kept that some closed set leaves out: with LiveSetClosed the *)
(* result is the least closed set, the same for every hash order.          *)
(***************************************************************************)
THEOREM LiveSetLeast == Spec => []LiveLeast
BY InductiveInvariant, PTL DEF IInv

-----------------------------------------------------------------------------
(* Soundness on flat function maps. *)

\* Hash order picks, at every start, some function that starts there.
LEMMA TieChoices ==
  ASSUME NEW m, NEW tie \in Ties(m), NEW s \in Starts(m)
  PROVE  /\ tie.exact[s] \in DOMAIN m /\ m[tie.exact[s]].addr = s
         /\ tie.last[s] \in DOMAIN m /\ m[tie.last[s]].addr = s
         /\ tie.by_addr[s] \in DOMAIN m /\ m[tie.by_addr[s]].addr = s
BY DEF Ties

\* The index finds a function for every address that some function holds,
\* and the one it finds starts where that function starts.
LEMMA ResolveFinds ==
  ASSUME NEW m \in FuncMaps, Flat(m), NEW tie \in Ties(m),
         NEW a \in Nat, NEW n \in DOMAIN m, Contains(m, n, a)
  PROVE  /\ resolve_addr_fast(m, tie, a) \in DOMAIN m
         /\ m[resolve_addr_fast(m, tie, a)].addr = m[n].addr
<1> DEFINE s == m[n].addr
<1>1. \A k \in DOMAIN m : m[k].addr \in Nat /\ m[k].size \in Nat /\ m[k].size > 0
  BY ImageAssumption DEF FuncInfo
<1>2. s \in Starts(m) /\ s <= a /\ a < s + m[n].size
  BY DEF Starts, Contains, FuncEnd
<1>3. \A k \in DOMAIN m : s <= m[k].addr /\ m[k].addr <= a
                            => m[k].addr = s /\ m[k].size = m[n].size
  BY <1>1, <1>2 DEF Flat, FuncEnd
<1>4. CASE a \in Starts(m)
  <2>1. tie.exact[a] \in DOMAIN m /\ m[tie.exact[a]].addr = a
    BY <1>4, TieChoices
  <2>2. resolve_addr_fast(m, tie, a) = tie.exact[a]
    BY <1>4 DEF resolve_addr_fast
  <2> QED BY <1>1, <1>2, <1>3, <2>1, <2>2
<1>5. CASE a \notin Starts(m)
  <2>1. StartBelow(m, a) = {s}
    <3>1. \A t \in Starts(m) : t \in Nat /\ (t <= a => t <= s)
      BY <1>1, <1>3 DEF Starts
    <3>2. s \in StartBelow(m, a)
      BY <1>2, <3>1 DEF StartBelow
    <3>3. \A t \in StartBelow(m, a) : t = s
      BY <1>2, <3>1 DEF StartBelow
    <3> QED BY <3>2, <3>3
  <2>2. tie.last[s] \in DOMAIN m /\ m[tie.last[s]].addr = s
    BY <1>2, TieChoices
  <2>3. a < FuncEnd(m, tie.last[s])
    BY <1>1, <1>2, <1>3, <2>2 DEF FuncEnd
  <2>4. {k \in {tie.last[t] : t \in StartBelow(m, a)} : a < FuncEnd(m, k)}
          = {tie.last[s]}
    BY <2>1, <2>3
  <2>5. resolve_addr_fast(m, tie, a) = tie.last[s]
    BY <1>5, <2>4 DEF resolve_addr_fast
  <2> QED BY <2>2, <2>5
<1> QED BY <1>4, <1>5

\* A function the index returns holds the address.
LEMMA ResolveHolds ==
  ASSUME NEW m \in FuncMaps, NEW tie \in Ties(m), NEW a \in Nat,
         resolve_addr_fast(m, tie, a) # NoFunc
  PROVE  /\ resolve_addr_fast(m, tie, a) \in DOMAIN m
         /\ Contains(m, resolve_addr_fast(m, tie, a), a)
<1>1. \A k \in DOMAIN m : m[k].addr \in Nat /\ m[k].size \in Nat /\ m[k].size > 0
  BY ImageAssumption DEF FuncInfo
<1>2. CASE a \in Starts(m)
  <2>1. tie.exact[a] \in DOMAIN m /\ m[tie.exact[a]].addr = a
    BY <1>2, TieChoices
  <2>2. resolve_addr_fast(m, tie, a) = tie.exact[a]
    BY <1>2 DEF resolve_addr_fast
  <2> QED BY <1>1, <2>1, <2>2 DEF Contains, FuncEnd
<1>3. CASE a \notin Starts(m)
  <2> DEFINE ok == {k \in {tie.last[t] : t \in StartBelow(m, a)} :
                      a < FuncEnd(m, k)}
  <2>1. resolve_addr_fast(m, tie, a) = IF ok = {} THEN NoFunc ELSE CHOOSE k \in ok : TRUE
    BY <1>3 DEF resolve_addr_fast
  <2>2. resolve_addr_fast(m, tie, a) \in ok
    <3> HIDE DEF ok
    <3> QED BY <2>1
  <2>3. PICK t \in StartBelow(m, a) :
          /\ resolve_addr_fast(m, tie, a) = tie.last[t]
          /\ a < FuncEnd(m, tie.last[t])
    BY <2>2
  <2>4. t \in Starts(m) /\ t <= a
    BY DEF StartBelow
  <2> QED BY <2>3, <2>4, TieChoices DEF Contains
<1> QED BY <1>2, <1>3

\* On a flat map the live set answers for everything that can run.
LEMMA LiveReachClosed ==
  ASSUME IInv, Flat(funcs), pc \in {"find", "done"}
  PROVE  ReachClosed(live)
<1>1. /\ funcs \in FuncMaps /\ refs \in RefSets /\ live \subseteq DOMAIN funcs
  BY DEF IInv, TypeOK
<1>2. PICK tie \in Ties(funcs) :
        /\ graph = RefGraph(funcs, refs, tie)
        /\ roots = determine_roots(funcs,
                     DataRefNames(funcs, words, managed, tie),
                     OrphanRefs(funcs, refs, tie))
  BY DEF IInv, GraphInv
<1>3. /\ roots \subseteq live
      /\ \A n \in live : graph[n] \subseteq live
      /\ Aliases(live) \subseteq live
  <2>1. /\ queue = <<>> /\ roots \subseteq seeds /\ seeds \subseteq Pending
        /\ \A n \in live : graph[n] \subseteq Pending
    BY DEF IInv, SearchInv
  <2>2. Pending = live
    BY <2>1 DEF Pending, Range
  <2> QED BY <2>1, <2>2 DEF IInv, LoopInv
<1>4. ASSUME NEW k \in live, NEW n \in DOMAIN funcs, funcs[n].addr = funcs[k].addr
      PROVE  n \in live
  BY <1>1, <1>3, <1>4 DEF Aliases
<1>5. ASSUME NEW n \in DOMAIN funcs,
             n \in RUNTIME_KEEP \/ funcs[n].is_global
               \/ funcs[n].addr \in words \cup managed
      PROVE  n \in live
  <2>1. CASE n \in RUNTIME_KEEP \/ funcs[n].is_global
    BY <1>2, <1>3, <2>1 DEF determine_roots
  <2>2. CASE funcs[n].addr \in managed
    BY <1>2, <1>3, <2>2 DEF determine_roots, DataRefNames, managed_funcs
  <2>3. CASE funcs[n].addr \in words
    <3>1. funcs[n].addr \in Starts(funcs)
      BY DEF Starts
    <3>2. tie.by_addr[funcs[n].addr] \in live
      BY <1>2, <1>3, <2>3, <3>1
         DEF determine_roots, DataRefNames, scan_data_for_func_addrs
    <3>3. funcs[tie.by_addr[funcs[n].addr]].addr = funcs[n].addr
      BY <3>1, TieChoices
    <3> QED BY <1>4, <3>2, <3>3
  <2> QED BY <1>5, <2>1, <2>2, <2>3
<1>6. ASSUME NEW r \in refs, RunsFrom(live, r),
             NEW n \in DOMAIN funcs, Contains(funcs, n, r.target)
      PROVE  n \in live
  <2> DEFINE src == resolve_addr_fast(funcs, tie, r.addr)
             tgt == resolve_addr_fast(funcs, tie, r.target)
  <2>1. r.addr \in Nat /\ r.target \in Nat
    BY <1>1, ImageAssumption
  <2>2. tgt \in DOMAIN funcs /\ funcs[tgt].addr = funcs[n].addr
    BY <1>1, <1>6, <2>1, ResolveFinds
  <2>3. CASE src = NoFunc
    <3>1. tgt \in OrphanRefs(funcs, refs, tie)
      BY <2>2, <2>3 DEF OrphanRefs
    <3>2. tgt \in live
      BY <1>2, <1>3, <3>1 DEF determine_roots
    <3> QED BY <1>4, <2>2, <3>2
  <2>4. CASE src # NoFunc
    <3>1. src \in DOMAIN funcs /\ Contains(funcs, src, r.addr)
      BY <1>1, <2>1, <2>4, ResolveHolds
    <3>2. PICK k \in live : Contains(funcs, k, r.addr)
      BY <1>6, <3>1 DEF RunsFrom
    <3>3. funcs[src].addr = funcs[k].addr
      BY <1>1, <2>1, <3>2, ResolveFinds
    <3>4. src \in live
      BY <1>4, <3>1, <3>2, <3>3
    <3>5. tgt \in live
      <4>1. CASE tgt = src
        BY <3>4, <4>1
      <4>2. CASE tgt # src
        <5>1. tgt \in graph[src]
          BY <1>2, <2>2, <3>1, <4>2 DEF RefGraph
        <5> QED BY <1>3, <3>4, <5>1
      <4> QED BY <4>1, <4>2
    <3> QED BY <1>4, <2>2, <3>5
  <2> QED BY <2>3, <2>4
<1> QED BY <1>5, <1>6 DEF ReachClosed

(***************************************************************************)
(* On images whose function ranges coincide or are disjoint, the bytes     *)
(* handed to removal never overlap a function that can run.                *)
(***************************************************************************)
THEOREM RemovalSound ==
  ASSUME \A m \in FuncMaps : Flat(m)
  PROVE  Spec => []NoReachedCodeRemoved
<1>1. IInv => NoReachedCodeRemoved
  <2>1. SUFFICES ASSUME IInv, NEW d \in dead, NEW r \in Reached
                 PROVE  DisjointRanges(d, r)
    BY DEF NoReachedCodeRemoved
  <2>2. pc = "done" /\ d \in DOMAIN funcs /\ d \notin live
    BY <2>1 DEF IInv, DeadInv
  <2>3. Flat(funcs) /\ live \subseteq DOMAIN funcs
    BY <2>1 DEF IInv, TypeOK
  <2>4. ReachClosed(live)
    BY <2>1, <2>2, <2>3, LiveReachClosed
  <2>5. r \in live /\ r \in DOMAIN funcs
    BY <2>1, <2>3, <2>4 DEF Reached
  <2>6. Aliases(live) \subseteq live
    BY <2>1, <2>2 DEF IInv, LoopInv
  <2>7. funcs[d].addr # funcs[r].addr
    BY <2>2, <2>5, <2>6 DEF Aliases
  <2> QED BY <2>2, <2>3, <2>5, <2>7 DEF Flat, DisjointRanges
<1> QED BY <1>1, InductiveInvariant, PTL

=============================================================================
