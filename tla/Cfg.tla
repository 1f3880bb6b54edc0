-------------------------------- MODULE Cfg --------------------------------
(***************************************************************************)
(* The flow graph of one function, as analysis/cfg.rs builds it, and its   *)
(* search for dead code behind calls that never return.                    *)
(*                                                                         *)
(* A function is a sequence of instructions; the address of an instruction *)
(* is its position, 0 stands for any address outside the function.  An     *)
(* instruction is [flow, targets, callee, effs, test, dests]: targets are  *)
(* the direct targets the decoder sees, callee the kind of function a Call *)
(* enters, effs and test are what Sccp needs, and dests is where an        *)
(* indirect branch really goes, which the decoder does not see.            *)
(***************************************************************************)
EXTENDS Filter, FiniteSetsExt, SequencesExt

CONSTANT MinDead   \* smallest block worth removing (2 bytes)

Flows == {"Normal", "Call", "IndirectCall", "UnconditionalBranch",
          "ConditionalBranch", "IndirectBranch", "Return", "Halt"}

Addrs(p) == 1..Len(p)

InFunction(p, S) == S \cap Addrs(p)

\* A call to a noreturn function, known by symbol or, with the import
\* names at hand, by its import thunk.
is_noreturn_call(i, with_imports) ==
  /\ i.flow = "Call"
  /\ i.callee = "noreturn" \/ (with_imports /\ i.callee = "noreturn_import")

-----------------------------------------------------------------------------
(* Dead code behind noreturn calls. *)

\* Direct targets inside the function.
collect_branch_targets(p) ==
  UNION {InFunction(p, p[a].targets) : a \in {b \in Addrs(p) : p[b].flow # "Call"}}

\* The region behind a noreturn call at a, up to the next branch target.
scan_dead_region(p, a) ==
  LET stop == Min({t \in collect_branch_targets(p) : t > a} \cup {Len(p) + 1})
  IN [addr |-> a + 1, size |-> stop - (a + 1)]

find_dead_blocks(p) ==
  {d \in {scan_dead_region(p, a) :
            a \in {b \in Addrs(p) : is_noreturn_call(p[b], TRUE)}} :
     d.size >= MinDead}

-----------------------------------------------------------------------------
(* Blocks and edges.  A block is known by the address it starts at. *)

find_block_starts(p) ==
  {1} \cup InFunction(p, {a + 1 : a \in {b \in Addrs(p) : p[b].flow # "Normal"}})
      \cup collect_branch_targets(p)

BlockEnd(p, b) == Min({s \in find_block_starts(p) : s > b} \cup {Len(p) + 1})

find_last_instr(p, b) == p[BlockEnd(p, b) - 1]

fallthrough_edge(p, b) == IF BlockEnd(p, b) <= Len(p) THEN <<BlockEnd(p, b)>> ELSE <<>>

\* Addresses of the function in ascending order.
Ascending(p, S) == Keep([a \in Addrs(p) |-> a], S)

resolve_targets(p, i) == Ascending(p, i.targets)

\* The successors of a block, in the order they are pushed.
compute_edges(p, b) ==
  LET last == find_last_instr(p, b)
  IN CASE last.flow \in {"Normal", "IndirectCall"} -> fallthrough_edge(p, b)
       [] last.flow = "Call" ->
            IF is_noreturn_call(last, FALSE) THEN <<>> ELSE fallthrough_edge(p, b)
       [] last.flow = "UnconditionalBranch" -> resolve_targets(p, last)
       [] last.flow = "ConditionalBranch" ->
            fallthrough_edge(p, b)
              \o Ascending(p, last.targets \ Range(fallthrough_edge(p, b)))
       [] last.flow \in {"Return", "Halt"} -> <<>>
       [] last.flow = "IndirectBranch" -> Ascending(p, find_block_starts(p))

=============================================================================
