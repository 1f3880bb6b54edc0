-------------------------------- MODULE Sccp --------------------------------
(***************************************************************************)
(* analysis/sccp.rs on one function, then an execution of that function.   *)
(* The worklist solver is one step per popped block.  When it has ended,   *)
(* the function runs, from any register contents, one instruction per      *)
(* step: what the solver and the noreturn scan of Cfg reported as dead     *)
(* must not be what is executed.                                           *)
(*                                                                         *)
(* An effect is [dst, op, a, b] where the operands a and b are             *)
(* <<"reg", r>> or <<"imm", n>>: "mov" copies a, "clobber" forgets dst, a  *)
(* compare is a "sub" and a test an "and" into FLAGS.  A test is           *)
(* [cc, src, mask]: FLAGS, or the masked bits of a register.               *)
(***************************************************************************)
EXTENDS Cfg, Lattice

CONSTANTS
  Programs,     \* the functions considered
  Regs, FLAGS,  \* all registers; the flags are one of them
  CALLER_SAVED, \* registers a call does not keep
  LowBits,      \* bits of the narrowest compare (8)
  MaxInstrs,    \* longest function analysed (10,000 by default)
  IterFactor    \* worklist turns allowed per block (20)

Operands == {<<"imm", n>> : n \in Word} \cup {<<"reg", r>> : r \in Regs \ {FLAGS}}

Effects == [dst : Regs, op : {"mov", "add", "sub", "and", "clobber"},
            a : Operands, b : Operands]

Instrs == [flow : Flows, targets : SUBSET Nat,
           callee : {"none", "other", "noreturn", "noreturn_import"},
           effs : Seq(Effects), test : [cc : {"eq", "ne", "lt"}, src : Regs, mask : Word],
           dests : SUBSET Nat]

(***************************************************************************)
(* The code relies on this: an indirect branch of the function leaves it   *)
(* or goes to the start of a block (compute_edges), and not behind a call  *)
(* to a noreturn function (scan_dead_region looks at direct targets only). *)
(***************************************************************************)
IndirectSound(p) ==
  \A a \in Addrs(p) :
    /\ p[a].dests \subseteq {0} \cup find_block_starts(p)
    /\ \A d \in find_dead_blocks(p) : p[a].dests \cap (d.addr..(d.addr + d.size - 1)) = {}

ASSUME SccpAssumption ==
  /\ FLAGS \in Regs /\ CALLER_SAVED \subseteq Regs /\ IsFiniteSet(Regs)
  /\ LowBits \in 1..W /\ IterFactor \in Nat /\ MaxInstrs \in Nat
  /\ MinDead \in Nat \ {0}
  /\ \A p \in Programs :
       /\ p \in Seq(Instrs) /\ p # <<>> /\ IndirectSound(p)
       /\ \A a \in Addrs(p) : p[a].targets \subseteq 0..Len(p)

VARIABLES
  prog,                               \* the function
  pc,                                 \* "start", "solve", "find", "run"
  reg_vals, exec_edges, block_exec,   \* SccpState
  worklist, iterations,
  skipped,                            \* the solver gave up
  dead,                               \* the dead blocks reported
  at, regs                            \* the execution

solver == <<reg_vals, exec_edges, block_exec, worklist, iterations>>
vars   == <<prog, pc, solver, skipped, dead, at, regs>>

Blocks == find_block_starts(prog)

\* Nothing is known on entry; elsewhere nothing has arrived yet.
init_entry_regs(b) == [r \in Regs |-> IF b = 1 THEN Top ELSE Bot]

Init ==
  /\ prog \in Programs
  /\ pc = "start"
  /\ reg_vals = [b \in Blocks |-> init_entry_regs(b)]
  /\ exec_edges = {}
  /\ block_exec = {1}
  /\ worklist = <<1>>
  /\ iterations = 0
  /\ skipped = FALSE
  /\ dead = {}
  /\ at = 0 /\ regs = [r \in Regs |-> 0]

-----------------------------------------------------------------------------
(* Abstract evaluation. *)

Operand(vals, o) == IF o[1] = "imm" THEN o[2] ELSE vals[o[2]]

apply_effect(vals, e) ==
  [vals EXCEPT ![e.dst] =
     CASE e.op = "clobber" -> Top
       [] e.op = "mov" -> Operand(vals, e.a)
       [] e.op \notin {"clobber", "mov"} ->
            eval_binop(e.op, Operand(vals, e.a), Operand(vals, e.b))]

Clobbers(S) ==
  LET order == SetToSeq(S)
  IN [n \in DOMAIN order |->
        [dst |-> order[n], op |-> "clobber", a |-> <<"imm", 0>>, b |-> <<"imm", 0>>]]

\* Mutant: a call is taken to keep every register.
add_instr_effects_Kept(i) == i.effs

\* The effects of an instruction; a call forgets the caller-saved registers.
add_instr_effects(i) ==
  IF i.flow \in {"Call", "IndirectCall"} THEN Clobbers(CALLER_SAVED) ELSE i.effs

apply_effects(vals, effs) ==
  LET after[n \in 0..Len(effs)] ==
        IF n = 0 THEN vals ELSE apply_effect(after[n - 1], effs[n])
  IN after[Len(effs)]

\* The values after n instructions of block b, which is entered with vals.
block_vals(p, b, vals) ==
  LET after[n \in 0..(BlockEnd(p, b) - b)] ==
        IF n = 0 THEN vals
        ELSE apply_effects(after[n - 1], add_instr_effects(p[b + n - 1]))
  IN after

\* The values at address stop, coming from the start of block b.
eval_until(b, stop) == block_vals(prog, b, reg_vals[b])[stop - b]

eval_block(b) == eval_until(b, BlockEnd(prog, b))

-----------------------------------------------------------------------------
(* Folding branches. *)

\* Mutant: any nonzero difference counts as nonzero at every width.
flags_zero_Full(v) ==
  CASE v \in {Bot, Top} -> {}
    [] v \notin {Bot, Top} -> {v = 0}

\* What is known of the zero flag, as a set of at most one Boolean: the
\* width of the compare is not, but zero is zero at every width and a
\* nonzero low byte is nonzero at every width.
flags_zero(v) ==
  CASE v \in {Bot, Top} -> {}
    [] v \notin {Bot, Top} ->
         IF v = 0 THEN {TRUE} ELSE IF v % Pow2[LowBits] # 0 THEN {FALSE} ELSE {}

tested_zero(test, vals) ==
  IF test.src = FLAGS THEN flags_zero(vals[FLAGS])
  ELSE IF vals[test.src] \in {Bot, Top} THEN {}
  ELSE {BitAnd(vals[test.src], test.mask) = 0}

\* Whether the branch is taken, as a set of at most one Boolean.  Ordered
\* conditions are never folded.
resolve_branch(cc, zero) ==
  CASE cc = "eq" -> zero
    [] cc = "ne" -> {~z : z \in zero}
    [] cc \notin {"eq", "ne"} -> {}

\* The block ends in a branch with one way on and one target, both inside
\* the function and different.
cond_term(p, b) ==
  LET last == find_last_instr(p, b)
  IN /\ last.flow = "ConditionalBranch"
     /\ BlockEnd(p, b) <= Len(p)
     /\ \E t \in Addrs(p) \ {BlockEnd(p, b)} : InFunction(p, last.targets) = {t}

\* The edges along which block b passes on vals.
feasible_succs(p, b, vals) ==
  LET succs == compute_edges(p, b)
      last  == find_last_instr(p, b)
      taken == IF cond_term(p, b)
               THEN resolve_branch(last.test.cc, tested_zero(last.test, vals))
               ELSE {}
  IN CASE taken = {}      -> succs
       [] taken = {TRUE}  -> Keep(succs, last.targets)
       [] taken = {FALSE} -> Keep(succs, find_block_starts(p) \ last.targets)

-----------------------------------------------------------------------------
(* The worklist. *)

\* Functions with too many instructions are not analysed.
Start ==
  /\ pc = "start"
  /\ skipped' = (Len(prog) > MaxInstrs)
  /\ pc' = IF skipped' THEN "find" ELSE "solve"
  /\ UNCHANGED <<prog, solver, dead, at, regs>>

\* Mutant: only a new edge, not a changed value, queues a block again.
propagate_succs_NewEdges(b, vals, succs) ==
  LET new(s)     == [r \in Regs |-> meet(reg_vals[s][r], vals[r])]
      changed(s) == <<b, s>> \notin exec_edges
      again      == Keep(succs, {s \in Blocks : changed(s)})
  IN /\ reg_vals'   = [s \in Blocks |-> IF s \in Range(succs) THEN new(s) ELSE reg_vals[s]]
     /\ exec_edges' = exec_edges \cup {<<b, s>> : s \in Range(succs)}
     /\ block_exec' = block_exec \cup Range(again)
     /\ worklist'   = Tail(worklist) \o again

\* merge_and_enqueue for every successor: a new edge or a changed value
\* makes the block executable and queues it.
propagate_succs(b, vals, succs) ==
  LET new(s)     == [r \in Regs |-> meet(reg_vals[s][r], vals[r])]
      changed(s) == <<b, s>> \notin exec_edges \/ new(s) # reg_vals[s]
      again      == Keep(succs, {s \in Blocks : changed(s)})
  IN /\ reg_vals'   = [s \in Blocks |-> IF s \in Range(succs) THEN new(s) ELSE reg_vals[s]]
     /\ exec_edges' = exec_edges \cup {<<b, s>> : s \in Range(succs)}
     /\ block_exec' = block_exec \cup Range(again)
     /\ worklist'   = Tail(worklist) \o again

\* Out of turns: unvisited blocks are not proven dead.
GiveUp ==
  /\ pc = "solve" /\ worklist # <<>>
  /\ iterations = IterFactor * Cardinality(Blocks)
  /\ skipped' = TRUE
  /\ pc' = "find"
  /\ UNCHANGED <<prog, solver, dead, at, regs>>

\* One turn of run_sccp.
Visit ==
  /\ pc = "solve" /\ worklist # <<>>
  /\ iterations < IterFactor * Cardinality(Blocks)
  /\ iterations' = iterations + 1
  /\ LET b    == Head(worklist)
         vals == eval_block(b)
     IN IF b \in block_exec
        THEN propagate_succs(b, vals, feasible_succs(prog, b, vals))
        ELSE /\ worklist' = Tail(worklist)
             /\ UNCHANGED <<reg_vals, exec_edges, block_exec>>
  /\ UNCHANGED <<prog, pc, skipped, dead, at, regs>>

Converge ==
  /\ pc = "solve" /\ worklist = <<>>
  /\ pc' = "find"
  /\ UNCHANGED <<prog, solver, skipped, dead, at, regs>>

find_sccp_dead ==
  {[addr |-> b, size |-> BlockEnd(prog, b) - b] :
     b \in {c \in Blocks \ block_exec : BlockEnd(prog, c) - c >= MinDead}}

\* Blocks whose address is known already are not added again.
merge_dead_blocks(base, extra) ==
  base \cup {d \in extra : d.addr \notin {e.addr : e \in base}}

\* The report; then the function is called, with any register contents.
Report ==
  /\ pc = "find"
  /\ dead' = merge_dead_blocks(find_dead_blocks(prog),
                               IF skipped THEN {} ELSE find_sccp_dead)
  /\ pc' = "run"
  /\ at' = 1
  /\ regs' \in [Regs -> Word]
  /\ UNCHANGED <<prog, solver, skipped>>

-----------------------------------------------------------------------------
(* The machine: what the decoded instructions really do. *)

Widths == LowBits..W

\* The values an effect may leave in its destination.  A compare sets the
\* zero flag from the difference at its own width.
Results(rs, e) ==
  LET x == CASE e.op = "mov" -> Operand(rs, e.a)
             [] e.op # "mov" -> compute_binop(e.op, Operand(rs, e.a), Operand(rs, e.b))
  IN CASE e.op = "clobber" -> Word
       [] e.op # "clobber" /\ e.dst = FLAGS -> {x % Pow2[w] : w \in Widths}
       [] e.op # "clobber" /\ e.dst # FLAGS -> {x}

\* The register files an instruction may leave; a callee keeps the others.
Outcomes(rs, i) ==
  LET effs == IF i.flow \in {"Call", "IndirectCall"}
              THEN Clobbers(CALLER_SAVED) ELSE i.effs
      out[k \in 0..Len(effs)] ==
        IF k = 0 THEN {rs}
        ELSE UNION {{[f EXCEPT ![effs[k].dst] = v] : v \in Results(f, effs[k])} :
                    f \in out[k - 1]}
  IN out[Len(effs)]

ZeroTested(test, rs) ==
  IF test.src = FLAGS THEN rs[FLAGS] = 0 ELSE BitAnd(rs[test.src], test.mask) = 0

MayBeTaken(test, rs) ==
  CASE test.cc = "eq" -> {ZeroTested(test, rs)}
    [] test.cc = "ne" -> {~ZeroTested(test, rs)}
    [] test.cc \notin {"eq", "ne"} -> BOOLEAN

\* Where control goes next; 0 leaves the function.
NextAddrs(a, rs) ==
  LET i    == prog[a]
      next == {IF a < Len(prog) THEN a + 1 ELSE 0}
  IN CASE i.flow \in {"Normal", "IndirectCall"} -> next
       [] i.flow = "Call" -> IF is_noreturn_call(i, TRUE) THEN {0} ELSE next
       [] i.flow = "UnconditionalBranch" -> i.targets
       [] i.flow = "ConditionalBranch" ->
            UNION {IF taken THEN i.targets ELSE next : taken \in MayBeTaken(i.test, rs)}
       [] i.flow = "IndirectBranch" -> i.dests
       [] i.flow \in {"Return", "Halt"} -> {0}

Step ==
  /\ pc = "run" /\ at # 0
  /\ regs' \in Outcomes(regs, prog[at])
  /\ at' \in NextAddrs(at, regs')
  /\ UNCHANGED <<prog, pc, solver, skipped, dead>>

Returned == pc = "run" /\ at = 0 /\ UNCHANGED vars

Next == Start \/ Visit \/ GiveUp \/ Converge \/ Report \/ Step \/ Returned

Spec == Init /\ [][Next]_vars

-----------------------------------------------------------------------------
(* Properties. *)

\* Types; folded constants stay machine words, and the worklist stops within
\* the iteration cap of run_sccp.
TypeOK ==
  /\ pc \in {"start", "solve", "find", "run"}
  /\ reg_vals \in [Blocks -> [Regs -> Value]]
  /\ exec_edges \subseteq Blocks \X Blocks
  /\ block_exec \subseteq Blocks
  /\ Range(worklist) \subseteq Blocks
  /\ iterations \in 0..(IterFactor * Cardinality(Blocks))
  /\ skipped \in BOOLEAN
  /\ at \in 0..Len(prog)
  /\ regs \in [Regs -> Word]

\* Block b has told its successors everything it knows.
Settled(b) ==
  LET vals == eval_block(b)
  IN \A s \in Range(feasible_succs(prog, b, vals)) :
       s \in block_exec /\ \A r \in Regs : Leq(vals[r], reg_vals[s][r])

(***************************************************************************)
(* Every executable block waits in the worklist or is settled, so an empty *)
(* worklist is a fixpoint although blocks are only queued on a change.     *)
(***************************************************************************)
WorklistComplete ==
  pc # "start" /\ ~skipped => \A b \in block_exec : b \in Range(worklist) \/ Settled(b)

\* Values only move up the lattice and executable blocks stay executable:
\* what ends the worklist and keeps a fold from being undone too late.
OnlyUp ==
  [][/\ block_exec \subseteq block_exec'
     /\ \A b \in Blocks, r \in Regs : Leq(reg_vals[b][r], reg_vals'[b][r])]_vars

\* The values of register r that v describes.
Gamma(r, v) ==
  CASE v = Bot -> {}
    [] v = Top -> Word
    [] v \notin {Bot, Top} ->
         IF r = FLAGS THEN {v} \cup {v % Pow2[w] : w \in Widths} ELSE {v}

(***************************************************************************)
(* Wherever the function runs after a finished analysis, the block is      *)
(* executable and each register holds a value the solver computed for that *)
(* place.                                                                  *)
(***************************************************************************)
ValuesSound ==
  pc = "run" /\ ~skipped /\ at # 0 =>
    LET b == Max({s \in Blocks : s <= at})
    IN /\ b \in block_exec
       /\ \A r \in Regs : regs[r] \in Gamma(r, eval_until(b, at)[r])

\* No instruction in a block reported as dead is ever executed.
DeadNeverEntered ==
  pc = "run" => \A d \in dead : at \notin d.addr..(d.addr + d.size - 1)

=============================================================================
