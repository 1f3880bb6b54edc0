# Verification of trim

trim finds functions and blocks of a binary that can never run and removes
them: it reads an image, builds a call graph and flow graphs, and rewrites the
file so that everything left still finds everything else. This directory holds
TLA+ models of its core, the TLC configurations that check them on small
instances, and proofs checked by TLAPS.

## 1. The system

| component | source | state | operations |
|---|---|---|---|
| call graph and roots | `decode/callgraph.rs`, `decode/scan.rs`, `analysis/roots.rs` | function map, sorted index, references, words of data | resolve an address, build edges, collect orphan references, pick roots |
| live functions | `analysis/reachability.rs` | live set, queue, size before the last round | bfs, alias expansion until nothing grows, find_dead |
| flow graph, noreturn scan | `analysis/cfg.rs` | blocks and edges of a function | find block starts, edges, dead regions behind noreturn calls |
| SCCP | `analysis/sccp.rs`, `analysis/lattice.rs` | register values per block, executable edges, worklist | evaluate a block, fold a branch, propagate, give up, report |
| interval arithmetic | `patch/relocs.rs` | the plan: removed intervals of .text | shift, page rounding, padding absorption, merge |
| unwind tables | `format/elf/ehframe.rs` | CIEs, FDEs, CFA programs, LSDAs | narrow a plan, re-space rows, keep landing pads |
| ELF rewriting | `format/elf/{mod,patch}.rs`, `patch/{compact,data_ptrs,zerofill}.rs` | the bytes of the file and its tables | split, plan, patch, compact, fill in place |
| command | `main.rs`, `lib.rs` | arguments, files, exit code | parse, read, process, write |
| function inference | `decode/infer.rs`, `format/elf/{mod,symbols}.rs` | function map of an image | read symbol tables, collect starts, cut at FDEs, mark taken addresses, add fall-through and table references |
| RELR packing | `format/elf/relr.rs` | relocation tables, dynamic tags, headers | check, select, encode, drain freed pages, refuse |
| WebAssembly | `format/wasm/mod.rs` | functions, call graph, dead regions | parse, search, scan bodies, rebuild the code section |
| Java | `format/java` | methods, constant pool | search, scan bytecode, cut or fill, rebuild the class file |
| .NET | `format/dotnet` | metadata rows, IL bodies, PE headers | search, scan IL, compact bodies, patch RVAs and headers |
| decoders, patchers | `arch/*` | instructions | decode, rewrite displacements, rewrite jump tables |
| register effects | `analysis/regstate.rs` | effects of an instruction | classify per architecture |
| NativeAOT | `format/elf/nativeaot.rs` | ReadyToRun tables | parse, list managed code |
| PE, Mach-O | `format/pe`, `format/macho` | headers, relocations | as ELF |

Everything runs in one thread on a byte vector. A run is a pipeline: parse the
image, `run_analysis` (graph, roots, live set), the noreturn scan and SCCP on
live functions, `reassemble` with the dead functions and blocks, optionally RELR
packing, one write. The components share the function map, the decoded
instructions, the section list and the plan.

What makes it hard to test:

* *Unordered containers.* Every map is a `HashMap` seeded per process; among
  aliases at one address hash order decides which name an address resolves to.
* *Fixpoints.* The alias loop stops on an equal count; the SCCP worklist queues
  a block only on a change and stops at an iteration cap.
* *Two descriptions of one move.* References are patched from interval
  arithmetic, bytes are moved by slicing and draining. Inside .text addresses
  move by bytes, behind it by whole pages. Padding absorption changes both.
* *A plan that is revised.* Unwind tables that cannot follow a plan cut it,
  which changes what other tables must follow.
* *All or nothing.* Once references are patched, compaction must not refuse.
* *Code entered without a call.* Exports, pointers in data, switch tables,
  exception handlers, fall-through and the unwinder reach code that no decoded
  branch names.
* *Two readers.* What the loader, a virtual machine or a validator makes of the
  rewritten file is decided by rules the rewriting code only mirrors.
* *The only copy.* In-place mode truncates and rewrites the input.

The complete list, with lines, is `hazards` in `PROJECT.json`.

## 2. Modules

```
CallGraph <- Reachability <- MCReachability          (runs)
                          <- ReachabilityProofs      (theorems)
CallGraph <- Infer <- ElfAnalysis <- MCElfAnalysis   (ElfAnalysis instantiates Reachability)
                                  <- ElfAnalysisProofs  (instantiates ReachabilityProofs)
Filter <- Intervals <- Unwind <- Compaction <- MCCompaction
                                            <- CompactionProofs <- MovedProofs
Cfg, Lattice <- Sccp <- MCSccp
                     <- SccpProofs                   (with the facts about Cfg)
Cli <- MCCli
    <- CliProofs
Filter <- Facts <- all proof modules but CliProofs   (shared lemmas)
Relr <- MCRelr                                       (Relr implements LoadedImage)
     <- RelrProofs
Excise <- Wasm <- MCWasm
Excise <- Java <- MCJava
Excise, Intervals <- Dotnet <- MCDotnet
ClrTables <- MCClrTables
```

**CallGraph.** A function map is a TLA+ function from names to
`[addr, size, is_global]`. `resolve_addr_fast` is the binary search; the
choices hash order makes among aliases are a *tie* record, over which
`BuildGraph` quantifies. A reference is one pair of instruction address and
target.

**Reachability.** `BuildGraph` is the first half of `run_analysis`; `BfsStep` is
one turn of the loop of `bfs`, `BfsEnd` its end, `AliasExpand` one turn of the
loop of `compute_live_set`, `find_dead` the last step. Queues are filled in any
order.

**Infer, ElfAnalysis.** `Infer` gives, under the names of the source, what
`build_func_map` makes of an image: the functions of its symbol table, or the
inferred ones, cut at FDEs where `fde_hints` allows. `ElfAnalysis` composes it
with the search: `Refuse` and `FindFunctions` are `analyze_elf_full` up to
`run_analysis`, `Analyse` is any step of `Reachability`, instantiated on the same
variables. When the dead functions are known, `Enter` and `Execute` run the
*original* program (external in the map): it starts wherever the loader, the
unwinder, a pointer or an export can start it, and indirect branches go to any
address that executed code has formed or the data holds.

**Filter, Intervals, Unwind.** Operators only, under the names of the source;
`Keep` is `iter().filter` and `retain`.
`expand_one` says what the two scanning loops compute (the lowest and highest
bound with padding in between). An unwind record keeps the addresses of its CFA
rows, not the encoded program; `opaque` marks a program with an opcode that
cannot be re-spaced.

**Compaction.** The stages of `reassemble_elf`: `zero_fill_ranges`
(split and fill outside .text), `PlanIntervals`, `unwind_safe_intervals` (one
step per round), `apply_patches`, `compact_text`, `fill_in_place`. A byte of the
file is the offset it had in the input, so a property can ask where it went.
The references of an image are one per kind of slot and target; `Patched` sends
each to the operator of its kind. Dynamic tags are treated like symbol values.
`Memory` is what a loader builds from the rewritten program headers.

**Cfg, Lattice, Sccp.** Addresses are instruction positions. The solver takes
one step per popped block. When it has ended the function is executed from any
register contents, one instruction per step, by a machine (external in the map)
that knows what the solver abstracts: the width of a compare, what a callee
does to caller-saved registers, where an indirect branch really goes.

**Relr, LoadedImage.** `Relr` has the checks of `pack_relative` in one step
(`Plan`, nothing is written before all have passed) and one action per function
of `rewrite`. The file is a sequence of words; program and section headers are
records. `Load` is the dynamic loader: it maps segments, reads `.dynamic`,
applies DT_RELR, then DT_RELA, then DT_JMPREL. `LoadedImage` is the promise: a
rewrite leaves what the loader builds unchanged. The refinement maps `memory` to
itself and `rewritten` to "the file on disk was replaced".

**Wasm, Java, Dotnet.** The three bytecode formats have the same shape: parse,
search, scan live bodies for code behind terminators, rewrite, and then run the
rewritten program beside the original, instruction by instruction. Bodies are
byte sequences and every scan reads them with the lengths its own code uses;
the machine reads them with the format's. `Excise` holds what they share:
cutting ranges out of a sequence and how a position shifts. In `Wasm` every
iteration of `scan_wasm_body_dead` is an action; in `Java` and `Dotnet` one
method is scanned or rewritten per step. In `Java`, `align` is the code's offset
in the file modulo four: `opcode_length` pads a switch by the offset in the file,
`collect_branch_targets` by the one in the code, and the model has both.
`Dotnet` also has the PE side: zeroed and drained bytes, RVAs of rows and CLI
header, section headers, entry point, SizeOfCode and SizeOfImage. Its runtime
takes a fat method header only on a boundary of four bytes, and its loader an
image only if every section lies within SizeOfImage; that Windows also wants
sections without gaps is left out. It starts from metadata rows that were found
where they are; `ClrTables` is the computation that finds them.

**Cli.** One invocation. Reads and writes may fail, `OpenTarget` and `WriteFile`
separate truncation from writing as `fs::write` does, and `set_executable`
follows. Standard output is line-buffered: `WriteStdout` is `write_all`, which
may fail, pass everything on or keep a tail in the buffer (`buffered`), and
`ExitFlush` is `process::exit`, which writes the tail and ignores an error.
`Crash` ends the process anywhere, `Edit` is another process that replaces a
file by a new build. What the analysis and the RELR packer find in a content is
part of the content.

## 3. Runs

| run | checks |
|---|---|
| `reachability` | `LiveClosed`, `LiveLeast`, `NoReachedCodeRemoved`, `Termination` over all flat images of four functions |
| `compaction` | the rewritten image is the program: `LiveCodeKept`, `RefsFollow`, `HeadersFollow`, `UnwindFollows`, `LsdaOffsetsKept`; the plan is sane: `AlignmentKept`, `NeverHalfApplied` |
| `sccp` | `ValuesSound` and `DeadNeverEntered` over executions; `WorklistComplete`, `OnlyUp` of the solver |
| `cli` | `SuccessMeansWhole`, `ErrorsIsolated`, `Delivered`, `DryRunReadOnly`, `Termination` |
| `elf_analysis` | `ReachedKept`: the running program never enters a function reported dead; `BoundariesExact`: functions found without symbols are disjoint and keep FDEs whole |
| `relr` | `LoadsTheSame` (refinement of `LoadedImage`), `StillMappable`, `SectionsKept` |
| `wasm` | `StillValid`, `SameExecution`, `Termination` |
| `java` | `SameExecution`, `Verifies` |
| `dotnet` | `SameExecution`, `RvasFollow` |
| `wasm_nested`, `java_handlers`, `dotnet_tables` | violated: see below |

Each module has one type invariant; where a type says more (intervals inside
.text, words that wrap, the bound on rounds) its comment says so.

### Where the code and its documentation part

Three runs check, on inputs outside those of the passing run, a property that a
comment states, and find it violated:

* `wasm_nested`: a `return` or `br` inside a block makes the rest of the function
  dead, the block's `end` included; the rewritten module is not valid. The
  passing run therefore has terminators at the level of the function only, or
  behind such a one.
* `java_handlers`: exception handlers are not among the branch targets, so a
  handler behind a `goto` is filled although the virtual machine enters it. The
  passing run has no exception tables.
* `dotnet_tables`: a Module row is taken for 12 bytes instead of 10, so every row
  behind it is looked up at a wrong offset. What `dotnet` shows holds for
  assemblies whose rows are found, such as those of `tests/gen_dotnet.py`, which
  have no Module row.

### Further cases the passing runs leave out

The models have the behaviour of the next table, and a property fails on it. Each
case is reproduced by giving the constant the named set in the passing run's
configuration, or by adding the named formula as an invariant. The middle column
says what the passing run has instead.

| what goes wrong | passing run | to reproduce |
|---|---|---|
| the tail of standard output still buffered at exit is lost, with exit code 0 (`main.rs:220`, `:46`) | `SuccessMeansWhole` and `Delivered` leave out exactly that tail; files are not affected | `StdoutWhole` in `Cli.cfg` |
| `.relr.dyn` is written over a section of zeros behind the section name table (`relr.rs:1265`) | a section there is not zero | `Images <- ZeroComment`: `SectionsKept` |
| a Java switch gets the wrong length where code starts off a multiple of four in the file; the scan takes an offset for a return and fills the cases behind it (`bytecode.rs:365`) | switches at all four alignments, with tables whose bytes are no terminators when misread | `Classes <- SwitchClasses`: `SameExecution` |
| a LineNumberTable is copied unchanged behind compacted code (`bytecode.rs:649`) | no property about debug attributes | `Classes <- LineClasses`: `LinesInCode` |
| dead code at the end of a method with a stack map becomes NOPs that run off the end, which the verifier refuses (`java/mod.rs:120`) | `Verifies` has targets, frames, handlers and lengths, not this rule | `Classes <- TailClasses`: `ClosedEnd` |
| the entries of an IL switch are decoded as instructions; 42 reads as `ret` (`il.rs:605`) | entries are at most 16 | `Assemblies <- FarSwitch`: `SameExecution` |
| operands of `ldc.i4.s` and others are given no size (`il.rs:142`) | operands have the size the scan gives them | `Assemblies <- ShortOperand`: `SameExecution` |
| a live fat method moves by three bytes, off its boundary (`dotnet/mod.rs:385`) | dead methods in front of fat ones fill whole words | `Assemblies <- BehindThree`: `SameExecution` |
| SizeOfImage is lowered while the last section stays (`pe/patch.rs:151`) | sections aligned to 16 pages, so that what goes is slack | `Assemblies <- Tight`: `RvasFollow` |
| an RVA in a section behind .text is lowered though the section stays (`dotnet/patch.rs:79`) | RVAs lead into .text | `Assemblies <- Behind`: `RvasFollow` |
| data directories are not patched (`dotnet/mod.rs:378`) | directories lead in front of the bodies | `Assemblies <- DirectoryBehind`: `RvasFollow` |

Other failing cases that the inputs avoid have no input set of their own. Those
known are recorded with their line in `hazards`: symbols nested inside others
(`decode/callgraph.rs:91`), 32-bit headers and AArch64 addends
(`format/elf/patch.rs`), words of `.data` that point behind `.text`
(`patch/data_ptrs.rs:71`), bytes that only look like padding
(`patch/relocs.rs:152`), switch cases that only a table names
(`analysis/cfg.rs:206`), jumps to NOPs before a function (`decode/infer.rs:541`),
segments without file bytes (`format/elf/relr.rs:1033`), bulk memory
instructions (`format/wasm/mod.rs:606`).

### Bounds

* `reachability`: four names, three slots of two, two and one addresses and one
  address in no function, up to two references, one data word, one managed
  address. That is enough for alias chains through two rounds of the fixpoint,
  orphan references, and functions below `MinDeadSize`. Names other than `main`
  are interchangeable, so only ordered placements are enumerated.
* `compaction`: .init of two bytes, .text of eight with three functions, three
  bytes of data, pages of two bytes, so that plans free less than a page,
  exactly one, and several. Padding lies at each seam in turn. Instruction
  alignment is 1 or 2 and equals the code alignment factor. `DataGap` separates
  addresses from offsets behind .text.
* `sccp`: six instructions, two-bit words whose "low byte" is one bit, one
  caller-saved and one callee-saved register and the flags; seven instructions
  is one more than `MaxInstrs`. `MinDead` is 1 because an instruction counts as
  one address: the model reports every block the code would, and one-byte ones. `IterFactor` is small enough that some functions
  hit the cap and others converge.
* `elf_analysis`: seven addresses of `.text`, one of `.init`, two adjacent switch
  tables, 6169 images in six families: code in pieces of one to three
  instructions that FDEs cover, overlap, overrun or leave out; addresses taken
  by data of each kind, personalities, exports, immediates; tables; an
  instruction that straddles an FDE's start; no FDEs; symbol tables with
  exports inside local functions and a name used twice. `MinDeadSize` is 1 so
  that no function is too small to be removed.
* `relr`: words of a few bytes and bitmaps of a few bits, so that one bitmap ends
  inside the table; pages of a few words; segments of different alignment
  behind the drain.
* `wasm`: every well-nested body of up to `MaxInstrs` = 5 instructions, and
  three functions with every pair of calls; a LEB128 byte holds two bits, so
  that sizes change length.
* `java`, `dotnet`: methods of four or five instructions with each kind of
  branch and switch over dead and live ranges, and classes of three methods
  with calls; pages of four bytes. Code starts at each offset modulo four in
  the class file. .NET images have less than a dead page, or up to eleven.
* `cli`: two files, a link to one of them, a link out of `/work`, a missing
  name, one write by another process.

### Deadlock and fairness

`Reachability`, `ElfAnalysis`, `Compaction`, `Sccp`, `Relr` and `Cli` have a stuttering step at
their final state, so deadlock checking stays on and finds stages with no
successor. The bytecode modules end in a machine that may stop (a return of the
outermost function, a trap), and are checked without it. Liveness is checked for
`reachability` under weak fairness of `Next`, for `wasm` under weak fairness of
`Trim` (the engine is not fair), and for `cli` under weak fairness of `TrimStep`: the program is a single thread that waits for
nobody and is scheduled by the operating system. `Crash` and `Edit` are not fair.

## 4. Proofs

`ReachabilityProofs` proves for every finite image, every reference set and
every hash order:

* `TypeCorrect`: `Spec => []TypeOK`;
* `LiveSetClosed`: `Spec => []LiveClosed`;
* `LiveSetLeast`: `Spec => []LiveLeast`;
* `RemovalSound`: `Spec => []NoReachedCodeRemoved`, assuming that every two
  functions of an image have the same range or disjoint ranges (`Flat`).
  Inferred maps are flat (`FunctionsAreExact` below); for symbol tables the
  assumption is needed: with nested symbols the property fails.

Assumptions on constants: `NamesAssumption` (finitely many names) and
`ImageAssumption` (maps and references are well formed).

`LiveClosed` is not inductive: it speaks of the end. `IInv` adds what a search
owes (`SearchInv`: every seed and every callee of a live function is live or
queued), what a repeated search was seeded with (`LoopInv`: some set of
`prev_size` functions and their aliases), and where graph and roots came from
(`GraphInv`). The step that matters is the end of the loop: the seeds contain
the old set and its aliases, the live set contains the seeds, and the live set
has as many members as the old set, so the three are equal and closed under
aliases. `RemovalSound` then needs that the index finds, for an address inside
a function of a flat map, some function starting where that one starts
(`ResolveFinds`), and that aliases of it are live with it.

`CliProofs` proves for every argument list, every file system, every failure,
crash and write by another process: `TypeCorrect`, `DryRunWritesNothing` (the
action property `DryRunReadOnly`), `SuccessIsWhole`, `ErrorsStayIsolated`,
`OwedIsDelivered`. `SuccessIsWhole` and `OwedIsDelivered` speak of standard output up to what it had
buffered at exit. `CliAssumption` says that a file has contents and that every
path leads to a node. The invariants behind them say what a step between reading
and writing holds in its hands: `TypeInv` (which nodes are files, what `data` and
`result` are), `WholeInv` (while nothing failed, the only torn file is the one
being written, and standard output is torn only while it has a buffered tail), `OutcomeInv` (the files before `k` have an outcome and the exit
code follows), `DeliveredInv` (per file: untouched, being written, or owed and
delivered; only for files no other argument leads to).

`SccpProofs` proves for every function, word size and register set:
`TypeCorrect`, `SolverOnlyUp` (the action property `OnlyUp`), `NothingForgotten`
(`WorklistComplete`), `AnalysisSound` (`ValuesSound`) and `DeadIsDead`
(`DeadNeverEntered`). `SccpAssumption` bounds the constants and says of functions
that an indirect branch leads to the start of a block or out of the function and
never behind a noreturn call (`IndirectSound`): this the code relies on and does
not check (`analysis/cfg.rs:206`). `SolveInv` says that an executable block
waits or has told its successors everything it knows, so an empty worklist is a
fixpoint; soundness follows along an execution, block by block, from lemmas that
each operator of `Lattice` covers what the machine computes, compares at any
width included. A solver that stops at its cap reports nothing. The module begins
with the facts about blocks: they partition a function, and edges lead to starts.

`CompactionProofs` proves for every image, layout and page size:

* `TypeCorrect`, `PlanIsAligned` (`AlignmentKept`), `PlanIsCarriedOut`
  (`NeverHalfApplied`);
* `CodeIsKept`: `LiveCodeKept`, provided that no byte of an instruction looks
  like padding to `is_padding` (`input.lookalike = {}`; without it the property
  fails, see the hazard at `patch/relocs.rs:152`);
* `HeadersDescribe`: `HeadersFollow`, under the same condition and for 64-bit
  images, the only ones whose headers are patched.

`LayoutAssumption` fixes the order of the sections. `InputAssumption` says that
dead ranges of .text are whole instruction units, that the section header table
is no code and that unwind records are well formed and not discarded by the
linker (begin 0; `patch_fde` skips those); nothing is assumed about
overlaps, about where padding lies or about what the unwind records cover.
The argument has four parts:

1. *The plan* (`PlanInv`). Every interval is whole units and holds no byte of
   code (`UnitIv`): dead ranges are such, and `merge_intervals`, `expand_one` and
   `cut_range` keep it.
2. *The rounds.* `Spared`: after `n` rounds at least `n` unwind records lie clear
   of the plan. A round cuts a stuck record out of the plan; it then is clear of
   the plan and stays so, since intervals only shrink, and a record clear of a
   plan can follow it (`ClearFollows`), so it is never stuck again. So the `Len(fdes) + 1` rounds of the
   code are never used up: the loop ends because nothing is stuck.
3. *The move* (`LiveMoves`). By induction over .text, what `build_live_text`
   has collected up to an address is as long as the address minus its shift, so
   each byte left lies where `shift_at` says, and `compact_text` frees as many
   bytes as the shifts account for and never refuses.
4. *The file* (`KeptInv`, `HeadInv`). Until the last step every byte is in place
   or dead and overwritten; the last step keeps the code in its order, and puts
   it where the headers patched one step earlier say.

TLAPS cannot use induction theorems that take a predicate. The inductions above
are over sets instead: `UpTo` (a set with 0 that is closed under successor up to
`n` contains `0..n`) is proved from well-foundedness of the naturals, and
`RecursionExists` from it, which gives recursive functions their equations.

`MovedProofs` goes on from there to what a loader sees, for 64-bit images
without lookalikes whose program headers map the file as its sections lie
(`WellMapped`):

* `ReferencesFollow`: `RefsFollow`, for references between bytes in front of the
  section header table (`RefsUnderstood`), of the kinds the patches rewrite in
  full: a pointer in mixed data leads to .text or before it, since
  `patch_one_data_sec` leaves the others alone, and a relocation has the one type
  number whose addend is patched. The byte in front of the table is no padding;
* `UnwindRecordsFollow`: `UnwindFollows`, when functions with records end inside
  .text or lie behind it (`FdesPlaced`);
* `LandingPadsStay`: `LsdaOffsetsKept`, when moreover no range that is given up is
  empty (`RangesHold`) and a function with landing pads is left alone or given up
  whole, which is what `find_dead` hands over for ranges that do not overlap
  (`PadFunctionsWhole`).

The patches compute new values before any byte moves, from interval arithmetic;
bytes are moved later, by slicing. The proof connects the two: over `n` bytes
the shift grows by one for each removed (`ShiftOver`); hence every byte left is
laid where `total_shift` says, inside .text byte by byte, behind it by whole
pages; the patched headers map the new offsets to the addresses the same shifts
give; and slots, targets, function starts and CFA rows are all patched with that
shift. `MovedInv` carries this through the pipeline, the path on which nothing
moves included. For landing pads, `ShieldInv` says that no interval of any plan
reaches between the start of such a function and its last byte of code, not even
into bytes that look like padding: padding is absorbed outwards from a removed
range and stops at code, so a stretch that begins and ends in code is closed to it.

All hypotheses hold on every input of the `compaction` run.

`ElfAnalysisProofs` proves for every image:

* `FunctionsAreExact`: `Spec => []BoundariesExact`;
* `ExecutedKept`: `Spec => [](Regular => ReachedKept)`.

`ImageAssumption` says that addresses are numbers, that instructions lie in .text
and have a length, that .text does not start at address 0, that tables lie in
readable slots, and that no export bears a name the analysis makes up itself.

For the first, FDEs are joined at *heads* (spans that no other span reaches),
joined spans do not overlap and cover every FDE, gaps between spans are cut at
starts, and names are injective in the address a piece starts at, so that no
piece is lost when pieces become a map.

`Regular` collects what an image must be like for executions to stay in what the
analysis kept; the code relies on it and does not check it. It depends on where
the functions came from:

* from FDEs (`CutRegular`): instructions do not overlap, NOPs are not jumped to, a
  call that ends an FDE does not return, the tables code reads end before
  another referenced address and within `MAX_TABLE_ENTRIES`, code pointers lie in
  the sections `mark_taken` scans, and immediates are starts of pieces of an image
  that is not relocated;
* from starts alone (`PlainRegular`): no start lies between an instruction and
  the one it continues with, or between a switch and its cases; pointers and
  immediates are among the words the scan of .data finds;
* from symbols (`SymbolsRegular`): ranges coincide or are disjoint, an instruction
  continues in its own function, and what is entered by pointer lies in a root.

In each case, code in .init, .fini or the PLT that enters .text is not itself
part of a function that could be dead (`InitKept`). `Regular` holds on all 6169
images of the `elf_analysis` run.

Call an address *safe* when every function holding it is live. `ReachabilityProofs`,
instantiated with the maps and references of images, gives that roots are live
and that what a safe instruction refers to is safe (`LiveHolds`). `RunInv` says
that the program stands at a safe address and has formed only safe ones. Entry
points are starts or marked pieces, hence roots; branches and lea are
references; the entries of a table are linked by `table_links`; what is left is
falling through. Inside a function that is trivial; at the start of a piece the
reference of `fallthrough_links` must exist and come from a live instruction.
The code looks for it behind any NOPs in front of the piece, so the invariant has
to remember how the program came to stand on a NOP: `Trailed` says that the last
instruction before the NOPs is live and continues.

`RelrProofs` proves for every image and page size `TypeCorrect` (an image that
some check refuses comes back unchanged) and `DrainKeepsMappable`:
`Spec => [](WasMappable => StillMappable)`. `WasMappable` says of the input what the
property says of the output, that alignments are powers of two (of two, the
greater is a multiple of the smaller), and that loaded segments have bytes in the
file: `shift_align` does not ask the others (`format/elf/relr.rs:1033`). It holds on
every image of the `relr` run. `ImageAssumption` only says that what is read as a
number is one. The argument: if no check refused, the table lies in a segment and
the new tables fit into it (`PlanFits`), so the length of the drain is a multiple
of the greatest alignment among what moves, hence of each (`ShiftedRemainder`).

Only model-checked: the termination properties (TLAPS proves neither liveness
under fairness nor `ENABLED`); the refinement of `LoadedImage` and `SectionsKept` of
`Relr`; and `Wasm`, `Java`, `Dotnet` and `ClrTables`. These compare two executions or
two loads of whole files and rest on inductions over sequences of bytes that the
shared lemmas do not reach yet.

## 5. Plan

Proofs next, in this order:

1. The position lemmas of `Excise`, which `Wasm`, `Java` and `Dotnet` share.
2. `SectionsKept` of `Relr`, for sections that do not overlap.

Modelling left: the unwind search table (`patch_hdr`) and the refusals of
pointer encodings; DT_RELR among the dynamic tags of `Compaction`; displacement
ranges and jump-table rewriting of the patchers; native PE and Mach-O headers on
top of `Intervals`.

## 6. Not modelled

Bit-level decoding of instructions and effects (`arch/*`, `regstate.rs`), which
TLC could only enumerate; parsing of container formats and of NativeAOT tables,
which enter as verdicts or as sets of addresses; native PE relocations, exports
and unwind data, and Mach-O load commands; messages. SSA construction and
dominators are computed by the code but the solver does not use them. Words of
data that are not pointers.
