----------------------------- MODULE ClrTables -----------------------------
(***************************************************************************)
(* format/dotnet/tables.rs: where the rows of a metadata table start.  The *)
(* tables lie behind one another in the order of their numbers, without    *)
(* any offsets stored, so the size of every row of every table in front    *)
(* decides whether MethodDef rows are read or something else.              *)
(***************************************************************************)
EXTENDS Integers, FiniteSetsExt

CONSTANTS
  RowCounts,   \* the numbers of rows considered, [table -> count]
  Heaps,       \* the heap_sizes considered, subsets of {"strings", "guids", "blobs"}
  NARROW       \* 2^16: how many rows a two-byte index can name

Tables == 0..44
Module == 0
TypeRef == 1
TypeDef == 2
Field == 4
MethodDef == 6
Param == 8
MemberRef == 10
ModuleRef == 26
TypeSpec == 27
AssemblyRef == 35

VARIABLES
  row_counts, heap_sizes,   \* what parse_table_stream has read
  i, off                    \* table_offset: the loop for MethodDef

vars == <<row_counts, heap_sizes, i, off>>

hs(wide) == IF wide THEN 4 ELSE 2
sw == "strings" \in heap_sizes
gw == "guids" \in heap_sizes
bw == "blobs" \in heap_sizes

(* coded_tag_bits *)
coded_tag_bits(n) ==
  CASE n <= 2 -> 1 [] n \in 3..4 -> 2 [] n \in 5..8 -> 3 [] n \in 9..16 -> 4 [] OTHER -> 5

(* coded_idx_wide: the tag takes bits from the index. *)
coded_idx_wide(tables) ==
  Max({row_counts[t] : t \in tables}) >= NARROW \div (2^coded_tag_bits(Cardinality(tables)))

(* coded_sz *)
coded_sz(tag_bits) == IF tag_bits <= 2 THEN 2 ELSE 4

(* typedef_row_size of the typedef_widths *)
typedef_row_size ==
  4 + hs(sw) + hs(sw) + hs(coded_idx_wide({TypeDef, TypeRef, TypeSpec}))
    + hs(row_counts[Field] >= NARROW) + hs(row_counts[MethodDef] >= NARROW)

(* method_def_row_size *)
method_def_row_size == 8 + hs(sw) + hs(bw) + hs(row_counts[Param] >= NARROW)

(* member_ref_parent_sz *)
member_ref_parent_sz == hs(coded_idx_wide({TypeDef, TypeRef, MethodDef, ModuleRef, TypeSpec}))

(* row_size_for_table with row_size_misc and row_size_upper: tables they   *)
(* do not list count nothing.                                              *)
row_size_for_table(tid) ==
  CASE tid = Module -> 4 + hs(sw) + hs(gw) + hs(bw) + hs(sw)
    [] tid = TypeRef -> coded_sz(2) + hs(sw) + hs(sw)
    [] tid = TypeDef -> typedef_row_size
    [] tid = Field -> 2 + hs(sw) + hs(bw)
    [] tid = MethodDef -> method_def_row_size
    [] tid = Param -> 2 + hs(sw)
    [] tid = 9 -> 2 + hs(sw) + hs(sw)
    [] tid = MemberRef -> member_ref_parent_sz + hs(sw) + hs(bw)
    [] tid = 14 -> hs(bw)
    [] tid \in {17, 43} -> coded_sz(2) + hs(bw)
    [] tid = 20 -> 2 + hs(bw)
    [] tid = 23 -> 4 + hs(sw) + hs(sw) + hs(bw)
    [] tid = ModuleRef -> hs(sw)
    [] tid = TypeSpec -> 4 + hs(sw) + hs(sw)
    [] tid \in {32, 39} -> 8
    [] tid = AssemblyRef -> 2 + hs(bw) + hs(sw)
    [] tid = 40 -> 6
    [] tid \in {41, 42} -> coded_sz(2) + coded_sz(2)
    [] tid = 44 -> coded_sz(3)
    [] OTHER -> 0

(***************************************************************************)
(* The row sizes of the format (ECMA-335 II.22) for the tables that can    *)
(* come in front of MethodDef in a compressed stream.                      *)
(***************************************************************************)
format_row_size(tid) ==
  CASE tid = Module -> 2 + hs(sw) + (3 * hs(gw))
    [] tid = TypeRef ->
         hs(coded_idx_wide({Module, ModuleRef, AssemblyRef, TypeRef})) + hs(sw) + hs(sw)
    [] tid = TypeDef -> typedef_row_size
    [] tid = Field -> 2 + hs(sw) + hs(bw)

Init ==
  /\ row_counts \in RowCounts /\ heap_sizes \in Heaps
  /\ i = 0 /\ off = 0

(* One round of table_offset. *)
table_offset ==
  /\ i < MethodDef
  /\ off' = off + (row_counts[i] * row_size_for_table(i))
  /\ i' = i + 1
  /\ UNCHANGED <<row_counts, heap_sizes>>

Spec == Init /\ [][table_offset]_vars

-----------------------------------------------------------------------------
(***************************************************************************)
(* The MethodDef rows are read where the format puts them (table_offset    *)
(* and the row sizes it adds up).                                          *)
(***************************************************************************)
MethodDefFound ==
  i = MethodDef =>
    off = MapThenSumSet(LAMBDA t : row_counts[t] * format_row_size(t),
                        {Module, TypeRef, TypeDef, Field})
=============================================================================
