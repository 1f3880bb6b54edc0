------------------------------ MODULE MCDotnet ------------------------------
(***************************************************************************)
(* Assemblies for Dotnet.  One set varies the code of a public method, the *)
(* other one the calls, names, types and headers of several methods.       *)
(***************************************************************************)
EXTENDS Dotnet

(* An instruction before assembly: t is the number of the one it jumps to. *)
I(op, t) == [op |-> op, t |-> t]
Size(i) == CASE i.op \in {OpLdcI4S, OpBrS, OpBrtrueS, OpLeaveS, OpPrefix} -> 2
             [] i.op \in {OpLdcI4, OpBr, OpBrtrue} -> 5
             [] i.op = OpSwitch -> 13
             [] OTHER -> 1

(* The bytes of a sequence of instructions.  ldc.i4 loads 42, which reads  *)
(* like a ret; a switch has two entries, the second one for its successor. *)
AssembleIl(ins) ==
  LET Place(n) == FoldLeft(LAMBDA sum, i : sum + Size(i), 0, SubSeq(ins, 1, n - 1))
      Enc(n) == LET d == Place(ins[n].t) - Place(n + 1)
                IN  CASE ins[n].op = OpLdcI4S -> <<OpLdcI4S, 42>>
                      [] ins[n].op = OpPrefix -> <<OpPrefix, Op2Rethrow>>
                      [] ins[n].op = OpLdcI4 -> <<OpLdcI4, 42, 0, 0, 0>>
                      [] ins[n].op \in {OpBrS, OpBrtrueS, OpLeaveS} -> <<ins[n].op>> \o i8_byte(d)
                      [] ins[n].op \in {OpBr, OpBrtrue} -> <<ins[n].op>> \o i32_bytes(d)
                      [] ins[n].op = OpSwitch ->
                           <<OpSwitch, 2, 0, 0, 0>> \o i32_bytes(d) \o i32_bytes(0)
                      [] OTHER -> <<ins[n].op>>
  IN  FlattenSeq([n \in DOMAIN ins |-> Enc(n)])

Tiny(code) == <<(4 * Len(code)) + 2>> \o code
Fat(code, more) == <<IF more THEN 11 ELSE 3, 48, 8, 0>> \o i32_bytes(Len(code))
                     \o <<0, 0, 0, 0>> \o code

Aligned(n, to) == n + ((-n) % to)

(* .text at RVA 64: the CLI header, the bodies, fat ones on a boundary of  *)
(* four bytes, the metadata, the resources and the entry stub; then .rsrc. *)
(* The bytes of these parts are 201 and up.  The data directories lead to  *)
(* the CLI header.                                                         *)
TextVa == 64
TextRaw == 2
Bodies(rows) ==
  FoldLeft(LAMBDA text, r : text \o Zeros(IF r.body # << >> /\ r.body[1] % 4 = 3
                                          THEN (-Len(text)) % 4 ELSE 0) \o r.body,
           <<201, 0, 0, 0>>, rows)

AssemblyOf(rows, types, entry, section_alignment) ==   \* rows: [name, body, handlers]
  LET text == Bodies(rows) \o <<202, 203, 204>>
      va == TextVa + Len(text)
      rsrc == Aligned(va, section_alignment)
      pad == Len(text) % 2   \* SizeOfRawData is rounded up
  IN  [file |-> <<0, 0>> \o text \o Zeros(pad) \o <<205, 206>>,
       secs |-> <<[name |-> ".text", va |-> TextVa, vsize |-> Len(text), raw |-> TextRaw,
                   rsize |-> Len(text) + pad],
                  [name |-> ".rsrc", va |-> rsrc, vsize |-> 2, raw |-> TextRaw + Len(text) + pad,
                   rsize |-> 2]>>,
       methods |-> [i \in DOMAIN rows |->
                      [name |-> rows[i].name, handlers |-> rows[i].handlers,
                       rva |-> IF rows[i].body = << >> THEN 0
                               ELSE TextVa + Len(Bodies(SubSeq(rows, 1, i))) - Len(rows[i].body)]],
       types |-> types, entry |-> entry,
       cli |-> <<va - 3, va - 2, 0, 0, 0, 0, 0>>, dirs |-> <<TextVa>>, valid |-> TRUE,
       opt |-> [ep |-> va - 1, size_of_code |-> Len(text) + pad,
                size_of_image |-> Aligned(rsrc + 2, section_alignment)]]

(* With an alignment of many pages the pages that go fit behind .rsrc. *)
Wide == 64

Row(name, body) == [name |-> name, body |-> body, handlers |-> << >>]
NoToken == [table |-> 0, row |-> 0]
PublicFrom(n) == << [public |-> FALSE, method_list |-> 1], [public |-> TRUE, method_list |-> n] >>

Plain == {I(OpLdcI4, 1), I(OpRet, 1)}
Jumps(n) == {I(op, t) : op \in {OpBrtrueS, OpBrS}, t \in 1..n}
Closing(n) == {I(OpRet, 1), I(OpThrow, 1)} \union {I(OpBr, t) : t \in 1..n}

Short == {AssembleIl(<<a, b, c>>) : a \in Plain \union Jumps(3), b \in Plain \union Jumps(3),
                                    c \in Closing(3)}
Long == {AssembleIl(<<a, I(OpLdcI4, 1), b, I(OpNop, 1), I(OpLdcI4, 1), c>>) :
           a \in {I(op, t) : op \in {OpBrtrueS, OpBr, OpSwitch}, t \in {3, 4, 5, 6}},
           b \in {I(OpBrS, 6), I(OpBrtrue, 1), I(OpRet, 1), I(OpThrow, 1), I(OpPrefix, 1)},
           c \in {I(OpRet, 1), I(OpBrS, 1), I(OpBr, 3)}}

(* A dead method in front and one behind, so that everything moves: by     *)
(* three bytes, which is less than a page, or by four.                     *)
Dead3 == Tiny(<<OpNop, OpRet>>)
Dead4 == Tiny(<<OpNop, OpNop, OpRet>>)
OneMethod(dead_body, body, handlers, behind) ==
  AssemblyOf(<<Row("d", dead_body), [name |-> "run", body |-> body, handlers |-> handlers],
               Row("e", behind)>>,
             <<[public |-> TRUE, method_list |-> 2], [public |-> FALSE, method_list |-> 3]>>,
             NoToken, Wide)
DeadFat == Fat(<<OpRet>>, FALSE)

(* A protected range whose handler follows a leave. *)
Guarded == AssembleIl(<<I(OpNop, 1), I(OpLeaveS, 5), I(OpNop, 1), I(OpLeaveS, 5), I(OpRet, 1),
                        I(OpLdcI4, 1)>>)

CodeAssemblies ==
  {OneMethod(Dead3, Tiny(c), << >>, << >>) : c \in Short}
    \union {OneMethod(Dead3, Tiny(c), << >>, DeadFat) : c \in Long}
    \union {OneMethod(Dead4, Fat(c, FALSE), << >>, DeadFat) : c \in Long}
    \union {OneMethod(Dead4, Fat(Guarded, TRUE), << [from |-> 0, to |-> 3, entry |-> 3] >>,
                      DeadFat)}

(* Code that names a method: by call, newobj, ldftn or a MemberRef.  With  *)
(* its header it fills whole words, so a fat method behind it keeps its    *)
(* alignment.                                                              *)
Naming(n) ==
  CASE n = 0 -> <<OpNop, OpNop, OpRet>>
    [] n = 9 -> <<OpCallvirt, 3, 0, 0, 10, OpNop, OpRet>>
    [] n \in {2, 3} -> <<OpPrefix, Op2Ldftn, n, 0, 0, MethodDefTable, OpRet>>
    [] n = 4 -> <<OpNewobj, 4, 0, 0, MethodDefTable, OpNop, OpRet>>
    [] OTHER -> <<OpCall, n, 0, 0, MethodDefTable, OpNop, OpRet>>

GraphAssemblies ==
  {AssemblyOf(<<Row("Main", Tiny(Naming(a))), Row("f", Tiny(Naming(b))),
                Row(g, Fat(Naming(c), FALSE)), Row("h", h)>>, types, [table |-> t, row |-> 1],
              Wide) :
     a \in {0, 2, 3, 9}, b \in {0, 1, 4}, c \in {0, 2, 9}, g \in {"f", "g", ""},
     h \in {<< >>, Tiny(Naming(3))}, types \in {PublicFrom(4), PublicFrom(5)},
     t \in {MethodDefTable, 10}}

Small ==
  CodeAssemblies \union GraphAssemblies
    \union {[AssemblyOf(<<Row("f", Dead3)>>, << >>, NoToken, Wide) EXCEPT !.valid = FALSE],
            AssemblyOf(<< >>, << >>, NoToken, Wide),
            [OneMethod(Dead3, Tiny(<<OpRet>>), << >>, DeadFat) EXCEPT !.secs[1].name = ".code"]}

(* A switch whose first entry jumps over 42 bytes: its low byte, 0x2A,     *)
(* reads like a ret.                                                       *)
FarSwitch ==
  {OneMethod(Dead3, Tiny(AssembleIl(<<I(OpSwitch, 44)>> \o [n \in 1..42 |-> I(OpNop, 1)]
                                      \o <<I(OpRet, 1)>>)), << >>, << >>)}

(* ldc.i4.s 42: so does its operand. *)
ShortOperand == {OneMethod(Dead3, Tiny(AssembleIl(<<I(OpLdcI4S, 1), I(OpLdcI4, 1), I(OpRet, 1)>>)),
                           << >>, << >>)}

(* A live fat method behind a dead one of three bytes (and padding). *)
BehindThree == {OneMethod(Dead3, Fat(Naming(0), FALSE), << >>, << >>)}

(* Sections aligned to a page, with a whole dead page. *)
Tight == {AssemblyOf(<<Row("d", Dead4), Row("run", Tiny(Naming(0)))>>,
                     <<[public |-> FALSE, method_list |-> 1], [public |-> TRUE, method_list |-> 2]>>,
                     NoToken, PAGE_SIZE)}

(* Resources in the section behind .text. *)
Behind == {LET a == OneMethod(Dead4, Tiny(Naming(0)), << >>, << >>)
           IN  [a EXCEPT !.cli[2] = a.secs[2].va + 1]}

(* A data directory, such as the import table's, that leads to the bytes   *)
(* behind the bodies.                                                      *)
DirectoryBehind == {LET a == OneMethod(Dead4, Tiny(Naming(0)), << >>, << >>)
                    IN  [a EXCEPT !.dirs = Append(@, a.opt.ep)]}
=============================================================================
