--------------------------- MODULE MCElfAnalysis ---------------------------
(***************************************************************************)
(* Small ELF images: seven addresses of .text, one of .init and a section  *)
(* of read-only data from 30 on.  The images are ones compilers and        *)
(* linkers produce: a call that ends its FDE never returns, and without    *)
(* FDEs to tell, no function is entered by falling into it.                *)
(***************************************************************************)
EXTENDS ElfAnalysis, TLC

I(flow)       == [flow |-> flow, len |-> 1, ref |-> {}]
To(flow, t)   == [flow |-> flow, len |-> 1, ref |-> {t}]
Fde(b, n)     == [begin |-> b, len |-> n]
Ptr(s, v, w)  == [sec |-> s, val |-> v, width |-> w]
Sym(n, a, z, b) == [name |-> <<n, 0>>, func |-> TRUE, addr |-> a, size |-> z, bind |-> b]
Export(n, a)  == [base |-> n, addr |-> a, defined |-> TRUE]

MCNames ==
  {"_start", "ex", "f", "g", "h", "sub"} \X (0..TextEnd)
MCRuntimeKeep == {<<"_start", 0>>}

Blank ==
  [whole |-> TRUE, exact |-> TRUE, fixed |-> FALSE, textrel |-> FALSE,
   entry |-> 1, code |-> <<>>, slots |-> 30 :> 0, tables |-> <<>>,
   words |-> {}, symtab |-> <<>>, dynsyms |-> <<>>, fdes |-> {},
   personalities |-> {}, init |-> {}, noreturn |-> {}]

\* No NOP is entered otherwise than from the instruction before it: padding.
PadsAreGaps(code) ==
  \A a, b \in DOMAIN code : code[a].flow = "nop" => a \notin targets(code[b])

\* The calls that end an FDE.
EndingCalls(code, fdes) ==
  {a \in DOMAIN code : is_call(code[a]) /\ \E f \in fdes : a + 1 = f.begin + f.len}

-----------------------------------------------------------------------------
(***************************************************************************)
(* Code in pieces of two or three that FDEs cover, overlap, or leave out:  *)
(* each can be called, jumped to, have its address taken or be fallen into.*)
(***************************************************************************)
Codes ==
  {<<a, b, c, d, e, f, I("ret")>> :
     a \in {I("op"), To("call", 4), To("lea", 6), To("jcc", 5)},
     b \in {I("ret"), I("op"), I("icall"), To("call", 5)},
     c \in {I("nop"), I("int3"), I("ret")},
     d \in {I("op"), To("jmp", 7)},
     e \in {I("op"), I("ret"), To("call", 7)},
     f \in {I("nop"), I("op"), To("lea", 4)}}

FdeSets ==
  {{Fde(1, 2), Fde(4, 2)}, {Fde(1, 2), Fde(4, 1), Fde(5, 2)},
   {Fde(1, 1), Fde(3, 2), Fde(6, 9)}, {Fde(1, 3), Fde(2, 3), Fde(7, 0)},
   {Fde(4, 3)}}

CoveredImages ==
  {[Blank EXCEPT !.code = c, !.fdes = s, !.noreturn = EndingCalls(c, s)] :
     c \in {d \in Codes : PadsAreGaps(d)}, s \in FdeSets}

(***************************************************************************)
(* What the data and the other sections take: pointers of either width in  *)
(* each kind of section, personalities, exports, immediates, text          *)
(* relocations; with and without a fixed address.                          *)
(***************************************************************************)
TakenCode == <<I("icall"), I("ret"), I("nop"), I("op"), I("ret"), I("op"), I("ret")>>

\* Values in .rodata are addresses only where the file's own are final; four
\* bytes hold one only in an image at a fixed address.
TakenWords == {{}} \cup {{Ptr(s, v, w)} : s \in {"data", "rw", "rodata"},
                                          v \in {4, 5, 7}, w \in {4, 8}}
Holds(i) == \A w \in i.words : /\ w.sec = "rodata" => i.fixed \/ i.textrel
                               /\ w.width = 4 => i.fixed

TakenImages ==
  {i \in {[Blank EXCEPT !.code = [TakenCode EXCEPT ![2] = m], !.words = w,
                        !.fdes = {Fde(1, 2), Fde(4, 2), Fde(6, 2)},
                        !.fixed = x, !.textrel = t, !.personalities = p,
                        !.init = n, !.dynsyms = d] :
            m \in {I("ret"), To("imm", 6)}, w \in TakenWords,
            x \in BOOLEAN, t \in BOOLEAN, p \in {{}, {7}}, n \in {{}, {5}},
            d \in {<<>>, <<Export("ex", 4), Export("ex", 6)>>}} :
     /\ Holds(i)
     /\ i.code[2].flow = "imm" => i.fixed}

(***************************************************************************)
(* Switch tables: two tables of two entries, next to each other, whose     *)
(* cases lie in another FDE than the switch.                               *)
(***************************************************************************)
TableCode == <<To("lea", 30), I("ijmp"), I("op"), I("ret"), I("op"), To("lea", 32), I("ijmp")>>

TableImages ==
  {[Blank EXCEPT !.code = [TableCode EXCEPT ![1].ref = {b}], !.fdes = s,
                 !.slots = (30 :> t - 30) @@ (31 :> u - 30) @@ (32 :> 4 - 32) @@ (33 :> 3 - 32),
                 !.tables = (30 :> 2) @@ (32 :> 2)] :
     b \in {30, 32}, t \in {3, 6}, u \in {4, 5},
     s \in {{Fde(1, 2), Fde(3, 2), Fde(5, 1), Fde(6, 2)}, {Fde(1, 2), Fde(3, 1), Fde(4, 4)}}}

\* Decoding out of step: an instruction of two bytes straddles an FDE's start.
StraddledImages ==
  {[Blank EXCEPT !.code = (1 :> a) @@ (2 :> [flow |-> g, len |-> 2, ref |-> {}])
                            @@ (4 :> I("op")) @@ (5 :> I("ret")) @@ (6 :> I("op")) @@ (7 :> I("ret")),
                 !.fdes = {Fde(1, 2), Fde(3, 3), Fde(6, 2)}] :
     a \in {I("op"), To("jmp", 3), To("call", 6)}, g \in {"op", "ret"}}

(***************************************************************************)
(* No FDEs, or an architecture where they are not trusted: functions end   *)
(* before the next start.                                                  *)
(***************************************************************************)
PlainImages ==
  {[Blank EXCEPT !.code = <<a, b, I("ret"), c, I("ret"), d, I("ret")>>,
                 !.exact = x, !.fdes = {Fde(6, 2)}, !.words = w, !.init = n] :
     a \in {I("op"), To("call", 4), To("lea", 6), To("jcc", 6)},
     b \in {I("icall"), I("op")}, c \in {I("op"), To("jmp", 6), To("call", 6)},
     d \in {I("op"), To("lea", 4)}, x \in BOOLEAN,
     w \in {{}, {Ptr("data", 4, 8)}, {Ptr("data", 6, 8)}}, n \in {{}, {6}}}

(***************************************************************************)
(* With symbols: local functions, one name twice, exports of other types   *)
(* inside them, code in no function.                                       *)
(***************************************************************************)
SymbolImages ==
  {[Blank EXCEPT !.code = <<a, I("ret"), b, I("ret"), c, I("ret"), I("ret")>>,
                 !.symtab = <<Sym("f", 1, 2, "global"), Sym("g", 3, 2, "local"),
                              Sym(n, 5, 2, k)>>,
                 !.dynsyms = d, !.words = w] :
     a \in {I("op"), To("call", 3), To("lea", 5), I("icall")},
     b \in {I("op"), To("call", 5), To("call", 7)}, c \in {I("op"), To("call", 4)},
     n \in {"g", "h"}, k \in {"local", "weak"},
     d \in {<<>>, <<Export("ex", 4)>>, <<Export("ex", 6), Export("ex", 20)>>},
     w \in {{}, {Ptr("data", 3, 8)}, {Ptr("rodata", 5, 8)}}}

\* Files the analysis leaves alone.
RefusedImages ==
  {[Blank EXCEPT !.whole = FALSE, !.code = TakenCode],
   Blank,
   [Blank EXCEPT !.code = TakenCode, !.entry = 20]}

MCImages ==
  UNION {CoveredImages, TakenImages, TableImages, StraddledImages, PlainImages,
         SymbolImages, RefusedImages}
=============================================================================
