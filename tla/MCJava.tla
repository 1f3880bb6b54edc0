------------------------------- MODULE MCJava -------------------------------
(***************************************************************************)
(* Classes for Java: one set varies the code of a public method, the other *)
(* one names, overloads, flags and calls of methods with fixed code.       *)
(***************************************************************************)
EXTENDS Java, TLC

(* An instruction before assembly: t is the number of the one it jumps to. *)
I(op, t) == [op |-> op, t |-> t]
Size(i) == CASE i.op = OpBipush -> 2 [] i.op \in {OpIfeq, OpGoto} -> 3
             [] i.op = OpGotoW -> 5 [] OTHER -> 1

(* The bytes of a sequence of instructions; bipush 177 has an operand that *)
(* reads like a return.                                                    *)
Assemble(ins) ==
  LET Place(n) == FoldLeft(LAMBDA sum, i : sum + Size(i), 0, SubSeq(ins, 1, n - 1))
      Enc(n) == LET d == Place(ins[n].t) - Place(n)
                IN  CASE ins[n].op = OpBipush -> <<OpBipush, 177>>
                      [] ins[n].op \in {OpIfeq, OpGoto} -> <<ins[n].op>> \o i16_bytes(d)
                      [] ins[n].op = OpGotoW -> <<OpGotoW>> \o i32_bytes(d)
                      [] OTHER -> <<ins[n].op>>
  IN  FlattenSeq([n \in DOMAIN ins |-> Enc(n)])

Plain == {I(OpBipush, 1), I(OpReturn, 1)}
Jumping(n) == {I(op, t) : op \in {OpIfeq, OpGoto}, t \in 1..n}
Closing(n) == {I(OpReturn, 1), I(OpAthrow, 1)} \union {I(OpGoto, t) : t \in 1..n}

(* Three instructions of any kind, and five with dead room between them. *)
Short == {Assemble(<<a, b, c>>) : a \in Plain \union Jumping(3), b \in Plain \union Jumping(3),
                                  c \in Closing(3)}
Long == {Assemble(<<a, I(OpBipush, 1), b, I(OpBipush, 1), c>>) :
           a \in Jumping(5) \union {I(OpGotoW, 5)}, b \in Jumping(5) \union {I(OpReturn, 1)},
           c \in {I(OpReturn, 1), I(OpGoto, 1), I(OpGoto, 3)}}

Method(name, desc, flags, code) ==
  [name |-> name, desc |-> desc, flags |-> flags, code |-> code, align |-> 0,
   handlers |-> << >>, frames |-> {}, lines |-> {}]
ClassOf(methods, pool) == [methods |-> methods, pool |-> pool, valid |-> TRUE]
Ref(tag, c, name, desc) == [tag |-> tag, class |-> c, name |-> name, desc |-> desc]

Public(code) == Method("run", "()V", {"public"}, code)
Mapped(m) == [m EXCEPT !.frames =
  UNION {JumpTargets(m.code, p) : p \in Starts(m.code)}]

(* A protected first instruction whose handler starts at another one. *)
Guarded(m, entry) ==
  [m EXCEPT !.handlers = << [from |-> 0, to |-> 1, entry |-> entry] >>]

CodeMethods ==
  {Public(c) : c \in Short \union Long} \union {Mapped(Public(c)) : c \in Long}
    \union {Guarded(Public(c), 0) : c \in Long}

(* A switch over two cases whose code follows.  No byte of its table reads *)
(* like a terminator, so that it does no harm to walk into it.             *)
SwitchCode(op) ==
  LET first == IF op = OpTableswitch THEN 24 ELSE 28
  IN  <<op, 0, 0, 0>> \o i32_bytes(first)
        \o (IF op = OpTableswitch
            THEN i32_bytes(0) \o i32_bytes(1) \o i32_bytes(first + 4) \o i32_bytes(first)
            ELSE i32_bytes(2) \o i32_bytes(7) \o i32_bytes(first + 4)
                   \o i32_bytes(9) \o i32_bytes(first))
        \o <<OpReturn, OpBipush, 177, OpNop, OpReturn, OpBipush, 177>>

(* Code that starts at any offset of the file. *)
Aligned(m, a) == [m EXCEPT !.align = a]

CodeClasses ==
  {ClassOf(<<Aligned(m, a)>>, << >>) :
     m \in CodeMethods \union {Public(SwitchCode(op)) : op \in Switches}, a \in 0..3}

Pool == <<Ref("Methodref", "this", "f", "()V"), Ref("InterfaceMethodref", "this", "f", "(I)V"),
          Ref("Methodref", "this", "g", "()V"), Ref("Methodref", "other", "g", "()V"),
          Ref("InvokeDynamic", "other", "h", "()V"), Ref("Fieldref", "this", "g", "()V")>>
Calling(n) ==
  CASE n = 0 -> <<OpReturn, OpBipush, 177>>
    [] n = 2 -> <<OpInvokeinterface, 0, 2, 1, 0, OpReturn>>
    [] n = 5 -> <<OpInvokedynamic, 0, 5, 0, 0, OpReturn>>
    [] OTHER -> <<OpInvokestatic, 0, n, OpReturn>>

(* An entry method that calls one of the others; f()V calls its overload   *)
(* f(I)V, which nothing else calls, so that both live or neither.          *)
GraphClasses ==
  {ClassOf(<<Method(entry, "()V", flags, Calling(a)), Method("f", "()V", {}, Calling(2)),
             Method("f", "(I)V", {}, Calling(b)), Method("g", "()V", {}, Calling(d)),
             Method("h", "()V", {"protected"}, h)>>, Pool) :
     h \in {<< >>, Calling(3)},
     entry \in {"main", "e"}, flags \in {{}, {"public"}}, a \in {0, 1, 3, 4, 5},
     b \in {0, 1, 3}, d \in {0, 1, 5}}

Small ==
  CodeClasses \union GraphClasses
    \union {[valid |-> v, methods |-> << >>, pool |-> << >>] : v \in BOOLEAN}

(* A protected range whose handler lies behind a terminator, as compilers  *)
(* place it.                                                               *)
HandlerClasses ==
  {ClassOf(<<Guarded(Public(Assemble(<<I(OpBipush, 1), I(OpGoto, 5), I(OpBipush, 1),
                                       I(OpAthrow, 1), I(OpReturn, 1)>>)), 5)>>, << >>)}

(* A switch over the values 176 and 177, in code that does not start at a  *)
(* multiple of four: the scanners stop at the byte 177, a return.          *)
SwitchClasses ==
  {ClassOf(<<Aligned(Public(
     <<OpTableswitch, 0, 0, 0>> \o i32_bytes(24) \o i32_bytes(176) \o i32_bytes(177)
       \o i32_bytes(28) \o i32_bytes(26)
       \o <<OpNop, OpReturn, OpNop, OpReturn, OpNop, OpReturn>>), 1)>>, << >>)}

(* Code with a line number behind its dead range. *)
LineClasses ==
  {ClassOf(<<[Public(Assemble(<<I(OpGoto, 4), I(OpBipush, 1), I(OpBipush, 1), I(OpReturn, 1)>>))
              EXCEPT !.lines = {0, 7}]>>, << >>)}

(* Dead code at the end, as compilers leave it: closed, and with a frame.  *)
TailClasses ==
  {ClassOf(<<[Public(<<OpReturn, OpNop, OpAthrow>>) EXCEPT !.frames = {1}]>>, << >>)}
=============================================================================
