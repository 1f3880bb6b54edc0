---------------------------- MODULE MCClrTables ----------------------------
(***************************************************************************)
(* An assembly has one Module row, a few types and methods, and few or     *)
(* many type references.                                                   *)
(***************************************************************************)
EXTENDS ClrTables, TLC

Typical ==
  {(Module :> 1) @@ (TypeRef :> r) @@ (TypeDef :> d) @@ (Field :> f) @@ (MethodDef :> m)
     @@ [t \in Tables |-> 0] : r \in {1, 5}, d \in 1..3, f \in 0..2, m \in 1..3}
=============================================================================
