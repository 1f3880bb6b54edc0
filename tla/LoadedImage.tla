---------------------------- MODULE LoadedImage ----------------------------
(***************************************************************************)
(* What a rewrite of the relocation tables promises: the program that the  *)
(* loader builds in memory is the one it would have built before.  The     *)
(* rewrite may be refused, and then the file is the one it was.            *)
(***************************************************************************)
VARIABLES
  memory,    \* what the loader maps and relocates
  rewritten  \* whether the file was replaced

Init == rewritten = FALSE

Rewrite == ~rewritten /\ rewritten' = TRUE /\ memory' = memory

Spec == Init /\ [][Rewrite]_<<memory, rewritten>>
=============================================================================
