----------------------------- MODULE Collections -----------------------------
(***************************************************************************)
(* The operators of the community modules on sequences and on finite sets, *)
(* under a prefix: the code has names of its own for some of them.         *)
(***************************************************************************)
SX == INSTANCE SequencesExt
FX == INSTANCE FiniteSetsExt
=============================================================================
