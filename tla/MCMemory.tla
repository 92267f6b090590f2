------------------------------ MODULE MCMemory ------------------------------
(***************************************************************************)
(* Small address spaces for Memory: pages 2 .. 5, two to a block, and      *)
(* pages 1 .. 3, one to a block.                                           *)
(***************************************************************************)
EXTENDS Memory

M(fixed, a, n, prot, file) ==
  [fixed |-> fixed, start |-> a, n |-> n, prot |-> prot, file |-> file]
R(a, b) == [first |-> a, last |-> b]

Small_Page == 2 .. 5
Small_Maps ==
  {M(FALSE, 2, 3, ReadWrite, TRUE),
   M(TRUE, 3, 2, ReadWrite, TRUE)}
Small_Ranges == {R(3, 3)}
Small_Prots == {{"r"}, ReadWrite}

Wild_Page == 1 .. 3
Wild_Maps == {M(FALSE, 1, 3, ReadWrite, TRUE)}
=============================================================================
