--------------------------- MODULE MCDescriptors ---------------------------
(***************************************************************************)
(* Two threads of a parent and one of its child, two descriptors, two      *)
(* eventfds of two bits.                                                   *)
(***************************************************************************)
EXTENDS Descriptors

Threads == {1, 2, 3}
Homes == [t \in Threads |-> IF t = 3 THEN "child" ELSE "parent"]
AllKinds == {"eventfd2", "dup", "dup3", "close", "execve", "fork", "read", "write", "setfd"}
=============================================================================
