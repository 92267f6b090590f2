------------------------------- MODULE Heaps -------------------------------
(***************************************************************************)
(* The two heaps of the program: that of a process (Heap) and that of a    *)
(* session (Shared).  They share no state.                                 *)
(***************************************************************************)
EXTENDS Heap, Shared

(***************************************************************************)
(* Both heaps give every object to one owner at a time: kmalloc and kfree  *)
(* (heap.c), and kmalloc_shared (shared.c) whoever dies on the way, whose  *)
(* pointers a child can use.                                               *)
(***************************************************************************)
HeapsExact == PoolsExact /\ SharedExact
=============================================================================
