----------------------------- MODULE LinkedList -----------------------------
(***************************************************************************)
(* The intrusive lists of lib/list.h and lib/slist.h.                      *)
(*                                                                         *)
(* A list of lib/list.h is doubly linked.  It is two pointers (head, tail);*)
(* the prev and next pointers live in the nodes themselves, so the macros  *)
(* work on whatever node and whatever list they are handed, and a node     *)
(* taken out of one list with the head and tail of another is undetected   *)
(* damage.  That is why the model keeps the pointers instead of a sequence.*)
(*                                                                         *)
(* L is a heap of lists: L.head and L.tail map a list to a node or Null,   *)
(* L.prev and L.next map a node to a node or Null.                         *)
(***************************************************************************)
EXTENDS FiniteSets, Sequences, Naturals

CONSTANT Null       \* the null pointer

(* Every list empty (list_init), every node's memory still zero. *)
EmptyHeap(Lists, Nodes) ==
  [head |-> [l \in Lists |-> Null], tail |-> [l \in Lists |-> Null],
   prev |-> [n \in Nodes |-> Null], next |-> [n \in Nodes |-> Null]]

HeapType(Lists, Nodes) ==
  [head : [Lists -> Nodes \cup {Null}], tail : [Lists -> Nodes \cup {Null}],
   prev : [Nodes -> Nodes \cup {Null}], next : [Nodes -> Nodes \cup {Null}]]

(* list_add: append n to list l. *)
ListAdd(L, l, n) ==
  [head |-> IF L.tail[l] = Null THEN [L.head EXCEPT ![l] = n] ELSE L.head,
   tail |-> [L.tail EXCEPT ![l] = n],
   prev |-> [L.prev EXCEPT ![n] = L.tail[l]],
   next |-> IF L.tail[l] = Null
            THEN [L.next EXCEPT ![n] = Null]
            ELSE [L.next EXCEPT ![n] = Null, ![L.tail[l]] = n]]

(* list_remove as it would be without the update of the tail. *)
ListRemove_KeepsTail(L, l, n) ==
  [head |-> IF L.head[l] = n THEN [L.head EXCEPT ![l] = L.next[n]] ELSE L.head,
   tail |-> L.tail,
   prev |-> IF L.next[n] = Null THEN L.prev
            ELSE [L.prev EXCEPT ![L.next[n]] = L.prev[n]],
   next |-> IF L.prev[n] = Null THEN L.next
            ELSE [L.next EXCEPT ![L.prev[n]] = L.next[n]]]

(* list_remove: unlink n, adjusting head and tail of l only if they point  *)
(* to n.  The pointers of n itself keep their old values.                  *)
ListRemove(L, l, n) ==
  [head |-> IF L.head[l] = n THEN [L.head EXCEPT ![l] = L.next[n]] ELSE L.head,
   tail |-> IF L.tail[l] = n THEN [L.tail EXCEPT ![l] = L.prev[n]] ELSE L.tail,
   prev |-> IF L.next[n] = Null THEN L.prev
            ELSE [L.prev EXCEPT ![L.next[n]] = L.prev[n]],
   next |-> IF L.prev[n] = Null THEN L.next
            ELSE [L.next EXCEPT ![L.prev[n]] = L.next[n]]]

(* The nodes list_iterate visits, in order: from the head along next, at   *)
(* most as many as there are nodes (a damaged list may be circular).       *)
Walk(L, l) ==
  LET n == Cardinality(DOMAIN L.next)
      w[i \in 0..n] == IF i = 0 THEN L.head[l]
                       ELSE IF w[i - 1] = Null THEN Null ELSE L.next[w[i - 1]]
      len == Cardinality({i \in 0..(n - 1) : w[i] # Null})
  IN  [i \in 1..len |-> w[i - 1]]

(* The local shape of list l when its nodes are exactly the set S: the     *)
(* pointers never leave S, next and prev mirror each other, and only the   *)
(* head has no predecessor and only the tail no successor.                 *)
ProperList(L, l, S) ==
  /\ (L.head[l] = Null) <=> (S = {})
  /\ (L.tail[l] = Null) <=> (S = {})
  /\ L.head[l] # Null => L.head[l] \in S
  /\ L.tail[l] # Null => L.tail[l] \in S
  /\ \A n \in S :
       /\ L.next[n] # Null => L.next[n] \in S /\ L.prev[L.next[n]] = n
       /\ L.prev[n] # Null => L.prev[n] \in S /\ L.next[L.prev[n]] = n
       /\ (L.prev[n] = Null) <=> (L.head[l] = n)
       /\ (L.next[n] = Null) <=> (L.tail[l] = n)

-----------------------------------------------------------------------------
(* The singly linked list of lib/slist.h: next maps every list head and    *)
(* every node to the node that follows it, or Null.                        *)

(* slist_add(p, n): insert n right after p, a list head or a node. *)
SlistAdd(next, p, n) == [next EXCEPT ![n] = next[p], ![p] = n]

(* slist_remove(p, n): p skips n, whether or not n follows p any more. *)
SlistRemove(next, p, n) == [next EXCEPT ![p] = next[n]]

(* slist_iterate from head h, giving up after as many nodes as exist (a    *)
(* damaged list may be circular): h itself, then the nodes in order.       *)
SlistPath(next, h) ==
  LET n == Cardinality(DOMAIN next)
      w[i \in 0..n] == IF i = 0 THEN h
                       ELSE IF w[i - 1] = Null THEN Null ELSE next[w[i - 1]]
      len == Cardinality({i \in 0..n : w[i] # Null})
  IN  [i \in 1..len |-> w[i - 1]]

SlistNodes(next, h) ==
  LET w == SlistPath(next, h) IN {w[i] : i \in 2 .. Len(w)}

(* The list at h comes to an end: it is not circular. *)
SlistEnds(next, h) ==
  LET w == SlistPath(next, h) IN next[w[Len(w)]] = Null
=============================================================================
