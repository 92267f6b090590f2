------------------------------- MODULE RBTree -------------------------------
(***************************************************************************)
(* lib/rbtree.c: the intrusive red-black tree that orders the entries of   *)
(* the memory manager and the blocks of the translator.  A tree is a       *)
(* record of its root and, for each linked node, two children, a parent    *)
(* and a colour (the code packs the last two in _parent).  The comparison  *)
(* a caller passes is the order of KeyOf.                                  *)
(*                                                                         *)
(* Mirrored code is one operator with a side: d is "left" or "right".      *)
(***************************************************************************)
EXTENDS Integers, FiniteSets, Sequences, Collections

CONSTANTS Node,      \* the nodes a caller may link
          KeyOf,     \* [Node -> Int], what cmp compares
          Probe      \* keys a lookup may ask for

ASSUME NodeAssumption == 0 \notin Node

VARIABLE tree        \* struct rb_tree with the nodes linked in it

treeVars == <<tree>>

NULL == 0

Side == {"left", "right"}
Opp(d) == IF d = "left" THEN "right" ELSE "left"

Empty == [root |-> NULL, child |-> << >>, parent |-> << >>, color |-> << >>]

InTree(t) == DOMAIN t.color
IsRed(t, n) == n # NULL /\ t.color[n] = "red"
Paint(t, n, c) == [t EXCEPT !.color[n] = c]
SetChild(t, n, d, m) == [t EXCEPT !.child[n][d] = m]
SetParent(t, n, p) == IF n = NULL THEN t ELSE [t EXCEPT !.parent[n] = p]
SideOf(t, n) == IF t.child[t.parent[n]].left = n THEN "left" ELSE "right"

\* n takes the place of p below p's parent
Hang(t, p, n) ==
  LET g == t.parent[p] IN
  IF g = NULL THEN [t EXCEPT !.root = n] ELSE SetChild(t, g, SideOf(t, p), n)

\* rb_left_rotate for d = "left", rb_right_rotate for d = "right": the parent
\* of n becomes its child on side d
Rotate(t, n, d) ==
  LET p  == t.parent[n]
      t1 == SetParent(Hang(t, p, n), n, t.parent[p])
      m  == t.child[n][d]
      t2 == SetParent(SetChild(t1, p, Opp(d), m), m, p)
  IN  SetParent(SetChild(t2, n, d, p), p, n)

\* n with the parent, colour and children of another
Settle(t, n, p, c, kids) ==
  SetParent(SetParent([t EXCEPT !.parent[n] = p, !.color[n] = c, !.child[n] = kids],
                      kids.left, n), kids.right, n)

\* The two nodes trade places; the assignments are in the order of the code,
\* which lets r be a child of v
Trade(t, v, r) ==
  Settle(Settle(t, v, t.parent[r], t.color[r], t.child[r]),
         r, t.parent[v], t.color[v], t.child[v])
Exchange(t, v, r) == Trade(Hang(Hang(t, v, r), r, v), v, r)

RECURSIVE AddFixup(_, _)
\* AddFixup without the inner rotation of case 2
AddFixup_NoInner(t, n) ==
  LET p == t.parent[n] IN
  IF p = NULL THEN Paint(t, n, "black")
  ELSE IF t.color[p] = "black" THEN t
  ELSE LET g == t.parent[p]
           d == SideOf(t, p)
           u == t.child[g][Opp(d)]
       IN IF IsRed(t, u)
          THEN AddFixup(Paint(Paint(Paint(t, p, "black"), u, "black"), g, "red"), g)
          ELSE Paint(Paint(Rotate(t, p, Opp(d)), p, "black"), g, "red")

AddFixup(t, n) ==
  LET p == t.parent[n] IN
  IF p = NULL THEN Paint(t, n, "black")
  ELSE IF t.color[p] = "black" THEN t
  ELSE LET g == t.parent[p]
           d == SideOf(t, p)
           u == t.child[g][Opp(d)]
       IN IF IsRed(t, u)
          THEN AddFixup(Paint(Paint(Paint(t, p, "black"), u, "black"), g, "red"), g)
          ELSE LET inner == n = t.child[p][Opp(d)]
                   t1  == IF inner THEN Rotate(t, n, d) ELSE t
                   top == IF inner THEN n ELSE p
               IN  Paint(Paint(Rotate(t1, top, Opp(d)), top, "black"), g, "red")

\* Where a new node with key k hangs: the last node of the descent and its side
RECURSIVE Descend(_, _, _)
Descend(t, cur, k) ==
  LET d == IF k < KeyOf[cur] THEN "left" ELSE "right" IN
  IF t.child[cur][d] = NULL THEN <<cur, d>> ELSE Descend(t, t.child[cur][d], k)

AddNode(t, n) ==
  LET fresh(p, c) ==
        [root |-> t.root,
         child |-> [m \in InTree(t) \cup {n} |-> IF m = n THEN [left |-> NULL, right |-> NULL]
                                                 ELSE t.child[m]],
         parent |-> [m \in InTree(t) \cup {n} |-> IF m = n THEN p ELSE t.parent[m]],
         color |-> [m \in InTree(t) \cup {n} |-> IF m = n THEN c ELSE t.color[m]]]
  IN IF t.root = NULL THEN [fresh(NULL, "black") EXCEPT !.root = n]
     ELSE LET at == Descend(t, t.root, KeyOf[n])
          IN  AddFixup(SetChild(fresh(at[1], "red"), at[1], at[2], n), n)

\* A red sibling of n goes above their parent
BlackSibling(t, n) ==
  LET p == t.parent[n]
      d == SideOf(t, n)
      s == t.child[p][Opp(d)]
  IN  IF IsRed(t, s) THEN Paint(Paint(Rotate(t, s, d), s, "black"), p, "red") ELSE t

\* If the outer child of n's sibling is black, the inner one takes its place
OuterRed(t, n) ==
  LET d == SideOf(t, n)
      s == t.child[t.parent[n]][Opp(d)]
      x == t.child[s][d]
  IN  IF IsRed(t, t.child[s][Opp(d)]) THEN t
      ELSE Paint(Paint(Rotate(t, x, Opp(d)), x, "black"), s, "red")

\* The sibling takes the place and the colour of the parent
Levelled(t, n) ==
  LET p == t.parent[n]
      d == SideOf(t, n)
      s == t.child[p][Opp(d)]
  IN  Paint(Paint(Paint(Rotate(t, s, d), s, t.color[p]), p, "black"), t.child[s][Opp(d)], "black")

\* n is black deeper by one on the other side of its parent
RECURSIVE RemoveFixup(_, _), Deepen(_, _)
RemoveFixup(t, n) ==
  IF IsRed(t, n) THEN Paint(t, n, "black")
  ELSE IF t.parent[n] = NULL THEN t ELSE Deepen(BlackSibling(t, n), n)
Deepen(t, n) ==
  LET p == t.parent[n]
      s == t.child[p][Opp(SideOf(t, n))]
  IN  IF \A e \in Side : ~IsRed(t, t.child[s][e]) THEN RemoveFixup(Paint(t, s, "red"), p)
      ELSE Levelled(OuterRed(t, n), n)

RECURSIVE Extreme(_, _, _)
Extreme(t, n, d) == IF n = NULL \/ t.child[n][d] = NULL THEN n
                    ELSE Extreme(t, t.child[n][d], d)

FirstNode(t) == Extreme(t, t.root, "left")
LastNode(t) == Extreme(t, t.root, "right")

\* rb_next for d = "right", rb_prev for d = "left"
RECURSIVE Climb(_, _, _)
Climb(t, n, d) == LET p == t.parent[n] IN
                  IF p # NULL /\ n = t.child[p][d] THEN Climb(t, p, d) ELSE p
Neighbour(t, n, d) ==
  IF t.child[n][d] # NULL THEN Extreme(t, t.child[n][d], Opp(d)) ELSE Climb(t, n, d)

\* A black leaf stays linked as its own replacement during the fix-up
Bypassed(t, n) ==
  LET p == t.parent[n]
      m == IF t.child[n].left # NULL THEN t.child[n].left ELSE t.child[n].right
      joined == SetChild(SetParent(t, m, p), p, SideOf(t, n), m)
  IN  CASE p = NULL -> LET e == [t EXCEPT !.root = m]
                       IN  IF m = NULL THEN e ELSE Paint(SetParent(e, m, NULL), m, "black")
        [] p # NULL /\ IsRed(t, n) -> joined
        [] p # NULL /\ ~IsRed(t, n) /\ m # NULL -> RemoveFixup(joined, m)
        [] p # NULL /\ ~IsRed(t, n) /\ m = NULL ->
             LET f == RemoveFixup(t, n) IN SetChild(f, p, SideOf(f, n), NULL)
Without(t, n) ==
  LET rest == InTree(t) \ {n}
  IN  [root |-> t.root, child |-> [k \in rest |-> t.child[k]],
       parent |-> [k \in rest |-> t.parent[k]], color |-> [k \in rest |-> t.color[k]]]

\* A node with two children first trades places with its successor
RemoveNode(t, n) ==
  Without(Bypassed(IF NULL \in {t.child[n].left, t.child[n].right} THEN t
                   ELSE Exchange(t, n, Neighbour(t, n, "right")), n), n)

RECURSIVE Search(_, _, _)
Search(t, cur, k) ==
  IF cur = NULL \/ KeyOf[cur] = k THEN cur
  ELSE Search(t, t.child[cur][IF k < KeyOf[cur] THEN "left" ELSE "right"], k)
Find(t, k) == Search(t, t.root, k)

\* rb_lower_bound for d = "left" keeps the last node it leaves to the left,
\* rb_upper_bound for d = "right" the last one it leaves to the right
RECURSIVE BoundFrom(_, _, _, _, _)
BoundFrom(t, cur, k, d, candidate) ==
  IF cur = NULL THEN candidate
  ELSE IF KeyOf[cur] = k THEN cur
  ELSE LET way == IF k < KeyOf[cur] THEN "left" ELSE "right"
       IN  BoundFrom(t, t.child[cur][way], k, d, IF way = d THEN cur ELSE candidate)
LowerBound(t, k) == BoundFrom(t, t.root, k, "left", NULL)
UpperBound(t, k) == BoundFrom(t, t.root, k, "right", NULL)

TreeInit == tree = Empty

TreeAdd(n) ==
  /\ n \notin InTree(tree)
  /\ tree' = AddNode(tree, n)

TreeRemove(n) ==
  /\ n \in InTree(tree)
  /\ tree' = RemoveNode(tree, n)

TreeNext == \E n \in Node : TreeAdd(n) \/ TreeRemove(n)

-----------------------------------------------------------------------------
RECURSIVE Walk(_, _, _)
Walk(t, n, d) == IF n = NULL THEN << >>
                 ELSE <<n>> \o Walk(t, Neighbour(t, n, d), d)

RECURSIVE BlackHeights(_, _)
BlackHeights(t, n) ==
  IF n = NULL THEN {0}
  ELSE {h + (IF IsRed(t, n) THEN 0 ELSE 1) :
          h \in BlackHeights(t, t.child[n].left) \cup BlackHeights(t, t.child[n].right)}

\* The linked nodes in the order of their keys
Sorted(t) ==
  [i \in 1 .. Cardinality(InTree(t)) |->
     CHOOSE n \in InTree(t) : Cardinality({m \in InTree(t) : KeyOf[m] <= KeyOf[n]}) = i]

(***************************************************************************)
(* Every rotation, exchange and fix-up leaves a red-black tree: a red node *)
(* has no red child, the root is black and all paths to the leaves cross   *)
(* the same number of black nodes.                                         *)
(***************************************************************************)
Balanced ==
  /\ ~IsRed(tree, tree.root)
  /\ \A n \in InTree(tree), d \in Side : ~(IsRed(tree, n) /\ IsRed(tree, tree.child[n][d]))
  /\ Cardinality(BlackHeights(tree, tree.root)) = 1

(***************************************************************************)
(* The walks rb_first/rb_next and rb_last/rb_prev visit exactly the linked *)
(* nodes in the order of their keys, whatever additions and removals came  *)
(* before, and the three lookups return what the same question about the   *)
(* set of nodes would (an empty tree gives the same answer to every key).  *)
(***************************************************************************)
OrderedMap ==
  /\ Walk(tree, FirstNode(tree), "right") = Sorted(tree)
  /\ Walk(tree, LastNode(tree), "left") = SX!Reverse(Sorted(tree))
  /\ \A k \in (IF InTree(tree) = {} THEN {CHOOSE k \in Probe : TRUE} ELSE Probe) :
       LET same  == {n \in InTree(tree) : KeyOf[n] = k}
           above == {n \in InTree(tree) : KeyOf[n] >= k}
           below == {n \in InTree(tree) : KeyOf[n] <= k}
           best(S, after(_, _)) == IF S = {} THEN NULL
                                   ELSE CHOOSE n \in S : \A m \in S : ~after(n, m)
       IN /\ Find(tree, k) = best(same, LAMBDA n, m : FALSE)
          /\ LowerBound(tree, k) = best(above, LAMBDA n, m : KeyOf[n] > KeyOf[m])
          /\ UpperBound(tree, k) = best(below, LAMBDA n, m : KeyOf[n] < KeyOf[m])

(***************************************************************************)
(* The tree is balanced and is the map its nodes make, after any sequence  *)
(* of additions and removals (rbtree.c).                                   *)
(***************************************************************************)
TreeExact == Balanced /\ OrderedMap
=============================================================================
