--------------------------- MODULE ChildWaitProofs --------------------------
(***************************************************************************)
(* Theorems about ChildWait for every number of threads, child structures, *)
(* process table slots and children: type correctness; the lists and the   *)
(* count of children, as long as one thread at a time waits; and, as long  *)
(* as also no wait for one pid meets a second child, that the semaphore    *)
(* counts the marked children and that wait4 reports dead ones.            *)
(***************************************************************************)
EXTENDS ChildWait, FiniteSetTheorems, WellFoundedInduction, TLAPS

-----------------------------------------------------------------------------
(* The lists of lib/slist.h. *)

Node == Heads \cup Slot
Links == [Node -> Slot \cup {Null}]

(* A set of natural numbers has a least element.                           *)
LEMMA LeastOf ==
  ASSUME NEW K \in SUBSET Nat, K # {}
  PROVE  \E k \in K : \A j \in K : k <= j
  <1> DEFINE R == {ij \in Nat \X Nat : ij[1] < ij[2]}
  <1>1. IsWellFoundedOn(R, Nat)
    BY NatLessThanWellFounded DEF OpToRel
  <1>2. \A j, k \in Nat : <<j, k>> \notin R => k <= j
    OBVIOUS
  <1> HIDE DEF R
  <1>3. PICK k \in K : \A j \in K : <<j, k>> \notin R
    BY <1>1, WFMin
  <1> QED BY <1>2, <1>3

(* There are finitely many nodes, and Null is not one of them.             *)
LEMMA NodesFinite ==
  /\ IsFiniteSet(Node) /\ Cardinality(Node) \in Nat
  /\ Null \notin Node /\ Slot \subseteq Node
  /\ "child_list" \in Node /\ "child_freelist" \in Node
  <1>1. IsFiniteSet(Slot \cup {"child_list"})
    BY ChildWaitAssumption, FS_AddElement
  <1>2. IsFiniteSet((Slot \cup {"child_list"}) \cup {"child_freelist"})
    BY <1>1, FS_AddElement
  <1>3. Node = (Slot \cup {"child_list"}) \cup {"child_freelist"}
    BY DEF Node, Heads
  <1>4. IsFiniteSet(Node)
    BY <1>2, <1>3
  <1>5. Cardinality(Node) \in Nat
    BY <1>4, FS_CardinalityType
  <1> QED BY <1>4, <1>5, ChildWaitAssumption DEF Node, Heads

(* The first m steps of an iteration from h along f.                       *)
Steps(f, h, m, w) ==
  /\ w \in [0 .. m -> Node \cup {Null}]
  /\ w[0] = h
  /\ \A i \in 1 .. m : w[i] = IF w[i - 1] = Null THEN Null ELSE f[w[i - 1]]

(* An iteration can be carried on for as long as one likes.                *)
LEMMA StepsExist ==
  ASSUME NEW f \in Links, NEW h \in Node, NEW n \in Nat
  PROVE  \E w : Steps(f, h, n, w)
  <1> DEFINE K == {m \in Nat : ~ \E w : Steps(f, h, m, w)}
  <1> SUFFICES ASSUME K # {} PROVE FALSE
    OBVIOUS
  <1>0. K \in SUBSET Nat
    OBVIOUS
  <1>1. PICK m \in K : \A j \in K : m <= j
    <2> HIDE DEF K
    <2> QED BY <1>0, LeastOf
  <1>2. CASE m = 0
    <2>1. Steps(f, h, 0, [i \in 0 .. 0 |-> h])
      BY DEF Steps
    <2> QED BY <1>1, <1>2, <2>1
  <1>3. CASE m # 0
    <2>1. m - 1 \in Nat /\ m - 1 \notin K
      BY <1>1, <1>3
    <2>2. PICK w : Steps(f, h, m - 1, w)
      BY <2>1
    <2>3. w[m - 1] \in Node \cup {Null}
      BY <2>1, <2>2 DEF Steps
    <2> DEFINE v == IF w[m - 1] = Null THEN Null ELSE f[w[m - 1]]
               u == [i \in 0 .. m |-> IF i = m THEN v ELSE w[i]]
    <2>4. v \in Node \cup {Null}
      BY <2>3 DEF Links, Node
    <2>5. \A i \in 0 .. m - 1 : u[i] = w[i]
      BY <2>1
    <2>6. u \in [0 .. m -> Node \cup {Null}]
      <3> HIDE DEF v
      <3>1. \A i \in 0 .. m : i # m => i \in 0 .. m - 1
        BY <2>1
      <3> QED BY <2>2, <2>4, <3>1 DEF Steps
    <2>7. ASSUME NEW i \in 1 .. m
          PROVE  u[i] = IF u[i - 1] = Null THEN Null ELSE f[u[i - 1]]
      <3>1. u[i - 1] = w[i - 1]
        BY <2>1, <2>5
      <3>2. CASE i = m
        BY <3>1, <3>2
      <3>3. CASE i # m
        <4>1. i \in 1 .. m - 1
          BY <2>1, <3>3
        <4>2. u[i] = w[i]
          BY <2>1, <2>5, <4>1
        <4> QED BY <2>2, <3>1, <4>1, <4>2 DEF Steps
      <3> QED BY <3>2, <3>3
    <2>8. u[0] = h
      BY <2>1, <2>2, <2>5 DEF Steps
    <2> HIDE DEF u
    <2>9. Steps(f, h, m, u)
      BY <2>6, <2>7, <2>8 DEF Steps
    <2> QED BY <1>1, <2>9
  <1> QED BY <1>2, <1>3

(* slist_iterate visits h, then what follows it: slots, until there is no  *)
(* successor or too many were visited.                                     *)
Visits(f, h, m, w) ==
  /\ w \in [1 .. m -> Node] /\ w[1] = h
  /\ \A i \in 1 .. m : i < m => w[i + 1] = f[w[i]] /\ w[i + 1] \in Slot
  /\ m <= Cardinality(Node) => f[w[m]] = Null

(* SlistPath is such a visit.                                              *)
LEMMA PathVisits ==
  ASSUME NEW f \in Links, NEW h \in Node
  PROVE  \E m \in 1 .. Cardinality(Node) + 1 : \E w :
           /\ SlistPath(f, h) = w /\ Len(w) = m
           /\ Visits(f, h, m, w)
  <1> DEFINE n == Cardinality(Node)
             g == CHOOSE v : v = [i \in 0 .. n |-> IF i = 0 THEN h
                                    ELSE IF v[i - 1] = Null THEN Null ELSE f[v[i - 1]]]
  <1>0. n \in Nat /\ DOMAIN f = Node /\ Null \notin Node
    BY NodesFinite DEF Links
  <1>1. PICK e : Steps(f, h, n, e)
    <2> HIDE DEF n
    <2> QED BY <1>0, StepsExist
  <1>2. e = [i \in 0 .. n |-> IF i = 0 THEN h
                              ELSE IF e[i - 1] = Null THEN Null ELSE f[e[i - 1]]]
    <2> HIDE DEF n
    <2>1. \A i \in 0 .. n : i # 0 => i \in 1 .. n
      BY <1>0
    <2> QED BY <1>1, <2>1 DEF Steps
  <1>3. g = [i \in 0 .. n |-> IF i = 0 THEN h
                              ELSE IF g[i - 1] = Null THEN Null ELSE f[g[i - 1]]]
    <2>1. \E v : v = [i \in 0 .. n |-> IF i = 0 THEN h
                       ELSE IF v[i - 1] = Null THEN Null ELSE f[v[i - 1]]]
      <3> HIDE DEF n
      <3> QED BY <1>2
    <2> HIDE DEF n
    <2> QED BY <2>1
  <1>4. SlistPath(f, h) = [i \in 1 .. Cardinality({i \in 0 .. n : g[i] # Null}) |-> g[i - 1]]
    BY <1>0 DEF SlistPath
  <1> HIDE DEF g, n
  <1>5. \A i \in 0 .. n : g[i] = e[i]
    <2> DEFINE D == {i \in 0 .. n : g[i] # e[i]}
    <2>2. ASSUME D # {} PROVE FALSE
      <3>0. D \in SUBSET Nat
        BY <1>0
      <3>1. PICK i \in D : \A j \in D : i <= j
        <4> HIDE DEF D
        <4> QED BY <2>2, <3>0, LeastOf
      <3>2. CASE i = 0
        BY <1>0, <1>2, <1>3, <3>1, <3>2
      <3>3. CASE i # 0
        <4>1. i \in 0 .. n /\ i - 1 \in 0 .. n /\ g[i - 1] = e[i - 1]
          BY <1>0, <3>1, <3>3
        <4> QED BY <1>2, <1>3, <3>1, <3>3, <4>1
      <3> QED BY <3>2, <3>3
    <2> QED BY <2>2
  <1> DEFINE Z == {i \in 0 .. n + 1 : i = n + 1 \/ e[i] = Null}
  <1>6. PICK m \in Z : \A j \in Z : m <= j
    <2>1. Z \in SUBSET Nat /\ n + 1 \in Z
      BY <1>0
    <2> HIDE DEF Z
    <2> QED BY <2>1, LeastOf
  <1>7. m \in 0 .. n + 1 /\ (m <= n => e[m] = Null) /\ \A i \in 0 .. n : i < m => e[i] # Null
    BY <1>0, <1>6
  <1>8. m # 0
    BY <1>0, <1>1, <1>7 DEF Steps
  <1>9. \A i \in 0 .. n : m <= i => e[i] = Null
    <2> DEFINE D == {i \in 0 .. n : m <= i /\ e[i] # Null}
    <2>1. ASSUME D # {} PROVE FALSE
      <3>0. D \in SUBSET Nat
        BY <1>0
      <3>1. PICK i \in D : \A j \in D : i <= j
        <4> HIDE DEF D
        <4> QED BY <2>1, <3>0, LeastOf
      <3>2. i # m
        BY <1>0, <1>7, <3>1
      <3>3. i - 1 \in 0 .. n /\ i \in 1 .. n /\ i - 1 \notin D /\ m <= i - 1
        BY <1>0, <1>7, <3>1, <3>2
      <3> QED BY <1>1, <3>1, <3>3 DEF Steps
    <2> QED BY <2>1
  <1>10. {i \in 0 .. n : g[i] # Null} = 0 .. (m - 1)
    BY <1>0, <1>5, <1>7, <1>9
  <1>11. Cardinality(0 .. (m - 1)) = m
    BY <1>7, <1>8, FS_Interval
  <1> DEFINE w == [i \in 1 .. m |-> g[i - 1]]
  <1>12. SlistPath(f, h) = w
    BY <1>4, <1>10, <1>11
  <1>13. \A i \in 1 .. m : i - 1 \in 0 .. n /\ w[i] = e[i - 1] /\ w[i] # Null
    BY <1>0, <1>5, <1>7
  <1>14. w \in [1 .. m -> Node] /\ Len(w) = m
    <2>1. \A i \in 1 .. m : w[i] \in Node
      BY <1>1, <1>13 DEF Steps
    <2>2. w = [i \in 1 .. m |-> w[i]] /\ m \in Nat
      BY <1>0, <1>7
    <2> HIDE DEF w
    <2>3. w \in [1 .. m -> Node]
      BY <2>1, <2>2
    <2>4. w \in Seq(Node) /\ DOMAIN w = 1 .. m
      BY <2>2, <2>3
    <2>5. Len(w) = m
      BY <2>2, <2>4
    <2> QED BY <2>3, <2>5
  <1>15. w[1] = h
    <2>1. 1 \in 1 .. m
      BY <1>0, <1>7, <1>8
    <2> HIDE DEF w
    <2>2. w[1] = e[0]
      BY <1>13, <2>1
    <2> QED BY <1>1, <2>2 DEF Steps
  <1>16. ASSUME NEW i \in 1 .. m, i < m
         PROVE  w[i + 1] = f[w[i]] /\ w[i + 1] \in Slot
    <2>1. i \in 1 .. n /\ i + 1 \in 1 .. m
      BY <1>0, <1>7, <1>16
    <2>2. w[i] = e[i - 1] /\ w[i + 1] = e[i] /\ w[i] # Null /\ w[i + 1] # Null
      BY <1>13, <2>1
    <2>3. e[i] = f[e[i - 1]]
      BY <1>1, <2>1, <2>2 DEF Steps
    <2>4. w[i] \in Node
      BY <1>14
    <2> HIDE DEF w
    <2> QED BY <2>2, <2>3, <2>4 DEF Links
  <1>17. ASSUME m <= n PROVE f[w[m]] = Null
    <2>1. m \in 1 .. n /\ m \in 1 .. m /\ e[m] = Null
      BY <1>0, <1>7, <1>8, <1>17
    <2>2. w[m] = e[m - 1] /\ w[m] # Null
      BY <1>13, <2>1
    <2> HIDE DEF w
    <2> QED BY <1>1, <2>1, <2>2 DEF Steps
  <1> HIDE DEF w
  <1>18. Visits(f, h, m, w)
    BY <1>14, <1>15, <1>16, <1>17 DEF Visits, n
  <1>19. m \in 1 .. n + 1
    BY <1>0, <1>7, <1>8
  <1> QED BY <1>12, <1>14, <1>18, <1>19 DEF n

(* The list at h is the chain c of m nodes, h the first, without repeats.  *)
Chain(f, h, m, c) ==
  /\ m \in Nat /\ m # 0
  /\ c \in [1 .. m -> Node] /\ c[1] = h
  /\ \A i \in 1 .. m : i < m => f[c[i]] = c[i + 1] /\ c[i + 1] \in Slot
  /\ f[c[m]] = Null
  /\ \A i, j \in 1 .. m : c[i] = c[j] => i = j

(* A list that ends repeats no node: its path is a chain.  Were the nodes  *)
(* k places from the end and i the same, so would be those after them.     *)
LEMMA EndsChain ==
  ASSUME NEW f \in Links, NEW h \in Node, SlistEnds(f, h)
  PROVE  LET c == SlistPath(f, h) IN Len(c) \in Nat /\ Chain(f, h, Len(c), c)
  <1>1. PICK m \in 1 .. Cardinality(Node) + 1 : \E w :
          SlistPath(f, h) = w /\ Len(w) = m /\ Visits(f, h, m, w)
    BY PathVisits
  <1>2. PICK w : SlistPath(f, h) = w /\ Len(w) = m /\ Visits(f, h, m, w)
    BY <1>1
  <1>3. m \in Nat /\ m # 0
    BY NodesFinite
  <1>4. f[w[m]] = Null
    BY <1>2 DEF SlistEnds
  <1>5. \A i \in 1 .. m : i < m => f[w[i]] # Null
    BY <1>2, NodesFinite DEF Visits
  <1> DEFINE K == {k \in 0 .. m - 1 : \E i \in 1 .. m : i # m - k /\ w[i] = w[m - k]}
  <1>6. ASSUME K # {} PROVE FALSE
    <2>0. K \in SUBSET Nat
      BY <1>3
    <2>1. PICK k \in K : \A j \in K : k <= j
      <3> HIDE DEF K
      <3> QED BY <1>6, <2>0, LeastOf
    <2>2. PICK i \in 1 .. m : i # m - k /\ w[i] = w[m - k]
      BY <2>1
    <2>3. k \in 0 .. m - 1 /\ m - k \in 1 .. m
      BY <1>3, <2>1
    <2>4. k # 0
      BY <1>3, <1>4, <1>5, <2>2, <2>3
    <2>5. i < m
      <3>1. m - k < m
        BY <1>3, <2>3, <2>4
      <3>2. f[w[m - k]] # Null
        BY <1>5, <2>3, <3>1
      <3> QED BY <1>3, <1>4, <2>2, <3>2
    <2>6. w[i + 1] = f[w[i]]
      BY <1>2, <2>5 DEF Visits
    <2>7. w[(m - k) + 1] = f[w[m - k]]
      <3>1. m - k < m
        BY <1>3, <2>3, <2>4
      <3> QED BY <1>2, <2>3, <3>1 DEF Visits
    <2>8. (m - k) + 1 = m - (k - 1) /\ k - 1 \in 0 .. m - 1 /\ i + 1 \in 1 .. m
           /\ i + 1 # m - (k - 1)
      BY <1>3, <2>2, <2>3, <2>4, <2>5
    <2>9. w[i + 1] = w[m - (k - 1)]
      BY <2>2, <2>6, <2>7, <2>8
    <2>10. k - 1 \in K
      BY <2>8, <2>9
    <2>11. k <= k - 1
      <3> HIDE DEF K
      <3> QED BY <2>1, <2>10
    <2> QED BY <1>3, <2>3, <2>11
  <1>7. \A i, j \in 1 .. m : w[i] = w[j] => i = j
    <2> SUFFICES ASSUME NEW i \in 1 .. m, NEW j \in 1 .. m, w[i] = w[j], i # j
                 PROVE  FALSE
      OBVIOUS
    <2>1. m - j \in 0 .. m - 1 /\ m - (m - j) = j
      BY <1>3
    <2>2. m - j \in K
      BY <2>1
    <2> QED BY <1>6, <2>2
  <1>8. Chain(f, h, m, w)
    BY <1>2, <1>3, <1>4, <1>7 DEF Chain, Visits
  <1> QED BY <1>2, <1>3, <1>8

(* A chain is what an iteration of its list visits, and the list ends.     *)
LEMMA ChainPath ==
  ASSUME NEW f \in Links, NEW h \in Node, NEW m, NEW c, Chain(f, h, m, c)
  PROVE  SlistPath(f, h) = c /\ Len(c) = m /\ SlistEnds(f, h)
  <1>1. PICK n \in 1 .. Cardinality(Node) + 1 : \E w :
          SlistPath(f, h) = w /\ Len(w) = n /\ Visits(f, h, n, w)
    BY PathVisits
  <1>2. PICK w : SlistPath(f, h) = w /\ Len(w) = n /\ Visits(f, h, n, w)
    BY <1>1
  <1>3. n \in Nat /\ n # 0 /\ m \in Nat /\ m # 0
    BY NodesFinite DEF Chain
  <1>4. m <= Cardinality(Node)
    <2>1. c \in Injection(1 .. m, Node)
      BY DEF Chain, Injection, IsInjective
    <2>2. Cardinality(1 .. m) <= Cardinality(Node)
      BY <2>1, NodesFinite, FS_Injection
    <2>3. Cardinality(1 .. m) = m
      BY <1>3, FS_Interval
    <2> QED BY <2>2, <2>3
  <1>5. \A i \in 1 .. m : i <= n => w[i] = c[i]
    <2> DEFINE D == {i \in 1 .. m : i <= n /\ w[i] # c[i]}
    <2>1. ASSUME D # {} PROVE FALSE
      <3>0. D \in SUBSET Nat
        BY <1>3
      <3>1. PICK i \in D : \A j \in D : i <= j
        <4> HIDE DEF D
        <4> QED BY <2>1, <3>0, LeastOf
      <3>2. i # 1
        BY <1>2, <3>1 DEF Visits, Chain
      <3>3. i - 1 \in 1 .. m /\ i - 1 \in 1 .. n /\ i - 1 < m /\ i - 1 < n
            /\ (i - 1) + 1 = i /\ i - 1 \notin D
        BY <1>3, <3>1, <3>2
      <3>4. w[i - 1] = c[i - 1]
        BY <1>3, <3>1, <3>3
      <3>5. w[i] = f[w[i - 1]]
        BY <1>2, <3>3 DEF Visits
      <3>6. c[i] = f[c[i - 1]]
        BY <3>3 DEF Chain
      <3> QED BY <3>1, <3>4, <3>5, <3>6
    <2> QED BY <2>1
  <1>6. m = n
    <2>1. ASSUME n < m PROVE FALSE
      <3>1. n \in 1 .. m /\ n \in 1 .. n
        BY <1>3, <2>1
      <3>2. w[n] = c[n] /\ f[c[n]] \in Slot
        BY <1>5, <2>1, <3>1 DEF Chain
      <3>3. f[w[n]] = Null
        BY <1>2, <1>3, <1>4, <2>1, NodesFinite DEF Visits
      <3> QED BY <3>2, <3>3, ChildWaitAssumption
    <2>2. ASSUME m < n PROVE FALSE
      <3>1. m \in 1 .. n /\ m \in 1 .. m
        BY <1>3, <2>2
      <3>2. w[m] = c[m] /\ f[c[m]] = Null
        BY <1>5, <2>2, <3>1 DEF Chain
      <3>3. f[w[m]] \in Slot
        BY <1>2, <2>2, <3>1 DEF Visits
      <3> QED BY <3>2, <3>3, ChildWaitAssumption
    <2> QED BY <1>3, <2>1, <2>2
  <1>7. w = c
    <2>1. w = [i \in 1 .. m |-> w[i]] /\ c = [i \in 1 .. m |-> c[i]]
      BY <1>2, <1>6 DEF Visits, Chain
    <2>2. \A i \in 1 .. m : w[i] = c[i]
      BY <1>3, <1>5, <1>6
    <2> QED BY <2>1, <2>2
  <1>8. f[c[m]] = Null
    BY DEF Chain
  <1> QED BY <1>2, <1>6, <1>7, <1>8 DEF SlistEnds

(* The chain c without its k-th node, and with n put after its first.      *)
Without(c, m, k) == [i \in 1 .. m - 1 |-> IF i < k THEN c[i] ELSE c[i + 1]]
WithSecond(c, m, n) ==
  [i \in 1 .. m + 1 |-> IF i = 1 THEN c[1] ELSE IF i = 2 THEN n ELSE c[i - 1]]

(* Two lists are chains without a common node.                             *)
TwoChains(f, h1, m1, c1, h2, m2, c2) ==
  /\ Chain(f, h1, m1, c1) /\ Chain(f, h2, m2, c2)
  /\ \A i \in 1 .. m1, j \in 1 .. m2 : c1[i] # c2[j]

(* slist_remove with the right predecessor and slist_add to the front of   *)
(* another list move one node from chain to chain.                         *)
LEMMA MoveNode ==
  ASSUME NEW f \in Links, NEW h1 \in Node, NEW m1, NEW c1,
         NEW h2 \in Node, NEW m2, NEW c2,
         TwoChains(f, h1, m1, c1, h2, m2, c2),
         NEW k \in 2 .. m1
  PROVE  LET g == SlistAdd(SlistRemove(f, c1[k - 1], c1[k]), h2, c1[k])
         IN  /\ g \in Links
             /\ TwoChains(g, h1, m1 - 1, Without(c1, m1, k),
                             h2, m2 + 1, WithSecond(c2, m2, c1[k]))
  <1> DEFINE p == c1[k - 1]
             s == c1[k]
             e == SlistRemove(f, p, s)
             g == SlistAdd(e, h2, s)
             d1 == Without(c1, m1, k)
             d2 == WithSecond(c2, m2, s)
  <1>1. Chain(f, h1, m1, c1) /\ Chain(f, h2, m2, c2)
        /\ \A i \in 1 .. m1, j \in 1 .. m2 : c1[i] # c2[j]
    BY DEF TwoChains
  <1>2. m1 \in Nat /\ m2 \in Nat /\ m2 # 0 /\ k - 1 \in 1 .. m1 /\ k \in 1 .. m1 /\ k - 1 < m1
        /\ (k - 1) + 1 = k /\ 1 \in 1 .. m2 /\ m1 - 1 \in Nat /\ m1 - 1 # 0
    BY <1>1 DEF Chain
  <1>3. p \in Node /\ s \in Slot /\ s \in Node /\ f[p] = s /\ c2[1] = h2
    BY <1>1, <1>2, NodesFinite DEF Chain
  <1>4. p # s /\ p # h2 /\ s # h2
    BY <1>1, <1>2, <1>3 DEF Chain
  <1> HIDE DEF p, s
  <1>5. e \in Links /\ e = [f EXCEPT ![p] = f[s]]
    BY <1>3 DEF Links, SlistRemove
  <1>6. g \in Links
    BY <1>3, <1>5 DEF Links, SlistAdd
  <1>7. \A x \in Node : g[x] = IF x = h2 THEN s ELSE IF x = s THEN f[h2]
                               ELSE IF x = p THEN f[s] ELSE f[x]
    BY <1>3, <1>4, <1>5 DEF Links, SlistAdd
  <1> HIDE DEF e, g
  <1>8. \A i \in 1 .. m1 - 1 :
          IF i < k THEN i \in 1 .. m1 /\ d1[i] = c1[i] ELSE i + 1 \in 1 .. m1 /\ d1[i] = c1[i + 1]
    BY <1>2 DEF Without
  <1>9. \A i \in 1 .. m2 + 1 :
          IF i = 1 THEN d2[i] = h2
          ELSE IF i = 2 THEN d2[i] = s ELSE i - 1 \in 1 .. m2 /\ i - 1 # 1 /\ d2[i] = c2[i - 1]
    BY <1>2, <1>3 DEF WithSecond
  <1>10. d1 \in [1 .. m1 - 1 -> Node] /\ d2 \in [1 .. m2 + 1 -> Node]
    <2>1. \A i \in 1 .. m1 - 1 : d1[i] \in Node
      BY <1>1, <1>8 DEF Chain
    <2>2. \A i \in 1 .. m2 + 1 : d2[i] \in Node
      BY <1>1, <1>3, <1>9 DEF Chain
    <2>3. d1 = [i \in 1 .. m1 - 1 |-> d1[i]] /\ d2 = [i \in 1 .. m2 + 1 |-> d2[i]]
      BY DEF Without, WithSecond
    <2> HIDE DEF d1, d2
    <2> QED BY <2>1, <2>2, <2>3
  <1> HIDE DEF d1, d2
  <1>11. Chain(g, h1, m1 - 1, d1)
    <2>1. d1[1] = h1
      BY <1>1, <1>2, <1>8 DEF Chain
    <2>2. \A i, j \in 1 .. m1 - 1 : d1[i] = d1[j] => i = j
      <3> SUFFICES ASSUME NEW i \in 1 .. m1 - 1, NEW j \in 1 .. m1 - 1, d1[i] = d1[j]
                   PROVE  i = j
        OBVIOUS
      <3> QED BY <1>1, <1>2, <1>8 DEF Chain
    <2>3. ASSUME NEW i \in 1 .. m1 - 1
          PROVE  d1[i] # h2 /\ d1[i] # s /\ (d1[i] = p <=> i = k - 1)
      BY <1>1, <1>2, <1>3, <1>8 DEF Chain, s, p
    <2>4. ASSUME NEW i \in 1 .. m1 - 1, i < m1 - 1
          PROVE  g[d1[i]] = d1[i + 1] /\ d1[i + 1] \in Slot
      <3>0. i + 1 \in 1 .. m1 - 1 /\ d1[i] \in Node
        BY <1>2, <1>10, <2>4
      <3>1. CASE i = k - 1
        <4>1. g[d1[i]] = f[s]
          BY <1>4, <1>7, <2>3, <3>0, <3>1
        <4>2. f[s] = c1[k + 1] /\ c1[k + 1] \in Slot
          BY <1>1, <1>2, <2>4, <3>1 DEF Chain, s
        <4>3. d1[i + 1] = c1[k + 1]
          BY <1>2, <1>8, <3>0, <3>1
        <4> QED BY <4>1, <4>2, <4>3
      <3>2. CASE i < k - 1
        <4>1. g[d1[i]] = f[d1[i]]
          BY <1>2, <1>7, <2>3, <3>0, <3>2
        <4>2. d1[i] = c1[i] /\ d1[i + 1] = c1[i + 1] /\ i \in 1 .. m1 /\ i < m1
          BY <1>2, <1>8, <3>0, <3>2
        <4>3. f[c1[i]] = c1[i + 1] /\ c1[i + 1] \in Slot
          BY <1>1, <4>2 DEF Chain
        <4> QED BY <4>1, <4>2, <4>3
      <3>3. CASE i > k - 1
        <4>1. g[d1[i]] = f[d1[i]]
          BY <1>2, <1>7, <2>3, <3>0, <3>3
        <4>2. d1[i] = c1[i + 1] /\ d1[i + 1] = c1[(i + 1) + 1] /\ i + 1 \in 1 .. m1 /\ i + 1 < m1
          BY <1>2, <1>8, <2>4, <3>0, <3>3
        <4>3. f[c1[i + 1]] = c1[(i + 1) + 1] /\ c1[(i + 1) + 1] \in Slot
          BY <1>1, <4>2 DEF Chain
        <4> QED BY <4>1, <4>2, <4>3
      <3> QED BY <1>2, <3>1, <3>2, <3>3
    <2>5. g[d1[m1 - 1]] = Null
      <3>0. m1 - 1 \in 1 .. m1 - 1 /\ d1[m1 - 1] \in Node /\ m1 \in 1 .. m1
        BY <1>2, <1>10
      <3>1. CASE k = m1
        <4>1. g[d1[m1 - 1]] = f[s]
          BY <1>4, <1>7, <2>3, <3>0, <3>1
        <4> QED BY <1>1, <3>1, <4>1 DEF Chain, s
      <3>2. CASE k # m1
        <4>1. g[d1[m1 - 1]] = f[d1[m1 - 1]]
          BY <1>2, <1>7, <2>3, <3>0, <3>2
        <4>2. d1[m1 - 1] = c1[(m1 - 1) + 1] /\ (m1 - 1) + 1 = m1
          BY <1>2, <1>8, <3>0, <3>2
        <4> QED BY <1>1, <4>1, <4>2 DEF Chain
      <3> QED BY <3>1, <3>2
    <2> QED BY <1>2, <1>10, <2>1, <2>2, <2>4, <2>5 DEF Chain
  <1>12. Chain(g, h2, m2 + 1, d2)
    <2>1. d2[1] = h2 /\ d2[2] = s
      BY <1>2, <1>9
    <2>2. ASSUME NEW i \in 1 .. m2
          PROVE  c2[i] # s /\ c2[i] # p /\ (c2[i] = h2 <=> i = 1) /\ c2[i] \in Node
      BY <1>1, <1>2, <1>3 DEF Chain, s, p
    <2>3. \A i, j \in 1 .. m2 + 1 : d2[i] = d2[j] => i = j
      <3> SUFFICES ASSUME NEW i \in 1 .. m2 + 1, NEW j \in 1 .. m2 + 1, d2[i] = d2[j]
                   PROVE  i = j
        OBVIOUS
      <3> QED BY <1>1, <1>2, <1>4, <1>9, <2>2 DEF Chain
    <2>4. \A i \in 1 .. m2 : i # 1 => g[c2[i]] = f[c2[i]]
      BY <1>7, <2>2
    <2>5. ASSUME NEW i \in 1 .. m2 + 1, i < m2 + 1
          PROVE  g[d2[i]] = d2[i + 1] /\ d2[i + 1] \in Slot
      <3>1. CASE i = 1
        BY <1>3, <1>7, <2>1, <3>1
      <3>2. CASE i = 2
        <4>1. g[d2[2]] = f[h2]
          BY <1>3, <1>4, <1>7, <2>1
        <4>2. f[h2] = c2[1 + 1] /\ c2[1 + 1] \in Slot
          BY <1>1, <1>2, <1>3, <2>5, <3>2 DEF Chain
        <4>3. d2[2 + 1] = c2[2]
          BY <1>2, <1>9, <2>5, <3>2
        <4> QED BY <3>2, <4>1, <4>2, <4>3
      <3>3. CASE i # 1 /\ i # 2
        <4>1. i - 1 \in 1 .. m2 /\ i - 1 < m2 /\ i - 1 # 1 /\ d2[i] = c2[i - 1]
              /\ i + 1 \in 1 .. m2 + 1 /\ i + 1 # 1 /\ i + 1 # 2 /\ (i + 1) - 1 = i
              /\ (i - 1) + 1 = i
          BY <1>2, <1>9, <2>5, <3>3
        <4>2. d2[i + 1] = c2[i]
          BY <1>9, <4>1
        <4>3. f[c2[i - 1]] = c2[i] /\ c2[i] \in Slot
          BY <1>1, <4>1 DEF Chain
        <4> QED BY <2>4, <4>1, <4>2, <4>3
      <3> QED BY <3>1, <3>2, <3>3
    <2>6. g[d2[m2 + 1]] = Null
      <3>1. CASE m2 = 1
        <4>1. g[d2[2]] = f[h2]
          BY <1>3, <1>4, <1>7, <2>1
        <4> QED BY <1>1, <1>3, <3>1, <4>1 DEF Chain
      <3>2. CASE m2 # 1
        <4>1. m2 \in 1 .. m2 /\ m2 + 1 \in 1 .. m2 + 1 /\ m2 + 1 # 1 /\ m2 + 1 # 2
              /\ (m2 + 1) - 1 = m2
          BY <1>2, <3>2
        <4>2. d2[m2 + 1] = c2[m2]
          BY <1>9, <4>1
        <4> QED BY <1>1, <2>4, <3>2, <4>1, <4>2 DEF Chain
      <3> QED BY <3>1, <3>2
    <2> QED BY <1>2, <1>10, <2>1, <2>3, <2>5, <2>6 DEF Chain
  <1>13. \A i \in 1 .. m1 - 1, j \in 1 .. m2 + 1 : d1[i] # d2[j]
    <2> SUFFICES ASSUME NEW i \in 1 .. m1 - 1, NEW j \in 1 .. m2 + 1
                 PROVE  d1[i] # d2[j]
      OBVIOUS
    <2>1. PICK a \in 1 .. m1 : d1[i] = c1[a] /\ a # k
      BY <1>2, <1>8
    <2>2. c1[a] # h2 /\ c1[a] # s /\ \A b \in 1 .. m2 : c1[a] # c2[b]
      BY <1>1, <1>2, <1>3, <2>1 DEF Chain, s
    <2> QED BY <1>9, <2>1, <2>2
  <1>14. TwoChains(g, h1, m1 - 1, d1, h2, m2 + 1, d2)
    BY <1>11, <1>12, <1>13 DEF TwoChains
  <1> QED BY <1>6, <1>14 DEF p, s, e, g, d1, d2

(* What a path looks like on any list, damaged ones included.              *)
LEMMA PathType ==
  ASSUME NEW f \in Links, NEW h \in Node
  PROVE  LET w == SlistPath(f, h) IN
         /\ Len(w) \in Nat /\ Len(w) # 0
         /\ \A i \in 1 .. Len(w) : w[i] \in Node
         /\ \A i \in 2 .. Len(w) : w[i] \in Slot /\ i - 1 \in 1 .. Len(w)
  <1>1. PICK m \in 1 .. Cardinality(Node) + 1 : \E w :
          SlistPath(f, h) = w /\ Len(w) = m /\ Visits(f, h, m, w)
    BY PathVisits
  <1>2. PICK w : SlistPath(f, h) = w /\ Len(w) = m /\ Visits(f, h, m, w)
    BY <1>1
  <1>3. m \in Nat /\ m # 0
    BY NodesFinite
  <1>4. \A i \in 1 .. m : w[i] \in Node
    BY <1>2 DEF Visits
  <1>5. ASSUME NEW i \in 2 .. m PROVE w[i] \in Slot /\ i - 1 \in 1 .. m
    <2>1. i - 1 \in 1 .. m /\ i - 1 < m /\ (i - 1) + 1 = i
      BY <1>3
    <2> QED BY <1>2, <2>1 DEF Visits
  <1> QED BY <1>2, <1>3, <1>4, <1>5

(* The nodes of a list are finitely many slots.                            *)
LEMMA NodesAreSlots ==
  ASSUME NEW f \in Links, NEW h \in Node
  PROVE  /\ SlistNodes(f, h) \subseteq Slot
         /\ IsFiniteSet(SlistNodes(f, h)) /\ Cardinality(SlistNodes(f, h)) \in Nat
  <1>1. SlistNodes(f, h) \subseteq Slot
    BY PathType DEF SlistNodes
  <1>2. IsFiniteSet(Slot)
    BY ChildWaitAssumption
  <1>3. IsFiniteSet(SlistNodes(f, h))
    BY <1>1, <1>2, FS_Subset
  <1> QED BY <1>1, <1>3, FS_CardinalityType

(* Two lists that end and share no slot.                                   *)
Apart(f, h1, h2) ==
  /\ SlistEnds(f, h1) /\ SlistEnds(f, h2)
  /\ SlistNodes(f, h1) \cap SlistNodes(f, h2) = {}

(* Moving the k-th node s of one list to the front of the other takes it   *)
(* out of the nodes of the former and adds it to those of the latter.      *)
LEMMA MoveSlot ==
  ASSUME NEW f \in Links, NEW h1 \in Heads, NEW h2 \in Heads, h1 # h2,
         Apart(f, h1, h2), NEW k \in 2 .. Len(SlistPath(f, h1))
  PROVE  LET c == SlistPath(f, h1)
             g == SlistAdd(SlistRemove(f, c[k - 1], c[k]), h2, c[k])
         IN  /\ g \in Links
             /\ Apart(g, h1, h2)
             /\ SlistNodes(g, h1) = SlistNodes(f, h1) \ {c[k]}
             /\ SlistNodes(g, h2) = SlistNodes(f, h2) \cup {c[k]}
             /\ c[k] \in SlistNodes(f, h1) /\ c[k] \in Slot
  <1>0. h1 \in Node /\ h2 \in Node /\ h1 \notin Slot /\ h2 \notin Slot
    BY ChildWaitAssumption DEF Node
  <1> DEFINE c1 == SlistPath(f, h1)
             c2 == SlistPath(f, h2)
             m1 == Len(c1)
             m2 == Len(c2)
             s == c1[k]
             g == SlistAdd(SlistRemove(f, c1[k - 1], c1[k]), h2, c1[k])
             d1 == Without(c1, m1, k)
             d2 == WithSecond(c2, m2, s)
  <1>1. m1 \in Nat /\ m2 \in Nat /\ Chain(f, h1, m1, c1) /\ Chain(f, h2, m2, c2)
    BY <1>0, EndsChain DEF Apart
  <1>2. /\ SlistNodes(f, h1) = {c1[i] : i \in 2 .. m1}
        /\ SlistNodes(f, h2) = {c2[i] : i \in 2 .. m2}
    BY DEF SlistNodes
  <1>3. k \in 2 .. m1
    OBVIOUS
  <1> HIDE DEF c1, c2, m1, m2
  <1>4. /\ c1[1] = h1 /\ c2[1] = h2
        /\ \A i \in 2 .. m1 : c1[i] \in Slot
        /\ \A i \in 2 .. m2 : c2[i] \in Slot
        /\ \A i, j \in 1 .. m1 : c1[i] = c1[j] => i = j
    <2>1. \A i \in 2 .. m1 : i - 1 \in 1 .. m1 /\ i - 1 < m1 /\ (i - 1) + 1 = i
      BY <1>1
    <2>2. \A i \in 2 .. m2 : i - 1 \in 1 .. m2 /\ i - 1 < m2 /\ (i - 1) + 1 = i
      BY <1>1
    <2> QED BY <1>1, <2>1, <2>2 DEF Chain
  <1>5. TwoChains(f, h1, m1, c1, h2, m2, c2)
    <2> SUFFICES ASSUME NEW i \in 1 .. m1, NEW j \in 1 .. m2 PROVE c1[i] # c2[j]
      BY <1>1 DEF TwoChains
    <2>1. (i = 1 \/ i \in 2 .. m1) /\ (j = 1 \/ j \in 2 .. m2)
      BY <1>1
    <2>2. CASE i \in 2 .. m1 /\ j \in 2 .. m2
      <3>1. c1[i] \in SlistNodes(f, h1) /\ c2[j] \in SlistNodes(f, h2)
        BY <1>2, <2>2
      <3> QED BY <3>1 DEF Apart
    <2>3. CASE i = 1 \/ j = 1
      BY <1>0, <1>4, <2>1, <2>3
    <2> QED BY <2>1, <2>2, <2>3
  <1>6. /\ g \in Links
        /\ TwoChains(g, h1, m1 - 1, d1, h2, m2 + 1, d2)
    BY <1>0, <1>3, <1>5, MoveNode
  <1> HIDE DEF g
  <1>7. Chain(g, h1, m1 - 1, d1) /\ Chain(g, h2, m2 + 1, d2)
    BY <1>6 DEF TwoChains
  <1>8. SlistPath(g, h1) = d1 /\ Len(d1) = m1 - 1 /\ SlistEnds(g, h1)
    <2> HIDE DEF d1, d2
    <2> QED BY <1>0, <1>6, <1>7, ChainPath
  <1>9. SlistPath(g, h2) = d2 /\ Len(d2) = m2 + 1 /\ SlistEnds(g, h2)
    <2> HIDE DEF d1, d2
    <2> QED BY <1>0, <1>6, <1>7, ChainPath
  <1>10. SlistNodes(g, h1) = {d1[i] : i \in 2 .. m1 - 1}
    <2> HIDE DEF d1, d2
    <2> QED BY <1>8 DEF SlistNodes
  <1>11. SlistNodes(g, h2) = {d2[i] : i \in 2 .. m2 + 1}
    <2> HIDE DEF d1, d2
    <2> QED BY <1>9 DEF SlistNodes
  <1>12. SlistNodes(g, h1) = SlistNodes(f, h1) \ {s}
    <2>1. ASSUME NEW i \in 2 .. m1 - 1
          PROVE  \E j \in 2 .. m1 : d1[i] = c1[j] /\ c1[j] # s
      <3>1. i \in 1 .. m1 - 1 /\ i \in 2 .. m1 /\ i + 1 \in 2 .. m1
            /\ \A j \in 2 .. m1 : j \in 1 .. m1
        BY <1>1
      <3>2. d1[i] = IF i < k THEN c1[i] ELSE c1[i + 1]
        BY <3>1 DEF Without
      <3>3. CASE i < k
        <4>1. c1[i] # s
          BY <1>1, <1>3, <1>4, <3>1, <3>3
        <4> QED BY <3>1, <3>2, <3>3, <4>1
      <3>4. CASE ~(i < k)
        <4>1. c1[i + 1] # s
          BY <1>1, <1>3, <1>4, <3>1, <3>4
        <4> QED BY <3>1, <3>2, <3>4, <4>1
      <3> QED BY <3>3, <3>4
    <2>2. ASSUME NEW j \in 2 .. m1, c1[j] # s
          PROVE  \E i \in 2 .. m1 - 1 : d1[i] = c1[j]
      <3>1. j # k
        BY <2>2
      <3>2. CASE j < k
        <4>1. j \in 2 .. m1 - 1 /\ j \in 1 .. m1 - 1
          BY <1>1, <1>3, <3>2
        <4>2. d1[j] = c1[j]
          BY <3>2, <4>1 DEF Without
        <4> QED BY <4>1, <4>2
      <3>3. CASE j > k
        <4>1. j - 1 \in 2 .. m1 - 1 /\ j - 1 \in 1 .. m1 - 1 /\ ~(j - 1 < k) /\ (j - 1) + 1 = j
          BY <1>1, <1>3, <3>3
        <4>2. d1[j - 1] = c1[j]
          BY <4>1 DEF Without
        <4> QED BY <4>1, <4>2
      <3> QED BY <1>1, <1>3, <3>1, <3>2, <3>3
    <2> HIDE DEF d1, s
    <2>3. ASSUME NEW x PROVE x \in SlistNodes(g, h1) <=> x \in SlistNodes(f, h1) \ {s}
      <3>1. ASSUME x \in SlistNodes(g, h1) PROVE x \in SlistNodes(f, h1) \ {s}
        BY <1>2, <1>10, <2>1, <3>1
      <3>2. ASSUME x \in SlistNodes(f, h1), x # s PROVE x \in SlistNodes(g, h1)
        <4>1. PICK j \in 2 .. m1 : x = c1[j]
          BY <1>2, <3>2
        <4>2. \E i \in 2 .. m1 - 1 : d1[i] = c1[j]
          BY <2>2, <3>2, <4>1
        <4> QED BY <1>10, <4>1, <4>2
      <3> QED BY <3>1, <3>2
    <2> QED BY <2>3
  <1>13. SlistNodes(g, h2) = SlistNodes(f, h2) \cup {s}
    <2>1. ASSUME NEW i \in 2 .. m2 + 1
          PROVE  d2[i] = s \/ \E j \in 2 .. m2 : d2[i] = c2[j]
      <3>1. i \in 1 .. m2 + 1 /\ i # 1
        BY <1>1
      <3>2. d2[i] = IF i = 2 THEN s ELSE c2[i - 1]
        BY <3>1 DEF WithSecond
      <3>3. i = 2 \/ i - 1 \in 2 .. m2
        BY <1>1
      <3> QED BY <3>2, <3>3
    <2>2. ASSUME NEW j \in 2 .. m2
          PROVE  \E i \in 2 .. m2 + 1 : d2[i] = c2[j]
      <3>1. j + 1 \in 2 .. m2 + 1 /\ j + 1 \in 1 .. m2 + 1 /\ j + 1 # 1 /\ j + 1 # 2 /\ (j + 1) - 1 = j
        BY <1>1
      <3>2. d2[j + 1] = c2[j]
        BY <3>1 DEF WithSecond
      <3> QED BY <3>1, <3>2
    <2>3. \E i \in 2 .. m2 + 1 : d2[i] = s
      <3>1. m2 # 0
        BY <1>1 DEF Chain
      <3>2. 2 \in 2 .. m2 + 1 /\ 2 \in 1 .. m2 + 1
        BY <1>1, <3>1
      <3>3. d2[2] = s
        BY <3>2 DEF WithSecond
      <3> QED BY <3>2, <3>3
    <2> HIDE DEF d2, s
    <2> QED BY <1>2, <1>11, <2>1, <2>2, <2>3
  <1>14. s \in SlistNodes(f, h1) /\ s \in Slot
    BY <1>2, <1>3, <1>4
  <1>15. Apart(g, h1, h2)
    <2> HIDE DEF s
    <2>1. SlistNodes(g, h1) \cap SlistNodes(g, h2) = {}
      BY <1>12, <1>13 DEF Apart
    <2> QED BY <1>8, <1>9, <2>1 DEF Apart
  <1> QED BY <1>6, <1>12, <1>13, <1>14, <1>15 DEF g, s, c1

(* Lists as process_init_private builds them exist: the free list chains   *)
(* the slots in the order of an enumeration.                               *)
LEMMA InitialLists ==
  /\ InitLinks \in Links
  /\ SlistNodes(InitLinks, "child_list") = {}
  /\ SlistNodes(InitLinks, "child_freelist") = Slot
  /\ Apart(InitLinks, "child_list", "child_freelist")
  <1> DEFINE P(f) == /\ f["child_list"] = Null
                     /\ SlistNodes(f, "child_freelist") = Slot
                     /\ SlistEnds(f, "child_freelist")
  <1>1. PICK n \in Nat : ExistsBijection(1 .. n, Slot)
    BY ChildWaitAssumption, FS_NatBijection
  <1>2. PICK b \in [1 .. n -> Slot] :
          /\ \A i, j \in 1 .. n : b[i] = b[j] => i = j
          /\ \A s \in Slot : \E i \in 1 .. n : b[i] = s
    BY <1>1 DEF ExistsBijection, Bijection, Injection, IsInjective, Surjection
  <1> DEFINE at(s) == CHOOSE i \in 1 .. n : b[i] = s
             f == [x \in Node |->
                     IF x = "child_list" THEN Null
                     ELSE IF x = "child_freelist" THEN IF n = 0 THEN Null ELSE b[1]
                     ELSE IF at(x) = n THEN Null ELSE b[at(x) + 1]]
             c == [i \in 1 .. n + 1 |-> IF i = 1 THEN "child_freelist" ELSE b[i - 1]]
  <1>3. \A i \in 1 .. n : at(b[i]) = i
    BY <1>2
  <1>4. \A s \in Slot : at(s) \in 1 .. n
    BY <1>2
  <1> HIDE DEF at
  <1>5. f \in Links
    <2>1. \A x \in Node : f[x] \in Slot \cup {Null}
      <3> SUFFICES ASSUME NEW x \in Node PROVE f[x] \in Slot \cup {Null}
        OBVIOUS
      <3>1. CASE x = "child_list" \/ x = "child_freelist"
        BY <1>2, <3>1
      <3>2. CASE x \in Slot
        <4>1. at(x) \in 1 .. n /\ (at(x) # n => at(x) + 1 \in 1 .. n)
          BY <1>1, <1>4, <3>2
        <4> QED BY <1>2, <4>1
      <3> QED BY <3>1, <3>2 DEF Node, Heads
    <2> QED BY <2>1 DEF Links
  <1>6. f["child_list"] = Null /\ f["child_freelist"] = IF n = 0 THEN Null ELSE b[1]
    BY NodesFinite
  <1>7. \A i \in 1 .. n : f[b[i]] = IF i = n THEN Null ELSE b[i + 1]
    <2> SUFFICES ASSUME NEW i \in 1 .. n PROVE f[b[i]] = IF i = n THEN Null ELSE b[i + 1]
      OBVIOUS
    <2>1. b[i] \in Slot
      BY <1>2
    <2>2. b[i] \in Node /\ b[i] # "child_list" /\ b[i] # "child_freelist"
      BY <2>1, ChildWaitAssumption DEF Node, Heads
    <2> QED BY <1>3, <2>2
  <1>8. c[1] = "child_freelist" /\ \A i \in 1 .. n : i + 1 \in 1 .. n + 1 /\ c[i + 1] = b[i]
    BY <1>1
  <1>9. \A i \in 1 .. n + 1 : i # 1 => i - 1 \in 1 .. n /\ c[i] = b[i - 1]
    BY <1>1
  <1>10. c \in [1 .. n + 1 -> Node]
    <2>1. \A i \in 1 .. n + 1 : c[i] \in Node
      BY <1>2, <1>8, <1>9, NodesFinite
    <2> QED BY <2>1
  <1> HIDE DEF f, c
  <1>11. Chain(f, "child_freelist", n + 1, c)
    <2>1. ASSUME NEW i \in 1 .. n + 1, i < n + 1
          PROVE  f[c[i]] = c[i + 1] /\ c[i + 1] \in Slot
      <3>1. CASE i = 1
        BY <1>1, <1>2, <1>6, <1>8, <2>1, <3>1
      <3>2. CASE i # 1
        <4>1. i - 1 \in 1 .. n /\ c[i] = b[i - 1] /\ i - 1 # n /\ (i - 1) + 1 = i /\ i \in 1 .. n
          BY <1>1, <1>9, <2>1, <3>2
        <4> QED BY <1>2, <1>7, <1>8, <4>1
      <3> QED BY <3>1, <3>2
    <2>2. f[c[n + 1]] = Null
      <3>1. CASE n = 0
        BY <1>6, <1>8, <3>1
      <3>2. CASE n # 0
        <4>1. n \in 1 .. n
          BY <1>1, <3>2
        <4> QED BY <1>7, <1>8, <4>1
      <3> QED BY <3>1, <3>2
    <2>3. \A i, j \in 1 .. n + 1 : c[i] = c[j] => i = j
      <3> SUFFICES ASSUME NEW i \in 1 .. n + 1, NEW j \in 1 .. n + 1, c[i] = c[j]
                   PROVE  i = j
        OBVIOUS
      <3>1. \A k \in 1 .. n : b[k] # "child_freelist"
        BY <1>2, ChildWaitAssumption DEF Heads
      <3>2. CASE i = 1 \/ j = 1
        BY <1>8, <1>9, <3>1, <3>2
      <3>3. CASE i # 1 /\ j # 1
        <4>1. i - 1 = j - 1
          BY <1>2, <1>9, <3>3
        <4> QED BY <1>1, <4>1
      <3> QED BY <3>2, <3>3
    <2> QED BY <1>1, <1>8, <1>10, <2>1, <2>2, <2>3 DEF Chain
  <1>12. SlistPath(f, "child_freelist") = c /\ Len(c) = n + 1 /\ SlistEnds(f, "child_freelist")
    BY <1>5, <1>11, ChainPath, NodesFinite
  <1>13. SlistNodes(f, "child_freelist") = {c[i] : i \in 2 .. n + 1}
    BY <1>12 DEF SlistNodes
  <1>14. {c[i] : i \in 2 .. n + 1} = Slot
    <2>1. \A i \in 2 .. n + 1 : i \in 1 .. n + 1 /\ i # 1
      BY <1>1
    <2>2. \A i \in 1 .. n : i + 1 \in 2 .. n + 1
      BY <1>1
    <2> QED BY <1>2, <1>8, <1>9, <2>1, <2>2
  <1>15. P(f)
    BY <1>6, <1>12, <1>13, <1>14
  <1>16. InitLinks \in Links /\ P(InitLinks)
    <2>1. \E g \in Links : P(g)
      BY <1>5, <1>15
    <2>2. InitLinks = CHOOSE g \in Links : P(g)
      BY DEF InitLinks, Links, Node
    <2> HIDE DEF P
    <2> QED BY <2>1, <2>2
  <1> DEFINE d == [i \in 1 .. 1 |-> "child_list"]
  <1>17. Chain(InitLinks, "child_list", 1, d)
    BY <1>16, NodesFinite DEF Chain
  <1>18. SlistPath(InitLinks, "child_list") = d /\ Len(d) = 1 /\ SlistEnds(InitLinks, "child_list")
    <2> HIDE DEF d
    <2> QED BY <1>16, <1>17, ChainPath, NodesFinite
  <1>19. SlistNodes(InitLinks, "child_list") = {}
    <2> HIDE DEF d
    <2> QED BY <1>18 DEF SlistNodes
  <1> QED BY <1>16, <1>18, <1>19 DEF Apart

-----------------------------------------------------------------------------
(* The process table. *)

(* process_shared_alloc finds a free slot when there is one: every slot is *)
(* the candidate of some round.                                            *)
LEMMA AllocatesFree ==
  ASSUME NEW st \in [Pid -> Status], NEW l \in Pid, HasFreePid(st)
  PROVE  AllocPid(st, l) \in Pid /\ st[AllocPid(st, l)] = "NOTEXIST"
  <1> DEFINE free == {i \in Pid : st[Candidate(l, i)] = "NOTEXIST"}
             j0 == CHOOSE i \in free : \A j \in free : i <= j
  <1>0. MaxProcess \in Nat /\ MaxProcess > 1 /\ Pid \subseteq Nat
    BY PidTableAssumption DEF Pid
  <1>1. \A i \in Pid : Candidate(l, i) \in Pid
    BY <1>0 DEF Candidate, Pid
  <1>2. PICK p \in Pid : st[p] = "NOTEXIST"
    BY DEF HasFreePid
  <1>3. \E i \in Pid : Candidate(l, i) = p
    <2>1. CASE p > l
      <3>1. p - l \in Pid /\ Candidate(l, p - l) = p
        BY <1>0, <2>1 DEF Candidate, Pid
      <3> QED BY <3>1
    <2>2. CASE ~(p > l)
      <3>1. (p - l) + (MaxProcess - 1) \in Pid
            /\ Candidate(l, (p - l) + (MaxProcess - 1)) = p
        BY <1>0, <2>2 DEF Candidate, Pid
      <3> QED BY <3>1
    <2> QED BY <2>1, <2>2
  <1>4. free # {} /\ free \in SUBSET Nat
    BY <1>0, <1>2, <1>3
  <1>5. \E i \in free : \A j \in free : i <= j
    <2> HIDE DEF free
    <2> QED BY <1>4, LeastOf
  <1>6. j0 \in free
    <2> HIDE DEF free
    <2> QED BY <1>5
  <1>7. AllocPid(st, l) = Candidate(l, j0)
    BY DEF AllocPid
  <1> HIDE DEF j0
  <1> QED BY <1>1, <1>6, <1>7

-----------------------------------------------------------------------------
(* Type correctness. *)

(* The calls of wait4, those for one pid, and where they are in it.        *)
WaitCalls == CallName \ {"fork", "clone"}
PidCalls == {"wait_pid", "wait_pid_nohang"}
Holding == {"wait_process", "wait_take", "wait_remove"}
Waiting == {"wait_find", "wait_sem", "wait_search", "wait_collect"} \cup Holding

(* At most one thread of a program calls wait4: the shared lock does not   *)
(* keep two of them from damaging the list (process.c:331, FIXME).         *)
OneWaits ==
  \A p \in Programs : \A t, u \in Thread :
    (p.calls[t] \cap WaitCalls # {} /\ p.calls[u] \cap WaitCalls # {}) => t = u

(* A program that waits for one pid has one child at a time: with more, it *)
(* may take the unit of another child (the counterexample of run ReapShell)*)
PidWaitsAlone ==
  \A p \in Programs : (\E t \in Thread : p.calls[t] \cap PidCalls # {}) => p.live <= 1

TypeInv ==
  /\ TypeOK
  /\ sigPc # "idle" => sigSlot \in Slot
  /\ \A t \in Thread : pc[t] \in Holding \cup {"wait_collect"} => cur[t] \in Slot

(* The program is in its initial state correctly typed.                    *)
LEMMA TypeInit == Init => TypeInv
  <1> SUFFICES ASSUME Init PROVE TypeInv
    OBVIOUS
  <1>1. next \in [Heads \cup Slot -> Slot \cup {Null}]
    BY InitialLists DEF Init, Links, Node
  <1>2. slot \in [Slot -> [pid : Pid \cup {0}, hProcess : Child \cup {0},
                          hPipe : Child \cup {0}, terminated : BOOLEAN]]
    BY DEF Init, NoChild
  <1>3. 1 \in Pid
    BY PidTableAssumption DEF Pid
  <1> QED BY <1>1, <1>2, <1>3, ChildWaitAssumption
          DEF Init, TypeInv, TypeOK, Child, Status, CallName, Heads, Holding

(* What a search of the child list finds is a slot and its predecessor.    *)
LEMMA FindTypes ==
  ASSUME TypeInv, NEW t \in Thread, NEW S, NEW to, FindIn(t, S, to)
  PROVE  \E s \in Slot \cap S, p \in Slot \cup Heads :
           cur' = [cur EXCEPT ![t] = s] /\ prev' = [prev EXCEPT ![t] = p]
  <1> DEFINE w == SlistPath(next, "child_list")
  <1>1. PICK i \in 2 .. Len(w) :
          /\ w[i] \in S
          /\ cur' = [cur EXCEPT ![t] = w[i]] /\ prev' = [prev EXCEPT ![t] = w[i - 1]]
    BY DEF FindIn
  <1>2. next \in Links
    BY DEF TypeInv, TypeOK, Links, Node
  <1>3. w[i] \in Slot /\ w[i - 1] \in Node
    BY <1>1, <1>2, PathType, NodesFinite
  <1> HIDE DEF w
  <1> QED BY <1>1, <1>3 DEF Node


(* The read of the signal thread on a broken pipe completes at most once.  *)
LEMMA BreakTypes ==
  ASSUME TypeInv, NEW k \in Child, PipeBreaks(k)
  PROVE  iocp' \in Seq(Slot) /\ watch' \in [Child -> Slot \cup {Null}]
  <1>1. watch' \in [Child -> Slot \cup {Null}]
    BY DEF PipeBreaks, TypeInv, TypeOK
  <1>2. CASE watch[k] = Null
    BY <1>1, <1>2 DEF PipeBreaks, TypeInv, TypeOK
  <1>3. CASE watch[k] # Null
    <2>1. watch[k] \in Slot /\ iocp \in Seq(Slot) /\ iocp' = Append(iocp, watch[k])
      BY <1>3 DEF PipeBreaks, TypeInv, TypeOK
    <2>2. iocp' \in Seq(Slot)
      BY <2>1
    <2> QED BY <1>1, <2>2
  <1> QED BY <1>2, <1>3

(* A child structure, and what it is with a field changed.                 *)
Kid == [pid : Pid \cup {0}, hProcess : Child \cup {0},
        hPipe : Child \cup {0}, terminated : BOOLEAN]
LEMMA KidFields ==
  ASSUME NEW r \in Kid
  PROVE  [r EXCEPT !.hPipe = 0] \in Kid /\ [r EXCEPT !.terminated = TRUE] \in Kid
  BY DEF Kid

(* Moving a node from one list to another changes pointers to pointers.    *)
LEMMA MoveTypes ==
  ASSUME NEW f \in Links, NEW x \in Slot, NEW h \in Node, NEW l \in Heads
  PROVE  SlistAdd(SlistRemove(f, h, x), l, x) \in Links
  <1>1. SlistRemove(f, h, x) \in Links
    BY DEF SlistRemove, Links, Node
  <1>2. ASSUME NEW g \in Links PROVE SlistAdd(g, l, x) \in Links
    BY <1>2 DEF SlistAdd, Links, Node
  <1> QED BY <1>1, <1>2

(* Every step keeps the types.                                             *)
LEMMA TypeStep == TypeInv /\ [Next]_vars => TypeInv'
  <1> SUFFICES ASSUME TypeInv, [Next]_vars PROVE TypeInv'
    OBVIOUS
  <1> USE ChildWaitAssumption
  <1>1. ASSUME NEW k \in Child, ChildExit(k) \/ ChildKilled(k) PROVE TypeInv'
    <2>1. iocp' \in Seq(Slot) /\ watch' \in [Child -> Slot \cup {Null}]
      BY <1>1, BreakTypes DEF ChildExit, ChildKilled
    <2>2. CASE ChildExit(k)
      <3>1. status' \in [Pid -> Status] /\ code' \in [Pid -> Child \cup {0}]
        BY <2>2 DEF ChildExit, Status, TypeInv, TypeOK
      <3> QED BY <2>1, <2>2, <3>1 DEF ChildExit, TypeInv, TypeOK, vars, world, shared, lists, locks, sigvars, locals, Goto, Holding
    <2>3. CASE ChildKilled(k)
      BY <2>1, <2>3 DEF ChildKilled, TypeInv, TypeOK, vars, world, shared, lists, locks, sigvars, locals, Goto, Holding
    <2> QED BY <1>1, <2>2, <2>3
  <1>2. ASSUME NEW t \in Thread, ForkEnter(t) \/ ForkDone(t) \/ Clone(t) PROVE TypeInv'
    <2>1. CASE ForkEnter(t)
      BY <2>1 DEF ForkEnter, TypeInv, TypeOK, vars, world, shared, lists, locks, sigvars, locals, Goto, Holding
    <2>2. CASE ForkDone(t)
      BY <2>2 DEF ForkDone, TypeInv, TypeOK, vars, world, shared, lists, locks, sigvars, locals, Goto, Holding
    <2>3. CASE Clone(t)
      BY <2>3 DEF Clone, TypeInv, TypeOK, vars, world, shared, lists, locks, sigvars, locals, Goto, Holding
    <2> QED BY <1>2, <2>1, <2>2, <2>3
  <1>3. ASSUME NEW t \in Thread, ForkInit(t) PROVE TypeInv'
    <2> DEFINE p == AllocPid(status, last)
               s == next["child_freelist"]
    <2>1. p \in Pid
      BY <1>3, AllocatesFree DEF ForkInit, TypeInv, TypeOK
    <2>2. s \in Slot
      BY <1>3 DEF ForkInit, TypeInv, TypeOK, Heads
    <2>3. next' \in [Heads \cup Slot -> Slot \cup {Null}]
      BY <1>3, <2>2, MoveTypes DEF ForkInit, s, TypeInv, TypeOK, Heads, Links, Node
    <2>4. forked + 1 \in Child /\ forked + 1 \in 0 .. MaxForks
      BY <1>3 DEF ForkInit, TypeInv, TypeOK, Child
    <2> HIDE DEF p, s
    <2>5. slot' \in [Slot -> [pid : Pid \cup {0}, hProcess : Child \cup {0},
                              hPipe : Child \cup {0}, terminated : BOOLEAN]]
      BY <1>3, <2>1, <2>2, <2>4 DEF ForkInit, p, s, TypeInv, TypeOK
    <2>6. packets' \in Seq(Slot) /\ childCount' \in Int
      BY <1>3, <2>2 DEF ForkInit, s, TypeInv, TypeOK
    <2>7. /\ alive' \subseteq Child /\ forked' \in 0 .. MaxForks
          /\ pidOf' \in [Child -> Pid \cup {0}] /\ status' \in [Pid -> Status] /\ last' \in Pid
      BY <1>3, <2>1, <2>4 DEF ForkInit, Status, p, TypeInv, TypeOK
    <2> QED BY <1>3, <2>3, <2>5, <2>6, <2>7
            DEF ForkInit, TypeInv, TypeOK, vars, world, shared, lists, locks, sigvars, locals, Goto, Holding
  <1>4. ASSUME NEW t \in Thread, WaitEnter(t) PROVE TypeInv'
    <2>1. PICK c \in prog.calls[t] \ {"fork", "clone"} :
            /\ Goto(t, "user", "wait_find")
            /\ rwShared' = rwShared \cup {t}
            /\ call' = [call EXCEPT ![t] = c]
            /\ \/ \E k \in 1 .. forked : want' = [want EXCEPT ![t] = pidOf[k]]
               \/ UNCHANGED want
            /\ UNCHANGED <<world, shared, lists, mutex, sem, sigvars, cur, prev>>
      BY <1>4 DEF WaitEnter
    <2>2. c \in CallName
      BY <2>1 DEF TypeInv, TypeOK
    <2>3. want' \in [Thread -> Pid \cup {0}]
      <3>1. 1 .. forked \subseteq Child
        BY DEF TypeInv, TypeOK, Child
      <3> QED BY <2>1, <3>1 DEF TypeInv, TypeOK
    <2> QED BY <2>1, <2>2, <2>3 DEF TypeInv, TypeOK, vars, world, shared, lists, locks, sigvars, locals, Goto, Holding
  <1>5. ASSUME NEW t \in Thread, NEW S, NEW to \in {"wait_process", "wait_take", "wait_remove"},
               FindIn(t, S, to)
        PROVE  TypeInv'
    <2>1. PICK s \in Slot, p \in Slot \cup Heads :
            cur' = [cur EXCEPT ![t] = s] /\ prev' = [prev EXCEPT ![t] = p]
      BY <1>5, FindTypes
    <2>2. /\ pc' = [pc EXCEPT ![t] = to]
          /\ UNCHANGED <<world, shared, lists, locks, sem, sigvars, call, want>>
      BY <1>5 DEF FindIn
    <2>3. /\ cur' \in [Thread -> Slot \cup {Null}] /\ prev' \in [Thread -> Slot \cup Heads]
          /\ \A u \in Thread : u # t => cur'[u] = cur[u] /\ pc'[u] = pc[u]
          /\ cur'[t] \in Slot
      BY <2>1, <2>2 DEF TypeInv, TypeOK
    <2>4. TypeOK'
      BY <2>2, <2>3 DEF TypeInv, TypeOK, world, shared, lists, locks, sigvars
    <2> QED BY <2>2, <2>3, <2>4 DEF TypeInv, sigvars
  <1>6. ASSUME NEW t \in Thread, Leave(t) PROVE TypeInv'
    BY <1>6 DEF Leave, Return, TypeInv, TypeOK, vars, world, shared, lists, locks, sigvars, locals, Goto, Holding
  <1>7. ASSUME NEW t \in Thread, FindPid(t) PROVE TypeInv'
    BY <1>5, <1>6, <1>7 DEF FindPid
  <1>8. ASSUME NEW t \in Thread, Search(t) PROVE TypeInv'
    BY <1>5, <1>6, <1>8 DEF Search
  <1>9. ASSUME NEW t \in Thread, FindAny(t) PROVE TypeInv'
    <2>1. CASE childCount = 0
      BY <1>6, <1>9, <2>1 DEF FindAny
    <2>2. CASE childCount # 0
      BY <1>9, <2>2 DEF FindAny, TypeInv, TypeOK, vars, world, shared, lists, locks, sigvars, locals, Goto, Holding
    <2> QED BY <2>1, <2>2
  <1>10. ASSUME NEW t \in Thread, ProcessSignaled(t) \/ SemTaken(t) \/ Take(t) PROVE TypeInv'
    <2>1. CASE ProcessSignaled(t)
      BY <2>1 DEF ProcessSignaled, TypeInv, TypeOK, vars, world, shared, lists, locks, sigvars, locals, Goto, Holding
    <2>2. CASE SemTaken(t)
      BY <2>2 DEF SemTaken, TypeInv, TypeOK, vars, world, shared, lists, locks, sigvars, locals, Goto, Holding
    <2>3. CASE Take(t)
      BY <2>3 DEF Take, TypeInv, TypeOK, vars, world, shared, lists, locks, sigvars, locals, Goto, Holding
    <2> QED BY <1>10, <2>1, <2>2, <2>3
  <1>11. ASSUME NEW t \in Thread, Interrupted(t) PROVE TypeInv'
    BY <1>6, <1>11 DEF Interrupted
  <1>12. ASSUME NEW t \in Thread, Remove(t) PROVE TypeInv'
    <2>1. cur[t] \in Slot /\ prev[t] \in Slot \cup Heads
      BY <1>12 DEF Remove, Goto, Holding, TypeInv, TypeOK
    <2>2. next' \in [Heads \cup Slot -> Slot \cup {Null}]
      BY <1>12, <2>1, MoveTypes DEF Remove, TypeInv, TypeOK, Heads, Links, Node
    <2> QED BY <1>12, <2>1, <2>2 DEF Remove, TypeInv, TypeOK, vars, world, shared, lists, locks, sigvars, locals, Goto, Holding
  <1>13. ASSUME NEW t \in Thread, Collect(t) PROVE TypeInv'
    <2> DEFINE p == slot[cur[t]].pid
    <2>1. CASE status[p] = "NOTEXIST"
      BY <1>13, <2>1 DEF Collect, TypeInv, TypeOK, vars, world, shared, lists, locks, sigvars, locals, Goto, Holding
    <2>2. CASE status[p] # "NOTEXIST"
      <3>1. status' \in [Pid -> Status]
        BY <1>13, <2>2 DEF Collect, Status, TypeInv, TypeOK
      <3> QED BY <1>13, <2>2, <3>1 DEF Collect, Return, TypeInv, TypeOK, vars, world, shared, lists, locks, sigvars, locals, Goto, Holding
    <2> QED BY <2>1, <2>2
  <1>14. ASSUME AddProcess \/ ChildDied PROVE TypeInv'
    <2>1. ASSUME NEW q \in Seq(Slot), q # << >> PROVE Head(q) \in Slot /\ Tail(q) \in Seq(Slot)
      BY <2>1
    <2>2. CASE AddProcess
      <3>1. Head(packets) \in Slot /\ Tail(packets) \in Seq(Slot)
        BY <2>1, <2>2 DEF AddProcess, TypeInv, TypeOK
      <3> QED BY <2>2, <3>1 DEF AddProcess, TypeInv, TypeOK, vars, world, shared, lists, locks, sigvars, locals, Goto, Holding
    <2>3. CASE ChildDied
      <3>1. Head(iocp) \in Slot /\ Tail(iocp) \in Seq(Slot)
        BY <2>1, <2>3 DEF ChildDied, TypeInv, TypeOK
      <3> QED BY <2>3, <3>1 DEF ChildDied, TypeInv, TypeOK, vars, world, shared, lists, locks, sigvars, locals, Goto, Holding
    <2> QED BY <1>14, <2>2, <2>3
  <1>15. ASSUME ClosePipe PROVE TypeInv'
    <2>1. iocp' \in Seq(Slot) /\ watch' \in [Child -> Slot \cup {Null}]
      <3>1. CASE slot[sigSlot].hPipe = 0
        BY <1>15, <3>1 DEF ClosePipe, TypeInv, TypeOK
      <3>2. CASE slot[sigSlot].hPipe # 0
        <4>1. slot[sigSlot].hPipe \in Child
          BY <1>15, <3>2 DEF ClosePipe, TypeInv, TypeOK
        <4> QED BY <1>15, <3>2, <4>1, BreakTypes DEF ClosePipe
      <3> QED BY <3>1, <3>2
    <2>2. slot' \in [Slot -> [pid : Pid \cup {0}, hProcess : Child \cup {0},
                            hPipe : Child \cup {0}, terminated : BOOLEAN]]
      <3>1. slot \in [Slot -> Kid] /\ sigSlot \in Slot
        BY <1>15 DEF ClosePipe, TypeInv, TypeOK, Kid
      <3>2. [slot[sigSlot] EXCEPT !.hPipe = 0] \in Kid
        BY <3>1, KidFields
      <3>3. slot' \in [Slot -> Kid]
        BY <1>15, <3>1, <3>2 DEF ClosePipe
      <3> QED BY <3>3 DEF Kid
    <2> QED BY <1>15, <2>1, <2>2 DEF ClosePipe, TypeInv, TypeOK, vars, world, shared, lists, locks, sigvars, locals, Goto, Holding
  <1>16. ASSUME SendSigchld \/ Mark \/ ReleaseSem PROVE TypeInv'
    <2>1. CASE SendSigchld
      BY <2>1 DEF SendSigchld, TypeInv, TypeOK, vars, world, shared, lists, locks, sigvars, locals, Goto, Holding
    <2>2. CASE Mark
      <3>1. slot' \in [Slot -> [pid : Pid \cup {0}, hProcess : Child \cup {0},
                              hPipe : Child \cup {0}, terminated : BOOLEAN]]
        <4>1. slot \in [Slot -> Kid] /\ sigSlot \in Slot
          BY <2>2 DEF Mark, TypeInv, TypeOK, Kid
        <4>2. [slot[sigSlot] EXCEPT !.terminated = TRUE] \in Kid
          BY <4>1, KidFields
        <4>3. slot' \in [Slot -> Kid]
          BY <2>2, <4>1, <4>2 DEF Mark
        <4> QED BY <4>3 DEF Kid
      <3> QED BY <2>2, <3>1 DEF Mark, TypeInv, TypeOK, vars, world, shared, lists, locks, sigvars, locals, Goto, Holding
    <2>3. CASE ReleaseSem
      BY <2>3 DEF ReleaseSem, TypeInv, TypeOK, vars, world, shared, lists, locks, sigvars, locals, Goto, Holding
    <2> QED BY <1>16, <2>1, <2>2, <2>3
  <1>17. CASE UNCHANGED vars
    BY <1>17 DEF TypeInv, TypeOK, vars, world, shared, lists, locks, sigvars, locals, Goto, Holding
  <1> QED BY <1>1, <1>2, <1>3, <1>4, <1>7, <1>8, <1>9, <1>10, <1>11, <1>12, <1>13, <1>14,
             <1>15, <1>16, <1>17 DEF Next, Wait, SignalThread

(* The type invariant TypeOK of ChildWait always holds, whatever programs  *)
(* do: the structures, the process table and the places of the threads in  *)
(* process_wait and of the signal thread are what they are declared to be. *)
THEOREM TypeCorrect == Spec => []TypeOK
  <1>1. Spec => []TypeInv
    BY TypeInit, TypeStep, PTL DEF Spec
  <1>2. TypeInv => TypeOK
    BY DEF TypeInv
  <1> QED BY <1>1, <1>2, PTL

-----------------------------------------------------------------------------
(* The locks and the lists. *)

(* A forking thread holds signal->mutex; one in wait4 holds rw_lock and is *)
(* in a call of its program.                                               *)
LocksOK ==
  \A t \in Thread :
    /\ pc[t] \in {"fork_init", "fork_done"} => mutex = t
    /\ pc[t] \in Waiting => /\ t \in rwShared
                            /\ call[t] \in prog.calls[t] \cap WaitCalls

(* Both lists come to an end and share no slot, and child_count is right.  *)
Structure == Apart(next, "child_list", "child_freelist") /\ SlotsAccounted

(* A thread about to remove a child still has its place on the list.       *)
OnList(t) ==
  LET w == SlistPath(next, "child_list") IN
  \E i \in 2 .. Len(w) : cur[t] = w[i] /\ prev[t] = w[i - 1]

Places ==
  \A t \in Thread : /\ pc[t] \in Holding => OnList(t)
                    /\ pc[t] = "wait_collect" => cur[t] \notin Children

(* A program never has more children than it wants at a time.              *)
Room ==
  /\ Cardinality(Children) <= prog.live
  /\ \A t \in Thread : pc[t] = "fork_init" => Cardinality(Children) < prog.live

ListsOK == Structure /\ Places /\ Room

(* Initially no thread holds a lock, and the lists are as process_init     *)
(* leaves them.                                                            *)
LEMMA ListsInit == Init => LocksOK /\ ListsOK
  <1> SUFFICES ASSUME Init PROVE LocksOK /\ ListsOK
    OBVIOUS
  <1>1. \A t \in Thread : pc[t] = "user"
    BY DEF Init
  <1>2. next = InitLinks /\ childCount = 0 /\ clones = 0
    BY DEF Init
  <1>3. Children = {} /\ SlistNodes(next, "child_freelist") = Slot
    BY <1>2, InitialLists DEF Children
  <1>4. Cardinality(Children) = 0
    BY <1>3, FS_EmptySet
  <1>5. Structure
    BY <1>2, <1>3, <1>4, InitialLists DEF Structure, SlotsAccounted
  <1>6. prog.live \in Nat
    BY ChildWaitAssumption DEF Init
  <1>7. Room
    BY <1>1, <1>4, <1>6 DEF Room
  <1> QED BY <1>1, <1>5, <1>7 DEF LocksOK, ListsOK, Places, Waiting, Holding

(* The step of one thread keeps what the locks say of the others.          *)
LEMMA LocksMove ==
  ASSUME TypeInv, LocksOK, NEW t \in Thread, prog' = prog,
         \A u \in Thread : u # t => /\ pc'[u] = pc[u] /\ call'[u] = call[u]
                                    /\ u \in rwShared => u \in rwShared'
                                    /\ mutex = u => mutex' = u,
         pc'[t] \in {"fork_init", "fork_done"} => mutex' = t,
         pc'[t] \in Waiting => /\ t \in rwShared'
                               /\ call'[t] \in prog.calls[t] \cap WaitCalls
  PROVE  LocksOK'
  BY DEF LocksOK

(* Every step keeps the locks with the threads that took them.             *)
LEMMA LocksStep == TypeInv /\ LocksOK /\ [Next]_vars => LocksOK'
  <1> SUFFICES ASSUME TypeInv, LocksOK, [Next]_vars PROVE LocksOK'
    OBVIOUS
  <1> USE DEF Goto, world, shared, lists, locks, sigvars, locals
  <1>0. pc \in [Thread -> {"user", "exited", "fork_init", "fork_done", "wait_find",
                           "wait_process", "wait_sem", "wait_search", "wait_take",
                           "wait_remove", "wait_collect"}]
        /\ call \in [Thread -> CallName] /\ Null \notin Thread
    BY ChildWaitAssumption DEF TypeInv, TypeOK
  <1>1. ASSUME UNCHANGED <<prog, pc, call, mutex, rwShared>> PROVE LocksOK'
    BY <1>1 DEF LocksOK
  <1>2. ASSUME NEW k \in Child, ChildExit(k) \/ ChildKilled(k) PROVE LocksOK'
    BY <1>1, <1>2 DEF ChildExit, ChildKilled
  <1>3. ASSUME SignalThread PROVE LocksOK'
    BY <1>1, <1>3 DEF SignalThread, AddProcess, ChildDied, ClosePipe, SendSigchld, Mark, ReleaseSem
  <1>4. ASSUME NEW t \in Thread, ForkEnter(t) PROVE LocksOK'
    BY <1>0, <1>4, LocksMove DEF ForkEnter, Waiting, Holding
  <1>5. ASSUME NEW t \in Thread, ForkInit(t) PROVE LocksOK'
    <2>1. mutex' = t
      BY <1>5 DEF ForkInit, LocksOK
    <2> QED BY <1>0, <1>5, <2>1, LocksMove DEF ForkInit, Waiting, Holding
  <1>6. ASSUME NEW t \in Thread, ForkDone(t) PROVE LocksOK'
    <2>1. mutex = t
      BY <1>6 DEF ForkDone, LocksOK
    <2> QED BY <1>0, <1>6, <2>1, LocksMove DEF ForkDone, Waiting, Holding
  <1>7. ASSUME NEW t \in Thread, Clone(t) PROVE LocksOK'
    BY <1>1, <1>7 DEF Clone
  <1>8. ASSUME NEW t \in Thread, WaitEnter(t) PROVE LocksOK'
    <2>1. PICK c \in prog.calls[t] \ {"fork", "clone"} :
            /\ Goto(t, "user", "wait_find")
            /\ rwShared' = rwShared \cup {t}
            /\ call' = [call EXCEPT ![t] = c]
            /\ UNCHANGED <<world, mutex>>
      BY <1>8 DEF WaitEnter
    <2>2. c \in WaitCalls /\ c \in prog.calls[t]
      BY <2>1, ChildWaitAssumption DEF TypeInv, TypeOK, WaitCalls
    <2> QED BY <1>0, <2>1, <2>2, LocksMove
  <1>9. ASSUME NEW t \in Thread, NEW from \in Waiting, NEW to, pc[t] = from,
               pc' = [pc EXCEPT ![t] = to], UNCHANGED <<prog, call, mutex, rwShared>>,
               to \notin {"fork_init", "fork_done"}
        PROVE  LocksOK'
    <2>1. t \in rwShared /\ call[t] \in prog.calls[t] \cap WaitCalls
      BY <1>9 DEF LocksOK
    <2> QED BY <1>0, <1>9, <2>1, LocksMove
  <1>10. ASSUME NEW t \in Thread, Leave(t) PROVE LocksOK'
    <2>1. pc'[t] = "user"
      BY <1>0, <1>10 DEF Leave, Return
    <2> QED BY <1>0, <1>10, <2>1, LocksMove DEF Leave, Return, Waiting, Holding
  <1>11. ASSUME NEW t \in Thread, NEW S, NEW to \in {"wait_process", "wait_take", "wait_remove"},
                pc[t] \in Waiting, FindIn(t, S, to)
         PROVE  LocksOK'
    <2>1. pc' = [pc EXCEPT ![t] = to] /\ UNCHANGED <<prog, call, mutex, rwShared>>
      BY <1>11 DEF FindIn
    <2> QED BY <1>9, <1>11, <2>1
  <1>12. ASSUME NEW t \in Thread, FindPid(t) PROVE LocksOK'
    BY <1>10, <1>11, <1>12 DEF FindPid, Waiting
  <1>13. ASSUME NEW t \in Thread, Search(t) PROVE LocksOK'
    BY <1>10, <1>11, <1>13 DEF Search, Waiting
  <1>14. ASSUME NEW t \in Thread, FindAny(t) PROVE LocksOK'
    <2>1. CASE childCount = 0
      BY <1>10, <1>14, <2>1 DEF FindAny
    <2>2. CASE childCount # 0
      BY <1>9, <1>14, <2>2 DEF FindAny, Waiting
    <2> QED BY <2>1, <2>2
  <1>15. ASSUME NEW t \in Thread, ProcessSignaled(t) \/ SemTaken(t) \/ Take(t) \/ Remove(t)
         PROVE  LocksOK'
    BY <1>9, <1>15 DEF ProcessSignaled, SemTaken, Take, Remove, Waiting, Holding
  <1>16. ASSUME NEW t \in Thread, Interrupted(t) PROVE LocksOK'
    BY <1>10, <1>16 DEF Interrupted
  <1>17. ASSUME NEW t \in Thread, Collect(t) PROVE LocksOK'
    <2>1. CASE pc' = [u \in Thread |-> "exited"]
      BY <2>1 DEF LocksOK, Waiting, Holding
    <2>2. CASE Return(t)
      <3>1. pc'[t] = "user"
        BY <1>0, <2>2 DEF Return
      <3> QED BY <1>0, <1>17, <2>2, <3>1, LocksMove DEF Collect, Return, Waiting, Holding
    <2> QED BY <1>17, <2>1, <2>2 DEF Collect
  <1>18. CASE UNCHANGED vars
    BY <1>1, <1>18 DEF vars
  <1> QED BY <1>2, <1>3, <1>4, <1>5, <1>6, <1>7, <1>8, <1>12, <1>13, <1>14, <1>15, <1>16,
             <1>17, <1>18 DEF Next, Wait

(* Only one thread is inside wait4.                                        *)
LEMMA SoleWaiter ==
  ASSUME OneWaits, TypeInv, LocksOK, NEW t \in Thread, NEW u \in Thread,
         pc[t] \in Waiting, pc[u] \in Waiting
  PROVE  u = t
  <1>1. /\ prog.calls[t] \cap WaitCalls # {}
        /\ prog.calls[u] \cap WaitCalls # {}
    BY DEF LocksOK
  <1>2. prog \in Programs
    BY DEF TypeInv, TypeOK
  <1> QED BY <1>1, <1>2 DEF OneWaits

(* The step of one thread that leaves the lists alone.                     *)
LEMMA ListsMove ==
  ASSUME ListsOK, NEW t \in Thread, UNCHANGED <<prog, next>>,
         childCount' - clones' = childCount - clones,
         childCount \in Int, clones \in Int, childCount' \in Int, clones' \in Int,
         Cardinality(Children) \in Int,
         \A u \in Thread : u # t => /\ pc'[u] = pc[u]
                                    /\ cur'[u] = cur[u] /\ prev'[u] = prev[u],
         pc'[t] \in Holding => OnList(t)',
         pc'[t] = "wait_collect" => (cur[t] \notin Children)',
         pc'[t] = "fork_init" => Cardinality(Children) < prog.live
  PROVE  ListsOK'
  <1>1. Children' = Children
    BY DEF Children
  <1>2. Structure'
    BY <1>1 DEF ListsOK, Structure, SlotsAccounted, Apart
  <1>3. \A u \in Thread : u # t => OnList(u)' = OnList(u)
    BY DEF OnList
  <1>4. Places'
    <2> SUFFICES ASSUME NEW u \in Thread
                 PROVE  /\ pc'[u] \in Holding => OnList(u)'
                        /\ pc'[u] = "wait_collect" => (cur[u] \notin Children)'
      BY DEF Places
    <2>1. CASE u = t
      BY <2>1
    <2>2. CASE u # t
      BY <1>1, <1>3, <2>2 DEF ListsOK, Places
    <2> QED BY <2>1, <2>2
  <1>5. Room'
    BY <1>1 DEF ListsOK, Room
  <1> QED BY <1>2, <1>4, <1>5 DEF ListsOK

(* A step that changes neither the lists nor the threads.                  *)
LEMMA ListsStill ==
  ASSUME ListsOK, UNCHANGED <<prog, next, childCount, clones, pc, cur, prev>>
  PROVE  ListsOK'
  <1>1. Children' = Children
    BY DEF Children
  <1>2. \A u \in Thread : OnList(u)' = OnList(u)
    BY DEF OnList
  <1> QED BY <1>1, <1>2 DEF ListsOK, Structure, SlotsAccounted, Apart, Places, Room

(* process_init_child moves the first free slot to the child list.         *)
LEMMA ForkInitMoves ==
  ASSUME TypeInv, Structure, NEW t \in Thread, ForkInit(t)
  PROVE  LET s == next["child_freelist"] IN
         /\ s \in Slot /\ s \notin Children /\ Structure'
         /\ Children' = Children \cup {s}
         /\ Cardinality(Children') = Cardinality(Children) + 1
  <1> DEFINE s == next["child_freelist"]
             c == SlistPath(next, "child_freelist")
             g == SlistAdd(SlistRemove(next, c[1], c[2]), "child_list", c[2])
  <1>0. next \in Links /\ childCount \in Int /\ clones \in Int
    BY ChildWaitAssumption DEF TypeInv, TypeOK, Links, Node
  <1>1. s # Null /\ next' = SlistAdd(SlistRemove(next, "child_freelist", s), "child_list", s)
        /\ childCount' = childCount + 1 /\ clones' = clones
    BY DEF ForkInit
  <1>2. Len(c) \in Nat /\ Chain(next, "child_freelist", Len(c), c)
    BY <1>0, EndsChain, NodesFinite DEF Structure, Apart
  <1>3. Len(c) \in Nat /\ 2 \in 2 .. Len(c) /\ c[1] = "child_freelist" /\ c[2] = s
    <2> HIDE DEF c
    <2>1. c[1] = "child_freelist" /\ Len(c) # 0
      BY <1>2 DEF Chain
    <2>2. Len(c) # 1
      BY <1>1, <1>2, <2>1 DEF Chain
    <2>3. Len(c) \in Nat /\ 1 \in 1 .. Len(c) /\ 1 < Len(c) /\ 2 \in 2 .. Len(c)
      <3>1. ASSUME NEW m \in Nat, m # 0, m # 1
            PROVE  1 \in 1 .. m /\ 1 < m /\ 2 \in 2 .. m
        BY <3>1
      <3> QED BY <1>2, <2>1, <2>2, <3>1
    <2>4. c[1 + 1] = next[c[1]]
      BY <1>2, <2>3 DEF Chain
    <2> QED BY <2>1, <2>3, <2>4
  <1>4. Apart(next, "child_freelist", "child_list")
    BY DEF Structure, Apart
  <1>5. /\ "child_freelist" \in Heads /\ "child_list" \in Heads
        /\ "child_freelist" # "child_list" /\ 2 - 1 = 1
    BY DEF Heads
  <1>6. /\ g \in Links
        /\ Apart(g, "child_freelist", "child_list")
        /\ SlistNodes(g, "child_freelist") = SlistNodes(next, "child_freelist") \ {c[2]}
        /\ SlistNodes(g, "child_list") = SlistNodes(next, "child_list") \cup {c[2]}
        /\ c[2] \in SlistNodes(next, "child_freelist") /\ c[2] \in Slot
    BY <1>0, <1>3, <1>4, <1>5, MoveSlot
  <1>7. next' = g
    BY <1>1, <1>3
  <1> HIDE DEF g, c, s
  <1>8. Children' = Children \cup {s} /\ s \in Slot /\ s \notin Children
    BY <1>3, <1>4, <1>6, <1>7 DEF Children, Apart
  <1>9. IsFiniteSet(Children) /\ Cardinality(Children) \in Nat
    BY <1>0, NodesAreSlots, NodesFinite DEF Children
  <1>10. Cardinality(Children') = Cardinality(Children) + 1
    BY <1>8, <1>9, FS_AddElement
  <1>11. SlotsAccounted'
    <2>1. (Children \cup SlistNodes(next, "child_freelist"))' = Slot
      BY <1>3, <1>6, <1>7, <1>8 DEF Structure, SlotsAccounted, Children
    <2>2. (Children \cap SlistNodes(next, "child_freelist"))' = {}
      BY <1>6, <1>7 DEF Apart, Children
    <2>3. (childCount = Cardinality(Children) + clones)'
      BY <1>0, <1>1, <1>9, <1>10 DEF Structure, SlotsAccounted
    <2> QED BY <2>1, <2>2, <2>3 DEF SlotsAccounted
  <1>12. Structure'
    BY <1>6, <1>7, <1>11 DEF Structure, Apart
  <1> QED BY <1>8, <1>10, <1>12 DEF s

(* process_wait moves the child it has found to the free list.             *)
LEMMA RemoveMoves ==
  ASSUME TypeInv, Structure, NEW t \in Thread, Remove(t), OnList(t)
  PROVE  /\ cur[t] \in Children /\ Structure'
         /\ Children' = Children \ {cur[t]}
         /\ Cardinality(Children') = Cardinality(Children) - 1
  <1> DEFINE s == cur[t]
             c == SlistPath(next, "child_list")
  <1>0. next \in Links /\ childCount \in Int /\ clones \in Int
    BY ChildWaitAssumption DEF TypeInv, TypeOK, Links, Node
  <1>1. next' = SlistAdd(SlistRemove(next, prev[t], s), "child_freelist", s)
        /\ childCount' = childCount - 1 /\ clones' = clones
    BY DEF Remove, world
  <1>2. PICK i \in 2 .. Len(c) : s = c[i] /\ prev[t] = c[i - 1]
    BY DEF OnList
  <1> DEFINE g == SlistAdd(SlistRemove(next, c[i - 1], c[i]), "child_freelist", c[i])
  <1>4. Apart(next, "child_list", "child_freelist")
    BY DEF Structure
  <1>5. /\ "child_freelist" \in Heads /\ "child_list" \in Heads
        /\ "child_freelist" # "child_list"
    BY DEF Heads
  <1>6. /\ g \in Links
        /\ Apart(g, "child_list", "child_freelist")
        /\ SlistNodes(g, "child_list") = SlistNodes(next, "child_list") \ {c[i]}
        /\ SlistNodes(g, "child_freelist") = SlistNodes(next, "child_freelist") \cup {c[i]}
        /\ c[i] \in SlistNodes(next, "child_list") /\ c[i] \in Slot
    BY <1>0, <1>2, <1>4, <1>5, MoveSlot
  <1>7. next' = g
    BY <1>1, <1>2
  <1> HIDE DEF g, c, s
  <1>8. Children' = Children \ {s} /\ s \in Children
    BY <1>2, <1>6, <1>7 DEF Children
  <1>9. IsFiniteSet(Children) /\ Cardinality(Children) \in Nat
    BY <1>0, NodesAreSlots, NodesFinite DEF Children
  <1>10. Cardinality(Children') = Cardinality(Children) - 1
    BY <1>8, <1>9, FS_RemoveElement
  <1>11. SlotsAccounted'
    <2>1. (Children \cup SlistNodes(next, "child_freelist"))' = Slot
      BY <1>2, <1>6, <1>7, <1>8 DEF Structure, SlotsAccounted, Children
    <2>2. (Children \cap SlistNodes(next, "child_freelist"))' = {}
      BY <1>6, <1>7 DEF Apart, Children
    <2>3. (childCount = Cardinality(Children) + clones)'
      BY <1>0, <1>1, <1>9, <1>10 DEF Structure, SlotsAccounted
    <2> QED BY <2>1, <2>2, <2>3 DEF SlotsAccounted
  <1>12. Structure'
    BY <1>6, <1>7, <1>11 DEF Structure
  <1> QED BY <1>8, <1>10, <1>12 DEF s

(* A search leaves the thread where the child it has found is.             *)
LEMMA FindPlaces ==
  ASSUME TypeInv, NEW t \in Thread, NEW S, NEW to, FindIn(t, S, to)
  PROVE  /\ OnList(t)' /\ cur'[t] \in S /\ pc' = [pc EXCEPT ![t] = to]
         /\ UNCHANGED <<world, shared, lists, locks, sem, sigvars, call, want>>
         /\ \A u \in Thread : u # t => cur'[u] = cur[u] /\ prev'[u] = prev[u]
  <1> DEFINE w == SlistPath(next, "child_list")
  <1>1. PICK i \in 2 .. Len(w) :
          /\ w[i] \in S
          /\ cur' = [cur EXCEPT ![t] = w[i]] /\ prev' = [prev EXCEPT ![t] = w[i - 1]]
    BY DEF FindIn
  <1>2. /\ pc' = [pc EXCEPT ![t] = to]
        /\ UNCHANGED <<world, shared, lists, locks, sem, sigvars, call, want>>
    BY DEF FindIn
  <1>3. next' = next
    BY <1>2 DEF lists
  <1> HIDE DEF w
  <1>4. cur'[t] = w[i] /\ prev'[t] = w[i - 1]
        /\ \A u \in Thread : u # t => cur'[u] = cur[u] /\ prev'[u] = prev[u]
    BY <1>1 DEF TypeInv, TypeOK
  <1>5. OnList(t)'
    BY <1>1, <1>3, <1>4 DEF OnList, w
  <1> QED BY <1>1, <1>2, <1>4, <1>5

(* Every step keeps both lists, the places of the threads on them and      *)
(* the room for another child, if one thread at a time is in wait4.        *)
LEMMA ListsStep ==
  OneWaits /\ TypeInv /\ TypeInv' /\ LocksOK /\ ListsOK /\ [Next]_vars => ListsOK'
  <1> SUFFICES ASSUME OneWaits, TypeInv, TypeInv', LocksOK, ListsOK, [Next]_vars PROVE ListsOK'
    OBVIOUS
  <1> USE DEF Goto, world, shared, lists, locks, sigvars, locals
  <1>0. /\ pc \in [Thread -> {"user", "exited", "fork_init", "fork_done", "wait_find",
                              "wait_process", "wait_sem", "wait_search", "wait_take",
                              "wait_remove", "wait_collect"}]
        /\ Null \notin Thread /\ next \in Links
        /\ childCount \in Int /\ clones \in Int /\ childCount' \in Int /\ clones' \in Int
        /\ prog.live \in Nat
    BY ChildWaitAssumption DEF TypeInv, TypeOK, Links, Node
  <1>01. Cardinality(Children) \in Nat
    BY <1>0, NodesAreSlots, NodesFinite DEF Children
  <1>1. ASSUME NEW t \in Thread, UNCHANGED <<prog, next, childCount, clones, cur, prev>>,
               NEW to, pc' = [pc EXCEPT ![t] = to],
               to \in Holding => pc[t] \in Holding,
               to = "wait_collect" => pc[t] = "wait_collect",
               to = "fork_init" => Cardinality(Children) < prog.live
        PROVE  ListsOK'
    <2>1. pc'[t] = to /\ \A u \in Thread : u # t => pc'[u] = pc[u]
      BY <1>0, <1>1
    <2>2. to \in Holding => OnList(t)'
      BY <1>1 DEF ListsOK, Places, OnList
    <2>3. to = "wait_collect" => (cur[t] \notin Children)'
      BY <1>1 DEF ListsOK, Places, Children
    <2> QED BY <1>0, <1>01, <1>1, <2>1, <2>2, <2>3, ListsMove
  <1>2. ASSUME NEW k \in Child, ChildExit(k) \/ ChildKilled(k) PROVE ListsOK'
    BY <1>2, ListsStill DEF ChildExit, ChildKilled
  <1>3. ASSUME SignalThread PROVE ListsOK'
    BY <1>3, ListsStill
       DEF SignalThread, AddProcess, ChildDied, ClosePipe, SendSigchld, Mark, ReleaseSem
  <1>4. ASSUME NEW t \in Thread, ForkEnter(t) \/ ForkDone(t) PROVE ListsOK'
    BY <1>1, <1>4 DEF ForkEnter, ForkDone, Holding
  <1>5. ASSUME NEW t \in Thread, ForkInit(t) PROVE ListsOK'
    <2>1. Structure' /\ Cardinality(Children') = Cardinality(Children) + 1
      BY <1>5, ForkInitMoves DEF ListsOK
    <2>2. \A u \in Thread : pc[u] \notin Waiting
      BY <1>5 DEF ForkInit, LocksOK
    <2>3. pc'[t] = "fork_done" /\ \A u \in Thread : u # t => pc'[u] = pc[u]
      BY <1>0, <1>5 DEF ForkInit
    <2>4. Places'
      BY <2>2, <2>3 DEF Places, Waiting, Holding
    <2>5. \A u \in Thread : pc[u] = "fork_init" => u = t
      BY <1>5 DEF ForkInit, LocksOK
    <2>6. Room'
      <3>1. Cardinality(Children) < prog.live /\ prog' = prog
        BY <1>5 DEF ForkInit, ListsOK, Room
      <3> QED BY <1>0, <1>01, <2>1, <2>3, <2>5, <3>1 DEF Room
    <2> QED BY <2>1, <2>4, <2>6 DEF ListsOK
  <1>6. ASSUME NEW t \in Thread, Clone(t) PROVE ListsOK'
    <2>1. childCount' - clones' = childCount - clones
      BY <1>0, <1>6 DEF Clone
    <2>2. UNCHANGED <<prog, next, pc, cur, prev>> /\ pc[t] = "user"
      BY <1>6 DEF Clone
    <2>3. pc'[t] = "user" /\ \A u \in Thread : u # t => pc'[u] = pc[u]
      BY <2>2
    <2>4. /\ UNCHANGED <<prog, next>>
          /\ \A u \in Thread : u # t => /\ pc'[u] = pc[u]
                                       /\ cur'[u] = cur[u] /\ prev'[u] = prev[u]
      BY <2>2
    <2>5. /\ pc'[t] \in Holding => OnList(t)'
          /\ pc'[t] = "wait_collect" => (cur[t] \notin Children)'
          /\ pc'[t] = "fork_init" => Cardinality(Children) < prog.live
      BY <2>3 DEF Holding
    <2>6. Cardinality(Children) \in Int
      BY <1>01
    <2> QED BY <1>0, <2>1, <2>4, <2>5, <2>6, ListsMove
  <1>7. ASSUME NEW t \in Thread, WaitEnter(t) PROVE ListsOK'
    <2>1. pc' = [pc EXCEPT ![t] = "wait_find"]
          /\ UNCHANGED <<prog, next, childCount, clones, cur, prev>>
      BY <1>7 DEF WaitEnter
    <2> QED BY <1>1, <2>1 DEF Holding
  <1>8. ASSUME NEW t \in Thread, Leave(t) PROVE ListsOK'
    BY <1>1, <1>8 DEF Leave, Return, Holding
  <1>9. ASSUME NEW t \in Thread, NEW S, NEW to \in Holding, FindIn(t, S, to) PROVE ListsOK'
    <2>1. /\ OnList(t)' /\ pc' = [pc EXCEPT ![t] = to]
          /\ UNCHANGED <<world, shared, lists, locks, sem, sigvars, call, want>>
          /\ \A u \in Thread : u # t => cur'[u] = cur[u] /\ prev'[u] = prev[u]
      BY <1>9, FindPlaces
    <2>2. pc'[t] = to /\ \A u \in Thread : u # t => pc'[u] = pc[u]
      BY <1>0, <2>1
    <2> QED BY <1>0, <1>01, <2>1, <2>2, ListsMove DEF Holding
  <1>10. ASSUME NEW t \in Thread, FindPid(t) PROVE ListsOK'
    BY <1>8, <1>9, <1>10 DEF FindPid, Holding
  <1>11. ASSUME NEW t \in Thread, Search(t) PROVE ListsOK'
    BY <1>8, <1>9, <1>11 DEF Search, Holding
  <1>12. ASSUME NEW t \in Thread, FindAny(t) PROVE ListsOK'
    <2>1. CASE childCount = 0
      BY <1>8, <1>12, <2>1 DEF FindAny
    <2>2. CASE childCount # 0
      BY <1>1, <1>12, <2>2 DEF FindAny, Holding
    <2> QED BY <2>1, <2>2
  <1>13. ASSUME NEW t \in Thread, ProcessSignaled(t) \/ SemTaken(t) \/ Take(t) PROVE ListsOK'
    BY <1>1, <1>13 DEF ProcessSignaled, SemTaken, Take, Holding
  <1>14. ASSUME NEW t \in Thread, Interrupted(t) PROVE ListsOK'
    BY <1>8, <1>14 DEF Interrupted
  <1>15. ASSUME NEW t \in Thread, Remove(t) PROVE ListsOK'
    <2>0. pc[t] = "wait_remove" /\ OnList(t)
      BY <1>15 DEF Remove, ListsOK, Places, Holding
    <2>1. Structure' /\ Children' = Children \ {cur[t]}
          /\ Cardinality(Children') = Cardinality(Children) - 1
      BY <1>15, <2>0, RemoveMoves DEF ListsOK
    <2>2. \A u \in Thread : u # t => pc[u] \notin Waiting
      BY <2>0, SoleWaiter DEF Waiting, Holding
    <2>3. pc'[t] = "wait_collect" /\ \A u \in Thread : u # t => pc'[u] = pc[u]
      BY <1>0, <1>15 DEF Remove
    <2>4. UNCHANGED <<prog, cur, prev>>
      BY <1>15 DEF Remove
    <2>5. Places'
      BY <2>1, <2>2, <2>3, <2>4 DEF Places, Waiting, Holding
    <2>6. Room'
      BY <1>0, <1>01, <2>1, <2>3, <2>4 DEF ListsOK, Room
    <2> QED BY <2>1, <2>5, <2>6 DEF ListsOK
  <1>16. ASSUME NEW t \in Thread, Collect(t) PROVE ListsOK'
    <2>1. CASE pc' = [u \in Thread |-> "exited"]
      <3>1. UNCHANGED <<prog, next, childCount, clones>>
        BY <1>16 DEF Collect
      <3>2. Structure' /\ Children' = Children
        BY <3>1 DEF ListsOK, Structure, SlotsAccounted, Apart, Children
      <3> QED BY <2>1, <3>1, <3>2 DEF ListsOK, Places, Room, Holding
    <2>2. CASE Return(t)
      BY <1>1, <1>16, <2>2 DEF Collect, Return, Holding
    <2> QED BY <1>16, <2>1, <2>2 DEF Collect
  <1>17. CASE UNCHANGED vars
    BY <1>17, ListsStill DEF vars
  <1> QED BY <1>2, <1>3, <1>4, <1>5, <1>6, <1>7, <1>10, <1>11, <1>12, <1>13, <1>14, <1>15, <1>16,
             <1>17 DEF Next, Wait

(* SlotsAccounted of ChildWait, as long as one thread at a time is inside  *)
(* wait4: every child structure is on exactly one of child_list and        *)
(* child_freelist, however forks, clones, waits and deaths are interleaved,*)
(* and child_count is the length of child_list and the threads created.    *)
THEOREM SlotsSafe == OneWaits => (Spec => []SlotsAccounted)
  <1> SUFFICES ASSUME OneWaits PROVE Spec => []SlotsAccounted
    OBVIOUS
  <1>1. Init => TypeInv /\ LocksOK /\ ListsOK
    BY TypeInit, ListsInit
  <1>2. (TypeInv /\ LocksOK /\ ListsOK) /\ [Next]_vars => (TypeInv /\ LocksOK /\ ListsOK)'
    BY TypeStep, LocksStep, ListsStep
  <1>3. TypeInv /\ LocksOK /\ ListsOK => SlotsAccounted
    BY DEF ListsOK, Structure
  <1> QED BY <1>1, <1>2, <1>3, PTL DEF Spec

-----------------------------------------------------------------------------
(* Deaths. *)

(* The structures that stand for a child: those on the list and the one    *)
(* whose exit status is being collected.                                   *)
Collected == {cur[t] : t \in {u \in Thread : pc[u] = "wait_collect"}}
Held == Children \cup Collected

(* A structure stands for a child that has a used slot of the process      *)
(* table, with the exit code of that very child once it is a zombie.       *)
Stands(s) ==
  LET k == slot[s].hProcess IN
  /\ k \in 1 .. forked
  /\ pidOf[k] \in Pid /\ slot[s].pid = pidOf[k]
  /\ slot[s].hPipe \in {0, k}
  /\ status[pidOf[k]] # "NOTEXIST"
  /\ status[pidOf[k]] = "ZOMBIE" => code[pidOf[k]] = k

(* Each of them for another child, every living child having its own.      *)
KidsOK ==
  /\ \A s \in Held : Stands(s)
  /\ \A s, r \in Held :
       slot[s].pid = slot[r].pid \/ slot[s].hProcess = slot[r].hProcess => s = r
  /\ \A k \in alive : k \in 1 .. forked /\ \E s \in Children : slot[s].hProcess = k

(* What is marked terminated is dead, and a thread about to remove a child *)
(* has found a marked one.                                                 *)
MarksOK ==
  /\ \A s \in Terminated : slot[s].hProcess \notin alive
  /\ \A t \in Thread :
       /\ pc[t] = "wait_process" => call[t] \in PidCalls
       /\ pc[t] = "wait_sem" => ~NoHang(t)
       /\ pc[t] = "wait_take" => slot[cur[t]].terminated \/ call[t] \in PidCalls
       /\ pc[t] = "wait_remove" => slot[cur[t]].terminated

(* The death of a child that is not marked yet is announced at most once:  *)
(* by the packet that tells the signal thread to watch its pipe, by the    *)
(* read pending on the pipe, by its completion, or by its being handled.   *)
Handled == IF sigPc \in {"close", "sigchld", "mark"} THEN {sigSlot} ELSE {}
Entries(q) == {q[i] : i \in 1 .. Len(q)}
Once(q) == \A i, j \in 1 .. Len(q) : q[i] = q[j] => i = j

NewsOK ==
  /\ Once(packets) /\ Once(iocp)
  /\ Entries(packets) \subseteq Children \ Terminated
  /\ Entries(iocp) \subseteq Children \ Terminated
  /\ Handled \subseteq Children \ Terminated
  /\ Entries(packets) \cap Entries(iocp) = {}
  /\ Handled \cap Entries(packets) = {} /\ Handled \cap Entries(iocp) = {}
  /\ \A s \in Entries(packets) : slot[s].hPipe = slot[s].hProcess
  /\ \A s \in Entries(iocp) : slot[s].hProcess \notin alive
  /\ \A s \in Handled : slot[s].hProcess \notin alive
  /\ \A k \in Child : watch[k] # Null =>
       /\ k \in alive /\ watch[k] \in Children \ Terminated
       /\ watch[k] \notin Entries(packets) /\ slot[watch[k]].hProcess = k

DeathInv == KidsOK /\ MarksOK /\ NewsOK /\ SemMatches

(* The threads that have taken a unit for a child not yet removed.         *)
Pend(t) == pc[t] = "wait_remove" \/ (pc[t] = "wait_search" /\ ~NoHang(t))
Pending == {t \in Thread : Pend(t)}
Released == IF sigPc = "release" THEN 1 ELSE 0

(* SemMatches in these terms.                                              *)
LEMMA SemForm == SemMatches <=> sem + Released + Cardinality(Pending) = Cardinality(Terminated)
  BY DEF SemMatches, Pending, Pend, Released

(* Appending to a queue what is not in it.                                 *)
LEMMA AppendEntries ==
  ASSUME NEW q \in Seq(Slot), NEW s \in Slot, s \notin Entries(q), Once(q)
  PROVE  Entries(Append(q, s)) = Entries(q) \cup {s} /\ Once(Append(q, s))
  <1>1. Len(q) \in Nat /\ Len(Append(q, s)) = Len(q) + 1
    OBVIOUS
  <1>2. \A i \in 1 .. Len(q) + 1 :
          Append(q, s)[i] = IF i = Len(q) + 1 THEN s ELSE q[i]
    BY <1>1
  <1> DEFINE a == Append(q, s)
  <1> HIDE DEF a
  <1>3. \A i \in 1 .. Len(q) + 1 : i = Len(q) + 1 \/ i \in 1 .. Len(q)
    BY <1>1
  <1>4. \A i \in 1 .. Len(q) : i \in 1 .. Len(q) + 1 /\ i # Len(q) + 1
    BY <1>1
  <1>5. Len(q) + 1 \in 1 .. Len(q) + 1
    BY <1>1
  <1>6. Len(a) = Len(q) + 1 /\ \A i \in 1 .. Len(q) + 1 : a[i] = IF i = Len(q) + 1 THEN s ELSE q[i]
    BY <1>1, <1>2 DEF a
  <1>7. Entries(a) = Entries(q) \cup {s}
    BY <1>3, <1>4, <1>5, <1>6 DEF Entries
  <1>8. Once(a)
    BY <1>3, <1>6 DEF Once, Entries
  <1> QED BY <1>7, <1>8 DEF a

(* What is left of a queue when its first entry is taken.                  *)
LEMMA TailEntries ==
  ASSUME NEW q \in Seq(Slot), q # << >>, Once(q)
  PROVE  /\ Head(q) \in Entries(q) /\ Head(q) \in Slot
         /\ Entries(Tail(q)) = Entries(q) \ {Head(q)} /\ Once(Tail(q))
  <1>1. Len(q) \in Nat /\ Len(q) # 0 /\ Head(q) = q[1] /\ Head(q) \in Slot
        /\ Len(Tail(q)) = Len(q) - 1
    OBVIOUS
  <1>2. \A i \in 1 .. Len(q) - 1 : Tail(q)[i] = q[i + 1]
    BY <1>1
  <1> DEFINE a == Tail(q)
             n == Len(q)
  <1>3. Len(a) = n - 1 /\ n \in Nat /\ n # 0 /\ Head(q) = q[1] /\ \A i \in 1 .. n - 1 : a[i] = q[i + 1]
    BY <1>1, <1>2
  <1> HIDE DEF a, n
  <1>4. \A i \in 1 .. n - 1 : i + 1 \in 1 .. n /\ i + 1 # 1
    BY <1>3
  <1>5. \A i \in 1 .. n : i # 1 => i - 1 \in 1 .. n - 1 /\ (i - 1) + 1 = i
    BY <1>3
  <1>6. 1 \in 1 .. n
    BY <1>3
  <1>7. \A i, j \in 1 .. n : q[i] = q[j] => i = j
    BY DEF Once, n
  <1>8. \A i \in 1 .. n : i # 1 => q[i] = a[i - 1] /\ q[i] # q[1]
    BY <1>3, <1>5, <1>6, <1>7
  <1>9. Entries(a) = Entries(q) \ {q[1]}
    <2>1. Entries(a) = {a[i] : i \in 1 .. n - 1} /\ Entries(q) = {q[i] : i \in 1 .. n}
      BY <1>3 DEF Entries, n
    <2>2. \A i \in 1 .. n - 1 : a[i] \in Entries(q) /\ a[i] # q[1]
      BY <1>3, <1>4, <1>6, <1>7, <2>1
    <2>3. \A i \in 1 .. n : q[i] # q[1] => q[i] \in Entries(a)
      BY <1>5, <1>8, <2>1
    <2> QED BY <2>1, <2>2, <2>3
  <1>10. Once(a)
    <2>1. ASSUME NEW i \in 1 .. n - 1, NEW j \in 1 .. n - 1, a[i] = a[j] PROVE i = j
      <3>1. i + 1 = j + 1
        BY <1>3, <1>4, <1>7, <2>1
      <3> QED BY <1>3, <3>1
    <2> QED BY <1>3, <2>1 DEF Once
  <1>11. Head(q) \in Entries(q)
    BY <1>3, <1>6 DEF Entries, n
  <1> QED BY <1>1, <1>3, <1>9, <1>10, <1>11 DEF a

(* Children and the marked among them are finitely many slots.             *)
LEMMA Finitely ==
  ASSUME TypeInv
  PROVE  /\ Children \subseteq Slot /\ IsFiniteSet(Children) /\ Cardinality(Children) \in Nat
         /\ Terminated \subseteq Children
         /\ IsFiniteSet(Terminated) /\ Cardinality(Terminated) \in Nat
  <1>1. next \in Links
    BY DEF TypeInv, TypeOK, Links, Node
  <1>2. Children \subseteq Slot /\ IsFiniteSet(Children) /\ Cardinality(Children) \in Nat
    BY <1>1, NodesAreSlots, NodesFinite DEF Children
  <1>3. Terminated \subseteq Children
    BY DEF Terminated
  <1>4. IsFiniteSet(Terminated)
    BY <1>2, <1>3, FS_Subset
  <1> QED BY <1>2, <1>3, <1>4, FS_CardinalityType

(* The step of the thread inside wait4: no other thread is in wait4, so    *)
(* only it can be pending.                                                 *)
LEMMA PendingMove ==
  ASSUME OneWaits, TypeInv, LocksOK, LocksOK', NEW t \in Thread, prog' = prog,
         pc[t] \in Waiting \/ pc'[t] \in Waiting,
         \A u \in Thread : u # t => pc'[u] = pc[u] /\ call'[u] = call[u]
  PROVE  /\ Cardinality(Pending) = IF Pend(t) THEN 1 ELSE 0
         /\ Cardinality(Pending') = IF Pend(t)' THEN 1 ELSE 0
         /\ \A u \in Thread : u # t => pc[u] \notin Waiting
  <1>1. \A u \in Thread : u # t => pc[u] \notin Waiting
    <2>1. CASE pc[t] \in Waiting
      BY <2>1, SoleWaiter
    <2>2. CASE pc'[t] \in Waiting
      <3> SUFFICES ASSUME NEW u \in Thread, u # t, pc[u] \in Waiting PROVE FALSE
        OBVIOUS
      <3>1. prog.calls[t] \cap WaitCalls # {} /\ prog.calls[u] \cap WaitCalls # {}
        BY <2>2 DEF LocksOK
      <3>2. prog \in Programs
        BY DEF TypeInv, TypeOK
      <3> QED BY <3>1, <3>2 DEF OneWaits
    <2> QED BY <2>1, <2>2
  <1>2. \A u \in Thread : u # t => ~Pend(u) /\ ~Pend(u)'
    BY <1>1 DEF Pend, Waiting, Holding
  <1>3. Cardinality({}) = 0 /\ Cardinality({t}) = 1
    BY FS_EmptySet, FS_Singleton
  <1>4. Pending = IF Pend(t) THEN {t} ELSE {}
    BY <1>2 DEF Pending
  <1>5. Pending' = IF Pend(t)' THEN {t} ELSE {}
    BY <1>2 DEF Pending
  <1> QED BY <1>1, <1>3, <1>4, <1>5

(* At most one thread has taken a unit and not yet used it.                *)
LEMMA PendingFew ==
  ASSUME OneWaits, TypeInv, LocksOK
  PROVE  Cardinality(Pending) \in Nat
  <1>1. CASE Pending = {}
    BY <1>1, FS_EmptySet
  <1>2. CASE Pending # {}
    <2>1. PICK t \in Thread : Pend(t)
      BY <1>2 DEF Pending
    <2>2. \A u \in Thread : Pend(u) => u = t
      BY <2>1, SoleWaiter DEF Pend, Waiting, Holding
    <2>3. Pending = {t}
      BY <2>1, <2>2 DEF Pending
    <2> QED BY <2>3, FS_Singleton
  <1> QED BY <1>1, <1>2

(* Initially there is no child, and nothing to tell about one.             *)
LEMMA DeathInit == Init => DeathInv
  <1> SUFFICES ASSUME Init PROVE DeathInv
    OBVIOUS
  <1>1. (\A t \in Thread : pc[t] = "user") /\ alive = {} /\ sigPc = "idle" /\ sem = 0
        /\ packets = << >> /\ iocp = << >> /\ watch = [k \in Child |-> Null]
    BY DEF Init
  <1>2. Children = {}
    BY InitialLists DEF Init, Children
  <1>3. Held = {} /\ Terminated = {} /\ Pending = {} /\ Handled = {} /\ Released = 0
    BY <1>1, <1>2 DEF Held, Collected, Terminated, Pending, Pend, Handled, Released
  <1>4. KidsOK
    BY <1>1, <1>3 DEF KidsOK
  <1>5. MarksOK
    BY <1>1, <1>3 DEF MarksOK
  <1>6. Entries(packets) = {} /\ Entries(iocp) = {} /\ Once(packets) /\ Once(iocp)
    BY <1>1 DEF Entries, Once
  <1>7. NewsOK
    BY <1>1, <1>3, <1>6 DEF NewsOK
  <1>8. SemMatches
    BY <1>1, <1>3, SemForm, FS_EmptySet
  <1> QED BY <1>4, <1>5, <1>7, <1>8 DEF DeathInv

(* A step of one thread, elsewhere than at the end of process_wait, that   *)
(* only moves it, and may take a unit.                                     *)
LEMMA DeathMove ==
  ASSUME DeathInv, NEW t \in Thread,
         UNCHANGED <<alive, pidOf, forked, status, code, next, slot,
                     packets, watch, iocp, sigPc, sigSlot>>,
         \A u \in Thread : u # t => pc'[u] = pc[u] /\ call'[u] = call[u] /\ cur'[u] = cur[u],
         pc[t] # "wait_collect", pc'[t] # "wait_collect",
         pc'[t] = "wait_process" => call'[t] \in PidCalls,
         pc'[t] = "wait_sem" => NoHang(t)' = FALSE,
         pc'[t] = "wait_take" => slot[cur'[t]].terminated \/ call'[t] \in PidCalls,
         pc'[t] = "wait_remove" => slot[cur'[t]].terminated,
         SemMatches'
  PROVE  DeathInv'
  <1>1. Children' = Children
    BY DEF Children
  <1>2. Collected' = Collected
    BY DEF Collected
  <1>3. Held' = Held /\ Terminated' = Terminated /\ Handled' = Handled
    BY <1>1, <1>2 DEF Held, Terminated, Handled
  <1>4. KidsOK'
    BY <1>1, <1>3 DEF DeathInv, KidsOK, Stands
  <1>5. MarksOK'
    <2>1. \A s \in Terminated' : slot'[s].hProcess \notin alive'
      BY <1>3 DEF DeathInv, MarksOK
    <2>2. ASSUME NEW u \in Thread
          PROVE  /\ pc'[u] = "wait_process" => call'[u] \in PidCalls
                 /\ pc'[u] = "wait_sem" => ~NoHang(u)'
                 /\ pc'[u] = "wait_take" => slot'[cur'[u]].terminated \/ call'[u] \in PidCalls
                 /\ pc'[u] = "wait_remove" => slot'[cur'[u]].terminated
      <3>1. CASE u = t
        BY <3>1
      <3>2. CASE u # t
        BY <3>2 DEF DeathInv, MarksOK, NoHang
      <3> QED BY <3>1, <3>2
    <2> QED BY <2>1, <2>2 DEF MarksOK
  <1>6. NewsOK'
    BY <1>1, <1>3 DEF DeathInv, NewsOK
  <1> QED BY <1>4, <1>5, <1>6 DEF DeathInv

(* The same, when no unit is taken, given or due.                          *)
LEMMA DeathWalk ==
  ASSUME DeathInv, NEW t \in Thread,
         UNCHANGED <<alive, pidOf, forked, status, code, next, slot, sem,
                     packets, watch, iocp, sigPc, sigSlot>>,
         \A u \in Thread : u # t => pc'[u] = pc[u] /\ call'[u] = call[u] /\ cur'[u] = cur[u],
         pc[t] # "wait_collect", pc'[t] # "wait_collect",
         pc'[t] = "wait_process" => call'[t] \in PidCalls,
         pc'[t] = "wait_sem" => NoHang(t)' = FALSE,
         pc'[t] = "wait_take" => slot[cur'[t]].terminated \/ call'[t] \in PidCalls,
         pc'[t] = "wait_remove" => slot[cur'[t]].terminated,
         Pend(t)' = Pend(t)
  PROVE  DeathInv'
  <1>1. Terminated' = Terminated /\ Released' = Released
    BY DEF Terminated, Children, Released
  <1>2. Pending' = Pending
    <2>1. \A u \in Thread : u # t => Pend(u)' = Pend(u)
      BY DEF Pend, NoHang
    <2> QED BY <2>1 DEF Pending
  <1>3. SemMatches'
    BY <1>1, <1>2, SemForm DEF DeathInv, SemMatches, Pending, Pend, Released
  <1> QED BY <1>3, DeathMove

(* The first steps of process_wait, up to the wait for a death.            *)
LEMMA DeathSearch ==
  ASSUME OneWaits, TypeInv, LocksOK, LocksOK', DeathInv, NEW t \in Thread,
         \/ ForkEnter(t) \/ ForkDone(t) \/ Clone(t) \/ WaitEnter(t) \/ FindPid(t)
         \/ ProcessSignaled(t) \/ FindAny(t) \/ Interrupted(t) \/ Search(t)
  PROVE  DeathInv'
  <1> USE DEF Goto, world, shared, lists, locks, sigvars, locals
  <1>0. /\ pc \in [Thread -> {"user", "exited", "fork_init", "fork_done", "wait_find",
                              "wait_process", "wait_sem", "wait_search", "wait_take",
                              "wait_remove", "wait_collect"}]
        /\ call \in [Thread -> CallName] /\ sem \in Nat
    BY DEF TypeInv, TypeOK
  <1> DEFINE Same == /\ UNCHANGED <<alive, pidOf, forked, status, code, next, slot, sem,
                                    packets, watch, iocp, sigPc, sigSlot>>
                     /\ \A u \in Thread : u # t => /\ pc'[u] = pc[u] /\ call'[u] = call[u]
                                                   /\ cur'[u] = cur[u]
  <1>1. ASSUME Same, NEW from, NEW to, pc[t] = from, pc'[t] = to,
               from \in {"user", "fork_init", "fork_done", "wait_find", "wait_process", "wait_sem"},
               to \in {"user", "fork_init", "fork_done", "wait_find"}
        PROVE  DeathInv'
    <2>1. Pend(t)' = Pend(t)
      BY <1>1 DEF Pend
    <2> QED BY <1>1, <2>1, DeathWalk
  <1>2. CASE ForkEnter(t)
    <2>1. Same /\ pc[t] = "user" /\ pc'[t] = "fork_init"
      BY <1>0, <1>2 DEF ForkEnter
    <2> QED BY <1>1, <2>1
  <1>3. CASE ForkDone(t)
    <2>1. Same /\ pc[t] = "fork_done" /\ pc'[t] = "user"
      BY <1>0, <1>3 DEF ForkDone
    <2> QED BY <1>1, <2>1
  <1>4. CASE Clone(t)
    <2>1. Same /\ pc[t] = "user" /\ pc'[t] = "user"
      BY <1>0, <1>4 DEF Clone
    <2> QED BY <1>1, <2>1
  <1>5. CASE WaitEnter(t)
    <2>1. Same /\ pc[t] = "user" /\ pc'[t] = "wait_find"
      BY <1>0, <1>5 DEF WaitEnter
    <2> QED BY <1>1, <2>1
  <1>6. ASSUME Leave(t), pc[t] \in {"wait_find", "wait_process", "wait_sem"} PROVE DeathInv'
    <2>1. Same /\ pc'[t] = "user"
      BY <1>0, <1>6 DEF Leave, Return
    <2> QED BY <1>1, <1>6, <2>1
  <1>7. CASE Interrupted(t)
    BY <1>6, <1>7 DEF Interrupted
  <1>8. CASE ProcessSignaled(t)
    <2>1. Same /\ pc[t] = "wait_process" /\ pc'[t] = "wait_take" /\ call'[t] = call[t]
      BY <1>0, <1>8 DEF ProcessSignaled
    <2>2. call[t] \in PidCalls
      BY <2>1 DEF DeathInv, MarksOK
    <2>3. Pend(t)' = Pend(t)
      BY <2>1 DEF Pend
    <2> QED BY <2>1, <2>2, <2>3, DeathWalk
  <1>9. CASE FindAny(t)
    <2>1. CASE childCount = 0
      BY <1>6, <1>9, <2>1 DEF FindAny
    <2>2. CASE childCount # 0
      <3>1. Same /\ pc[t] = "wait_find" /\ call'[t] = call[t]
            /\ pc'[t] = IF NoHang(t) THEN "wait_search" ELSE "wait_sem"
        BY <1>0, <1>9, <2>2 DEF FindAny
      <3>2. NoHang(t)' = NoHang(t)
        BY <3>1 DEF NoHang
      <3>3. Pend(t)' = Pend(t) /\ (pc'[t] = "wait_sem" => NoHang(t)' = FALSE)
        BY <3>1, <3>2 DEF Pend, NoHang
      <3> QED BY <3>1, <3>3, DeathWalk
    <2> QED BY <2>1, <2>2
  <1>10. CASE FindPid(t)
    <2>1. ASSUME NEW S, NEW to \in {"wait_process", "wait_take"}, FindIn(t, S, to)
          PROVE  DeathInv'
      <3>1. /\ cur'[t] \in S /\ pc' = [pc EXCEPT ![t] = to]
            /\ UNCHANGED <<world, shared, lists, locks, sem, sigvars, call, want>>
            /\ \A u \in Thread : u # t => cur'[u] = cur[u]
        BY <2>1, FindPlaces
      <3>2. Same /\ pc[t] = "wait_find" /\ pc'[t] = to /\ call'[t] = call[t]
        BY <1>0, <1>10, <3>1 DEF FindPid
      <3>3. call[t] \in PidCalls
        BY <1>10 DEF FindPid, ForPid, PidCalls
      <3>4. Pend(t)' = Pend(t)
        BY <2>1, <3>2 DEF Pend
      <3> QED BY <2>1, <3>2, <3>3, <3>4, DeathWalk
    <2> QED BY <1>6, <1>10, <2>1 DEF FindPid
  <1>11. CASE Search(t)
    <2>1. pc[t] = "wait_search" /\ pc[t] \in Waiting
      BY <1>11 DEF Search, Waiting
    <2>2. CASE Terminated = {} /\ Leave(t)
      <3>1. Same /\ pc'[t] = "user" /\ prog' = prog
        BY <1>0, <2>2 DEF Leave, Return
      <3>2. Cardinality(Pending) = IF Pend(t) THEN 1 ELSE 0
        BY <2>1, <3>1, PendingMove
      <3>3. sem + Released + Cardinality(Pending) = 0
        BY <2>2, SemForm, FS_EmptySet DEF DeathInv
      <3>4. ~Pend(t)
        BY <1>0, <3>2, <3>3 DEF Released
      <3>5. Pend(t)' = Pend(t)
        BY <3>1, <3>4 DEF Pend
      <3> QED BY <2>1, <3>1, <3>5, DeathWalk
    <2>3. CASE FindIn(t, Terminated, IF NoHang(t) THEN "wait_take" ELSE "wait_remove")
      <3>1. /\ cur'[t] \in Terminated
            /\ pc' = [pc EXCEPT ![t] = IF NoHang(t) THEN "wait_take" ELSE "wait_remove"]
            /\ UNCHANGED <<world, shared, lists, locks, sem, sigvars, call, want>>
            /\ \A u \in Thread : u # t => cur'[u] = cur[u]
        BY <2>3, FindPlaces
      <3>2. Same /\ call'[t] = call[t]
            /\ pc'[t] = IF NoHang(t) THEN "wait_take" ELSE "wait_remove"
        BY <1>0, <3>1
      <3>3. slot[cur'[t]].terminated
        BY <3>1 DEF Terminated
      <3>4. Pend(t)' = Pend(t)
        BY <2>1, <3>2 DEF Pend, NoHang
      <3> QED BY <2>1, <3>2, <3>3, <3>4, DeathWalk
    <2> QED BY <1>11, <2>2, <2>3 DEF Search
  <1> QED BY <1>2, <1>3, <1>4, <1>5, <1>7, <1>8, <1>9, <1>10, <1>11

(* Taking a unit: there is then a marked child, and one that waits for the *)
(* only child there is has found that one.                                 *)
LEMMA DeathTake ==
  ASSUME OneWaits, PidWaitsAlone, TypeInv, LocksOK, LocksOK', ListsOK, DeathInv,
         NEW t \in Thread, SemTaken(t) \/ Take(t)
  PROVE  DeathInv'
  <1> USE DEF Goto, world, shared, lists, locks, sigvars, locals
  <1>0. /\ pc \in [Thread -> {"user", "exited", "fork_init", "fork_done", "wait_find",
                              "wait_process", "wait_sem", "wait_search", "wait_take",
                              "wait_remove", "wait_collect"}]
        /\ sem \in Nat /\ prog \in Programs /\ prog.live \in Nat
    BY ChildWaitAssumption DEF TypeInv, TypeOK
  <1>1. sem > 0 /\ sem' = sem - 1
        /\ UNCHANGED <<world, shared, lists, locks, sigvars, locals>>
    BY DEF SemTaken, Take
  <1>2. \/ pc[t] = "wait_sem" /\ pc' = [pc EXCEPT ![t] = "wait_search"]
        \/ pc[t] = "wait_take" /\ pc' = [pc EXCEPT ![t] = "wait_remove"]
    BY DEF SemTaken, Take
  <1>3. /\ pc[t] \in Waiting /\ ~Pend(t)
        /\ \A u \in Thread : u # t => pc'[u] = pc[u] /\ call'[u] = call[u] /\ cur'[u] = cur[u]
    BY <1>0, <1>1, <1>2 DEF Waiting, Holding, Pend
  <1>4. Pend(t)'
    <2>1. CASE pc[t] = "wait_sem"
      <3>1. ~NoHang(t) /\ pc'[t] = "wait_search" /\ call' = call
        BY <1>0, <1>1, <1>2, <2>1 DEF DeathInv, MarksOK
      <3> QED BY <3>1 DEF Pend, NoHang
    <2>2. CASE pc[t] = "wait_take"
      BY <1>0, <1>2, <2>2 DEF Pend
    <2> QED BY <1>2, <2>1, <2>2
  <1>5. Cardinality(Pending) = 0 /\ Cardinality(Pending') = 1
    BY <1>1, <1>3, <1>4, PendingMove
  <1>6. Terminated' = Terminated /\ Released' = Released /\ Released \in {0, 1}
    BY <1>1 DEF Terminated, Children, Released
  <1>7. sem + Released + Cardinality(Pending) = Cardinality(Terminated)
    BY SemForm DEF DeathInv
  <1>8. (sem + Released + Cardinality(Pending) = Cardinality(Terminated))'
    BY <1>0, <1>1, <1>5, <1>6, <1>7
  <1>9. SemMatches'
    BY <1>8 DEF SemMatches, Pending, Pend, Released
  <1>10. ASSUME pc[t] = "wait_take" PROVE slot[cur[t]].terminated
    <2>1. CASE call[t] \in PidCalls
      <3>1. call[t] \in prog.calls[t]
        BY <1>3 DEF LocksOK
      <3>2. prog.live <= 1
        BY <1>0, <2>1, <3>1 DEF PidWaitsAlone
      <3>3. Cardinality(Children) <= 1 /\ Cardinality(Children) \in Nat /\ IsFiniteSet(Children)
        BY <1>0, <3>2, Finitely DEF ListsOK, Room
      <3>4. cur[t] \in Children
        BY <1>10 DEF ListsOK, Places, OnList, Holding, Children, SlistNodes
      <3>5. PICK s \in Terminated : TRUE
        <4>1. Cardinality(Terminated) # 0
          BY <1>0, <1>1, <1>5, <1>6, <1>7
        <4>2. Terminated # {}
          BY <4>1, FS_EmptySet
        <4> QED BY <4>2
      <3>6. Cardinality(Children) # 0
        BY <3>3, <3>4, FS_EmptySet
      <3>7. \E x : Children = {x}
        <4>1. Cardinality(Children) = 1
          BY <3>3, <3>6
        <4> QED BY <3>3, <4>1, FS_Singleton
      <3>8. s \in Children /\ slot[s].terminated
        BY <3>5 DEF Terminated
      <3> QED BY <3>4, <3>7, <3>8
    <2>2. CASE call[t] \notin PidCalls
      BY <1>10, <2>2 DEF DeathInv, MarksOK
    <2> QED BY <2>1, <2>2
  <1>11. pc'[t] = "wait_remove" => slot[cur'[t]].terminated
    BY <1>0, <1>1, <1>2, <1>10
  <1>12. pc[t] # "wait_collect" /\ pc'[t] \notin {"wait_collect", "wait_process", "wait_sem", "wait_take"}
    BY <1>0, <1>2
  <1> QED BY <1>1, <1>3, <1>9, <1>11, <1>12, DeathMove

(* Removing the child that was found: its structure stays the child's own  *)
(* until its exit status is collected.                                     *)
LEMMA DeathRemove ==
  ASSUME OneWaits, TypeInv, LocksOK, LocksOK', ListsOK, DeathInv,
         NEW t \in Thread, Remove(t)
  PROVE  DeathInv'
  <1> USE DEF Goto, world, shared, lists, locks, sigvars, locals
  <1> DEFINE c == cur[t]
  <1>0. pc \in [Thread -> {"user", "exited", "fork_init", "fork_done", "wait_find",
                           "wait_process", "wait_sem", "wait_search", "wait_take",
                           "wait_remove", "wait_collect"}]
        /\ sem \in Nat
    BY DEF TypeInv, TypeOK
  <1>1. pc[t] = "wait_remove" /\ pc' = [pc EXCEPT ![t] = "wait_collect"]
        /\ UNCHANGED <<world, shared, slot, locks, sem, sigvars, locals>>
    BY DEF Remove
  <1>2. pc[t] \in Waiting /\ OnList(t) /\ Pend(t)
    BY <1>1 DEF Waiting, Holding, ListsOK, Places, Pend
  <1>3. pc'[t] = "wait_collect" /\ ~Pend(t)'
        /\ \A u \in Thread : u # t => pc'[u] = pc[u] /\ call'[u] = call[u]
    BY <1>0, <1>1 DEF Pend
  <1>4. /\ Cardinality(Pending) = 1 /\ Cardinality(Pending') = 0
        /\ \A u \in Thread : u # t => pc[u] \notin Waiting
    BY <1>1, <1>2, <1>3, PendingMove
  <1>5. c \in Children /\ Children' = Children \ {c}
    BY <1>2, RemoveMoves DEF ListsOK
  <1>6. slot[c].terminated /\ c \in Terminated
    BY <1>1, <1>5 DEF DeathInv, MarksOK, Terminated
  <1>7. Terminated' = Terminated \ {c}
    BY <1>1, <1>5 DEF Terminated
  <1>8. Collected = {} /\ Collected' = {c}
    BY <1>1, <1>3, <1>4 DEF Collected, Waiting
  <1>9. Held' = Held
    BY <1>5, <1>8 DEF Held
  <1>10. slot[c].hProcess \notin alive
    BY <1>6 DEF DeathInv, MarksOK
  <1>11. KidsOK'
    <2>1. \A s \in Held' : Stands(s)'
      BY <1>1, <1>9 DEF DeathInv, KidsOK, Stands
    <2>2. \A k \in alive : k \in 1 .. forked /\ \E s \in Children' : slot[s].hProcess = k
      BY <1>5, <1>10 DEF DeathInv, KidsOK
    <2> QED BY <1>1, <1>9, <2>1, <2>2 DEF DeathInv, KidsOK
  <1>12. MarksOK'
    <2>1. \A u \in Thread : pc'[u] \notin {"wait_process", "wait_sem", "wait_take", "wait_remove"}
      BY <1>3, <1>4 DEF Waiting, Holding
    <2>2. \A s \in Terminated' : slot'[s].hProcess \notin alive'
      BY <1>1, <1>7 DEF DeathInv, MarksOK
    <2> QED BY <2>1, <2>2 DEF MarksOK
  <1>13. Children' \ Terminated' = Children \ Terminated
    BY <1>5, <1>6, <1>7
  <1>14. NewsOK'
    <2>1. Handled' = Handled
      BY <1>1 DEF Handled
    <2> QED BY <1>1, <1>13, <2>1 DEF DeathInv, NewsOK
  <1>15. SemMatches'
    <2>1. Cardinality(Terminated') = Cardinality(Terminated) - 1 /\ Cardinality(Terminated) \in Nat
      BY <1>6, <1>7, Finitely, FS_RemoveElement
    <2>2. sem + Released + Cardinality(Pending) = Cardinality(Terminated)
      BY SemForm DEF DeathInv
    <2>3. sem' = sem /\ Released' = Released /\ Released \in {0, 1}
      BY <1>1 DEF Released
    <2>4. (sem + Released + Cardinality(Pending) = Cardinality(Terminated))'
      BY <1>0, <1>4, <2>1, <2>2, <2>3
    <2> QED BY <2>4 DEF SemMatches, Pending, Pend, Released
  <1> QED BY <1>11, <1>12, <1>14, <1>15 DEF DeathInv

(* Collecting the exit status ends the zombie, and no other child's slot.  *)
LEMMA DeathCollect ==
  ASSUME OneWaits, TypeInv, LocksOK, LocksOK', ListsOK, DeathInv,
         NEW t \in Thread, Collect(t)
  PROVE  DeathInv'
  <1> USE DEF world, shared, lists, locks, sigvars, locals
  <1> DEFINE c == cur[t]
             p == slot[c].pid
  <1>0. pc \in [Thread -> {"user", "exited", "fork_init", "fork_done", "wait_find",
                           "wait_process", "wait_sem", "wait_search", "wait_take",
                           "wait_remove", "wait_collect"}]
        /\ status \in [Pid -> Status]
    BY DEF TypeInv, TypeOK
  <1>1. pc[t] = "wait_collect" /\ UNCHANGED <<world, lists, mutex, sem, sigvars, locals>>
    BY DEF Collect
  <1>2. c \in Held /\ c \in Collected /\ Stands(c) /\ c \notin Children
    BY <1>1 DEF Held, Collected, DeathInv, KidsOK, ListsOK, Places
  <1>3. status[p] # "NOTEXIST" /\ p \in Pid
    BY <1>2 DEF Stands
  <1>4. status' = [status EXCEPT ![p] = "NOTEXIST"] /\ pc' = [pc EXCEPT ![t] = "user"]
        /\ UNCHANGED <<code, last>>
    BY <1>3 DEF Collect, Return
  <1>5. pc[t] \in Waiting /\ ~Pend(t) /\ pc'[t] = "user" /\ ~Pend(t)'
        /\ \A u \in Thread : u # t => pc'[u] = pc[u] /\ call'[u] = call[u]
    BY <1>0, <1>1, <1>4 DEF Waiting, Pend
  <1>6. /\ Cardinality(Pending) = 0 /\ Cardinality(Pending') = 0
        /\ \A u \in Thread : u # t => pc[u] \notin Waiting
    BY <1>1, <1>5, PendingMove
  <1>7. Children' = Children /\ Terminated' = Terminated /\ Handled' = Handled
        /\ Released' = Released
    BY <1>1 DEF Children, Terminated, Handled, Released
  <1>8. Collected' = {}
    BY <1>5, <1>6 DEF Collected, Waiting
  <1>9. Held' = Children /\ Children \subseteq Held
    BY <1>7, <1>8 DEF Held
  <1> HIDE DEF c, p
  <1>10. KidsOK'
    <2>1. ASSUME NEW s \in Children PROVE Stands(s)'
      <3>1. Stands(s) /\ s # c
        BY <1>2, <1>9 DEF DeathInv, KidsOK
      <3>2. slot[s].pid # p
        BY <1>2, <1>9, <3>1 DEF DeathInv, KidsOK, p
      <3>3. slot[s].pid = pidOf[slot[s].hProcess]
        BY <3>1 DEF Stands
      <3>4. status'[pidOf[slot[s].hProcess]] = status[pidOf[slot[s].hProcess]]
        BY <1>0, <1>4, <3>2, <3>3
      <3> QED BY <1>1, <1>4, <3>1, <3>4 DEF Stands
    <2> QED BY <1>1, <1>7, <1>9, <2>1 DEF DeathInv, KidsOK
  <1>11. MarksOK'
    <2>1. \A u \in Thread : pc'[u] \notin {"wait_process", "wait_sem", "wait_take", "wait_remove"}
      BY <1>5, <1>6 DEF Waiting, Holding
    <2>2. \A s \in Terminated' : slot'[s].hProcess \notin alive'
      BY <1>1, <1>7 DEF DeathInv, MarksOK
    <2> QED BY <2>1, <2>2 DEF MarksOK
  <1>12. NewsOK'
    BY <1>1, <1>7 DEF DeathInv, NewsOK
  <1>13. SemMatches'
    <2>1. sem + Released + Cardinality(Pending) = Cardinality(Terminated)
      BY SemForm DEF DeathInv
    <2>2. (sem + Released + Cardinality(Pending) = Cardinality(Terminated))'
      BY <1>1, <1>6, <1>7, <2>1
    <2> QED BY <2>2 DEF SemMatches, Pending, Pend, Released
  <1> QED BY <1>10, <1>11, <1>12, <1>13 DEF DeathInv

(* fork: the structure taken from the free list stands for the new child,  *)
(* in a slot of the process table that was free.                           *)
LEMMA DeathFork ==
  ASSUME OneWaits, TypeInv, LocksOK, ListsOK, DeathInv,
         NEW t \in Thread, ForkInit(t)
  PROVE  DeathInv'
  <1> USE DEF Goto, world, shared, lists, locks, sigvars, locals
  <1> DEFINE k == forked + 1
             p == AllocPid(status, last)
  <1>00. PICK s : s = next["child_freelist"]
    OBVIOUS
  <1>0. /\ pc \in [Thread -> {"user", "exited", "fork_init", "fork_done", "wait_find",
                              "wait_process", "wait_sem", "wait_search", "wait_take",
                              "wait_remove", "wait_collect"}]
        /\ status \in [Pid -> Status] /\ last \in Pid /\ forked \in 0 .. MaxForks
        /\ MaxForks \in Nat /\ slot \in [Slot -> Kid] /\ packets \in Seq(Slot)
        /\ pidOf \in [Child -> Pid \cup {0}] /\ sem \in Nat
    BY ChildWaitAssumption DEF TypeInv, TypeOK, Kid
  <1>1. /\ pc[t] = "fork_init" /\ pc' = [pc EXCEPT ![t] = "fork_done"]
        /\ rwShared = {} /\ HasFreePid(status) /\ forked < MaxForks
        /\ forked' = k /\ alive' = alive \cup {k}
        /\ status' = [status EXCEPT ![p] = "RUNNING"]
        /\ pidOf' = [pidOf EXCEPT ![k] = p]
        /\ slot' = [slot EXCEPT ![s] = [pid |-> p, hProcess |-> k, hPipe |-> k, terminated |-> FALSE]]
        /\ packets' = Append(packets, s)
        /\ UNCHANGED <<prog, code, locks, sem, watch, iocp, sigPc, sigSlot, locals>>
    BY <1>00 DEF ForkInit
  <1>2. p \in Pid /\ status[p] = "NOTEXIST"
    BY <1>0, <1>1, AllocatesFree
  <1>3. s \in Slot /\ s \notin Children /\ Children' = Children \cup {s}
    BY <1>00, ForkInitMoves DEF ListsOK
  <1>4. k \in Child /\ k \notin 1 .. forked /\ 1 .. k = (1 .. forked) \cup {k} /\ 1 .. forked \subseteq Child
    BY <1>0, <1>1 DEF Child
  <1>5. k # 0 /\ 0 \notin Pid
    BY <1>0 DEF Pid
  <1> HIDE DEF k, p
  <1>6. \A u \in Thread : pc[u] \notin Waiting
    BY <1>1 DEF LocksOK
  <1>7. pc'[t] = "fork_done" /\ \A u \in Thread : u # t => pc'[u] = pc[u]
    BY <1>0, <1>1
  <1>8. Collected = {} /\ Collected' = {} /\ Held = Children /\ Held' = Children \cup {s}
    BY <1>3, <1>6, <1>7 DEF Held, Collected, Waiting
  <1>9. Pending = {} /\ Pending' = {}
    BY <1>6, <1>7 DEF Pending, Pend, Waiting, Holding
  <1>10. /\ slot'[s].pid = p /\ slot'[s].hProcess = k /\ slot'[s].hPipe = k
         /\ slot'[s].terminated = FALSE
         /\ \A r \in Children : slot'[r] = slot[r]
    <2>1. Children \subseteq Slot
      BY Finitely
    <2> QED BY <1>0, <1>1, <1>3, <2>1
  <1>11. Terminated' = Terminated /\ Terminated \subseteq Children
    BY <1>3, <1>10 DEF Terminated
  <1>12. Stands(s)'
    <2>1. pidOf'[k] = p /\ status'[p] = "RUNNING" /\ k \in 1 .. forked'
      BY <1>0, <1>1, <1>2, <1>4
    <2> QED BY <1>2, <1>10, <2>1 DEF Stands
  <1>13. ASSUME NEW r \in Children
         PROVE  Stands(r)' /\ slot[r].hProcess # k /\ slot[r].pid # p
    <2>1. Stands(r)
      BY <1>8 DEF DeathInv, KidsOK
    <2>2. slot[r].hProcess \in 1 .. forked /\ slot[r].hProcess # k
      BY <1>4, <2>1 DEF Stands
    <2>3. pidOf'[slot[r].hProcess] = pidOf[slot[r].hProcess]
      BY <1>0, <1>1, <1>4, <2>2
    <2>4. slot[r].pid # p
      BY <1>2, <2>1 DEF Stands
    <2>5. status'[slot[r].pid] = status[slot[r].pid]
      BY <1>0, <1>1, <2>1, <2>4 DEF Stands
    <2>6. Stands(r)'
      BY <1>1, <1>4, <1>10, <2>1, <2>2, <2>3, <2>5 DEF Stands
    <2> QED BY <2>2, <2>4, <2>6
  <1>14. KidsOK'
    <2>1. ASSUME NEW r \in Held' PROVE Stands(r)'
      <3>1. CASE r = s
        BY <1>12, <3>1
      <3>2. CASE r \in Children
        BY <1>13, <3>2
      <3> QED BY <1>8, <3>1, <3>2
    <2>2. \A q, r \in Held' :
            slot'[q].pid = slot'[r].pid \/ slot'[q].hProcess = slot'[r].hProcess => q = r
      <3> SUFFICES ASSUME NEW q \in Held', NEW r \in Held',
                          slot'[q].pid = slot'[r].pid \/ slot'[q].hProcess = slot'[r].hProcess
                   PROVE  q = r
        OBVIOUS
      <3>1. CASE q \in Children /\ r \in Children
        BY <1>8, <1>10, <3>1 DEF DeathInv, KidsOK
      <3>2. CASE q = s \/ r = s
        BY <1>8, <1>10, <1>13, <3>2
      <3> QED BY <1>8, <3>1, <3>2
    <2>3. \A j \in alive' : j \in 1 .. forked' /\ \E r \in Children' : slot'[r].hProcess = j
      BY <1>1, <1>3, <1>4, <1>10 DEF DeathInv, KidsOK
    <2> QED BY <2>1, <2>2, <2>3 DEF KidsOK
  <1>15. MarksOK'
    <2>1. \A u \in Thread : pc'[u] \notin {"wait_process", "wait_sem", "wait_take", "wait_remove"}
      BY <1>6, <1>7 DEF Waiting, Holding
    <2>2. \A r \in Terminated' : slot'[r].hProcess \notin alive'
      BY <1>1, <1>10, <1>11, <1>13 DEF DeathInv, MarksOK
    <2> QED BY <2>1, <2>2 DEF MarksOK
  <1>16. NewsOK'
    <2>1. Handled' = Handled /\ iocp' = iocp /\ watch' = watch
      BY <1>1 DEF Handled
    <2>2. s \notin Entries(packets) /\ s \notin Entries(iocp) /\ s \notin Handled
      BY <1>3 DEF DeathInv, NewsOK
    <2>3. Entries(packets') = Entries(packets) \cup {s} /\ Once(packets')
      BY <1>0, <1>1, <1>3, <2>2, AppendEntries DEF DeathInv, NewsOK
    <2>4. Children' \ Terminated' = (Children \ Terminated) \cup {s}
      BY <1>3, <1>11
    <2>5. \A r \in Entries(iocp) \cup Handled : slot'[r].hProcess \notin alive'
      BY <1>1, <1>10, <1>13 DEF DeathInv, NewsOK
    <2>6. \A r \in Entries(packets') : slot'[r].hPipe = slot'[r].hProcess
      BY <1>10, <2>3 DEF DeathInv, NewsOK
    <2>7. \A j \in Child : watch[j] # Null =>
            /\ j \in alive' /\ watch[j] \in Children' \ Terminated'
            /\ watch[j] \notin Entries(packets') /\ slot'[watch[j]].hProcess = j
      BY <1>1, <1>3, <1>10, <2>3, <2>4 DEF DeathInv, NewsOK
    <2>8. /\ Entries(packets') \subseteq Children' \ Terminated'
          /\ Entries(iocp) \subseteq Children' \ Terminated'
          /\ Handled \subseteq Children' \ Terminated'
          /\ Entries(packets') \cap Entries(iocp) = {}
          /\ Handled \cap Entries(packets') = {} /\ Handled \cap Entries(iocp) = {}
          /\ Once(iocp)
      BY <2>2, <2>3, <2>4 DEF DeathInv, NewsOK
    <2> QED BY <2>1, <2>3, <2>5, <2>6, <2>7, <2>8 DEF NewsOK
  <1>17. SemMatches'
    <2>1. sem + Released + Cardinality(Pending) = Cardinality(Terminated)
      BY SemForm DEF DeathInv
    <2>2. (sem + Released + Cardinality(Pending) = Cardinality(Terminated))'
      BY <1>1, <1>9, <1>11, <2>1 DEF Released
    <2> QED BY <2>2 DEF SemMatches, Pending, Pend, Released
  <1> QED BY <1>14, <1>15, <1>16, <1>17 DEF DeathInv

(* The death of child k: the read pending on its pipe, if any, completes.  *)
LEMMA BreakNews ==
  ASSUME TypeInv, KidsOK, MarksOK, NewsOK, NEW k \in alive, PipeBreaks(k), alive' = alive \ {k},
         UNCHANGED <<next, slot, packets, sigPc, sigSlot>>
  PROVE  NewsOK'
  <1>0. k \in Child /\ iocp \in Seq(Slot) /\ watch \in [Child -> Slot \cup {Null}]
    BY DEF TypeInv, TypeOK
  <1>1. Children' = Children /\ Terminated' = Terminated /\ Handled' = Handled
    BY DEF Children, Terminated, Handled
  <1>2. watch'[k] = Null /\ \A j \in Child : j # k => watch'[j] = watch[j]
    BY <1>0, ChildWaitAssumption DEF PipeBreaks
  <1>3. \A j \in Child : watch'[j] # Null =>
          /\ j \in alive' /\ watch'[j] \in Children' \ Terminated'
          /\ watch'[j] \notin Entries(packets') /\ slot'[watch'[j]].hProcess = j
    BY <1>1, <1>2 DEF NewsOK
  <1>4. \A s \in Handled' : slot'[s].hProcess \notin alive'
    BY <1>1 DEF NewsOK
  <1>5. CASE watch[k] = Null
    <2>1. iocp' = iocp
      BY <1>5 DEF PipeBreaks
    <2> QED BY <1>1, <1>3, <1>4, <2>1 DEF NewsOK
  <1>6. CASE watch[k] # Null
    <2> DEFINE s == watch[k]
    <2>1. iocp' = Append(iocp, s) /\ s \in Slot
      BY <1>0, <1>6 DEF PipeBreaks
    <2>2. /\ s \in Children \ Terminated /\ s \notin Entries(packets) /\ slot[s].hProcess = k
          /\ k \in alive
      BY <1>0, <1>6 DEF NewsOK
    <2> HIDE DEF s
    <2>3. s \notin Entries(iocp) /\ s \notin Handled
      BY <2>2 DEF NewsOK
    <2>4. Entries(iocp') = Entries(iocp) \cup {s} /\ Once(iocp')
      BY <1>0, <2>1, <2>3, AppendEntries DEF NewsOK
    <2>5. \A r \in Entries(iocp') : slot'[r].hProcess \notin alive'
      BY <2>2, <2>4 DEF NewsOK
    <2>6. /\ Entries(iocp') \subseteq Children \ Terminated
          /\ Entries(packets) \cap Entries(iocp') = {}
          /\ Handled \cap Entries(iocp') = {}
      BY <2>2, <2>3, <2>4 DEF NewsOK
    <2> QED BY <1>1, <1>3, <1>4, <2>4, <2>5, <2>6 DEF NewsOK
  <1> QED BY <1>5, <1>6

(* A child exits or is killed.                                             *)
LEMMA DeathDies ==
  ASSUME TypeInv, DeathInv, NEW k \in Child, ChildExit(k) \/ ChildKilled(k)
  PROVE  DeathInv'
  <1> USE DEF shared, lists, locks, locals
  <1>1. /\ k \in alive /\ alive' = alive \ {k} /\ PipeBreaks(k)
        /\ UNCHANGED <<prog, pidOf, forked, clones, last, next, slot, childCount, sem,
                       packets, sigPc, sigSlot, pc, call, want, cur, prev>>
    BY DEF ChildExit, ChildKilled
  <1>2. NewsOK'
    BY <1>1, BreakNews DEF DeathInv
  <1>3. Children' = Children /\ Held' = Held /\ Terminated' = Terminated
        /\ Pending' = Pending /\ Released' = Released
    BY <1>1 DEF Children, Held, Collected, Terminated, Pending, Pend, NoHang, Released
  <1>4. SemMatches'
    <2>1. sem + Released + Cardinality(Pending) = Cardinality(Terminated)
      BY SemForm DEF DeathInv
    <2>2. (sem + Released + Cardinality(Pending) = Cardinality(Terminated))'
      BY <1>1, <1>3, <2>1
    <2> QED BY <2>2 DEF SemMatches, Pending, Pend, Released
  <1>5. MarksOK'
    <2>1. \A u \in Thread : NoHang(u)' = NoHang(u)
      BY <1>1 DEF NoHang
    <2> QED BY <1>1, <1>3, <2>1 DEF DeathInv, MarksOK
  <1>6. \A s \in Held' : Stands(s)'
    <2>1. CASE ChildKilled(k)
      <3>1. UNCHANGED <<status, code>>
        BY <2>1 DEF ChildKilled
      <3> QED BY <1>1, <1>3, <3>1 DEF DeathInv, KidsOK, Stands
    <2>2. CASE ChildExit(k)
      <3>0. status \in [Pid -> Status] /\ code \in [Pid -> Child \cup {0}]
        BY DEF TypeInv, TypeOK
      <3>1. status' = [status EXCEPT ![pidOf[k]] = "ZOMBIE"]
            /\ code' = [code EXCEPT ![pidOf[k]] = k]
        BY <2>2 DEF ChildExit
      <3>2. PICK r \in Children : slot[r].hProcess = k
        BY <1>1 DEF DeathInv, KidsOK
      <3>3. r \in Held /\ Stands(r)
        BY <3>2 DEF Held, DeathInv, KidsOK
      <3> SUFFICES ASSUME NEW s \in Held PROVE Stands(s)'
        BY <1>3
      <3>4. Stands(s)
        BY DEF DeathInv, KidsOK
      <3>5. CASE s = r
        <4>1. pidOf[k] \in Pid
          BY <3>2, <3>3 DEF Stands
        <4>2. status'[pidOf[k]] = "ZOMBIE" /\ code'[pidOf[k]] = k
          BY <3>0, <3>1, <4>1
        <4> QED BY <1>1, <3>2, <3>4, <3>5, <4>2 DEF Stands
      <3>6. CASE s # r
        <4>1. slot[s].pid # slot[r].pid
          BY <3>3, <3>6 DEF DeathInv, KidsOK
        <4>2. slot[r].pid = pidOf[k]
          BY <3>2, <3>3 DEF Stands
        <4>3. slot[s].pid = pidOf[slot[s].hProcess] /\ slot[s].pid \in Pid
          BY <3>4 DEF Stands
        <4>4. status'[slot[s].pid] = status[slot[s].pid] /\ code'[slot[s].pid] = code[slot[s].pid]
          BY <3>0, <3>1, <4>1, <4>2, <4>3
        <4> QED BY <1>1, <3>4, <4>3, <4>4 DEF Stands
      <3> QED BY <3>5, <3>6
    <2> QED BY <2>1, <2>2
  <1>7. KidsOK'
    BY <1>1, <1>3, <1>6 DEF DeathInv, KidsOK
  <1> QED BY <1>2, <1>4, <1>5, <1>7 DEF DeathInv

(* What a step of the signal thread that changes no structure leaves as it *)
(* was.                                                                    *)
LEMMA DeathSignal ==
  ASSUME DeathInv, UNCHANGED <<alive, pidOf, forked, status, code, next, slot, pc, call, cur>>,
         NewsOK', SemMatches'
  PROVE  DeathInv'
  <1>1. Children' = Children /\ Held' = Held /\ Terminated' = Terminated
    BY DEF Children, Held, Collected, Terminated
  <1>2. KidsOK'
    BY <1>1 DEF DeathInv, KidsOK, Stands
  <1>3. MarksOK'
    <2>1. \A u \in Thread : NoHang(u)' = NoHang(u)
      BY DEF NoHang
    <2> QED BY <1>1, <2>1 DEF DeathInv, MarksOK
  <1> QED BY <1>2, <1>3 DEF DeathInv

(* The signal thread takes a packet: it watches the pipe of a living child *)
(* and goes on to handle the death of one that is already dead.            *)
LEMMA DeathAdd ==
  ASSUME OneWaits, TypeInv, LocksOK, DeathInv, AddProcess
  PROVE  DeathInv'
  <1> USE DEF world, shared, lists, locks, sigvars, locals
  <1> DEFINE h == Head(packets)
  <1>0. packets \in Seq(Slot) /\ watch \in [Child -> Slot \cup {Null}] /\ alive \subseteq Child
    BY DEF TypeInv, TypeOK
  <1>1. /\ sigPc = "idle" /\ packets # << >> /\ packets' = Tail(packets)
        /\ UNCHANGED <<world, shared, lists, locks, sem, iocp, pc, locals>>
    BY DEF AddProcess
  <1>2. /\ h \in Entries(packets) /\ h \in Slot
        /\ Entries(packets') = Entries(packets) \ {h} /\ Once(packets')
    BY <1>0, <1>1, TailEntries DEF DeathInv, NewsOK
  <1>3. \/ /\ slot[h].hPipe \in alive
           /\ watch' = [watch EXCEPT ![slot[h].hPipe] = h] /\ UNCHANGED <<sigPc, sigSlot>>
        \/ /\ slot[h].hPipe \notin alive
           /\ sigPc' = "close" /\ sigSlot' = h /\ UNCHANGED watch
    BY DEF AddProcess
  <1> HIDE DEF h
  <1>4. Children' = Children /\ Terminated' = Terminated
    BY <1>1 DEF Children, Terminated
  <1>5. Handled = {}
    BY <1>1 DEF Handled
  <1>6. slot[h].hPipe = slot[h].hProcess /\ h \in Children \ Terminated /\ h \notin Entries(iocp)
    BY <1>2 DEF DeathInv, NewsOK
  <1>7. NewsOK'
    <2>1. CASE slot[h].hPipe \in alive
      <3>1. Handled' = {}
        BY <1>1, <1>3, <1>5, <2>1 DEF Handled
      <3>2. \A j \in Child : watch'[j] # Null =>
              /\ j \in alive /\ watch'[j] \in Children \ Terminated
              /\ watch'[j] \notin Entries(packets') /\ slot[watch'[j]].hProcess = j
        <4> SUFFICES ASSUME NEW j \in Child, watch'[j] # Null
                     PROVE  /\ j \in alive /\ watch'[j] \in Children \ Terminated
                            /\ watch'[j] \notin Entries(packets') /\ slot[watch'[j]].hProcess = j
          OBVIOUS
        <4>1. CASE j = slot[h].hPipe
          <5>1. watch'[j] = h
            BY <1>0, <1>3, <2>1, <4>1
          <5> QED BY <1>2, <1>6, <2>1, <4>1, <5>1
        <4>2. CASE j # slot[h].hPipe
          <5>1. watch'[j] = watch[j]
            BY <1>0, <1>3, <2>1, <4>2
          <5> QED BY <1>2, <5>1 DEF DeathInv, NewsOK
        <4> QED BY <4>1, <4>2
      <3> QED BY <1>1, <1>2, <1>4, <3>1, <3>2 DEF DeathInv, NewsOK
    <2>2. CASE slot[h].hPipe \notin alive
      <3>1. Handled' = {h} /\ watch' = watch
        BY <1>1, <1>3, <2>2 DEF Handled
      <3>2. slot[h].hProcess \notin alive
        BY <1>6, <2>2
      <3> QED BY <1>1, <1>2, <1>4, <1>6, <3>1, <3>2 DEF DeathInv, NewsOK
    <2> QED BY <2>1, <2>2
  <1>8. SemMatches'
    <2>1. sem + Released + Cardinality(Pending) = Cardinality(Terminated)
      BY SemForm DEF DeathInv
    <2>2. Released' = Released /\ Pending' = Pending
      BY <1>1, <1>3 DEF Released, Pending, Pend, NoHang
    <2>3. (sem + Released + Cardinality(Pending) = Cardinality(Terminated))'
      BY <1>1, <1>4, <2>1, <2>2
    <2> QED BY <2>3 DEF SemMatches, Pending, Pend, Released
  <1> QED BY <1>1, <1>7, <1>8, DeathSignal

(* The signal thread takes the completion of a broken pipe.                *)
LEMMA DeathTold ==
  ASSUME OneWaits, TypeInv, LocksOK, DeathInv, ChildDied
  PROVE  DeathInv'
  <1> USE DEF world, shared, lists, locks, sigvars, locals
  <1> DEFINE h == Head(iocp)
  <1>0. iocp \in Seq(Slot)
    BY DEF TypeInv, TypeOK
  <1>1. /\ sigPc = "idle" /\ iocp # << >> /\ iocp' = Tail(iocp)
        /\ sigPc' = "close" /\ sigSlot' = h
        /\ UNCHANGED <<world, shared, lists, locks, sem, packets, watch, pc, locals>>
    BY DEF ChildDied
  <1>2. /\ h \in Entries(iocp) /\ h \in Slot
        /\ Entries(iocp') = Entries(iocp) \ {h} /\ Once(iocp')
    BY <1>0, <1>1, TailEntries DEF DeathInv, NewsOK
  <1> HIDE DEF h
  <1>4. Children' = Children /\ Terminated' = Terminated
    BY <1>1 DEF Children, Terminated
  <1>5. Handled = {} /\ Handled' = {h}
    BY <1>1 DEF Handled
  <1>6. h \in Children \ Terminated /\ h \notin Entries(packets) /\ slot[h].hProcess \notin alive
    BY <1>2 DEF DeathInv, NewsOK
  <1>7. NewsOK'
    BY <1>1, <1>2, <1>4, <1>5, <1>6 DEF DeathInv, NewsOK
  <1>8. SemMatches'
    <2>1. sem + Released + Cardinality(Pending) = Cardinality(Terminated)
      BY SemForm DEF DeathInv
    <2>2. Released' = Released /\ Pending' = Pending
      BY <1>1 DEF Released, Pending, Pend, NoHang
    <2>3. (sem + Released + Cardinality(Pending) = Cardinality(Terminated))'
      BY <1>1, <1>4, <2>1, <2>2
    <2> QED BY <2>3 DEF SemMatches, Pending, Pend, Released
  <1> QED BY <1>1, <1>7, <1>8, DeathSignal

(* The handle of the pipe is closed: no read was pending on it any more.   *)
LEMMA DeathClose ==
  ASSUME OneWaits, TypeInv, LocksOK, DeathInv, ClosePipe
  PROVE  DeathInv'
  <1> USE DEF world, shared, lists, locks, sigvars, locals
  <1>0. /\ slot \in [Slot -> Kid] /\ watch \in [Child -> Slot \cup {Null}]
        /\ Children \subseteq Slot
    BY Finitely DEF TypeInv, TypeOK, Kid
  <1>1. /\ sigPc = "close" /\ sigPc' = "sigchld"
        /\ slot' = [slot EXCEPT ![sigSlot].hPipe = 0]
        /\ UNCHANGED <<world, shared, next, childCount, locks, sem, packets, sigSlot, pc, locals>>
    BY DEF ClosePipe
  <1>2. /\ Handled = {sigSlot} /\ Handled' = {sigSlot}
        /\ sigSlot \in Children \ Terminated /\ sigSlot \in Slot
        /\ slot[sigSlot].hProcess \notin alive
        /\ sigSlot \notin Entries(packets) /\ sigSlot \notin Entries(iocp)
    BY <1>0, <1>1 DEF Handled, DeathInv, NewsOK
  <1>3. iocp' = iocp /\ watch' = watch
    <2> DEFINE k == slot[sigSlot].hPipe
    <2>1. CASE k = 0
      BY <2>1 DEF ClosePipe
    <2>2. CASE k # 0
      <3>1. k = slot[sigSlot].hProcess
        BY <1>2, <2>2 DEF DeathInv, KidsOK, Held, Stands
      <3>2. k \in Child
        BY <1>0, <1>2, <2>2 DEF Kid
      <3>3. watch[k] = Null
        BY <1>2, <3>1, <3>2 DEF DeathInv, NewsOK
      <3>4. PipeBreaks(k)
        BY <2>2 DEF ClosePipe
      <3> HIDE DEF k
      <3> QED BY <1>0, <3>2, <3>3, <3>4 DEF PipeBreaks
    <2> QED BY <2>1, <2>2
  <1>4. \A s \in Slot : /\ slot'[s].pid = slot[s].pid /\ slot'[s].hProcess = slot[s].hProcess
                        /\ slot'[s].terminated = slot[s].terminated
                        /\ s # sigSlot => slot'[s] = slot[s]
                        /\ slot'[s].hPipe \in {0, slot[s].hPipe}
    BY <1>0, <1>1, <1>2 DEF Kid
  <1>5. Children' = Children
    BY <1>1 DEF Children
  <1>6. Terminated' = Terminated
    BY <1>0, <1>4, <1>5 DEF Terminated
  <1>7. Held' = Held /\ Held \subseteq Slot
    <2>1. Collected' = Collected
      BY <1>1 DEF Collected
    <2>2. Collected \subseteq Slot
      BY DEF Collected, TypeInv
    <2> QED BY <1>0, <1>5, <2>1, <2>2 DEF Held
  <1>8. KidsOK'
    <2>1. ASSUME NEW s \in Held PROVE Stands(s)'
      <3>1. Stands(s) /\ s \in Slot
        BY <1>7 DEF DeathInv, KidsOK
      <3> QED BY <1>1, <1>4, <3>1 DEF Stands
    <2>2. \A s, r \in Held :
            slot'[s].pid = slot'[r].pid \/ slot'[s].hProcess = slot'[r].hProcess => s = r
      BY <1>4, <1>7 DEF DeathInv, KidsOK
    <2>3. \A j \in alive : j \in 1 .. forked /\ \E s \in Children : slot'[s].hProcess = j
      BY <1>0, <1>4 DEF DeathInv, KidsOK
    <2> QED BY <1>1, <1>5, <1>7, <2>1, <2>2, <2>3 DEF KidsOK
  <1>9. MarksOK'
    <2>1. \A s \in Terminated' : slot'[s].hProcess \notin alive'
      <3>1. Terminated \subseteq Slot
        BY <1>0 DEF Terminated
      <3> QED BY <1>1, <1>4, <1>6, <3>1 DEF DeathInv, MarksOK
    <2>2. \A u \in Thread : pc[u] \in {"wait_take", "wait_remove"} => cur[u] \in Slot
      BY DEF TypeInv, Holding
    <2>3. \A u \in Thread : NoHang(u)' = NoHang(u)
      BY <1>1 DEF NoHang
    <2> QED BY <1>1, <1>4, <2>1, <2>2, <2>3 DEF DeathInv, MarksOK
  <1>10. NewsOK'
    <2>1. /\ Entries(packets) \subseteq Slot /\ Entries(iocp) \subseteq Slot
          /\ \A j \in Child : watch[j] # Null => watch[j] \in Slot
      BY <1>0 DEF DeathInv, NewsOK
    <2>2. \A s \in Entries(packets) : slot'[s].hPipe = slot'[s].hProcess
      BY <1>2, <1>4, <2>1 DEF DeathInv, NewsOK
    <2>3. /\ \A s \in Entries(iocp) : slot'[s].hProcess \notin alive
          /\ slot'[sigSlot].hProcess \notin alive
      BY <1>2, <1>4, <2>1 DEF DeathInv, NewsOK
    <2>4. \A j \in Child : watch[j] # Null => slot'[watch[j]].hProcess = j
      BY <1>4, <2>1 DEF DeathInv, NewsOK
    <2> QED BY <1>1, <1>2, <1>3, <1>5, <1>6, <2>2, <2>3, <2>4 DEF DeathInv, NewsOK
  <1>11. SemMatches'
    <2>1. sem + Released + Cardinality(Pending) = Cardinality(Terminated)
      BY SemForm DEF DeathInv
    <2>2. Released' = Released /\ Pending' = Pending
      BY <1>1 DEF Released, Pending, Pend, NoHang
    <2>3. (sem + Released + Cardinality(Pending) = Cardinality(Terminated))'
      BY <1>1, <1>6, <2>1, <2>2
    <2> QED BY <2>3 DEF SemMatches, Pending, Pend, Released
  <1> QED BY <1>8, <1>9, <1>10, <1>11 DEF DeathInv

(* The child is marked; a unit of the semaphore is due.                    *)
LEMMA DeathMark ==
  ASSUME OneWaits, TypeInv, LocksOK, DeathInv, Mark
  PROVE  DeathInv'
  <1> USE DEF world, shared, lists, locks, sigvars, locals
  <1>0. /\ slot \in [Slot -> Kid] /\ sem \in Nat /\ Children \subseteq Slot
        /\ IsFiniteSet(Terminated) /\ Cardinality(Terminated) \in Nat
    BY Finitely DEF TypeInv, TypeOK, Kid
  <1>1. /\ sigPc = "mark" /\ sigPc' = "release"
        /\ slot' = [slot EXCEPT ![sigSlot].terminated = TRUE]
        /\ UNCHANGED <<world, shared, next, childCount, locks, sem, packets, watch, iocp,
                       sigSlot, pc, locals>>
    BY DEF Mark
  <1>2. /\ Handled = {sigSlot} /\ Handled' = {}
        /\ sigSlot \in Children \ Terminated /\ sigSlot \in Slot
        /\ slot[sigSlot].hProcess \notin alive
        /\ sigSlot \notin Entries(packets) /\ sigSlot \notin Entries(iocp)
    BY <1>0, <1>1 DEF Handled, DeathInv, NewsOK
  <1>4. \A s \in Slot : /\ slot'[s].pid = slot[s].pid /\ slot'[s].hProcess = slot[s].hProcess
                        /\ slot'[s].terminated = (slot[s].terminated \/ s = sigSlot)
                        /\ slot'[s].hPipe = slot[s].hPipe
    BY <1>0, <1>1, <1>2 DEF Kid
  <1>5. Children' = Children
    BY <1>1 DEF Children
  <1>6. Terminated' = Terminated \cup {sigSlot}
    BY <1>0, <1>2, <1>4, <1>5 DEF Terminated
  <1>7. Held' = Held /\ Held \subseteq Slot
    <2>1. Collected' = Collected
      BY <1>1 DEF Collected
    <2>2. Collected \subseteq Slot
      BY DEF Collected, TypeInv
    <2> QED BY <1>0, <1>5, <2>1, <2>2 DEF Held
  <1>8. KidsOK'
    <2>1. ASSUME NEW s \in Held PROVE Stands(s)'
      <3>1. Stands(s) /\ s \in Slot
        BY <1>7 DEF DeathInv, KidsOK
      <3> QED BY <1>1, <1>4, <3>1 DEF Stands
    <2>2. \A s, r \in Held :
            slot'[s].pid = slot'[r].pid \/ slot'[s].hProcess = slot'[r].hProcess => s = r
      BY <1>4, <1>7 DEF DeathInv, KidsOK
    <2>3. \A j \in alive : j \in 1 .. forked /\ \E s \in Children : slot'[s].hProcess = j
      BY <1>0, <1>4 DEF DeathInv, KidsOK
    <2> QED BY <1>1, <1>5, <1>7, <2>1, <2>2, <2>3 DEF KidsOK
  <1>9. MarksOK'
    <2>1. \A s \in Terminated' : slot'[s].hProcess \notin alive'
      <3>1. Terminated \subseteq Slot
        BY <1>0 DEF Terminated
      <3> QED BY <1>1, <1>2, <1>4, <1>6, <3>1 DEF DeathInv, MarksOK
    <2>2. \A u \in Thread : pc[u] \in {"wait_take", "wait_remove"} =>
            cur[u] \in Slot /\ (slot[cur[u]].terminated => slot'[cur[u]].terminated)
      BY <1>4 DEF TypeInv, Holding
    <2>3. \A u \in Thread : NoHang(u)' = NoHang(u)
      BY <1>1 DEF NoHang
    <2>4. ASSUME NEW u \in Thread
          PROVE  /\ pc'[u] = "wait_process" => call'[u] \in PidCalls
                 /\ pc'[u] = "wait_sem" => ~NoHang(u)'
                 /\ pc'[u] = "wait_take" => slot'[cur'[u]].terminated \/ call'[u] \in PidCalls
                 /\ pc'[u] = "wait_remove" => slot'[cur'[u]].terminated
      BY <1>1, <2>2, <2>3 DEF DeathInv, MarksOK
    <2> QED BY <2>1, <2>4 DEF MarksOK
  <1>10. NewsOK'
    <2>1. /\ Entries(packets) \subseteq Slot /\ Entries(iocp) \subseteq Slot
          /\ \A j \in Child : watch[j] # Null => watch[j] \in Slot
      BY <1>0 DEF DeathInv, NewsOK
    <2>2. \A s \in Entries(packets) : slot'[s].hPipe = slot'[s].hProcess
      BY <1>4, <2>1 DEF DeathInv, NewsOK
    <2>3. \A s \in Entries(iocp) : slot'[s].hProcess \notin alive
      BY <1>4, <2>1 DEF DeathInv, NewsOK
    <2>4. \A j \in Child : watch[j] # Null =>
            slot'[watch[j]].hProcess = j /\ watch[j] # sigSlot
      BY <1>2, <1>4, <2>1 DEF DeathInv, NewsOK
    <2>5. /\ Entries(packets) \subseteq Children' \ Terminated'
          /\ Entries(iocp) \subseteq Children' \ Terminated'
          /\ \A j \in Child : watch[j] # Null => watch[j] \in Children' \ Terminated'
      BY <1>2, <1>5, <1>6, <2>4 DEF DeathInv, NewsOK
    <2> QED BY <1>1, <1>2, <2>2, <2>3, <2>4, <2>5 DEF DeathInv, NewsOK
  <1>11. SemMatches'
    <2>1. sem + Released + Cardinality(Pending) = Cardinality(Terminated)
      BY SemForm DEF DeathInv
    <2>2. Released = 0 /\ Released' = 1 /\ Pending' = Pending /\ Cardinality(Pending) \in Nat
      BY <1>1, PendingFew DEF Released, Pending, Pend, NoHang
    <2>3. Cardinality(Terminated') = Cardinality(Terminated) + 1
      BY <1>0, <1>2, <1>6, FS_AddElement
    <2>4. (sem + Released + Cardinality(Pending) = Cardinality(Terminated))'
      BY <1>0, <1>1, <2>1, <2>2, <2>3
    <2> QED BY <2>4 DEF SemMatches, Pending, Pend, Released
  <1> QED BY <1>8, <1>9, <1>10, <1>11 DEF DeathInv

(* The signal thread sends SIGCHLD, and it releases the unit of the child  *)
(* it has marked.                                                          *)
LEMMA DeathRelease ==
  ASSUME OneWaits, TypeInv, LocksOK, DeathInv, SendSigchld \/ ReleaseSem
  PROVE  DeathInv'
  <1> USE DEF world, shared, lists, locks, sigvars, locals
  <1>1. UNCHANGED <<world, shared, lists, locks, packets, watch, iocp, pc, locals>>
    BY DEF SendSigchld, ReleaseSem
  <1>2. Handled' = Handled
    BY DEF SendSigchld, ReleaseSem, Handled
  <1>3. Children' = Children /\ Terminated' = Terminated /\ Pending' = Pending
    BY <1>1 DEF Children, Terminated, Pending, Pend, NoHang
  <1>4. NewsOK'
    BY <1>1, <1>2, <1>3 DEF DeathInv, NewsOK
  <1>5. sem' + Released' = sem + Released
    <2>0. sem \in Nat
      BY DEF TypeInv, TypeOK
    <2> QED BY <2>0 DEF SendSigchld, ReleaseSem, Released
  <1>6. SemMatches'
    <2>1. sem + Released + Cardinality(Pending) = Cardinality(Terminated)
      BY SemForm DEF DeathInv
    <2>2. (sem + Released + Cardinality(Pending) = Cardinality(Terminated))'
      BY <1>3, <1>5, <2>1
    <2> QED BY <2>2 DEF SemMatches, Pending, Pend, Released
  <1> QED BY <1>1, <1>4, <1>6, DeathSignal

(* Every step keeps what is known of the deaths.                           *)
LEMMA DeathStep ==
  /\ OneWaits /\ PidWaitsAlone /\ TypeInv /\ LocksOK /\ LocksOK' /\ ListsOK /\ DeathInv
  /\ [Next]_vars
  => DeathInv'
  <1> SUFFICES ASSUME OneWaits, PidWaitsAlone, TypeInv, LocksOK, LocksOK', ListsOK, DeathInv,
                      [Next]_vars
               PROVE  DeathInv'
    OBVIOUS
  <1>1. ASSUME NEW k \in Child, ChildExit(k) \/ ChildKilled(k) PROVE DeathInv'
    BY <1>1, DeathDies
  <1>2. ASSUME NEW t \in Thread,
               \/ ForkEnter(t) \/ ForkDone(t) \/ Clone(t) \/ WaitEnter(t) \/ FindPid(t)
               \/ ProcessSignaled(t) \/ FindAny(t) \/ Interrupted(t) \/ Search(t)
        PROVE  DeathInv'
    BY <1>2, DeathSearch
  <1>3. ASSUME NEW t \in Thread, SemTaken(t) \/ Take(t) PROVE DeathInv'
    BY <1>3, DeathTake
  <1>4. ASSUME NEW t \in Thread, Remove(t) PROVE DeathInv'
    BY <1>4, DeathRemove
  <1>5. ASSUME NEW t \in Thread, Collect(t) PROVE DeathInv'
    BY <1>5, DeathCollect
  <1>6. ASSUME NEW t \in Thread, ForkInit(t) PROVE DeathInv'
    BY <1>6, DeathFork
  <1>7. ASSUME SignalThread PROVE DeathInv'
    BY <1>7, DeathAdd, DeathTold, DeathClose, DeathMark, DeathRelease DEF SignalThread
  <1>8. CASE UNCHANGED vars
    <2>1. /\ UNCHANGED <<alive, pidOf, forked, status, code, next, slot, pc, call, cur>>
          /\ UNCHANGED <<sem, packets, watch, iocp, sigPc, sigSlot>>
      BY <1>8 DEF vars, world, shared, lists, sigvars, locals
    <2>2. Children' = Children /\ Terminated' = Terminated /\ Handled' = Handled
          /\ Pending' = Pending /\ Released' = Released
      BY <2>1 DEF Children, Terminated, Handled, Pending, Pend, NoHang, Released
    <2>3. NewsOK'
      BY <2>1, <2>2 DEF DeathInv, NewsOK
    <2>4. SemMatches'
      <3>1. sem + Released + Cardinality(Pending) = Cardinality(Terminated)
        BY SemForm DEF DeathInv
      <3>2. (sem + Released + Cardinality(Pending) = Cardinality(Terminated))'
        BY <2>1, <2>2, <3>1
      <3> QED BY <3>2 DEF SemMatches, Pending, Pend, Released
    <2> QED BY <2>1, <2>3, <2>4, DeathSignal
  <1> QED BY <1>1, <1>2, <1>3, <1>4, <1>5, <1>6, <1>7, <1>8 DEF Next, Wait

(* The child whose exit status is being collected is not on the list any   *)
(* more, and every living child is.                                        *)
LEMMA CollectsDead == ListsOK /\ DeathInv => ReapsDead
  <1> SUFFICES ASSUME ListsOK, DeathInv, NEW t \in Thread, pc[t] = "wait_collect"
               PROVE  LET s == slot[cur[t]] IN
                      /\ s.hProcess \notin alive
                      /\ pidOf[s.hProcess] = s.pid
                      /\ status[s.pid] # "NOTEXIST"
                      /\ status[s.pid] = "ZOMBIE" => code[s.pid] = s.hProcess
    BY DEF ReapsDead
  <1>1. cur[t] \in Held /\ cur[t] \notin Children
    BY DEF Held, Collected, ListsOK, Places
  <1>2. Stands(cur[t])
    BY <1>1 DEF DeathInv, KidsOK
  <1>3. slot[cur[t]].hProcess \notin alive
    <2> SUFFICES ASSUME slot[cur[t]].hProcess \in alive PROVE FALSE
      OBVIOUS
    <2>1. PICK s \in Children : slot[s].hProcess = slot[cur[t]].hProcess
      BY DEF DeathInv, KidsOK
    <2>2. s = cur[t]
      BY <1>1, <2>1 DEF DeathInv, KidsOK, Held
    <2> QED BY <1>1, <2>1, <2>2
  <1> QED BY <1>2, <1>3 DEF Stands

(* The invariant in full.                                                  *)
LEMMA DeathAlways ==
  OneWaits /\ PidWaitsAlone => (Spec => [](ListsOK /\ DeathInv))
  <1> SUFFICES ASSUME OneWaits, PidWaitsAlone PROVE Spec => [](ListsOK /\ DeathInv)
    OBVIOUS
  <1> DEFINE I == TypeInv /\ LocksOK /\ ListsOK /\ DeathInv
  <1>1. Init => I
    BY TypeInit, ListsInit, DeathInit
  <1>2. I /\ [Next]_vars => I'
    <2> SUFFICES ASSUME I, [Next]_vars PROVE I'
      OBVIOUS
    <2>1. TypeInv'
      BY TypeStep
    <2>2. LocksOK'
      BY LocksStep
    <2>3. ListsOK'
      BY <2>1, ListsStep
    <2>4. DeathInv'
      BY <2>2, DeathStep
    <2> QED BY <2>1, <2>2, <2>3, <2>4
  <1>3. I => ListsOK /\ DeathInv
    OBVIOUS
  <1> QED BY <1>1, <1>2, <1>3, PTL DEF Spec

(* SemMatches of ChildWait, as long as one thread at a time is in wait4    *)
(* and no program that waits for one pid has a second child: the units of  *)
(* process_wait_semaphore, free or taken for a removal that is under way,  *)
(* are as many as the children marked terminated on child_list.            *)
THEOREM SemaphoreCounts == OneWaits /\ PidWaitsAlone => (Spec => []SemMatches)
  <1> SUFFICES ASSUME OneWaits, PidWaitsAlone PROVE Spec => []SemMatches
    OBVIOUS
  <1>1. Spec => [](ListsOK /\ DeathInv)
    BY DeathAlways
  <1>2. ListsOK /\ DeathInv => SemMatches
    BY DEF DeathInv
  <1> QED BY <1>1, <1>2, PTL

(* ReapsDead of ChildWait under the same conditions: process_wait reports  *)
(* a child that is dead and was not reported before, with the exit code    *)
(* that this very child left in the process table.                         *)
THEOREM WaitsReapDead == OneWaits /\ PidWaitsAlone => (Spec => []ReapsDead)
  <1> SUFFICES ASSUME OneWaits, PidWaitsAlone PROVE Spec => []ReapsDead
    OBVIOUS
  <1>1. Spec => [](ListsOK /\ DeathInv)
    BY DeathAlways
  <1> QED BY <1>1, CollectsDead, PTL
=============================================================================
