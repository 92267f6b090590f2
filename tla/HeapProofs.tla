----------------------------- MODULE HeapProofs -----------------------------
(***************************************************************************)
(* Theorems about Heap and Shared for any number of blocks, processes and  *)
(* pools, any sizes of objects and requests: no object has two owners      *)
(* (PoolsExact, SharedExact; heap.c, shared.c).                            *)
(*                                                                         *)
(* Heap.  The invariant says bucket by bucket what kmalloc and kfree need: *)
(* the free objects of a pool are distinct addresses of its own block, not *)
(* in use, and its counter is what is left of a fresh block (HeapInv).     *)
(*                                                                         *)
(* Shared.  A process may die between any two stores, so the invariant is  *)
(* about every place in kmalloc_shared (Busy): what the descriptors, the   *)
(* section and the views are like there.  Three facts carry it.  The list  *)
(* of pools never closes on itself (ChainApart), so that there is always   *)
(* an end to hang a new pool on, and a store into a descriptor that is not *)
(* on the list does not change it.  The free list of a section only gets   *)
(* shorter from its head, so that the slots handed out are those before it *)
(* (Below).  And a section that is not ready is mapped by nobody but the   *)
(* process at work on it (ViewSound), so that it goes when that one dies.  *)
(***************************************************************************)
EXTENDS Heaps, FiniteSetTheorems, SequenceTheorems, WellFoundedInduction, TLAPS

-----------------------------------------------------------------------------
(* Sequences without repetition, and the least of a set of numbers.        *)

LEMMA TailOfDistinct ==
  ASSUME NEW S, NEW s \in Seq(S), s # << >>, SX!IsInjective(s)
  PROVE  /\ Head(s) \in SX!ToSet(s) /\ Head(s) \in S /\ Tail(s) \in Seq(S)
         /\ SX!IsInjective(Tail(s)) /\ SX!ToSet(Tail(s)) = SX!ToSet(s) \ {Head(s)}
  <1>1. /\ Tail(s) \in Seq(S) /\ Len(Tail(s)) = Len(s) - 1 /\ Len(s) \in Nat /\ Len(s) > 0
        /\ DOMAIN s = 1 .. Len(s) /\ DOMAIN Tail(s) = 1 .. (Len(s) - 1)
        /\ \A i \in 1 .. (Len(s) - 1) : Tail(s)[i] = s[i + 1]
        /\ Head(s) = s[1]
    BY HeadTailProperties, LenProperties, EmptySeq
  <1>2. 1 \in DOMAIN s
    BY <1>1
  <1>3. Head(s) \in SX!ToSet(s) /\ Head(s) \in S
    BY <1>1, <1>2, ElementOfSeq DEF SX!ToSet
  <1>4. SX!IsInjective(Tail(s))
    <2> SUFFICES ASSUME NEW i \in 1 .. (Len(s) - 1), NEW j \in 1 .. (Len(s) - 1), Tail(s)[i] = Tail(s)[j]
                 PROVE  i = j
      BY <1>1 DEF SX!IsInjective
    <2>1. i + 1 \in DOMAIN s /\ j + 1 \in DOMAIN s /\ s[i + 1] = s[j + 1]
      BY <1>1
    <2>2. i + 1 = j + 1
      BY <2>1 DEF SX!IsInjective
    <2> QED BY <2>2
  <1>5. SX!ToSet(Tail(s)) \subseteq SX!ToSet(s) \ {Head(s)}
    <2> SUFFICES ASSUME NEW i \in 1 .. (Len(s) - 1)
                 PROVE  Tail(s)[i] \in SX!ToSet(s) /\ Tail(s)[i] # Head(s)
      BY <1>1 DEF SX!ToSet
    <2>1. i + 1 \in DOMAIN s /\ Tail(s)[i] = s[i + 1] /\ i + 1 # 1
      BY <1>1
    <2>2. s[i + 1] # s[1]
      BY <1>2, <2>1 DEF SX!IsInjective
    <2> QED BY <1>1, <2>1, <2>2 DEF SX!ToSet
  <1>6. SX!ToSet(s) \ {Head(s)} \subseteq SX!ToSet(Tail(s))
    <2> SUFFICES ASSUME NEW i \in DOMAIN s, s[i] # Head(s)
                 PROVE  s[i] \in SX!ToSet(Tail(s))
      BY DEF SX!ToSet
    <2>1. i # 1 /\ i \in 1 .. Len(s)
      BY <1>1
    <2>2. i - 1 \in 1 .. (Len(s) - 1) /\ Tail(s)[i - 1] = s[i]
      BY <1>1, <2>1
    <2> QED BY <1>1, <2>2 DEF SX!ToSet
  <1> QED BY <1>1, <1>3, <1>4, <1>5, <1>6

LEMMA ConsOfDistinct ==
  ASSUME NEW S, NEW s \in Seq(S), SX!IsInjective(s), NEW x \in S, x \notin SX!ToSet(s)
  PROVE  /\ <<x>> \o s \in Seq(S) /\ <<x>> \o s # << >>
         /\ SX!IsInjective(<<x>> \o s) /\ SX!ToSet(<<x>> \o s) = SX!ToSet(s) \cup {x}
  <1> DEFINE r == <<x>> \o s
  <1>1. <<x>> \in Seq(S) /\ Len(<<x>>) = 1 /\ <<x>>[1] = x
    OBVIOUS
  <1>2. /\ r \in Seq(S) /\ Len(r) = Len(s) + 1 /\ Len(s) \in Nat
        /\ DOMAIN r = 1 .. Len(r) /\ DOMAIN s = 1 .. Len(s)
        /\ r[1] = x /\ \A i \in 2 .. Len(r) : r[i] = s[i - 1]
    BY <1>1, ConcatProperties, LenProperties
  <1> HIDE DEF r
  <1>3. \A i \in 2 .. Len(r) : i - 1 \in DOMAIN s /\ r[i] = s[i - 1] /\ r[i] # x
    BY <1>2 DEF SX!ToSet
  <1>4. SX!IsInjective(r)
    <2> SUFFICES ASSUME NEW i \in 1 .. Len(r), NEW j \in 1 .. Len(r), r[i] = r[j]
                 PROVE  i = j
      BY <1>2 DEF SX!IsInjective
    <2>1. CASE i = 1 \/ j = 1
      BY <1>2, <1>3, <2>1
    <2>2. CASE i # 1 /\ j # 1
      <3>1. i \in 2 .. Len(r) /\ j \in 2 .. Len(r)
        BY <2>2
      <3>2. i - 1 = j - 1
        BY <1>3, <3>1 DEF SX!IsInjective
      <3> QED BY <3>2
    <2> QED BY <2>1, <2>2
  <1>5. SX!ToSet(r) \subseteq SX!ToSet(s) \cup {x}
    <2> SUFFICES ASSUME NEW i \in 1 .. Len(r), i # 1 PROVE r[i] \in SX!ToSet(s)
      BY <1>2 DEF SX!ToSet
    <2>1. i \in 2 .. Len(r)
      BY <1>2
    <2> QED BY <1>3, <2>1 DEF SX!ToSet
  <1>6. x \in SX!ToSet(r)
    BY <1>2 DEF SX!ToSet
  <1>7. SX!ToSet(s) \subseteq SX!ToSet(r)
    <2> SUFFICES ASSUME NEW i \in 1 .. Len(s) PROVE s[i] \in SX!ToSet(r)
      BY <1>2 DEF SX!ToSet
    <2>1. i + 1 \in 2 .. Len(r) /\ r[i + 1] = s[i]
      BY <1>2
    <2> QED BY <1>2, <2>1 DEF SX!ToSet
  <1>8. r # << >>
    BY <1>2
  <1> QED BY <1>2, <1>4, <1>5, <1>6, <1>7, <1>8 DEF r

LEMMA LeastIsIn ==
  ASSUME NEW K \in SUBSET Nat, K # {}
  PROVE  FX!Min(K) \in K /\ \A k \in K : FX!Min(K) <= k
  <1> DEFINE R == {ij \in Nat \X Nat : ij[1] < ij[2]}
  <1>1. IsWellFoundedOn(R, Nat)
    BY NatLessThanWellFounded DEF OpToRel
  <1>2. \A j, k \in Nat : <<j, k>> \notin R => k <= j
    OBVIOUS
  <1> HIDE DEF R
  <1>3. PICK k \in K : \A j \in K : <<j, k>> \notin R
    BY <1>1, WFMin
  <1>4. \A j \in K : k <= j
    BY <1>2, <1>3
  <1> QED BY <1>4 DEF FX!Min

-----------------------------------------------------------------------------
(* A bucket.                                                               *)

(* The addresses of a block are its own.                                   *)
LEMMA InBlock ==
  ASSUME NEW b \in Nat, NEW x \in 0 .. BlockSize - 1
  PROVE  (b * BlockSize + x) \div BlockSize = b
  BY HeapAssumption, SMT

LEMMA Multiples ==
  ASSUME NEW n \in Nat, n > 0, NEW i \in Nat
  PROVE  i * n \in Nat /\ i * n >= i /\ \A j \in Nat : i < j => i * n < j * n
  BY SMT

(* The objects of a fresh block: at least one, each at an address of its   *)
(* own in the block.                                                       *)
LEMMA SlotsFacts ==
  ASSUME NEW b \in Block, NEW n \in Nat \ {0}
  PROVE  /\ Slots(b, n) \in Seq(Int) /\ Slots(b, n) # << >> /\ SX!IsInjective(Slots(b, n))
         /\ \A x \in SX!ToSet(Slots(b, n)) : x \div BlockSize = b
  <1> DEFINE K == {k \in 1 .. BlockSize : HeaderSize + k * n >= BlockSize}
             count == FX!Min(K)
             s == Slots(b, n)
             start == b * BlockSize + HeaderSize
  <1>1. /\ b \in Nat /\ BlockSize \in Nat /\ HeaderSize \in Nat /\ HeaderSize < BlockSize
        /\ n \in Nat /\ n > 0 /\ b * BlockSize \in Nat
    BY HeapAssumption, SMT
  <1>2. BlockSize \in K
    <2>1. BlockSize * n >= BlockSize /\ BlockSize * n \in Nat
      BY <1>1, Multiples
    <2> QED BY <1>1, <2>1
  <1>3. count \in K /\ \A k \in K : count <= k
    <2>1. K \in SUBSET Nat
      BY <1>1
    <2> HIDE DEF K
    <2> QED BY <1>2, <2>1, LeastIsIn
  <1>4. count \in Nat /\ count >= 1 /\ count <= BlockSize
    BY <1>1, <1>3
  <1>5. ASSUME NEW i \in 1 .. count PROVE HeaderSize + (i - 1) * n \in 0 .. BlockSize - 1
    <2> HIDE DEF count
    <2>1. (i - 1) * n \in Nat
      BY <1>1, <1>4, Multiples
    <2>2. CASE i = 1
      BY <1>1, <2>2
    <2>3. CASE i # 1
      <3>1. i - 1 \in 1 .. BlockSize /\ ~(count <= i - 1)
        BY <1>1, <1>4, <2>3
      <3>2. i - 1 \notin K
        BY <1>3, <3>1
      <3>3. ~(HeaderSize + (i - 1) * n >= BlockSize)
        BY <3>1, <3>2
      <3> QED BY <1>1, <2>1, <3>3
    <2> QED BY <2>2, <2>3
  <1>6. s = [i \in 1 .. count |-> start + (i - 1) * n]
    BY DEF Slots
  <1> HIDE DEF count, s, K
  <1>7. \A i \in 1 .. count : i - 1 \in Nat /\ (i - 1) * n \in Int
    BY <1>1, <1>4, Multiples
  <1>8. s \in [1 .. count -> Int]
    BY <1>1, <1>6, <1>7
  <1>9. s \in Seq(Int) /\ Len(s) = count /\ DOMAIN s = 1 .. count
    BY <1>4, <1>8, IsASeq, LenProperties
  <1>10. s # << >>
    BY <1>4, <1>9
  <1>11. SX!IsInjective(s)
    <2> SUFFICES ASSUME NEW i \in 1 .. count, NEW j \in 1 .. count, i < j
                 PROVE  s[i] # s[j]
      BY <1>4, <1>9 DEF SX!IsInjective
    <2>1. (i - 1) * n < (j - 1) * n
      BY <1>1, <1>4, <1>7, Multiples
    <2>2. s[i] = start + (i - 1) * n /\ s[j] = start + (j - 1) * n
      BY <1>6
    <2> QED BY <1>1, <1>7, <2>1, <2>2
  <1>12. ASSUME NEW i \in 1 .. count PROVE s[i] \div BlockSize = b
    <2> DEFINE x == HeaderSize + (i - 1) * n
    <2>1. x \in 0 .. BlockSize - 1
      BY <1>5
    <2>2. s[i] = b * BlockSize + x
      BY <1>1, <1>6, <1>7
    <2> HIDE DEF x
    <2> QED BY <1>1, <2>1, <2>2, InBlock
  <1>13. \A x \in SX!ToSet(s) : x \div BlockSize = b
    BY <1>9, <1>12 DEF SX!ToSet
  <1> QED BY <1>9, <1>10, <1>11, <1>13 DEF s

BucketType == [at : Block, ref_cnt : Int, first_free : Seq(Int)]
ObjectType == [at : Int, size : Request]
Pools      == 1 .. POOL_COUNT

(* The objects of block a that callers have, and where they are.           *)
UsedOf(a, L) == {o \in L : o.at \div BlockSize = a}
Ats(O)       == {o.at : o \in O}

(* What a bucket of pool p says of the objects in use.                     *)
BucketExact(b, p, L) ==
  /\ b \in BucketType
  /\ b.ref_cnt = Cardinality(UsedOf(b.at, L))
  /\ SX!IsInjective(b.first_free)
  /\ SX!ToSet(b.first_free) \cup Ats(UsedOf(b.at, L)) = SX!ToSet(Slots(b.at, ObjSize[p]))
  /\ SX!ToSet(b.first_free) \cap Ats(UsedOf(b.at, L)) = {}
  /\ \A o \in UsedOf(b.at, L) : PoolOf(o.size) = p

(* The objects in use are finitely many, and no two are at one address.    *)
LiveOK(L) ==
  /\ L \subseteq ObjectType /\ IsFiniteSet(L)
  /\ \A o, u \in L : o.at = u.at => o = u

(* A pool has an object size, and a size at most one pool.                 *)
LEMMA PoolFacts ==
  /\ \A p \in Pools : ObjSize[p] \in Nat \ {0}
  /\ \A size : PoolOf(size) # -1 => PoolOf(size) \in Pools
  <1>1. POOL_COUNT \in Nat /\ \A p \in Pools : ObjSize[p] \in Nat \ {0}
    BY HeapAssumption, LenProperties, ElementOfSeq DEF POOL_COUNT, Pools
  <1>2. ASSUME NEW size, PoolOf(size) # -1 PROVE PoolOf(size) \in Pools
    <2> DEFINE fit == {i \in 1 .. POOL_COUNT : size <= ObjSize[i]}
    <2>1. fit \subseteq Pools /\ fit \in SUBSET Nat
      BY <1>1 DEF Pools
    <2>2. fit # {} /\ PoolOf(size) = FX!Min(fit)
      BY <1>2 DEF PoolOf
    <2> HIDE DEF fit
    <2>3. FX!Min(fit) \in fit
      BY <2>1, <2>2, LeastIsIn
    <2> QED BY <2>1, <2>2, <2>3
  <1> QED BY <1>1, <1>2

LEMMA UsedFacts ==
  ASSUME NEW L, LiveOK(L), NEW a
  PROVE  /\ UsedOf(a, L) \subseteq L /\ IsFiniteSet(UsedOf(a, L))
         /\ Cardinality(UsedOf(a, L)) \in Nat
         /\ Cardinality(UsedOf(a, L)) = 0 <=> UsedOf(a, L) = {}
  <1>1. UsedOf(a, L) \subseteq L
    BY DEF UsedOf
  <1>2. IsFiniteSet(UsedOf(a, L))
    BY <1>1, FS_Subset DEF LiveOK
  <1> QED BY <1>1, <1>2, FS_CardinalityType, FS_EmptySet

(* A fresh bucket of a block in which no object is in use.                 *)
LEMMA FreshBucket ==
  ASSUME NEW p \in Pools, NEW a \in Block, NEW L, UsedOf(a, L) = {}
  PROVE  /\ BucketExact(alloc_bucket(a, ObjSize[p]), p, L)
         /\ alloc_bucket(a, ObjSize[p]).at = a
         /\ alloc_bucket(a, ObjSize[p]).first_free # << >>
  <1> DEFINE s == Slots(a, ObjSize[p])
             b == alloc_bucket(a, ObjSize[p])
  <1>1. s \in Seq(Int) /\ s # << >> /\ SX!IsInjective(s)
    BY PoolFacts, SlotsFacts
  <1>2. b = [at |-> a, ref_cnt |-> 0, first_free |-> s]
    BY DEF alloc_bucket
  <1> HIDE DEF s, b
  <1>3. b \in BucketType /\ b.at = a /\ b.ref_cnt = 0 /\ b.first_free = s
    BY <1>1, <1>2 DEF BucketType
  <1>4. Cardinality(UsedOf(b.at, L)) = 0 /\ Ats(UsedOf(b.at, L)) = {}
    BY <1>3, FS_EmptySet DEF Ats
  <1>5. s = Slots(b.at, ObjSize[p])
    BY <1>3 DEF s
  <1>6. UsedOf(b.at, L) = {}
    BY <1>3
  <1>7. BucketExact(b, p, L)
    BY <1>1, <1>3, <1>4, <1>5, <1>6 DEF BucketExact
  <1> QED BY <1>1, <1>3, <1>7 DEF b

(* What others take and give leaves a bucket exact.                        *)
LEMMA BucketFrame ==
  ASSUME NEW b, NEW p, NEW L, NEW M, BucketExact(b, p, L), UsedOf(b.at, M) = UsedOf(b.at, L)
  PROVE  BucketExact(b, p, M)
  BY DEF BucketExact

Updated(b, f, n) == [b EXCEPT !.first_free = f, !.ref_cnt = n]

LEMMA UpdatedBucket ==
  ASSUME NEW b \in BucketType, NEW f, f \in Seq(Int), NEW n, n \in Int
  PROVE  /\ Updated(b, f, n) \in BucketType /\ Updated(b, f, n).at = b.at
         /\ Updated(b, f, n).ref_cnt = n /\ Updated(b, f, n).first_free = f
  BY DEF BucketType, Updated

Object(at, size) == [at |-> at, size |-> size]

Taken(b) == [b EXCEPT !.first_free = Tail(@), !.ref_cnt = @ + 1]
Given(b, at) == [b EXCEPT !.first_free = <<at>> \o @, !.ref_cnt = @ - 1]

TakenExactly(p, L, b, o) ==
  /\ BucketExact(Taken(b), p, L \cup {o}) /\ Taken(b).at = b.at /\ Taken(b).ref_cnt > 0
  /\ LiveOK(L \cup {o}) /\ o.at \div BlockSize = b.at
  /\ \A a : a # b.at => UsedOf(a, L \cup {o}) = UsedOf(a, L)

(* An object leaves the free list of its bucket.                           *)
LEMMA TakeBucket ==
  ASSUME NEW p \in Pools, NEW L, LiveOK(L), NEW b, BucketExact(b, p, L), b.first_free # << >>,
         NEW size \in Request, PoolOf(size) = p,
         NEW o, o = Object(Head(b.first_free), size)
  PROVE  TakenExactly(p, L, b, o)
  <1> DEFINE f == b.first_free
             U == UsedOf(b.at, L)
             M == L \cup {o}
  <1>1. /\ b.at \in Block /\ b.ref_cnt \in Int /\ f \in Seq(Int) /\ f # << >> /\ SX!IsInjective(f)
        /\ b.ref_cnt = Cardinality(U)
        /\ SX!ToSet(f) \cup Ats(U) = SX!ToSet(Slots(b.at, ObjSize[p]))
        /\ SX!ToSet(f) \cap Ats(U) = {} /\ \A u \in U : PoolOf(u.size) = p
    BY DEF BucketExact, BucketType
  <1>2. o.at = Head(f) /\ o.size = size /\ o = [at |-> Head(f), size |-> size]
    BY DEF Object
  <1>3. /\ Head(f) \in SX!ToSet(f) /\ Head(f) \in Int /\ Tail(f) \in Seq(Int)
        /\ SX!IsInjective(Tail(f)) /\ SX!ToSet(Tail(f)) = SX!ToSet(f) \ {Head(f)}
    BY <1>1, TailOfDistinct
  <1>4. o.at \div BlockSize = b.at
    BY <1>1, <1>2, <1>3, PoolFacts, SlotsFacts
  <1>5. \A u \in L : u.at # o.at
    BY <1>1, <1>2, <1>3, <1>4 DEF UsedOf, Ats
  <1>6. o \in ObjectType
    BY <1>2, <1>3 DEF ObjectType
  <1>7. o \notin L /\ LiveOK(M)
    BY <1>5, <1>6, FS_AddElement DEF LiveOK
  <1>8. UsedOf(b.at, M) = U \cup {o} /\ o \notin U
    BY <1>4, <1>5 DEF UsedOf
  <1>9. Cardinality(UsedOf(b.at, M)) = Cardinality(U) + 1 /\ Cardinality(U) \in Nat
    <2>1. IsFiniteSet(U) /\ Cardinality(U) \in Nat
      BY UsedFacts
    <2> HIDE DEF U
    <2> QED BY <1>8, <2>1, FS_AddElement
  <1>10. Ats(UsedOf(b.at, M)) = Ats(U) \cup {Head(f)}
    BY <1>2, <1>8 DEF Ats
  <1>11. /\ Taken(b) \in BucketType /\ Taken(b).at = b.at /\ Taken(b).ref_cnt = b.ref_cnt + 1
         /\ Taken(b).first_free = Tail(f)
    <2>1. b \in BucketType
      BY DEF BucketExact
    <2> DEFINE t == Tail(f)
               n == b.ref_cnt + 1
    <2>2. n \in Int /\ Taken(b) = Updated(b, t, n) /\ t \in Seq(Int)
      BY <1>1, <1>3 DEF Taken, Updated
    <2> HIDE DEF t, n
    <2>3. /\ Updated(b, t, n) \in BucketType /\ Updated(b, t, n).at = b.at
          /\ Updated(b, t, n).ref_cnt = n /\ Updated(b, t, n).first_free = t
      BY <2>1, <2>2, UpdatedBucket
    <2> QED BY <2>2, <2>3 DEF t, n
  <1>12. \A u \in UsedOf(b.at, M) : PoolOf(u.size) = p
    BY <1>1, <1>2, <1>8
  <1>13. \A a : a # b.at => UsedOf(a, M) = UsedOf(a, L)
    BY <1>4 DEF UsedOf
  <1> HIDE DEF f, U, M
  <1>14. /\ SX!ToSet(Tail(f)) \cup Ats(UsedOf(b.at, M)) = SX!ToSet(Slots(b.at, ObjSize[p]))
         /\ SX!ToSet(Tail(f)) \cap Ats(UsedOf(b.at, M)) = {}
    BY <1>1, <1>3, <1>10
  <1>15. BucketExact(Taken(b), p, M)
    BY <1>1, <1>3, <1>9, <1>11, <1>12, <1>14 DEF BucketExact
  <1>16. Taken(b).ref_cnt > 0
    BY <1>1, <1>9, <1>11
  <1> QED BY <1>4, <1>7, <1>11, <1>13, <1>15, <1>16 DEF M, TakenExactly

GivenExactly(p, L, b, o) ==
  /\ BucketExact(Given(b, o.at), p, L \ {o}) /\ Given(b, o.at).at = b.at
  /\ LiveOK(L \ {o})
  /\ \A a : a # b.at => UsedOf(a, L \ {o}) = UsedOf(a, L)

(* It is put back.                                                         *)
LEMMA GiveBucket ==
  ASSUME NEW p \in Pools, NEW L, LiveOK(L), NEW b, BucketExact(b, p, L),
         NEW o \in L, o.at \div BlockSize = b.at
  PROVE  GivenExactly(p, L, b, o)
  <1> DEFINE f == b.first_free
             U == UsedOf(b.at, L)
             M == L \ {o}
             x == o.at
  <1>1. /\ b.at \in Block /\ b.ref_cnt \in Int /\ f \in Seq(Int) /\ SX!IsInjective(f)
        /\ b.ref_cnt = Cardinality(U)
        /\ SX!ToSet(f) \cup Ats(U) = SX!ToSet(Slots(b.at, ObjSize[p]))
        /\ SX!ToSet(f) \cap Ats(U) = {} /\ \A u \in U : PoolOf(u.size) = p
    BY DEF BucketExact, BucketType
  <1>2. o \in U /\ x \in Ats(U) /\ x \in Int
    BY DEF UsedOf, Ats, LiveOK, ObjectType
  <1>3. x \notin SX!ToSet(f)
    BY <1>1, <1>2
  <1>4. /\ <<x>> \o f \in Seq(Int) /\ SX!IsInjective(<<x>> \o f)
        /\ SX!ToSet(<<x>> \o f) = SX!ToSet(f) \cup {x}
    BY <1>1, <1>2, <1>3, ConsOfDistinct
  <1>5. LiveOK(M)
    BY FS_Subset DEF LiveOK
  <1>6. UsedOf(b.at, M) = U \ {o}
    BY DEF UsedOf
  <1>7. Cardinality(U \ {o}) = Cardinality(U) - 1
    BY <1>2, UsedFacts, FS_RemoveElement
  <1>8. Ats(U \ {o}) = Ats(U) \ {x}
    <2>1. \A u \in U : u.at = x => u = o
      BY DEF LiveOK, UsedOf
    <2> QED BY <1>2, <2>1 DEF Ats
  <1>9. /\ Given(b, x) \in BucketType /\ Given(b, x).at = b.at /\ Given(b, x).ref_cnt = b.ref_cnt - 1
        /\ Given(b, x).first_free = <<x>> \o f
    <2>1. b \in BucketType
      BY DEF BucketExact
    <2> DEFINE t == <<x>> \o f
               n == b.ref_cnt - 1
    <2>2. n \in Int /\ Given(b, x) = Updated(b, t, n) /\ t \in Seq(Int)
      BY <1>1, <1>4 DEF Given, Updated
    <2> HIDE DEF t, n
    <2>3. /\ Updated(b, t, n) \in BucketType /\ Updated(b, t, n).at = b.at
          /\ Updated(b, t, n).ref_cnt = n /\ Updated(b, t, n).first_free = t
      BY <2>1, <2>2, UpdatedBucket
    <2> QED BY <2>2, <2>3 DEF t, n
  <1>10. \A u \in UsedOf(b.at, M) : PoolOf(u.size) = p
    BY <1>1, <1>6
  <1>11. \A a : a # b.at => UsedOf(a, M) = UsedOf(a, L)
    BY DEF UsedOf
  <1> HIDE DEF f, U, M, x
  <1>12. /\ SX!ToSet(<<x>> \o f) \cup Ats(UsedOf(b.at, M)) = SX!ToSet(Slots(b.at, ObjSize[p]))
         /\ SX!ToSet(<<x>> \o f) \cap Ats(UsedOf(b.at, M)) = {}
    BY <1>1, <1>2, <1>3, <1>4, <1>6, <1>8
  <1>13. BucketExact(Given(b, x), p, M)
    BY <1>1, <1>4, <1>6, <1>7, <1>9, <1>10, <1>12 DEF BucketExact
  <1> QED BY <1>5, <1>9, <1>11, <1>13 DEF M, x, GivenExactly

-----------------------------------------------------------------------------
(* The pools.                                                              *)

(* Buckets are where they say, each block has one, and one is unmapped     *)
(* with its last object.                                                   *)
ChainExact(c, p, L) ==
  /\ c \in Seq(BucketType)
  /\ \A i \in DOMAIN c : BucketExact(c[i], p, L)

BlocksDistinct(P) ==
  \A p, q \in Pools : \A i \in DOMAIN P[p], j \in DOMAIN P[q] :
    P[p][i].at = P[q][j].at => p = q /\ i = j

HeapInv ==
  /\ pools \in [Pools -> Seq(BucketType)] /\ LiveOK(live)
  /\ \A p \in Pools : ChainExact(pools[p], p, live) /\ \A i \in DOMAIN pools[p] : pools[p][i].ref_cnt > 0
  /\ BlocksDistinct(pools)
  /\ \A o \in live : o.at \div BlockSize \in Mapped

LEMMA HeapInvInit == HeapInit => HeapInv
  <1> SUFFICES ASSUME HeapInit PROVE HeapInv
    OBVIOUS
  <1>1. DOMAIN pools = Pools /\ live = {} /\ \A p \in Pools : pools[p] = << >>
    BY DEF HeapInit, Pools
  <1>2. DOMAIN << >> = {} /\ << >> \in Seq(BucketType)
    OBVIOUS
  <1>3. LiveOK(live)
    BY <1>1, FS_EmptySet DEF LiveOK
  <1>4. pools \in [Pools -> Seq(BucketType)]
    BY <1>2 DEF HeapInit, Pools
  <1> QED BY <1>1, <1>2, <1>3, <1>4 DEF HeapInv, ChainExact, BlocksDistinct

LEMMA HeapInvExact == HeapInv => PoolsExact
  <1> SUFFICES ASSUME HeapInv PROVE PoolsExact
    OBVIOUS
  <1>1. ASSUME NEW p \in Pools, NEW i \in DOMAIN pools[p]
        PROVE  LET b == pools[p][i]
                   used == {o \in live : o.at \div BlockSize = b.at}
               IN  /\ b.ref_cnt = Cardinality(used) /\ b.ref_cnt > 0
                   /\ SX!IsInjective(b.first_free)
                   /\ SX!ToSet(b.first_free) \cup {o.at : o \in used} = SX!ToSet(Slots(b.at, ObjSize[p]))
                   /\ SX!ToSet(b.first_free) \cap {o.at : o \in used} = {}
                   /\ \A o \in used : PoolOf(o.size) = p
    <2>1. BucketExact(pools[p][i], p, live) /\ pools[p][i].ref_cnt > 0
      BY DEF HeapInv, ChainExact
    <2> QED BY <2>1 DEF BucketExact, UsedOf, Ats
  <1>2. \A o \in live : o.at \div BlockSize \in Mapped
    BY DEF HeapInv
  <1>3. \A p, q \in Pools : \A i \in DOMAIN pools[p], j \in DOMAIN pools[q] :
          pools[p][i].at = pools[q][j].at => p = q /\ i = j
    BY DEF HeapInv, BlocksDistinct
  <1> QED BY ONLY <1>1, <1>2, <1>3 DEF PoolsExact, Pools

(* An object is taken from bucket i of chain c, which is the one of pool p *)
(* or that with a fresh bucket.                                            *)
LEMMA TakeKeeps ==
  ASSUME HeapInv, NEW size \in Request, NEW p, p = PoolOf(size), p # -1,
         NEW c, ChainExact(c, p, live), NEW i \in DOMAIN c, c[i].first_free # << >>,
         BlocksDistinct([pools EXCEPT ![p] = c]),
         \A j \in DOMAIN c : j # i => c[j].ref_cnt > 0,
         \A j \in DOMAIN pools[p] : \E k \in DOMAIN c : c[k].at = pools[p][j].at,
         Take(c, i, size)
  PROVE  HeapInv'
  <1> DEFINE b == c[i]
             o == [at |-> Head(b.first_free), size |-> size]
             M == live \cup {o}
             d == [c EXCEPT ![i] = Taken(b)]
  <1>1. p \in Pools /\ DOMAIN pools = Pools /\ LiveOK(live)
    BY PoolFacts DEF HeapInv
  <1>2. BucketExact(b, p, live) /\ b \in BucketType
    BY DEF ChainExact, BucketExact
  <1>3. live' = M /\ pools' = [pools EXCEPT ![p] = d]
    BY DEF Take, Taken
  <1>4. /\ BucketExact(Taken(b), p, M) /\ Taken(b).at = b.at /\ Taken(b).ref_cnt > 0
        /\ LiveOK(M) /\ o.at \div BlockSize = b.at
        /\ \A a : a # b.at => UsedOf(a, M) = UsedOf(a, live)
    <2>1. /\ p \in Pools /\ LiveOK(live) /\ BucketExact(b, p, live) /\ b.first_free # << >>
          /\ size \in Request /\ PoolOf(size) = p
          /\ o = Object(Head(b.first_free), size)
      BY <1>1, <1>2 DEF Object
    <2> HIDE DEF b, o
    <2>2. TakenExactly(p, live, b, o)
      BY ONLY <2>1, TakeBucket
    <2> QED BY <2>2 DEF TakenExactly
  <1>5. Taken(b) \in BucketType
    BY <1>4 DEF BucketExact
  <1>6. /\ d \in Seq(BucketType) /\ DOMAIN d = DOMAIN c /\ d[i] = Taken(b)
        /\ \A j \in DOMAIN c : j # i => d[j] = c[j]
    BY <1>5, ExceptSeq DEF ChainExact
  <1>7. /\ pools' \in [Pools -> Seq(BucketType)] /\ pools'[p] = d
        /\ \A q \in Pools : q # p => pools'[q] = pools[q]
    BY <1>1, <1>3, <1>6 DEF HeapInv
  <1> HIDE DEF b, o, M, d
  <1>8. \A j \in DOMAIN c : d[j].at = c[j].at
    BY <1>4, <1>6 DEF b
  <1>9. \A q \in Pools : \A j : q # p /\ j \in DOMAIN pools[q] => pools[q][j].at # b.at
    BY <1>1 DEF BlocksDistinct, b
  <1>10. \A j \in DOMAIN c : j # i => c[j].at # b.at
    BY <1>1 DEF BlocksDistinct, b
  <1>11. ChainExact(d, p, M) /\ \A j \in DOMAIN d : d[j].ref_cnt > 0
    <2>1. ASSUME NEW j \in DOMAIN c PROVE BucketExact(d[j], p, M) /\ d[j].ref_cnt > 0
      <3>1. CASE j = i
        BY <1>4, <1>6, <3>1
      <3>2. CASE j # i
        <4>1. BucketExact(c[j], p, live) /\ UsedOf(c[j].at, M) = UsedOf(c[j].at, live)
          BY <1>4, <1>10, <3>2 DEF ChainExact
        <4> QED BY <1>6, <3>2, <4>1, BucketFrame
      <3> QED BY <3>1, <3>2
    <2> QED BY <1>6, <2>1 DEF ChainExact
  <1>12. ASSUME NEW q \in Pools, q # p
         PROVE  ChainExact(pools[q], q, M) /\ \A j \in DOMAIN pools[q] : pools[q][j].ref_cnt > 0
    <2>1. ChainExact(pools[q], q, live) /\ \A j \in DOMAIN pools[q] : pools[q][j].ref_cnt > 0
      BY DEF HeapInv
    <2>2. \A j \in DOMAIN pools[q] : UsedOf(pools[q][j].at, M) = UsedOf(pools[q][j].at, live)
      BY <1>4, <1>9, <1>12
    <2> QED BY <2>1, <2>2, BucketFrame DEF ChainExact
  <1>13. BlocksDistinct(pools')
    <2> DEFINE e == [pools EXCEPT ![p] = c]
    <2>1. \A q \in Pools : DOMAIN pools'[q] = DOMAIN e[q] /\ \A j \in DOMAIN e[q] : pools'[q][j].at = e[q][j].at
      BY <1>1, <1>6, <1>7, <1>8
    <2>2. BlocksDistinct(e)
      OBVIOUS
    <2> HIDE DEF e
    <2> QED BY <2>1, <2>2 DEF BlocksDistinct
  <1>14. Mapped \subseteq Mapped' /\ b.at \in Mapped'
    <2>1. ASSUME NEW q \in Pools, NEW j \in DOMAIN pools[q]
          PROVE  \E k \in DOMAIN pools'[q] : pools'[q][k].at = pools[q][j].at
      <3>1. CASE q = p
        BY <1>6, <1>7, <1>8, <3>1
      <3>2. CASE q # p
        BY <1>7, <3>2
      <3> QED BY <3>1, <3>2
    <2>2. Mapped \subseteq Mapped'
      BY <2>1 DEF Mapped, Pools
    <2>3. i \in DOMAIN pools'[p] /\ pools'[p][i].at = b.at
      BY <1>6, <1>7, <1>8 DEF b
    <2>4. b.at \in Mapped'
      BY <1>1, <2>3 DEF Mapped, Pools
    <2> QED BY <2>2, <2>4
  <1>15. \A u \in M : u.at \div BlockSize \in Mapped'
    BY <1>4, <1>14 DEF M, HeapInv
  <1> QED BY <1>3, <1>4, <1>7, <1>11, <1>12, <1>13, <1>15 DEF HeapInv

(* kmalloc takes from a bucket of the pool, or from a fresh one.           *)
LEMMA KmallocKeeps ==
  ASSUME HeapInv, NEW size \in Request, kmalloc(size)
  PROVE  HeapInv'
  <1> DEFINE p == PoolOf(size)
             usable == {i \in DOMAIN pools[p] : pools[p][i].first_free # << >>}
  <1>1. p # -1 /\ p \in Pools /\ DOMAIN pools = Pools /\ ChainExact(pools[p], p, live)
    BY PoolFacts DEF kmalloc, HeapInv
  <1>2. Len(pools[p]) \in Nat /\ DOMAIN pools[p] = 1 .. Len(pools[p]) /\ pools[p] \in Seq(BucketType)
    BY <1>1, LenProperties DEF ChainExact
  <1>3. CASE usable # {} /\ Take(pools[p], FX!Min(usable), size)
    <2> DEFINE i == FX!Min(usable)
    <2>1. usable \in SUBSET Nat
      BY <1>2
    <2>2. i \in usable
      <3> HIDE DEF usable
      <3> QED BY <1>3, <2>1, LeastIsIn
    <2>3. [pools EXCEPT ![p] = pools[p]] = pools
      BY <1>1 DEF HeapInv
    <2>4. BlocksDistinct([pools EXCEPT ![p] = pools[p]])
      BY <2>3 DEF HeapInv
    <2>5. \A j \in DOMAIN pools[p] : pools[p][j].ref_cnt > 0
      BY <1>1 DEF HeapInv
    <2>6. i \in DOMAIN pools[p] /\ pools[p][i].first_free # << >>
      BY <2>2
    <2>7. Take(pools[p], i, size)
      BY <1>3
    <2> HIDE DEF i, p, usable
    <2>8. p = PoolOf(size)
      BY DEF p
    <2> QED BY <1>1, <2>4, <2>5, <2>6, <2>7, <2>8, TakeKeeps
  <1>4. ASSUME NEW a \in Block \ Mapped,
               Take(Append(pools[p], alloc_bucket(a, ObjSize[p])), Len(pools[p]) + 1, size)
        PROVE  HeapInv'
    <2> DEFINE b == alloc_bucket(a, ObjSize[p])
               c == Append(pools[p], b)
               n == Len(pools[p]) + 1
    <2>1. UsedOf(a, live) = {}
      BY DEF HeapInv, UsedOf
    <2>2. BucketExact(b, p, live) /\ b.at = a /\ b.first_free # << >>
      BY <1>1, <2>1, FreshBucket
    <2>3. b \in BucketType
      BY <2>2 DEF BucketExact
    <2> HIDE DEF b
    <2>4. /\ c \in Seq(BucketType) /\ DOMAIN c = 1 .. n /\ c[n] = b
          /\ \A j \in 1 .. Len(pools[p]) : c[j] = pools[p][j]
      BY <1>2, <2>3, AppendProperties, LenProperties
    <2> HIDE DEF c
    <2>5. \A j \in DOMAIN c : j # n => j \in DOMAIN pools[p] /\ c[j] = pools[p][j]
      BY <1>2, <2>4
    <2>6. n \in DOMAIN c
      BY <1>2, <2>4
    <2>7. ChainExact(c, p, live)
      BY <1>1, <2>2, <2>4, <2>5 DEF ChainExact
    <2>8. \A q \in Pools : \A j \in DOMAIN pools[q] : pools[q][j].at # a
      BY DEF Mapped, Pools
    <2>9. BlocksDistinct([pools EXCEPT ![p] = c])
      <3> DEFINE e == [pools EXCEPT ![p] = c]
      <3>1. /\ e[p] = c /\ \A q \in Pools : q # p => e[q] = pools[q]
        BY <1>1
      <3> HIDE DEF e, p, n
      <3> SUFFICES ASSUME NEW q \in Pools, NEW r \in Pools,
                          NEW j \in DOMAIN e[q], NEW k \in DOMAIN e[r], e[q][j].at = e[r][k].at
                   PROVE  q = r /\ j = k
        BY DEF BlocksDistinct, e
      <3>2. CASE (q = p /\ j = n) \/ (r = p /\ k = n)
        BY <2>2, <2>4, <2>5, <2>8, <3>1, <3>2
      <3>3. CASE ~(q = p /\ j = n) /\ ~(r = p /\ k = n)
        <4>1. j \in DOMAIN pools[q] /\ e[q][j] = pools[q][j]
          BY <2>5, <3>1, <3>3
        <4>2. k \in DOMAIN pools[r] /\ e[r][k] = pools[r][k]
          BY <2>5, <3>1, <3>3
        <4> QED BY <4>1, <4>2 DEF HeapInv, BlocksDistinct
      <3> QED BY <3>2, <3>3
    <2>10. \A j \in DOMAIN c : j # n => c[j].ref_cnt > 0
      BY <1>1, <2>5 DEF HeapInv
    <2>11. \A j \in DOMAIN pools[p] : \E k \in DOMAIN c : c[k].at = pools[p][j].at
      <3>1. ASSUME NEW j \in DOMAIN pools[p] PROVE j \in DOMAIN c /\ c[j] = pools[p][j]
        BY <1>2, <2>4
      <3> QED BY <3>1
    <2>12. Take(c, n, size) /\ c[n].first_free # << >>
      BY <1>4, <2>2, <2>4 DEF b, c
    <2> HIDE DEF n, p
    <2>13. p = PoolOf(size)
      BY DEF p
    <2> QED BY <1>1, <2>6, <2>7, <2>9, <2>10, <2>11, <2>12, <2>13, TakeKeeps
  <1> QED BY <1>3, <1>4 DEF kmalloc

(* A sequence without its i-th element, and where the others were.         *)
Before(i, j) == IF j < i THEN j ELSE j + 1

LEMMA WithoutOne ==
  ASSUME NEW S, NEW s \in Seq(S), NEW i \in DOMAIN s
  PROVE  /\ SX!RemoveAt(s, i) \in Seq(S)
         /\ \A j \in DOMAIN SX!RemoveAt(s, i) :
              /\ Before(i, j) \in DOMAIN s /\ Before(i, j) # i
              /\ SX!RemoveAt(s, i)[j] = s[Before(i, j)]
         /\ \A k \in DOMAIN s : k # i => \E j \in DOMAIN SX!RemoveAt(s, i) : SX!RemoveAt(s, i)[j] = s[k]
         /\ DOMAIN SX!RemoveAt(s, i) \subseteq Nat
  <1> DEFINE n == Len(s)
             u == SubSeq(s, 1, i - 1)
             v == SubSeq(s, i + 1, n)
             r == u \o v
  <1>1. n \in Nat /\ DOMAIN s = 1 .. n /\ i \in 1 .. n
    BY LenProperties
  <1>2. /\ u \in Seq(S) /\ Len(u) = i - 1 /\ \A j \in 1 .. (i - 1) : u[j] = s[j]
    BY <1>1, SubSeqProperties
  <1>3. /\ v \in Seq(S) /\ Len(v) = n - i /\ \A j \in 1 .. (n - i) : v[j] = s[i + j]
    BY <1>1, SubSeqProperties
  <1>0. SX!RemoveAt(s, i) = r
    BY DEF SX!RemoveAt
  <1> HIDE DEF u, v
  <1>4. /\ r \in Seq(S) /\ Len(r) = n - 1
        /\ \A j \in 1 .. (n - 1) : r[j] = IF j <= i - 1 THEN u[j] ELSE v[j - (i - 1)]
    <2>1. /\ r \in Seq(S) /\ Len(r) = Len(u) + Len(v)
          /\ \A j \in 1 .. (Len(u) + Len(v)) : r[j] = IF j <= Len(u) THEN u[j] ELSE v[j - Len(u)]
      BY <1>2, <1>3, ConcatProperties
    <2> HIDE DEF r, n
    <2>2. Len(u) + Len(v) = n - 1 /\ Len(u) = i - 1
      BY <1>1, <1>2, <1>3
    <2> QED BY <2>1, <2>2
  <1>5. DOMAIN r = 1 .. (n - 1)
    BY <1>4, LenProperties
  <1> HIDE DEF r, n
  <1>6. ASSUME NEW j \in 1 .. (n - 1)
        PROVE  Before(i, j) \in 1 .. n /\ Before(i, j) # i /\ r[j] = s[Before(i, j)]
    <2>0. i \in Int /\ j \in Int /\ n \in Int
      BY <1>1
    <2>1. CASE j < i
      <3>1. j \in 1 .. (i - 1) /\ j <= i - 1 /\ j \in 1 .. n /\ j # i /\ Before(i, j) = j
        BY <1>1, <2>0, <2>1 DEF Before
      <3>2. r[j] = u[j] /\ u[j] = s[j]
        BY <1>2, <1>4, <3>1
      <3> QED BY <3>1, <3>2
    <2>2. CASE ~(j < i)
      <3>1. /\ j - (i - 1) \in 1 .. (n - i) /\ i + (j - (i - 1)) = j + 1 /\ ~(j <= i - 1)
            /\ Before(i, j) = j + 1 /\ j + 1 \in 1 .. n /\ j + 1 # i
        BY <1>1, <2>0, <2>2 DEF Before
      <3>2. r[j] = v[j - (i - 1)]
        BY <1>4, <3>1
      <3>3. v[j - (i - 1)] = s[i + (j - (i - 1))]
        BY <1>3, <3>1
      <3> QED BY <3>1, <3>2, <3>3
    <2> QED BY <2>1, <2>2
  <1>7. ASSUME NEW k \in 1 .. n, k # i
        PROVE  \E j \in 1 .. (n - 1) : r[j] = s[k]
    <2>1. CASE k < i
      <3>1. k \in 1 .. (n - 1) /\ Before(i, k) = k
        BY <1>1, <2>1 DEF Before
      <3> QED BY <1>6, <3>1
    <2>2. CASE k > i
      <3>1. k - 1 \in 1 .. (n - 1) /\ Before(i, k - 1) = k
        BY <1>1, <2>2 DEF Before
      <3> QED BY <1>6, <3>1
    <2> QED BY <1>1, <1>7, <2>1, <2>2
  <1>8. DOMAIN r \subseteq Nat
    BY <1>1, <1>5
  <1> QED BY <1>0, <1>1, <1>4, <1>5, <1>6, <1>7, <1>8

(* The bucket of object o is changed or dropped: chain d has the others,   *)
(* h tells where they were.                                                *)
NewChain(o, p, i, d, h) ==
  /\ p \in Pools /\ i \in DOMAIN pools[p] /\ pools[p][i].at = o.at \div BlockSize
  /\ d \in Seq(BucketType) /\ h \in [DOMAIN d -> DOMAIN pools[p]]
  /\ \A j, k \in DOMAIN d : h[j] = h[k] => j = k
  /\ \A j \in DOMAIN d : d[j].at = pools[p][h[j]].at
  /\ \A k \in DOMAIN pools[p] : k # i => \E j \in DOMAIN d : d[j].at = pools[p][k].at
  /\ UsedOf(pools[p][i].at, live \ {o}) # {} => \E j \in DOMAIN d : d[j].at = pools[p][i].at
  /\ \A j \in DOMAIN d : BucketExact(d[j], p, live \ {o}) /\ d[j].ref_cnt > 0
  /\ LiveOK(live \ {o})
  /\ \A a : a # pools[p][i].at => UsedOf(a, live \ {o}) = UsedOf(a, live)

LEMMA GiveKeeps ==
  ASSUME HeapInv, NEW o \in live, NEW p, NEW i, NEW d, NEW h, NewChain(o, p, i, d, h),
         live' = live \ {o}, pools' = [pools EXCEPT ![p] = d]
  PROVE  HeapInv'
  <1> USE DEF NewChain
  <1> DEFINE M == live \ {o}
             a == pools[p][i].at
  <1>1. pools \in [Pools -> Seq(BucketType)] /\ BlocksDistinct(pools)
    BY DEF HeapInv
  <1>2. /\ pools' \in [Pools -> Seq(BucketType)] /\ pools'[p] = d
        /\ \A q \in Pools : q # p => pools'[q] = pools[q]
    BY <1>1
  <1>3. ChainExact(d, p, M)
    BY DEF ChainExact
  <1>4. ASSUME NEW q \in Pools, q # p
        PROVE  ChainExact(pools[q], q, M) /\ \A j \in DOMAIN pools[q] : pools[q][j].ref_cnt > 0
    <2>1. ChainExact(pools[q], q, live) /\ \A j \in DOMAIN pools[q] : pools[q][j].ref_cnt > 0
      BY DEF HeapInv
    <2>2. \A j \in DOMAIN pools[q] : pools[q][j].at # a
      BY <1>1, <1>4 DEF BlocksDistinct
    <2>3. \A j \in DOMAIN pools[q] : UsedOf(pools[q][j].at, M) = UsedOf(pools[q][j].at, live)
      BY <2>2
    <2> QED BY <2>1, <2>3, BucketFrame DEF ChainExact
  <1>5. BlocksDistinct(pools')
    <2> DEFINE Was(q, j) == IF q = p THEN h[j] ELSE j
    <2>1. ASSUME NEW q \in Pools, NEW j \in DOMAIN pools'[q]
          PROVE  Was(q, j) \in DOMAIN pools[q] /\ pools'[q][j].at = pools[q][Was(q, j)].at
      BY <1>2
    <2> SUFFICES ASSUME NEW q \in Pools, NEW r \in Pools,
                        NEW j \in DOMAIN pools'[q], NEW k \in DOMAIN pools'[r],
                        pools'[q][j].at = pools'[r][k].at
                 PROVE  q = r /\ j = k
      BY DEF BlocksDistinct
    <2>2. q = r /\ Was(q, j) = Was(r, k)
      <3> HIDE DEF Was
      <3>1. /\ Was(q, j) \in DOMAIN pools[q] /\ Was(r, k) \in DOMAIN pools[r]
            /\ pools[q][Was(q, j)].at = pools[r][Was(r, k)].at
        BY <2>1
      <3> QED BY <1>1, <3>1 DEF BlocksDistinct
    <2>3. CASE q = p
      BY <1>2, <2>2, <2>3
    <2>4. CASE q # p
      BY <2>2, <2>4
    <2> QED BY <2>2, <2>3, <2>4
  <1>6. ASSUME NEW q \in Pools, NEW j \in DOMAIN pools[q], q # p \/ j # i \/ UsedOf(a, M) # {}
        PROVE  pools[q][j].at \in Mapped'
    <2>1. \E k \in DOMAIN pools'[q] : pools'[q][k].at = pools[q][j].at
      <3>1. CASE q # p
        BY <1>2, <3>1
      <3>2. CASE q = p
        BY <1>2, <1>6, <3>2
      <3> QED BY <3>1, <3>2
    <2>2. q \in Pools
      OBVIOUS
    <2> QED BY ONLY <2>1, <2>2 DEF Mapped, Pools
  <1>7. ASSUME NEW u \in M PROVE u.at \div BlockSize \in Mapped'
    <2>0. u.at \div BlockSize \in Mapped
      BY DEF HeapInv
    <2> PICK q \in Pools : \E j \in DOMAIN pools[q] : pools[q][j].at = u.at \div BlockSize
      BY <2>0 DEF Mapped, Pools
    <2>1. PICK j \in DOMAIN pools[q] : pools[q][j].at = u.at \div BlockSize
      OBVIOUS
    <2>2. CASE q = p /\ j = i
      <3>1. u \in UsedOf(a, M)
        BY <2>1, <2>2 DEF UsedOf
      <3>2. UsedOf(a, M) # {}
        BY <3>1
      <3>3. pools[q][j].at \in Mapped'
        BY <1>6, <3>2
      <3> QED BY <2>1, <3>3
    <2>3. CASE ~(q = p /\ j = i)
      BY <1>6, <2>1, <2>3
    <2> QED BY <2>2, <2>3
  <1> QED BY <1>2, <1>3, <1>4, <1>5, <1>7 DEF HeapInv

LEMMA KfreeKeeps ==
  ASSUME HeapInv, NEW o \in live, kfree(o, o.size)
  PROVE  HeapInv'
  <1> DEFINE p == PoolOf(o.size)
             a == o.at \div BlockSize
             here == {i \in DOMAIN pools[p] : pools[p][i].at = a}
             M == live \ {o}
  <1> PICK q \in Pools : \E i \in DOMAIN pools[q] : pools[q][i].at = a
    BY DEF HeapInv, Mapped, Pools
  <1>1. PICK i \in DOMAIN pools[q] : pools[q][i].at = a
    OBVIOUS
  <1>2. BucketExact(pools[q][i], q, live) /\ pools[q][i].ref_cnt > 0 /\ LiveOK(live)
    BY DEF HeapInv, ChainExact
  <1>3. q = p
    <2>1. o \in UsedOf(pools[q][i].at, live)
      BY <1>1 DEF UsedOf
    <2> QED BY <1>2, <2>1 DEF BucketExact
  <1>4. pools[p] \in Seq(BucketType) /\ BlocksDistinct(pools) /\ p \in Pools
    BY <1>3 DEF HeapInv
  <1>5. DOMAIN pools[p] = 1 .. Len(pools[p]) /\ Len(pools[p]) \in Nat
    BY <1>4, LenProperties
  <1>6. i \in DOMAIN pools[p] /\ i \in Nat /\ \A j \in DOMAIN pools[p] : j \in Nat
    BY <1>3, <1>5
  <1>7. FX!Min(here) = i
    <2>1. here = {i}
      BY <1>1, <1>3, <1>4 DEF BlocksDistinct
    <2>2. here \in SUBSET Nat /\ here # {}
      BY <1>6, <2>1
    <2> HIDE DEF here
    <2>3. FX!Min(here) \in here
      BY <2>2, LeastIsIn
    <2> QED BY <2>1, <2>3
  <1> DEFINE b == pools[p][i]
             g == Given(b, o.at)
             d == IF g.ref_cnt = 0 THEN SX!RemoveAt(pools[p], i) ELSE [pools[p] EXCEPT ![i] = g]
  <1>8. live' = M /\ pools' = [pools EXCEPT ![p] = d]
    BY <1>7 DEF kfree, Given
  <1>9. b.at = a /\ BucketExact(b, p, live)
    BY <1>1, <1>2, <1>3
  <1>10. GivenExactly(p, live, b, o)
    <2>1. p \in Pools /\ LiveOK(live) /\ BucketExact(b, p, live) /\ o \in live /\ o.at \div BlockSize = b.at
      BY <1>2, <1>4, <1>9
    <2> HIDE DEF p, b
    <2> QED BY ONLY <2>1, GiveBucket
  <1>11. /\ BucketExact(g, p, M) /\ g.at = a /\ LiveOK(M)
         /\ \A x : x # a => UsedOf(x, M) = UsedOf(x, live)
    BY <1>9, <1>10 DEF GivenExactly
  <1>12. g \in BucketType /\ g.ref_cnt = Cardinality(UsedOf(a, M)) /\ g.ref_cnt \in Nat
         /\ (g.ref_cnt = 0 <=> UsedOf(a, M) = {})
    <2>1. g \in BucketType /\ g.ref_cnt = Cardinality(UsedOf(a, M))
      BY <1>11 DEF BucketExact
    <2>2. Cardinality(UsedOf(a, M)) \in Nat /\ (Cardinality(UsedOf(a, M)) = 0 <=> UsedOf(a, M) = {})
      <3>1. LiveOK(M)
        BY <1>11
      <3> HIDE DEF M, a
      <3> QED BY <3>1, UsedFacts
    <2> QED BY <2>1, <2>2
  <1>13. ASSUME NEW j \in DOMAIN pools[p], j # i
         PROVE  BucketExact(pools[p][j], p, M) /\ pools[p][j].ref_cnt > 0
    <2>1. BucketExact(pools[p][j], p, live) /\ pools[p][j].ref_cnt > 0
      BY <1>4 DEF HeapInv, ChainExact
    <2>2. pools[p][j].at # a
      BY <1>4, <1>6, <1>9, <1>13 DEF BlocksDistinct
    <2> QED BY <1>11, <2>1, <2>2, BucketFrame
  <1> HIDE DEF b, g, M, here, p
  <1>14. CASE g.ref_cnt = 0
    <2> DEFINE r == SX!RemoveAt(pools[p], i)
               h == [j \in DOMAIN r |-> Before(i, j)]
    <2>1. d = r /\ UsedOf(a, M) = {}
      BY <1>12, <1>14
    <2>2. /\ r \in Seq(BucketType) /\ DOMAIN r \subseteq Nat
          /\ \A j \in DOMAIN r : /\ Before(i, j) \in DOMAIN pools[p] /\ Before(i, j) # i
                                 /\ r[j] = pools[p][Before(i, j)]
          /\ \A k \in DOMAIN pools[p] : k # i => \E j \in DOMAIN r : r[j] = pools[p][k]
      BY <1>4, <1>6, WithoutOne
    <2> HIDE DEF r, d
    <2>3. /\ h \in [DOMAIN r -> DOMAIN pools[p]]
          /\ \A j \in DOMAIN r : h[j] # i /\ r[j] = pools[p][h[j]]
          /\ \A j, k \in DOMAIN r : h[j] = h[k] => j = k
      <3>1. \A j, k \in Nat : Before(i, j) = Before(i, k) => j = k
        BY <1>6 DEF Before
      <3> QED BY <2>2, <3>1
    <2> HIDE DEF h
    <2>4. \A j \in DOMAIN r : BucketExact(r[j], p, M) /\ r[j].ref_cnt > 0
      BY <1>13, <2>3
    <2>5. NewChain(o, p, i, r, h)
      BY <1>4, <1>6, <1>9, <1>11, <2>1, <2>2, <2>3, <2>4 DEF b, M, NewChain
    <2>6. live' = live \ {o} /\ pools' = [pools EXCEPT ![p] = r]
      BY <1>8, <2>1 DEF M
    <2> QED BY ONLY HeapInv, o \in live, <2>5, <2>6, GiveKeeps
  <1>15. CASE g.ref_cnt # 0
    <2> DEFINE r == [pools[p] EXCEPT ![i] = g]
               h == [j \in DOMAIN r |-> j]
    <2>1. d = r
      BY <1>15
    <2>2. /\ r \in Seq(BucketType) /\ DOMAIN r = DOMAIN pools[p]
          /\ r[i] = g /\ \A j \in DOMAIN r : j # i => r[j] = pools[p][j]
      BY <1>4, <1>6, <1>12, ExceptSeq
    <2> HIDE DEF r, d
    <2>3. /\ h \in [DOMAIN r -> DOMAIN pools[p]] /\ \A j \in DOMAIN r : h[j] = j
      BY <2>2
    <2> HIDE DEF h
    <2>4. \A j \in DOMAIN r : r[j].at = pools[p][j].at
      BY <1>9, <1>11, <2>2 DEF b
    <2>5. \A j \in DOMAIN r : BucketExact(r[j], p, M) /\ r[j].ref_cnt > 0
      BY <1>11, <1>12, <1>13, <1>15, <2>2
    <2>6. NewChain(o, p, i, r, h)
      BY <1>4, <1>6, <1>9, <1>11, <2>1, <2>2, <2>3, <2>4, <2>5 DEF b, M, NewChain
    <2>7. live' = live \ {o} /\ pools' = [pools EXCEPT ![p] = r]
      BY <1>8, <2>1 DEF M
    <2> QED BY ONLY HeapInv, o \in live, <2>6, <2>7, GiveKeeps
  <1> QED BY <1>12, <1>14, <1>15

LEMMA HeapStep == HeapInv /\ [HeapNext]_heapVars => HeapInv'
  <1> SUFFICES ASSUME HeapInv, [HeapNext]_heapVars PROVE HeapInv'
    OBVIOUS
  <1>1. CASE UNCHANGED heapVars
    BY <1>1 DEF heapVars, HeapInv, Mapped
  <1>2. ASSUME NEW size \in Request, kmalloc_TooLarge(size) PROVE HeapInv'
    BY <1>2 DEF kmalloc_TooLarge, heapVars, HeapInv, Mapped
  <1> QED BY <1>1, <1>2, KmallocKeeps, KfreeKeeps DEF HeapNext

(***************************************************************************)
(* The objects of kmalloc (heap.c) are split exactly between free lists    *)
(* and callers, each bucket counts its own, and one leaves with its last   *)
(* object, for any block size, size classes and number of blocks.          *)
(***************************************************************************)
THEOREM HeapIsExact == HeapInit /\ [][HeapNext]_heapVars => []PoolsExact
  BY HeapInvInit, HeapStep, HeapInvExact, PTL

-----------------------------------------------------------------------------
(* The heap of a session: the list of pools.                             *)

DescType == [0 .. PoolCount -> [size : Nat, ref : Int, next : 0 .. PoolCount]]

(* A step of the walk along the list, in a table of descriptors.           *)
Follow(d, f, k) == IF k = 0 THEN 0 ELSE IF k > 1 /\ f[k - 1] = 0 THEN 0 ELSE d[f[k - 1]].next
Walk(d) == CHOOSE f : f = [k \in 0 .. PoolCount + 1 |-> Follow(d, f, k)]

LEMMA ChainIsWalk == Chain = Walk(desc) /\ Chain' = Walk(desc')
  BY DEF Chain, Walk, Follow

(* A walk of n steps can be made, whatever the table.                      *)
LEMMA WalkExists ==
  ASSUME NEW d \in DescType, NEW n \in Nat
  PROVE  \E f \in [0 .. n -> 0 .. PoolCount] : \A k \in 0 .. n : f[k] = Follow(d, f, k)
  <1> DEFINE K == {m \in Nat : ~\E f \in [0 .. m -> 0 .. PoolCount] : \A k \in 0 .. m : f[k] = Follow(d, f, k)}
  <1> SUFFICES ASSUME K # {} PROVE FALSE
    OBVIOUS
  <1> DEFINE m == FX!Min(K)
  <1>1. m \in K /\ \A k \in K : m <= k
    <2>1. K \in SUBSET Nat
      OBVIOUS
    <2> HIDE DEF K
    <2> QED BY <2>1, LeastIsIn
  <1> HIDE DEF m
  <1>2. m # 0
    <2> SUFFICES ASSUME m = 0 PROVE FALSE
      OBVIOUS
    <2> DEFINE f == [k \in 0 .. 0 |-> 0]
    <2>1. f \in [0 .. 0 -> 0 .. PoolCount]
      BY BasesAssumption
    <2>2. \A k \in 0 .. 0 : f[k] = Follow(d, f, k)
      BY DEF Follow
    <2> QED BY <1>1, <2>1, <2>2
  <1>3. m - 1 \in Nat /\ m - 1 \notin K
    BY <1>1, <1>2
  <1>4. PICK f \in [0 .. m - 1 -> 0 .. PoolCount] : \A k \in 0 .. m - 1 : f[k] = Follow(d, f, k)
    BY <1>3
  <1> DEFINE g == [k \in 0 .. m |-> IF k = m THEN Follow(d, f, m) ELSE f[k]]
  <1>5. Follow(d, f, m) \in 0 .. PoolCount
    <2>1. m - 1 \in 0 .. m - 1
      BY <1>3
    <2>2. f[m - 1] \in 0 .. PoolCount
      BY <2>1
    <2>3. d[f[m - 1]].next \in 0 .. PoolCount
      BY <2>2 DEF DescType
    <2>4. 0 \in 0 .. PoolCount
      BY BasesAssumption
    <2> QED BY <2>3, <2>4 DEF Follow
  <1>6. g \in [0 .. m -> 0 .. PoolCount]
    BY <1>1, <1>5
  <1>7. \A k \in 0 .. m : g[k] = Follow(d, g, k)
    <2> SUFFICES ASSUME NEW k \in 0 .. m PROVE g[k] = Follow(d, g, k)
      OBVIOUS
    <2>1. k > 0 => k - 1 \in 0 .. m /\ k - 1 # m /\ g[k - 1] = f[k - 1]
      BY <1>1
    <2>2. Follow(d, g, k) = Follow(d, f, k)
      BY <2>1, <1>1 DEF Follow
    <2>3. CASE k = m
      BY <2>2, <2>3
    <2>4. CASE k # m
      <3>1. k \in 0 .. m - 1 /\ g[k] = f[k]
        BY <1>1, <2>4
      <3> QED BY <3>1, <2>2, <1>4
    <2> QED BY <2>3, <2>4
  <1> QED BY <1>1, <1>6, <1>7

(* Two walks are the same.                                                 *)
LEMMA WalkIsUnique ==
  ASSUME NEW d \in DescType, NEW n \in Nat, NEW f, NEW g,
         f = [k \in 0 .. n |-> Follow(d, f, k)], g = [k \in 0 .. n |-> Follow(d, g, k)]
  PROVE  f = g
  <1> DEFINE K == {k \in 0 .. n : f[k] # g[k]}
  <1>1. CASE K = {}
    BY <1>1
  <1>2. CASE K # {}
    <2> DEFINE m == FX!Min(K)
    <2>1. m \in K /\ \A k \in K : m <= k
      <3>1. K \in SUBSET Nat
        OBVIOUS
      <3> HIDE DEF K
      <3> QED BY <1>2, <3>1, LeastIsIn
    <2> HIDE DEF m
    <2>2. m \in 0 .. n /\ f[m] = Follow(d, f, m) /\ g[m] = Follow(d, g, m)
      BY <2>1
    <2>3. m # 0
      BY <2>1, <2>2 DEF Follow
    <2>4. m - 1 \in 0 .. n /\ m - 1 \notin K
      BY <2>1, <2>3
    <2>5. f[m - 1] = g[m - 1]
      BY <2>4
    <2> QED BY <2>1, <2>2, <2>5 DEF Follow
  <1> QED BY <1>1, <1>2

(* What the walk is.                                                       *)
LEMMA WalkIs ==
  ASSUME NEW d \in DescType
  PROVE  /\ Walk(d) \in [0 .. PoolCount + 1 -> 0 .. PoolCount]
         /\ \A k \in 0 .. PoolCount + 1 : Walk(d)[k] = Follow(d, Walk(d), k)
         /\ \A f : f = [k \in 0 .. PoolCount + 1 |-> Follow(d, f, k)] => f = Walk(d)
  <1>1. PoolCount + 1 \in Nat
    BY BasesAssumption
  <1>2. PICK f \in [0 .. PoolCount + 1 -> 0 .. PoolCount] : \A k \in 0 .. PoolCount + 1 : f[k] = Follow(d, f, k)
    BY <1>1, WalkExists
  <1>3. f = [k \in 0 .. PoolCount + 1 |-> Follow(d, f, k)]
    BY <1>2
  <1>4. Walk(d) = [k \in 0 .. PoolCount + 1 |-> Follow(d, Walk(d), k)]
    BY <1>3 DEF Walk
  <1>5. \A h : h = [k \in 0 .. PoolCount + 1 |-> Follow(d, h, k)] => h = f
    BY <1>1, <1>3, WalkIsUnique
  <1>6. Walk(d) = f
    BY <1>4, <1>5
  <1> QED BY <1>2, <1>5, <1>6

LEMMA ChainIs ==
  ASSUME desc \in DescType
  PROVE  /\ Chain \in [0 .. PoolCount + 1 -> 0 .. PoolCount] /\ Chain[0] = 0
         /\ \A k \in 1 .. PoolCount + 1 :
              /\ Chain[k] \in 0 .. PoolCount
              /\ Chain[k] = IF k > 1 /\ Chain[k - 1] = 0 THEN 0 ELSE desc[Chain[k - 1]].next
         /\ \A f : f = [k \in 0 .. PoolCount + 1 |-> Follow(desc, f, k)] => f = Chain
  <1> DEFINE c == Chain
  <1>1. /\ c \in [0 .. PoolCount + 1 -> 0 .. PoolCount]
        /\ \A k \in 0 .. PoolCount + 1 : c[k] = Follow(desc, c, k)
        /\ \A f : f = [k \in 0 .. PoolCount + 1 |-> Follow(desc, f, k)] => f = c
    BY ChainIsWalk, WalkIs
  <1> HIDE DEF c
  <1>2. c[0] = 0
    BY <1>1, BasesAssumption DEF Follow
  <1>3. \A k \in 1 .. PoolCount + 1 :
              /\ c[k] \in 0 .. PoolCount
              /\ c[k] = IF k > 1 /\ c[k - 1] = 0 THEN 0 ELSE desc[c[k - 1]].next
    <2> SUFFICES ASSUME NEW k \in 1 .. PoolCount + 1
                 PROVE  c[k] \in 0 .. PoolCount /\ c[k] = IF k > 1 /\ c[k - 1] = 0 THEN 0 ELSE desc[c[k - 1]].next
      OBVIOUS
    <2>1. k \in 0 .. PoolCount + 1 /\ k # 0
      BY BasesAssumption
    <2>2. c[k] = Follow(desc, c, k) /\ c[k] \in 0 .. PoolCount
      BY <1>1, <2>1
    <2> QED BY <2>1, <2>2 DEF Follow
  <1>4. Chain = c
    BY DEF c
  <1> QED BY <1>1, <1>2, <1>3, <1>4

LEMMA NextChainIs ==
  ASSUME desc' \in DescType
  PROVE  /\ Chain' \in [0 .. PoolCount + 1 -> 0 .. PoolCount] /\ Chain'[0] = 0
         /\ \A k \in 1 .. PoolCount + 1 :
              Chain'[k] = IF k > 1 /\ Chain'[k - 1] = 0 THEN 0 ELSE desc'[Chain'[k - 1]].next
         /\ \A f : f = [k \in 0 .. PoolCount + 1 |-> Follow(desc', f, k)] => f = Chain'
  <1> DEFINE c == Walk(desc')
  <1>1. /\ c \in [0 .. PoolCount + 1 -> 0 .. PoolCount]
        /\ \A k \in 0 .. PoolCount + 1 : c[k] = Follow(desc', c, k)
        /\ \A f : f = [k \in 0 .. PoolCount + 1 |-> Follow(desc', f, k)] => f = c
    BY WalkIs
  <1>4. Chain' = c
    BY ChainIsWalk DEF c
  <1> HIDE DEF c
  <1>2. c[0] = 0
    BY <1>1, BasesAssumption DEF Follow
  <1>3. \A k \in 1 .. PoolCount + 1 :
              c[k] = IF k > 1 /\ c[k - 1] = 0 THEN 0 ELSE desc'[c[k - 1]].next
    <2> SUFFICES ASSUME NEW k \in 1 .. PoolCount + 1
                 PROVE  c[k] = IF k > 1 /\ c[k - 1] = 0 THEN 0 ELSE desc'[c[k - 1]].next
      OBVIOUS
    <2>1. k \in 0 .. PoolCount + 1 /\ k # 0
      BY BasesAssumption
    <2>2. c[k] = Follow(desc', c, k) /\ c[k] \in 0 .. PoolCount
      BY <1>1, <2>1
    <2> QED BY <2>1, <2>2 DEF Follow
  <1> QED BY <1>1, <1>2, <1>3, <1>4

(* No pool is on the list twice.                                           *)
ChainApart == \A j, k \in 1 .. PoolCount + 1 : j # k /\ Chain[j] = Chain[k] => Chain[j] = 0

(* Who stands at the end of the list.                                      *)
AtTail(x) == \E n \in 0 .. PoolCount : (n = 0 \/ Chain[n] # 0) /\ Chain[n + 1] = 0 /\ x = Chain[n]

(* After the end there is nothing more.                                    *)
LEMMA ChainEnds ==
  ASSUME desc \in DescType, NEW j \in 1 .. PoolCount + 1, Chain[j] = 0
  PROVE  \A k \in j .. PoolCount + 1 : Chain[k] = 0
  <1> DEFINE K == {k \in j .. PoolCount + 1 : Chain[k] # 0}
  <1> SUFFICES ASSUME K # {} PROVE FALSE
    OBVIOUS
  <1> DEFINE m == FX!Min(K)
  <1>1. m \in K /\ \A k \in K : m <= k
    <2>1. K \in SUBSET Nat
      BY BasesAssumption
    <2> HIDE DEF K
    <2> QED BY <2>1, LeastIsIn
  <1> HIDE DEF m
  <1>2. m # j /\ m \in 1 .. PoolCount + 1 /\ m > j
    BY <1>1, BasesAssumption
  <1>3. m - 1 \in j .. PoolCount + 1 /\ m - 1 \notin K /\ m > 1
    BY <1>1, <1>2, BasesAssumption
  <1>4. Chain[m - 1] = 0
    BY <1>3
  <1>5. Chain[m] = 0
    BY <1>2, <1>3, <1>4, ChainIs
  <1> QED BY <1>1, <1>5

(* There is no room for more than PoolCount pools on the list, and when    *)
(* one is not on it there is room for that one.                            *)
LEMMA ChainHasEnd ==
  ASSUME desc \in DescType, ChainApart
  PROVE  /\ Chain[PoolCount + 1] = 0
         /\ \A i \in Pool : i \notin OnList => Chain[PoolCount] = 0
  <1>1. PoolCount \in Nat /\ PoolCount + 1 \in Int /\ 1 \in Int
    BY BasesAssumption
  <1>2. \A n \in Nat : IsFiniteSet(1 .. n) /\ Cardinality(1 .. n) = n
    BY FS_Interval
  <1>3. IsFiniteSet(Pool) /\ Cardinality(Pool) = PoolCount
    BY <1>1, <1>2 DEF Pool
  <1>4. IsFiniteSet(1 .. PoolCount + 1) /\ Cardinality(1 .. PoolCount + 1) = PoolCount + 1
    BY <1>1, <1>2
  <1>5. ASSUME Chain[PoolCount + 1] # 0 PROVE FALSE
    <2> DEFINE f == [k \in 1 .. PoolCount + 1 |-> Chain[k]]
    <2>1. \A k \in 1 .. PoolCount + 1 : Chain[k] # 0
      <3> SUFFICES ASSUME NEW k \in 1 .. PoolCount + 1, Chain[k] = 0 PROVE FALSE
        OBVIOUS
      <3>1. PoolCount + 1 \in k .. PoolCount + 1
        BY <1>1
      <3> QED BY <3>1, <1>5, ChainEnds
    <2>2. f \in [1 .. PoolCount + 1 -> Pool]
      BY <2>1, ChainIs, <1>1 DEF Pool
    <2>3. \A j, k \in 1 .. PoolCount + 1 : j # k => f[j] # f[k]
      BY <2>1 DEF ChainApart
    <2>4. Cardinality(Pool) < Cardinality(1 .. PoolCount + 1)
      BY <1>1, <1>3, <1>4
    <2> HIDE DEF f
    <2> DEFINE I == 1 .. PoolCount + 1
    <2>6. IsFiniteSet(I) /\ IsFiniteSet(Pool) /\ Cardinality(Pool) < Cardinality(I) /\ f \in [I -> Pool]
      BY <2>2, <2>4, <1>3, <1>4
    <2> HIDE DEF I
    <2>7. \E j, k \in I : j # k /\ f[j] = f[k]
      BY ONLY <2>6, FS_PigeonHole
    <2> QED BY <2>7, <2>3 DEF I
  <1>6. ASSUME NEW i \in Pool, i \notin OnList, Chain[PoolCount] # 0 PROVE FALSE
    <2> DEFINE f == [k \in 1 .. PoolCount + 1 |-> IF k = PoolCount + 1 THEN i ELSE Chain[k]]
    <2>1. \A k \in 1 .. PoolCount : Chain[k] # 0
      <3> SUFFICES ASSUME NEW k \in 1 .. PoolCount, Chain[k] = 0 PROVE FALSE
        OBVIOUS
      <3>1. PoolCount \in k .. PoolCount + 1 /\ k \in 1 .. PoolCount + 1
        BY <1>1
      <3> QED BY <3>1, <1>6, ChainEnds
    <2>2. f \in [1 .. PoolCount + 1 -> Pool]
      <3> SUFFICES ASSUME NEW k \in 1 .. PoolCount + 1, k # PoolCount + 1 PROVE Chain[k] \in Pool
        BY <1>6
      <3>1. k \in 1 .. PoolCount /\ Chain[k] \in 0 .. PoolCount
        BY <1>1, ChainIs
      <3>2. Chain[k] # 0
        BY <2>1, <3>1
      <3> HIDE DEF f
      <3> QED BY <3>1, <3>2, <1>1 DEF Pool
    <2>3. \A k \in 1 .. PoolCount : Chain[k] # i
      BY <1>6, <2>1 DEF OnList
    <2>4. \A j, k \in 1 .. PoolCount + 1 : j # k => f[j] # f[k]
      <3> SUFFICES ASSUME NEW j \in 1 .. PoolCount + 1, NEW k \in 1 .. PoolCount + 1, j # k, f[j] = f[k]
                   PROVE  FALSE
        OBVIOUS
      <3>1. CASE j = PoolCount + 1
        <4>1. k \in 1 .. PoolCount /\ f[k] = Chain[k] /\ f[j] = i
          BY <3>1, <1>1
        <4> QED BY <4>1, <2>3
      <3>2. CASE k = PoolCount + 1
        <4>1. j \in 1 .. PoolCount /\ f[j] = Chain[j] /\ f[k] = i
          BY <3>2, <1>1
        <4> QED BY <4>1, <2>3
      <3>3. CASE j # PoolCount + 1 /\ k # PoolCount + 1
        <4>1. j \in 1 .. PoolCount /\ f[j] = Chain[j] /\ f[k] = Chain[k]
          BY <3>3, <1>1
        <4> QED BY <4>1, <2>1 DEF ChainApart
      <3> QED BY <3>1, <3>2, <3>3
    <2>5. Cardinality(Pool) < Cardinality(1 .. PoolCount + 1)
      BY <1>1, <1>3, <1>4
    <2> HIDE DEF f
    <2> DEFINE I == 1 .. PoolCount + 1
    <2>6. IsFiniteSet(I) /\ IsFiniteSet(Pool) /\ Cardinality(Pool) < Cardinality(I) /\ f \in [I -> Pool]
      BY <2>2, <2>5, <1>3, <1>4
    <2> HIDE DEF I
    <2>7. \E j, k \in I : j # k /\ f[j] = f[k]
      BY ONLY <2>6, FS_PigeonHole
    <2> QED BY <2>7, <2>4 DEF I
  <1> QED BY <1>5, <1>6

(* A store that leaves the list alone.                                     *)
LEMMA ChainStays ==
  ASSUME desc \in DescType, desc' \in DescType,
         \A x \in {0} \cup OnList : desc'[x].next = desc[x].next
  PROVE  Chain' = Chain /\ OnList' = OnList
  <1>1. \A k \in 0 .. PoolCount : Chain[k] \in {0} \cup OnList
    BY ChainIs DEF OnList
  <1>2. \A k \in 0 .. PoolCount + 1 : Chain[k] = Follow(desc', Chain, k)
    <2> SUFFICES ASSUME NEW k \in 1 .. PoolCount + 1 PROVE Chain[k] = Follow(desc', Chain, k)
      BY ChainIs DEF Follow
    <2>1. k - 1 \in 0 .. PoolCount /\ k # 0
      BY BasesAssumption
    <2>2. desc'[Chain[k - 1]].next = desc[Chain[k - 1]].next
      BY <1>1, <2>1
    <2> QED BY <2>1, <2>2, ChainIs DEF Follow
  <1>3. Chain = [k \in 0 .. PoolCount + 1 |-> Follow(desc', Chain, k)]
    BY <1>2, ChainIs
  <1>4. Chain' = Chain
    BY <1>3, NextChainIs
  <1> QED BY <1>4 DEF OnList

-----------------------------------------------------------------------------
(* The invariant.                                                          *)

SPointer == {NoPtr} \cup ((Nat \ {0}) \X SharedSlot)
SPlaces == {"idle", "map", "chain", "size", "ref", "flag", "link", "publish", "read", "pop", "count"}
SectType == [exists : BOOLEAN, initialized : BOOLEAN, first : SPointer, link : [SharedSlot -> SPointer]]
SCallType == [at : SPlaces, size : Nat, pool : 0 .. PoolCount, last : 0 .. PoolCount,
              fresh : BOOLEAN, cur : SPointer, next : SPointer]

SharedType ==
  /\ desc \in DescType /\ sect \in [Pool -> SectType] /\ view \in [SProc -> [Pool -> Nat]]
  /\ mutex \in SProc \cup {"none"} /\ call \in [SProc -> SCallType]
  /\ given \subseteq Pool \X SharedSlot /\ ptrs \in [SProc -> SUBSET (Pool \X SPointer)]
  /\ alive \subseteq SProc

(* The list of free objects as InitChain makes it, which only gets shorter *)
(* from its head, and the slots it has lost.                               *)
LinksOf(b) == [s \in SharedSlot |-> IF s + 1 \in SharedSlot THEN <<b, s + 1>> ELSE NoPtr]
LinkedBy(x, b) == x.link = LinksOf(b) /\ (x.first = NoPtr \/ \E s \in SharedSlot : x.first = <<b, s>>)
Linked(x) == \E b \in Nat \ {0} : LinkedBy(x, b)
Below(x, s) == x.first = NoPtr \/ s < x.first[2]

ListSized == \A i \in OnList : desc[i].size # 0
SectionSound ==
  \A i \in Pool : sect[i].initialized => /\ desc[i].size # 0 /\ Linked(sect[i])
                                         /\ \E p \in SProc : view[p][i] # 0
GivenSound == \A g \in given : sect[g[1]].initialized /\ Below(sect[g[1]], g[2])
PtrsSound ==
  \A p \in SProc : \A r \in ptrs[p] : /\ sect[r[1]].initialized /\ r[1] \in OnList
                                      /\ view[p][r[1]] = r[2][1] /\ r[2] # NoPtr
DeadSound == \A p \in SProc : p \notin alive => view[p] = [i \in Pool |-> 0] /\ ptrs[p] = {}

(* A pool a process maps is initialised, or the process is at it.          *)
Early == {"chain", "size", "ref", "flag"}
ViewSound ==
  \A p \in SProc : \A i \in Pool :
    view[p][i] # 0 => sect[i].initialized \/ (call[p].at \in Early /\ call[p].pool = i)

(* A call under way: it has the mutex, its pool is on the list or about to *)
(* get there, and what it read of the list of free objects still holds.    *)
Placed(c) ==
  IF c.fresh /\ c.at \in {"map", "link", "publish"} \cup Early
  THEN c.pool \notin OnList /\ AtTail(c.last) ELSE c.pool \in OnList
Begun(c, x, size, base) ==
  /\ c.at # "map" => base # 0
  /\ c.at \in Early => ~x.initialized
  /\ c.at \in {"size", "ref", "flag"} => Linked(x)
  /\ c.at \in {"ref", "flag"} => size # 0
  /\ c.at = "map" => IF c.fresh THEN size = 0 ELSE base = 0
Taking(c, x, base) ==
  /\ c.at \in {"link", "publish", "read", "pop", "count"} => x.initialized
  /\ c.at \in {"link", "publish"} => c.fresh
  /\ c.at = "pop" => /\ c.cur = x.first /\ c.cur # NoPtr /\ c.cur[1] = base
                     /\ c.next = x.link[c.cur[2]]
  /\ c.at = "count" => /\ c.cur # NoPtr /\ c.cur[1] = base /\ Below(x, c.cur[2])
                       /\ <<c.pool, c.cur[2]>> \notin given
Busy(p) ==
  LET c == call[p] IN
  /\ p \in alive /\ mutex = p /\ c.pool \in Pool /\ c.size \in SSize
  /\ Placed(c) /\ Begun(c, sect[c.pool], desc[c.pool].size, view[p][c.pool])
  /\ Taking(c, sect[c.pool], view[p][c.pool])
  /\ c.at = "publish" => desc[c.pool].next = 0
BusySound == \A p \in SProc : call[p].at # "idle" => Busy(p)

SharedInv ==
  /\ SharedType /\ ChainApart /\ ListSized /\ SectionSound /\ GivenSound
  /\ PtrsSound /\ DeadSound /\ ViewSound /\ BusySound

-----------------------------------------------------------------------------
(* The walk along a list of free objects.                                  *)
FreeStep(x, f, k) ==
  IF k = 1 THEN x.first ELSE IF f[k - 1] = NoPtr THEN NoPtr ELSE x.link[f[k - 1][2]]
FreeWalk(x) == CHOOSE f : f = [k \in SharedSlot |-> FreeStep(x, f, k)]

LEMMA FreeListIs ==
  ASSUME NEW i
  PROVE  FreeList(i) = {FreeWalk(sect[i])[k][2] : k \in SharedSlot} \ {0}
  BY DEF FreeList, FreeWalk, FreeStep

LEMMA FreeWalkIs ==
  ASSUME NEW x \in SectType, NEW b \in Nat \ {0}, LinkedBy(x, b)
  PROVE  \A k \in SharedSlot :
           FreeWalk(x)[k] = IF x.first # NoPtr /\ x.first[2] + k - 1 \in SharedSlot
                            THEN <<b, x.first[2] + k - 1>> ELSE NoPtr
  <1> DEFINE n == Cardinality(SharedSlot)
  <1>1. n \in Nat \ {0} /\ SharedSlot = 1 .. n
    BY SharedAssumption
  <1> HIDE DEF n
  <1>2. \A s : <<b, s>> # NoPtr /\ <<b, s>>[2] = s
    BY DEF NoPtr
  <1>3. PICK s \in 0 .. n : IF s = 0 THEN x.first = NoPtr ELSE x.first = <<b, s>>
    <2>1. CASE x.first = NoPtr
      <3>1. 0 \in 0 .. n
        BY <1>1
      <3> QED BY <2>1, <3>1
    <2>2. CASE x.first # NoPtr
      <3>1. PICK s \in SharedSlot : x.first = <<b, s>>
        BY <2>2 DEF LinkedBy
      <3>2. s \in 0 .. n /\ s # 0
        BY <1>1
      <3> QED BY <3>1, <3>2
    <2> QED BY <2>1, <2>2
  <1> DEFINE W == [k \in SharedSlot |-> IF s # 0 /\ s + k - 1 \in SharedSlot THEN <<b, s + k - 1>> ELSE NoPtr]
  <1>4. ASSUME NEW k \in SharedSlot PROVE W[k] = FreeStep(x, W, k)
    <2>1. CASE k = 1
      <3>1. s # 0 => s + 1 - 1 = s /\ s \in SharedSlot
        BY <1>1
      <3> QED BY <1>3, <2>1, <3>1 DEF FreeStep
    <2>2. CASE k # 1 /\ s = 0
      <3>1. k - 1 \in SharedSlot
        BY <2>2, <1>1
      <3> QED BY <2>2, <3>1 DEF FreeStep
    <2>3. CASE k # 1 /\ s # 0 /\ s + (k - 1) - 1 \in SharedSlot
      <3>1. k - 1 \in SharedSlot /\ s + k - 1 = (s + (k - 1) - 1) + 1
        BY <2>3, <1>1
      <3>2. W[k - 1] = <<b, s + (k - 1) - 1>>
        BY <2>3, <3>1
      <3>3. FreeStep(x, W, k) = x.link[s + (k - 1) - 1]
        BY <1>2, <2>3, <3>2 DEF FreeStep
      <3>4. x.link = LinksOf(b)
        BY DEF LinkedBy
      <3> QED BY <2>3, <3>1, <3>3, <3>4 DEF LinksOf
    <2>4. CASE k # 1 /\ s # 0 /\ s + (k - 1) - 1 \notin SharedSlot
      <3>1. k - 1 \in SharedSlot /\ s + k - 1 \notin SharedSlot
        BY <2>4, <1>1
      <3>2. W[k - 1] = NoPtr /\ W[k] = NoPtr
        BY <2>4, <3>1
      <3> QED BY <2>4, <3>2 DEF FreeStep
    <2> QED BY <2>1, <2>2, <2>3, <2>4
  <1>5. W = [k \in SharedSlot |-> FreeStep(x, W, k)]
    BY <1>4
  <1>6. \A k \in SharedSlot : W[k] = IF x.first # NoPtr /\ x.first[2] + k - 1 \in SharedSlot
                            THEN <<b, x.first[2] + k - 1>> ELSE NoPtr
    BY <1>2, <1>3
  <1> HIDE DEF W
  <1> DEFINE f == FreeWalk(x)
  <1>7. f = [k \in SharedSlot |-> FreeStep(x, f, k)]
    BY <1>5 DEF FreeWalk
  <1> HIDE DEF f
  <1> DEFINE K == {k \in SharedSlot : f[k] # W[k]}
  <1>8. CASE K # {}
    <2> DEFINE m == FX!Min(K)
    <2>1. m \in K /\ \A k \in K : m <= k
      <3>1. K \in SUBSET Nat
        BY <1>1
      <3> HIDE DEF K
      <3> QED BY <1>8, <3>1, LeastIsIn
    <2> HIDE DEF m
    <2>2. m \in SharedSlot /\ f[m] = FreeStep(x, f, m) /\ W[m] = FreeStep(x, W, m)
      BY <2>1, <1>4, <1>7
    <2>3. m # 1
      BY <2>1, <2>2 DEF FreeStep
    <2>4. m - 1 \in SharedSlot /\ m - 1 \notin K
      BY <2>1, <2>2, <2>3, <1>1
    <2>5. f[m - 1] = W[m - 1]
      BY <2>4
    <2> QED BY <2>1, <2>2, <2>5 DEF FreeStep
  <1>9. CASE K = {}
    BY <1>6, <1>9 DEF f
  <1> QED BY <1>8, <1>9

(* A slot the list has lost is not on it.                                  *)
LEMMA BelowIsOff ==
  ASSUME SharedType, NEW i \in Pool, Linked(sect[i]), NEW s \in SharedSlot, Below(sect[i], s)
  PROVE  s \notin FreeList(i)
  <1> DEFINE x == sect[i]
             w == FreeWalk(x)
             t == x.first[2]
  <1>1. x \in SectType
    BY DEF SharedType
  <1>2. PICK b \in Nat \ {0} : LinkedBy(x, b)
    BY DEF Linked
  <1>3. s \in Nat /\ s # 0
    BY SharedAssumption
  <1>4. x.first # NoPtr => t \in Nat /\ s < t
    <2> SUFFICES ASSUME x.first # NoPtr PROVE t \in Nat /\ s < t
      OBVIOUS
    <2>1. PICK u \in SharedSlot : x.first = <<b, u>>
      BY <1>2 DEF LinkedBy
    <2>2. x.first[2] = u /\ u \in Nat
      BY <2>1, SharedAssumption
    <2> QED BY <2>2 DEF Below
  <1>5. ASSUME NEW k \in SharedSlot PROVE w[k][2] # s
    <2>1. w[k] = IF x.first # NoPtr /\ t + k - 1 \in SharedSlot THEN <<b, t + k - 1>> ELSE NoPtr
      <3> HIDE DEF x
      <3> QED BY <1>1, <1>2, FreeWalkIs DEF t
    <2>2. k \in Nat \ {0}
      BY SharedAssumption
    <2> HIDE DEF x, w, t
    <2>3. CASE x.first # NoPtr /\ t + k - 1 \in SharedSlot
      <3>1. w[k][2] = t + k - 1
        BY <2>1, <2>3
      <3>2. t + k - 1 > s
        BY <1>3, <1>4, <2>2, <2>3
      <3> QED BY <1>3, <3>1, <3>2
    <2>4. CASE ~(x.first # NoPtr /\ t + k - 1 \in SharedSlot)
      <3>1. w[k] = NoPtr
        BY <2>1, <2>4
      <3> QED BY <3>1, <1>3 DEF NoPtr
    <2> QED BY <2>3, <2>4
  <1> QED BY <1>5, FreeListIs

(* What is promised follows.                                               *)
LEMMA SharedInvExact == SharedInv => SharedExact
  <1> SUFFICES ASSUME SharedInv PROVE SharedExact
    OBVIOUS
  <1>1. SharedType /\ SectionSound /\ GivenSound /\ PtrsSound /\ BusySound
    BY DEF SharedInv
  <1>2. ASSUME NEW g \in given
        PROVE  /\ sect[g[1]].initialized /\ g[2] \notin FreeList(g[1])
               /\ \A p \in SProc : call[p].at \in {"pop", "count"} /\ call[p].pool = g[1]
                                         => call[p].cur[2] # g[2]
    <2>1. g[1] \in Pool /\ g[2] \in SharedSlot /\ g = <<g[1], g[2]>>
      BY <1>1 DEF SharedType
    <2>2. sect[g[1]].initialized /\ Below(sect[g[1]], g[2])
      BY <1>1 DEF GivenSound
    <2>3. Linked(sect[g[1]])
      BY <1>1, <2>1, <2>2 DEF SectionSound
    <2>4. g[2] \notin FreeList(g[1])
      BY <1>1, <2>1, <2>2, <2>3, BelowIsOff
    <2>5. ASSUME NEW p \in SProc, call[p].at \in {"pop", "count"}, call[p].pool = g[1], call[p].cur[2] = g[2]
          PROVE  FALSE
      <3> DEFINE c == call[p]
                 x == sect[c.pool]
      <3>1. Taking(c, x, view[p][c.pool])
        BY <1>1, <2>5 DEF BusySound, Busy
      <3>2. CASE c.at = "pop"
        <4>1. c.cur = x.first /\ x.first # NoPtr
          BY <3>1, <3>2 DEF Taking
        <4>2. g[2] < x.first[2]
          BY <2>2, <2>5, <4>1 DEF Below
        <4>3. g[2] \in Nat
          BY <2>1, SharedAssumption
        <4> QED BY <4>1, <4>2, <4>3, <2>5
      <3>3. CASE c.at = "count"
        <4>1. <<c.pool, c.cur[2]>> \notin given
          BY <3>1, <3>3 DEF Taking
        <4> QED BY <4>1, <2>1, <2>5
      <3> QED BY <2>5, <3>2, <3>3
    <2> QED BY <2>2, <2>4, <2>5
  <1>3. PointersValid
    BY <1>1 DEF PtrsSound, PointersValid
  <1> QED BY <1>2, <1>3 DEF SharedExact, ObjectsExclusive

-----------------------------------------------------------------------------
(* Steps.                                                                  *)

LEMMA SharedInvInit == SharedInit => SharedInv
  <1> SUFFICES ASSUME SharedInit PROVE SharedInv
    OBVIOUS
  <1>1. PoolCount \in Nat /\ 0 \in 0 .. PoolCount
    BY BasesAssumption
  <1>2. NoPtr \in SPointer /\ Gone \in SectType /\ Idle \in SCallType
    <2>1. NoPtr \in SPointer
      BY DEF SPointer
    <2> QED BY <1>1, <2>1 DEF Gone, SectType, Idle, SCallType, SPlaces
  <1>3. SharedType
    <2>1. desc \in DescType
      BY <1>1 DEF SharedInit, DescType
    <2>2. view \in [SProc -> [Pool -> Nat]]
      BY DEF SharedInit
    <2>3. call \in [SProc -> SCallType] /\ sect \in [Pool -> SectType]
      BY <1>2 DEF SharedInit
    <2> QED BY <2>1, <2>2, <2>3 DEF SharedInit, SharedType
  <1>4. \A k \in 1 .. PoolCount + 1 : Chain[k] = 0
    <2> SUFFICES ASSUME NEW k \in 1 .. PoolCount + 1 PROVE Chain[k] = 0
      OBVIOUS
    <2>1. k - 1 \in 0 .. PoolCount + 1
      BY <1>1
    <2>2. \A x \in 0 .. PoolCount : desc[x].next = 0
      BY DEF SharedInit
    <2>3. Chain[k - 1] \in 0 .. PoolCount
      BY <1>3, <2>1, ChainIs DEF SharedType
    <2> QED BY <1>3, <2>2, <2>3, ChainIs DEF SharedType
  <1>5. OnList = {}
    <2>1. \A k \in 1 .. PoolCount : k \in 1 .. PoolCount + 1
      BY <1>1
    <2> QED BY <1>4, <2>1 DEF OnList
  <1>6. \A i \in Pool : ~sect[i].initialized
    BY DEF SharedInit, Gone
  <1>7. \A p \in SProc : call[p].at = "idle" /\ view[p] = [i \in Pool |-> 0] /\ ptrs[p] = {}
    BY DEF SharedInit, Idle
  <1>8. ChainApart /\ ListSized
    BY <1>4, <1>5 DEF ChainApart, ListSized
  <1>9. SectionSound /\ GivenSound
    BY <1>6 DEF SectionSound, GivenSound, SharedInit
  <1> QED BY <1>3, <1>7, <1>8, <1>9 DEF SharedInv, PtrsSound, DeadSound, ViewSound, BusySound

(* Only the owner of the mutex is in a call.                               *)
LEMMA Alone ==
  ASSUME SharedInv, NEW p \in SProc, call[p].at # "idle"
  PROVE  Busy(p) /\ mutex = p /\ \A q \in SProc : q # p => call[q].at = "idle"
  BY DEF SharedInv, BusySound, Busy

LEMMA NoneBusy ==
  ASSUME SharedInv, mutex = "none"
  PROVE  \A q \in SProc : call[q].at = "idle"
  BY SharedAssumption DEF SharedInv, BusySound, Busy

LEMMA SameChain ==
  ASSUME desc' = desc
  PROVE  Chain' = Chain /\ OnList' = OnList
  <1>1. Chain' = Chain
    BY ChainIsWalk
  <1> QED BY <1>1 DEF OnList

(* A call that goes on.                                                    *)
LEMMA CallGoes ==
  ASSUME SharedType, NEW p \in SProc, NEW to \in SPlaces, SharedGo(p, to)
  PROVE  /\ call' \in [SProc -> SCallType] /\ call'[p].at = to
         /\ call'[p].size = call[p].size /\ call'[p].pool = call[p].pool
         /\ call'[p].last = call[p].last /\ call'[p].fresh = call[p].fresh
         /\ call'[p].cur = call[p].cur /\ call'[p].next = call[p].next
         /\ \A q \in SProc : q # p => call'[q] = call[q]
  <1>1. call \in [SProc -> SCallType]
    BY DEF SharedType
  <1>2. call' = [call EXCEPT ![p].at = to]
    BY DEF SharedGo
  <1>3. [call[p] EXCEPT !.at = to] \in SCallType
    BY <1>1 DEF SCallType
  <1>4. call' \in [SProc -> SCallType]
    BY <1>1, <1>2, <1>3
  <1>5. call'[p] = [call[p] EXCEPT !.at = to] /\ \A q \in SProc : q # p => call'[q] = call[q]
    BY <1>1, <1>2
  <1>6. call[p] \in SCallType
    BY <1>1
  <1> HIDE DEF SharedType
  <1> QED BY <1>4, <1>5, <1>6 DEF SCallType

(* What holds of the objects handed out, when no section changes.          *)
LEMMA GivenFrame ==
  ASSUME SharedInv, UNCHANGED <<sect, view, given, ptrs, alive>>, OnList' = OnList
  PROVE  GivenSound' /\ PtrsSound' /\ DeadSound'
  <1>1. GivenSound'
    BY DEF SharedInv, GivenSound, Below
  <1>2. PtrsSound'
    BY DEF SharedInv, PtrsSound
  <1>3. DeadSound'
    BY DEF SharedInv, DeadSound
  <1> QED BY <1>1, <1>2, <1>3

LEMMA SectionFrame ==
  ASSUME SharedInv, UNCHANGED <<sect, view>>,
         \A i \in Pool : desc[i].size # 0 => desc'[i].size # 0
  PROVE  SectionSound'
  BY DEF SharedInv, SectionSound, Linked, LinkedBy

(* A call that stays in its place with respect to the views.               *)
LEMMA ViewFrame ==
  ASSUME SharedInv, UNCHANGED <<sect, view>>, NEW p \in SProc,
         \A q \in SProc : q # p => call'[q] = call[q],
         call[p].at \in Early => call'[p].at \in Early /\ call'[p].pool = call[p].pool
  PROVE  ViewSound'
  BY DEF SharedInv, ViewSound

(* The call under way is the only one.                                     *)
LEMMA BusyFrame ==
  ASSUME SharedInv, NEW p \in SProc, call[p].at # "idle",
         \A q \in SProc : q # p => call'[q] = call[q],
         call'[p].at # "idle" => Busy(p)'
  PROVE  BusySound'
  BY Alone DEF BusySound

(* A store into a descriptor.                                              *)
LEMMA SizeStore ==
  ASSUME desc \in DescType, NEW i \in Pool, NEW n \in Nat, desc' = [desc EXCEPT ![i].size = n]
  PROVE  /\ desc' \in DescType /\ desc'[i].size = n
         /\ \A x \in 0 .. PoolCount : desc'[x].next = desc[x].next /\ desc'[x].ref = desc[x].ref
         /\ \A x \in 0 .. PoolCount : x # i => desc'[x] = desc[x]
  BY DEF DescType, Pool

LEMMA RefStore ==
  ASSUME desc \in DescType, NEW i \in Pool, NEW n, n \in Int, desc' = [desc EXCEPT ![i].ref = n]
  PROVE  /\ desc' \in DescType
         /\ \A x \in 0 .. PoolCount : desc'[x].next = desc[x].next /\ desc'[x].size = desc[x].size
  BY DEF DescType, Pool

LEMMA NextStore ==
  ASSUME desc \in DescType, NEW i \in 0 .. PoolCount, NEW n \in 0 .. PoolCount,
         desc' = [desc EXCEPT ![i].next = n]
  PROVE  /\ desc' \in DescType /\ desc'[i].next = n
         /\ \A x \in 0 .. PoolCount : desc'[x].size = desc[x].size
         /\ \A x \in 0 .. PoolCount : x # i => desc'[x] = desc[x]
  BY DEF DescType

LEMMA OnListIs ==
  ASSUME desc \in DescType
  PROVE  OnList \subseteq Pool /\ \A x \in {0} \cup OnList : x \in 0 .. PoolCount
  <1>1. \A k \in 1 .. PoolCount : Chain[k] \in 0 .. PoolCount
    BY ChainIs, BasesAssumption
  <1> QED BY <1>1, BasesAssumption DEF OnList, Pool

LEMMA InitSizeKeeps ==
  ASSUME SharedInv, NEW p \in SProc, InitSize(p)
  PROVE  SharedInv'
  <1> DEFINE i == call[p].pool
  <1>1. call[p].at = "size" /\ SharedGo(p, "ref") /\ desc' = [desc EXCEPT ![i].size = call[p].size]
        /\ UNCHANGED <<sect, view, mutex, given, ptrs, alive>>
    BY DEF InitSize
  <1>2. SharedType /\ desc \in DescType
    BY DEF SharedInv, SharedType
  <1>3. Busy(p) /\ i \in Pool /\ call[p].size \in SSize
    BY <1>1, Alone DEF Busy
  <1>4. call[p].size \in Nat /\ call[p].size # 0
    BY <1>3, SharedAssumption
  <1>5. /\ desc' \in DescType /\ desc'[i].size = call[p].size
        /\ \A x \in 0 .. PoolCount : desc'[x].next = desc[x].next /\ desc'[x].ref = desc[x].ref
        /\ \A x \in 0 .. PoolCount : x # i => desc'[x] = desc[x]
    <2> HIDE DEF i
    <2> QED BY <1>1, <1>2, <1>3, <1>4, SizeStore
  <1>6. Chain' = Chain /\ OnList' = OnList
    BY <1>2, <1>5, OnListIs, ChainStays
  <1>7. /\ call' \in [SProc -> SCallType] /\ call'[p].at = "ref"
        /\ call'[p].size = call[p].size /\ call'[p].pool = i
        /\ call'[p].last = call[p].last /\ call'[p].fresh = call[p].fresh
        /\ \A q \in SProc : q # p => call'[q] = call[q]
    <2>1. "ref" \in SPlaces
      BY DEF SPlaces
    <2> QED BY <1>1, <1>2, <2>1, CallGoes
  <1>8. SharedType'
    BY <1>1, <1>2, <1>5, <1>7 DEF SharedType
  <1>9. \A x \in Pool : desc[x].size # 0 => desc'[x].size # 0
    BY <1>4, <1>5 DEF Pool
  <1>10. ChainApart' /\ ListSized'
    BY <1>2, <1>6, <1>9, OnListIs DEF ChainApart, ListSized, SharedInv
  <1>11. GivenSound' /\ PtrsSound' /\ DeadSound' /\ SectionSound'
    BY <1>1, <1>6, <1>9, GivenFrame, SectionFrame
  <1>12. ViewSound'
    <2>1. "ref" \in Early
      BY DEF Early
    <2> QED BY <1>1, <1>7, <2>1, ViewFrame
  <1>13. Busy(p)'
    <2>1. Placed(call[p])'
      BY <1>1, <1>3, <1>6, <1>7 DEF Busy, Placed, AtTail, Early
    <2>2. Begun(call[p], sect[i], desc[i].size, view[p][i])'
      BY <1>1, <1>3, <1>4, <1>5, <1>7 DEF Busy, Begun, Early, Linked, LinkedBy
    <2>3. Taking(call[p], sect[i], view[p][i])'
      BY <1>7 DEF Taking
    <2> QED BY <1>1, <1>3, <1>7, <2>1, <2>2, <2>3 DEF Busy
  <1>14. BusySound'
    BY <1>1, <1>7, <1>13, BusyFrame
  <1> QED BY <1>8, <1>10, <1>11, <1>12, <1>14 DEF SharedInv

LEMMA InitRefKeeps ==
  ASSUME SharedInv, NEW p \in SProc, InitRef(p)
  PROVE  SharedInv'
  <1> DEFINE i == call[p].pool
  <1>1. call[p].at = "ref" /\ SharedGo(p, "flag") /\ desc' = [desc EXCEPT ![i].ref = MaxRef]
        /\ UNCHANGED <<sect, view, mutex, given, ptrs, alive>>
    BY DEF InitRef
  <1>2. SharedType /\ desc \in DescType
    BY DEF SharedInv, SharedType
  <1>3. Busy(p) /\ i \in Pool
    BY <1>1, Alone DEF Busy
  <1>4. MaxRef \in Int
    BY SharedAssumption DEF MaxRef
  <1>5. /\ desc' \in DescType
        /\ \A x \in 0 .. PoolCount : desc'[x].next = desc[x].next /\ desc'[x].size = desc[x].size
    <2> HIDE DEF i
    <2> QED BY <1>1, <1>2, <1>3, <1>4, RefStore
  <1>6. Chain' = Chain /\ OnList' = OnList
    BY <1>2, <1>5, OnListIs, ChainStays
  <1>7. /\ call' \in [SProc -> SCallType] /\ call'[p].at = "flag"
        /\ call'[p].size = call[p].size /\ call'[p].pool = i
        /\ call'[p].last = call[p].last /\ call'[p].fresh = call[p].fresh
        /\ \A q \in SProc : q # p => call'[q] = call[q]
    <2>1. "flag" \in SPlaces
      BY DEF SPlaces
    <2> QED BY <1>1, <1>2, <2>1, CallGoes
  <1>8. SharedType'
    BY <1>1, <1>2, <1>5, <1>7 DEF SharedType
  <1>9. \A x \in Pool : desc'[x].size = desc[x].size
    BY <1>5 DEF Pool
  <1>10. ChainApart' /\ ListSized'
    BY <1>2, <1>6, <1>9, OnListIs DEF ChainApart, ListSized, SharedInv
  <1>11. GivenSound' /\ PtrsSound' /\ DeadSound' /\ SectionSound'
    BY <1>1, <1>6, <1>9, GivenFrame, SectionFrame
  <1>12. ViewSound'
    <2>1. "flag" \in Early
      BY DEF Early
    <2> QED BY <1>1, <1>7, <2>1, ViewFrame
  <1>13. Busy(p)'
    <2>1. Placed(call[p])'
      BY <1>1, <1>3, <1>6, <1>7 DEF Busy, Placed, AtTail, Early
    <2>2. Begun(call[p], sect[i], desc[i].size, view[p][i])'
      BY <1>1, <1>3, <1>7, <1>9 DEF Busy, Begun, Early, Linked, LinkedBy
    <2>3. Taking(call[p], sect[i], view[p][i])'
      BY <1>7 DEF Taking
    <2> QED BY <1>1, <1>3, <1>7, <2>1, <2>2, <2>3 DEF Busy
  <1>14. BusySound'
    BY <1>1, <1>7, <1>13, BusyFrame
  <1> QED BY <1>8, <1>10, <1>11, <1>12, <1>14 DEF SharedInv

LEMMA LinkLastKeeps ==
  ASSUME SharedInv, NEW p \in SProc, LinkLast(p)
  PROVE  SharedInv'
  <1> DEFINE i == call[p].pool
  <1>1. call[p].at = "link" /\ SharedGo(p, "publish") /\ desc' = [desc EXCEPT ![i].next = 0]
        /\ UNCHANGED <<sect, view, mutex, given, ptrs, alive>>
    BY DEF LinkLast
  <1>2. SharedType /\ desc \in DescType
    BY DEF SharedInv, SharedType
  <1>3. Busy(p) /\ i \in Pool /\ i \in 0 .. PoolCount
    BY <1>1, Alone DEF Busy, Pool
  <1>4. 0 \in 0 .. PoolCount
    BY BasesAssumption
  <1>5. /\ desc' \in DescType /\ desc'[i].next = 0
        /\ \A x \in 0 .. PoolCount : desc'[x].size = desc[x].size
        /\ \A x \in 0 .. PoolCount : x # i => desc'[x] = desc[x]
    <2> HIDE DEF i
    <2> QED BY <1>1, <1>2, <1>3, <1>4, NextStore
  <1>6. call[p].fresh /\ i \notin OnList
    BY <1>1, <1>3 DEF Busy, Taking, Placed
  <1>61. i # 0
    BY <1>3 DEF Pool
  <1>62. Chain' = Chain /\ OnList' = OnList
    <2>1. \A x \in {0} \cup OnList : desc'[x].next = desc[x].next
      BY <1>2, <1>5, <1>6, <1>61, OnListIs
    <2> QED BY <1>2, <1>5, <2>1, ChainStays
  <1>7. /\ call' \in [SProc -> SCallType] /\ call'[p].at = "publish"
        /\ call'[p].size = call[p].size /\ call'[p].pool = i
        /\ call'[p].last = call[p].last /\ call'[p].fresh = call[p].fresh
        /\ \A q \in SProc : q # p => call'[q] = call[q]
    <2>1. "publish" \in SPlaces
      BY DEF SPlaces
    <2> QED BY <1>1, <1>2, <2>1, CallGoes
  <1>8. SharedType'
    BY <1>1, <1>2, <1>5, <1>7 DEF SharedType
  <1>9. \A x \in Pool : desc'[x].size = desc[x].size
    BY <1>5 DEF Pool
  <1>10. ChainApart' /\ ListSized'
    BY <1>2, <1>62, <1>9, OnListIs DEF ChainApart, ListSized, SharedInv
  <1>11. GivenSound' /\ PtrsSound' /\ DeadSound' /\ SectionSound'
    BY <1>1, <1>62, <1>9, GivenFrame, SectionFrame
  <1>12. ViewSound'
    <2>1. "link" \notin Early
      BY DEF Early
    <2> QED BY <1>1, <1>7, <2>1, ViewFrame
  <1>13. Busy(p)'
    <2>1. Placed(call[p])'
      BY <1>1, <1>3, <1>62, <1>7 DEF Busy, Placed, AtTail, Early
    <2>2. Begun(call[p], sect[i], desc[i].size, view[p][i])'
      BY <1>1, <1>3, <1>7 DEF Busy, Begun, Early
    <2>3. Taking(call[p], sect[i], view[p][i])'
      BY <1>1, <1>3, <1>7 DEF Busy, Taking
    <2> QED BY <1>1, <1>3, <1>5, <1>7, <2>1, <2>2, <2>3 DEF Busy
  <1>14. BusySound'
    BY <1>1, <1>7, <1>13, BusyFrame
  <1> QED BY <1>8, <1>10, <1>11, <1>12, <1>14 DEF SharedInv

(* The list with a pool put at its end.                                    *)
LEMMA ChainGrows ==
  ASSUME desc \in DescType, ChainApart, NEW i \in Pool, i \notin OnList, NEW l, AtTail(l),
         desc[i].next = 0, desc' = [desc EXCEPT ![l].next = i]
  PROVE  /\ desc' \in DescType /\ (\A x \in 0 .. PoolCount : desc'[x].size = desc[x].size)
         /\ ChainApart' /\ OnList' = OnList \cup {i}
  <1>1. PICK n \in 0 .. PoolCount : (n = 0 \/ Chain[n] # 0) /\ Chain[n + 1] = 0 /\ l = Chain[n]
    BY DEF AtTail
  <1>2. PoolCount \in Nat /\ PoolCount + 1 \in Nat
    BY BasesAssumption
  <1>3. /\ Chain \in [0 .. PoolCount + 1 -> 0 .. PoolCount] /\ Chain[0] = 0
        /\ \A k \in 1 .. PoolCount + 1 :
              /\ Chain[k] \in 0 .. PoolCount
              /\ Chain[k] = IF k > 1 /\ Chain[k - 1] = 0 THEN 0 ELSE desc[Chain[k - 1]].next
    BY ChainIs
  <1>4. i # 0 /\ i \in 0 .. PoolCount /\ l \in 0 .. PoolCount
    BY <1>1, <1>2, <1>3 DEF Pool
  <1>5. \A k \in 1 .. PoolCount : Chain[k] # i
    BY <1>4 DEF OnList
  <1>6. Chain[PoolCount + 1] = 0 /\ Chain[PoolCount] = 0
    BY ChainHasEnd
  <1>7. n < PoolCount /\ n + 1 \in 1 .. PoolCount
    <2>1. PoolCount # 0
      BY <1>2 DEF Pool
    <2> QED BY <1>1, <1>2, <1>6, <2>1
  <1>8. \A k \in 0 .. PoolCount + 1 : k # n + 1 => Chain[k] # i
    BY <1>2, <1>3, <1>4, <1>5, <1>6
  <1>9. /\ desc' \in DescType /\ desc'[l].next = i
        /\ \A x \in 0 .. PoolCount : desc'[x].size = desc[x].size
        /\ \A x \in 0 .. PoolCount : x # l => desc'[x] = desc[x]
    BY <1>4, NextStore
  <1>10. l # i
    BY <1>1, <1>3, <1>4, <1>5, <1>7
  <1> DEFINE w == [k \in 0 .. PoolCount + 1 |-> IF k = n + 1 THEN i ELSE Chain[k]]
  <1>11. ASSUME NEW k \in 0 .. PoolCount + 1 PROVE w[k] = Follow(desc', w, k)
    <2>1. CASE k = 0
      BY <2>1, <1>1, <1>3 DEF Follow
    <2>2. CASE k \in 1 .. n
      <3>1. k \in 1 .. PoolCount + 1 /\ k - 1 \in 0 .. PoolCount /\ k # n + 1 /\ k - 1 # n + 1 /\ k # 0
            /\ k - 1 # n /\ n # 0 /\ n \in 1 .. PoolCount + 1 /\ k - 1 \in 0 .. PoolCount + 1
        BY <2>2, <1>1, <1>2
      <3>2. w[k] = Chain[k] /\ w[k - 1] = Chain[k - 1]
        BY <3>1
      <3>3. Chain[k - 1] # l
        <4>1. CASE k - 1 = 0
          BY <4>1, <3>1, <1>1, <1>3
        <4>2. CASE k - 1 # 0
          <5>1. k - 1 \in 1 .. PoolCount + 1
            BY <4>2, <3>1
          <5> QED BY <5>1, <3>1, <1>1 DEF ChainApart
        <4> QED BY <4>1, <4>2
      <3>4. Chain[k - 1] \in 0 .. PoolCount
        BY <3>1, <1>3
      <3>5. desc'[Chain[k - 1]] = desc[Chain[k - 1]]
        BY <3>3, <3>4, <1>9
      <3>6. Chain[k] = IF k > 1 /\ Chain[k - 1] = 0 THEN 0 ELSE desc[Chain[k - 1]].next
        BY <3>1, <1>3
      <3> HIDE DEF w
      <3> QED BY <3>1, <3>2, <3>5, <3>6 DEF Follow
    <2>3. CASE k = n + 1
      <3>1. k # 0 /\ k - 1 = n /\ n # n + 1 /\ n \in 0 .. PoolCount + 1 /\ (k > 1 => n # 0)
        BY <2>3, <1>1, <1>2
      <3>2. w[k] = i /\ w[k - 1] = l
        BY <2>3, <3>1, <1>1
      <3>3. ~(k > 1 /\ w[k - 1] = 0)
        BY <3>1, <3>2, <1>1
      <3> HIDE DEF w
      <3> QED BY <3>1, <3>2, <3>3, <1>9 DEF Follow
    <2>4. CASE k = n + 2
      <3>1. k # 0 /\ k - 1 = n + 1 /\ k # n + 1 /\ n + 1 \in 0 .. PoolCount + 1 /\ k \in n + 1 .. PoolCount + 1
            /\ n + 1 \in 1 .. PoolCount + 1
        BY <2>4, <1>1, <1>2
      <3>2. Chain[k] = 0
        BY <3>1, <1>1, ChainEnds
      <3>3. w[k] = 0 /\ w[k - 1] = i
        BY <3>1, <3>2
      <3>4. desc'[i].next = 0
        BY <1>4, <1>9, <1>10
      <3> HIDE DEF w
      <3> QED BY <3>1, <3>3, <3>4, <1>4 DEF Follow
    <2>5. CASE k > n + 2
      <3>1. k # 0 /\ k # n + 1 /\ k - 1 # n + 1 /\ k \in n + 1 .. PoolCount + 1 /\ k - 1 \in n + 1 .. PoolCount + 1
            /\ n + 1 \in 1 .. PoolCount + 1 /\ k > 1 /\ k - 1 \in 0 .. PoolCount + 1
        BY <2>5, <1>1, <1>2
      <3>2. Chain[k] = 0 /\ Chain[k - 1] = 0
        BY <3>1, <1>1, ChainEnds
      <3>3. w[k] = 0 /\ w[k - 1] = 0
        BY <3>1, <3>2
      <3> HIDE DEF w
      <3> QED BY <3>1, <3>3 DEF Follow
    <2> QED BY <2>1, <2>2, <2>3, <2>4, <2>5, <1>1, <1>2
  <1>12. w = [k \in 0 .. PoolCount + 1 |-> Follow(desc', w, k)]
    BY <1>11
  <1>13. Chain' = w
    <2> HIDE DEF w
    <2> QED BY <1>9, <1>12, NextChainIs
  <1>14. ChainApart'
    <2>1. ASSUME NEW j \in 1 .. PoolCount + 1, NEW k \in 1 .. PoolCount + 1, j # k, w[j] = w[k]
          PROVE  w[j] = 0
      <3>1. j \in 0 .. PoolCount + 1 /\ k \in 0 .. PoolCount + 1
        OBVIOUS
      <3>2. CASE j = n + 1 \/ k = n + 1
        BY <2>1, <3>1, <3>2, <1>8
      <3>3. CASE j # n + 1 /\ k # n + 1
        <4>1. w[j] = Chain[j] /\ w[k] = Chain[k]
          BY <3>1, <3>3
        <4> HIDE DEF w
        <4> QED BY <4>1, <2>1 DEF ChainApart
      <3> QED BY <3>2, <3>3
    <2> HIDE DEF w
    <2> QED BY <1>13, <2>1 DEF ChainApart
  <1>15. OnList' = OnList \cup {i}
    <2>1. OnList' = {w[k] : k \in 1 .. PoolCount} \ {0}
      BY <1>13 DEF OnList
    <2>2. \A k \in 1 .. PoolCount : k \in 0 .. PoolCount + 1
      BY <1>2
    <2>3. \A k \in 1 .. PoolCount : w[k] = IF k = n + 1 THEN i ELSE Chain[k]
      BY <2>2
    <2> HIDE DEF w
    <2>4. i \in OnList'
      BY <2>1, <2>3, <1>4, <1>7
    <2>5. ASSUME NEW x \in OnList PROVE x \in OnList'
      <3>1. PICK k \in 1 .. PoolCount : x = Chain[k] /\ x # 0
        BY DEF OnList
      <3>2. k # n + 1
        BY <3>1, <1>1
      <3> QED BY <2>1, <2>3, <3>1, <3>2
    <2>6. ASSUME NEW x \in OnList' PROVE x \in OnList \cup {i}
      <3>1. PICK k \in 1 .. PoolCount : x = w[k] /\ x # 0
        BY <2>1
      <3> QED BY <2>3, <3>1 DEF OnList
    <2> QED BY <2>4, <2>5, <2>6
  <1> QED BY <1>9, <1>14, <1>15

LEMMA PublishKeeps ==
  ASSUME SharedInv, NEW p \in SProc, Publish(p)
  PROVE  SharedInv'
  <1> DEFINE i == call[p].pool
             l == call[p].last
  <1>1. call[p].at = "publish" /\ SharedGo(p, "read") /\ desc' = [desc EXCEPT ![l].next = i]
        /\ UNCHANGED <<sect, view, mutex, given, ptrs, alive>>
    BY DEF Publish
  <1>2. SharedType /\ desc \in DescType /\ ChainApart
    BY DEF SharedInv, SharedType
  <1>3. Busy(p) /\ i \in Pool /\ desc[i].next = 0
    BY <1>1, Alone DEF Busy
  <1>4. call[p].fresh /\ i \notin OnList /\ AtTail(l) /\ sect[i].initialized
    BY <1>1, <1>3 DEF Busy, Taking, Placed
  <1>5. /\ desc' \in DescType /\ (\A x \in 0 .. PoolCount : desc'[x].size = desc[x].size)
        /\ ChainApart' /\ OnList' = OnList \cup {i}
    <2> HIDE DEF i, l
    <2> QED BY <1>1, <1>2, <1>3, <1>4, ChainGrows
  <1>7. /\ call' \in [SProc -> SCallType] /\ call'[p].at = "read"
        /\ call'[p].size = call[p].size /\ call'[p].pool = i
        /\ \A q \in SProc : q # p => call'[q] = call[q]
    <2>1. "read" \in SPlaces
      BY DEF SPlaces
    <2> QED BY <1>1, <1>2, <2>1, CallGoes
  <1>8. SharedType'
    BY <1>1, <1>2, <1>5, <1>7 DEF SharedType
  <1>9. \A x \in Pool : desc'[x].size = desc[x].size
    BY <1>5 DEF Pool
  <1>10. ListSized'
    <2>1. desc[i].size # 0
      BY <1>3, <1>4 DEF SharedInv, SectionSound
    <2> QED BY <2>1, <1>2, <1>3, <1>5, <1>9, OnListIs DEF ListSized, SharedInv
  <1>11. SectionSound'
    BY <1>1, <1>9, SectionFrame
  <1>12. ViewSound'
    <2>1. "publish" \notin Early
      BY DEF Early
    <2> QED BY <1>1, <1>7, <2>1, ViewFrame
  <1>13. GivenSound' /\ PtrsSound' /\ DeadSound'
    <2>1. GivenSound'
      BY <1>1 DEF SharedInv, GivenSound, Below
    <2>2. PtrsSound'
      BY <1>1, <1>5 DEF SharedInv, PtrsSound
    <2>3. DeadSound'
      BY <1>1 DEF SharedInv, DeadSound
    <2> QED BY <2>1, <2>2, <2>3
  <1>14. Busy(p)'
    <2>1. Placed(call[p])'
      BY <1>5, <1>7 DEF Placed, Early
    <2>2. Begun(call[p], sect[i], desc[i].size, view[p][i])'
      BY <1>1, <1>3, <1>7 DEF Busy, Begun, Early
    <2>3. Taking(call[p], sect[i], view[p][i])'
      BY <1>1, <1>4, <1>7 DEF Taking
    <2> QED BY <1>1, <1>3, <1>7, <2>1, <2>2, <2>3 DEF Busy
  <1>15. BusySound'
    BY <1>1, <1>7, <1>14, BusyFrame
  <1> QED BY <1>5, <1>8, <1>10, <1>11, <1>12, <1>13, <1>15 DEF SharedInv

LEMMA ReadFirstKeeps ==
  ASSUME SharedInv, NEW p \in SProc, ReadFirst(p)
  PROVE  SharedInv'
  <1> DEFINE c == call[p]
             i == c.pool
             f == sect[i].first
             n == sect[i].link[f[2]]
             d == [[[c EXCEPT !.cur = f] EXCEPT !.next = n] EXCEPT !.at = "pop"]
  <1>1. c.at = "read" /\ f # NoPtr /\ f[1] = view[p][i] /\ call' = [call EXCEPT ![p] = d]
        /\ UNCHANGED <<desc, sect, view, mutex, given, ptrs, alive>>
    <2>1. call' = [call EXCEPT ![p].cur = f, ![p].next = n, ![p].at = "pop"] /\ call \in [SProc -> SCallType]
      BY DEF ReadFirst, SharedInv, SharedType
    <2>2. call' = [call EXCEPT ![p] = d]
      BY <2>1
    <2> QED BY <2>2 DEF ReadFirst
  <1>2. SharedType
    BY DEF SharedInv
  <1>3. Busy(p) /\ i \in Pool /\ i \in OnList /\ sect[i].initialized /\ view[p][i] # 0
    BY <1>1, Alone DEF Busy, Placed, Early, Taking, Begun
  <1>4. c \in SCallType /\ sect[i] \in SectType
    BY <1>2, <1>3 DEF SharedType
  <1>5. f \in SPointer /\ f[2] \in SharedSlot /\ n \in SPointer
    <2>1. f \in SPointer
      BY <1>4 DEF SectType
    <2>2. f[2] \in SharedSlot
      BY <2>1, <1>1 DEF SPointer
    <2> QED BY <2>1, <2>2, <1>4 DEF SectType
  <1>6. d \in SCallType /\ d.at = "pop" /\ d.pool = i /\ d.size = c.size /\ d.cur = f /\ d.next = n
    <2> HIDE DEF f, n, i
    <2>1. [c EXCEPT !.cur = f] \in SCallType
      BY <1>4, <1>5 DEF SCallType
    <2> DEFINE a == [c EXCEPT !.cur = f]
    <2>2. a.pool = c.pool /\ a.size = c.size /\ a.cur = f
      BY <1>4 DEF SCallType
    <2> HIDE DEF a
    <2> DEFINE b == [a EXCEPT !.next = n]
    <2>3. b \in SCallType /\ b.pool = c.pool /\ b.size = c.size /\ b.cur = f /\ b.next = n
      BY <2>1, <2>2, <1>5 DEF a, SCallType
    <2>4. d = [b EXCEPT !.at = "pop"]
      BY DEF a, b
    <2>5. "pop" \in SPlaces
      BY DEF SPlaces
    <2> HIDE DEF b
    <2> QED BY <2>3, <2>4, <2>5 DEF SCallType, i
  <1> HIDE DEF d
  <1>7. call' \in [SProc -> SCallType] /\ call'[p] = d /\ \A q \in SProc : q # p => call'[q] = call[q]
    BY <1>1, <1>2, <1>6 DEF SharedType
  <1>8. Chain' = Chain /\ OnList' = OnList
    BY <1>1, SameChain
  <1>9. SharedType' /\ ChainApart' /\ ListSized' /\ SectionSound'
    BY <1>1, <1>2, <1>7, <1>8, SectionFrame DEF SharedType, SharedInv, ChainApart, ListSized
  <1>10. GivenSound' /\ PtrsSound' /\ DeadSound'
    BY <1>1, <1>8, GivenFrame
  <1>11. ViewSound'
    <2>1. "read" \notin Early
      BY DEF Early
    <2> QED BY <1>1, <1>7, <2>1, ViewFrame
  <1>12. Busy(p)'
    <2>1. Placed(call[p])'
      BY <1>3, <1>6, <1>7, <1>8 DEF Placed, Early
    <2>2. Begun(call[p], sect[i], desc[i].size, view[p][i])'
      BY <1>1, <1>3, <1>6, <1>7 DEF Begun, Early
    <2>3. Taking(call[p], sect[i], view[p][i])'
      BY <1>1, <1>3, <1>6, <1>7 DEF Taking
    <2>4. c.size \in SSize /\ p \in alive /\ mutex = p
      BY <1>3 DEF Busy
    <2> QED BY <1>1, <1>3, <1>6, <1>7, <2>1, <2>2, <2>3, <2>4 DEF Busy
  <1>13. BusySound'
    BY <1>1, <1>7, <1>12, BusyFrame
  <1> QED BY <1>9, <1>10, <1>11, <1>13 DEF SharedInv

(* A section of the call's pool is written; the others are as they were,   *)
(* and what the code was given of this one still holds.                    *)
LEMMA SectFrame ==
  ASSUME SharedInv, NEW i \in Pool, sect' \in [Pool -> SectType],
         \A j \in Pool : j # i => sect'[j] = sect[j],
         sect[i].initialized => sect'[i].initialized,
         sect'[i].initialized => desc[i].size # 0 /\ Linked(sect'[i]) /\ \E p \in SProc : view[p][i] # 0,
         \A s \in SharedSlot : <<i, s>> \in given => Below(sect'[i], s),
         UNCHANGED <<desc, view, mutex, given, ptrs, alive>>
  PROVE  /\ Chain' = Chain /\ OnList' = OnList
         /\ ChainApart' /\ ListSized' /\ SectionSound' /\ GivenSound' /\ PtrsSound' /\ DeadSound'
  <1>1. Chain' = Chain /\ OnList' = OnList
    BY SameChain
  <1>2. ChainApart' /\ ListSized'
    BY <1>1 DEF SharedInv, ChainApart, ListSized
  <1>3. SectionSound'
    <2> SUFFICES ASSUME NEW j \in Pool, sect'[j].initialized
                 PROVE  desc[j].size # 0 /\ Linked(sect'[j]) /\ \E p \in SProc : view[p][j] # 0
      BY DEF SectionSound, Linked, LinkedBy
    <2>1. CASE j = i
      BY <2>1
    <2>2. CASE j # i
      BY <2>2 DEF SharedInv, SectionSound
    <2> QED BY <2>1, <2>2
  <1>4. \A g \in given : g[1] \in Pool /\ g[2] \in SharedSlot /\ g = <<g[1], g[2]>>
    BY DEF SharedInv, SharedType
  <1>5. GivenSound'
    <2> SUFFICES ASSUME NEW g \in given PROVE sect'[g[1]].initialized /\ Below(sect'[g[1]], g[2])
      BY DEF GivenSound, Below
    <2>0. sect[g[1]].initialized /\ Below(sect[g[1]], g[2])
      BY DEF SharedInv, GivenSound
    <2>1. CASE g[1] = i
      BY <2>0, <2>1, <1>4
    <2>2. CASE g[1] # i
      BY <2>0, <2>2, <1>4
    <2> QED BY <2>1, <2>2
  <1>6. PtrsSound'
    <2>1. \A j \in Pool : sect[j].initialized => sect'[j].initialized
      OBVIOUS
    <2>2. OnList \subseteq Pool
      BY OnListIs DEF SharedInv, SharedType
    <2> QED BY <1>1, <2>1, <2>2 DEF SharedInv, PtrsSound
  <1>7. DeadSound'
    BY DEF SharedInv, DeadSound
  <1> QED BY <1>1, <1>2, <1>3, <1>5, <1>6, <1>7

(* The call's own view is the only one its pool has before it is ready.    *)
LEMMA ViewSectFrame ==
  ASSUME SharedInv, NEW p \in SProc, NEW i \in Pool, call[p].pool = i,
         \A j \in Pool : j # i => sect'[j] = sect[j],
         sect[i].initialized => sect'[i].initialized,
         \A q \in SProc : q # p => call'[q] = call[q],
         sect'[i].initialized \/ ~(call[p].at \in Early) \/ (call'[p].at \in Early /\ call'[p].pool = i),
         UNCHANGED view
  PROVE  ViewSound'
  <1> SUFFICES ASSUME NEW q \in SProc, NEW j \in Pool, view[q][j] # 0
               PROVE  sect'[j].initialized \/ (call'[q].at \in Early /\ call'[q].pool = j)
    BY DEF ViewSound
  <1>1. sect[j].initialized \/ (call[q].at \in Early /\ call[q].pool = j)
    BY DEF SharedInv, ViewSound
  <1>2. CASE sect[j].initialized
    BY <1>2
  <1>3. CASE ~sect[j].initialized /\ q # p
    BY <1>1, <1>3
  <1>4. CASE ~sect[j].initialized /\ q = p
    BY <1>1, <1>4
  <1> QED BY <1>2, <1>3, <1>4

LEMMA LinkedFresh ==
  ASSUME NEW b \in Nat \ {0}
  PROVE  <<b, 1>> \in SPointer /\ LinksOf(b) \in [SharedSlot -> SPointer] /\ 1 \in SharedSlot
  BY SharedAssumption DEF SPointer, LinksOf

LEMMA InitChainKeeps ==
  ASSUME SharedInv, NEW p \in SProc, InitChain(p)
  PROVE  SharedInv'
  <1> DEFINE i == call[p].pool
             b == view[p][i]
             x == sect[i]
             y == [[x EXCEPT !.first = <<b, 1>>] EXCEPT !.link = LinksOf(b)]
  <1>1. call[p].at = "chain" /\ SharedGo(p, "size") /\ sect' = [sect EXCEPT ![i] = y]
        /\ UNCHANGED <<desc, view, mutex, given, ptrs, alive>>
    <2>1. sect' = [sect EXCEPT ![i].first = <<b, 1>>, ![i].link = LinksOf(b)] /\ sect \in [Pool -> SectType]
      BY DEF InitChain, LinksOf, SharedInv, SharedType
    <2>2. sect' = [sect EXCEPT ![i] = y]
      BY <2>1
    <2> QED BY <2>2 DEF InitChain
  <1>2. SharedType
    BY DEF SharedInv
  <1>3. Busy(p) /\ i \in Pool /\ ~x.initialized /\ b # 0
    BY <1>1, Alone DEF Busy, Early, Begun
  <1>4. x \in SectType /\ b \in Nat \ {0}
    BY <1>2, <1>3 DEF SharedType
  <1>5. y \in SectType /\ y.initialized = x.initialized /\ y.first = <<b, 1>> /\ y.link = LinksOf(b)
    <2> HIDE DEF x, b
    <2> DEFINE z == [x EXCEPT !.first = <<b, 1>>]
    <2>1. z \in SectType /\ z.initialized = x.initialized /\ z.first = <<b, 1>>
      BY <1>4, LinkedFresh DEF SectType
    <2>2. y = [z EXCEPT !.link = LinksOf(b)]
      BY DEF z
    <2> HIDE DEF z
    <2> QED BY <2>1, <2>2, <1>4, LinkedFresh DEF SectType
  <1>6. LinkedBy(y, b)
    BY <1>4, <1>5, LinkedFresh DEF LinkedBy
  <1> HIDE DEF y
  <1>7. sect' \in [Pool -> SectType] /\ sect'[i] = y /\ \A j \in Pool : j # i => sect'[j] = sect[j]
    BY <1>1, <1>2, <1>3, <1>5 DEF SharedType
  <1>8. ~sect[i].initialized /\ ~sect'[i].initialized
    BY <1>3, <1>5, <1>7
  <1>9. \A s \in SharedSlot : <<i, s>> \notin given
    BY <1>8 DEF SharedInv, GivenSound
  <1>10. /\ Chain' = Chain /\ OnList' = OnList
         /\ ChainApart' /\ ListSized' /\ SectionSound' /\ GivenSound' /\ PtrsSound' /\ DeadSound'
    <2> HIDE DEF i
    <2> QED BY <1>1, <1>3, <1>7, <1>8, <1>9, SectFrame
  <1>11. /\ call' \in [SProc -> SCallType] /\ call'[p].at = "size"
         /\ call'[p].size = call[p].size /\ call'[p].pool = i
         /\ call'[p].last = call[p].last /\ call'[p].fresh = call[p].fresh
         /\ \A q \in SProc : q # p => call'[q] = call[q]
    <2>1. "size" \in SPlaces
      BY DEF SPlaces
    <2> QED BY <1>1, <1>2, <2>1, CallGoes
  <1>12. SharedType'
    BY <1>1, <1>2, <1>7, <1>11 DEF SharedType
  <1>13. ViewSound'
    <2>1. "size" \in Early
      BY DEF Early
    <2> HIDE DEF i
    <2> QED BY <1>1, <1>3, <1>7, <1>8, <1>11, <2>1, ViewSectFrame DEF i
  <1>14. Busy(p)'
    <2>1. Placed(call[p])'
      BY <1>1, <1>3, <1>10, <1>11 DEF Busy, Placed, AtTail, Early
    <2>2. Begun(call[p], sect[i], desc[i].size, view[p][i])'
      <3>1. Linked(sect[i])'
        BY <1>4, <1>6, <1>7, <1>11 DEF Linked, LinkedBy
      <3> QED BY <1>1, <1>3, <1>8, <1>11, <3>1 DEF Begun, Early
    <2>3. Taking(call[p], sect[i], view[p][i])'
      BY <1>11 DEF Taking
    <2> QED BY <1>1, <1>3, <1>11, <2>1, <2>2, <2>3 DEF Busy
  <1>15. BusySound'
    BY <1>1, <1>11, <1>14, BusyFrame
  <1> QED BY <1>10, <1>12, <1>13, <1>15 DEF SharedInv

LEMMA InitFlagKeeps ==
  ASSUME SharedInv, NEW p \in SProc, InitFlag(p)
  PROVE  SharedInv'
  <1> DEFINE c == call[p]
             i == c.pool
             x == sect[i]
             y == [x EXCEPT !.initialized = TRUE]
             to == IF c.fresh THEN "link" ELSE "read"
  <1>1. c.at = "flag" /\ SharedGo(p, to) /\ sect' = [sect EXCEPT ![i] = y]
        /\ UNCHANGED <<desc, view, mutex, given, ptrs, alive>>
    BY DEF InitFlag, SharedInv, SharedType
  <1>2. SharedType
    BY DEF SharedInv
  <1>3. Busy(p) /\ i \in Pool /\ ~x.initialized /\ view[p][i] # 0 /\ Linked(x) /\ desc[i].size # 0
    BY <1>1, Alone DEF Busy, Early, Begun
  <1>4. x \in SectType
    BY <1>2, <1>3 DEF SharedType
  <1>5. y \in SectType /\ y.initialized /\ y.first = x.first /\ y.link = x.link
    <2> HIDE DEF x
    <2> QED BY <1>4 DEF SectType
  <1>6. Linked(y)
    BY <1>3, <1>5 DEF LinkedBy, Linked
  <1> HIDE DEF y
  <1>7. sect' \in [Pool -> SectType] /\ sect'[i] = y /\ \A j \in Pool : j # i => sect'[j] = sect[j]
    BY <1>1, <1>2, <1>3, <1>5 DEF SharedType
  <1>8. ~sect[i].initialized /\ sect'[i].initialized /\ Linked(sect'[i])
    BY <1>3, <1>5, <1>6, <1>7
  <1>9. \A s \in SharedSlot : <<i, s>> \notin given
    BY <1>8 DEF SharedInv, GivenSound
  <1>10. /\ Chain' = Chain /\ OnList' = OnList
         /\ ChainApart' /\ ListSized' /\ SectionSound' /\ GivenSound' /\ PtrsSound' /\ DeadSound'
    <2> HIDE DEF i
    <2> QED BY <1>1, <1>3, <1>7, <1>8, <1>9, SectFrame
  <1>11. /\ call' \in [SProc -> SCallType] /\ call'[p].at = to
         /\ call'[p].size = call[p].size /\ call'[p].pool = i
         /\ call'[p].last = call[p].last /\ call'[p].fresh = call[p].fresh
         /\ \A q \in SProc : q # p => call'[q] = call[q]
    <2>1. to \in SPlaces
      BY DEF SPlaces
    <2> HIDE DEF to
    <2> QED BY <1>1, <1>2, <2>1, CallGoes
  <1>12. SharedType'
    BY <1>1, <1>2, <1>7, <1>11 DEF SharedType
  <1>13. ViewSound'
    <2> HIDE DEF i, to
    <2> QED BY <1>1, <1>3, <1>7, <1>8, <1>11, ViewSectFrame DEF i
  <1>14. Busy(p)'
    <2>1. Placed(call[p])'
      BY <1>1, <1>3, <1>10, <1>11 DEF Busy, Placed, AtTail, Early
    <2>2. Begun(call[p], sect[i], desc[i].size, view[p][i])'
      BY <1>1, <1>3, <1>11 DEF Begun, Early
    <2>3. Taking(call[p], sect[i], view[p][i])'
      BY <1>8, <1>11 DEF Taking
    <2> QED BY <1>1, <1>3, <1>11, <2>1, <2>2, <2>3 DEF Busy
  <1>15. BusySound'
    BY <1>1, <1>11, <1>14, BusyFrame
  <1> QED BY <1>10, <1>12, <1>13, <1>15 DEF SharedInv

(* The list without its first object.                                      *)
LEMMA PopLinked ==
  ASSUME NEW x \in SectType, Linked(x), x.first # NoPtr,
         NEW y \in SectType, y.link = x.link, y.first = x.link[x.first[2]]
  PROVE  /\ x.first[2] \in SharedSlot /\ Linked(y)
         /\ \A s \in Nat : s <= x.first[2] => Below(y, s)
  <1>1. PICK b \in Nat \ {0} : LinkedBy(x, b)
    BY DEF Linked
  <1>2. PICK s \in SharedSlot : x.first = <<b, s>>
    BY <1>1 DEF LinkedBy
  <1>3. x.first[2] = s /\ s \in Nat
    BY <1>2, SharedAssumption
  <1>4. y.first = IF s + 1 \in SharedSlot THEN <<b, s + 1>> ELSE NoPtr
    BY <1>1, <1>3 DEF LinkedBy, LinksOf
  <1>5. LinkedBy(y, b)
    BY <1>1, <1>4 DEF LinkedBy
  <1>6. \A t \in Nat : t <= s => Below(y, t)
    BY <1>3, <1>4 DEF Below
  <1> QED BY <1>3, <1>5, <1>6 DEF Linked

LEMMA PopFirstKeeps ==
  ASSUME SharedInv, NEW p \in SProc, PopFirst(p)
  PROVE  SharedInv'
  <1> DEFINE c == call[p]
             i == c.pool
             x == sect[i]
             y == [x EXCEPT !.first = c.next]
  <1>1. c.at = "pop" /\ SharedGo(p, "count") /\ sect' = [sect EXCEPT ![i] = y]
        /\ UNCHANGED <<desc, view, mutex, given, ptrs, alive>>
    BY DEF PopFirst, SharedInv, SharedType
  <1>2. SharedType
    BY DEF SharedInv
  <1>3. Busy(p) /\ i \in Pool /\ x.initialized /\ view[p][i] # 0 /\ i \in OnList
        /\ c.cur = x.first /\ c.cur # NoPtr /\ c.cur[1] = view[p][i] /\ c.next = x.link[c.cur[2]]
    BY <1>1, Alone DEF Busy, Early, Begun, Taking, Placed
  <1>4. x \in SectType /\ c.next \in SPointer
    BY <1>2, <1>3 DEF SharedType, SCallType
  <1>41. Linked(x) /\ desc[i].size # 0 /\ \E q \in SProc : view[q][i] # 0
    BY <1>3 DEF SharedInv, SectionSound
  <1>5. y \in SectType /\ y.initialized /\ y.first = c.next /\ y.link = x.link
    <2> HIDE DEF x
    <2> QED BY <1>3, <1>4 DEF SectType
  <1> HIDE DEF y
  <1>6. /\ x.first[2] \in SharedSlot /\ Linked(y)
        /\ \A s \in Nat : s <= x.first[2] => Below(y, s)
    <2>1. x.first # NoPtr /\ y.first = x.link[x.first[2]]
      BY <1>3, <1>5
    <2> HIDE DEF x
    <2> QED BY <2>1, <1>4, <1>41, <1>5, PopLinked
  <1>7. sect' \in [Pool -> SectType] /\ sect'[i] = y /\ \A j \in Pool : j # i => sect'[j] = sect[j]
    BY <1>1, <1>2, <1>3, <1>5 DEF SharedType
  <1>8. sect[i].initialized /\ sect'[i].initialized /\ Linked(sect'[i])
    BY <1>3, <1>5, <1>6, <1>7
  <1>81. \A s \in SharedSlot : s \in Nat
    BY SharedAssumption
  <1>9. ASSUME NEW s \in SharedSlot, <<i, s>> \in given
        PROVE  s < x.first[2] /\ Below(sect'[i], s)
    <2>1. Below(x, s)
      BY <1>9 DEF SharedInv, GivenSound
    <2>2. s < x.first[2] /\ s \in Nat /\ x.first[2] \in Nat
      BY <2>1, <1>3, <1>6, <1>81 DEF Below
    <2>3. s <= x.first[2]
      BY <2>2
    <2> QED BY <2>2, <2>3, <1>6, <1>7
  <1>10. /\ Chain' = Chain /\ OnList' = OnList
         /\ ChainApart' /\ ListSized' /\ SectionSound' /\ GivenSound' /\ PtrsSound' /\ DeadSound'
    <2>1. \A s \in SharedSlot : <<i, s>> \in given => Below(sect'[i], s)
      BY <1>9
    <2> HIDE DEF i
    <2> QED BY <1>1, <1>3, <1>41, <1>7, <1>8, <2>1, SectFrame
  <1>11. /\ call' \in [SProc -> SCallType] /\ call'[p].at = "count"
         /\ call'[p].size = c.size /\ call'[p].pool = i /\ call'[p].cur = c.cur
         /\ \A q \in SProc : q # p => call'[q] = call[q]
    <2>1. "count" \in SPlaces
      BY DEF SPlaces
    <2> QED BY <1>1, <1>2, <2>1, CallGoes
  <1>12. SharedType'
    BY <1>1, <1>2, <1>7, <1>11 DEF SharedType
  <1>13. ViewSound'
    <2> HIDE DEF i
    <2> QED BY <1>1, <1>3, <1>7, <1>8, <1>11, ViewSectFrame DEF i
  <1>14. Busy(p)'
    <2>1. Placed(call[p])'
      BY <1>3, <1>10, <1>11 DEF Placed, Early
    <2>2. Begun(call[p], sect[i], desc[i].size, view[p][i])'
      BY <1>1, <1>3, <1>11 DEF Begun, Early
    <2>3. Taking(call[p], sect[i], view[p][i])'
      <3>1. c.cur[2] \in SharedSlot /\ c.cur[2] \in Nat
        BY <1>3, <1>6, <1>81
      <3>2. <<i, c.cur[2]>> \notin given
        BY <3>1, <1>3, <1>9
      <3>3. Below(y, c.cur[2])
        BY <3>1, <1>3, <1>6
      <3>4. Below(sect[i], c.cur[2])'
        BY <3>3, <1>7, <1>11 DEF Below
      <3> QED BY <1>1, <1>3, <1>8, <1>11, <3>2, <3>3, <1>7 DEF Taking, Below
    <2>4. c.size \in SSize /\ p \in alive /\ mutex = p
      BY <1>3 DEF Busy
    <2> QED BY <1>1, <1>3, <1>11, <2>1, <2>2, <2>3, <2>4 DEF Busy
  <1>15. BusySound'
    BY <1>1, <1>11, <1>14, BusyFrame
  <1> QED BY <1>10, <1>12, <1>13, <1>15 DEF SharedInv

LEMMA IdleIs == Idle \in SCallType /\ Idle.at = "idle"
  <1>1. 0 \in 0 .. PoolCount
    BY BasesAssumption
  <1>2. NoPtr \in SPointer
    BY DEF SPointer
  <1> QED BY <1>1, <1>2 DEF Idle, SCallType, SPlaces

LEMMA ReturnKeeps ==
  ASSUME SharedInv, NEW p \in SProc, Return(p)
  PROVE  SharedInv'
  <1> DEFINE c == call[p]
             i == c.pool
             x == sect[i]
  <1>1. /\ c.at = "count" /\ desc' = [desc EXCEPT ![i].ref = desc[i].ref - 1]
        /\ mutex' = IF mutex = p THEN "none" ELSE mutex
        /\ given' = given \cup {<<i, c.cur[2]>>} /\ ptrs' = [ptrs EXCEPT ![p] = ptrs[p] \cup {<<i, c.cur>>}]
        /\ call' = [call EXCEPT ![p] = Idle] /\ UNCHANGED <<sect, view, alive>>
    BY DEF Return, SharedInv, SharedType, DescType
  <1>2. SharedType /\ desc \in DescType
    BY DEF SharedInv, SharedType
  <1>3. /\ Busy(p) /\ mutex = p /\ i \in Pool /\ x.initialized /\ view[p][i] # 0 /\ i \in OnList
        /\ c.cur # NoPtr /\ c.cur[1] = view[p][i] /\ Below(x, c.cur[2])
        /\ \A q \in SProc : q # p => call[q].at = "idle"
    BY <1>1, Alone DEF Busy, Early, Begun, Taking, Placed
  <1>4. c.cur \in SPointer /\ c.cur[2] \in SharedSlot
    <2>1. c.cur \in SPointer
      BY <1>2 DEF SharedType, SCallType
    <2> QED BY <2>1, <1>3 DEF SPointer
  <1>5. /\ desc' \in DescType
        /\ \A z \in 0 .. PoolCount : desc'[z].next = desc[z].next /\ desc'[z].size = desc[z].size
    <2>1. desc[i].ref - 1 \in Int
      BY <1>2, <1>3 DEF DescType, Pool
    <2> DEFINE n == desc[i].ref - 1
    <2> HIDE DEF i, n
    <2> QED BY <1>1, <1>2, <1>3, <2>1, RefStore DEF n
  <1>6. Chain' = Chain /\ OnList' = OnList
    BY <1>2, <1>5, OnListIs, ChainStays
  <1>7. /\ call' \in [SProc -> SCallType] /\ call'[p] = Idle
        /\ \A q \in SProc : q # p => call'[q] = call[q]
    BY <1>1, <1>2, IdleIs DEF SharedType
  <1>8. \A q \in SProc : call'[q].at = "idle"
    BY <1>3, <1>7, IdleIs
  <1>9. ptrs'[p] = ptrs[p] \cup {<<i, c.cur>>} /\ (\A q \in SProc : q # p => ptrs'[q] = ptrs[q])
        /\ ptrs' \in [SProc -> SUBSET (Pool \X SPointer)]
    <2>1. ptrs \in [SProc -> SUBSET (Pool \X SPointer)] /\ <<i, c.cur>> \in Pool \X SPointer
      BY <1>2, <1>3, <1>4 DEF SharedType
    <2>2. ptrs[p] \cup {<<i, c.cur>>} \in SUBSET (Pool \X SPointer)
      BY <2>1
    <2> DEFINE u == ptrs[p] \cup {<<i, c.cur>>}
    <2>3. ptrs' = [ptrs EXCEPT ![p] = u] /\ u \in SUBSET (Pool \X SPointer)
      BY <1>1, <2>2
    <2> HIDE DEF u
    <2>4. ptrs'[p] = u /\ (\A q \in SProc : q # p => ptrs'[q] = ptrs[q])
          /\ ptrs' \in [SProc -> SUBSET (Pool \X SPointer)]
      BY <2>1, <2>3
    <2> QED BY <2>4 DEF u
  <1>10. SharedType'
    <2>1. given' \subseteq Pool \X SharedSlot /\ mutex' = "none"
      BY <1>1, <1>2, <1>3, <1>4 DEF SharedType
    <2> QED BY <2>1, <1>1, <1>2, <1>5, <1>7, <1>9 DEF SharedType
  <1>11. \A z \in Pool : desc'[z].size = desc[z].size
    BY <1>5 DEF Pool
  <1>12. ChainApart' /\ ListSized' /\ SectionSound'
    BY <1>1, <1>2, <1>6, <1>11, OnListIs, SectionFrame DEF ChainApart, ListSized, SharedInv
  <1>13. GivenSound'
    <2> SUFFICES ASSUME NEW g \in given' PROVE sect[g[1]].initialized /\ Below(sect[g[1]], g[2])
      BY <1>1 DEF GivenSound, Below
    <2>1. CASE g \in given
      BY <2>1 DEF SharedInv, GivenSound
    <2>2. CASE g \notin given
      <3>1. g = <<i, c.cur[2]>>
        BY <1>1, <2>2
      <3>2. g[1] = i /\ g[2] = c.cur[2]
        BY <3>1
      <3> QED BY <1>3, <3>2
    <2> QED BY <2>1, <2>2
  <1>14. PtrsSound'
    <2> SUFFICES ASSUME NEW q \in SProc, NEW r \in ptrs'[q]
                 PROVE  sect[r[1]].initialized /\ r[1] \in OnList /\ view[q][r[1]] = r[2][1] /\ r[2] # NoPtr
      BY <1>1, <1>6 DEF PtrsSound
    <2>1. CASE r \in ptrs[q]
      BY <2>1 DEF SharedInv, PtrsSound
    <2>2. CASE r \notin ptrs[q]
      <3>1. q = p /\ r = <<i, c.cur>>
        BY <1>9, <2>2
      <3>2. q = p /\ r[1] = i /\ r[2] = c.cur
        BY <3>1
      <3> QED BY <1>3, <3>2
    <2> QED BY <2>1, <2>2
  <1>15. DeadSound'
    <2>1. p \in alive
      BY <1>3 DEF Busy
    <2> QED BY <1>1, <1>9, <2>1 DEF SharedInv, DeadSound
  <1>16. ViewSound' /\ BusySound'
    <2>1. "count" \notin Early
      BY DEF Early
    <2> QED BY <1>1, <1>7, <1>8, <2>1, ViewFrame DEF BusySound
  <1> QED BY <1>10, <1>12, <1>13, <1>14, <1>15, <1>16 DEF SharedInv

LEMMA MapKeeps ==
  ASSUME SharedInv, NEW p \in SProc, map_shared_heap_pool(p)
  PROVE  SharedInv'
  <1> DEFINE c == call[p]
             i == c.pool
             x == sect[i]
             y == [x EXCEPT !.exists = TRUE]
             to == IF ~x.initialized THEN "chain" ELSE IF c.fresh THEN "link" ELSE "read"
  <1>1. PICK b \in Bases[i] : view' = [view EXCEPT ![p][i] = b]
    BY DEF map_shared_heap_pool
  <1>2. /\ c.at = "map" /\ SharedGo(p, to) /\ sect' = [sect EXCEPT ![i] = y]
        /\ UNCHANGED <<desc, mutex, given, ptrs, alive>>
    BY DEF map_shared_heap_pool, SharedInv, SharedType
  <1>3. SharedType
    BY DEF SharedInv
  <1>4. /\ Busy(p) /\ p \in alive /\ mutex = p /\ i \in Pool /\ c.size \in SSize
        /\ IF c.fresh THEN desc[i].size = 0 /\ i \notin OnList /\ AtTail(c.last)
                      ELSE view[p][i] = 0 /\ i \in OnList
    BY <1>2, Alone DEF Busy, Early, Begun, Placed
  <1>5. b \in Nat \ {0}
    BY <1>4, BasesAssumption DEF Pool
  <1>6. x \in SectType
    BY <1>3, <1>4 DEF SharedType
  <1>7. y \in SectType /\ y.initialized = x.initialized /\ y.first = x.first /\ y.link = x.link
    <2> HIDE DEF x
    <2> QED BY <1>6 DEF SectType
  <1> HIDE DEF y
  <1>8. /\ sect' \in [Pool -> SectType] /\ sect'[i] = y
        /\ \A j \in Pool : /\ sect'[j].initialized = sect[j].initialized
                           /\ sect'[j].first = sect[j].first /\ sect'[j].link = sect[j].link
    BY <1>2, <1>3, <1>4, <1>7 DEF SharedType
  <1>9. /\ view' \in [SProc -> [Pool -> Nat]] /\ view'[p][i] = b
        /\ \A j \in Pool : j # i => view'[p][j] = view[p][j]
        /\ \A q \in SProc : q # p => view'[q] = view[q]
    <2>1. view \in [SProc -> [Pool -> Nat]] /\ b \in Nat
      BY <1>3, <1>5 DEF SharedType
    <2> HIDE DEF i
    <2> QED BY <2>1, <1>1, <1>4
  <1>10. /\ call' \in [SProc -> SCallType] /\ call'[p].at = to
         /\ call'[p].size = c.size /\ call'[p].pool = i
         /\ call'[p].last = c.last /\ call'[p].fresh = c.fresh
         /\ \A q \in SProc : q # p => call'[q] = call[q]
    <2>1. to \in SPlaces
      BY DEF SPlaces
    <2> HIDE DEF to
    <2> QED BY <1>2, <1>3, <2>1, CallGoes
  <1>11. Chain' = Chain /\ OnList' = OnList /\ OnList \subseteq Pool
    BY <1>2, <1>3, SameChain, OnListIs DEF SharedType
  <1>12. SharedType' /\ ChainApart' /\ ListSized'
    BY <1>2, <1>3, <1>8, <1>9, <1>10, <1>11 DEF SharedType, SharedInv, ChainApart, ListSized
  <1>13. SectionSound'
    <2> SUFFICES ASSUME NEW j \in Pool, sect'[j].initialized
                 PROVE  desc[j].size # 0 /\ Linked(sect'[j]) /\ \E q \in SProc : view'[q][j] # 0
      BY <1>2 DEF SectionSound, Linked, LinkedBy
    <2>1. desc[j].size # 0 /\ Linked(sect[j]) /\ \E q \in SProc : view[q][j] # 0
      BY <1>8 DEF SharedInv, SectionSound
    <2>2. Linked(sect'[j])
      BY <1>8, <2>1 DEF Linked, LinkedBy
    <2>3. PICK q \in SProc : view[q][j] # 0
      BY <2>1
    <2>4. view'[q][j] # 0
      BY <1>5, <1>9, <2>3
    <2> QED BY <2>1, <2>2, <2>4
  <1>14. GivenSound'
    <2>1. \A g \in given : g[1] \in Pool
      BY <1>3 DEF SharedType
    <2> QED BY <1>2, <1>8, <2>1 DEF SharedInv, GivenSound, Below
  <1>15. PtrsSound'
    <2> SUFFICES ASSUME NEW q \in SProc, NEW r \in ptrs[q]
                 PROVE  sect'[r[1]].initialized /\ r[1] \in OnList /\ view'[q][r[1]] = r[2][1] /\ r[2] # NoPtr
      BY <1>2, <1>11 DEF PtrsSound
    <2>1. sect[r[1]].initialized /\ r[1] \in OnList /\ view[q][r[1]] = r[2][1] /\ r[2] # NoPtr
      BY DEF SharedInv, PtrsSound
    <2>2. r[1] \in Pool /\ r[2] \in SPointer
      BY <1>3 DEF SharedType
    <2>3. r[2][1] # 0
      BY <2>1, <2>2 DEF SPointer
    <2>4. view'[q][r[1]] = view[q][r[1]]
      BY <1>4, <1>9, <2>1, <2>2, <2>3
    <2> QED BY <1>8, <2>1, <2>2, <2>4
  <1>16. DeadSound'
    BY <1>2, <1>4, <1>9 DEF SharedInv, DeadSound
  <1>17. ViewSound'
    <2> SUFFICES ASSUME NEW q \in SProc, NEW j \in Pool, view'[q][j] # 0
                 PROVE  sect'[j].initialized \/ (call'[q].at \in Early /\ call'[q].pool = j)
      BY DEF ViewSound
    <2>1. CASE view[q][j] # 0
      <3>1. sect[j].initialized \/ (call[q].at \in Early /\ call[q].pool = j)
        BY <2>1 DEF SharedInv, ViewSound
      <3>2. q = p => call[q].at \notin Early
        BY <1>2 DEF Early
      <3> QED BY <3>1, <3>2, <1>8, <1>10
    <2>2. CASE view[q][j] = 0
      <3>1. q = p /\ j = i
        BY <2>2, <1>9
      <3>2. sect[i].initialized \/ to \in Early
        BY DEF Early
      <3> QED BY <3>1, <3>2, <1>4, <1>8, <1>10
    <2> QED BY <2>1, <2>2
  <1>18. Busy(p)'
    <2>1. Placed(call[p])'
      BY <1>4, <1>10, <1>11 DEF Placed, AtTail, Early
    <2>2. Begun(call[p], sect[i], desc[i].size, view[p][i])'
      BY <1>4, <1>5, <1>8, <1>9, <1>10 DEF Begun, Early
    <2>3. Taking(call[p], sect[i], view[p][i])'
      BY <1>4, <1>8, <1>10 DEF Taking
    <2> QED BY <1>2, <1>4, <1>10, <2>1, <2>2, <2>3 DEF Busy
  <1>19. BusySound'
    BY <1>2, <1>10, <1>18, BusyFrame
  <1> QED BY <1>12, <1>13, <1>14, <1>15, <1>16, <1>17, <1>19 DEF SharedInv

(* A call starts, with the mutex.                                          *)
LEMMA StartKeepsShared ==
  ASSUME SharedInv, NEW p \in SProc, p \in alive, mutex = "none", NEW c \in SCallType,
         c.at \in {"map", "read"}, c.pool \in Pool, c.size \in SSize,
         Placed(c), Begun(c, sect[c.pool], desc[c.pool].size, view[p][c.pool]),
         Taking(c, sect[c.pool], view[p][c.pool]),
         call' = [call EXCEPT ![p] = c], mutex' = p,
         UNCHANGED <<desc, sect, view, given, ptrs, alive>>
  PROVE  SharedInv'
  <1>1. SharedType
    BY DEF SharedInv
  <1>2. call' \in [SProc -> SCallType] /\ call'[p] = c /\ \A q \in SProc : q # p => call'[q] = call[q]
    BY <1>1 DEF SharedType
  <1>3. \A q \in SProc : call[q].at = "idle"
    BY NoneBusy
  <1>4. Chain' = Chain /\ OnList' = OnList
    BY SameChain
  <1>5. SharedType' /\ ChainApart' /\ ListSized' /\ SectionSound'
    BY <1>1, <1>2, <1>4, SectionFrame DEF SharedType, SharedInv, ChainApart, ListSized
  <1>6. GivenSound' /\ PtrsSound' /\ DeadSound'
    BY <1>4, GivenFrame
  <1>7. ViewSound'
    <2>1. "idle" \notin Early
      BY DEF Early
    <2> QED BY <1>2, <1>3, <2>1, ViewFrame
  <1>8. Busy(p)'
    <2>1. Placed(call[p])'
      BY <1>2, <1>4 DEF Placed, AtTail
    <2>2. Begun(call[p], sect[c.pool], desc[c.pool].size, view[p][c.pool])'
      BY <1>2 DEF Begun, Linked, LinkedBy
    <2>3. Taking(call[p], sect[c.pool], view[p][c.pool])'
      BY <1>2 DEF Taking, Below
    <2> QED BY <1>2, <2>1, <2>2, <2>3 DEF Busy
  <1>9. BusySound'
    BY <1>2, <1>3, <1>8 DEF BusySound
  <1> QED BY <1>5, <1>6, <1>7, <1>9 DEF SharedInv

OnListed(n, i, at) ==
  [at |-> at, size |-> n, pool |-> i, last |-> 0, fresh |-> FALSE, cur |-> NoPtr, next |-> NoPtr]

Started(c, n, i, at) ==
  c \in SCallType /\ c.size = n /\ c.pool = i /\ c.fresh = FALSE /\ c.at = at

LEMMA StartedCall ==
  ASSUME NEW n, n \in Nat, NEW i, i \in 0 .. PoolCount, NEW at, at \in SPlaces
  PROVE  Started(OnListed(n, i, at), n, i, at)
  <1>1. NoPtr \in SPointer
    BY DEF SPointer
  <1>2. 0 \in 0 .. PoolCount
    BY BasesAssumption
  <1>3. OnListed(n, i, at) \in SCallType
    BY <1>1, <1>2 DEF SCallType, OnListed
  <1> QED BY <1>3 DEF OnListed, Started

Unlisted(n, i, l) == [Idle EXCEPT !.size = n, !.pool = i, !.last = l, !.fresh = TRUE, !.at = "map"]

LEMMA StartedFresh ==
  ASSUME NEW n, n \in Nat, NEW i, i \in 0 .. PoolCount, NEW l, l \in 0 .. PoolCount
  PROVE  LET c == Unlisted(n, i, l) IN
         c \in SCallType /\ c.size = n /\ c.pool = i /\ c.last = l /\ c.fresh /\ c.at = "map"
  <1> DEFINE a == [Idle EXCEPT !.size = n]
             b == [a EXCEPT !.pool = i]
             d == [b EXCEPT !.last = l]
             e == [d EXCEPT !.fresh = TRUE]
             c == [e EXCEPT !.at = "map"]
  <1>1. a \in SCallType /\ a.size = n
    <2>1. Idle \in SCallType
      BY IdleIs
    <2> QED BY <2>1 DEF SCallType
  <1> HIDE DEF a
  <1>2. b \in SCallType /\ b.size = n /\ b.pool = i
    BY <1>1 DEF SCallType
  <1> HIDE DEF b
  <1>3. d \in SCallType /\ d.size = n /\ d.pool = i /\ d.last = l
    BY <1>2 DEF SCallType
  <1> HIDE DEF d
  <1>4. e \in SCallType /\ e.size = n /\ e.pool = i /\ e.last = l /\ e.fresh
    BY <1>3 DEF SCallType
  <1> HIDE DEF e
  <1>5. c \in SCallType /\ c.size = n /\ c.pool = i /\ c.last = l /\ c.fresh /\ c.at = "map"
    <2>1. "map" \in SPlaces
      BY DEF SPlaces
    <2> QED BY <1>4, <2>1 DEF SCallType
  <1>6. c = Unlisted(n, i, l)
    BY DEF a, b, d, e, Unlisted
  <1> HIDE DEF c
  <1> QED BY <1>5, <1>6

LEMMA KmallocSharedKeeps ==
  ASSUME SharedInv, NEW p \in SProc, NEW size \in SSize, kmalloc_shared(p, size)
  PROVE  SharedInv'
  <1> DEFINE fits == {k \in 1 .. PoolCount :
                 /\ Chain[k] # 0 /\ desc[Chain[k]].size = size
                 /\ desc[Chain[k]].ref < MaxRef}
             tail == {k \in 0 .. PoolCount : (k = 0 \/ Chain[k] # 0) /\ Chain[k + 1] = 0}
             free == {i \in Pool : desc[i].size = 0}
             i1 == Chain[FX!Min(fits)]
             at1 == IF view[p][i1] = 0 THEN "map" ELSE "read"
             c1 == [Idle EXCEPT !.size = size, !.pool = i1, !.at = at1]
             i2 == FX!Min(free)
             l2 == Chain[FX!Min(tail)]
             c2 == [Idle EXCEPT !.size = size, !.pool = i2, !.last = l2, !.fresh = TRUE, !.at = "map"]
  <1>1. /\ p \in alive /\ mutex = "none" /\ UNCHANGED <<desc, sect, view, given, ptrs, alive>>
        /\ \/ fits # {} /\ call' = [call EXCEPT ![p] = c1] /\ mutex' = p
           \/ fits = {} /\ free # {} /\ call' = [call EXCEPT ![p] = c2] /\ mutex' = p
           \/ UNCHANGED <<mutex, call>>
    BY DEF kmalloc_shared, LockHeap
  <1> HIDE DEF c1, c2
  <1>2. SharedType /\ desc \in DescType /\ ChainApart
    BY DEF SharedInv, SharedType
  <1>3. size \in Nat /\ PoolCount \in Nat /\ 0 \in 0 .. PoolCount
    BY SharedAssumption, BasesAssumption
  <1>4. \A q \in SProc : call[q].at = "idle"
    BY <1>1, NoneBusy
  <1>5. CASE fits # {} /\ call' = [call EXCEPT ![p] = c1] /\ mutex' = p
    <2>1. FX!Min(fits) \in fits
      <3>1. fits \in SUBSET Nat
        OBVIOUS
      <3> HIDE DEF fits
      <3> QED BY <1>5, <3>1, LeastIsIn
    <2>2. FX!Min(fits) \in 1 .. PoolCount /\ i1 # 0
      BY <2>1
    <2>3. i1 \in OnList
      BY <2>2 DEF OnList
    <2> HIDE DEF i1
    <2>4. i1 \in Pool /\ i1 \in 0 .. PoolCount
      BY <1>2, <2>3, OnListIs
    <2>5. view[p][i1] # 0 => sect[i1].initialized
      <3>1. "idle" \notin Early
        BY DEF Early
      <3> QED BY <1>4, <2>4, <3>1 DEF SharedInv, ViewSound
    <2>6. at1 \in SPlaces /\ at1 \in {"map", "read"}
      BY DEF SPlaces
    <2>7. c1 = OnListed(size, i1, at1)
      <3> DEFINE a == at1
      <3>1. c1 = [Idle EXCEPT !.size = size, !.pool = i1, !.at = a]
        BY DEF c1
      <3> HIDE DEF a
      <3>2. c1 = OnListed(size, i1, a)
        BY <3>1 DEF Idle, OnListed
      <3> QED BY <3>2 DEF a
    <2>8. /\ c1 \in SCallType /\ c1.size = size /\ c1.pool = i1 /\ c1.fresh = FALSE /\ c1.at = at1
      <3> DEFINE a == at1
      <3>1. a \in SPlaces /\ c1 = OnListed(size, i1, a)
        BY <2>6, <2>7
      <3> HIDE DEF a
      <3>2. /\ c1 \in SCallType /\ c1.size = size /\ c1.pool = i1 /\ c1.fresh = FALSE /\ c1.at = a
        <4>1. size \in Nat /\ i1 \in 0 .. PoolCount /\ a \in SPlaces
          BY <1>3, <2>4, <3>1
        <4>2. Started(OnListed(size, i1, a), size, i1, a)
          BY ONLY <4>1, StartedCall
        <4>3. Started(c1, size, i1, a)
          BY ONLY <4>2, <3>1
        <4> QED BY <4>3 DEF Started
      <3> QED BY <3>2 DEF a
    <2>9. Placed(c1)
      BY <2>3, <2>8 DEF Placed
    <2>10. Begun(c1, sect[i1], desc[i1].size, view[p][i1])
      BY <2>8 DEF Begun, Early
    <2>11. Taking(c1, sect[i1], view[p][i1])
      BY <2>5, <2>8 DEF Taking
    <2> QED BY <1>1, <1>5, <2>4, <2>6, <2>8, <2>9, <2>10, <2>11, StartKeepsShared
  <1>6. CASE fits = {} /\ free # {} /\ call' = [call EXCEPT ![p] = c2] /\ mutex' = p
    <2>1. i2 \in free
      <3>1. free \in SUBSET Nat
        BY DEF Pool
      <3> HIDE DEF free
      <3> QED BY <1>6, <3>1, LeastIsIn
    <2>2. i2 \in Pool /\ i2 \in 0 .. PoolCount /\ desc[i2].size = 0
      BY <2>1 DEF Pool
    <2> HIDE DEF i2
    <2>3. i2 \notin OnList
      BY <2>2 DEF SharedInv, ListSized
    <2>4. tail # {}
      <3> DEFINE E == {k \in 1 .. PoolCount + 1 : Chain[k] = 0}
                 m == FX!Min(E)
      <3>1. PoolCount + 1 \in E
        BY <1>2, <1>3, ChainHasEnd
      <3>2. m \in E /\ \A k \in E : m <= k
        <4>1. E \in SUBSET Nat /\ E # {}
          BY <3>1
        <4> HIDE DEF E
        <4> QED BY <4>1, LeastIsIn
      <3> HIDE DEF m
      <3>3. m - 1 \in 0 .. PoolCount /\ (m - 1) + 1 = m /\ Chain[m] = 0
        BY <3>2, <1>3
      <3>4. m - 1 = 0 \/ Chain[m - 1] # 0
        <4> SUFFICES ASSUME m - 1 # 0, Chain[m - 1] = 0 PROVE FALSE
          OBVIOUS
        <4>1. m - 1 \in 1 .. PoolCount + 1
          BY <3>3, <1>3
        <4>2. m - 1 \in E /\ ~(m <= m - 1)
          BY <4>1, <3>3, <1>3
        <4> HIDE DEF E
        <4> QED BY <3>2, <4>2
      <3>5. m - 1 \in tail
        BY <3>3, <3>4
      <3> QED BY <3>5
    <2>5. FX!Min(tail) \in tail
      <3>1. tail \in SUBSET Nat
        <4>1. 0 .. PoolCount \subseteq Nat
          OBVIOUS
        <4> QED BY <4>1
      <3> HIDE DEF tail
      <3> QED BY <2>4, <3>1, LeastIsIn
    <2>6. AtTail(l2)
      BY <2>5 DEF AtTail
    <2>7. l2 \in 0 .. PoolCount
      <3> DEFINE m == FX!Min(tail)
      <3>1. m \in 0 .. PoolCount
        BY <2>5
      <3> HIDE DEF m
      <3>2. m \in 0 .. PoolCount + 1
        BY <3>1, <1>3
      <3>3. Chain[m] \in 0 .. PoolCount
        BY <1>2, <3>2, ChainIs
      <3> QED BY <3>3 DEF m
    <2> HIDE DEF l2
    <2>8. /\ c2 \in SCallType /\ c2.size = size /\ c2.pool = i2 /\ c2.last = l2 /\ c2.fresh
          /\ c2.at = "map"
      <3>1. c2 = Unlisted(size, i2, l2)
        BY DEF c2, Unlisted
      <3> QED BY ONLY <1>3, <2>2, <2>7, <3>1, StartedFresh
    <2>9. Placed(c2)
      BY <2>3, <2>6, <2>8 DEF Placed
    <2>10. Begun(c2, sect[i2], desc[i2].size, view[p][i2])
      BY <2>2, <2>8 DEF Begun, Early
    <2>11. Taking(c2, sect[i2], view[p][i2])
      BY <2>8 DEF Taking
    <2>12. c2.at \in {"map", "read"}
      BY <2>8
    <2> QED BY <1>1, <1>6, <2>2, <2>8, <2>9, <2>10, <2>11, <2>12, StartKeepsShared
  <1>7. CASE UNCHANGED <<mutex, call>>
    <2>1. Chain' = Chain /\ OnList' = OnList
      BY <1>1, SameChain
    <2>2. SharedType' /\ ChainApart' /\ ListSized' /\ SectionSound'
      BY <1>1, <1>2, <1>7, <2>1, SectionFrame DEF SharedType, SharedInv, ChainApart, ListSized
    <2>3. GivenSound' /\ PtrsSound' /\ DeadSound'
      BY <1>1, <2>1, GivenFrame
    <2>4. ViewSound' /\ BusySound'
      BY <1>1, <1>4, <1>7 DEF SharedInv, ViewSound, BusySound
    <2> QED BY <2>2, <2>3, <2>4 DEF SharedInv
  <1> QED BY <1>1, <1>5, <1>6, <1>7

(* A process starts as the child of one that holds its views.              *)
LEMMA SharedForkKeeps ==
  ASSUME SharedInv, NEW p \in SProc, NEW child \in SProc, shared_fork(p, child)
  PROVE  SharedInv'
  <1> DEFINE v == [i \in Pool |-> IF i \in OnList THEN view[p][i] ELSE 0]
  <1>1. /\ p \in alive /\ call[p].at = "idle" /\ child \notin alive
        /\ view' = [view EXCEPT ![child] = v] /\ ptrs' = [ptrs EXCEPT ![child] = ptrs[p]]
        /\ alive' = alive \cup {child} /\ UNCHANGED <<desc, sect, mutex, call, given>>
    BY DEF shared_fork
  <1>2. SharedType
    BY DEF SharedInv
  <1>3. v \in [Pool -> Nat]
    BY <1>2 DEF SharedType
  <1>4. /\ view' \in [SProc -> [Pool -> Nat]] /\ view'[child] = v
        /\ \A q \in SProc : q # child => view'[q] = view[q]
    <2>1. view \in [SProc -> [Pool -> Nat]]
      BY <1>2 DEF SharedType
    <2> HIDE DEF v
    <2> QED BY <2>1, <1>1, <1>3
  <1>5. /\ ptrs' \in [SProc -> SUBSET (Pool \X SPointer)] /\ ptrs'[child] = ptrs[p]
        /\ \A q \in SProc : q # child => ptrs'[q] = ptrs[q]
    <2>1. ptrs \in [SProc -> SUBSET (Pool \X SPointer)]
      BY <1>2 DEF SharedType
    <2> QED BY <2>1, <1>1
  <1>6. Chain' = Chain /\ OnList' = OnList /\ OnList \subseteq Pool
    BY <1>1, <1>2, SameChain, OnListIs DEF SharedType
  <1>7. SharedType' /\ ChainApart' /\ ListSized'
    BY <1>1, <1>2, <1>4, <1>5, <1>6 DEF SharedType, SharedInv, ChainApart, ListSized
  <1>8. view[child] = [i \in Pool |-> 0] /\ call[child].at = "idle" /\ p # child
    BY <1>1 DEF SharedInv, DeadSound, BusySound, Busy
  <1>9. SectionSound'
    <2> SUFFICES ASSUME NEW j \in Pool, sect[j].initialized
                 PROVE  desc[j].size # 0 /\ Linked(sect[j]) /\ \E q \in SProc : view'[q][j] # 0
      BY <1>1 DEF SectionSound, Linked, LinkedBy
    <2>1. desc[j].size # 0 /\ Linked(sect[j]) /\ \E q \in SProc : view[q][j] # 0
      BY DEF SharedInv, SectionSound
    <2>2. PICK q \in SProc : view[q][j] # 0
      BY <2>1
    <2>3. q # child
      BY <1>8, <2>2
    <2> QED BY <1>4, <2>1, <2>2, <2>3
  <1>10. GivenSound'
    BY <1>1 DEF SharedInv, GivenSound, Below
  <1>11. PtrsSound'
    <2> SUFFICES ASSUME NEW q \in SProc, NEW r \in ptrs'[q]
                 PROVE  sect[r[1]].initialized /\ r[1] \in OnList /\ view'[q][r[1]] = r[2][1] /\ r[2] # NoPtr
      BY <1>1, <1>6 DEF PtrsSound
    <2>1. CASE q = child
      <3>1. sect[r[1]].initialized /\ r[1] \in OnList /\ view[p][r[1]] = r[2][1] /\ r[2] # NoPtr
        BY <1>5, <2>1 DEF SharedInv, PtrsSound
      <3>2. view'[q][r[1]] = view[p][r[1]]
        BY <1>4, <1>6, <2>1, <3>1
      <3> QED BY <3>1, <3>2
    <2>2. CASE q # child
      BY <1>4, <1>5, <2>2 DEF SharedInv, PtrsSound
    <2> QED BY <2>1, <2>2
  <1>12. DeadSound'
    BY <1>1, <1>4, <1>5 DEF SharedInv, DeadSound
  <1>13. ViewSound'
    <2> SUFFICES ASSUME NEW q \in SProc, NEW j \in Pool, view'[q][j] # 0
                 PROVE  sect[j].initialized \/ (call[q].at \in Early /\ call[q].pool = j)
      BY <1>1 DEF ViewSound
    <2>1. CASE q = child
      <3>1. view[p][j] # 0
        BY <1>4, <2>1
      <3> QED BY <1>1, <3>1 DEF SharedInv, ViewSound, Early
    <2>2. CASE q # child
      BY <1>4, <2>2 DEF SharedInv, ViewSound
    <2> QED BY <2>1, <2>2
  <1>14. BusySound'
    <2> SUFFICES ASSUME NEW q \in SProc, call[q].at # "idle" PROVE Busy(q)'
      BY <1>1 DEF BusySound
    <2>1. Busy(q) /\ q # child
      BY <1>8 DEF SharedInv, BusySound
    <2>2. Placed(call[q])'
      BY <1>1, <1>6, <2>1 DEF Busy, Placed, AtTail
    <2>3. Begun(call[q], sect[call[q].pool], desc[call[q].pool].size, view[q][call[q].pool])'
      BY <1>1, <1>4, <2>1 DEF Busy, Begun, Linked, LinkedBy
    <2>4. Taking(call[q], sect[call[q].pool], view[q][call[q].pool])'
      BY <1>1, <1>4, <2>1 DEF Busy, Taking, Below
    <2> QED BY <1>1, <2>1, <2>2, <2>3, <2>4 DEF Busy
  <1> QED BY <1>7, <1>9, <1>10, <1>11, <1>12, <1>13, <1>14 DEF SharedInv

(* A process is no more, and what only it had mapped goes with it.         *)
LEMMA KillSharedKeeps ==
  ASSUME SharedInv, NEW p \in SProc, Kill(p)
  PROVE  SharedInv'
  <1> DEFINE last(i) == view[p][i] # 0 /\ \A q \in SProc \ {p} : view[q][i] = 0
             v == [i \in Pool |-> 0]
  <1>1. /\ p \in alive /\ alive' = alive \ {p} /\ view' = [view EXCEPT ![p] = v]
        /\ sect' = [i \in Pool |-> IF last(i) THEN Gone ELSE sect[i]]
        /\ given' = {g \in given : ~last(g[1])} /\ ptrs' = [ptrs EXCEPT ![p] = {}]
        /\ mutex' = IF mutex = p THEN "none" ELSE mutex
        /\ call' = [call EXCEPT ![p] = Idle] /\ UNCHANGED desc
    BY DEF Kill
  <1>2. SharedType
    BY DEF SharedInv
  <1>3. Gone \in SectType /\ ~Gone.initialized
    <2>1. NoPtr \in SPointer
      BY DEF SPointer
    <2> QED BY <2>1 DEF Gone, SectType
  <1>4. /\ sect' \in [Pool -> SectType]
        /\ \A j \in Pool : sect'[j] = IF last(j) THEN Gone ELSE sect[j]
    BY <1>1, <1>2, <1>3 DEF SharedType
  <1>5. /\ view' \in [SProc -> [Pool -> Nat]] /\ view'[p] = v
        /\ \A q \in SProc : q # p => view'[q] = view[q]
    <2>1. view \in [SProc -> [Pool -> Nat]] /\ v \in [Pool -> Nat]
      BY <1>2 DEF SharedType
    <2> HIDE DEF v
    <2> QED BY <2>1, <1>1
  <1>6. /\ ptrs' \in [SProc -> SUBSET (Pool \X SPointer)] /\ ptrs'[p] = {}
        /\ \A q \in SProc : q # p => ptrs'[q] = ptrs[q]
    <2>1. ptrs \in [SProc -> SUBSET (Pool \X SPointer)]
      BY <1>2 DEF SharedType
    <2> QED BY <2>1, <1>1
  <1>7. call' \in [SProc -> SCallType] /\ call'[p] = Idle /\ \A q \in SProc : q # p => call'[q] = call[q]
    BY <1>1, <1>2, IdleIs DEF SharedType
  <1>8. Chain' = Chain /\ OnList' = OnList /\ OnList \subseteq Pool
    BY <1>1, <1>2, SameChain, OnListIs DEF SharedType
  <1>9. SharedType'
    <2>1. given' \subseteq Pool \X SharedSlot /\ alive' \subseteq SProc
      BY <1>1, <1>2 DEF SharedType
    <2>2. mutex' \in SProc \cup {"none"}
      BY <1>1, <1>2 DEF SharedType
    <2> QED BY <2>1, <2>2, <1>1, <1>2, <1>4, <1>5, <1>6, <1>7 DEF SharedType
  <1>10. ChainApart' /\ ListSized'
    BY <1>1, <1>8 DEF SharedInv, ChainApart, ListSized
  <1>11. \A j \in Pool : \A q \in SProc : q # p /\ view[q][j] # 0 => ~last(j)
    OBVIOUS
  <1> HIDE DEF last
  <1>12. SectionSound'
    <2> SUFFICES ASSUME NEW j \in Pool, sect'[j].initialized
                 PROVE  desc[j].size # 0 /\ Linked(sect'[j]) /\ \E q \in SProc : view'[q][j] # 0
      BY <1>1 DEF SectionSound, Linked, LinkedBy
    <2>1. ~last(j) /\ sect'[j] = sect[j]
      BY <1>3, <1>4
    <2>2. desc[j].size # 0 /\ Linked(sect[j]) /\ \E q \in SProc : view[q][j] # 0
      BY <2>1 DEF SharedInv, SectionSound
    <2>3. PICK q \in SProc : q # p /\ view[q][j] # 0
      BY <2>1, <2>2 DEF last
    <2> QED BY <1>5, <2>1, <2>2, <2>3
  <1>13. GivenSound'
    <2> SUFFICES ASSUME NEW g \in given' PROVE sect'[g[1]].initialized /\ Below(sect'[g[1]], g[2])
      BY DEF GivenSound, Below
    <2>1. g \in given /\ ~last(g[1]) /\ g[1] \in Pool
      BY <1>1, <1>2 DEF SharedType
    <2>2. sect'[g[1]] = sect[g[1]]
      BY <1>4, <2>1
    <2> QED BY <2>1, <2>2 DEF SharedInv, GivenSound
  <1>14. PtrsSound'
    <2> SUFFICES ASSUME NEW q \in SProc, NEW r \in ptrs'[q]
                 PROVE  sect'[r[1]].initialized /\ r[1] \in OnList /\ view'[q][r[1]] = r[2][1] /\ r[2] # NoPtr
      BY <1>8 DEF PtrsSound
    <2>1. q # p /\ r \in ptrs[q]
      BY <1>6
    <2>2. sect[r[1]].initialized /\ r[1] \in OnList /\ view[q][r[1]] = r[2][1] /\ r[2] # NoPtr
      BY <2>1 DEF SharedInv, PtrsSound
    <2>3. r[1] \in Pool /\ r[2] \in SPointer
      BY <1>2, <2>1 DEF SharedType
    <2>4. r[2][1] # 0
      BY <2>2, <2>3 DEF SPointer
    <2>5. ~last(r[1])
      BY <1>11, <2>1, <2>2, <2>3, <2>4
    <2> QED BY <1>4, <1>5, <2>1, <2>2, <2>3, <2>5
  <1>15. DeadSound'
    BY <1>1, <1>5, <1>6 DEF SharedInv, DeadSound
  <1>16. ViewSound'
    <2> SUFFICES ASSUME NEW q \in SProc, NEW j \in Pool, view'[q][j] # 0
                 PROVE  sect'[j].initialized \/ (call'[q].at \in Early /\ call'[q].pool = j)
      BY DEF ViewSound
    <2>1. q # p /\ view[q][j] # 0
      BY <1>5
    <2>2. sect[j].initialized \/ (call[q].at \in Early /\ call[q].pool = j)
      BY <2>1 DEF SharedInv, ViewSound
    <2>3. sect'[j] = sect[j]
      BY <1>4, <1>11, <2>1
    <2> QED BY <1>7, <2>1, <2>2, <2>3
  <1>17. BusySound'
    <2> SUFFICES ASSUME NEW q \in SProc, call'[q].at # "idle" PROVE Busy(q)'
      BY DEF BusySound
    <2> DEFINE c == call[q]
               i == c.pool
    <2>1. q # p /\ call'[q] = c /\ c.at # "idle"
      BY <1>7, IdleIs
    <2>2. Busy(q) /\ i \in Pool /\ mutex = q /\ q \in alive
      BY <2>1 DEF SharedInv, BusySound, Busy
    <2>3. c.at # "map" => view[q][i] # 0
      BY <2>2 DEF Busy, Begun
    <2>4. c.at # "map" => sect'[i] = sect[i]
      BY <1>4, <1>11, <2>1, <2>2, <2>3
    <2>5. Placed(call[q])'
      BY <1>8, <2>1, <2>2 DEF Busy, Placed, AtTail
    <2>6. Begun(call[q], sect[i], desc[i].size, view[q][i])'
      <3>1. Begun(c, sect[i], desc[i].size, view[q][i])
        BY <2>2 DEF Busy
      <3>2. view'[q] = view[q] /\ desc' = desc
        BY <1>1, <1>5, <2>1
      <3>3. CASE c.at = "map"
        BY <2>1, <3>1, <3>2, <3>3 DEF Begun, Early
      <3>4. CASE c.at # "map"
        <4>1. sect'[i] = sect[i]
          BY <2>4, <3>4
        <4> QED BY <2>1, <3>1, <3>2, <4>1 DEF Begun, Linked, LinkedBy
      <3> QED BY <3>3, <3>4
    <2>7. Taking(call[q], sect[i], view[q][i])'
      BY <1>1, <1>5, <2>1, <2>2, <2>4 DEF Busy, Taking, Below
    <2>8. c.size \in SSize /\ (c.at = "publish" => desc[i].next = 0)
      BY <2>2 DEF Busy
    <2> QED BY <1>1, <2>1, <2>2, <2>5, <2>6, <2>7, <2>8 DEF Busy
  <1> QED BY <1>9, <1>10, <1>12, <1>13, <1>14, <1>15, <1>16, <1>17 DEF SharedInv

(* A new session.                                                          *)
LEMMA SharedStartKeeps ==
  ASSUME SharedInv, NEW p \in SProc, shared_init(p)
  PROVE  SharedInv'
  <1>1. /\ alive = {} /\ alive' = {p} /\ UNCHANGED <<sect, view, mutex, call, given, ptrs>>
        /\ desc' = [i \in 0 .. PoolCount |-> [size |-> 0, ref |-> 0, next |-> 0]]
    BY DEF shared_init
  <1>2. SharedType /\ PoolCount \in Nat /\ 0 \in 0 .. PoolCount
    BY BasesAssumption DEF SharedInv
  <1>3. \A q \in SProc : view[q] = [i \in Pool |-> 0] /\ ptrs[q] = {} /\ call[q].at = "idle"
    BY <1>1 DEF SharedInv, DeadSound, BusySound, Busy
  <1>4. \A i \in Pool : ~sect[i].initialized
    BY <1>3 DEF SharedInv, SectionSound
  <1>5. given = {}
    <2> SUFFICES ASSUME NEW g \in given PROVE FALSE
      OBVIOUS
    <2>1. g[1] \in Pool
      BY <1>2 DEF SharedType
    <2> QED BY <2>1, <1>4 DEF SharedInv, GivenSound
  <1>6. desc' \in DescType /\ \A x \in 0 .. PoolCount : desc'[x].next = 0
    BY <1>1, <1>2 DEF DescType
  <1>7. ASSUME NEW k \in 1 .. PoolCount + 1 PROVE Chain'[k] = 0
    <2>1. k - 1 \in 0 .. PoolCount + 1
      BY <1>2
    <2>2. Chain'[k - 1] \in 0 .. PoolCount
      BY <1>6, <2>1, NextChainIs
    <2> QED BY <1>6, <2>2, NextChainIs
  <1>8. OnList' = {}
    <2>1. \A k \in 1 .. PoolCount : k \in 1 .. PoolCount + 1
      BY <1>2
    <2> QED BY <1>7, <2>1 DEF OnList
  <1>9. SharedType' /\ ChainApart' /\ ListSized'
    BY <1>1, <1>2, <1>6, <1>7, <1>8 DEF SharedType, ChainApart, ListSized
  <1>10. SectionSound' /\ GivenSound' /\ PtrsSound' /\ DeadSound' /\ ViewSound' /\ BusySound'
    BY <1>1, <1>3, <1>4, <1>5 DEF SectionSound, GivenSound, PtrsSound, DeadSound, ViewSound, BusySound
  <1> QED BY <1>9, <1>10 DEF SharedInv

LEMMA SharedStutters == SharedInv /\ UNCHANGED sharedVars => SharedInv'
  <1> SUFFICES ASSUME SharedInv, UNCHANGED sharedVars PROVE SharedInv'
    OBVIOUS
  <1>1. UNCHANGED <<desc, sect, view, mutex, call, given, ptrs, alive>>
    BY DEF sharedVars
  <1>2. Chain' = Chain /\ OnList' = OnList
    BY <1>1, SameChain
  <1>3. SharedType' /\ ChainApart' /\ ListSized' /\ SectionSound' /\ ViewSound'
    BY <1>1, <1>2, SectionFrame DEF SharedType, SharedInv, ChainApart, ListSized, ViewSound
  <1>4. GivenSound' /\ PtrsSound' /\ DeadSound'
    BY <1>1, <1>2, GivenFrame
  <1>5. BusySound'
    <2> SUFFICES ASSUME NEW q \in SProc, call[q].at # "idle" PROVE Busy(q)'
      BY <1>1 DEF BusySound
    <2>1. Busy(q)
      BY DEF SharedInv, BusySound
    <2>2. Placed(call[q])'
      BY <1>1, <1>2, <2>1 DEF Busy, Placed, AtTail
    <2>3. Begun(call[q], sect[call[q].pool], desc[call[q].pool].size, view[q][call[q].pool])'
      BY <1>1, <2>1 DEF Busy, Begun, Linked, LinkedBy
    <2>4. Taking(call[q], sect[call[q].pool], view[q][call[q].pool])'
      BY <1>1, <2>1 DEF Busy, Taking, Below
    <2> QED BY <1>1, <2>1, <2>2, <2>3, <2>4 DEF Busy
  <1> QED BY <1>3, <1>4, <1>5 DEF SharedInv

LEMMA SharedStep == SharedInv /\ [SharedNext]_sharedVars => SharedInv'
  <1> SUFFICES ASSUME SharedInv, [SharedNext]_sharedVars PROVE SharedInv'
    OBVIOUS
  <1>1. ASSUME NEW p \in SProc, NEW size \in SSize, kmalloc_shared(p, size) PROVE SharedInv'
    BY <1>1, KmallocSharedKeeps
  <1>2. ASSUME NEW p \in SProc, NEW child \in SProc, shared_fork(p, child) PROVE SharedInv'
    BY <1>2, SharedForkKeeps
  <1>3. ASSUME NEW p \in SProc,
               \/ map_shared_heap_pool(p) \/ InitChain(p) \/ InitSize(p) \/ InitRef(p) \/ InitFlag(p)
               \/ LinkLast(p) \/ Publish(p) \/ ReadFirst(p) \/ PopFirst(p) \/ Return(p)
        PROVE  SharedInv'
    BY <1>3, MapKeeps, InitChainKeeps, InitSizeKeeps, InitRefKeeps, InitFlagKeeps,
       LinkLastKeeps, PublishKeeps, ReadFirstKeeps, PopFirstKeeps, ReturnKeeps
  <1>4. ASSUME NEW p \in SProc, Kill(p) \/ shared_init(p) PROVE SharedInv'
    BY <1>4, KillSharedKeeps, SharedStartKeeps
  <1>5. CASE UNCHANGED sharedVars
    BY <1>5, SharedStutters
  <1> QED BY <1>1, <1>2, <1>3, <1>4, <1>5 DEF SharedNext

(***************************************************************************)
(* An object of the shared heap (shared.c) is handed out once for as long  *)
(* as its section exists, and a pointer to one lies in the view of every   *)
(* process that has it, for any number of processes, pools and objects,    *)
(* although processes die between any two stores.                          *)
(***************************************************************************)
THEOREM SharedIsExact == SharedInit /\ [][SharedNext]_sharedVars => []SharedExact
  <1>1. SharedInit => SharedInv
    BY SharedInvInit
  <1>2. SharedInv /\ [SharedNext]_sharedVars => SharedInv'
    BY SharedStep
  <1>3. SharedInv => SharedExact
    BY SharedInvExact
  <1> QED BY <1>1, <1>2, <1>3, PTL

(***************************************************************************)
(* Both heaps, whatever the one does between two steps of the other.       *)
(***************************************************************************)
THEOREM HeapsAreExact ==
  HeapInit /\ SharedInit /\ [][HeapNext]_heapVars /\ [][SharedNext]_sharedVars => []HeapsExact
  <1>1. PoolsExact /\ SharedExact => HeapsExact
    BY DEF HeapsExact
  <1> QED BY <1>1, HeapIsExact, SharedIsExact, PTL
=============================================================================
