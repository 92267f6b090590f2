-------------------------------- MODULE Heap --------------------------------
(***************************************************************************)
(* heap.c: kmalloc and kfree.  Each size class has a chain of buckets; a   *)
(* bucket is one block of BlockSize bytes whose header counts the objects  *)
(* in use and heads the list of the free ones.  Both calls hold the heap   *)
(* lock from the first to the last line, so each is one step.              *)
(*                                                                         *)
(* Block b covers the addresses b * BlockSize .. (b + 1) * BlockSize - 1.  *)
(* A chain (first, next_bucket) and a free list (first_free and the links  *)
(* kept in the free objects) are sequences.                                *)
(***************************************************************************)
EXTENDS Integers, Sequences, FiniteSets, Collections

CONSTANTS Block,       \* blocks the memory manager can map for the heap
          BlockSize, HeaderSize,
          ObjSize,     \* the object size of each pool, increasing
          Request      \* sizes that are asked for

ASSUME HeapAssumption ==
  /\ Block \subseteq Nat /\ BlockSize \in Nat /\ HeaderSize \in 0 .. BlockSize - 1
  /\ ObjSize \in Seq(Nat \ {0})

VARIABLES pools,       \* [1..POOL_COUNT -> chain of buckets]
          live         \* objects in the hands of callers: [at, size]

heapVars == <<pools, live>>

POOL_COUNT == Len(ObjSize)

\* The free objects of a fresh bucket: the last is the first one that does not
\* end before the block does.
Slots(b, objsize) ==
  LET start == b * BlockSize + HeaderSize
      count == FX!Min({k \in 1 .. BlockSize :
                         HeaderSize + k * objsize >= BlockSize})
  IN  [i \in 1 .. count |-> start + (i - 1) * objsize]

alloc_bucket(b, objsize) == [at |-> b, ref_cnt |-> 0, first_free |-> Slots(b, objsize)]

PoolOf(size) ==
  LET fit == {i \in 1 .. POOL_COUNT : size <= ObjSize[i]}
  IN  IF fit = {} THEN -1 ELSE FX!Min(fit)

Mapped == UNION {{pools[p][i].at : i \in DOMAIN pools[p]} : p \in 1 .. POOL_COUNT}

\* The first object of bucket i leaves its free list
Take(chain, i, size) ==
  /\ live' = live \cup {[at |-> Head(chain[i].first_free), size |-> size]}
  /\ pools' = [pools EXCEPT ![PoolOf(size)] =
                 [chain EXCEPT ![i].first_free = Tail(@), ![i].ref_cnt = @ + 1]]

kmalloc(size) ==
  LET p == PoolOf(size)
      usable == {i \in DOMAIN pools[p] : pools[p][i].first_free # << >>}
  IN  /\ p # -1
      /\ \/ /\ usable # {}
            /\ Take(pools[p], FX!Min(usable), size)
         \/ /\ usable = {}
            /\ \E b \in Block \ Mapped :
                 Take(Append(pools[p], alloc_bucket(b, ObjSize[p])), Len(pools[p]) + 1, size)

\* A size above the largest pool returns NULL and changes nothing
kmalloc_TooLarge(size) == PoolOf(size) = -1 /\ UNCHANGED heapVars

\* kfree that unmaps a bucket while one object of it is still in use
kfree_Early(o, size) ==
  LET p == PoolOf(size)
      here == {i \in DOMAIN pools[p] : pools[p][i].at = o.at \div BlockSize}
  IN  /\ p # -1 /\ here # {}
      /\ LET i == FX!Min(here)
             b == [pools[p][i] EXCEPT !.first_free = <<o.at>> \o @, !.ref_cnt = @ - 1]
         IN  pools' = [pools EXCEPT ![p] = IF b.ref_cnt <= 1 THEN SX!RemoveAt(@, i)
                                           ELSE [@ EXCEPT ![i] = b]]
      /\ live' = live \ {o}

\* The bucket is sought in the pool of the size the caller passes; a bucket
\* without objects in use leaves the chain and is unmapped
kfree(o, size) ==
  LET p == PoolOf(size)
      here == {i \in DOMAIN pools[p] : pools[p][i].at = o.at \div BlockSize}
  IN  /\ p # -1 /\ here # {}
      /\ LET i == FX!Min(here)
             b == [pools[p][i] EXCEPT !.first_free = <<o.at>> \o @, !.ref_cnt = @ - 1]
         IN  pools' = [pools EXCEPT ![p] = IF b.ref_cnt = 0 THEN SX!RemoveAt(@, i)
                                           ELSE [@ EXCEPT ![i] = b]]
      /\ live' = live \ {o}

HeapInit == pools = [i \in 1 .. POOL_COUNT |-> << >>] /\ live = {}

HeapNext ==
  \/ \E size \in Request : kmalloc(size) \/ kmalloc_TooLarge(size)
  \/ \E o \in live : kfree(o, o.size)

-----------------------------------------------------------------------------
(***************************************************************************)
(* Whatever the order of allocations and frees, the objects of a mapped    *)
(* bucket are split exactly between its free list and the callers, its     *)
(* count is the number of objects in use and is never 0, no block serves   *)
(* two buckets, and every object a caller holds is of its size class: no   *)
(* object is handed out twice and none is in a block given back.           *)
(***************************************************************************)
PoolsExact ==
  /\ \A p \in 1 .. POOL_COUNT : \A i \in DOMAIN pools[p] :
       LET b == pools[p][i]
           used == {o \in live : o.at \div BlockSize = b.at}
       IN  /\ b.ref_cnt = Cardinality(used) /\ b.ref_cnt > 0
           /\ SX!IsInjective(b.first_free)
           /\ SX!ToSet(b.first_free) \cup {o.at : o \in used} = SX!ToSet(Slots(b.at, ObjSize[p]))
           /\ SX!ToSet(b.first_free) \cap {o.at : o \in used} = {}
           /\ \A o \in used : PoolOf(o.size) = p
  /\ \A o \in live : o.at \div BlockSize \in Mapped
  /\ \A p, q \in 1 .. POOL_COUNT : \A i \in DOMAIN pools[p], j \in DOMAIN pools[q] :
       pools[p][i].at = pools[q][j].at => p = q /\ i = j
=============================================================================
