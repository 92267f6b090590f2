------------------------------- MODULE Shared -------------------------------
(***************************************************************************)
(* shared.c: kmalloc_shared, which carves objects out of pools that live   *)
(* in named sections, mapped by the processes of a session one by one.     *)
(* The descriptors of the pools are in memory all processes see; the mutex *)
(* is abandoned, and so released, when its owner dies.  "Carefully written *)
(* procedures to avoid races even in the tricky case where one process     *)
(* died when altering the shared pool" (shared.h): every store is a step,  *)
(* and a process may be killed between any two.                            *)
(*                                                                         *)
(* A pointer is a pair of a base address and a slot.  A section lives as   *)
(* long as some process maps it.  kfree_shared has no caller and is left   *)
(* out.                                                                    *)
(***************************************************************************)
EXTENDS Integers, FiniteSets, Collections

CONSTANTS SProc,         \* processes
          PoolCount,     \* SHARED_HEAP_POOL_COUNT - 1
          SharedSlot,          \* 1..n, the objects of a pool: n is pool_ref_count
          Bases,         \* [1..PoolCount -> addresses Windows may choose for a view]
          SSize          \* object sizes asked for

ASSUME BasesAssumption ==
  /\ PoolCount \in Nat /\ \A i \in 1 .. PoolCount : Bases[i] \subseteq Nat \ {0}
  /\ \A i, j \in 1 .. PoolCount : i # j => Bases[i] \cap Bases[j] = {}
ASSUME SharedAssumption ==
  /\ Cardinality(SharedSlot) \in Nat \ {0} /\ SharedSlot = 1 .. Cardinality(SharedSlot)
  /\ SSize \subseteq Nat \ {0} /\ "none" \notin SProc

Pool == 1 .. PoolCount
MaxRef == Cardinality(SharedSlot)
NoPtr == <<0, 0>>

VARIABLES desc,      \* shared_heap->pools; desc[0] heads the list
          sect,      \* [Pool -> contents of the section]; alive: it exists
          view,      \* [SProc -> [Pool -> base address, 0 when not mapped]]
          mutex,     \* the process that owns shared_heap_mutex, or "none"
          call,      \* [SProc -> the call it is in]
          given,     \* slots handed out since their section was created
          ptrs,      \* [SProc -> pointers its code has, as <<pool, pointer>>]
          alive      \* running processes

sharedVars == <<desc, sect, view, mutex, call, given, ptrs, alive>>

Gone == [exists |-> FALSE, initialized |-> FALSE, first |-> NoPtr,
         link |-> [s \in SharedSlot |-> NoPtr]]
Idle == [at |-> "idle", size |-> 0, pool |-> 0, last |-> 0, fresh |-> FALSE,
         cur |-> NoPtr, next |-> NoPtr]

SharedInit ==
  /\ desc = [i \in 0 .. PoolCount |-> [size |-> 0, ref |-> 0, next |-> 0]]
  /\ sect = [i \in Pool |-> Gone]
  /\ view = [p \in SProc |-> [i \in Pool |-> 0]]
  /\ mutex = "none" /\ call = [p \in SProc |-> Idle]
  /\ given = {} /\ ptrs = [p \in SProc |-> {}]
  /\ alive = {}

\* The pools on the list, in order: Chain[k] is the k-th, 0 after the last
Chain[k \in 0 .. PoolCount + 1] == IF k = 0 THEN 0 ELSE
  IF k > 1 /\ Chain[k - 1] = 0 THEN 0 ELSE desc[Chain[k - 1]].next
OnList == {Chain[k] : k \in 1 .. PoolCount} \ {0}

SharedGo(p, at) == call' = [call EXCEPT ![p].at = at]

\* WaitForSingleObject on the mutex of the heap
LockHeap(p) == p \in alive /\ mutex = "none"

\* Lock, and look for a pool of the size with an object taken from it, else
\* for an unused id: lines 301 to 329
kmalloc_shared(p, size) ==
  LET fits == {k \in 1 .. PoolCount :
                 /\ Chain[k] # 0 /\ desc[Chain[k]].size = size
                 /\ desc[Chain[k]].ref < MaxRef}
      tail == {k \in 0 .. PoolCount : (k = 0 \/ Chain[k] # 0) /\ Chain[k + 1] = 0}
      free == {i \in Pool : desc[i].size = 0}
  IN  /\ call[p].at = "idle" /\ LockHeap(p)
      /\ \/ /\ fits # {}
            /\ LET i == Chain[FX!Min(fits)]
               IN  call' = [call EXCEPT ![p] = [Idle EXCEPT !.size = size, !.pool = i,
                              !.at = IF view[p][i] = 0 THEN "map" ELSE "read"]]
            /\ mutex' = p
         \/ /\ fits = {} /\ free # {}
            /\ call' = [call EXCEPT ![p] = [Idle EXCEPT !.size = size, !.pool = FX!Min(free),
                           !.last = Chain[FX!Min(tail)], !.fresh = TRUE, !.at = "map"]]
            /\ mutex' = p
         \/ /\ fits = {} /\ free = {}      \* goto failed: NULL
            /\ UNCHANGED <<mutex, call>>
      /\ UNCHANGED <<desc, sect, view, given, ptrs, alive>>

\* map_shared_heap_pool: the section is opened or created and mapped
map_shared_heap_pool(p) ==
  LET c == call[p]  i == c.pool IN
  /\ c.at = "map"
  /\ \E b \in Bases[i] : view' = [view EXCEPT ![p][i] = b]
  /\ sect' = [sect EXCEPT ![i].exists = TRUE]
  /\ SharedGo(p, IF ~sect[i].initialized THEN "chain" ELSE IF c.fresh THEN "link" ELSE "read")
  /\ UNCHANGED <<desc, mutex, given, ptrs, alive>>

\* The list of free objects, in pointers of the process that creates it
InitChain(p) ==
  LET i == call[p].pool  b == view[p][i] IN
  /\ call[p].at = "chain"
  /\ sect' = [sect EXCEPT ![i].first = <<b, 1>>,
                ![i].link = [s \in SharedSlot |-> IF s + 1 \in SharedSlot THEN <<b, s + 1>> ELSE NoPtr]]
  /\ SharedGo(p, "size")
  /\ UNCHANGED <<desc, view, mutex, given, ptrs, alive>>

InitSize(p) ==
  /\ call[p].at = "size" /\ SharedGo(p, "ref")
  /\ desc' = [desc EXCEPT ![call[p].pool].size = call[p].size]
  /\ UNCHANGED <<sect, view, mutex, given, ptrs, alive>>

InitRef(p) ==
  /\ call[p].at = "ref" /\ SharedGo(p, "flag")
  /\ desc' = [desc EXCEPT ![call[p].pool].ref = MaxRef]
  /\ UNCHANGED <<sect, view, mutex, given, ptrs, alive>>

InitFlag(p) ==
  /\ call[p].at = "flag" /\ SharedGo(p, IF call[p].fresh THEN "link" ELSE "read")
  /\ sect' = [sect EXCEPT ![call[p].pool].initialized = TRUE]
  /\ UNCHANGED <<desc, view, mutex, given, ptrs, alive>>

LinkLast(p) ==
  /\ call[p].at = "link" /\ SharedGo(p, "publish")
  /\ desc' = [desc EXCEPT ![call[p].pool].next = 0]
  /\ UNCHANGED <<sect, view, mutex, given, ptrs, alive>>

Publish(p) ==
  /\ call[p].at = "publish" /\ SharedGo(p, "read")
  /\ desc' = [desc EXCEPT ![call[p].last].next = call[p].pool]
  /\ UNCHANGED <<sect, view, mutex, given, ptrs, alive>>

\* cur = first_free; next = *cur.  A null cur, or one in a view this process
\* does not have, is an access violation: only Kill can follow.
ReadFirst(p) ==
  LET c == call[p]  f == sect[c.pool].first IN
  /\ c.at = "read" /\ f # NoPtr /\ f[1] = view[p][c.pool]
  /\ call' = [call EXCEPT ![p].cur = f, ![p].next = sect[c.pool].link[f[2]], ![p].at = "pop"]
  /\ UNCHANGED <<desc, sect, view, mutex, given, ptrs, alive>>

PopFirst(p) ==
  /\ call[p].at = "pop" /\ SharedGo(p, "count")
  /\ sect' = [sect EXCEPT ![call[p].pool].first = call[p].next]
  /\ UNCHANGED <<desc, view, mutex, given, ptrs, alive>>

\* ref_count is decremented, the mutex released and the object returned
Return(p) ==
  LET c == call[p] IN
  /\ c.at = "count"
  /\ desc' = [desc EXCEPT ![c.pool].ref = @ - 1]
  /\ mutex' = IF mutex = p THEN "none" ELSE mutex
  /\ given' = given \cup {<<c.pool, c.cur[2]>>}
  /\ ptrs' = [ptrs EXCEPT ![p] = @ \cup {<<c.pool, c.cur>>}]
  /\ call' = [call EXCEPT ![p] = Idle]
  /\ UNCHANGED <<sect, view, alive>>

\* shared_fork: the child maps, at the same addresses, the pools of the list
\* its parent has mapped
shared_fork(p, child) ==
  /\ p \in alive /\ call[p].at = "idle" /\ child \notin alive
  /\ view' = [view EXCEPT ![child] = [i \in Pool |-> IF i \in OnList THEN view[p][i] ELSE 0]]
  /\ ptrs' = [ptrs EXCEPT ![child] = ptrs[p]]
  /\ alive' = alive \cup {child}
  /\ UNCHANGED <<desc, sect, mutex, call, given>>

\* The process ends or is killed at any point; a section nobody else maps
\* goes with it
Kill(p) ==
  LET last(i) == view[p][i] # 0 /\ \A q \in SProc \ {p} : view[q][i] = 0 IN
  /\ p \in alive
  /\ alive' = alive \ {p}
  /\ view' = [view EXCEPT ![p] = [i \in Pool |-> 0]]
  /\ sect' = [i \in Pool |-> IF last(i) THEN Gone ELSE sect[i]]
  /\ given' = {g \in given : ~last(g[1])}
  /\ ptrs' = [ptrs EXCEPT ![p] = {}]
  /\ mutex' = IF mutex = p THEN "none" ELSE mutex
  /\ call' = [call EXCEPT ![p] = Idle]
  /\ UNCHANGED desc

\* The first process of a session finds the shared memory zeroed
shared_init(p) ==
  /\ alive = {} /\ alive' = {p}
  /\ desc' = [i \in 0 .. PoolCount |-> [size |-> 0, ref |-> 0, next |-> 0]]
  /\ UNCHANGED <<sect, view, mutex, call, given, ptrs>>

SharedNext ==
  \E p \in SProc :
    \/ \E size \in SSize : kmalloc_shared(p, size)
    \/ map_shared_heap_pool(p) \/ InitChain(p) \/ InitSize(p) \/ InitRef(p) \/ InitFlag(p)
    \/ LinkLast(p) \/ Publish(p) \/ ReadFirst(p) \/ PopFirst(p) \/ Return(p)
    \/ \E child \in SProc : shared_fork(p, child)
    \/ Kill(p) \/ shared_init(p)

-----------------------------------------------------------------------------
\* The slots on the free list of pool i
FreeList(i) ==
  LET walk[k \in SharedSlot] ==
        IF k = 1 THEN sect[i].first
        ELSE IF walk[k - 1] = NoPtr THEN NoPtr ELSE sect[i].link[walk[k - 1][2]]
  IN  {walk[k][2] : k \in SharedSlot} \ {0}

(***************************************************************************)
(* Although processes die between any two stores, an object handed out is  *)
(* never handed out again while its section exists: it is not on the free  *)
(* list, nor the object a call under way is about to return.  A pool       *)
(* whose section exists and is initialised keeps its size class.           *)
(***************************************************************************)
ObjectsExclusive ==
  \A g \in given : /\ sect[g[1]].initialized
                   /\ g[2] \notin FreeList(g[1])
                   /\ \A p \in SProc : call[p].at \in {"pop", "count"} /\ call[p].pool = g[1]
                                         => call[p].cur[2] # g[2]

(***************************************************************************)
(* "All shared pointers will stay the same in the child" (shared.h): every *)
(* pointer a process holds, its own or one of its parent's, lies in its    *)
(* view of the pool it came from.                                          *)
(***************************************************************************)
PointersValid ==
  \A p \in SProc : \A r \in ptrs[p] : view[p][r[1]] = r[2][1]
(***************************************************************************)
(* The shared heap (shared.c) hands no object out twice and gives pointers *)
(* a child can use, whoever dies on the way.                               *)
(***************************************************************************)
SharedExact == ObjectsExclusive /\ PointersValid
=============================================================================
