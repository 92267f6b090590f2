---------------------------- MODULE FutexProofs -----------------------------
(***************************************************************************)
(* Theorems about Futex for every set of threads, words and calls: its     *)
(* type correctness; that buckets are locked exclusively as long as no     *)
(* FUTEX_CMP_REQUEUE stays within one bucket; and, as long as also no      *)
(* requeue takes a wait with a timeout to another bucket, that the lists,  *)
(* the events and the blocks of the waiters are what they should be.       *)
(*                                                                         *)
(* The second part proves that, under the same conditions, the futex code  *)
(* implements the word queues of FutexQueue.  What a walk finds waiting on *)
(* a word is the one sequence of its waiters in the order of the bucket's  *)
(* list, so each step is compared with the queue's by what it does to the  *)
(* waiters and to their order.                                             *)
(***************************************************************************)
EXTENDS Futex, FiniteSetTheorems, WellFoundedInduction, TLAPS

(* list_add leaves a well-typed heap of lists.                             *)
LEMMA ListAddType ==
  ASSUME NEW Lists, NEW Nodes, NEW L \in HeapType(Lists, Nodes),
         NEW l \in Lists, NEW n \in Nodes
  PROVE  ListAdd(L, l, n) \in HeapType(Lists, Nodes)
  BY DEF ListAdd, HeapType

(* list_remove leaves a well-typed heap of lists, whichever list the node  *)
(* is removed from.                                                        *)
LEMMA ListRemoveType ==
  ASSUME NEW Lists, NEW Nodes, NEW L \in HeapType(Lists, Nodes),
         NEW l \in Lists, NEW n \in Nodes
  PROVE  ListRemove(L, l, n) \in HeapType(Lists, Nodes)
  BY DEF ListRemove, HeapType

(* The placeholder for no call: its word is one, its operation is none.    *)
LEMMA AnyCallFacts == AnyCall.op = "none" /\ AnyCall.addr \in Addr
  BY FutexAssumption DEF AnyCall

(* A call a program makes is a call.                                       *)
LEMMA CallsAreCalls ==
  ASSUME NEW t \in Thread, NEW c \in Calls[t]
  PROVE  c \in Call
  BY FutexAssumption

(* The arguments futex_wait and futex_wake_requeue find in a call have the *)
(* types of their parameters.                                              *)
LEMMA CallFields ==
  ASSUME NEW c \in Call
  PROVE  /\ c.op \in {"wait", "wake", "exit", "requeue"}
         /\ c.addr \in Addr
         /\ c.op = "wait" => c.val \in Val /\ c.abortable \in BOOLEAN
         /\ c.op # "wait" => c.count \in Nat
         /\ c.op = "requeue" => c.addr2 \in Addr /\ c.cmp \in Val \cup {NoVal}
  BY DEF Call

(* Where a thread is tells which kind of call it is in.                    *)
CallOK ==
  \A t \in Thread :
    /\ pc[t] \in WaitPC => call[t] \in Calls[t] /\ call[t].op = "wait"
    /\ pc[t] \in WakePC => call[t] \in Calls[t] /\ call[t].op # "wait"
    /\ pc[t] \in {"wake_lock2", "wake_unlock2"} => TwoBuckets(t)
    /\ pc[t] \in {"wake_compare", "eagain1", "eagain2"} =>
         Requeues(t) /\ call[t].cmp # NoVal
    /\ pc[t] = "notify" <=> cur[t] # Null

TypeInv == TypeOK /\ CallOK

(* Free buckets and threads in user code satisfy the type invariant.       *)
LEMMA InitType == Init => TypeInv
  <1> SUFFICES ASSUME Init PROVE TypeInv
    OBVIOUS
  <1> USE FutexAssumption
  <1>1. TypeOK
    BY AnyCallFacts DEF Init, TypeOK, EmptyHeap, HeapType, ThreadPC, Bucket
  <1>2. CallOK
    BY DEF Init, CallOK, WaitPC, WakePC
  <1>3. QED
    BY <1>1, <1>2 DEF TypeInv

(* The buckets and fields a call in progress refers to exist.              *)
LEMMA CallInProgress ==
  ASSUME TypeInv, NEW t \in Thread
  PROVE  /\ pc[t] \in WaitPC => /\ call[t] \in Call /\ call[t].op = "wait"
                                /\ call[t].addr \in Addr /\ Bucket1(t) \in Bucket
         /\ pc[t] \in WakePC => /\ call[t] \in Call /\ call[t].op # "wait"
                                /\ call[t].addr \in Addr /\ Bucket1(t) \in Bucket
                                /\ FirstBucket(t) \in Bucket /\ call[t].count \in Nat
                                /\ Requeues(t) => /\ call[t].addr2 \in Addr
                                                  /\ Bucket2(t) \in Bucket
                                                  /\ SecondBucket(t) \in Bucket
  BY FutexAssumption, CallFields, CallsAreCalls
  DEF TypeInv, CallOK, Bucket1, Bucket2, FirstBucket, SecondBucket, Requeues, TwoBuckets

(* Every step of futex_wait keeps the types.                               *)
LEMMA WaitType ==
  ASSUME TypeInv, NEW t \in Thread, Wait(t) \/ WaitAborted(t)
  PROVE  TypeInv'
  <1> USE DEF TypeInv, WaitPC, WakePC, ThreadPC, Goto, Lock, Unlock, Return
  <1>a. Null \notin Thread
    BY FutexAssumption
  <1>b. pc[t] \in WaitPC
    BY DEF Wait, WaitLock, WaitCompare, WaitChanged, WaitUnlock, WaitAdd, WaitWoken, WaitAborted, AbortLock, AbortRecheck, AbortRemove, AbortUnlock
  <1>c. call[t] \in Call /\ call[t].op = "wait" /\ call[t].addr \in Addr /\ Bucket1(t) \in Bucket
    BY <1>b, CallInProgress
  <1>1. CASE WaitLock(t)
    <2>1. TypeOK'
      BY <1>1, <1>b, <1>c DEF WaitLock, TypeOK
    <2>2. CallOK'
      BY <1>1, <1>a, <1>b, <1>c DEF WaitLock, TypeOK, CallOK, TwoBuckets, Requeues, Bucket1, Bucket2
    <2>3. QED
      BY <2>1, <2>2
  <1>2. CASE WaitCompare(t)
    <2>1. TypeOK'
      BY <1>2, <1>b, <1>c DEF WaitCompare, TypeOK
    <2>2. CallOK'
      BY <1>2, <1>a, <1>b, <1>c DEF WaitCompare, TypeOK, CallOK, TwoBuckets, Requeues, Bucket1, Bucket2
    <2>3. QED
      BY <2>1, <2>2
  <1>3. CASE WaitChanged(t)
    <2>1. TypeOK'
      BY <1>3, <1>b, <1>c DEF WaitChanged, TypeOK
    <2>2. CallOK'
      BY <1>3, <1>a, <1>b, <1>c DEF WaitChanged, TypeOK, CallOK, TwoBuckets, Requeues, Bucket1, Bucket2
    <2>3. QED
      BY <2>1, <2>2
  <1>4. CASE WaitUnlock(t)
    <2>1. TypeOK'
      BY <1>4, <1>b, <1>c DEF WaitUnlock, TypeOK
    <2>2. CallOK'
      BY <1>4, <1>a, <1>b, <1>c DEF WaitUnlock, TypeOK, CallOK, TwoBuckets, Requeues, Bucket1, Bucket2
    <2>3. QED
      BY <2>1, <2>2
  <1>5. CASE WaitAdd(t)
    <2>1. TypeOK'
      BY <1>5, <1>b, <1>c, ListAddType DEF WaitAdd, TypeOK
    <2>2. CallOK'
      BY <1>5, <1>a, <1>b, <1>c DEF WaitAdd, TypeOK, CallOK, TwoBuckets, Requeues, Bucket1, Bucket2
    <2>3. QED
      BY <2>1, <2>2
  <1>6. CASE WaitWoken(t)
    <2>1. TypeOK'
      BY <1>6, <1>b, <1>c DEF WaitWoken, TypeOK
    <2>2. CallOK'
      BY <1>6, <1>a, <1>b, <1>c DEF WaitWoken, TypeOK, CallOK, TwoBuckets, Requeues, Bucket1, Bucket2
    <2>3. QED
      BY <2>1, <2>2
  <1>7. CASE WaitAborted(t)
    <2>1. TypeOK'
      BY <1>7, <1>b, <1>c DEF WaitAborted, TypeOK
    <2>2. CallOK'
      BY <1>7, <1>a, <1>b, <1>c DEF WaitAborted, TypeOK, CallOK, TwoBuckets, Requeues, Bucket1, Bucket2
    <2>3. QED
      BY <2>1, <2>2
  <1>8. CASE AbortLock(t)
    <2>1. TypeOK'
      BY <1>8, <1>b, <1>c DEF AbortLock, TypeOK
    <2>2. CallOK'
      BY <1>8, <1>a, <1>b, <1>c DEF AbortLock, TypeOK, CallOK, TwoBuckets, Requeues, Bucket1, Bucket2
    <2>3. QED
      BY <2>1, <2>2
  <1>9. CASE AbortRecheck(t)
    <2>1. TypeOK'
      BY <1>9, <1>b, <1>c DEF AbortRecheck, TypeOK
    <2>2. CallOK'
      BY <1>9, <1>a, <1>b, <1>c DEF AbortRecheck, TypeOK, CallOK, TwoBuckets, Requeues, Bucket1, Bucket2
    <2>3. QED
      BY <2>1, <2>2
  <1>10. CASE AbortRemove(t)
    <2>1. TypeOK'
      BY <1>10, <1>b, <1>c, ListRemoveType DEF AbortRemove, TypeOK
    <2>2. CallOK'
      BY <1>10, <1>a, <1>b, <1>c DEF AbortRemove, TypeOK, CallOK, TwoBuckets, Requeues, Bucket1, Bucket2
    <2>3. QED
      BY <2>1, <2>2
  <1>11. CASE AbortUnlock(t)
    <2>1. TypeOK'
      BY <1>11, <1>b, <1>c DEF AbortUnlock, TypeOK
    <2>2. CallOK'
      BY <1>11, <1>a, <1>b, <1>c DEF AbortUnlock, TypeOK, CallOK, TwoBuckets, Requeues, Bucket1, Bucket2
    <2>3. QED
      BY <2>1, <2>2
  <1>99. QED
    BY <1>1, <1>2, <1>3, <1>4, <1>5, <1>6, <1>7, <1>8, <1>9, <1>10, <1>11 DEF Wait

(* Every step of futex_wake_requeue keeps the types.                       *)
LEMMA WakeType ==
  ASSUME TypeInv, NEW t \in Thread, Wake(t)
  PROVE  TypeInv'
  <1> USE DEF TypeInv, WaitPC, WakePC, ThreadPC, Goto, Lock, Unlock, Return
  <1>a. Null \notin Thread
    BY FutexAssumption
  <1>b. pc[t] \in WakePC
    BY DEF Wake, Looking, WakeLock1, WakeLock2, WakeCompare, Eagain1, Eagain2, WalkEnd, WalkSkip, WalkRequeue, WalkUnlink, Notify, WakeUnlock1, WakeUnlock2
  <1>c. /\ call[t] \in Call /\ call[t].op # "wait" /\ call[t].addr \in Addr
        /\ Bucket1(t) \in Bucket /\ FirstBucket(t) \in Bucket
        /\ Requeues(t) => call[t].addr2 \in Addr /\ Bucket2(t) \in Bucket
    BY <1>b, CallInProgress
  <1>1. CASE WakeLock1(t)
    <2>1. TypeOK'
      BY <1>1, <1>a, <1>b, <1>c DEF WakeLock1, Locked, TypeOK
    <2>2. CallOK'
      BY <1>1, <1>a, <1>b, <1>c DEF WakeLock1, Locked, TypeOK, CallOK, TwoBuckets, Requeues, Bucket1, Bucket2
    <2>3. QED
      BY <2>1, <2>2
  <1>2. CASE WakeLock2(t)
    <2>1. TypeOK'
      BY <1>2, <1>a, <1>b, <1>c DEF WakeLock2, Locked, TypeOK
    <2>2. CallOK'
      BY <1>2, <1>a, <1>b, <1>c DEF WakeLock2, Locked, TypeOK, CallOK, TwoBuckets, Requeues, Bucket1, Bucket2
    <2>3. QED
      BY <2>1, <2>2
  <1>3. CASE WakeCompare(t)
    <2>1. TypeOK'
      BY <1>3, <1>a, <1>b, <1>c DEF WakeCompare, TypeOK
    <2>2. CallOK'
      BY <1>3, <1>a, <1>b, <1>c DEF WakeCompare, TypeOK, CallOK, TwoBuckets, Requeues, Bucket1, Bucket2
    <2>3. QED
      BY <2>1, <2>2
  <1>4. CASE Eagain1(t)
    <2>1. TypeOK'
      BY <1>4, <1>a, <1>b, <1>c DEF Eagain1, TypeOK
    <2>2. CallOK'
      BY <1>4, <1>a, <1>b, <1>c DEF Eagain1, TypeOK, CallOK, TwoBuckets, Requeues, Bucket1, Bucket2
    <2>3. QED
      BY <2>1, <2>2
  <1>5. CASE Eagain2(t)
    <2>1. TypeOK'
      BY <1>5, <1>a, <1>b, <1>c DEF Eagain2, TypeOK
    <2>2. CallOK'
      BY <1>5, <1>a, <1>b, <1>c DEF Eagain2, TypeOK, CallOK, TwoBuckets, Requeues, Bucket1, Bucket2
    <2>3. QED
      BY <2>1, <2>2
  <1>6. CASE WalkEnd(t)
    <2>1. TypeOK'
      BY <1>6, <1>a, <1>b, <1>c DEF WalkEnd, TypeOK
    <2>2. CallOK'
      BY <1>6, <1>a, <1>b, <1>c DEF WalkEnd, TypeOK, CallOK, TwoBuckets, Requeues, Bucket1, Bucket2
    <2>3. QED
      BY <2>1, <2>2
  <1>7. CASE WalkSkip(t)
    <2>1. TypeOK'
      BY <1>7, <1>a, <1>b, <1>c DEF WalkSkip, Looking, TypeOK
    <2>2. CallOK'
      BY <1>7, <1>a, <1>b, <1>c DEF WalkSkip, Looking, TypeOK, CallOK, TwoBuckets, Requeues, Bucket1, Bucket2
    <2>3. QED
      BY <2>1, <2>2
  <1>8. CASE WalkRequeue(t)
    <2>1. TypeOK'
      <3>1. PICK n \in Thread : WalkRequeue(t)!(n)
        BY <1>8 DEF WalkRequeue
      <3>2. ListRemove(list, Bucket1(t), n) \in HeapType(Bucket, Thread)
        BY <1>c, ListRemoveType DEF TypeOK
      <3>3. Requeues(t)
        BY <3>1
      <3>4. ListAdd(ListRemove(list, Bucket1(t), n), Bucket2(t), n) \in HeapType(Bucket, Thread)
        BY <1>c, <3>2, <3>3, ListAddType
      <3>5. list' \in HeapType(Bucket, Thread) /\ prev' \in [Thread -> Thread \cup {Null}]
        BY <3>1, <3>4 DEF TypeOK
      <3>6. waddr' \in [Thread -> Addr]
        BY <1>c, <3>1, <3>3 DEF TypeOK
      <3>7. QED
        BY <3>1, <3>5, <3>6 DEF TypeOK
    <2>2. CallOK'
      BY <1>8, <1>a, <1>b, <1>c DEF WalkRequeue, Looking, TypeOK, CallOK, TwoBuckets, Requeues, Bucket1, Bucket2
    <2>3. QED
      BY <2>1, <2>2
  <1>9. CASE WalkUnlink(t)
    <2>1. TypeOK'
      BY <1>9, <1>a, <1>b, <1>c, ListRemoveType DEF WalkUnlink, Looking, TypeOK
    <2>2. CallOK'
      BY <1>9, <1>a, <1>b, <1>c DEF WalkUnlink, Looking, TypeOK, CallOK, TwoBuckets, Requeues, Bucket1, Bucket2
    <2>3. QED
      BY <2>1, <2>2
  <1>10. CASE Notify(t)
    <2>1. TypeOK'
      <3>1. event' \in [Thread -> BOOLEAN]
        BY <1>10 DEF Notify, TypeOK
      <3>2. woken' \in [Thread -> Nat]
        BY <1>10 DEF Notify, TypeOK
      <3>3. QED
        BY <1>10, <3>1, <3>2 DEF Notify, TypeOK
    <2>2. CallOK'
      BY <1>10, <1>a, <1>b, <1>c DEF Notify, TypeOK, CallOK, TwoBuckets, Requeues, Bucket1, Bucket2
    <2>3. QED
      BY <2>1, <2>2
  <1>11. CASE WakeUnlock1(t)
    <2>1. TypeOK'
      BY <1>11, <1>a, <1>b, <1>c DEF WakeUnlock1, TypeOK
    <2>2. CallOK'
      BY <1>11, <1>a, <1>b, <1>c DEF WakeUnlock1, TypeOK, CallOK, TwoBuckets, Requeues, Bucket1, Bucket2
    <2>3. QED
      BY <2>1, <2>2
  <1>12. CASE WakeUnlock2(t)
    <2>1. TypeOK'
      BY <1>12, <1>a, <1>b, <1>c DEF WakeUnlock2, TypeOK
    <2>2. CallOK'
      BY <1>12, <1>a, <1>b, <1>c DEF WakeUnlock2, TypeOK, CallOK, TwoBuckets, Requeues, Bucket1, Bucket2
    <2>3. QED
      BY <2>1, <2>2
  <1>99. QED
    BY <1>1, <1>2, <1>3, <1>4, <1>5, <1>6, <1>7, <1>8, <1>9, <1>10, <1>11, <1>12 DEF Wake

(* Every step keeps the types.                                             *)
LEMMA StepType == TypeInv /\ [Next]_vars => TypeInv'
  <1> SUFFICES ASSUME TypeInv, [Next]_vars PROVE TypeInv'
    OBVIOUS
  <1>1. CASE UNCHANGED vars
    BY <1>1 DEF vars, TypeInv, TypeOK, CallOK, TwoBuckets, Requeues, Bucket1, Bucket2
  <1>2. ASSUME NEW t \in Thread, NEW s \in Stores, Store(t, s[2], s[3])
        PROVE  TypeInv'
    <2>1. s[2] \in Addr /\ s[3] \in Val
      BY FutexAssumption
    <2>2. QED
      BY <1>2, <2>1 DEF Store, TypeInv, TypeOK, CallOK, TwoBuckets, Requeues, Bucket1, Bucket2
  <1>3. ASSUME NEW t \in Thread, NEW c \in Calls[t], Enter(t, c)
        PROVE  TypeInv'
    <2>1. c \in Call /\ c.addr \in Addr
      BY CallsAreCalls, CallFields
    <2>2. TypeOK'
      BY <1>3, <2>1, FutexAssumption
      DEF Enter, Goto, ThreadPC, WaitPC, WakePC, TypeInv, TypeOK
    <2>3. CallOK'
      BY <1>3, <2>1, FutexAssumption
      DEF Enter, Goto, WaitPC, WakePC, TypeInv, TypeOK, CallOK, TwoBuckets, Requeues,
          Bucket1, Bucket2
    <2>4. QED
      BY <2>2, <2>3 DEF TypeInv
  <1>4. QED
    BY <1>1, <1>2, <1>3, WaitType, WakeType DEF Next, Environment

(* The type invariant, for any number of threads, words and calls.         *)
THEOREM TypeCorrect == Spec => []TypeOK
  <1>1. TypeInv => TypeOK
    BY DEF TypeInv
  <1>2. QED
    BY <1>1, InitType, StepType, PTL DEF Spec

-----------------------------------------------------------------------------
(* Which buckets a thread has depends only on where it is and its call.    *)
LEMMA HoldsFrame ==
  ASSUME NEW u \in Thread, NEW b \in Bucket, pc'[u] = pc[u], call'[u] = call[u]
  PROVE  Holds(u, b)' <=> Holds(u, b)
  BY DEF Holds, HoldsBoth, TwoBuckets, Requeues, Bucket1, Bucket2, FirstBucket

(* The other threads keep the buckets they have.                           *)
OthersKeep(t) == \A u \in Thread, b \in Bucket : u # t => (Holds(u, b)' <=> Holds(u, b))

(* Taking a free bucket, letting one go, and neither.                      *)
Takes(t, b)    == Lock(b) /\ \A x \in Bucket : Holds(t, x)' <=> (Holds(t, x) \/ x = b)
LetsGo(t, b)   == /\ Unlock(b) /\ Holds(t, b)
                  /\ \A x \in Bucket : Holds(t, x)' <=> (Holds(t, x) /\ x # b)
KeepsLocks(t)  == UNCHANGED spin /\ \A x \in Bucket : Holds(t, x)' <=> Holds(t, x)

(* Exclusion survives any of the three.                                    *)
LEMMA ExclusionStep ==
  ASSUME TypeOK, BucketExclusion, NEW t \in Thread, OthersKeep(t),
         KeepsLocks(t) \/ \E b \in Bucket : Takes(t, b) \/ LetsGo(t, b)
  PROVE  BucketExclusion'
  <1>1. CASE KeepsLocks(t)
    <2>1. spin' = spin /\ \A u \in Thread, x \in Bucket : Holds(u, x)' <=> Holds(u, x)
      BY <1>1 DEF KeepsLocks, OthersKeep
    <2>2. \A x \in Bucket : \A u, v \in Thread : Holds(u, x)' /\ Holds(v, x)' => u = v
      BY <2>1 DEF BucketExclusion
    <2>3. \A x \in Bucket : spin'[x] <=> \E u \in Thread : Holds(u, x)'
      BY <2>1 DEF BucketExclusion
    <2>4. QED
      BY <2>2, <2>3, Zenon DEF BucketExclusion
  <1>2. ASSUME NEW b \in Bucket, Takes(t, b) PROVE BucketExclusion'
    <2>1. \A u \in Thread : ~Holds(u, b)
      BY <1>2 DEF BucketExclusion, Takes, Lock
    <2>2. spin'[b] /\ \A x \in Bucket : x # b => spin'[x] = spin[x]
      BY <1>2 DEF TypeOK, Takes, Lock
    <2>3. \A x \in Bucket : \A u, v \in Thread : Holds(u, x)' /\ Holds(v, x)' => u = v
      BY <1>2, <2>1 DEF BucketExclusion, Takes, OthersKeep
    <2>4. \A x \in Bucket : spin'[x] <=> \E u \in Thread : Holds(u, x)'
      BY <1>2, <2>1, <2>2 DEF BucketExclusion, Takes, OthersKeep
    <2>5. QED
      BY <2>3, <2>4 DEF BucketExclusion
  <1>3. ASSUME NEW b \in Bucket, LetsGo(t, b) PROVE BucketExclusion'
    <2>1. ~spin'[b] /\ \A x \in Bucket : x # b => spin'[x] = spin[x]
      BY <1>3 DEF TypeOK, LetsGo, Unlock
    <2>2. \A x \in Bucket : \A u, v \in Thread : Holds(u, x)' /\ Holds(v, x)' => u = v
      BY <1>3 DEF BucketExclusion, LetsGo, OthersKeep
    <2>3. \A x \in Bucket : spin'[x] <=> \E u \in Thread : Holds(u, x)'
      BY <1>3, <2>1 DEF BucketExclusion, LetsGo, OthersKeep
    <2>4. QED
      BY <2>2, <2>3 DEF BucketExclusion
  <1>4. QED
    BY <1>1, <1>2, <1>3

(* The steps of futex_wait take and let go of one bucket. *)
LEMMA WaitExclusion ==
  ASSUME CmpRequeuesCrossBuckets, TypeInv, BucketExclusion, NEW t \in Thread, Wait(t) \/ WaitAborted(t)
  PROVE  BucketExclusion'
  <1> USE DEF Goto, Return
  <1>o. OthersKeep(t)
    <2>1. \A u \in Thread : u # t => pc'[u] = pc[u] /\ call'[u] = call[u]
      BY DEF Wait, Looking, WaitLock, WaitCompare, WaitChanged, WaitUnlock, WaitAdd, WaitWoken, WaitAborted, AbortLock, AbortRecheck, AbortRemove, AbortUnlock, TypeInv, TypeOK
    <2>2. QED
      BY <2>1, HoldsFrame DEF OthersKeep
  <1>t. TypeOK
    BY DEF TypeInv
  <1>p. pc \in [Thread -> ThreadPC]
    BY DEF TypeInv, TypeOK
  <1>1. CASE WaitLock(t)
    <2>1. Takes(t, Bucket1(t))
      BY <1>1, <1>p DEF WaitLock, Takes, WaitPC, CallOK, TypeInv,
         Holds, HoldsBoth, TwoBuckets, Requeues, Bucket1, Bucket2, FirstBucket
    <2>2. Bucket1(t) \in Bucket
      BY <1>1, CallInProgress DEF WaitLock, WaitPC, CallOK, TypeInv
    <2>3. QED
      BY <1>o, <1>t, <2>1, <2>2, ExclusionStep
  <1>2. CASE WaitCompare(t)
    <2>1. KeepsLocks(t)
      BY <1>2, <1>p DEF WaitCompare, KeepsLocks, WaitPC, CallOK, TypeInv,
         Holds, HoldsBoth, TwoBuckets, Requeues, Bucket1, Bucket2, FirstBucket
    <2>2. QED
      BY <1>o, <1>t, <2>1, ExclusionStep
  <1>3. CASE WaitChanged(t)
    <2>1. LetsGo(t, Bucket1(t))
      BY <1>3, <1>p DEF WaitChanged, LetsGo, WaitPC, CallOK, TypeInv,
         Holds, HoldsBoth, TwoBuckets, Requeues, Bucket1, Bucket2, FirstBucket
    <2>2. Bucket1(t) \in Bucket
      BY <1>3, CallInProgress DEF WaitChanged, WaitPC, CallOK, TypeInv
    <2>3. QED
      BY <1>o, <1>t, <2>1, <2>2, ExclusionStep
  <1>4. CASE WaitUnlock(t)
    <2>1. LetsGo(t, Bucket1(t))
      BY <1>4, <1>p DEF WaitUnlock, LetsGo, WaitPC, CallOK, TypeInv,
         Holds, HoldsBoth, TwoBuckets, Requeues, Bucket1, Bucket2, FirstBucket
    <2>2. Bucket1(t) \in Bucket
      BY <1>4, CallInProgress DEF WaitUnlock, WaitPC, CallOK, TypeInv
    <2>3. QED
      BY <1>o, <1>t, <2>1, <2>2, ExclusionStep
  <1>5. CASE WaitAdd(t)
    <2>1. KeepsLocks(t)
      BY <1>5, <1>p DEF WaitAdd, KeepsLocks, WaitPC, CallOK, TypeInv,
         Holds, HoldsBoth, TwoBuckets, Requeues, Bucket1, Bucket2, FirstBucket
    <2>2. QED
      BY <1>o, <1>t, <2>1, ExclusionStep
  <1>6. CASE WaitWoken(t)
    <2>1. KeepsLocks(t)
      BY <1>6, <1>p DEF WaitWoken, KeepsLocks, WaitPC, CallOK, TypeInv,
         Holds, HoldsBoth, TwoBuckets, Requeues, Bucket1, Bucket2, FirstBucket
    <2>2. QED
      BY <1>o, <1>t, <2>1, ExclusionStep
  <1>7. CASE WaitAborted(t)
    <2>1. KeepsLocks(t)
      BY <1>7, <1>p DEF WaitAborted, KeepsLocks, WaitPC, CallOK, TypeInv,
         Holds, HoldsBoth, TwoBuckets, Requeues, Bucket1, Bucket2, FirstBucket
    <2>2. QED
      BY <1>o, <1>t, <2>1, ExclusionStep
  <1>8. CASE AbortLock(t)
    <2>1. Takes(t, Bucket1(t))
      BY <1>8, <1>p DEF AbortLock, Takes, WaitPC, CallOK, TypeInv,
         Holds, HoldsBoth, TwoBuckets, Requeues, Bucket1, Bucket2, FirstBucket
    <2>2. Bucket1(t) \in Bucket
      BY <1>8, CallInProgress DEF AbortLock, WaitPC, CallOK, TypeInv
    <2>3. QED
      BY <1>o, <1>t, <2>1, <2>2, ExclusionStep
  <1>9. CASE AbortRecheck(t)
    <2>1. KeepsLocks(t)
      BY <1>9, <1>p DEF AbortRecheck, KeepsLocks, WaitPC, CallOK, TypeInv,
         Holds, HoldsBoth, TwoBuckets, Requeues, Bucket1, Bucket2, FirstBucket
    <2>2. QED
      BY <1>o, <1>t, <2>1, ExclusionStep
  <1>10. CASE AbortRemove(t)
    <2>1. KeepsLocks(t)
      BY <1>10, <1>p DEF AbortRemove, KeepsLocks, WaitPC, CallOK, TypeInv,
         Holds, HoldsBoth, TwoBuckets, Requeues, Bucket1, Bucket2, FirstBucket
    <2>2. QED
      BY <1>o, <1>t, <2>1, ExclusionStep
  <1>11. CASE AbortUnlock(t)
    <2>1. LetsGo(t, Bucket1(t))
      BY <1>11, <1>p DEF AbortUnlock, LetsGo, WaitPC, CallOK, TypeInv,
         Holds, HoldsBoth, TwoBuckets, Requeues, Bucket1, Bucket2, FirstBucket
    <2>2. Bucket1(t) \in Bucket
      BY <1>11, CallInProgress DEF AbortUnlock, WaitPC, CallOK, TypeInv
    <2>3. QED
      BY <1>o, <1>t, <2>1, <2>2, ExclusionStep
  <1>99. QED
    BY <1>1, <1>2, <1>3, <1>4, <1>5, <1>6, <1>7, <1>8, <1>9, <1>10, <1>11 DEF Wait

(* The steps of futex_wake_requeue take and let go of one bucket or two. *)
LEMMA WakeExclusion ==
  ASSUME CmpRequeuesCrossBuckets, TypeInv, BucketExclusion, NEW t \in Thread, Wake(t)
  PROVE  BucketExclusion'
  <1> USE DEF Goto, Return
  <1>o. OthersKeep(t)
    <2>1. \A u \in Thread : u # t => pc'[u] = pc[u] /\ call'[u] = call[u]
      BY DEF Wake, Looking, WakeLock1, WakeLock2, WakeCompare, Eagain1, Eagain2, WalkEnd, WalkSkip, WalkRequeue, WalkUnlink, Notify, WakeUnlock1, WakeUnlock2, TypeInv, TypeOK
    <2>2. QED
      BY <2>1, HoldsFrame DEF OthersKeep
  <1>t. TypeOK
    BY DEF TypeInv
  <1>p. pc \in [Thread -> ThreadPC]
    BY DEF TypeInv, TypeOK
  <1>1. CASE WakeLock1(t)
    <2>1. Takes(t, FirstBucket(t))
      BY <1>1, <1>p DEF WakeLock1, Locked, Takes, WakePC, CallOK, TypeInv,
         Holds, HoldsBoth, TwoBuckets, Requeues, Bucket1, Bucket2, FirstBucket
    <2>2. FirstBucket(t) \in Bucket
      BY <1>1, CallInProgress DEF WakeLock1, Locked, WakePC, CallOK, TypeInv
    <2>3. QED
      BY <1>o, <1>t, <2>1, <2>2, ExclusionStep
  <1>2. CASE WakeLock2(t)
    <2>1. Takes(t, SecondBucket(t))
      BY <1>2, <1>p DEF WakeLock2, Locked, SecondBucket, Takes, WakePC, CallOK, TypeInv,
         Holds, HoldsBoth, TwoBuckets, Requeues, Bucket1, Bucket2, FirstBucket
    <2>2. SecondBucket(t) \in Bucket
      BY <1>2, CallInProgress DEF WakeLock2, TwoBuckets, WakePC, CallOK, TypeInv
    <2>3. QED
      BY <1>o, <1>t, <2>1, <2>2, ExclusionStep
  <1>3. CASE WakeCompare(t)
    <2>1. KeepsLocks(t)
      BY <1>3, <1>p DEF WakeCompare, KeepsLocks, WakePC, CallOK, TypeInv,
         Holds, HoldsBoth, TwoBuckets, Requeues, Bucket1, Bucket2, FirstBucket
    <2>2. QED
      BY <1>o, <1>t, <2>1, ExclusionStep
  <1>4. CASE Eagain1(t)
    <2>1. LetsGo(t, Bucket1(t))
      BY <1>4, <1>p, CallsAreCalls, CallFields DEF Eagain1, LetsGo, CmpRequeuesCrossBuckets, WakePC, CallOK, TypeInv,
         Holds, HoldsBoth, TwoBuckets, Requeues, Bucket1, Bucket2, FirstBucket
    <2>2. Bucket1(t) \in Bucket
      BY <1>4, CallInProgress DEF Eagain1, WakePC, CallOK, TypeInv
    <2>3. QED
      BY <1>o, <1>t, <2>1, <2>2, ExclusionStep
  <1>5. CASE Eagain2(t)
    <2>1. LetsGo(t, Bucket2(t))
      BY <1>5, <1>p, CallsAreCalls, CallFields DEF Eagain2, LetsGo, CmpRequeuesCrossBuckets, WakePC, CallOK, TypeInv,
         Holds, HoldsBoth, TwoBuckets, Requeues, Bucket1, Bucket2, FirstBucket
    <2>2. Bucket2(t) \in Bucket
      BY <1>5, CallInProgress DEF Eagain2, WakePC, CallOK, TypeInv
    <2>3. QED
      BY <1>o, <1>t, <2>1, <2>2, ExclusionStep
  <1>6. CASE WalkEnd(t)
    <2>1. KeepsLocks(t)
      BY <1>6, <1>p DEF WalkEnd, KeepsLocks, WakePC, CallOK, TypeInv,
         Holds, HoldsBoth, TwoBuckets, Requeues, Bucket1, Bucket2, FirstBucket
    <2>2. QED
      BY <1>o, <1>t, <2>1, ExclusionStep
  <1>7. CASE WalkSkip(t)
    <2>1. KeepsLocks(t)
      BY <1>7, <1>p DEF WalkSkip, Looking, KeepsLocks, WakePC, CallOK, TypeInv,
         Holds, HoldsBoth, TwoBuckets, Requeues, Bucket1, Bucket2, FirstBucket
    <2>2. QED
      BY <1>o, <1>t, <2>1, ExclusionStep
  <1>8. CASE WalkRequeue(t)
    <2>1. KeepsLocks(t)
      BY <1>8, <1>p DEF WalkRequeue, Looking, KeepsLocks, WakePC, CallOK, TypeInv,
         Holds, HoldsBoth, TwoBuckets, Requeues, Bucket1, Bucket2, FirstBucket
    <2>2. QED
      BY <1>o, <1>t, <2>1, ExclusionStep
  <1>9. CASE WalkUnlink(t)
    <2>1. KeepsLocks(t)
      BY <1>9, <1>p DEF WalkUnlink, Looking, KeepsLocks, WakePC, CallOK, TypeInv,
         Holds, HoldsBoth, TwoBuckets, Requeues, Bucket1, Bucket2, FirstBucket
    <2>2. QED
      BY <1>o, <1>t, <2>1, ExclusionStep
  <1>10. CASE Notify(t)
    <2>1. KeepsLocks(t)
      BY <1>10, <1>p DEF Notify, KeepsLocks, WakePC, CallOK, TypeInv,
         Holds, HoldsBoth, TwoBuckets, Requeues, Bucket1, Bucket2, FirstBucket
    <2>2. QED
      BY <1>o, <1>t, <2>1, ExclusionStep
  <1>11. CASE WakeUnlock1(t)
    <2>1. LetsGo(t, Bucket1(t))
      BY <1>11, <1>p DEF WakeUnlock1, LetsGo, WakePC, CallOK, TypeInv,
         Holds, HoldsBoth, TwoBuckets, Requeues, Bucket1, Bucket2, FirstBucket
    <2>2. Bucket1(t) \in Bucket
      BY <1>11, CallInProgress DEF WakeUnlock1, WakePC, CallOK, TypeInv
    <2>3. QED
      BY <1>o, <1>t, <2>1, <2>2, ExclusionStep
  <1>12. CASE WakeUnlock2(t)
    <2>1. LetsGo(t, Bucket2(t))
      BY <1>12, <1>p DEF WakeUnlock2, LetsGo, WakePC, CallOK, TypeInv,
         Holds, HoldsBoth, TwoBuckets, Requeues, Bucket1, Bucket2, FirstBucket
    <2>2. Bucket2(t) \in Bucket
      BY <1>12, CallInProgress DEF WakeUnlock2, TwoBuckets, WakePC, CallOK, TypeInv
    <2>3. QED
      BY <1>o, <1>t, <2>1, <2>2, ExclusionStep
  <1>99. QED
    BY <1>1, <1>2, <1>3, <1>4, <1>5, <1>6, <1>7, <1>8, <1>9, <1>10, <1>11, <1>12 DEF Wake

(* No step gives a bucket to two threads.                                  *)
LEMMA StepExclusion ==
  CmpRequeuesCrossBuckets => (TypeInv /\ BucketExclusion /\ [Next]_vars => BucketExclusion')
  <1> SUFFICES ASSUME CmpRequeuesCrossBuckets, TypeInv, BucketExclusion, [Next]_vars PROVE BucketExclusion'
    OBVIOUS
  <1>1. CASE UNCHANGED vars
    <2>1. \A u \in Thread, b \in Bucket : Holds(u, b)' <=> Holds(u, b)
      BY <1>1, HoldsFrame DEF vars
    <2>2. QED
      BY <1>1, <2>1 DEF vars, BucketExclusion
  <1>2. ASSUME NEW t \in Thread, NEW s \in Stores, Store(t, s[2], s[3])
        PROVE  BucketExclusion'
    <2>1. \A u \in Thread, b \in Bucket : Holds(u, b)' <=> Holds(u, b)
      BY <1>2, HoldsFrame DEF Store
    <2>2. QED
      BY <1>2, <2>1 DEF Store, BucketExclusion
  <1>3. ASSUME NEW t \in Thread, NEW c \in Calls[t], Enter(t, c)
        PROVE  BucketExclusion'
    <2>1. \A u \in Thread, b \in Bucket : u # t => (Holds(u, b)' <=> Holds(u, b))
      BY <1>3, HoldsFrame DEF Enter, Goto, TypeInv, TypeOK
    <2>2. \A b \in Bucket : ~Holds(t, b) /\ ~Holds(t, b)'
      BY <1>3 DEF Enter, Goto, TypeInv, TypeOK, Holds, HoldsBoth
    <2>3. OthersKeep(t) /\ KeepsLocks(t)
      BY <1>3, <2>1, <2>2 DEF Enter, OthersKeep, KeepsLocks
    <2>4. QED
      BY <2>3, ExclusionStep DEF TypeInv
  <1>4. QED
    BY <1>1, <1>2, <1>3, WaitExclusion, WakeExclusion DEF Next, Environment

(* All buckets are free to begin with.                                     *)
LEMMA InitExclusion == Init => BucketExclusion
  BY DEF Init, BucketExclusion, Holds, HoldsBoth

(* Buckets are exclusive on every path of futex_wait and                   *)
(* futex_wake_requeue, for any number of threads and buckets and any mix   *)
(* of calls in which no FUTEX_CMP_REQUEUE stays within one bucket.         *)
THEOREM ExclusiveBuckets == CmpRequeuesCrossBuckets => (Spec => []BucketExclusion)
  <1> SUFFICES ASSUME CmpRequeuesCrossBuckets PROVE Spec => []BucketExclusion
    OBVIOUS
  <1>1. TypeInv /\ BucketExclusion /\ [Next]_vars => BucketExclusion'
    BY StepExclusion
  <1>2. QED
    BY <1>1, InitExclusion, InitType, StepType, PTL DEF Spec

(* A non-empty set of numbers has a least one.                             *)
LEMMA LeastNat ==
  ASSUME NEW K \in SUBSET Nat, K # {}
  PROVE  \E k \in K : \A j \in K : k <= j
  <1> DEFINE R == {ij \in Nat \X Nat : ij[1] < ij[2]}
  <1>1. IsWellFoundedOn(R, Nat)
    BY NatLessThanWellFounded DEF OpToRel
  <1>2. \A j, k \in Nat : <<j, k>> \notin R => k <= j
    OBVIOUS
  <1> HIDE DEF R
  <1>3. PICK k \in K : \A j \in K : <<j, k>> \notin R
    BY <1>1, WFMin
  <1> QED BY <1>2, <1>3

-----------------------------------------------------------------------------
(* The lists of lib/list.h: list l of heap L is the chain of the m nodes   *)
(* s[1] to s[m] when the pointers link them in this order, each once.      *)
Chain(L, l, m, s) ==
  /\ L.head[l] = IF m = 0 THEN Null ELSE s[1]
  /\ L.tail[l] = IF m = 0 THEN Null ELSE s[m]
  /\ \A i \in 1 .. m :
       /\ s[i] \in Thread
       /\ L.next[s[i]] = IF i = m THEN Null ELSE s[i + 1]
       /\ L.prev[s[i]] = IF i = 1 THEN Null ELSE s[i - 1]
  /\ \A i, j \in 1 .. m : s[i] = s[j] => i = j

(* The chain s with n put at its end, and with its k-th node taken out.    *)
Put(m, s, n) == [i \in Nat |-> IF i = m + 1 THEN n ELSE s[i]]
Cut(s, k)    == [i \in Nat |-> IF i < k THEN s[i] ELSE s[i + 1]]

(* list_add makes the chain one longer.                                    *)
LEMMA ListAddChain ==
  ASSUME NEW L \in HeapType(Bucket, Thread), NEW l \in Bucket, NEW n \in Thread,
         NEW m \in Nat, NEW s, Chain(L, l, m, s), \A i \in 1 .. m : s[i] # n
  PROVE  Chain(ListAdd(L, l, n), l, m + 1, Put(m, s, n))
  <1> DEFINE K == ListAdd(L, l, n)
             p == Put(m, s, n)
  <1>0. Null \notin Thread
    BY FutexAssumption
  <1>1. p[m + 1] = n /\ \A i \in 1 .. m : p[i] = s[i] /\ i # m + 1
    BY DEF Put
  <1>2. CASE m = 0
    <2>1. K.head[l] = n /\ K.tail[l] = n /\ K.next[n] = Null /\ K.prev[n] = Null
      BY <1>2 DEF Chain, ListAdd, HeapType
    <2> HIDE DEF K, p
    <2>2. 1 .. m + 1 = {1} /\ p[1] = n
      BY <1>1, <1>2
    <2> QED BY <1>2, <2>1, <2>2 DEF Chain, K, p
  <1>3. CASE m # 0
    <2>1. L.tail[l] = s[m] /\ s[m] \in Thread /\ s[m] # n /\ L.head[l] = s[1]
      BY <1>3 DEF Chain
    <2>2. /\ K.head = L.head /\ K.tail[l] = n
          /\ K.next[n] = Null /\ K.next[s[m]] = n /\ K.prev[n] = s[m]
          /\ \A x \in Thread : x # n => K.prev[x] = L.prev[x] /\ (x # s[m] => K.next[x] = L.next[x])
      BY <1>0, <2>1 DEF ListAdd, HeapType
    <2> HIDE DEF K, p
    <2>3. K.head[l] = p[1] /\ K.tail[l] = p[m + 1]
      BY <1>1, <1>3, <2>1, <2>2
    <2>4. ASSUME NEW i \in 1 .. m
          PROVE  /\ p[i] \in Thread /\ K.next[p[i]] = p[i + 1]
                 /\ K.prev[p[i]] = IF i = 1 THEN Null ELSE p[i - 1]
      <3>1. p[i] = s[i] /\ s[i] \in Thread /\ s[i] # n
        BY <1>1 DEF Chain
      <3>2. K.prev[p[i]] = IF i = 1 THEN Null ELSE p[i - 1]
        <4>1. CASE i = 1
          BY <2>2, <3>1, <4>1 DEF Chain
        <4>2. CASE i # 1
          <5>1. p[i - 1] = s[i - 1]
            BY <1>1, <4>2
          <5> QED BY <2>2, <3>1, <4>2, <5>1 DEF Chain
        <4> QED BY <4>1, <4>2
      <3>3. K.next[p[i]] = p[i + 1]
        <4>1. CASE i = m
          BY <1>1, <2>2, <3>1, <4>1
        <4>2. CASE i # m
          <5>1. s[i] # s[m] /\ p[i + 1] = s[i + 1]
            BY <1>1, <1>3, <4>2 DEF Chain
          <5> QED BY <2>2, <3>1, <4>2, <5>1 DEF Chain
        <4> QED BY <4>1, <4>2
      <3> QED BY <3>1, <3>2, <3>3
    <2>5. \A i, j \in 1 .. m + 1 : p[i] = p[j] => i = j
      BY <1>1 DEF Chain
    <2>6. K.next[p[m + 1]] = Null /\ K.prev[p[m + 1]] = p[m] /\ p[m + 1] \in Thread
      BY <1>1, <1>3, <2>2
    <2>7. \A i \in 1 .. m + 1 : i = m + 1 \/ (i \in 1 .. m /\ i # m + 1)
      OBVIOUS
    <2> QED BY <1>3, <2>3, <2>4, <2>5, <2>6, <2>7 DEF Chain, K, p
  <1> QED BY <1>2, <1>3

(* list_remove makes the chain one shorter.                                *)
LEMMA ListRemoveChain ==
  ASSUME NEW L \in HeapType(Bucket, Thread), NEW l \in Bucket,
         NEW m \in Nat, NEW s, Chain(L, l, m, s), NEW k \in 1 .. m
  PROVE  Chain(ListRemove(L, l, s[k]), l, m - 1, Cut(s, k))
  <1> DEFINE n == s[k]
             K == ListRemove(L, l, n)
             p == Cut(s, k)
  <1>0. Null \notin Thread
    BY FutexAssumption
  <1>1. \A i \in 1 .. m - 1 : /\ i < k => p[i] = s[i]
                              /\ i >= k => p[i] = s[i + 1]
    BY DEF Cut
  <1>2. /\ n \in Thread /\ L.next[n] = (IF k = m THEN Null ELSE s[k + 1])
        /\ L.prev[n] = IF k = 1 THEN Null ELSE s[k - 1]
    BY DEF Chain
  <1>3. \A i \in 1 .. m : s[i] \in Thread /\ s[i] # Null
    BY <1>0 DEF Chain
  <1>4. /\ K.head[l] = IF L.head[l] = n THEN L.next[n] ELSE L.head[l]
        /\ K.tail[l] = IF L.tail[l] = n THEN L.prev[n] ELSE L.tail[l]
    BY DEF ListRemove, HeapType
  <1>5. \A x \in Thread :
          /\ K.prev[x] = IF L.next[n] # Null /\ x = L.next[n] THEN L.prev[n] ELSE L.prev[x]
          /\ K.next[x] = IF L.prev[n] # Null /\ x = L.prev[n] THEN L.next[n] ELSE L.next[x]
    BY DEF ListRemove, HeapType
  <1>6. \A i \in 1 .. m : (s[i] = n <=> i = k)
    BY DEF Chain
  <1> HIDE DEF K, p
  <1>7. K.head[l] = IF m - 1 = 0 THEN Null ELSE p[1]
    <2>1. m # 0 /\ L.head[l] = s[1]
      BY DEF Chain
    <2>2. CASE k = 1
      BY <1>1, <1>2, <1>4, <2>1, <2>2
    <2>3. CASE k # 1
      BY <1>1, <1>4, <1>6, <2>1, <2>3
    <2> QED BY <2>2, <2>3
  <1>8. K.tail[l] = IF m - 1 = 0 THEN Null ELSE p[m - 1]
    <2>1. m # 0 /\ L.tail[l] = s[m]
      BY DEF Chain
    <2>2. CASE k = m
      BY <1>1, <1>2, <1>4, <2>1, <2>2
    <2>3. CASE k # m
      BY <1>1, <1>4, <1>6, <2>1, <2>3
    <2> QED BY <2>2, <2>3
  <1>9. ASSUME NEW i \in 1 .. m, i # k
        PROVE  /\ K.prev[s[i]] = IF i = k + 1 THEN L.prev[n] ELSE L.prev[s[i]]
               /\ K.next[s[i]] = IF i = k - 1 THEN L.next[n] ELSE L.next[s[i]]
    <2>1. s[i] \in Thread
      BY <1>3
    <2>2. (L.next[n] # Null /\ s[i] = L.next[n]) <=> i = k + 1
      BY <1>2, <1>3 DEF Chain
    <2>3. (L.prev[n] # Null /\ s[i] = L.prev[n]) <=> i = k - 1
      BY <1>2, <1>3 DEF Chain
    <2> QED BY <1>5, <2>1, <2>2, <2>3
  <1>10. ASSUME NEW i \in 1 .. m - 1
         PROVE  /\ p[i] \in Thread
                /\ K.next[p[i]] = IF i = m - 1 THEN Null ELSE p[i + 1]
                /\ K.prev[p[i]] = IF i = 1 THEN Null ELSE p[i - 1]
    <2>1. CASE i < k
      <3>1. p[i] = s[i] /\ i \in 1 .. m /\ i # k
        BY <1>1, <2>1
      <3>2. /\ L.next[s[i]] = s[i + 1] /\ L.prev[s[i]] = IF i = 1 THEN Null ELSE s[i - 1]
        BY <2>1, <3>1 DEF Chain
      <3>3. i # 1 => p[i - 1] = s[i - 1]
        BY <1>1, <2>1
      <3>4. K.prev[p[i]] = IF i = 1 THEN Null ELSE p[i - 1]
        BY <1>9, <2>1, <3>1, <3>2, <3>3
      <3>5. K.next[p[i]] = IF i = m - 1 THEN Null ELSE p[i + 1]
        <4>1. CASE i = k - 1
          BY <1>1, <1>2, <1>9, <3>1, <4>1
        <4>2. CASE i # k - 1
          BY <1>1, <1>9, <2>1, <3>1, <3>2, <4>2
        <4> QED BY <4>1, <4>2
      <3> QED BY <1>3, <3>1, <3>4, <3>5
    <2>2. CASE i >= k
      <3> DEFINE j == i + 1
      <3>1. p[i] = s[j] /\ j \in 1 .. m /\ j # k
        BY <1>1, <2>2
      <3>2. /\ L.next[s[j]] = (IF j = m THEN Null ELSE s[j + 1]) /\ L.prev[s[j]] = s[i]
        BY <2>2, <3>1 DEF Chain
      <3>3. K.next[p[i]] = IF i = m - 1 THEN Null ELSE p[i + 1]
        BY <1>1, <1>9, <2>2, <3>1, <3>2
      <3>4. K.prev[p[i]] = IF i = 1 THEN Null ELSE p[i - 1]
        <4>1. CASE i = k
          BY <1>1, <1>2, <1>9, <3>1, <4>1
        <4>2. CASE i # k
          <5>1. p[i - 1] = s[i]
            BY <1>1, <2>2, <4>2
          <5> QED BY <1>9, <2>2, <3>1, <3>2, <4>2, <5>1
        <4> QED BY <4>1, <4>2
      <3> QED BY <1>3, <3>1, <3>3, <3>4
    <2> QED BY <2>1, <2>2
  <1>11. \A i, j \in 1 .. m - 1 : p[i] = p[j] => i = j
    <2> SUFFICES ASSUME NEW i \in 1 .. m - 1, NEW j \in 1 .. m - 1, p[i] = p[j]
                 PROVE  i = j
      OBVIOUS
    <2> DEFINE a == IF i < k THEN i ELSE i + 1
               b == IF j < k THEN j ELSE j + 1
    <2>1. p[i] = s[a] /\ p[j] = s[b] /\ a \in 1 .. m /\ b \in 1 .. m
      BY <1>1
    <2>2. a = b
      <3>1. \A x, y \in 1 .. m : s[x] = s[y] => x = y
        BY DEF Chain
      <3>2. s[a] = s[b]
        BY <2>1
      <3> HIDE DEF a, b
      <3> QED BY <2>1, <3>1, <3>2
    <2> QED BY <2>2
  <1> QED BY <1>7, <1>8, <1>10, <1>11 DEF Chain, K, p

(* Neither touches a list whose nodes are others.                          *)
LEMMA ListFrame ==
  ASSUME NEW L \in HeapType(Bucket, Thread), NEW l \in Bucket, NEW x \in Bucket, x # l,
         NEW m \in Nat, NEW s, Chain(L, l, m, s),
         NEW r \in Nat, NEW u, Chain(L, x, r, u),
         \A i \in 1 .. m, j \in 1 .. r : s[i] # u[j]
  PROVE  /\ \A n \in Thread : (\A j \in 1 .. r : u[j] # n) => Chain(ListAdd(L, l, n), x, r, u)
         /\ \A k \in 1 .. m : Chain(ListRemove(L, l, s[k]), x, r, u)
  <1>0. Null \notin Thread
    BY FutexAssumption
  <1>1. ASSUME NEW n \in Thread, \A j \in 1 .. r : u[j] # n
        PROVE  Chain(ListAdd(L, l, n), x, r, u)
    <2> DEFINE K == ListAdd(L, l, n)
    <2>1. L.tail[l] = Null \/ \A j \in 1 .. r : u[j] # L.tail[l]
      BY DEF Chain
    <2>2. K.head[x] = L.head[x] /\ K.tail[x] = L.tail[x]
      BY DEF ListAdd, HeapType
    <2>3. \A j \in 1 .. r : K.next[u[j]] = L.next[u[j]] /\ K.prev[u[j]] = L.prev[u[j]]
      <3> SUFFICES ASSUME NEW j \in 1 .. r
                   PROVE  K.next[u[j]] = L.next[u[j]] /\ K.prev[u[j]] = L.prev[u[j]]
        OBVIOUS
      <3>1. u[j] \in Thread /\ u[j] # n /\ (L.tail[l] = Null \/ u[j] # L.tail[l])
        BY <1>1, <2>1 DEF Chain
      <3> QED BY <3>1 DEF ListAdd, HeapType
    <2> HIDE DEF K
    <2>4. Chain(K, x, r, u)
      BY <2>2, <2>3 DEF Chain
    <2> QED BY <2>4 DEF K
  <1>2. ASSUME NEW k \in 1 .. m PROVE Chain(ListRemove(L, l, s[k]), x, r, u)
    <2> DEFINE n == s[k]
               K == ListRemove(L, l, n)
    <2>1. /\ L.next[n] = Null \/ \A j \in 1 .. r : u[j] # L.next[n]
          /\ L.prev[n] = Null \/ \A j \in 1 .. r : u[j] # L.prev[n]
      BY DEF Chain
    <2>2. K.head[x] = L.head[x] /\ K.tail[x] = L.tail[x]
      BY DEF ListRemove, HeapType
    <2>3. \A j \in 1 .. r : K.next[u[j]] = L.next[u[j]] /\ K.prev[u[j]] = L.prev[u[j]]
      <3> SUFFICES ASSUME NEW j \in 1 .. r
                   PROVE  K.next[u[j]] = L.next[u[j]] /\ K.prev[u[j]] = L.prev[u[j]]
        OBVIOUS
      <3>1. /\ u[j] \in Thread
            /\ L.next[n] = Null \/ u[j] # L.next[n]
            /\ L.prev[n] = Null \/ u[j] # L.prev[n]
        BY <2>1 DEF Chain
      <3> HIDE DEF n
      <3> QED BY <3>1 DEF ListRemove, HeapType
    <2> HIDE DEF K
    <2>4. Chain(K, x, r, u)
      BY <2>2, <2>3 DEF Chain
    <2> QED BY <2>4 DEF K
  <1> QED BY <1>1, <1>2

(* A chain has at most as many nodes as there are threads, and Walk visits *)
(* them in order: the walk is defined by recursion, so it is compared with *)
(* the chain at the least position where the two would differ.             *)
LEMMA WalkChain ==
  ASSUME NEW L \in HeapType(Bucket, Thread), NEW l \in Bucket,
         NEW m \in Nat, NEW s, Chain(L, l, m, s)
  PROVE  Walk(L, l) = [i \in 1 .. m |-> s[i]]
  <1> DEFINE n == Cardinality(DOMAIN L.next)
             f == [i \in 1 .. m |-> s[i]]
             e == [i \in 0 .. n |-> IF i < m THEN s[i + 1] ELSE Null]
             w == CHOOSE g : g = [i \in 0 .. n |-> IF i = 0 THEN L.head[l]
                                    ELSE IF g[i - 1] = Null THEN Null ELSE L.next[g[i - 1]]]
  <1>0. Null \notin Thread /\ IsFiniteSet(Thread)
    BY FutexAssumption
  <1>1. n \in Nat /\ DOMAIN L.next = Thread
    BY <1>0, FS_CardinalityType DEF HeapType
  <1>2. \A i \in 1 .. m : s[i] \in Thread
    BY DEF Chain
  <1>3. m <= n
    <2>1. f \in Injection(1 .. m, Thread)
      <3>1. \A x, y \in 1 .. m : s[x] = s[y] => x = y
        BY DEF Chain
      <3>2. f \in [1 .. m -> Thread] /\ \A x \in 1 .. m : f[x] = s[x]
        BY <1>2
      <3> HIDE DEF f
      <3> QED BY <3>1, <3>2 DEF Injection, IsInjective
    <2>2. Cardinality(1 .. m) <= Cardinality(Thread)
      BY <1>0, <2>1, FS_Injection
    <2>3. Cardinality(1 .. m) = m
      BY FS_Interval
    <2> QED BY <1>1, <2>2, <2>3
  <1>4. e = [i \in 0 .. n |-> IF i = 0 THEN L.head[l]
                              ELSE IF e[i - 1] = Null THEN Null ELSE L.next[e[i - 1]]]
    <2> HIDE DEF n
    <2> SUFFICES ASSUME NEW i \in 0 .. n
                 PROVE  e[i] = IF i = 0 THEN L.head[l]
                               ELSE IF e[i - 1] = Null THEN Null ELSE L.next[e[i - 1]]
      OBVIOUS
    <2>1. CASE i = 0
      BY <1>1, <2>1 DEF Chain
    <2>2. CASE i # 0
      <3>1. i \in Nat /\ i - 1 \in 0 .. n /\ e[i - 1] = IF i - 1 < m THEN s[i] ELSE Null
        BY <1>1, <2>2
      <3>2. CASE i - 1 < m
        <4>1. i \in 1 .. m /\ s[i] # Null
          BY <1>0, <1>2, <3>1, <3>2, <2>2
        <4>2. L.next[s[i]] = IF i = m THEN Null ELSE s[i + 1]
          BY <4>1 DEF Chain
        <4> QED BY <1>1, <2>2, <3>1, <3>2, <4>1, <4>2
      <3>3. CASE ~(i - 1 < m)
        BY <1>1, <2>2, <3>1, <3>3
      <3> QED BY <3>2, <3>3
    <2> QED BY <2>1, <2>2
  <1>5. w = [i \in 0 .. n |-> IF i = 0 THEN L.head[l]
                              ELSE IF w[i - 1] = Null THEN Null ELSE L.next[w[i - 1]]]
    <2>1. \E g : g = [i \in 0 .. n |-> IF i = 0 THEN L.head[l]
                       ELSE IF g[i - 1] = Null THEN Null ELSE L.next[g[i - 1]]]
      <3> HIDE DEF e, n
      <3> QED BY <1>4
    <2> HIDE DEF n
    <2> QED BY <2>1
  <1>6. Walk(L, l) = [i \in 1 .. Cardinality({i \in 0 .. (n - 1) : w[i] # Null}) |-> w[i - 1]]
    BY DEF Walk
  <1> HIDE DEF w, e, n
  <1>7. \A i \in 0 .. n : w[i] = IF i < m THEN s[i + 1] ELSE Null
    <2> DEFINE D == {i \in 0 .. n : w[i] # e[i]}
    <2>1. \A i \in 0 .. n : e[i] = IF i < m THEN s[i + 1] ELSE Null
      BY DEF e
    <2>2. ASSUME D # {} PROVE FALSE
      <3>0. D \in SUBSET Nat
        BY <1>1
      <3>1. PICK i \in D : \A j \in D : i <= j
        <4> HIDE DEF D
        <4> QED BY <2>2, <3>0, LeastNat
      <3>2. CASE i = 0
        BY <1>1, <1>4, <1>5, <3>1, <3>2
      <3>3. CASE i # 0
        <4>1. i \in 0 .. n /\ i - 1 \in 0 .. n /\ w[i - 1] = e[i - 1]
          BY <1>1, <3>1, <3>3
        <4> QED BY <1>4, <1>5, <3>1, <3>3, <4>1
      <3> QED BY <3>2, <3>3
    <2> QED BY <2>1, <2>2
  <1>8. {i \in 0 .. (n - 1) : w[i] # Null} = 0 .. (m - 1)
    <2>1. \A i \in 0 .. (n - 1) : w[i] # Null <=> i < m
      <3> SUFFICES ASSUME NEW i \in 0 .. (n - 1) PROVE w[i] # Null <=> i < m
        OBVIOUS
      <3>1. i \in 0 .. n /\ (i < m => i + 1 \in 1 .. m)
        BY <1>1
      <3> QED BY <1>0, <1>2, <1>7, <3>1
    <2> QED BY <1>1, <1>3, <2>1
  <1>9. Cardinality(0 .. (m - 1)) = m
    BY FS_Interval
  <1>10. \A i \in 1 .. m : w[i - 1] = s[i]
    <2> SUFFICES ASSUME NEW i \in 1 .. m PROVE w[i - 1] = s[i]
      OBVIOUS
    <2>1. i - 1 \in 0 .. n /\ i - 1 < m /\ (i - 1) + 1 = i
      BY <1>1, <1>3
    <2> QED BY <1>7, <2>1
  <1> QED BY <1>6, <1>8, <1>9, <1>10

(* A chain is a proper list of its nodes.                                  *)
LEMMA ProperChain ==
  ASSUME NEW L, NEW l, NEW m \in Nat, NEW s, Chain(L, l, m, s),
         NEW S, S = {s[i] : i \in 1 .. m}
  PROVE  ProperList(L, l, S)
  <1>0. Null \notin Thread
    BY FutexAssumption
  <1>1. \A i \in 1 .. m : s[i] \in S /\ s[i] # Null
    BY <1>0 DEF Chain
  <1>2. \A n \in S : \E i \in 1 .. m : n = s[i]
    OBVIOUS
  <1>3. CASE m = 0
    BY <1>2, <1>3 DEF Chain, ProperList
  <1>4. CASE m # 0
    <2>1. L.head[l] = s[1] /\ L.tail[l] = s[m] /\ 1 \in 1 .. m /\ m \in 1 .. m
      BY <1>4 DEF Chain
    <2>2. \A x, y \in 1 .. m : s[x] = s[y] => x = y
      BY DEF Chain
    <2>3. ASSUME NEW n \in S
          PROVE  /\ L.next[n] # Null => L.next[n] \in S /\ L.prev[L.next[n]] = n
                 /\ L.prev[n] # Null => L.prev[n] \in S /\ L.next[L.prev[n]] = n
                 /\ (L.prev[n] = Null) <=> (L.head[l] = n)
                 /\ (L.next[n] = Null) <=> (L.tail[l] = n)
      <3>1. PICK i \in 1 .. m : n = s[i]
        BY <1>2
      <3>2. /\ L.next[n] = (IF i = m THEN Null ELSE s[i + 1])
            /\ L.prev[n] = IF i = 1 THEN Null ELSE s[i - 1]
        BY <3>1 DEF Chain
      <3>3. i # m => /\ i + 1 \in 1 .. m /\ L.prev[s[i + 1]] = s[i]
        BY DEF Chain
      <3>4. i # 1 => /\ i - 1 \in 1 .. m /\ L.next[s[i - 1]] = s[i]
        BY DEF Chain
      <3>5. (L.prev[n] = Null) <=> (L.head[l] = n)
        BY <1>1, <2>1, <2>2, <3>1, <3>2, <3>4
      <3>6. (L.next[n] = Null) <=> (L.tail[l] = n)
        BY <1>1, <2>1, <2>2, <3>1, <3>2, <3>3
      <3> QED BY <1>1, <3>1, <3>2, <3>3, <3>4, <3>5, <3>6
    <2>4. L.head[l] \in S /\ L.tail[l] \in S /\ L.head[l] # Null /\ L.tail[l] # Null
      BY <1>1, <2>1
    <2> QED BY <2>3, <2>4 DEF ProperList
  <1> QED BY <1>3, <1>4

-----------------------------------------------------------------------------
(* T has the words on which waits may time out, and no requeue takes a     *)
(* block from one of them to another bucket.  (futex_wait looks for its    *)
(* block in the bucket it put it in: see AbortRemovesUs.)                  *)
TimedWordsStay(T) ==
  \A t \in Thread : \A c \in Calls[t] :
    /\ c.op = "wait" /\ c.abortable => c.addr \in T
    /\ c.op = "requeue" /\ c.addr \in T => c.addr2 \in T /\ Hash[c.addr2] = Hash[c.addr]

(* Where a block may be linked, and where a thread has given up waiting.   *)
InWait  == {"wait_unlock", "blocked", "abort_lock", "abort_recheck", "abort_remove"}
Aborted == {"abort_lock", "abort_recheck", "abort_remove", "abort_unlock"}

(* A wait that may be aborted stays in its bucket.                         *)
HomeInv(T) ==
  \A t \in Thread :
    /\ pc[t] \in Aborted => call[t].abortable
    /\ pc[t] \in InWait /\ call[t].abortable => waddr[t] \in T /\ Hash[waddr[t]] = Bucket1(t)

(* What a block that was taken out of its list is up to.                   *)
BlockInv ==
  /\ NoStaleWake
  /\ \A t \in Thread : pc[t] = "abort_remove" => ~event[t] /\ ~Notifying(t)
  /\ \A w \in Thread : cur[w] # Null =>
       /\ pc[cur[w]] \in {"wait_unlock", "blocked", "abort_lock"}
       /\ ~event[cur[w]] /\ waddr[cur[w]] = call[w].addr

(* The list of each bucket is the chain of its members, and a walk has got *)
(* to some place of it, past blocks of other words (or, having woken all   *)
(* it should, past blocks it requeued to the word they were on).           *)
SameWord(w) == Requeues(w) /\ EnoughWoken(w) /\ call[w].addr2 = call[w].addr
Scanned(w, k, s) ==
  /\ prev[w] = IF k = 0 THEN Null ELSE s[k]
  /\ \A i \in 1 .. k : waddr[s[i]] # call[w].addr \/ SameWord(w)
Has(len, q, b, u) == \E i \in 1 .. len[b] : q[b][i] = u
Chains(L, len, q) ==
  /\ \A b \in Bucket : len[b] \in Nat /\ Chain(L, b, len[b], q[b])
  /\ \A b, c \in Bucket, u \in Thread : Has(len, q, b, u) /\ Has(len, q, c, u) => b = c
Orders(len, q) ==
  /\ Chains(list, len, q)
  /\ \A b \in Bucket, u \in Thread : Has(len, q, b, u) <=> Linked(u) /\ Hash[waddr[u]] = b
  /\ \A w \in Thread : pc[w] \in {"walk", "notify"} =>
       \E k \in 0 .. len[Bucket1(w)] : Scanned(w, k, q[Bucket1(w)])
ListInv == \E len, q : Orders(len, q)

(* A walk starts at the head with nobody woken, and wakes as many as asked.*)
CountInv ==
  \A w \in Thread :
    /\ pc[w] \in {"wake_lock2", "wake_compare"} => prev[w] = Null /\ woken[w] = 0
    /\ pc[w] = "walk" => woken[w] <= call[w].count
    /\ pc[w] = "notify" => woken[w] < call[w].count

Inv(T) == /\ TypeInv /\ BucketExclusion /\ HomeInv(T) /\ BlockInv
          /\ CountInv /\ ListInv /\ WakeComplete

-----------------------------------------------------------------------------
(* Where a thread is inside its buckets.                                   *)
LEMMA Held ==
  ASSUME NEW t \in Thread
  PROVE  /\ pc[t] \in {"wait_add", "abort_recheck", "abort_remove", "walk", "notify", "wake_unlock1"} =>
              Holds(t, Bucket1(t))
         /\ pc[t] \in {"walk", "notify", "wake_unlock1"} /\ TwoBuckets(t) => Holds(t, Bucket2(t))
  BY DEF Holds, HoldsBoth

(* What the loop of futex_wake_requeue looks at is a waiter of its bucket, *)
(* next in the chain, which is not in the middle of an abort.              *)
LEMMA LookingAt ==
  ASSUME NEW T, Inv(T), NEW t \in Thread, NEW n \in Thread, Looking(t, n),
         NEW len, NEW q, Orders(len, q)
  PROVE  /\ Bucket1(t) \in Bucket /\ len[Bucket1(t)] \in Nat
         /\ \E k \in 0 .. len[Bucket1(t)] - 1 :
              Scanned(t, k, q[Bucket1(t)]) /\ q[Bucket1(t)][k + 1] = n
         /\ Linked(n) /\ Hash[waddr[n]] = Bucket1(t)
         /\ pc[n] \in {"wait_unlock", "blocked", "abort_lock"}
  <1> DEFINE b == Bucket1(t)
             m == len[b]
             s == q[b]
  <1>0. Null \notin Thread /\ pc[t] = "walk"
    BY FutexAssumption DEF Looking
  <1>1. b \in Bucket
    BY <1>0, CallInProgress DEF Inv, WakePC
  <1> HIDE DEF b
  <1>2. m \in Nat /\ Chain(list, b, m, s)
    BY <1>1 DEF Orders, Chains
  <1>3. PICK k \in 0 .. m : Scanned(t, k, s)
    BY <1>0 DEF Orders, b
  <1> HIDE DEF m, s
  <1>4. k + 1 \in 1 .. m /\ s[k + 1] = n
    <2>1. n = IF prev[t] = Null THEN list.head[b] ELSE list.next[prev[t]]
      BY DEF Looking, NextBlock, b
    <2>2. CASE k = 0
      BY <1>0, <1>2, <2>1, <2>2, <1>3 DEF Scanned, Chain
    <2>3. CASE k # 0
      <3>1. prev[t] = s[k] /\ k \in 1 .. m /\ s[k] \in Thread
        BY <1>2, <1>3, <2>3 DEF Scanned, Chain
      <3>2. n = IF k = m THEN Null ELSE s[k + 1]
        BY <1>0, <1>2, <2>1, <3>1 DEF Chain
      <3> QED BY <1>0, <1>2, <3>1, <3>2
    <2> QED BY <2>2, <2>3
  <1>5. Linked(n) /\ Hash[waddr[n]] = b
    BY <1>1, <1>4 DEF Orders, Has, m, s
  <1>6. pc[n] \in {"wait_unlock", "blocked", "abort_lock"}
    <2> SUFFICES ASSUME pc[n] \in {"abort_recheck", "abort_remove"} PROVE FALSE
      BY <1>5 DEF Linked
    <2>1. Bucket1(n) = b
      BY <1>5 DEF Inv, HomeInv, Aborted, InWait
    <2>2. Holds(n, b) /\ Holds(t, b)
      BY <1>0, <2>1, Held DEF b
    <2> QED BY <1>0, <1>1, <2>2 DEF Inv, BucketExclusion
  <1> QED BY <1>1, <1>2, <1>3, <1>4, <1>5, <1>6 DEF b, m, s

(* A thread's step leaves the others where they are.                       *)
Others(t) == \A u \in Thread : u # t =>
  /\ pc'[u] = pc[u] /\ call'[u] = call[u]
  /\ prev'[u] = prev[u] /\ cur'[u] = cur[u] /\ woken'[u] = woken[u]

(* A step of futex_wait leaves the others where they are.                  *)
LEMMA OthersWait ==
  ASSUME TypeInv, NEW t \in Thread, Wait(t) \/ WaitAborted(t)
  PROVE  Others(t) /\ call' = call /\ prev' = prev /\ cur' = cur
  BY DEF Wait, WaitLock, WaitCompare, WaitChanged, WaitUnlock, WaitAdd, WaitWoken, WaitAborted, AbortLock,
         AbortRecheck, AbortRemove, AbortUnlock, Goto, Return, Others, TypeInv, TypeOK

(* A step of futex_wake_requeue leaves the others where they are.          *)
LEMMA OthersWake ==
  ASSUME TypeInv, NEW t \in Thread, Wake(t)
  PROVE  Others(t) /\ call' = call
  <1> USE DEF Goto, Return, Others, TypeInv, TypeOK
  <1>1. \A u \in Thread : u # t => pc'[u] = pc[u] /\ call'[u] = call[u]
    BY DEF Wake, Looking, WakeLock1, WakeLock2, WakeCompare, Eagain1, Eagain2, WalkEnd, WalkSkip,
           WalkRequeue, WalkUnlink, Notify, WakeUnlock1, WakeUnlock2
  <1>2. \A u \in Thread : u # t => prev'[u] = prev[u]
    BY DEF Wake, Looking, WakeLock1, WakeLock2, WakeCompare, Eagain1, Eagain2, WalkEnd, WalkSkip,
           WalkRequeue, WalkUnlink, Notify, WakeUnlock1, WakeUnlock2
  <1>3. \A u \in Thread : u # t => cur'[u] = cur[u]
    BY DEF Wake, Looking, WakeLock1, WakeLock2, WakeCompare, Eagain1, Eagain2, WalkEnd, WalkSkip,
           WalkRequeue, WalkUnlink, Notify, WakeUnlock1, WakeUnlock2
  <1>4. call' = call /\ \A u \in Thread : u # t => woken'[u] = woken[u]
    BY DEF Wake, Looking, WakeLock1, WakeLock2, WakeCompare, Eagain1, Eagain2, WalkEnd, WalkSkip,
           WalkRequeue, WalkUnlink, Notify, WakeUnlock1, WakeUnlock2
  <1> QED BY <1>1, <1>2, <1>3, <1>4

(* A wait that may be aborted is on a timed word.                          *)
LEMMA TimedWord ==
  ASSUME NEW T, TimedWordsStay(T), TypeInv, NEW t \in Thread, pc[t] \in WaitPC, call[t].abortable
  PROVE  call[t].addr \in T
  BY DEF TimedWordsStay, TypeInv, CallOK

(* Blocks stay home in the steps of futex_wait, ...                        *)
LEMMA HomeWait ==
  ASSUME NEW T, TimedWordsStay(T), Inv(T), NEW t \in Thread, Wait(t) \/ WaitAborted(t)
  PROVE  HomeInv(T)'
  <1> USE DEF Goto, Return
  <1>0. /\ call' = call /\ pc \in [Thread -> ThreadPC] /\ waddr \in [Thread -> Addr]
        /\ \A u \in Thread : u # t => pc'[u] = pc[u]
    BY OthersWait DEF Others, Inv, TypeInv, TypeOK
  <1>1. CASE WaitAdd(t)
    <2>1. waddr' = [waddr EXCEPT ![t] = call[t].addr] /\ pc[t] = "wait_add" /\ pc'[t] = "wait_unlock"
      BY <1>0, <1>1 DEF WaitAdd
    <2>2. call[t].abortable => call[t].addr \in T
      BY <2>1, TimedWord DEF Inv, WaitPC
    <2> QED BY <1>0, <2>1, <2>2 DEF Inv, HomeInv, InWait, Aborted, Bucket1
  <1>2. CASE WaitAborted(t)
    BY <1>0, <1>2 DEF WaitAborted, Inv, HomeInv, InWait, Aborted, Bucket1
  <1>3. ASSUME Wait(t), ~WaitAdd(t) PROVE HomeInv(T)'
    <2>1. waddr' = waddr
      BY <1>3 DEF Wait, WaitLock, WaitCompare, WaitChanged, WaitUnlock, WaitWoken, AbortLock, AbortRecheck,
                  AbortRemove, AbortUnlock
    <2>2. /\ pc'[t] \in Aborted => pc[t] \in Aborted
          /\ pc'[t] \in InWait => pc[t] \in InWait
      BY <1>0, <1>3 DEF Wait, WaitLock, WaitCompare, WaitChanged, WaitUnlock, WaitWoken, AbortLock,
                        AbortRecheck, AbortRemove, AbortUnlock, Aborted, InWait
    <2> QED BY <1>0, <2>1, <2>2 DEF Inv, HomeInv, Bucket1
  <1> QED BY <1>1, <1>2, <1>3

(* ... and in those of futex_wake_requeue.                                 *)
LEMMA HomeWake ==
  ASSUME NEW T, TimedWordsStay(T), Inv(T), NEW t \in Thread, Wake(t)
  PROVE  HomeInv(T)'
  <1>0. /\ call' = call /\ waddr \in [Thread -> Addr]
        /\ \A u \in Thread : u # t => pc'[u] = pc[u]
    BY OthersWake DEF Others, Inv, TypeInv, TypeOK
  <1>1. pc'[t] \notin InWait \cup Aborted
    BY DEF Wake, Looking, WakeLock1, WakeLock2, WakeCompare, Eagain1, Eagain2, WalkEnd, WalkSkip, Locked,
           WalkRequeue, WalkUnlink, Notify, WakeUnlock1, WakeUnlock2, Goto, Return, InWait, Aborted,
           Inv, TypeInv, TypeOK
  <1>2. CASE waddr' = waddr
    BY <1>0, <1>1, <1>2 DEF Inv, HomeInv, Bucket1
  <1>3. CASE WalkRequeue(t)
    <2>1. PICK n \in Thread : WalkRequeue(t)!(n)
      BY <1>3 DEF WalkRequeue
    <2>2. waddr' = [waddr EXCEPT ![n] = call[t].addr2] /\ waddr[n] = call[t].addr /\ Requeues(t)
      BY <2>1
    <2>3. call[t] \in Calls[t] /\ call[t].op = "requeue"
      BY <2>1, <2>2 DEF Looking, Requeues, Inv, TypeInv, CallOK, WakePC
    <2>4. waddr[n] \in T => waddr'[n] \in T /\ Hash[waddr'[n]] = Hash[waddr[n]]
      BY <1>0, <2>2, <2>3 DEF TimedWordsStay
    <2>5. \A u \in Thread : u # n => waddr'[u] = waddr[u]
      BY <1>0, <2>2
    <2> QED BY <1>0, <1>1, <2>4, <2>5 DEF Inv, HomeInv, Bucket1
  <1>4. waddr' = waddr \/ WalkRequeue(t)
    BY DEF Wake, WakeLock1, WakeLock2, WakeCompare, Eagain1, Eagain2, WalkEnd, WalkSkip,
           WalkUnlink, Notify, WakeUnlock1, WakeUnlock2
  <1> QED BY <1>2, <1>3, <1>4

(* Every step of futex_wait keeps what holds of unlinked blocks: a thread  *)
(* cannot take the bucket of a waker that is about to notify it, ...       *)
LEMMA BlockWait ==
  ASSUME NEW T, Inv(T), NEW t \in Thread, Wait(t) \/ WaitAborted(t)
  PROVE  BlockInv'
  <1> USE DEF Goto, Return
  <1>0. /\ call' = call /\ cur' = cur
        /\ pc \in [Thread -> ThreadPC] /\ waddr \in [Thread -> Addr] /\ event \in [Thread -> BOOLEAN]
        /\ spin \in [Bucket -> BOOLEAN] /\ cur \in [Thread -> Thread \cup {Null}]
        /\ \A u \in Thread : u # t => pc'[u] = pc[u]
    BY OthersWait DEF Others, Inv, TypeInv, TypeOK
  <1>1. /\ \A u \in Thread : event'[u] => event[u]
        /\ \A u \in Thread : u # t => event'[u] = event[u] /\ waddr'[u] = waddr[u]
    BY <1>0 DEF Wait, WaitLock, WaitCompare, WaitChanged, WaitUnlock, WaitAdd, WaitWoken, WaitAborted, AbortLock,
                AbortRecheck, AbortRemove, AbortUnlock
  <1>2. NoStaleWake'
    <2>1. event'[t] => pc'[t] \in {"wait_unlock", "blocked", "abort_lock", "abort_recheck"}
      BY <1>0 DEF Inv, BlockInv, NoStaleWake, Wait, WaitLock, WaitCompare, WaitChanged, WaitUnlock, WaitAdd,
                  WaitWoken, WaitAborted, AbortLock, AbortRecheck, AbortRemove, AbortUnlock
    <2> QED BY <1>0, <1>1, <2>1 DEF Inv, BlockInv, NoStaleWake
  <1>3. \A u \in Thread : pc'[u] = "abort_remove" => ~event'[u] /\ ~Notifying(u)'
    <2>1. \A u \in Thread : Notifying(u)' <=> Notifying(u)
      BY <1>0 DEF Notifying
    <2>2. pc'[t] = "abort_remove" => pc[t] = "abort_recheck" /\ ~event'[t]
      BY <1>0 DEF Wait, WaitLock, WaitCompare, WaitChanged, WaitUnlock, WaitAdd, WaitWoken, WaitAborted, AbortLock,
                  AbortRecheck, AbortRemove, AbortUnlock
    <2>3. pc[t] = "abort_recheck" => ~Notifying(t)
      BY <1>0, FutexAssumption DEF Notifying, Inv, BlockInv
    <2> QED BY <1>0, <1>1, <2>1, <2>2, <2>3 DEF Inv, BlockInv
  <1>4. ASSUME NEW w \in Thread, cur'[w] # Null
        PROVE  /\ pc'[cur'[w]] \in {"wait_unlock", "blocked", "abort_lock"}
               /\ ~event'[cur'[w]] /\ waddr'[cur'[w]] = call'[w].addr
    <2>1. /\ cur'[w] = cur[w] /\ cur[w] \in Thread /\ pc[w] = "notify"
          /\ pc[cur[w]] \in {"wait_unlock", "blocked", "abort_lock"}
          /\ ~event[cur[w]] /\ waddr[cur[w]] = call[w].addr
      BY <1>0, <1>4 DEF Inv, BlockInv, TypeInv, CallOK
    <2>2. CASE cur[w] # t
      BY <1>0, <1>1, <2>1, <2>2
    <2>3. CASE cur[w] = t
      <3>1. ~AbortLock(t)
        <4> SUFFICES ASSUME AbortLock(t) PROVE FALSE
          OBVIOUS
        <4>1. pc[t] = "abort_lock" /\ ~spin[Bucket1(t)]
          BY DEF AbortLock, Lock
        <4>2. Bucket1(t) = Bucket1(w)
          BY <2>1, <2>3, <4>1 DEF Inv, HomeInv, InWait, Aborted, Bucket1
        <4>3. Holds(w, Bucket1(w)) /\ Bucket1(w) \in Bucket
          BY <2>1, Held, CallInProgress DEF Inv, WakePC
        <4> QED BY <4>1, <4>2, <4>3 DEF Inv, BucketExclusion
      <3>2. WaitUnlock(t) \/ WaitAborted(t)
        BY <2>1, <2>3, <3>1 DEF Wait, WaitLock, WaitCompare, WaitChanged, WaitAdd, WaitWoken,
                  AbortLock, AbortRecheck, AbortRemove, AbortUnlock
      <3>3. pc'[t] \in {"wait_unlock", "blocked", "abort_lock"} /\ waddr' = waddr /\ event' = event
        BY <1>0, <3>2 DEF WaitUnlock, WaitAborted
      <3> QED BY <1>0, <2>1, <2>3, <3>3
    <2> QED BY <2>2, <2>3
  <1> QED BY <1>2, <1>3, <1>4, Zenon DEF BlockInv

(* ... and so does every step of futex_wake_requeue.                       *)
LEMMA BlockWake ==
  ASSUME NEW T, Inv(T), NEW t \in Thread, Wake(t)
  PROVE  BlockInv'
  <1> USE DEF Goto, Return
  <1>a. Null \notin Thread
    BY FutexAssumption
  <1>0. /\ call' = call
        /\ pc \in [Thread -> ThreadPC] /\ waddr \in [Thread -> Addr] /\ event \in [Thread -> BOOLEAN]
        /\ cur \in [Thread -> Thread \cup {Null}]
        /\ \A u \in Thread : u # t => pc'[u] = pc[u] /\ cur'[u] = cur[u]
    BY OthersWake DEF Others, Inv, TypeInv, TypeOK
  <1>1. pc'[t] \notin WaitPC /\ pc[t] \notin WaitPC /\ ~event[t]
    <2>1. pc[t] \notin WaitPC /\ pc'[t] \notin WaitPC
      BY <1>0 DEF Wake, Looking, WakeLock1, WakeLock2, WakeCompare, Eagain1, Eagain2, WalkEnd, WalkSkip, Locked,
             WalkRequeue, WalkUnlink, Notify, WakeUnlock1, WakeUnlock2, WaitPC
    <2> QED BY <2>1 DEF Inv, BlockInv, NoStaleWake, WaitPC
  <1>2. ASSUME Notify(t), NEW c, c = cur[t]
        PROVE  /\ c \in Thread /\ c # t /\ pc[t] = "notify" /\ ~event[c]
               /\ pc[c] \in {"wait_unlock", "blocked", "abort_lock"} /\ waddr[c] = call[t].addr
               /\ event'[c] /\ (\A u \in Thread : u # c => event'[u] = event[u])
               /\ waddr' = waddr /\ cur'[t] = Null
    <2>1. cur[t] # Null /\ pc[t] = "notify"
      BY <1>2 DEF Notify, Inv, TypeInv, CallOK
    <2>2. c \in Thread /\ ~event[c] /\ pc[c] \in {"wait_unlock", "blocked", "abort_lock"} /\ waddr[c] = call[t].addr
      BY <1>0, <1>2, <2>1 DEF Inv, BlockInv
    <2>3. /\ event'[c] /\ (\A u \in Thread : u # c => event'[u] = event[u])
          /\ waddr' = waddr /\ cur'[t] = Null
      BY <1>0, <1>2, <2>2 DEF Notify
    <2> QED BY <1>0, <2>1, <2>2, <2>3
  <1>3. ASSUME WalkUnlink(t)
        PROVE  \E n \in Thread : /\ Linked(n) /\ n # t /\ waddr[n] = call[t].addr /\ cur'[t] = n
                                 /\ pc[n] \in {"wait_unlock", "blocked", "abort_lock"}
                                 /\ event' = event /\ waddr' = waddr
    <2>1. PICK n \in Thread : WalkUnlink(t)!(n)
      BY <1>3 DEF WalkUnlink
    <2>2. PICK len, q : Orders(len, q)
      BY DEF Inv, ListInv
    <2>3. Linked(n) /\ pc[n] \in {"wait_unlock", "blocked", "abort_lock"}
      BY <2>1, <2>2, LookingAt
    <2> QED BY <1>0, <1>1, <2>1, <2>3 DEF WaitPC
  <1>4. ASSUME WalkRequeue(t)
        PROVE  \E n \in Thread : /\ Linked(n) /\ event' = event /\ cur' = cur
                                 /\ \A u \in Thread : u # n => waddr'[u] = waddr[u]
    <2>1. PICK n \in Thread : WalkRequeue(t)!(n)
      BY <1>4 DEF WalkRequeue
    <2>2. PICK len, q : Orders(len, q)
      BY DEF Inv, ListInv
    <2>3. Linked(n)
      BY <2>1, <2>2, LookingAt
    <2> QED BY <1>0, <2>1, <2>3
  <1>5. Notify(t) \/ WalkUnlink(t) \/ WalkRequeue(t) \/ (event' = event /\ waddr' = waddr /\ cur' = cur /\ pc[t] # "notify")
    BY DEF Wake, WakeLock1, WakeLock2, WakeCompare, Eagain1, Eagain2, WalkEnd, WalkSkip, WakeUnlock1, WakeUnlock2,
           Looking
  <1>6. NoStaleWake'
    <2>1. \A u \in Thread : event'[u] => u # t /\ pc[u] \in {"wait_unlock", "blocked", "abort_lock", "abort_recheck"}
      BY <1>0, <1>1, <1>2, <1>3, <1>4, <1>5 DEF Inv, BlockInv, NoStaleWake
    <2> QED BY <1>0, <2>1 DEF NoStaleWake
  <1>7. ASSUME NEW u \in Thread, pc'[u] = "abort_remove"
        PROVE  ~event'[u] /\ ~Notifying(u)'
    <2>1. u # t /\ pc[u] = "abort_remove" /\ ~event[u] /\ ~Notifying(u)
      BY <1>0, <1>1, <1>7 DEF WaitPC, Inv, BlockInv
    <2>2. \A w \in Thread : cur[w] # u
      BY <2>1 DEF Notifying
    <2>3. ~event'[u] /\ \A w \in Thread : cur'[w] # u
      BY <1>a, <1>0, <1>2, <1>3, <1>4, <1>5, <2>1, <2>2
    <2> QED BY <2>3 DEF Notifying
  <1>8. ASSUME NEW w \in Thread, cur'[w] # Null
        PROVE  /\ pc'[cur'[w]] \in {"wait_unlock", "blocked", "abort_lock"}
               /\ ~event'[cur'[w]] /\ waddr'[cur'[w]] = call'[w].addr
    <2>1. CASE w = t
      <3>1. ~Notify(t)
        BY <1>8, <1>2, <2>1
      <3>2. ~(pc[t] # "notify" /\ cur' = cur)
        BY <1>8, <2>1 DEF Inv, TypeInv, CallOK
      <3>3. ~WalkRequeue(t)
        BY <1>4, <3>2, <1>0 DEF WalkRequeue, Looking
      <3>4. WalkUnlink(t)
        BY <1>5, <3>1, <3>2, <3>3
      <3> QED BY <1>0, <1>3, <2>1, <3>4 DEF Linked
    <2>2. CASE w # t
      <3> DEFINE c == cur[w]
      <3>1. cur'[w] = c /\ c \in Thread /\ c # Null
        BY <1>0, <1>8, <2>2
      <3>2. /\ pc[w] = "notify" /\ pc[c] \in {"wait_unlock", "blocked", "abort_lock"}
            /\ ~event[c] /\ waddr[c] = call[w].addr
        BY <3>1 DEF Inv, BlockInv, TypeInv, CallOK
      <3>3. c # t /\ pc'[c] = pc[c] /\ Notifying(c)
        BY <1>0, <1>1, <3>1, <3>2 DEF WaitPC, Notifying
      <3>4. Notify(t) => cur[t] # c
        <4> SUFFICES ASSUME Notify(t), cur[t] = c PROVE FALSE
          OBVIOUS
        <4>1. pc[t] = "notify" /\ waddr[c] = call[t].addr
          BY <1>2, Zenon
        <4>2. Bucket1(t) = Bucket1(w) /\ Bucket1(t) \in Bucket
          BY <3>2, <4>1, CallInProgress DEF Inv, WakePC, Bucket1
        <4>3. Holds(t, Bucket1(t)) /\ Holds(w, Bucket1(w))
          BY <3>2, <4>1, Held
        <4> QED BY <2>2, <4>2, <4>3 DEF Inv, BucketExclusion
      <3>5. event'[c] = event[c] /\ waddr'[c] = waddr[c]
        <4>1. CASE Notify(t)
          BY <1>2, <3>1, <3>4, <4>1
        <4>2. CASE WalkRequeue(t)
          BY <1>4, <3>1, <3>3, <4>2 DEF Linked
        <4> QED BY <1>3, <1>5, <4>1, <4>2
      <3> QED BY <1>0, <3>1, <3>2, <3>3, <3>5
    <2> QED BY <2>1, <2>2
  <1> QED BY <1>6, <1>7, <1>8, Zenon DEF BlockInv

-----------------------------------------------------------------------------
(* A node added to one chain leaves chains.                                *)
LEMMA PutChains ==
  ASSUME NEW L \in HeapType(Bucket, Thread), NEW len, NEW q, Chains(L, len, q),
         NEW b \in Bucket, NEW n \in Thread, \A x \in Bucket : ~Has(len, q, x, n)
  PROVE  \E m, s : /\ Chains(ListAdd(L, b, n), m, s)
                   /\ \A x \in Bucket : x # b => m[x] = len[x] /\ s[x] = q[x]
                   /\ m[b] = len[b] + 1 /\ \A i \in 1 .. len[b] : s[b][i] = q[b][i]
                   /\ s[b][m[b]] = n
                   /\ \A x \in Bucket, u \in Thread :
                        Has(m, s, x, u) <=> Has(len, q, x, u) \/ (x = b /\ u = n)
  <1> DEFINE m == [x \in Bucket |-> IF x = b THEN len[b] + 1 ELSE len[x]]
             s == [x \in Bucket |-> IF x = b THEN Put(len[b], q[b], n) ELSE q[x]]
             K == ListAdd(L, b, n)
  <1>1. \A x \in Bucket : len[x] \in Nat /\ Chain(L, x, len[x], q[x])
    BY DEF Chains
  <1>2. \A x \in Bucket : \A i \in 1 .. len[x] : q[x][i] # n
    BY DEF Has
  <1>3. Chain(K, b, len[b] + 1, Put(len[b], q[b], n))
    BY <1>1, <1>2, ListAddChain
  <1>4. ASSUME NEW x \in Bucket, x # b PROVE Chain(K, x, len[x], q[x])
    <2>1. \A i \in 1 .. len[b], j \in 1 .. len[x] : q[b][i] # q[x][j]
      BY <1>1, <1>4 DEF Chains, Has, Chain
    <2> HIDE DEF K
    <2> QED BY <1>1, <1>2, <1>4, <2>1, ListFrame DEF K
  <1>5. /\ m[b] = len[b] + 1 /\ s[b] = Put(len[b], q[b], n)
        /\ \A x \in Bucket : x # b => m[x] = len[x] /\ s[x] = q[x]
    OBVIOUS
  <1> HIDE DEF m, s, K
  <1>6. \A x \in Bucket : m[x] \in Nat /\ Chain(K, x, m[x], s[x])
    <2> SUFFICES ASSUME NEW x \in Bucket PROVE m[x] \in Nat /\ Chain(K, x, m[x], s[x])
      OBVIOUS
    <2>1. CASE x = b
      BY <1>1, <1>3, <1>5, <2>1
    <2>2. CASE x # b
      BY <1>1, <1>4, <1>5, <2>2
    <2> QED BY <2>1, <2>2
  <1>7. s[b][len[b] + 1] = n /\ \A i \in 1 .. len[b] : s[b][i] = q[b][i]
    <2>1. len[b] \in Nat
      BY <1>1
    <2>2. \A i \in 1 .. len[b] : i \in Nat /\ i # len[b] + 1
      BY <2>1
    <2> QED BY <1>5, <2>1, <2>2 DEF Put
  <1>8. \A x \in Bucket, u \in Thread : Has(m, s, x, u) <=> Has(len, q, x, u) \/ (x = b /\ u = n)
    <2> SUFFICES ASSUME NEW x \in Bucket, NEW u \in Thread
                 PROVE  Has(m, s, x, u) <=> Has(len, q, x, u) \/ (x = b /\ u = n)
      OBVIOUS
    <2>1. CASE x # b
      BY <1>5, <2>1 DEF Has
    <2>2. CASE x = b
      <3>1. len[b] \in Nat
        BY <1>1
      <3>2. \A i : i \in 1 .. len[b] + 1 <=> i \in 1 .. len[b] \/ i = len[b] + 1
        BY <3>1
      <3> QED BY <1>5, <1>7, <2>2, <3>2 DEF Has
    <2> QED BY <2>1, <2>2
  <1>9. \A x, c \in Bucket, u \in Thread : Has(m, s, x, u) /\ Has(m, s, c, u) => x = c
    BY <1>8 DEF Chains
  <1> QED BY <1>5, <1>6, <1>7, <1>8, <1>9 DEF Chains, K

(* The same for a node taken out of one chain.                             *)
LEMMA CutChains ==
  ASSUME NEW L \in HeapType(Bucket, Thread), NEW len, NEW q, Chains(L, len, q),
         NEW b \in Bucket, NEW k \in 1 .. len[b], NEW n \in Thread, n = q[b][k]
  PROVE  \E m, s : /\ Chains(ListRemove(L, b, n), m, s)
                   /\ \A x \in Bucket : x # b => m[x] = len[x] /\ s[x] = q[x]
                   /\ m[b] = len[b] - 1 /\ \A i \in 1 .. k - 1 : s[b][i] = q[b][i]
                   /\ \A i \in 1 .. m[b] : s[b][i] = IF i < k THEN q[b][i] ELSE q[b][i + 1]
                   /\ \A x \in Bucket, u \in Thread :
                        Has(m, s, x, u) <=> Has(len, q, x, u) /\ u # n
  <1> DEFINE m == [x \in Bucket |-> IF x = b THEN len[b] - 1 ELSE len[x]]
             s == [x \in Bucket |-> IF x = b THEN Cut(q[b], k) ELSE q[x]]
             K == ListRemove(L, b, n)
  <1>1. \A x \in Bucket : len[x] \in Nat /\ Chain(L, x, len[x], q[x])
    BY DEF Chains
  <1>2. Has(len, q, b, n) /\ k \in Nat
    BY <1>1 DEF Has
  <1>3. Chain(K, b, len[b] - 1, Cut(q[b], k))
    BY <1>1, ListRemoveChain
  <1>4. ASSUME NEW x \in Bucket, x # b PROVE Chain(K, x, len[x], q[x])
    <2>1. \A i \in 1 .. len[b], j \in 1 .. len[x] : q[b][i] # q[x][j]
      BY <1>1, <1>4 DEF Chains, Has, Chain
    <2> HIDE DEF K
    <2> QED BY <1>1, <1>4, <2>1, ListFrame DEF K
  <1>5. /\ m[b] = len[b] - 1 /\ s[b] = Cut(q[b], k)
        /\ \A x \in Bucket : x # b => m[x] = len[x] /\ s[x] = q[x]
    OBVIOUS
  <1> HIDE DEF m, s, K
  <1>6. \A x \in Bucket : m[x] \in Nat /\ Chain(K, x, m[x], s[x])
    <2> SUFFICES ASSUME NEW x \in Bucket PROVE m[x] \in Nat /\ Chain(K, x, m[x], s[x])
      OBVIOUS
    <2>1. CASE x = b
      BY <1>1, <1>3, <1>5, <2>1
    <2>2. CASE x # b
      BY <1>1, <1>4, <1>5, <2>2
    <2> QED BY <2>1, <2>2
  <1>7. \A i \in 1 .. m[b] : s[b][i] = IF i < k THEN q[b][i] ELSE q[b][i + 1]
    BY <1>1, <1>5 DEF Cut
  <1>8. \A i, j \in 1 .. len[b] : q[b][i] = q[b][j] => i = j
    BY <1>1 DEF Chain
  <1>9. \A x \in Bucket, u \in Thread : Has(m, s, x, u) <=> Has(len, q, x, u) /\ u # n
    <2> SUFFICES ASSUME NEW x \in Bucket, NEW u \in Thread
                 PROVE  Has(m, s, x, u) <=> Has(len, q, x, u) /\ u # n
      OBVIOUS
    <2>1. CASE x # b
      BY <1>2, <1>5, <2>1 DEF Has, Chains
    <2>2. CASE x = b
      <3>1. ASSUME NEW i \in 1 .. m[b], s[b][i] = u PROVE Has(len, q, b, u) /\ u # n
        <4>1. i \in Nat /\ i \in 1 .. len[b] /\ i + 1 \in 1 .. len[b]
          BY <1>1, <1>5
        <4> QED BY <1>2, <1>7, <1>8, <3>1, <4>1 DEF Has
      <3>2. ASSUME NEW i \in 1 .. len[b], q[b][i] = u, u # n PROVE Has(m, s, b, u)
        <4>1. i # k /\ i \in Nat /\ len[b] \in Nat
          BY <1>1, <3>2
        <4>2. CASE i < k
          <5>1. i \in 1 .. m[b]
            BY <1>2, <1>5, <4>1, <4>2
          <5> QED BY <1>7, <3>2, <4>2, <5>1 DEF Has
        <4>3. CASE i > k
          <5>1. i - 1 \in 1 .. m[b] /\ ~(i - 1 < k) /\ (i - 1) + 1 = i
            BY <1>2, <1>5, <4>1, <4>3
          <5>2. s[b][i - 1] = q[b][i]
            BY <1>7, <5>1
          <5> QED BY <3>2, <5>1, <5>2 DEF Has
        <4> QED BY <1>2, <4>1, <4>2, <4>3
      <3> QED BY <2>2, <3>1, <3>2 DEF Has
    <2> QED BY <2>1, <2>2
  <1>10. \A x, c \in Bucket, u \in Thread : Has(m, s, x, u) /\ Has(m, s, c, u) => x = c
    BY <1>9 DEF Chains
  <1>11. \A i \in 1 .. k - 1 : s[b][i] = q[b][i]
    <2>1. \A i \in 1 .. k - 1 : i \in 1 .. m[b] /\ i < k
      BY <1>1, <1>2, <1>5
    <2> QED BY <1>7, <2>1
  <1> QED BY <1>5, <1>6, <1>7, <1>9, <1>10, <1>11 DEF Chains, K

(* Where t's own walk is after its step.                                   *)
OwnWalk(t, m, s) ==
  pc'[t] \in {"walk", "notify"} =>
    /\ call'[t] = call[t] /\ Bucket1(t) \in Bucket
    /\ \A b \in Bucket : b = Bucket1(t) => \E k \in 0 .. m[b] : Scanned(t, k, s[b])'

(* A step of t re-orders the blocks of the buckets t has, and of no other. *)
LEMMA OrdersStep ==
  ASSUME NEW T, Inv(T), NEW t \in Thread, Others(t), NEW len, NEW q, Orders(len, q), NEW m, NEW s,
         Chains(list', m, s),
         \A b \in Bucket, u \in Thread : Has(m, s, b, u) <=> Linked(u)' /\ Hash[waddr'[u]] = b,
         \A b \in Bucket : ~Holds(t, b) =>
           /\ m[b] = len[b] /\ s[b] = q[b]
           /\ \A u \in Thread : Has(len, q, b, u) => waddr'[u] = waddr[u],
         OwnWalk(t, m, s)
  PROVE  Orders(m, s)'
  <1>1. ASSUME NEW w \in Thread, w # t, pc'[w] \in {"walk", "notify"}
        PROVE  \A b \in Bucket : b = Bucket1(w) => \E k \in 0 .. m[b] : Scanned(w, k, s[b])'
    <2> SUFFICES ASSUME NEW b \in Bucket, b = Bucket1(w)
                 PROVE  \E k \in 0 .. m[b] : Scanned(w, k, s[b])'
      OBVIOUS
    <2>1. pc[w] \in {"walk", "notify"} /\ call'[w] = call[w] /\ prev'[w] = prev[w] /\ woken'[w] = woken[w]
      BY <1>1 DEF Others
    <2>2. ~Holds(t, b)
      BY <1>1, <2>1, Held DEF Inv, BucketExclusion
    <2>3. m[b] = len[b] /\ s[b] = q[b] /\ \A u \in Thread : Has(len, q, b, u) => waddr'[u] = waddr[u]
      BY <2>2
    <2>4. len[b] \in Nat /\ \A i \in 1 .. len[b] : q[b][i] \in Thread /\ Has(len, q, b, q[b][i])
      BY DEF Orders, Chains, Chain, Has
    <2>5. PICK k \in 0 .. len[b] : Scanned(w, k, q[b])
      BY <2>1 DEF Orders
    <2>6. \A i \in 1 .. k : i \in 1 .. len[b]
      BY <2>4, <2>5
    <2>7. SameWord(w)' = SameWord(w)
      BY <2>1 DEF SameWord, Requeues, EnoughWoken
    <2>8. \A i \in 1 .. k : waddr'[q[b][i]] # call'[w].addr \/ SameWord(w)'
      BY <2>1, <2>3, <2>4, <2>5, <2>6, <2>7 DEF Scanned
    <2>9. Scanned(w, k, s[b])'
      BY <2>1, <2>3, <2>5, <2>8 DEF Scanned
    <2> QED BY <2>3, <2>5, <2>9
  <1>2. \A w \in Thread : pc'[w] \in {"walk", "notify"} =>
          Bucket1(w)' = Bucket1(w) /\ (w = t \/ pc[w] \in WakePC)
    BY DEF Others, OwnWalk, Bucket1, WakePC
  <1>3. \A w \in Thread : pc'[w] \in {"walk", "notify"} => Bucket1(w)' \in Bucket
    BY <1>2, CallInProgress DEF Inv, OwnWalk
  <1>4. \A w \in Thread : pc'[w] \in {"walk", "notify"} =>
          \A b \in Bucket : b = Bucket1(w)' => \E k \in 0 .. m[b] : Scanned(w, k, s[b])'
    BY <1>1, <1>2 DEF OwnWalk
  <1> QED BY <1>3, <1>4 DEF Orders

(* A step that moves no block keeps the orders.                            *)
LEMMA QuietOrders ==
  ASSUME NEW T, Inv(T), NEW t \in Thread, Others(t), NEW len, NEW q, Orders(len, q), OwnWalk(t, len, q),
         list' = list, waddr' = waddr, \A u \in Thread : Linked(u)' <=> Linked(u)
  PROVE  Orders(len, q)'
  <1>1. Chains(list', len, q)
    BY DEF Orders
  <1>2. \A b \in Bucket, u \in Thread : Has(len, q, b, u) <=> Linked(u)' /\ Hash[waddr'[u]] = b
    BY DEF Orders
  <1> QED BY <1>1, <1>2, OrdersStep

(* futex_wait moves blocks in two places only.                             *)
LEMMA LinkedWait ==
  ASSUME NEW T, Inv(T), NEW t \in Thread, Wait(t) \/ WaitAborted(t), ~WaitAdd(t), ~AbortRemove(t)
  PROVE  list' = list /\ waddr' = waddr /\ \A u \in Thread : Linked(u)' <=> Linked(u)
  <1> USE DEF Goto, Return
  <1>0. /\ call' = call /\ cur' = cur /\ pc \in [Thread -> ThreadPC] /\ event \in [Thread -> BOOLEAN]
        /\ \A u \in Thread : u # t => pc'[u] = pc[u]
    BY OthersWait DEF Others, Inv, TypeInv, TypeOK
  <1>1. list' = list /\ waddr' = waddr /\ \A u \in Thread : u # t => event'[u] = event[u]
    BY <1>0 DEF Wait, WaitLock, WaitCompare, WaitChanged, WaitUnlock, WaitWoken, WaitAborted, AbortLock,
                AbortRecheck, AbortUnlock
  <1>2. \A u \in Thread : Notifying(u)' <=> Notifying(u)
    BY <1>0 DEF Notifying
  <1>3. (pc'[t] \in InWait /\ ~event'[t]) <=> (pc[t] \in InWait /\ ~event[t])
    BY <1>0 DEF Wait, WaitLock, WaitCompare, WaitChanged, WaitUnlock, WaitWoken, WaitAborted, AbortLock,
                AbortRecheck, AbortUnlock, InWait
  <1> QED BY <1>0, <1>1, <1>2, <1>3 DEF Linked, InWait

(* Every step of futex_wait keeps the lists ordered.                       *)
LEMMA ListWait ==
  ASSUME NEW T, Inv(T), NEW t \in Thread, Wait(t) \/ WaitAborted(t)
  PROVE  ListInv'
  <1> USE DEF Goto, Return
  <1>0. /\ call' = call /\ cur' = cur /\ Others(t)
        /\ pc \in [Thread -> ThreadPC] /\ waddr \in [Thread -> Addr] /\ event \in [Thread -> BOOLEAN]
        /\ list \in HeapType(Bucket, Thread)
        /\ \A u \in Thread : u # t => pc'[u] = pc[u]
        /\ \A u \in Thread : Notifying(u)' <=> Notifying(u)
    BY OthersWait DEF Others, Inv, TypeInv, TypeOK, Notifying
  <1>1. PICK len, q : Orders(len, q)
    BY DEF Inv, ListInv
  <1>2. pc'[t] \notin {"walk", "notify"} /\ pc[t] \in WaitPC
    BY <1>0 DEF Wait, WaitLock, WaitCompare, WaitChanged, WaitAdd, WaitUnlock, WaitWoken, WaitAborted, AbortLock,
                AbortRecheck, AbortRemove, AbortUnlock, WaitPC
  <1>3. \A m, s : OwnWalk(t, m, s)
    BY <1>2 DEF OwnWalk
  <1>4. PICK b \in Bucket : b = Bucket1(t)
    BY <1>2, CallInProgress DEF Inv
  <1>5. CASE ~WaitAdd(t) /\ ~AbortRemove(t)
    BY <1>0, <1>1, <1>3, <1>5, LinkedWait, QuietOrders DEF ListInv
  <1>6. CASE WaitAdd(t)
    <2>1. /\ pc[t] = "wait_add" /\ pc'[t] = "wait_unlock" /\ list' = ListAdd(list, b, t) /\ event' = event
          /\ waddr'[t] = call[t].addr /\ \A u \in Thread : u # t => waddr'[u] = waddr[u]
      BY <1>0, <1>4, <1>6 DEF WaitAdd
    <2>2. ~event[t] /\ ~Notifying(t)
      BY <2>1, FutexAssumption DEF Inv, BlockInv, NoStaleWake, Notifying
    <2>3. ~Linked(t) /\ Linked(t)' /\ \A u \in Thread : u # t => (Linked(u)' <=> Linked(u))
      BY <1>0, <2>1, <2>2 DEF Linked
    <2>4. \A x \in Bucket : ~Has(len, q, x, t)
      BY <1>1, <2>3 DEF Orders
    <2>5. PICK m, s : /\ Chains(ListAdd(list, b, t), m, s)
                      /\ \A x \in Bucket : x # b => m[x] = len[x] /\ s[x] = q[x]
                      /\ m[b] = len[b] + 1 /\ \A i \in 1 .. len[b] : s[b][i] = q[b][i]
                      /\ \A x \in Bucket, u \in Thread :
                           Has(m, s, x, u) <=> Has(len, q, x, u) \/ (x = b /\ u = t)
      BY <1>0, <1>1, <2>4, PutChains DEF Orders
    <2>6. Chains(list', m, s)
      BY <2>1, <2>5
    <2>7. Hash[waddr'[t]] = b
      BY <1>4, <2>1 DEF Bucket1
    <2>8. \A x \in Bucket, u \in Thread : Has(m, s, x, u) <=> Linked(u)' /\ Hash[waddr'[u]] = x
      <3> SUFFICES ASSUME NEW x \in Bucket, NEW u \in Thread
                   PROVE  Has(m, s, x, u) <=> Linked(u)' /\ Hash[waddr'[u]] = x
        OBVIOUS
      <3>1. CASE u = t
        BY <2>3, <2>4, <2>5, <2>7, <3>1
      <3>2. CASE u # t
        BY <1>1, <2>1, <2>3, <2>5, <3>2 DEF Orders
      <3> QED BY <3>1, <3>2
    <2>9. Holds(t, b)
      BY <1>4, <2>1, Held
    <2>10. \A x \in Bucket : ~Holds(t, x) =>
             /\ m[x] = len[x] /\ s[x] = q[x]
             /\ \A u \in Thread : Has(len, q, x, u) => waddr'[u] = waddr[u]
      BY <2>1, <2>4, <2>5, <2>9
    <2>11. Orders(m, s)'
      BY <1>0, <1>1, <1>3, <2>6, <2>8, <2>10, OrdersStep
    <2> QED BY <2>11 DEF ListInv
  <1>7. CASE AbortRemove(t)
    <2>1. /\ pc[t] = "abort_remove" /\ pc'[t] = "abort_unlock" /\ list' = ListRemove(list, b, t)
          /\ event' = event /\ waddr' = waddr
      BY <1>0, <1>4, <1>7 DEF AbortRemove
    <2>2. ~event[t] /\ ~Notifying(t)
      BY <2>1 DEF Inv, BlockInv
    <2>3. Linked(t) /\ ~Linked(t)' /\ \A u \in Thread : u # t => (Linked(u)' <=> Linked(u))
      BY <1>0, <2>1, <2>2 DEF Linked
    <2>4. Hash[waddr[t]] = b
      BY <1>4, <2>1 DEF Inv, HomeInv, InWait, Aborted
    <2>5. PICK k \in 1 .. len[b] : q[b][k] = t
      BY <1>1, <2>3, <2>4 DEF Orders, Has
    <2>6. PICK m, s : /\ Chains(ListRemove(list, b, t), m, s)
                      /\ \A x \in Bucket : x # b => m[x] = len[x] /\ s[x] = q[x]
                      /\ m[b] = len[b] - 1 /\ \A i \in 1 .. k - 1 : s[b][i] = q[b][i]
                      /\ \A x \in Bucket, u \in Thread :
                           Has(m, s, x, u) <=> Has(len, q, x, u) /\ u # t
      BY <1>0, <1>1, <2>5, CutChains DEF Orders
    <2>7. Chains(list', m, s)
      BY <2>1, <2>6
    <2>8. \A x \in Bucket, u \in Thread : Has(m, s, x, u) <=> Linked(u)' /\ Hash[waddr'[u]] = x
      BY <1>1, <2>1, <2>3, <2>6 DEF Orders
    <2>9. Holds(t, b)
      BY <1>4, <2>1, Held
    <2>10. \A x \in Bucket : ~Holds(t, x) =>
             /\ m[x] = len[x] /\ s[x] = q[x]
             /\ \A u \in Thread : Has(len, q, x, u) => waddr'[u] = waddr[u]
      BY <2>1, <2>6, <2>9
    <2>11. Orders(m, s)'
      BY <1>0, <1>1, <1>3, <2>7, <2>8, <2>10, OrdersStep
    <2> QED BY <2>11 DEF ListInv
  <1> QED BY <1>5, <1>6, <1>7

(* futex_wake_requeue unlinks a block in one place only.                   *)
LEMMA LinkedWake ==
  ASSUME NEW T, Inv(T), NEW t \in Thread, Wake(t), ~WalkUnlink(t)
  PROVE  \A u \in Thread : Linked(u)' <=> Linked(u)
  <1> USE DEF Goto, Return
  <1>0. /\ pc \in [Thread -> ThreadPC] /\ event \in [Thread -> BOOLEAN] /\ cur \in [Thread -> Thread \cup {Null}]
        /\ \A u \in Thread : u # t => pc'[u] = pc[u] /\ cur'[u] = cur[u]
        /\ Null \notin Thread
    BY OthersWake, FutexAssumption DEF Others, Inv, TypeInv, TypeOK
  <1>1. pc'[t] \notin InWait /\ pc[t] \notin InWait
    BY <1>0 DEF Wake, Looking, WakeLock1, WakeLock2, WakeCompare, Eagain1, Eagain2, WalkEnd, WalkSkip, Locked,
             WalkRequeue, WalkUnlink, Notify, WakeUnlock1, WakeUnlock2, InWait
  <1>2. CASE Notify(t)
    <2> DEFINE c == cur[t]
    <2>1. c \in Thread /\ event' = [event EXCEPT ![c] = TRUE] /\ cur'[t] = Null
      BY <1>0, <1>2 DEF Notify, Inv, TypeInv, CallOK
    <2> HIDE DEF c
    <2>2. ASSUME NEW u \in Thread, u # c PROVE event'[u] = event[u] /\ (Notifying(u)' <=> Notifying(u))
      BY <1>0, <2>1, <2>2 DEF Notifying, c
    <2>3. event'[c] /\ Notifying(c)
      BY <1>0, <2>1 DEF Notifying, c
    <2> QED BY <1>0, <1>1, <2>2, <2>3 DEF Linked, InWait
  <1>3. CASE ~Notify(t)
    <2>1. event' = event /\ cur' = cur
      BY <1>3 DEF Wake, WakeLock1, WakeLock2, WakeCompare, Eagain1, Eagain2, WalkEnd, WalkSkip,
             WalkRequeue, WakeUnlock1, WakeUnlock2
    <2> QED BY <1>0, <1>1, <2>1 DEF Linked, InWait, Notifying
  <1> QED BY <1>2, <1>3

(* Where the walk is after a step that moves no block.                     *)
LEMMA QuietWalk ==
  ASSUME NEW T, Inv(T), NEW t \in Thread, Wake(t), ~WalkUnlink(t), ~WalkRequeue(t),
         NEW len, NEW q, Orders(len, q)
  PROVE  OwnWalk(t, len, q) /\ list' = list /\ waddr' = waddr
  <1> USE DEF Goto, Return
  <1>0. /\ call' = call /\ pc[t] \in WakePC /\ Bucket1(t) \in Bucket
        /\ pc \in [Thread -> ThreadPC] /\ prev \in [Thread -> Thread \cup {Null}]
    <2>1. pc[t] \in WakePC
      BY DEF Wake, Looking, WakeLock1, WakeLock2, WakeCompare, Eagain1, Eagain2, WalkEnd, WalkSkip,
             WalkRequeue, WalkUnlink, Notify, WakeUnlock1, WakeUnlock2, WakePC
    <2> QED BY <2>1, OthersWake, CallInProgress DEF Inv, TypeInv, TypeOK
  <1>1. list' = list /\ waddr' = waddr
    BY DEF Wake, WakeLock1, WakeLock2, WakeCompare, Eagain1, Eagain2, WalkEnd, WalkSkip,
           Notify, WakeUnlock1, WakeUnlock2
  <1>2. SUFFICES ASSUME pc'[t] \in {"walk", "notify"}, NEW b \in Bucket, b = Bucket1(t)
                 PROVE  \E k \in 0 .. len[b] : Scanned(t, k, q[b])'
    BY <1>0, <1>1 DEF OwnWalk
  <1>3. len[b] \in Nat
    BY DEF Orders, Chains
  <1>4. CASE prev'[t] = Null
    <2>1. Scanned(t, 0, q[b])'
      BY <1>4 DEF Scanned
    <2> QED BY <1>3, <2>1
  <1>5. CASE Notify(t)
    <2>1. prev' = prev /\ pc[t] = "notify"
      BY <1>5 DEF Notify
    <2>2. PICK k \in 0 .. len[b] : Scanned(t, k, q[b])
      BY <1>2, <2>1 DEF Orders
    <2>3. ~EnoughWoken(t)
      <3>1. woken[t] \in Nat /\ call[t].count \in Nat /\ woken[t] < call[t].count
        BY <1>0, <2>1, CallInProgress DEF Inv, CountInv, TypeInv, TypeOK
      <3> QED BY <3>1 DEF EnoughWoken
    <2>4. Scanned(t, k, q[b])'
      BY <1>0, <1>1, <2>1, <2>2, <2>3 DEF Scanned, SameWord
    <2> QED BY <2>4
  <1>6. CASE WalkSkip(t)
    <2>1. PICK n \in Thread : Looking(t, n) /\ waddr[n] # call[t].addr /\ prev' = [prev EXCEPT ![t] = n]
                            /\ woken' = woken
      BY <1>6 DEF WalkSkip
    <2>2. PICK k \in 0 .. len[b] - 1 : Scanned(t, k, q[b]) /\ q[b][k + 1] = n
      BY <1>2, <2>1, LookingAt
    <2>3. k + 1 \in 0 .. len[b] /\ k + 1 # 0 /\ \A i \in 1 .. k + 1 : i \in 1 .. k \/ i = k + 1
      BY <1>3, <2>2
    <2>4. prev'[t] = n
      BY <1>0, <2>1
    <2>5. Scanned(t, k + 1, q[b])'
      BY <1>0, <1>1, <2>1, <2>2, <2>3, <2>4 DEF Scanned, SameWord, Requeues, EnoughWoken
    <2> QED BY <2>3, <2>5
  <1>7. prev'[t] = Null \/ Notify(t) \/ WalkSkip(t)
    <2>1. CASE WakeLock1(t)
      BY <1>0, <2>1 DEF WakeLock1
    <2>2. CASE WakeLock2(t)
      BY <1>0, <2>2 DEF WakeLock2, Inv, CountInv
    <2>3. CASE WakeCompare(t)
      BY <1>0, <2>3 DEF WakeCompare, Inv, CountInv
    <2>4. ~Eagain1(t) /\ ~Eagain2(t) /\ ~WalkEnd(t) /\ ~WakeUnlock1(t) /\ ~WakeUnlock2(t)
      BY <1>0, <1>2 DEF Eagain1, Eagain2, WalkEnd, WakeUnlock1, WakeUnlock2
    <2> QED BY <2>1, <2>2, <2>3, <2>4 DEF Wake
  <1> QED BY <1>4, <1>5, <1>6, <1>7

(* Waking a waiter.                                                        *)
LEMMA ListUnlink ==
  ASSUME NEW T, Inv(T), NEW t \in Thread, WalkUnlink(t)
  PROVE  ListInv'
  <1> USE DEF Goto, Return
  <1>0. /\ call' = call /\ Others(t) /\ list \in HeapType(Bucket, Thread) /\ Null \notin Thread
        /\ pc \in [Thread -> ThreadPC] /\ cur \in [Thread -> Thread \cup {Null}]
        /\ \A u \in Thread : u # t => pc'[u] = pc[u] /\ cur'[u] = cur[u]
    BY OthersWake, FutexAssumption DEF Wake, Others, Inv, TypeInv, TypeOK
  <1>1. PICK len, q : Orders(len, q)
    BY DEF Inv, ListInv
  <1>2. PICK n \in Thread : /\ Looking(t, n) /\ list' = ListRemove(list, Bucket1(t), n)
                            /\ cur' = [cur EXCEPT ![t] = n] /\ pc' = [pc EXCEPT ![t] = "notify"]
                            /\ waddr' = waddr /\ event' = event /\ prev' = prev /\ woken' = woken
    BY DEF WalkUnlink
  <1>3. PICK b \in Bucket : b = Bucket1(t)
    BY <1>1, <1>2, LookingAt
  <1>4. PICK k \in 0 .. len[b] - 1 : Scanned(t, k, q[b]) /\ q[b][k + 1] = n
    BY <1>1, <1>2, <1>3, LookingAt
  <1>5. len[b] \in Nat /\ k \in Nat /\ k + 1 \in 1 .. len[b] /\ k \in 0 .. len[b] - 1 /\ (k + 1) - 1 = k
    BY <1>1, <1>4 DEF Orders, Chains
  <1>6. PICK m, s : /\ Chains(ListRemove(list, b, n), m, s)
                    /\ \A x \in Bucket : x # b => m[x] = len[x] /\ s[x] = q[x]
                    /\ m[b] = len[b] - 1 /\ \A i \in 1 .. k : s[b][i] = q[b][i]
                    /\ \A x \in Bucket, u \in Thread :
                         Has(m, s, x, u) <=> Has(len, q, x, u) /\ u # n
    <2>1. Chains(list, len, q)
      BY <1>1 DEF Orders
    <2> QED BY <1>0, <1>4, <1>5, <2>1, CutChains
  <1>7. pc[t] = "walk" /\ pc'[t] = "notify" /\ cur'[t] = n /\ cur[t] = Null
    BY <1>0, <1>2 DEF Looking, Inv, TypeInv, CallOK
  <1>8. \A u \in Thread : Linked(u)' <=> Linked(u) /\ u # n
    <2>1. \A u \in Thread : Notifying(u)' <=> Notifying(u) \/ u = n
      BY <1>0, <1>7 DEF Notifying
    <2> QED BY <1>0, <1>2, <1>7, <2>1 DEF Linked
  <1>9. Chains(list', m, s)
    BY <1>2, <1>3, <1>6
  <1>10. \A x \in Bucket, u \in Thread : Has(m, s, x, u) <=> Linked(u)' /\ Hash[waddr'[u]] = x
    BY <1>1, <1>2, <1>6, <1>8 DEF Orders
  <1>11. \A x \in Bucket : ~Holds(t, x) =>
           /\ m[x] = len[x] /\ s[x] = q[x]
           /\ \A u \in Thread : Has(len, q, x, u) => waddr'[u] = waddr[u]
    <2>1. Holds(t, b)
      BY <1>3, <1>7, Held
    <2> QED BY <1>2, <1>6, <2>1
  <1>12. OwnWalk(t, m, s)
    <2>1. \A i \in 1 .. k : waddr'[s[b][i]] # call'[t].addr \/ SameWord(t)'
      BY <1>0, <1>2, <1>4, <1>6 DEF Scanned, SameWord, Requeues, EnoughWoken
    <2>2. prev'[t] = IF k = 0 THEN Null ELSE s[b][k]
      <3>1. k # 0 => k \in 1 .. k
        BY <1>5
      <3> QED BY <1>2, <1>4, <1>6, <3>1 DEF Scanned
    <2>3. Scanned(t, k, s[b])'
      BY <2>1, <2>2 DEF Scanned
    <2>4. k \in 0 .. m[b]
      BY <1>5, <1>6
    <2> QED BY <1>0, <1>3, <2>3, <2>4 DEF OwnWalk
  <1>13. Orders(m, s)'
    BY <1>0, <1>1, <1>9, <1>10, <1>11, <1>12, OrdersStep
  <1> QED BY <1>13 DEF ListInv

(* Requeueing a waiter: to the end of the other bucket's list, or, when    *)
(* both words have one bucket, by leaving it where it is.                  *)
LEMMA ListRequeue ==
  ASSUME NEW T, Inv(T), NEW t \in Thread, WalkRequeue(t)
  PROVE  ListInv'
  <1>0. /\ call' = call /\ Others(t) /\ list \in HeapType(Bucket, Thread)
        /\ waddr \in [Thread -> Addr] /\ prev \in [Thread -> Thread \cup {Null}]
        /\ \A u \in Thread : Linked(u)' <=> Linked(u)
    <2>1. ~WalkUnlink(t) /\ Wake(t)
      <3>1. cur' = cur /\ pc' = pc /\ pc[t] = "walk" /\ pc \in [Thread -> ThreadPC]
        BY DEF WalkRequeue, Looking, Inv, TypeInv, TypeOK
      <3> QED BY <3>1 DEF WalkUnlink, Wake
    <2> QED BY <2>1, OthersWake, LinkedWake DEF Inv, TypeInv, TypeOK
  <1>1. PICK len, q : Orders(len, q)
    BY DEF Inv, ListInv
  <1>2. PICK n \in Thread : WalkRequeue(t)!(n)
    BY DEF WalkRequeue
  <1>3. /\ Looking(t, n) /\ waddr[n] = call[t].addr /\ Requeues(t) /\ EnoughWoken(t) /\ pc[t] = "walk"
        /\ pc' = pc /\ woken' = woken
        /\ waddr'[n] = call[t].addr2 /\ \A u \in Thread : u # n => waddr'[u] = waddr[u]
    BY <1>0, <1>2 DEF Looking
  <1>4. PICK b \in Bucket : b = Bucket1(t)
    BY <1>1, <1>3, LookingAt
  <1>5. PICK k \in 0 .. len[b] - 1 : Scanned(t, k, q[b]) /\ q[b][k + 1] = n
    BY <1>1, <1>3, <1>4, LookingAt
  <1>6. len[b] \in Nat /\ k \in Nat /\ k + 1 \in 1 .. len[b] /\ k \in 0 .. len[b] - 1 /\ (k + 1) - 1 = k
    BY <1>1, <1>5 DEF Orders, Chains
  <1>7. PICK c \in Bucket : c = Bucket2(t)
    BY <1>3, CallInProgress DEF Inv, WakePC
  <1>8. Hash[waddr'[n]] = c /\ Linked(n) /\ Hash[waddr[n]] = b /\ Has(len, q, b, n)
    <2>1. Linked(n) /\ Hash[waddr[n]] = b
      BY <1>1, <1>3, <1>4, LookingAt
    <2> QED BY <1>1, <1>3, <1>7, <2>1 DEF Bucket2, Orders
  <1>9. Holds(t, b) /\ (b # c => Holds(t, c))
    BY <1>3, <1>4, <1>7, Held DEF TwoBuckets
  <1>10. ASSUME NEW i \in 1 .. k PROVE waddr'[q[b][i]] # call'[t].addr \/ SameWord(t)'
    <2>1. i \in 1 .. len[b] /\ q[b][i] \in Thread
      BY <1>1, <1>6 DEF Orders, Chains, Chain
    <2>2. waddr[q[b][i]] # call[t].addr \/ SameWord(t)
      BY <1>5 DEF Scanned
    <2>3. q[b][i] = n => call[t].addr2 # call[t].addr \/ SameWord(t)
      BY <1>3 DEF SameWord
    <2> QED BY <1>0, <1>3, <2>1, <2>2, <2>3 DEF SameWord, Requeues, EnoughWoken
  <1>11. CASE b # c
    <2>1. /\ list' = ListAdd(ListRemove(list, b, n), c, n) /\ prev' = prev
      BY <1>2, <1>3, <1>4, <1>7, <1>11 DEF TwoBuckets
    <2> DEFINE L == ListRemove(list, b, n)
    <2>2. L \in HeapType(Bucket, Thread)
      BY <1>0, ListRemoveType
    <2>3. PICK m, s : /\ Chains(L, m, s)
                      /\ \A x \in Bucket : x # b => m[x] = len[x] /\ s[x] = q[x]
                      /\ m[b] = len[b] - 1 /\ \A i \in 1 .. k : s[b][i] = q[b][i]
                      /\ \A x \in Bucket, u \in Thread :
                           Has(m, s, x, u) <=> Has(len, q, x, u) /\ u # n
      <3>1. Chains(list, len, q)
        BY <1>1 DEF Orders
      <3> QED BY <1>0, <1>5, <1>6, <3>1, CutChains
    <2> HIDE DEF L
    <2>4. PICK mm, ss : /\ Chains(ListAdd(L, c, n), mm, ss)
                        /\ \A x \in Bucket : x # c => mm[x] = m[x] /\ ss[x] = s[x]
                        /\ mm[c] = m[c] + 1 /\ \A i \in 1 .. m[c] : ss[c][i] = s[c][i]
                        /\ \A x \in Bucket, u \in Thread :
                             Has(mm, ss, x, u) <=> Has(m, s, x, u) \/ (x = c /\ u = n)
      BY <2>2, <2>3, PutChains
    <2>5. Chains(list', mm, ss)
      BY <2>1, <2>4 DEF L
    <2>6. \A x \in Bucket, u \in Thread : Has(mm, ss, x, u) <=> Linked(u)' /\ Hash[waddr'[u]] = x
      <3> SUFFICES ASSUME NEW x \in Bucket, NEW u \in Thread
                   PROVE  Has(mm, ss, x, u) <=> Linked(u)' /\ Hash[waddr'[u]] = x
        OBVIOUS
      <3>1. CASE u = n
        BY <1>0, <1>8, <2>3, <2>4, <3>1
      <3>2. CASE u # n
        BY <1>0, <1>1, <1>3, <2>3, <2>4, <3>2 DEF Orders
      <3> QED BY <3>1, <3>2
    <2>7. \A x \in Bucket : ~Holds(t, x) =>
            /\ mm[x] = len[x] /\ ss[x] = q[x]
            /\ \A u \in Thread : Has(len, q, x, u) => waddr'[u] = waddr[u]
      <3> SUFFICES ASSUME NEW x \in Bucket, ~Holds(t, x)
                   PROVE  /\ mm[x] = len[x] /\ ss[x] = q[x]
                          /\ \A u \in Thread : Has(len, q, x, u) => waddr'[u] = waddr[u]
        OBVIOUS
      <3>1. x # b /\ x # c
        BY <1>9, <1>11
      <3>2. ~Has(len, q, x, n)
        BY <1>1, <1>8, <3>1 DEF Orders, Chains
      <3> QED BY <1>3, <2>3, <2>4, <3>1, <3>2
    <2>8. OwnWalk(t, mm, ss)
      <3>1. mm[b] = len[b] - 1 /\ \A i \in 1 .. k : ss[b][i] = q[b][i]
        BY <1>11, <2>3, <2>4
      <3>2. k \in 0 .. mm[b] /\ (k # 0 => k \in 1 .. k)
        BY <1>6, <3>1
      <3>3. prev'[t] = IF k = 0 THEN Null ELSE ss[b][k]
        BY <1>5, <2>1, <3>1, <3>2 DEF Scanned
      <3>4. Scanned(t, k, ss[b])'
        BY <1>10, <3>1, <3>3 DEF Scanned
      <3> QED BY <1>0, <1>4, <3>2, <3>4 DEF OwnWalk
    <2>9. Orders(mm, ss)'
      BY <1>0, <1>1, <2>5, <2>6, <2>7, <2>8, OrdersStep
    <2> QED BY <2>9 DEF ListInv
  <1>12. CASE b = c
    <2>1. /\ list' = list /\ prev' = [prev EXCEPT ![t] = n]
      BY <1>2, <1>3, <1>4, <1>7, <1>12 DEF TwoBuckets
    <2>2. Chains(list', len, q)
      BY <1>1, <2>1 DEF Orders
    <2>3. \A x \in Bucket, u \in Thread : Has(len, q, x, u) <=> Linked(u)' /\ Hash[waddr'[u]] = x
      <3>1. \A u \in Thread : Hash[waddr'[u]] = Hash[waddr[u]]
        BY <1>3, <1>8, <1>12
      <3> QED BY <1>0, <1>1, <3>1 DEF Orders
    <2>4. \A x \in Bucket : ~Holds(t, x) =>
            /\ len[x] = len[x] /\ q[x] = q[x]
            /\ \A u \in Thread : Has(len, q, x, u) => waddr'[u] = waddr[u]
      BY <1>1, <1>3, <1>8, <1>9 DEF Orders, Chains
    <2>5. OwnWalk(t, len, q)
      <3>1. k + 1 \in 0 .. len[b] /\ k + 1 # 0 /\ \A i \in 1 .. k + 1 : i \in 1 .. k \/ i = k + 1
        BY <1>6
      <3>2. prev'[t] = n
        BY <1>0, <2>1
      <3>3. waddr'[n] # call'[t].addr \/ SameWord(t)'
        BY <1>0, <1>3 DEF SameWord, Requeues, EnoughWoken
      <3>4. \A i \in 1 .. k + 1 : waddr'[q[b][i]] # call'[t].addr \/ SameWord(t)'
        BY <1>5, <1>10, <3>1, <3>3
      <3>5. Scanned(t, k + 1, q[b])'
        BY <1>5, <3>1, <3>2, <3>4 DEF Scanned
      <3> QED BY <1>0, <1>4, <3>1, <3>5 DEF OwnWalk
    <2>6. Orders(len, q)'
      BY <1>0, <1>1, <2>2, <2>3, <2>4, <2>5, OrdersStep
    <2> QED BY <2>6 DEF ListInv
  <1> QED BY <1>11, <1>12

(* Every step of futex_wake_requeue keeps the lists ordered.               *)
LEMMA ListWake ==
  ASSUME NEW T, Inv(T), NEW t \in Thread, Wake(t)
  PROVE  ListInv'
  <1>1. CASE WalkUnlink(t)
    BY <1>1, ListUnlink
  <1>2. CASE WalkRequeue(t)
    BY <1>2, ListRequeue
  <1>3. CASE ~WalkUnlink(t) /\ ~WalkRequeue(t)
    <2>1. Others(t) /\ \A u \in Thread : Linked(u)' <=> Linked(u)
      BY <1>3, OthersWake, LinkedWake DEF Inv
    <2>2. PICK len, q : Orders(len, q)
      BY DEF Inv, ListInv
    <2>3. OwnWalk(t, len, q) /\ list' = list /\ waddr' = waddr
      BY <1>3, <2>2, QuietWalk
    <2> QED BY <2>1, <2>2, <2>3, QuietOrders DEF ListInv
  <1> QED BY <1>1, <1>2, <1>3

-----------------------------------------------------------------------------
(* Nobody is woken beyond the count a call asks for.                       *)
LEMMA CountWait ==
  ASSUME NEW T, Inv(T), NEW t \in Thread, Wait(t) \/ WaitAborted(t)
  PROVE  CountInv' /\ woken' = woken /\ pc'[t] \notin WakePC
  <1> USE DEF Goto, Return
  <1>1. call' = call /\ prev' = prev /\ Others(t) /\ pc \in [Thread -> ThreadPC]
    BY OthersWait DEF Inv, TypeInv, TypeOK
  <1>2. woken' = woken /\ pc'[t] \notin WakePC
    BY <1>1 DEF Wait, WaitLock, WaitCompare, WaitChanged, WaitAdd, WaitUnlock, WaitWoken, WaitAborted, AbortLock,
                AbortRecheck, AbortRemove, AbortUnlock, WakePC
  <1> QED BY <1>1, <1>2 DEF Others, CountInv, Inv, WakePC

(* A walk counts the waiters it wakes.                                     *)
LEMMA CountWake ==
  ASSUME NEW T, Inv(T), NEW t \in Thread, Wake(t)
  PROVE  CountInv' /\ \A u \in Thread : u # t => woken'[u] = woken[u]
  <1> USE DEF Goto, Return
  <1>0. /\ call' = call /\ Others(t) /\ pc[t] \in WakePC /\ call[t].count \in Nat
        /\ pc \in [Thread -> ThreadPC] /\ prev \in [Thread -> Thread \cup {Null}] /\ woken \in [Thread -> Nat]
    <2>1. pc[t] \in WakePC
      BY DEF Wake, Looking, WakeLock1, WakeLock2, WakeCompare, Eagain1, Eagain2, WalkEnd, WalkSkip,
             WalkRequeue, WalkUnlink, Notify, WakeUnlock1, WakeUnlock2, WakePC
    <2> QED BY <2>1, OthersWake, CallInProgress DEF Inv, TypeInv, TypeOK
  <1>1. \A u \in Thread : u # t => woken'[u] = woken[u]
    BY <1>0 DEF Wake, WakeLock1, WakeLock2, WakeCompare, Eagain1, Eagain2, WalkEnd, WalkSkip,
                WalkRequeue, WalkUnlink, Notify, WakeUnlock1, WakeUnlock2
  <1>2. /\ pc[t] \in {"wake_lock2", "wake_compare"} => prev[t] = Null /\ woken[t] = 0
        /\ pc[t] = "walk" => woken[t] <= call[t].count
        /\ pc[t] = "notify" => woken[t] < call[t].count
    BY DEF Inv, CountInv
  <1>3. /\ pc'[t] \in {"wake_lock2", "wake_compare"} => prev'[t] = Null /\ woken'[t] = 0
        /\ pc'[t] = "walk" => woken'[t] <= call[t].count
        /\ pc'[t] = "notify" => woken'[t] < call[t].count
    <2>1. CASE WakeLock1(t)
      BY <1>0, <2>1 DEF WakeLock1, Locked
    <2>2. CASE WakeLock2(t) \/ WakeCompare(t)
      BY <1>0, <1>2, <2>2 DEF WakeLock2, WakeCompare, Locked
    <2>3. CASE WalkUnlink(t)
      BY <1>0, <1>2, <2>3 DEF WalkUnlink, Looking, EnoughWoken
    <2>4. CASE Notify(t)
      BY <1>0, <1>2, <2>4 DEF Notify
    <2>5. CASE WalkSkip(t) \/ WalkRequeue(t)
      BY <1>0, <1>2, <2>5 DEF WalkSkip, WalkRequeue, Looking
    <2>6. CASE Eagain1(t) \/ Eagain2(t) \/ WalkEnd(t) \/ WakeUnlock1(t) \/ WakeUnlock2(t)
      BY <1>0, <2>6 DEF Eagain1, Eagain2, WalkEnd, WakeUnlock1, WakeUnlock2
    <2> QED BY <2>1, <2>2, <2>3, <2>4, <2>5, <2>6 DEF Wake
  <1> QED BY <1>0, <1>1, <1>2, <1>3 DEF Others, CountInv, Inv

(* The waiters on w's word, and what the end of w's walk says of them.     *)
Left(w) == {t \in Thread : Linked(t) /\ waddr[t] = call[w].addr}
Completed(w) ==
  IF Requeues(w)
  THEN woken[w] <= call[w].count /\ (call[w].addr2 # call[w].addr => Left(w) = {})
  ELSE woken[w] = call[w].count \/ (woken[w] < call[w].count /\ Left(w) = {})

(* WakeComplete, in these terms.                                           *)
LEMMA Completes == WakeComplete <=> \A w \in Thread : pc[w] = "wake_unlock1" => Completed(w)
  BY DEF WakeComplete, Completed, Left

(* Once a walk is complete it stays so: nobody else has the bucket.        *)
LEMMA StaysComplete ==
  ASSUME WakeComplete, NEW w \in Thread, pc[w] = "wake_unlock1", call'[w] = call[w], woken'[w] = woken[w],
         \A u \in Thread : Linked(u)' /\ waddr'[u] = call[w].addr => Linked(u) /\ waddr[u] = call[w].addr
  PROVE  Completed(w)'
  <1>1. Completed(w)
    BY Completes
  <1>2. Left(w)' \subseteq Left(w)
    BY DEF Left
  <1>3. Requeues(w)' = Requeues(w)
    BY DEF Requeues
  <1> QED BY <1>1, <1>2, <1>3 DEF Completed

(* No step of futex_wait adds a waiter where a walk has just ended, ...    *)
LEMMA CompleteWait ==
  ASSUME NEW T, Inv(T), NEW t \in Thread, Wait(t) \/ WaitAborted(t)
  PROVE  WakeComplete'
  <1> USE DEF Goto, Return
  <1>0. /\ call' = call /\ Others(t) /\ cur' = cur /\ woken' = woken /\ pc'[t] \notin WakePC
        /\ pc \in [Thread -> ThreadPC] /\ waddr \in [Thread -> Addr]
    BY OthersWait, CountWait DEF Inv, TypeInv, TypeOK
  <1>1. ASSUME NEW w \in Thread, pc'[w] = "wake_unlock1"
        PROVE  Completed(w)'
    <2>1. w # t /\ pc[w] = "wake_unlock1"
      BY <1>0, <1>1 DEF Others, WakePC
    <2>2. ASSUME NEW u \in Thread, Linked(u)', waddr'[u] = call[w].addr
          PROVE  Linked(u) /\ waddr[u] = call[w].addr
      <3>1. CASE ~WaitAdd(t) /\ ~AbortRemove(t)
        BY <2>2, <3>1, LinkedWait
      <3>2. CASE AbortRemove(t)
        <4>1. waddr' = waddr /\ event' = event /\ pc'[t] = "abort_unlock"
          BY <1>0, <3>2 DEF AbortRemove
        <4>2. Linked(u)
          BY <1>0, <2>2, <4>1 DEF Linked, Notifying, Others
        <4> QED BY <2>2, <4>1, <4>2
      <3>3. CASE WaitAdd(t)
        <4>1. /\ waddr' = [waddr EXCEPT ![t] = call[t].addr] /\ event' = event /\ pc[t] = "wait_add"
          BY <3>3 DEF WaitAdd
        <4>2. u # t
          <5> SUFFICES ASSUME u = t PROVE FALSE
            OBVIOUS
          <5>1. Bucket1(t) = Bucket1(w)
            BY <1>0, <2>2, <4>1 DEF Bucket1
          <5>2. Holds(t, Bucket1(t)) /\ Holds(w, Bucket1(w)) /\ Bucket1(w) \in Bucket
            BY <2>1, <4>1, Held, CallInProgress DEF Inv, WakePC
          <5> QED BY <2>1, <5>1, <5>2 DEF Inv, BucketExclusion
        <4>3. Linked(u)
          BY <1>0, <2>2, <4>1, <4>2 DEF Linked, Notifying, Others
        <4> QED BY <2>2, <4>1, <4>2, <4>3
      <3> QED BY <3>1, <3>2, <3>3
    <2> QED BY <1>0, <2>1, <2>2, StaysComplete DEF Inv
  <1>2. \A w \in Thread : pc'[w] = "wake_unlock1" => Completed(w)'
    BY <1>1
  <1> QED BY <1>2 DEF WakeComplete, Completed, Left

(* ... and futex_wake_requeue does not end a walk too early.               *)
LEMMA CompleteWake ==
  ASSUME NEW T, Inv(T), NEW t \in Thread, Wake(t)
  PROVE  WakeComplete'
  <1> USE DEF Goto, Return
  <1>0. /\ call' = call /\ Others(t) /\ \A u \in Thread : u # t => woken'[u] = woken[u]
        /\ pc \in [Thread -> ThreadPC] /\ waddr \in [Thread -> Addr] /\ cur \in [Thread -> Thread \cup {Null}]
        /\ Null \notin Thread
    BY OthersWake, CountWake, FutexAssumption DEF Inv, TypeInv, TypeOK
  <1>1. ASSUME NEW w \in Thread, w # t, pc'[w] = "wake_unlock1"
        PROVE  Completed(w)'
    <2>1. pc[w] = "wake_unlock1"
      BY <1>0, <1>1 DEF Others
    <2>2. ASSUME NEW u \in Thread, Linked(u)', waddr'[u] = call[w].addr
          PROVE  Linked(u) /\ waddr[u] = call[w].addr
      <3>1. CASE WalkUnlink(t)
        <4>1. PICK n \in Thread : WalkUnlink(t)!(n)
          BY <3>1 DEF WalkUnlink
        <4>2. pc[t] = "walk" /\ cur[t] = Null /\ pc'[t] = "notify" /\ waddr' = waddr /\ event' = event
          BY <1>0, <4>1 DEF Looking, Inv, TypeInv, CallOK
        <4>3. Linked(u)
          BY <1>0, <2>2, <4>2 DEF Linked, Notifying, Others
        <4> QED BY <2>2, <4>2, <4>3
      <3>2. CASE ~WalkUnlink(t) /\ ~WalkRequeue(t)
        <4>1. waddr' = waddr
          BY <3>2 DEF Wake, WakeLock1, WakeLock2, WakeCompare, Eagain1, Eagain2, WalkEnd, WalkSkip,
                 Notify, WakeUnlock1, WakeUnlock2
        <4> QED BY <2>2, <3>2, <4>1, LinkedWake
      <3>3. CASE ~WalkUnlink(t) /\ WalkRequeue(t)
        <4>1. PICK n \in Thread : WalkRequeue(t)!(n)
          BY <3>3 DEF WalkRequeue
        <4>2. /\ pc[t] = "walk" /\ Requeues(t)
              /\ waddr'[n] = call[t].addr2 /\ \A v \in Thread : v # n => waddr'[v] = waddr[v]
          BY <1>0, <4>1 DEF Looking
        <4>3. u # n
          <5> SUFFICES ASSUME u = n PROVE FALSE
            OBVIOUS
          <5>1. Bucket2(t) = Bucket1(w)
            BY <2>2, <4>2 DEF Bucket1, Bucket2
          <5>2. Holds(t, Bucket2(t))
            BY <4>2, Held DEF TwoBuckets
          <5>3. Holds(w, Bucket1(w)) /\ Bucket1(w) \in Bucket
            BY <2>1, Held, CallInProgress DEF Inv, WakePC
          <5> QED BY <1>1, <5>1, <5>2, <5>3 DEF Inv, BucketExclusion
        <4> QED BY <2>2, <3>3, <4>2, <4>3, LinkedWake
      <3> QED BY <3>1, <3>2, <3>3
    <2> QED BY <1>0, <1>1, <2>1, <2>2, StaysComplete DEF Inv
  <1>2. ASSUME pc'[t] = "wake_unlock1" PROVE Completed(t)'
    <2>1. WalkEnd(t)
      BY <1>0, <1>2 DEF Wake, WakeLock1, WakeLock2, WakeCompare, Eagain1, Eagain2, WalkSkip, Looking, Locked,
             WalkRequeue, WalkUnlink, Notify, WakeUnlock1, WakeUnlock2
    <2>2. /\ pc[t] = "walk" /\ list' = list /\ waddr' = waddr /\ woken' = woken
          /\ (~Requeues(t) /\ woken[t] = call[t].count) \/ NextBlock(t) = Null
      BY <2>1 DEF WalkEnd, EnoughWoken
    <2>3. woken[t] <= call[t].count /\ woken[t] \in Nat /\ call[t].count \in Nat
      BY <2>2, CallInProgress DEF Inv, CountInv, WakePC, TypeInv, TypeOK
    <2>4. NextBlock(t) = Null => SameWord(t) \/ Left(t) = {}
      <3> SUFFICES ASSUME NextBlock(t) = Null, ~SameWord(t), NEW u \in Left(t) PROVE FALSE
        OBVIOUS
      <3>1. PICK len, q : Orders(len, q)
        BY DEF Inv, ListInv
      <3>2. PICK b \in Bucket : b = Bucket1(t)
        BY <2>2, CallInProgress DEF Inv, WakePC
      <3>3. len[b] \in Nat /\ Chain(list, b, len[b], q[b])
        BY <3>1 DEF Orders, Chains
      <3>4. PICK k \in 0 .. len[b] : Scanned(t, k, q[b])
        BY <2>2, <3>1, <3>2 DEF Orders
      <3>5. u \in Thread /\ Linked(u) /\ waddr[u] = call[t].addr
        BY DEF Left
      <3>6. PICK i \in 1 .. len[b] : q[b][i] = u
        BY <3>1, <3>2, <3>5 DEF Orders, Has, Bucket1
      <3>7. k # len[b]
        BY <3>4, <3>5, <3>6 DEF Scanned
      <3>8. k + 1 \in 1 .. len[b] /\ k \in Nat
        BY <3>3, <3>4, <3>7
      <3>9. q[b][k + 1] = Null
        <4>1. CASE k = 0
          BY <3>2, <3>3, <3>4, <3>7, <4>1 DEF Scanned, Chain, NextBlock
        <4>2. CASE k # 0
          <5>1. k \in 1 .. len[b] /\ prev[t] = q[b][k]
            BY <3>3, <3>4, <3>8, <4>2 DEF Scanned
          <5>2. prev[t] # Null /\ list.next[prev[t]] = q[b][k + 1]
            BY <1>0, <3>3, <3>7, <5>1 DEF Chain
          <5> QED BY <5>2 DEF NextBlock
        <4> QED BY <4>1, <4>2
      <3> QED BY <1>0, <3>3, <3>8, <3>9 DEF Chain
    <2>5. Left(t)' = Left(t) /\ Requeues(t)' = Requeues(t)
      <3>1. ~WalkUnlink(t)
        BY <1>0, <2>1, <1>2 DEF WalkUnlink
      <3>2. \A u \in Thread : Linked(u)' <=> Linked(u)
        BY <3>1, LinkedWake
      <3> QED BY <1>0, <2>2, <3>2 DEF Left, Requeues
    <2> QED BY <1>0, <2>2, <2>3, <2>4, <2>5 DEF Completed, SameWord
  <1>3. \A w \in Thread : pc'[w] = "wake_unlock1" => Completed(w)'
    BY <1>1, <1>2
  <1> QED BY <1>3 DEF WakeComplete, Completed, Left

-----------------------------------------------------------------------------
(* A step that leaves all this alone keeps the invariant's parts.          *)
LEMMA SameState ==
  ASSUME NEW T, Inv(T), UNCHANGED <<spin, list, waddr, event, pc, call, prev, cur, woken>>
  PROVE  HomeInv(T)' /\ BlockInv' /\ CountInv' /\ ListInv' /\ WakeComplete'
  <1> USE DEF Inv
  <1>0. /\ \A t \in Thread : /\ Linked(t)' <=> Linked(t)
                             /\ Requeues(t)' <=> Requeues(t)
                             /\ Notifying(t)' <=> Notifying(t)
                             /\ Bucket1(t)' = Bucket1(t)
    BY DEF Linked, Requeues, Notifying, Bucket1
  <1>1. HomeInv(T)'
    BY <1>0 DEF HomeInv
  <1>2. BlockInv'
    BY <1>0 DEF BlockInv, NoStaleWake
  <1>3. CountInv'
    BY DEF CountInv
  <1>4. ListInv'
    <2>1. PICK len, q : Orders(len, q)
      BY DEF ListInv
    <2>2. \A w \in Thread : \A k, s : Scanned(w, k, s)' <=> Scanned(w, k, s)
      BY DEF Scanned, SameWord, Requeues, EnoughWoken
    <2>3. Orders(len, q)'
      BY <1>0, <2>1, <2>2 DEF Orders
    <2> QED BY <2>3 DEF ListInv
  <1>5. WakeComplete'
    BY <1>0 DEF WakeComplete
  <1> QED BY <1>1, <1>2, <1>3, <1>4, <1>5

(* A thread that enters a call was in no bucket and on no list.            *)
LEMMA EnterStep ==
  ASSUME NEW T, Inv(T), NEW t \in Thread, NEW c \in Calls[t], Enter(t, c)
  PROVE  HomeInv(T)' /\ BlockInv' /\ CountInv' /\ ListInv' /\ WakeComplete'
  <1> USE DEF Inv
  <1>0. /\ pc[t] = "user" /\ pc'[t] \in {"wait_lock", "wake_lock1"}
        /\ UNCHANGED <<spin, list, waddr, event, prev, cur, woken>>
        /\ \A u \in Thread : u # t => pc'[u] = pc[u] /\ call'[u] = call[u]
        /\ Null \notin Thread /\ cur \in [Thread -> Thread \cup {Null}] /\ Others(t)
    BY FutexAssumption DEF Enter, Goto, TypeInv, TypeOK, Others
  <1>1. \A u \in Thread : (Notifying(u)' <=> Notifying(u)) /\ (Linked(u)' <=> Linked(u))
    BY <1>0 DEF Notifying, Linked
  <1>2. HomeInv(T)'
    BY <1>0 DEF HomeInv, InWait, Aborted, Bucket1
  <1>3. BlockInv'
    <2>1. NoStaleWake'
      BY <1>0 DEF BlockInv, NoStaleWake
    <2>2. \A u \in Thread : pc'[u] = "abort_remove" => ~event'[u] /\ ~Notifying(u)'
      BY <1>0, <1>1 DEF BlockInv
    <2>3. ASSUME NEW w \in Thread, cur'[w] # Null
          PROVE  /\ pc'[cur'[w]] \in {"wait_unlock", "blocked", "abort_lock"}
                 /\ ~event'[cur'[w]] /\ waddr'[cur'[w]] = call'[w].addr
      <3>1. w # t /\ cur[w] # Null /\ cur[w] \in Thread /\ cur[w] # t
        BY <1>0, <2>3 DEF TypeInv, CallOK, BlockInv
      <3> QED BY <1>0, <3>1 DEF BlockInv
    <2> QED BY <2>1, <2>2, <2>3, Zenon DEF BlockInv
  <1>4. CountInv'
    BY <1>0 DEF CountInv
  <1>5. ListInv'
    <2>1. PICK len, q : Orders(len, q)
      BY DEF ListInv
    <2>2. OwnWalk(t, len, q)
      BY <1>0 DEF OwnWalk
    <2> QED BY <1>0, <1>1, <2>1, <2>2, QuietOrders DEF ListInv
  <1>6. WakeComplete'
    <2>1. ASSUME NEW w \in Thread, pc'[w] = "wake_unlock1" PROVE Completed(w)'
      <3>1. pc[w] = "wake_unlock1" /\ call'[w] = call[w]
        BY <1>0, <2>1
      <3> QED BY <1>0, <1>1, <3>1, StaysComplete
    <2> QED BY <2>1 DEF WakeComplete, Completed, Left
  <1> QED BY <1>2, <1>3, <1>4, <1>5, <1>6

(* Every list is empty, and nobody waits, to begin with.                   *)
LEMMA InitInv ==
  ASSUME NEW T, Init
  PROVE  Inv(T)
  <1>0. \A t \in Thread : pc[t] = "user" /\ ~event[t] /\ cur[t] = Null /\ ~Linked(t)
    BY DEF Init, Linked
  <1>1. TypeInv /\ BucketExclusion
    BY InitType, InitExclusion
  <1>2. HomeInv(T) /\ BlockInv /\ CountInv /\ WakeComplete
    BY <1>0 DEF HomeInv, InWait, Aborted, BlockInv, NoStaleWake, CountInv, WakeComplete
  <1>3. ListInv
    <2> DEFINE len == [b \in Bucket |-> 0]
               q == [b \in Bucket |-> <<>>]
    <2>1. \A b \in Bucket : len[b] = 0 /\ list.head[b] = Null /\ list.tail[b] = Null
      BY DEF Init, EmptyHeap
    <2> HIDE DEF len, q
    <2>2. \A b \in Bucket : 1 .. len[b] = {}
      BY <2>1
    <2>3. \A b \in Bucket, u \in Thread : ~Has(len, q, b, u)
      BY <2>2 DEF Has
    <2>4. Chains(list, len, q)
      BY <2>1, <2>2, <2>3 DEF Chains, Chain
    <2>5. Orders(len, q)
      BY <1>0, <2>3, <2>4 DEF Orders
    <2> QED BY <2>5 DEF ListInv
  <1> QED BY <1>1, <1>2, <1>3 DEF Inv

(* The invariant is inductive.                                             *)
LEMMA StepInv ==
  ASSUME NEW T, TimedWordsStay(T), CmpRequeuesCrossBuckets
  PROVE  Inv(T) /\ [Next]_vars => Inv(T)'
  <1> SUFFICES ASSUME Inv(T), [Next]_vars PROVE Inv(T)'
    OBVIOUS
  <1>1. TypeInv' /\ BucketExclusion'
    BY StepType, StepExclusion DEF Inv
  <1>2. HomeInv(T)' /\ BlockInv' /\ CountInv' /\ ListInv' /\ WakeComplete'
    <2>1. CASE UNCHANGED vars
      BY <2>1, SameState DEF vars
    <2>2. ASSUME NEW t \in Thread, NEW s \in Stores, Store(t, s[2], s[3])
          PROVE  HomeInv(T)' /\ BlockInv' /\ CountInv' /\ ListInv' /\ WakeComplete'
      BY <2>2, SameState DEF Store
    <2>3. ASSUME NEW t \in Thread, NEW c \in Calls[t], Enter(t, c)
          PROVE  HomeInv(T)' /\ BlockInv' /\ CountInv' /\ ListInv' /\ WakeComplete'
      BY <2>3, EnterStep
    <2>4. ASSUME NEW t \in Thread, Wait(t) \/ WaitAborted(t)
          PROVE  HomeInv(T)' /\ BlockInv' /\ CountInv' /\ ListInv' /\ WakeComplete'
      BY <2>4, HomeWait, BlockWait, CountWait, ListWait, CompleteWait
    <2>5. ASSUME NEW t \in Thread, Wake(t)
          PROVE  HomeInv(T)' /\ BlockInv' /\ CountInv' /\ ListInv' /\ WakeComplete'
      BY <2>5, HomeWake, BlockWake, CountWake, ListWake, CompleteWake
    <2> QED BY <2>1, <2>2, <2>3, <2>4, <2>5 DEF Next, Environment
  <1> QED BY <1>1, <1>2 DEF Inv

(* What the invariant says of the lists as list_iterate finds them, ...    *)
LEMMA InvLists ==
  ASSUME NEW T, Inv(T)
  PROVE  ListsExact /\ AbortRemovesUs
  <1>1. PICK len, q : Orders(len, q)
    BY DEF Inv, ListInv
  <1>2. ASSUME NEW b \in Bucket
        PROVE  /\ ProperList(list, b, Members(b))
               /\ Walk(list, b) = [i \in 1 .. len[b] |-> q[b][i]]
               /\ {q[b][i] : i \in 1 .. len[b]} = Members(b)
    <2> DEFINE m == len[b]
               s == q[b]
    <2>1. list \in HeapType(Bucket, Thread) /\ m \in Nat /\ Chain(list, b, m, s)
      BY <1>1 DEF Orders, Chains, Inv, TypeInv, TypeOK
    <2>2. {s[i] : i \in 1 .. m} = Members(b)
      <3>1. \A i \in 1 .. m : s[i] \in Thread
        BY <2>1 DEF Chain
      <3> QED BY <1>1, <3>1 DEF Orders, Has, Members
    <2> HIDE DEF m, s
    <2>3. Walk(list, b) = [i \in 1 .. m |-> s[i]]
      BY <2>1, WalkChain
    <2>4. ProperList(list, b, Members(b))
      BY <2>1, <2>2, ProperChain
    <2> QED BY <2>2, <2>3, <2>4 DEF m, s
  <1>3. ASSUME NEW b \in Bucket, NEW w, w = Walk(list, b)
        PROVE  {w[i] : i \in DOMAIN w} = Members(b)
    <2>1. DOMAIN w = 1 .. len[b] /\ \A i \in 1 .. len[b] : w[i] = q[b][i]
      BY <1>2, <1>3
    <2> QED BY <1>2, <2>1
  <1>4. ListsExact
    BY <1>2, <1>3 DEF ListsExact
  <1>5. ASSUME NEW t \in Thread, NEW b \in Bucket, pc[t] = "abort_unlock", NEW w, w = Walk(list, b)
        PROVE  \A i \in DOMAIN w : w[i] # t
    <2>1. t \notin Members(b)
      BY <1>5 DEF Members, Linked
    <2> QED BY <1>3, <1>5, <2>1
  <1> QED BY <1>4, <1>5 DEF AbortRemovesUs

(* ... and of the blocks a waker points to.                                *)
LEMMA InvAlive ==
  ASSUME NEW T, Inv(T)
  PROVE  BlocksAlive
  <1> SUFFICES ASSUME NEW w \in Thread, pc[w] \in {"walk", "notify"}
               PROVE  /\ prev[w] # Null => Linked(prev[w])
                      /\ pc[w] = "notify" =>
                           pc[cur[w]] \in {"wait_unlock", "blocked", "abort_lock"} /\ ~event[cur[w]]
    BY Zenon DEF BlocksAlive
  <1>1. prev[w] # Null => Linked(prev[w])
    <2>1. PICK len, q : Orders(len, q)
      BY DEF Inv, ListInv
    <2>2. PICK b \in Bucket : b = Bucket1(w)
      BY CallInProgress DEF Inv, WakePC
    <2>3. len[b] \in Nat /\ Chain(list, b, len[b], q[b])
      BY <2>1 DEF Orders, Chains
    <2>4. PICK k \in 0 .. len[b] : Scanned(w, k, q[b])
      BY <2>1, <2>2 DEF Orders
    <2>5. prev[w] # Null => k \in 1 .. len[b] /\ prev[w] = q[b][k] /\ q[b][k] \in Thread
      BY <2>3, <2>4 DEF Scanned, Chain
    <2>6. prev[w] # Null => prev[w] \in Thread /\ Has(len, q, b, prev[w])
      BY <2>5 DEF Has
    <2> QED BY <2>1, <2>6 DEF Orders
  <1>2. pc[w] = "notify" => pc[cur[w]] \in {"wait_unlock", "blocked", "abort_lock"} /\ ~event[cur[w]]
    BY DEF Inv, TypeInv, CallOK, BlockInv
  <1> QED BY <1>1, <1>2

(* The calls for which waits that may time out are found again: there is   *)
(* a set of words, with those on which such waits are made, that no        *)
(* requeue leads from to another bucket.                                   *)
TimedBlocksStay == \E T \in SUBSET Addr : TimedWordsStay(T)

(* The invariant holds in every state of such calls.                       *)
LEMMA InvHolds ==
  ASSUME NEW T, TimedWordsStay(T), CmpRequeuesCrossBuckets
  PROVE  Spec => []Inv(T)
  <1>1. Init => Inv(T)
    BY InitInv
  <1>2. Inv(T) /\ [Next]_vars => Inv(T)'
    BY StepInv
  <1> QED BY <1>1, <1>2, PTL DEF Spec

(* However many threads wait, wake, requeue and time out on whatever words, *)
(* the list of every bucket consists of exactly the waiters of its words.  *)
THEOREM ListsHoldWaiters == CmpRequeuesCrossBuckets /\ TimedBlocksStay => (Spec => []ListsExact)
  <1> SUFFICES ASSUME CmpRequeuesCrossBuckets, NEW T \in SUBSET Addr, TimedWordsStay(T)
               PROVE  Spec => []ListsExact
    BY DEF TimedBlocksStay
  <1>1. Spec => []Inv(T)
    BY InvHolds
  <1>2. Inv(T) => ListsExact
    BY InvLists
  <1> QED BY <1>1, <1>2, PTL

(* A wake that races with a timeout is never left for the next wait.       *)
THEOREM WakesAreConsumed == CmpRequeuesCrossBuckets /\ TimedBlocksStay => (Spec => []NoStaleWake)
  <1> SUFFICES ASSUME CmpRequeuesCrossBuckets, NEW T \in SUBSET Addr, TimedWordsStay(T)
               PROVE  Spec => []NoStaleWake
    BY DEF TimedBlocksStay
  <1>1. Spec => []Inv(T)
    BY InvHolds
  <1>2. Inv(T) => NoStaleWake
    BY DEF Inv, BlockInv
  <1> QED BY <1>1, <1>2, PTL

(* futex_wake_requeue never points into the stack frame of a wait that is  *)
(* over.                                                                   *)
THEOREM PointersAreAlive == CmpRequeuesCrossBuckets /\ TimedBlocksStay => (Spec => []BlocksAlive)
  <1> SUFFICES ASSUME CmpRequeuesCrossBuckets, NEW T \in SUBSET Addr, TimedWordsStay(T)
               PROVE  Spec => []BlocksAlive
    BY DEF TimedBlocksStay
  <1>1. Spec => []Inv(T)
    BY InvHolds
  <1>2. Inv(T) => BlocksAlive
    BY InvAlive
  <1> QED BY <1>1, <1>2, PTL

(* A walk ends with as many waiters woken as were asked for, or with none  *)
(* left on the word.                                                       *)
THEOREM WalksAreComplete == CmpRequeuesCrossBuckets /\ TimedBlocksStay => (Spec => []WakeComplete)
  <1> SUFFICES ASSUME CmpRequeuesCrossBuckets, NEW T \in SUBSET Addr, TimedWordsStay(T)
               PROVE  Spec => []WakeComplete
    BY DEF TimedBlocksStay
  <1>1. Spec => []Inv(T)
    BY InvHolds
  <1>2. Inv(T) => WakeComplete
    BY DEF Inv
  <1> QED BY <1>1, <1>2, PTL

(* A wait that was aborted has taken itself off its list: what goes wrong  *)
(* without TimedBlocksStay (run FutexStaleBucket) goes wrong only then.  *)
THEOREM AbortsUnlink == CmpRequeuesCrossBuckets /\ TimedBlocksStay => (Spec => []AbortRemovesUs)
  <1> SUFFICES ASSUME CmpRequeuesCrossBuckets, NEW T \in SUBSET Addr, TimedWordsStay(T)
               PROVE  Spec => []AbortRemovesUs
    BY DEF TimedBlocksStay
  <1>1. Spec => []Inv(T)
    BY InvHolds
  <1>2. Inv(T) => AbortRemovesUs
    BY InvLists
  <1> QED BY <1>1, <1>2, PTL

-----------------------------------------------------------------------------
(* The word queues. *)

(* Q lists the threads of S, each once, in the order R.                    *)
Sorted(Q, S, R) ==
  /\ Q \in Seq(Thread)
  /\ \A u \in Thread : (\E i \in 1 .. Len(Q) : Q[i] = u) <=> u \in S
  /\ \A i, j \in 1 .. Len(Q) : i < j => <<Q[i], Q[j]>> \in R

StrictOrder(R) ==
  /\ \A u, v \in Thread : <<u, v>> \in R => <<v, u>> \notin R
  /\ \A u, v, w \in Thread : <<u, v>> \in R /\ <<v, w>> \in R => <<u, w>> \in R

(* The order of the chain s[1] to s[m], and its blocks of word x.          *)
Order(m, s) == {p \in Thread \X Thread : \E i, j \in 1 .. m : i < j /\ p = <<s[i], s[j]>>}
On(m, s, addr, x) == {u \in Thread : addr[u] = x /\ \E i \in 1 .. m : s[i] = u}

(* P and Q have the same elements before position i.                       *)
Agree(Q, P, i) == \A j \in 1 .. i - 1 : j \in 1 .. Len(P) /\ P[j] = Q[j]

(* Where two such lists first differ, each has an element of the other     *)
(* ahead of its own.                                                       *)
LEMMA SortedAhead ==
  ASSUME NEW S, NEW R, StrictOrder(R), NEW Q, NEW P, Sorted(Q, S, R), Sorted(P, S, R),
         NEW i \in 1 .. Len(Q), Agree(Q, P, i)
  PROVE  i \in 1 .. Len(P) /\ (P[i] = Q[i] \/ <<P[i], Q[i]>> \in R)
  <1>1. Q \in Seq(Thread) /\ P \in Seq(Thread) /\ Len(Q) \in Nat /\ Len(P) \in Nat /\ i \in Nat
    BY DEF Sorted
  <1>2. Q[i] \in Thread /\ Q[i] \in S
    BY <1>1 DEF Sorted
  <1>3. PICK j \in 1 .. Len(P) : P[j] = Q[i]
    BY <1>2 DEF Sorted
  <1>4. ~(j < i)
    <2> SUFFICES ASSUME j < i PROVE FALSE
      OBVIOUS
    <2>1. j \in 1 .. i - 1 /\ j \in 1 .. Len(Q)
      BY <1>1
    <2>2. Q[j] = Q[i] /\ <<Q[j], Q[i]>> \in R
      BY <1>3, <2>1 DEF Sorted, Agree
    <2> QED BY <1>2, <2>2 DEF StrictOrder
  <1>5. i \in 1 .. Len(P)
    BY <1>1, <1>4
  <1>6. i = j \/ i < j
    BY <1>1, <1>4
  <1> QED BY <1>3, <1>5, <1>6 DEF Sorted

(* So there is only one.                                                   *)
LEMMA SortedUnique ==
  ASSUME NEW S, NEW R, StrictOrder(R), NEW Q, NEW P, Sorted(Q, S, R), Sorted(P, S, R)
  PROVE  Q = P
  <1> DEFINE D == {i \in Nat \ {0} : /\ i <= Len(Q) \/ i <= Len(P)
                                     /\ ~(i <= Len(Q) /\ i <= Len(P) /\ Q[i] = P[i])}
  <1>1. Q \in Seq(Thread) /\ P \in Seq(Thread) /\ Len(Q) \in Nat /\ Len(P) \in Nat
    BY DEF Sorted
  <1>2. D = {}
    <2> SUFFICES ASSUME D # {} PROVE FALSE
      OBVIOUS
    <2>1. D \in SUBSET Nat
      OBVIOUS
    <2>2. PICK i \in D : \A j \in D : i <= j
      <3> HIDE DEF D
      <3> QED BY <2>1, LeastNat
    <2>3. i \in Nat /\ i # 0 /\ (i <= Len(Q) \/ i <= Len(P)) /\ ~(i <= Len(Q) /\ i <= Len(P) /\ Q[i] = P[i])
      BY <2>2
    <2>4. \A j \in 1 .. i - 1 : j \in 1 .. Len(Q) /\ j \in 1 .. Len(P) /\ P[j] = Q[j]
      <3> SUFFICES ASSUME NEW j \in 1 .. i - 1
                   PROVE  j \in 1 .. Len(Q) /\ j \in 1 .. Len(P) /\ P[j] = Q[j]
        OBVIOUS
      <3>1. j \in Nat /\ j # 0 /\ j < i /\ (j <= Len(Q) \/ j <= Len(P))
        BY <1>1, <2>3
      <3>2. j \notin D
        <4> HIDE DEF D
        <4> QED BY <2>1, <2>2, <3>1
      <3> QED BY <1>1, <3>1, <3>2
    <2> HIDE DEF D
    <2>5. ASSUME i \in 1 .. Len(Q) PROVE FALSE
      <3>0. Agree(Q, P, i)
        BY <2>4 DEF Agree
      <3>1. i \in 1 .. Len(P) /\ (P[i] = Q[i] \/ <<P[i], Q[i]>> \in R)
        BY <2>5, <3>0, SortedAhead
      <3>a. Agree(P, Q, i)
        BY <2>4 DEF Agree
      <3>2. Q[i] = P[i] \/ <<Q[i], P[i]>> \in R
        BY <3>1, <3>a, SortedAhead
      <3>3. Q[i] \in Thread /\ P[i] \in Thread
        BY <1>1, <2>5, <3>1
      <3>4. Q[i] = P[i]
        BY <3>1, <3>2, <3>3 DEF StrictOrder
      <3> QED BY <1>1, <2>3, <2>5, <3>1, <3>4
    <2>6. ASSUME i \in 1 .. Len(P) PROVE FALSE
      <3>a. Agree(P, Q, i)
        BY <2>4 DEF Agree
      <3>1. i \in 1 .. Len(Q)
        BY <2>6, <3>a, SortedAhead
      <3> QED BY <2>5, <3>1
    <2> QED BY <1>1, <2>3, <2>5, <2>6
  <1>3. \A i \in Nat \ {0} : i <= Len(Q) \/ i <= Len(P) => i <= Len(Q) /\ i <= Len(P) /\ Q[i] = P[i]
    BY <1>2
  <1> HIDE DEF D
  <1>4. Len(Q) = Len(P)
    <2>1. Len(Q) # 0 => Len(Q) <= Len(P)
      BY <1>1, <1>3
    <2>2. Len(P) # 0 => Len(P) <= Len(Q)
      BY <1>1, <1>3
    <2> QED BY <1>1, <2>1, <2>2
  <1>5. \A i \in 1 .. Len(Q) : Q[i] = P[i]
    BY <1>1, <1>3
  <1> QED BY <1>1, <1>4, <1>5

(* A list stays sorted where the order it is in is kept.                   *)
LEMMA SortedFrame ==
  ASSUME NEW S, NEW R, NEW Q, Sorted(Q, S, R), NEW O,
         \A u, v \in Thread : u \in S /\ v \in S /\ <<u, v>> \in R => <<u, v>> \in O
  PROVE  Sorted(Q, S, O)
  <1>1. \A i \in 1 .. Len(Q) : Q[i] \in Thread /\ Q[i] \in S
    BY DEF Sorted
  <1> QED BY <1>1 DEF Sorted

(* The last of all is appended.                                            *)
LEMMA SortedAppend ==
  ASSUME NEW S, NEW R, NEW Q, Sorted(Q, S, R), NEW n \in Thread,
         \A u \in Thread : u \in S => <<u, n>> \in R
  PROVE  Sorted(Append(Q, n), S \cup {n}, R)
  <1> DEFINE A == Append(Q, n)
  <1>1. Q \in Seq(Thread) /\ Len(Q) \in Nat /\ \A i \in 1 .. Len(Q) : Q[i] \in Thread /\ Q[i] \in S
    BY DEF Sorted
  <1>2. /\ A \in Seq(Thread) /\ Len(A) = Len(Q) + 1 /\ A[Len(Q) + 1] = n
        /\ \A i \in 1 .. Len(Q) : A[i] = Q[i]
    BY <1>1
  <1> HIDE DEF A
  <1>3. \A i : i \in 1 .. Len(A) <=> i \in 1 .. Len(Q) \/ i = Len(Q) + 1
    BY <1>1, <1>2
  <1>4. \A u \in Thread : (\E i \in 1 .. Len(A) : A[i] = u) <=> u \in S \cup {n}
    <2> SUFFICES ASSUME NEW u \in Thread
                 PROVE  (\E i \in 1 .. Len(A) : A[i] = u) <=> u \in S \cup {n}
      OBVIOUS
    <2>1. u \in S <=> \E i \in 1 .. Len(Q) : A[i] = u
      BY <1>2 DEF Sorted
    <2> QED BY <1>2, <1>3, <2>1
  <1>5. ASSUME NEW i \in 1 .. Len(A), NEW j \in 1 .. Len(A), i < j PROVE <<A[i], A[j]>> \in R
    <2>1. i \in 1 .. Len(Q)
      BY <1>1, <1>2, <1>5
    <2>2. CASE j \in 1 .. Len(Q)
      BY <1>2, <1>5, <2>1, <2>2 DEF Sorted
    <2>3. CASE j = Len(Q) + 1
      BY <1>1, <1>2, <2>1, <2>3
    <2> QED BY <1>3, <2>2, <2>3
  <1>6. Sorted(A, S \cup {n}, R)
    BY <1>2, <1>4, <1>5 DEF Sorted
  <1> QED BY <1>6 DEF A

(* The first of all is the head.                                           *)
LEMMA SortedHead ==
  ASSUME NEW S, NEW R, StrictOrder(R), NEW Q, Sorted(Q, S, R), NEW n \in Thread, n \in S,
         \A u \in Thread : u \in S => u = n \/ <<n, u>> \in R
  PROVE  Q # <<>> /\ Head(Q) = n
  <1>1. Q \in Seq(Thread) /\ Len(Q) \in Nat /\ \A i \in 1 .. Len(Q) : Q[i] \in Thread /\ Q[i] \in S
    BY DEF Sorted
  <1>2. PICK i \in 1 .. Len(Q) : Q[i] = n
    BY DEF Sorted
  <1>3. 1 \in 1 .. Len(Q) /\ Q # <<>> /\ Head(Q) = Q[1] /\ i \in Nat
    BY <1>1, <1>2
  <1>4. CASE i # 1
    <2>1. <<Q[1], n>> \in R
      BY <1>1, <1>2, <1>3, <1>4 DEF Sorted
    <2>2. Q[1] = n \/ <<n, Q[1]>> \in R
      BY <1>1, <1>3
    <2> QED BY <1>1, <1>3, <2>1, <2>2 DEF StrictOrder
  <1> QED BY <1>2, <1>3, <1>4

(* A concatenation has the elements of both sequences.                     *)
LEMMA Joined ==
  ASSUME NEW B \in Seq(Thread), NEW C \in Seq(Thread)
  PROVE  /\ B \o C \in Seq(Thread) /\ Len(B \o C) = Len(B) + Len(C)
         /\ \A j \in 1 .. Len(B) + Len(C) : (B \o C)[j] = IF j <= Len(B) THEN B[j] ELSE C[j - Len(B)]
  OBVIOUS

(* Taking an element out.                                                  *)
LEMMA SortedRemove ==
  ASSUME NEW S, NEW R, StrictOrder(R), NEW Q, Sorted(Q, S, R), NEW i \in 1 .. Len(Q)
  PROVE  Sorted(Queue!RemoveAt(Q, i), S \ {Q[i]}, R)
  <1> DEFINE A == Queue!RemoveAt(Q, i)
  <1>1. /\ Q \in Seq(Thread) /\ Len(Q) \in Nat /\ i \in Nat
        /\ \A j \in 1 .. Len(Q) : Q[j] \in Thread /\ Q[j] \in S
    BY DEF Sorted
  <1>2. /\ A \in Seq(Thread) /\ Len(A) = Len(Q) - 1
        /\ \A j \in 1 .. Len(Q) - 1 : A[j] = IF j < i THEN Q[j] ELSE Q[j + 1]
    <2> DEFINE B == SubSeq(Q, 1, i - 1)
               C == SubSeq(Q, i + 1, Len(Q))
    <2>1. /\ B \in Seq(Thread) /\ Len(B) = i - 1 /\ \A j \in 1 .. i - 1 : B[j] = Q[j]
      BY <1>1
    <2>2. /\ C \in Seq(Thread) /\ Len(C) = Len(Q) - i
          /\ \A j \in 1 .. Len(Q) - i : C[j] = Q[i + j]
      BY <1>1
    <2>3. A = B \o C
      BY DEF Queue!RemoveAt
    <2> HIDE DEF A, B, C
    <2>4. /\ B \o C \in Seq(Thread) /\ Len(B \o C) = Len(Q) - 1
          /\ \A j \in 1 .. Len(Q) - 1 : (B \o C)[j] = IF j < i THEN B[j] ELSE C[j - (i - 1)]
      <3>1. /\ B \o C \in Seq(Thread) /\ Len(B \o C) = Len(B) + Len(C)
            /\ \A j \in 1 .. Len(B) + Len(C) : (B \o C)[j] = IF j <= Len(B) THEN B[j] ELSE C[j - Len(B)]
        BY <2>1, <2>2, Joined
      <3>2. Len(B) + Len(C) = Len(Q) - 1 /\ \A j \in 1 .. Len(Q) - 1 : j <= Len(B) <=> j < i
        BY <1>1, <2>1, <2>2
      <3> QED BY <2>1, <3>1, <3>2
    <2>5. ASSUME NEW j \in 1 .. Len(Q) - 1 PROVE A[j] = IF j < i THEN Q[j] ELSE Q[j + 1]
      <3>1. CASE j < i
        BY <1>1, <2>1, <2>3, <2>4, <3>1
      <3>2. CASE ~(j < i)
        <4>1. j - (i - 1) \in 1 .. Len(Q) - i /\ i + (j - (i - 1)) = j + 1
          BY <1>1, <3>2
        <4> QED BY <2>2, <2>3, <2>4, <3>2, <4>1
      <3> QED BY <3>1, <3>2
    <2> QED BY <2>3, <2>4, <2>5
  <1> HIDE DEF A
  <1> DEFINE f(j) == IF j < i THEN j ELSE j + 1
  <1>3. \A j \in 1 .. Len(A) : f(j) \in 1 .. Len(Q) /\ f(j) # i /\ A[j] = Q[f(j)]
    BY <1>1, <1>2
  <1>4. \A j, k \in 1 .. Len(A) : j < k => f(j) < f(k)
    BY <1>1, <1>2
  <1>5. \A j \in 1 .. Len(Q) : j # i => \E k \in 1 .. Len(A) : f(k) = j
    <2> SUFFICES ASSUME NEW j \in 1 .. Len(Q), j # i PROVE \E k \in 1 .. Len(A) : f(k) = j
      OBVIOUS
    <2>1. CASE j < i
      <3>1. j \in 1 .. Len(A) /\ f(j) = j
        BY <1>1, <1>2, <2>1
      <3> HIDE DEF f
      <3> QED BY <3>1
    <2>2. CASE j > i
      <3>1. j - 1 \in 1 .. Len(A) /\ f(j - 1) = j
        BY <1>1, <1>2, <2>2
      <3> HIDE DEF f
      <3> QED BY <3>1
    <2> QED BY <1>1, <2>1, <2>2
  <1> HIDE DEF f
  <1>6. \A j \in 1 .. Len(Q) : Q[j] = Q[i] => j = i
    <2> SUFFICES ASSUME NEW j \in 1 .. Len(Q), Q[j] = Q[i], j # i PROVE FALSE
      OBVIOUS
    <2>1. j < i \/ i < j
      BY <1>1
    <2>2. <<Q[i], Q[i]>> \in R
      BY <2>1 DEF Sorted
    <2> QED BY <1>1, <2>2 DEF StrictOrder
  <1>7. \A u \in Thread : (\E j \in 1 .. Len(A) : A[j] = u) <=> u \in S \ {Q[i]}
    <2> SUFFICES ASSUME NEW u \in Thread
                 PROVE  (\E j \in 1 .. Len(A) : A[j] = u) <=> u \in S \ {Q[i]}
      OBVIOUS
    <2>1. ASSUME NEW j \in 1 .. Len(A), A[j] = u PROVE u \in S \ {Q[i]}
      BY <1>1, <1>3, <1>6, <2>1
    <2>2. ASSUME u \in S \ {Q[i]} PROVE \E j \in 1 .. Len(A) : A[j] = u
      <3>1. PICK j \in 1 .. Len(Q) : Q[j] = u
        BY <2>2 DEF Sorted
      <3>2. PICK k \in 1 .. Len(A) : f(k) = j
        BY <1>5, <2>2, <3>1
      <3> QED BY <1>3, <3>1, <3>2
    <2> QED BY <2>1, <2>2
  <1>8. \A j, k \in 1 .. Len(A) : j < k => <<A[j], A[k]>> \in R
    BY <1>3, <1>4 DEF Sorted
  <1>9. Sorted(A, S \ {Q[i]}, R)
    BY <1>2, <1>7, <1>8 DEF Sorted
  <1> QED BY <1>9 DEF A

(* The tail is the list without its head.                                  *)
LEMMA TailRemoves ==
  ASSUME NEW Q \in Seq(Thread), Q # <<>>
  PROVE  1 \in 1 .. Len(Q) /\ Head(Q) = Q[1] /\ Queue!RemoveAt(Q, 1) = Tail(Q)
  <1> DEFINE B == SubSeq(Q, 1, 0)
             C == SubSeq(Q, 2, Len(Q))
  <1>1. B = <<>> /\ C = Tail(Q) /\ C \in Seq(Thread)
    OBVIOUS
  <1>2. Queue!RemoveAt(Q, 1) = B \o C
    BY DEF Queue!RemoveAt
  <1> HIDE DEF B, C
  <1>3. B \o C = C
    BY <1>1
  <1> QED BY <1>1, <1>2, <1>3

(* Putting an element in at its place.                                     *)
LEMMA SortedInsert ==
  ASSUME NEW S, NEW R, StrictOrder(R), NEW Q, Sorted(Q, S, R), NEW n \in Thread,
         \A u \in Thread : u \in S => <<u, n>> \in R \/ <<n, u>> \in R
  PROVE  \E i \in 1 .. Len(Q) + 1 : Sorted(Queue!InsertAt(Q, i, n), S \cup {n}, R)
  <1>1. /\ Q \in Seq(Thread) /\ Len(Q) \in Nat
        /\ \A j \in 1 .. Len(Q) : Q[j] \in Thread /\ Q[j] \in S
    BY DEF Sorted
  <1> DEFINE D == {i \in 1 .. Len(Q) + 1 : i = Len(Q) + 1 \/ <<n, Q[i]>> \in R}
  <1>2. PICK i \in D : \A j \in D : i <= j
    <2>1. D \in SUBSET Nat /\ Len(Q) + 1 \in D
      BY <1>1
    <2> HIDE DEF D
    <2> QED BY <2>1, LeastNat
  <1>3. i \in 1 .. Len(Q) + 1 /\ i \in Nat
    BY <1>1
  <1>4. \A j \in 1 .. i - 1 : j \in 1 .. Len(Q) /\ <<Q[j], n>> \in R
    <2> SUFFICES ASSUME NEW j \in 1 .. i - 1 PROVE j \in 1 .. Len(Q) /\ <<Q[j], n>> \in R
      OBVIOUS
    <2>1. j \in 1 .. Len(Q) + 1 /\ j \in 1 .. Len(Q) /\ j # Len(Q) + 1 /\ ~(i <= j)
      BY <1>1, <1>3
    <2>2. <<n, Q[j]>> \notin R
      BY <1>2, <2>1
    <2> QED BY <1>1, <2>1, <2>2
  <1>5. \A j \in i .. Len(Q) : j \in 1 .. Len(Q) /\ <<n, Q[j]>> \in R
    <2> SUFFICES ASSUME NEW j \in i .. Len(Q) PROVE j \in 1 .. Len(Q) /\ <<n, Q[j]>> \in R
      OBVIOUS
    <2>1. j \in 1 .. Len(Q) /\ i \in 1 .. Len(Q) /\ i # Len(Q) + 1 /\ (j = i \/ i < j)
      BY <1>1, <1>3
    <2>2. <<n, Q[i]>> \in R
      BY <2>1
    <2>3. i < j => <<Q[i], Q[j]>> \in R
      BY <2>1 DEF Sorted
    <2> QED BY <1>1, <2>1, <2>2, <2>3 DEF StrictOrder
  <1> HIDE DEF D
  <1> DEFINE A == Queue!InsertAt(Q, i, n)
  <1>6. /\ A \in Seq(Thread) /\ Len(A) = Len(Q) + 1
        /\ \A j \in 1 .. Len(Q) + 1 : A[j] = IF j < i THEN Q[j] ELSE IF j = i THEN n ELSE Q[j - 1]
    <2> DEFINE B == SubSeq(Q, 1, i - 1)
               C == SubSeq(Q, i, Len(Q))
    <2>1. /\ B \in Seq(Thread) /\ Len(B) = i - 1 /\ \A j \in 1 .. i - 1 : B[j] = Q[j]
      BY <1>1, <1>3
    <2>2. /\ C \in Seq(Thread) /\ Len(C) = Len(Q) + 1 - i
          /\ \A j \in 1 .. Len(Q) + 1 - i : C[j] = Q[i - 1 + j]
      BY <1>1, <1>3
    <2>3. A = (B \o <<n>>) \o C
      BY DEF Queue!InsertAt
    <2> HIDE DEF A, B, C
    <2> DEFINE E == B \o <<n>>
    <2>4. /\ E \in Seq(Thread) /\ Len(E) = i /\ E[i] = n /\ \A j \in 1 .. i - 1 : E[j] = B[j]
      BY <1>3, <2>1
    <2> HIDE DEF E
    <2>5. /\ E \o C \in Seq(Thread) /\ Len(E \o C) = Len(Q) + 1
          /\ \A j \in 1 .. Len(Q) + 1 : (E \o C)[j] = IF j <= i THEN E[j] ELSE C[j - i]
      BY <1>1, <1>3, <2>2, <2>4
    <2>6. ASSUME NEW j \in 1 .. Len(Q) + 1
          PROVE  A[j] = IF j < i THEN Q[j] ELSE IF j = i THEN n ELSE Q[j - 1]
      <3>1. CASE j <= i
        BY <1>1, <1>3, <2>1, <2>3, <2>4, <2>5, <3>1 DEF E
      <3>2. CASE ~(j <= i)
        <4>1. j - i \in 1 .. Len(Q) + 1 - i /\ i - 1 + (j - i) = j - 1 /\ ~(j < i) /\ j # i
          BY <1>1, <1>3, <3>2
        <4> QED BY <2>2, <2>3, <2>5, <3>2, <4>1 DEF E
      <3> QED BY <3>1, <3>2
    <2> QED BY <2>3, <2>5, <2>6 DEF E
  <1> HIDE DEF A
  <1>7. \A u \in Thread : (\E j \in 1 .. Len(A) : A[j] = u) <=> u \in S \cup {n}
    <2> SUFFICES ASSUME NEW u \in Thread
                 PROVE  (\E j \in 1 .. Len(A) : A[j] = u) <=> u \in S \cup {n}
      OBVIOUS
    <2>1. ASSUME NEW j \in 1 .. Len(A), A[j] = u PROVE u \in S \cup {n}
      <3>1. j < i \/ j = i \/ (j > i /\ j - 1 \in 1 .. Len(Q))
        BY <1>1, <1>3, <1>6
      <3>2. j < i => j \in 1 .. Len(Q)
        BY <1>1, <1>3, <1>6
      <3> QED BY <1>1, <1>3, <1>6, <2>1, <3>1, <3>2
    <2>2. ASSUME u = n PROVE \E j \in 1 .. Len(A) : A[j] = u
      BY <1>1, <1>3, <1>6, <2>2
    <2>3. ASSUME u \in S PROVE \E j \in 1 .. Len(A) : A[j] = u
      <3>1. PICK j \in 1 .. Len(Q) : Q[j] = u
        BY <2>3 DEF Sorted
      <3>2. CASE j < i
        BY <1>1, <1>3, <1>6, <3>1, <3>2
      <3>3. CASE ~(j < i)
        <4>1. j + 1 \in 1 .. Len(A) /\ ~(j + 1 < i) /\ j + 1 # i /\ (j + 1) - 1 = j
          BY <1>1, <1>3, <1>6, <3>3
        <4>2. A[j + 1] = Q[j]
          BY <1>6, <4>1
        <4> QED BY <3>1, <4>1, <4>2
      <3> QED BY <3>2, <3>3
    <2> QED BY <2>1, <2>2, <2>3
  <1>8. ASSUME NEW j \in 1 .. Len(A), NEW k \in 1 .. Len(A), j < k PROVE <<A[j], A[k]>> \in R
    <2>0. j \in Nat /\ k \in Nat /\ Len(A) = Len(Q) + 1
      BY <1>1, <1>6
    <2>1. CASE k < i
      <3>1. j \in 1 .. Len(Q) /\ k \in 1 .. Len(Q) /\ A[j] = Q[j] /\ A[k] = Q[k]
        BY <1>1, <1>3, <1>6, <1>8, <2>0, <2>1
      <3> QED BY <1>8, <3>1 DEF Sorted
    <2>2. CASE k = i
      <3>1. j \in 1 .. i - 1 /\ A[j] = Q[j] /\ A[k] = n
        BY <1>1, <1>3, <1>6, <1>8, <2>0, <2>2
      <3> QED BY <1>4, <3>1
    <2>3. CASE k > i
      <3>1. k - 1 \in i .. Len(Q) /\ k - 1 \in 1 .. Len(Q) /\ A[k] = Q[k - 1]
        BY <1>1, <1>3, <1>6, <2>0, <2>3
      <3>2. CASE j < i
        <4>1. j \in 1 .. Len(Q) /\ A[j] = Q[j] /\ j < k - 1
          BY <1>1, <1>3, <1>6, <2>0, <2>3, <3>2
        <4> QED BY <3>1, <4>1 DEF Sorted
      <3>3. CASE j = i
        BY <1>5, <1>6, <3>1, <3>3
      <3>4. CASE j > i
        <4>1. j - 1 \in 1 .. Len(Q) /\ A[j] = Q[j - 1] /\ j - 1 < k - 1
          BY <1>1, <1>3, <1>6, <1>8, <2>0, <3>4
        <4> QED BY <3>1, <4>1 DEF Sorted
      <3> QED BY <1>3, <2>0, <3>2, <3>3, <3>4
    <2> QED BY <1>3, <2>0, <2>1, <2>2, <2>3
  <1>9. Sorted(A, S \cup {n}, R)
    BY <1>6, <1>7, <1>8 DEF Sorted
  <1> QED BY <1>3, <1>9 DEF A

(* The order of a chain is a strict one, and total on its blocks.          *)
LEMMA OrderFacts ==
  ASSUME NEW L, NEW l, NEW m \in Nat, NEW s, Chain(L, l, m, s)
  PROVE  /\ StrictOrder(Order(m, s))
         /\ \A i, j \in 1 .. m : i < j <=> <<s[i], s[j]>> \in Order(m, s)
  <1>1. \A i, j \in 1 .. m : s[i] \in Thread /\ (s[i] = s[j] => i = j)
    BY DEF Chain
  <1>2. \A u, v \in Thread : <<u, v>> \in Order(m, s) <=> \E i, j \in 1 .. m : i < j /\ u = s[i] /\ v = s[j]
    BY DEF Order
  <1>3. \A i, j \in 1 .. m : i < j <=> <<s[i], s[j]>> \in Order(m, s)
    <2> SUFFICES ASSUME NEW i \in 1 .. m, NEW j \in 1 .. m
                 PROVE  i < j <=> <<s[i], s[j]>> \in Order(m, s)
      OBVIOUS
    <2>1. <<s[i], s[j]>> \in Order(m, s) <=> \E a, b \in 1 .. m : a < b /\ s[i] = s[a] /\ s[j] = s[b]
      BY <1>1, <1>2
    <2> QED BY <1>1, <2>1
  <1>4. \A u, v \in Thread : <<u, v>> \in Order(m, s) => <<v, u>> \notin Order(m, s)
    <2> SUFFICES ASSUME NEW u \in Thread, NEW v \in Thread, <<u, v>> \in Order(m, s), <<v, u>> \in Order(m, s)
                 PROVE  FALSE
      OBVIOUS
    <2>1. PICK i, j \in 1 .. m : i < j /\ u = s[i] /\ v = s[j]
      BY <1>2
    <2>2. j < i
      BY <1>3, <2>1
    <2> QED BY <2>1, <2>2
  <1>5. \A u, v, w \in Thread : <<u, v>> \in Order(m, s) /\ <<v, w>> \in Order(m, s) => <<u, w>> \in Order(m, s)
    <2> SUFFICES ASSUME NEW u \in Thread, NEW v \in Thread, NEW w \in Thread,
                        <<u, v>> \in Order(m, s), <<v, w>> \in Order(m, s)
                 PROVE  <<u, w>> \in Order(m, s)
      OBVIOUS
    <2>1. PICK i, j \in 1 .. m : i < j /\ u = s[i] /\ v = s[j]
      BY <1>2
    <2>2. PICK j2, k \in 1 .. m : j2 < k /\ v = s[j2] /\ w = s[k]
      BY <1>2
    <2>3. j2 = j
      BY <1>1, <2>1, <2>2
    <2>4. i < k
      BY <2>1, <2>2, <2>3
    <2> QED BY <1>2, <2>1, <2>2, <2>4
  <1> QED BY <1>3, <1>4, <1>5 DEF StrictOrder

(* The next block of a chain goes to the end of its word's list.           *)
LEMMA SortedNext ==
  ASSUME NEW L, NEW l, NEW m \in Nat, NEW s, Chain(L, l, m, s), NEW addr, NEW x,
         NEW i \in 1 .. m, NEW Q, Sorted(Q, On(i - 1, s, addr, x), Order(m, s))
  PROVE  Sorted(IF addr[s[i]] = x THEN Append(Q, s[i]) ELSE Q, On(i, s, addr, x), Order(m, s))
  <1>1. s[i] \in Thread /\ \A j : j \in 1 .. i <=> j \in 1 .. i - 1 \/ j = i
    BY DEF Chain
  <1>2. \A j \in 1 .. i - 1 : <<s[j], s[i]>> \in Order(m, s)
    <2>1. \A j \in 1 .. i - 1 : j \in 1 .. m /\ j < i
      OBVIOUS
    <2> QED BY <2>1, OrderFacts
  <1>3. CASE addr[s[i]] = x
    <2>1. On(i, s, addr, x) = On(i - 1, s, addr, x) \cup {s[i]}
      BY <1>1, <1>3 DEF On
    <2>2. \A u \in Thread : u \in On(i - 1, s, addr, x) => <<u, s[i]>> \in Order(m, s)
      BY <1>2 DEF On
    <2> QED BY <1>1, <1>3, <2>1, <2>2, SortedAppend
  <1>4. CASE addr[s[i]] # x
    <2>1. On(i, s, addr, x) = On(i - 1, s, addr, x)
      BY <1>1, <1>4 DEF On
    <2> QED BY <1>4, <2>1
  <1> QED BY <1>3, <1>4

(* What a walk finds waiting on a word is the sorted list of its waiters.  *)
LEMMA SortedWalk ==
  ASSUME NEW L \in HeapType(Bucket, Thread), NEW addr, NEW x \in Addr,
         NEW m \in Nat, NEW s, Chain(L, Hash[x], m, s)
  PROVE  Sorted(QueueOf(L, addr, x), On(m, s, addr, x), Order(m, s))
  <1> DEFINE R == Order(m, s)
             w == Walk(L, Hash[x])
             is(i, Q) == Sorted(Q, On(i, s, addr, x), R)
             e == [i \in 0 .. m |-> CHOOSE Q : is(i, Q)]
             next(i, Q) == IF addr[w[i]] = x THEN Append(Q, w[i]) ELSE Q
             rec(g) == g = [i \in 0 .. Len(w) |-> IF i = 0 THEN <<>> ELSE next(i, g[i - 1])]
             q == CHOOSE g : rec(g)
  <1>0. Hash[x] \in Bucket
    BY FutexAssumption
  <1>1. w = [i \in 1 .. m |-> s[i]]
    BY <1>0, WalkChain
  <1>2. Len(w) = m /\ \A i \in 1 .. m : w[i] = s[i]
    <2> HIDE DEF w
    <2> QED BY <1>1
  <1> HIDE DEF w
  <1>3. StrictOrder(R)
    BY OrderFacts
  <1>4. is(0, <<>>)
    <2>1. On(0, s, addr, x) = {}
      BY DEF On
    <2> QED BY <2>1 DEF Sorted
  <1>5. ASSUME NEW i \in 1 .. m, NEW Q, is(i - 1, Q) PROVE is(i, next(i, Q))
    <2>1. Sorted(IF addr[s[i]] = x THEN Append(Q, s[i]) ELSE Q, On(i, s, addr, x), R)
      BY <1>5, SortedNext
    <2> QED BY <1>2, <2>1
  <1>6. ASSUME NEW i, NEW Q, NEW P, is(i, Q), is(i, P) PROVE Q = P
    <2> HIDE DEF R
    <2> QED BY <1>3, <1>6, SortedUnique
  <1> HIDE DEF is, next
  <1>7. \A i \in 0 .. m : is(i, e[i])
    <2> DEFINE D == {i \in 0 .. m : ~is(i, e[i])}
    <2> SUFFICES ASSUME D # {} PROVE FALSE
      OBVIOUS
    <2>1. PICK i \in D : \A j \in D : i <= j
      <3>1. D \in SUBSET Nat
        OBVIOUS
      <3> HIDE DEF D
      <3> QED BY <3>1, LeastNat
    <2>2. i \in 0 .. m /\ ~is(i, e[i])
      OBVIOUS
    <2>3. ~\E Q : is(i, Q)
      BY <2>2
    <2>4. i # 0
      BY <1>4, <2>3
    <2>5. i - 1 \in 0 .. m /\ i \in 1 .. m /\ ~(i <= i - 1)
      BY <2>2, <2>4
    <2>6. is(i - 1, e[i - 1])
      BY <2>1, <2>5
    <2> HIDE DEF e
    <2>7. is(i, next(i, e[i - 1]))
      BY <1>5, <2>5, <2>6
    <2> QED BY <2>3, <2>7
  <1>8. rec(e)
    <2> SUFFICES ASSUME NEW i \in 0 .. m PROVE e[i] = IF i = 0 THEN <<>> ELSE next(i, e[i - 1])
      BY <1>2
    <2> HIDE DEF e
    <2>1. is(i, e[i])
      BY <1>7
    <2>2. CASE i = 0
      BY <1>4, <1>6, <2>1, <2>2
    <2>3. CASE i # 0
      <3>1. i \in 1 .. m /\ i - 1 \in 0 .. m
        BY <2>3
      <3>2. is(i, next(i, e[i - 1]))
        BY <1>5, <1>7, <3>1
      <3>3. e[i] = next(i, e[i - 1])
        BY <1>6, <2>1, <3>2
      <3> QED BY <2>3, <3>3
    <2> QED BY <2>2, <2>3
  <1>9. rec(q)
    <2> HIDE DEF e, rec
    <2> QED BY <1>8
  <1> HIDE DEF e, q
  <1>10. q[0] = <<>> /\ \A i \in 1 .. m : q[i] = next(i, q[i - 1])
    <2>1. 0 \in 0 .. m /\ \A i \in 1 .. m : i \in 0 .. m /\ i # 0
      OBVIOUS
    <2>2. q = [i \in 0 .. m |-> IF i = 0 THEN <<>> ELSE next(i, q[i - 1])]
      BY <1>2, <1>9
    <2>3. q[0] = <<>>
      BY <2>1, <2>2
    <2>4. ASSUME NEW i \in 1 .. m PROVE q[i] = next(i, q[i - 1])
      BY <2>1, <2>2
    <2> QED BY <2>3, <2>4
  <1>11. \A i \in 0 .. m : is(i, q[i])
    <2> DEFINE D == {i \in 0 .. m : ~is(i, q[i])}
    <2> SUFFICES ASSUME D # {} PROVE FALSE
      OBVIOUS
    <2>1. PICK i \in D : \A j \in D : i <= j
      <3>1. D \in SUBSET Nat
        OBVIOUS
      <3> HIDE DEF D
      <3> QED BY <3>1, LeastNat
    <2>2. i \in 0 .. m /\ ~is(i, q[i])
      OBVIOUS
    <2>4. i # 0
      BY <1>4, <1>10, <2>2
    <2>5. i - 1 \in 0 .. m /\ i \in 1 .. m /\ ~(i <= i - 1)
      BY <2>2, <2>4
    <2>6. is(i - 1, q[i - 1])
      BY <2>1, <2>5
    <2>7. is(i, next(i, q[i - 1]))
      BY <1>5, <2>5, <2>6
    <2> QED BY <1>10, <2>2, <2>5, <2>7
  <1>12. QueueOf(L, addr, x) = q[m]
    BY <1>2 DEF QueueOf, q, rec, next, w
  <1> QED BY <1>11, <1>12 DEF is

-----------------------------------------------------------------------------
(* The list of word x, with bucket c, in terms of the chains.              *)
Listed(L, len, q, addr, x, c) ==
  /\ StrictOrder(Order(len[c], q[c]))
  /\ Sorted(QueueOf(L, addr, x), On(len[c], q[c], addr, x), Order(len[c], q[c]))
  /\ \A u \in Thread : u \in On(len[c], q[c], addr, x) <=> addr[u] = x /\ Has(len, q, c, u)

LEMMA QueueSorted ==
  ASSUME NEW L \in HeapType(Bucket, Thread), NEW len, NEW q, Chains(L, len, q), NEW addr,
         NEW x \in Addr, NEW c, Hash[x] = c
  PROVE  Listed(L, len, q, addr, x, c)
  <1>1. c \in Bucket
    BY FutexAssumption
  <1>2. len[c] \in Nat /\ Chain(L, c, len[c], q[c])
    BY <1>1 DEF Chains
  <1>3. StrictOrder(Order(len[c], q[c]))
    BY <1>2, OrderFacts
  <1>4. Sorted(QueueOf(L, addr, x), On(len[c], q[c], addr, x), Order(len[c], q[c]))
    BY <1>2, SortedWalk
  <1>5. \A u \in Thread : u \in On(len[c], q[c], addr, x) <=> addr[u] = x /\ Has(len, q, c, u)
    BY DEF On, Has
  <1> QED BY <1>3, <1>4, <1>5 DEF Listed

(* A word whose waiters stay, in the order they are in, keeps its list.    *)
Kept(len, q, addr, m, s, addr2, x, c) ==
  /\ \A u \in Thread : addr2[u] = x /\ Has(m, s, c, u) <=> addr[u] = x /\ Has(len, q, c, u)
  /\ \A u, v \in Thread :
       addr[u] = x /\ addr[v] = x /\ Has(len, q, c, u) /\ Has(len, q, c, v) =>
         (<<u, v>> \in Order(len[c], q[c]) => <<u, v>> \in Order(m[c], s[c]))

LEMMA QueueStays ==
  ASSUME NEW L \in HeapType(Bucket, Thread), NEW len, NEW q, Chains(L, len, q), NEW addr,
         NEW K \in HeapType(Bucket, Thread), NEW m, NEW s, Chains(K, m, s), NEW addr2,
         NEW x \in Addr, NEW c, Hash[x] = c, Kept(len, q, addr, m, s, addr2, x, c)
  PROVE  QueueOf(K, addr2, x) = QueueOf(L, addr, x)
  <1> DEFINE Q == QueueOf(L, addr, x)
             P == QueueOf(K, addr2, x)
             S == On(len[c], q[c], addr, x)
             R == Order(len[c], q[c])
             O == Order(m[c], s[c])
             V == On(m[c], s[c], addr2, x)
  <1>1. Sorted(Q, S, R) /\ \A u \in Thread : u \in S <=> addr[u] = x /\ Has(len, q, c, u)
    <2>1. Listed(L, len, q, addr, x, c)
      BY QueueSorted
    <2> QED BY <2>1 DEF Listed
  <1>2. Sorted(P, V, O) /\ StrictOrder(O) /\ \A u \in Thread : u \in V <=> addr2[u] = x /\ Has(m, s, c, u)
    <2>1. Listed(K, m, s, addr2, x, c)
      BY QueueSorted
    <2> QED BY <2>1 DEF Listed
  <1>3. S = V
    <2>1. S \in SUBSET Thread /\ V \in SUBSET Thread
      BY DEF On
    <2> HIDE DEF S, V
    <2> QED BY <1>1, <1>2, <2>1 DEF Kept
  <1> HIDE DEF Q, P, S, R, O, V
  <1>4. Sorted(Q, S, O)
    <2>1. \A u, v \in Thread : u \in S /\ v \in S /\ <<u, v>> \in R => <<u, v>> \in O
      BY <1>1 DEF R, O, Kept
    <2> QED BY <1>1, <2>1, SortedFrame
  <1>5. P = Q
    BY <1>2, <1>3, <1>4, SortedUnique
  <1> QED BY <1>5 DEF P, Q

(* What a step may do to the words' lists Q: n is appended to that of y,   *)
(* is taken out of that of x, is taken from its head, or goes from there   *)
(* to some place in that of y.                                             *)
Enters(Q, P, n, y) == P = [Q EXCEPT ![y] = Append(Q[y], n)]
Leaves(Q, P, n, x) ==
  \E i \in DOMAIN Q[x] : Q[x][i] = n /\ P = [Q EXCEPT ![x] = Queue!RemoveAt(Q[x], i)]
Heads(Q, P, n, x) == Q[x] # <<>> /\ Head(Q[x]) = n /\ P = [Q EXCEPT ![x] = Tail(Q[x])]
Moves(Q, P, n, x, y) ==
  /\ x # y /\ Q[x] # <<>> /\ Head(Q[x]) = n
  /\ \E i \in 1 .. Len(Q[y]) + 1 :
       P = [Q EXCEPT ![x] = Tail(Q[x]), ![y] = Queue!InsertAt(Q[y], i, n)]

(* Linking a block appends it to the list of its word, and only that.      *)
LEMMA QueuePut ==
  ASSUME NEW L \in HeapType(Bucket, Thread), NEW len, NEW q, Chains(L, len, q),
         NEW addr \in [Thread -> Addr], NEW b \in Bucket, NEW n \in Thread,
         \A x \in Bucket : ~Has(len, q, x, n), NEW y \in Addr, Hash[y] = b,
         NEW addr2, addr2 = [addr EXCEPT ![n] = y]
  PROVE  Enters(WaitingOn(L, addr), WaitingOn(ListAdd(L, b, n), addr2), n, y)
  <1> DEFINE K == ListAdd(L, b, n)
  <1>1. K \in HeapType(Bucket, Thread)
    BY ListAddType
  <1>2. PICK m, s : /\ Chains(ListAdd(L, b, n), m, s)
                    /\ \A x \in Bucket : x # b => m[x] = len[x] /\ s[x] = q[x]
                    /\ m[b] = len[b] + 1 /\ \A i \in 1 .. len[b] : s[b][i] = q[b][i]
                    /\ s[b][m[b]] = n
                    /\ \A x \in Bucket, u \in Thread :
                         Has(m, s, x, u) <=> Has(len, q, x, u) \/ (x = b /\ u = n)
    BY PutChains
  <1>3. Chains(K, m, s)
    BY <1>2
  <1>4. addr2[n] = y /\ \A u \in Thread : u # n => addr2[u] = addr[u]
    OBVIOUS
  <1>5. len[b] \in Nat /\ Chain(L, b, len[b], q[b]) /\ Chain(K, b, m[b], s[b])
    BY <1>3 DEF Chains
  <1> HIDE DEF K
  <1>6. \A u, v \in Thread : <<u, v>> \in Order(len[b], q[b]) => <<u, v>> \in Order(m[b], s[b])
    <2> SUFFICES ASSUME NEW u \in Thread, NEW v \in Thread, <<u, v>> \in Order(len[b], q[b])
                 PROVE  <<u, v>> \in Order(m[b], s[b])
      OBVIOUS
    <2>1. PICK i, j \in 1 .. len[b] : i < j /\ u = q[b][i] /\ v = q[b][j]
      BY DEF Order
    <2>2. i \in 1 .. m[b] /\ j \in 1 .. m[b] /\ u = s[b][i] /\ v = s[b][j]
      BY <1>2, <1>5, <2>1
    <2> QED BY <2>1, <2>2 DEF Order
  <1>7. ASSUME NEW z \in Addr, z # y PROVE QueueOf(K, addr2, z) = QueueOf(L, addr, z)
    <2> DEFINE c == Hash[z]
    <2>1. c \in Bucket
      BY FutexAssumption
    <2> HIDE DEF c
    <2>2. \A u \in Thread : addr2[u] = z /\ Has(m, s, c, u) <=> addr[u] = z /\ Has(len, q, c, u)
      BY <1>2, <1>4, <1>7, <2>1
    <2>3. \A u, v \in Thread : <<u, v>> \in Order(len[c], q[c]) => <<u, v>> \in Order(m[c], s[c])
      BY <1>2, <1>6, <2>1
    <2>4. Hash[z] = c
      BY DEF c
    <2>5. Kept(len, q, addr, m, s, addr2, z, c)
      BY <2>2, <2>3 DEF Kept
    <2> QED BY <1>1, <1>3, <2>4, <2>5, QueueStays
  <1>8. QueueOf(K, addr2, y) = Append(QueueOf(L, addr, y), n)
    <2> DEFINE Q == QueueOf(L, addr, y)
               P == QueueOf(K, addr2, y)
               S == On(len[b], q[b], addr, y)
               R == Order(len[b], q[b])
               O == Order(m[b], s[b])
               V == On(m[b], s[b], addr2, y)
    <2>1. Sorted(Q, S, R) /\ \A u \in Thread : u \in S <=> addr[u] = y /\ Has(len, q, b, u)
      <3>1. Listed(L, len, q, addr, y, b)
        BY QueueSorted
      <3> QED BY <3>1 DEF Listed
    <2>2. Sorted(P, V, O) /\ StrictOrder(O) /\ \A u \in Thread : u \in V <=> addr2[u] = y /\ Has(m, s, b, u)
      <3>1. Listed(K, m, s, addr2, y, b)
        BY <1>1, <1>3, QueueSorted
      <3> QED BY <3>1 DEF Listed
    <2>3. V = S \cup {n}
      <3>1. S \in SUBSET Thread /\ V \in SUBSET Thread
        BY DEF On
      <3> HIDE DEF S, V
      <3> QED BY <1>2, <1>4, <2>1, <2>2, <3>1
    <2>4. \A u \in Thread : u \in S => <<u, n>> \in O
      <3> SUFFICES ASSUME NEW u \in Thread, Has(len, q, b, u) PROVE <<u, n>> \in O
        BY <2>1
      <3>1. PICK i \in 1 .. len[b] : q[b][i] = u
        BY DEF Has
      <3>2. i \in 1 .. m[b] /\ m[b] \in 1 .. m[b] /\ i < m[b] /\ s[b][i] = u
        BY <1>2, <1>5, <3>1
      <3> QED BY <1>2, <3>2 DEF Order
    <2>5. \A u, v \in Thread : <<u, v>> \in R => <<u, v>> \in O
      BY <1>6
    <2> HIDE DEF Q, P, S, R, O, V
    <2>6. Sorted(Q, S, O)
      BY <2>1, <2>5, SortedFrame
    <2>7. Sorted(Append(Q, n), S \cup {n}, O)
      BY <2>4, <2>6, SortedAppend
    <2>8. P = Append(Q, n)
      BY <2>2, <2>3, <2>7, SortedUnique
    <2> QED BY <2>8 DEF P, Q
  <1>9. WaitingOn(K, addr2) = [WaitingOn(L, addr) EXCEPT ![y] = Append(QueueOf(L, addr, y), n)]
    BY <1>7, <1>8 DEF WaitingOn
  <1> QED BY <1>9 DEF K, Enters, WaitingOn

(* Unlinking a block takes it out of the list of its word; when no block   *)
(* before it is on that word, it is the head of that list.                 *)
LEMMA QueueCut ==
  ASSUME NEW L \in HeapType(Bucket, Thread), NEW len, NEW q, Chains(L, len, q),
         NEW addr \in [Thread -> Addr], NEW b \in Bucket, NEW k \in 1 .. len[b],
         NEW n \in Thread, n = q[b][k], NEW x \in Addr, addr[n] = x, Hash[x] = b
  PROVE  /\ Leaves(WaitingOn(L, addr), WaitingOn(ListRemove(L, b, n), addr), n, x)
         /\ (\A j \in 1 .. k - 1 : addr[q[b][j]] # x) =>
              Heads(WaitingOn(L, addr), WaitingOn(ListRemove(L, b, n), addr), n, x)
  <1> DEFINE K == ListRemove(L, b, n)
  <1>1. K \in HeapType(Bucket, Thread)
    BY ListRemoveType
  <1>2. PICK m, s : /\ Chains(ListRemove(L, b, n), m, s)
                    /\ \A z \in Bucket : z # b => m[z] = len[z] /\ s[z] = q[z]
                    /\ m[b] = len[b] - 1 /\ \A i \in 1 .. k - 1 : s[b][i] = q[b][i]
                    /\ \A i \in 1 .. m[b] : s[b][i] = IF i < k THEN q[b][i] ELSE q[b][i + 1]
                    /\ \A z \in Bucket, u \in Thread :
                         Has(m, s, z, u) <=> Has(len, q, z, u) /\ u # n
    BY CutChains
  <1>3. Chains(K, m, s)
    BY <1>2
  <1>4. len[b] \in Nat /\ Chain(L, b, len[b], q[b]) /\ Chain(K, b, m[b], s[b]) /\ k \in Nat
    BY <1>3 DEF Chains
  <1> HIDE DEF K
  <1>5. \A u, v \in Thread : u # n /\ v # n /\ <<u, v>> \in Order(len[b], q[b]) => <<u, v>> \in Order(m[b], s[b])
    <2> SUFFICES ASSUME NEW u \in Thread, NEW v \in Thread, u # n, v # n, <<u, v>> \in Order(len[b], q[b])
                 PROVE  <<u, v>> \in Order(m[b], s[b])
      OBVIOUS
    <2>1. PICK i, j \in 1 .. len[b] : i < j /\ u = q[b][i] /\ v = q[b][j]
      BY DEF Order
    <2> DEFINE f(a) == IF a < k THEN a ELSE a - 1
    <2>2. i # k /\ j # k
      BY <2>1
    <2>3. f(i) \in 1 .. m[b] /\ f(j) \in 1 .. m[b] /\ f(i) < f(j)
      BY <1>2, <1>4, <2>1, <2>2
    <2>4. ASSUME NEW a \in 1 .. len[b], a # k, f(a) \in 1 .. m[b] PROVE s[b][f(a)] = q[b][a]
      <3>1. CASE a < k
        BY <1>2, <2>4, <3>1
      <3>2. CASE ~(a < k)
        <4>1. f(a) = a - 1 /\ ~(a - 1 < k) /\ (a - 1) + 1 = a
          BY <1>4, <2>4, <3>2
        <4> QED BY <1>2, <2>4, <4>1
      <3> QED BY <3>1, <3>2
    <2> HIDE DEF f
    <2>5. s[b][f(i)] = u /\ s[b][f(j)] = v
      BY <2>1, <2>2, <2>3, <2>4
    <2> QED BY <2>3, <2>5 DEF Order
  <1>6. ASSUME NEW z \in Addr, z # x PROVE QueueOf(K, addr, z) = QueueOf(L, addr, z)
    <2> DEFINE c == Hash[z]
    <2>1. c \in Bucket
      BY FutexAssumption
    <2> HIDE DEF c
    <2>2. \A u \in Thread : addr[u] = z /\ Has(m, s, c, u) <=> addr[u] = z /\ Has(len, q, c, u)
      BY <1>2, <1>6, <2>1
    <2>3. \A u, v \in Thread :
            addr[u] = z /\ addr[v] = z /\ Has(len, q, c, u) /\ Has(len, q, c, v) =>
              (<<u, v>> \in Order(len[c], q[c]) => <<u, v>> \in Order(m[c], s[c]))
      <3>1. CASE c = b
        BY <1>5, <1>6, <3>1
      <3>2. CASE c # b
        BY <1>2, <2>1, <3>2
      <3> QED BY <3>1, <3>2
    <2>4. Hash[z] = c
      BY DEF c
    <2>5. Kept(len, q, addr, m, s, addr, z, c)
      BY <2>2, <2>3 DEF Kept
    <2> QED BY <1>1, <1>3, <2>4, <2>5, QueueStays
  <1> DEFINE Q == QueueOf(L, addr, x)
             P == QueueOf(K, addr, x)
             S == On(len[b], q[b], addr, x)
             R == Order(len[b], q[b])
             O == Order(m[b], s[b])
             V == On(m[b], s[b], addr, x)
  <1>7. Sorted(Q, S, R) /\ StrictOrder(R) /\ \A u \in Thread : u \in S <=> addr[u] = x /\ Has(len, q, b, u)
    <2>1. Listed(L, len, q, addr, x, b)
      BY QueueSorted
    <2> QED BY <2>1 DEF Listed
  <1>8. Sorted(P, V, O) /\ StrictOrder(O) /\ \A u \in Thread : u \in V <=> addr[u] = x /\ Has(m, s, b, u)
    <2>1. Listed(K, m, s, addr, x, b)
      BY <1>1, <1>3, QueueSorted
    <2> QED BY <2>1 DEF Listed
  <1>9. V = S \ {n} /\ n \in S
    <2>1. S \in SUBSET Thread /\ V \in SUBSET Thread /\ Has(len, q, b, n)
      BY DEF On, Has
    <2> HIDE DEF S, V
    <2> QED BY <1>2, <1>7, <1>8, <2>1
  <1>10. \A u, v \in Thread : u \in S \ {n} /\ v \in S \ {n} /\ <<u, v>> \in R => <<u, v>> \in O
    BY <1>5
  <1>11. (\A j \in 1 .. k - 1 : addr[q[b][j]] # x) => \A u \in Thread : u \in S => u = n \/ <<n, u>> \in R
    <2> SUFFICES ASSUME \A j \in 1 .. k - 1 : addr[q[b][j]] # x,
                        NEW u \in Thread, addr[u] = x, Has(len, q, b, u), u # n
                 PROVE  <<n, u>> \in R
      BY <1>7
    <2>1. PICK j \in 1 .. len[b] : q[b][j] = u
      BY DEF Has
    <2>2. ~(j \in 1 .. k - 1) /\ j # k
      BY <2>1
    <2>3. k < j
      BY <1>4, <2>2
    <2> QED BY <2>1, <2>3 DEF Order
  <1> HIDE DEF Q, P, S, R, O, V
  <1>12. ASSUME NEW i \in 1 .. Len(Q), Q[i] = n PROVE P = Queue!RemoveAt(Q, i)
    <2>1. Sorted(Queue!RemoveAt(Q, i), S \ {n}, R)
      BY <1>7, <1>12, SortedRemove
    <2>2. Sorted(Queue!RemoveAt(Q, i), S \ {n}, O)
      BY <1>10, <2>1, SortedFrame
    <2> QED BY <1>8, <1>9, <2>2, SortedUnique
  <1>13. Q \in Seq(Thread) /\ DOMAIN Q = 1 .. Len(Q)
    BY <1>7 DEF Sorted
  <1>14. \E i \in DOMAIN Q : Q[i] = n /\ P = Queue!RemoveAt(Q, i)
    <2>1. PICK i \in 1 .. Len(Q) : Q[i] = n
      BY <1>7, <1>9 DEF Sorted
    <2> QED BY <1>12, <1>13, <2>1
  <1>15. (\A j \in 1 .. k - 1 : addr[q[b][j]] # x) => Q # <<>> /\ Head(Q) = n /\ P = Tail(Q)
    <2> SUFFICES ASSUME \A j \in 1 .. k - 1 : addr[q[b][j]] # x
                 PROVE  Q # <<>> /\ Head(Q) = n /\ P = Tail(Q)
      OBVIOUS
    <2>1. \A u \in Thread : u \in S => u = n \/ <<n, u>> \in R
      BY <1>11
    <2>2. Q # <<>> /\ Head(Q) = n
      BY <1>7, <1>9, <2>1, SortedHead
    <2>3. 1 \in 1 .. Len(Q) /\ Q[1] = n /\ Queue!RemoveAt(Q, 1) = Tail(Q)
      BY <1>13, <2>2, TailRemoves
    <2> QED BY <1>12, <2>2, <2>3
  <1>16. /\ WaitingOn(L, addr)[x] = Q
         /\ WaitingOn(K, addr) = [WaitingOn(L, addr) EXCEPT ![x] = P]
    BY <1>6 DEF WaitingOn, P, Q
  <1>17. Leaves(WaitingOn(L, addr), WaitingOn(K, addr), n, x)
    BY <1>14, <1>16 DEF Leaves
  <1>18. (\A j \in 1 .. k - 1 : addr[q[b][j]] # x) => Heads(WaitingOn(L, addr), WaitingOn(K, addr), n, x)
    BY <1>15, <1>16 DEF Heads
  <1> QED BY <1>17, <1>18 DEF K

(* Block n, the k-th of the chain of bucket b, is its first one on word x. *)
FirstOn(addr, len, q, b, k, n, x) ==
  /\ k \in 1 .. len[b] /\ n = q[b][k]
  /\ \A j \in 1 .. k - 1 : addr[q[b][j]] # x

(* Giving a block another word of its bucket, when no block before it is   *)
(* on its old word, takes the head of the one list to a place in the other.*)
LEMMA QueueMove ==
  ASSUME NEW L \in HeapType(Bucket, Thread), NEW len, NEW q, Chains(L, len, q),
         NEW addr \in [Thread -> Addr], NEW b \in Bucket, NEW k,
         NEW n \in Thread, NEW x \in Addr, FirstOn(addr, len, q, b, k, n, x),
         addr[n] = x, Hash[x] = b, NEW y \in Addr, Hash[y] = b, x # y,
         NEW addr2, addr2 = [addr EXCEPT ![n] = y]
  PROVE  Moves(WaitingOn(L, addr), WaitingOn(L, addr2), n, x, y)
  <1>0. k \in 1 .. len[b] /\ n = q[b][k] /\ \A j \in 1 .. k - 1 : addr[q[b][j]] # x
    BY DEF FirstOn
  <1>1. addr2[n] = y /\ \A u \in Thread : u # n => addr2[u] = addr[u]
    OBVIOUS
  <1>2. len[b] \in Nat /\ Chain(L, b, len[b], q[b]) /\ k \in Nat /\ Has(len, q, b, n)
    BY <1>0 DEF Chains, Has
  <1>3. ASSUME NEW z \in Addr, z # x, z # y PROVE QueueOf(L, addr2, z) = QueueOf(L, addr, z)
    <2> DEFINE c == Hash[z]
    <2>1. Hash[z] = c
      OBVIOUS
    <2> HIDE DEF c
    <2>2. Kept(len, q, addr, len, q, addr2, z, c)
      BY <1>1, <1>3 DEF Kept
    <2> QED BY <2>1, <2>2, QueueStays
  <1> DEFINE R == Order(len[b], q[b])
             X == QueueOf(L, addr, x)
             S == On(len[b], q[b], addr, x)
             P == QueueOf(L, addr2, x)
             U == On(len[b], q[b], addr2, x)
             Y == QueueOf(L, addr, y)
             V == On(len[b], q[b], addr, y)
             Z == QueueOf(L, addr2, y)
             W == On(len[b], q[b], addr2, y)
  <1>4. /\ Sorted(X, S, R) /\ StrictOrder(R) /\ S \in SUBSET Thread
        /\ \A u \in Thread : u \in S <=> addr[u] = x /\ Has(len, q, b, u)
    <2>1. Listed(L, len, q, addr, x, b)
      BY QueueSorted
    <2> QED BY <2>1 DEF Listed, On
  <1>5. /\ Sorted(P, U, R) /\ U \in SUBSET Thread
        /\ \A u \in Thread : u \in U <=> addr2[u] = x /\ Has(len, q, b, u)
    <2>1. Listed(L, len, q, addr2, x, b)
      BY QueueSorted
    <2> QED BY <2>1 DEF Listed, On
  <1>6. /\ Sorted(Y, V, R) /\ V \in SUBSET Thread
        /\ \A u \in Thread : u \in V <=> addr[u] = y /\ Has(len, q, b, u)
    <2>1. Listed(L, len, q, addr, y, b)
      BY QueueSorted
    <2> QED BY <2>1 DEF Listed, On
  <1>7. /\ Sorted(Z, W, R) /\ W \in SUBSET Thread
        /\ \A u \in Thread : u \in W <=> addr2[u] = y /\ Has(len, q, b, u)
    <2>1. Listed(L, len, q, addr2, y, b)
      BY QueueSorted
    <2> QED BY <2>1 DEF Listed, On
  <1>8. \A j \in 1 .. len[b] : k < j => <<n, q[b][j]>> \in R
    BY <1>0, <1>2, OrderFacts
  <1>9. \A j \in 1 .. len[b] : j < k => <<q[b][j], n>> \in R
    BY <1>0, <1>2, OrderFacts
  <1>10. \A u \in Thread : Has(len, q, b, u) /\ u # n => <<u, n>> \in R \/ <<n, u>> \in R
    BY <1>0, <1>2, <1>8, <1>9 DEF Has
  <1>11. \A u \in Thread : u \in S => u = n \/ <<n, u>> \in R
    <2> SUFFICES ASSUME NEW u \in Thread, addr[u] = x, Has(len, q, b, u), u # n
                 PROVE  <<n, u>> \in R
      BY <1>4
    <2>1. PICK j \in 1 .. len[b] : q[b][j] = u
      BY DEF Has
    <2>2. ~(j \in 1 .. k - 1) /\ j # k
      BY <1>0, <2>1
    <2>3. k < j
      BY <1>0, <1>2, <2>2
    <2> QED BY <1>8, <2>1, <2>3
  <1> HIDE DEF R, X, S, P, U, Y, V, Z, W
  <1>12. n \in S /\ U = S \ {n} /\ W = V \cup {n}
    BY <1>1, <1>2, <1>4, <1>5, <1>6, <1>7
  <1>13. X # <<>> /\ Head(X) = n /\ P = Tail(X)
    <2>1. X # <<>> /\ Head(X) = n
      BY <1>4, <1>11, <1>12, SortedHead
    <2>2. X \in Seq(Thread)
      BY <1>4 DEF Sorted
    <2>3. 1 \in 1 .. Len(X) /\ X[1] = n /\ Queue!RemoveAt(X, 1) = Tail(X)
      BY <2>1, <2>2, TailRemoves
    <2>4. Sorted(Tail(X), U, R)
      <3>1. Sorted(Queue!RemoveAt(X, 1), S \ {X[1]}, R)
        BY <1>4, <2>3, SortedRemove
      <3> QED BY <1>12, <2>3, <3>1
    <2>5. P = Tail(X)
      BY <1>4, <1>5, <2>4, SortedUnique
    <2> QED BY <2>1, <2>5
  <1>14. \E i \in 1 .. Len(Y) + 1 : Z = Queue!InsertAt(Y, i, n)
    <2>1. \A u \in Thread : u \in V => <<u, n>> \in R \/ <<n, u>> \in R
      BY <1>6, <1>10
    <2>2. PICK i \in 1 .. Len(Y) + 1 : Sorted(Queue!InsertAt(Y, i, n), V \cup {n}, R)
      BY <1>4, <1>6, <2>1, SortedInsert
    <2>3. Z = Queue!InsertAt(Y, i, n)
      BY <1>4, <1>7, <1>12, <2>2, SortedUnique
    <2> QED BY <2>3
  <1>15. WaitingOn(L, addr)[x] = X /\ WaitingOn(L, addr)[y] = Y
    BY DEF WaitingOn, X, Y
  <1>16. WaitingOn(L, addr2) = [WaitingOn(L, addr) EXCEPT ![x] = P, ![y] = Z]
    <2>1. P = QueueOf(L, addr2, x) /\ Z = QueueOf(L, addr2, y)
      BY DEF P, Z
    <2> QED BY <1>3, <2>1 DEF WaitingOn
  <1>17. \E i \in 1 .. Len(Y) + 1 :
           WaitingOn(L, addr2) = [WaitingOn(L, addr) EXCEPT ![x] = Tail(X), ![y] = Queue!InsertAt(Y, i, n)]
    <2>1. PICK i \in 1 .. Len(Y) + 1 : Z = Queue!InsertAt(Y, i, n)
      BY <1>14
    <2>2. WaitingOn(L, addr2) = [WaitingOn(L, addr) EXCEPT ![x] = Tail(X), ![y] = Queue!InsertAt(Y, i, n)]
      BY <1>13, <1>16, <2>1
    <2> QED BY <2>2
  <1> QED BY <1>13, <1>15, <1>17 DEF Moves

(* The end is one of the places.                                           *)
LEMMA AppendInserts ==
  ASSUME NEW Q \in Seq(Thread), NEW n \in Thread
  PROVE  Queue!InsertAt(Q, Len(Q) + 1, n) = Append(Q, n)
  <1> DEFINE B == SubSeq(Q, 1, Len(Q))
             C == SubSeq(Q, Len(Q) + 1, Len(Q))
  <1>1. B = Q /\ C = <<>> /\ (Len(Q) + 1) - 1 = Len(Q)
    OBVIOUS
  <1>2. Queue!InsertAt(Q, Len(Q) + 1, n) = (B \o <<n>>) \o C
    BY <1>1 DEF Queue!InsertAt
  <1> HIDE DEF B, C
  <1>3. Q \o <<n>> = Append(Q, n) /\ Append(Q, n) \in Seq(Thread)
    OBVIOUS
  <1> QED BY <1>1, <1>2, <1>3

-----------------------------------------------------------------------------
(* Nobody waits and nobody was woken to begin with.                        *)
LEMMA InitQueue == Init => Queue!Init
  <1> SUFFICES ASSUME Init PROVE Queue!Init
    OBVIOUS
  <1>1. list \in HeapType(Bucket, Thread)
    BY DEF Init, EmptyHeap, HeapType
  <1>2. ASSUME NEW x \in Addr PROVE QueueOf(list, waddr, x) = <<>>
    <2> DEFINE s == <<>>
               Q == QueueOf(list, waddr, x)
    <2>1. Hash[x] \in Bucket
      BY FutexAssumption
    <2>2. Chain(list, Hash[x], 0, s)
      BY <2>1 DEF Init, EmptyHeap, Chain
    <2>3. Sorted(Q, On(0, s, waddr, x), Order(0, s))
      <3> HIDE DEF s
      <3> QED BY <1>1, <2>2, SortedWalk
    <2>4. On(0, s, waddr, x) = {}
      BY DEF On
    <2> HIDE DEF Q, s
    <2>5. Q \in Seq(Thread) /\ \A i \in 1 .. Len(Q) : FALSE
      BY <2>3, <2>4 DEF Sorted
    <2>6. Q = <<>>
      BY <2>5
    <2> QED BY <2>6 DEF Q
  <1>3. Woken = {}
    BY FutexAssumption DEF Init, Woken, Notifying
  <1>4. Queues = [x \in Addr |-> <<>>]
    BY <1>2 DEF Queues, WaitingOn
  <1> QED BY <1>3, <1>4 DEF Queue!Init

(* The lists of the words are what the walks find, before and after a step.*)
LEMMA QueuesNow == Queues = WaitingOn(list, waddr) /\ Queues' = WaitingOn(list', waddr')
  BY DEF Queues, WaitingOn

(* What is in a word's list waits on it, and what waits on a word is in it.*)
LEMMA InQueue ==
  ASSUME NEW T, Inv(T), NEW x \in Addr
  PROVE  /\ Queues[x] \in Seq(Thread)
         /\ \A u \in Thread : (\E i \in 1 .. Len(Queues[x]) : Queues[x][i] = u) <=> Linked(u) /\ waddr[u] = x
  <1>1. PICK len, q : Orders(len, q)
    BY DEF Inv, ListInv
  <1>2. PICK c \in Bucket : Hash[x] = c
    BY FutexAssumption
  <1>3. Chains(list, len, q) /\ list \in HeapType(Bucket, Thread)
    BY <1>1 DEF Orders, Inv, TypeInv, TypeOK
  <1>4. Listed(list, len, q, waddr, x, c)
    BY <1>2, <1>3, QueueSorted
  <1>5. \A u \in Thread : u \in On(len[c], q[c], waddr, x) <=> Linked(u) /\ waddr[u] = x
    BY <1>1, <1>2, <1>4 DEF Listed, Orders
  <1>6. Queues[x] = QueueOf(list, waddr, x)
    BY DEF Queues, WaitingOn
  <1> QED BY <1>4, <1>5, <1>6 DEF Listed, Sorted

(* Neither the lists nor the addresses change, or neither the events nor   *)
(* the blocks to be notified.                                              *)
LEMMA QueuesFrame == list' = list /\ waddr' = waddr => Queues' = Queues
  BY QueuesNow
LEMMA WokenFrame == event' = event /\ cur' = cur => Woken' = Woken
  BY DEF Woken, Notifying

(* A wait that links its block joins its word's queue.                     *)
LEMMA StepEnqueue ==
  ASSUME NEW T, Inv(T), NEW t \in Thread, WaitAdd(t)
  PROVE  \E y \in Addr : Queue!Enqueue(t, y)
  <1>1. PICK y \in Addr : y = call[t].addr
    BY CallInProgress DEF WaitAdd, Goto, Inv, WaitPC
  <1>2. PICK b \in Bucket : b = Bucket1(t)
    BY CallInProgress DEF WaitAdd, Goto, Inv, WaitPC
  <1>3. PICK a2 : a2 = waddr'
    OBVIOUS
  <1>4. /\ pc[t] = "wait_add" /\ list' = ListAdd(list, b, t) /\ event' = event /\ cur' = cur
        /\ a2 = [waddr EXCEPT ![t] = y]
    BY <1>1, <1>2, <1>3 DEF WaitAdd, Goto
  <1>5. Hash[y] = b
    BY <1>1, <1>2 DEF Bucket1
  <1>6. list \in HeapType(Bucket, Thread)
    BY DEF Inv, TypeInv, TypeOK
  <1>7. waddr \in [Thread -> Addr]
    BY DEF Inv, TypeInv, TypeOK
  <1>8. PICK len, q : Orders(len, q)
    BY DEF Inv, ListInv
  <1>9. Chains(list, len, q)
    BY <1>8 DEF Orders
  <1>10. ~Linked(t) /\ t \notin Woken
    <2>1. ~event[t] /\ ~Notifying(t)
      BY <1>4, FutexAssumption DEF Inv, BlockInv, NoStaleWake, Notifying
    <2> QED BY <1>4, <2>1 DEF Linked, Woken
  <1>11. \A x \in Bucket : ~Has(len, q, x, t)
    BY <1>8, <1>10 DEF Orders
  <1>12. Enters(WaitingOn(list, waddr), WaitingOn(ListAdd(list, b, t), a2), t, y)
    BY <1>4, <1>5, <1>6, <1>7, <1>9, <1>11, QueuePut
  <1>13. Queues' = [Queues EXCEPT ![y] = Append(Queues[y], t)]
    BY <1>3, <1>4, <1>12, QueuesNow DEF Enters
  <1>14. ~Queue!Queued(t)
    <2> SUFFICES ASSUME NEW x \in Addr, t \in {Queues[x][i] : i \in DOMAIN Queues[x]} PROVE FALSE
      BY DEF Queue!Queued
    <2>1. Queues[x] \in Seq(Thread)
      BY InQueue
    <2>2. \E i \in 1 .. Len(Queues[x]) : Queues[x][i] = t
      BY <2>1
    <2> QED BY <1>10, <2>2, InQueue
  <1>15. Woken' = Woken
    BY <1>4, WokenFrame
  <1>16. Queue!Enqueue(t, y)
    BY <1>10, <1>13, <1>14, <1>15 DEF Queue!Enqueue
  <1> QED BY <1>16

(* An abort that unlinks its block leaves its word's queue.                *)
LEMMA StepAbandon ==
  ASSUME NEW T, Inv(T), NEW t \in Thread, AbortRemove(t)
  PROVE  \E x \in Addr : Queue!Abandon(t, x)
  <1>1. /\ list \in HeapType(Bucket, Thread)
        /\ waddr \in [Thread -> Addr]
    BY DEF Inv, TypeInv, TypeOK
  <1>2. PICK x \in Addr : x = waddr[t]
    BY <1>1
  <1>3. PICK b \in Bucket : b = Bucket1(t)
    BY CallInProgress DEF AbortRemove, Goto, Inv, WaitPC
  <1>4. /\ pc[t] = "abort_remove" /\ list' = ListRemove(list, b, t)
        /\ waddr' = waddr /\ event' = event /\ cur' = cur
    BY <1>3 DEF AbortRemove, Goto
  <1>5. Hash[x] = b
    BY <1>2, <1>3, <1>4 DEF Inv, HomeInv, InWait, Aborted
  <1>6. PICK len, q : Orders(len, q)
    BY DEF Inv, ListInv
  <1>7. Chains(list, len, q)
    BY <1>6 DEF Orders
  <1>8. Linked(t)
    BY <1>4 DEF Inv, BlockInv, Linked
  <1>9. PICK k \in 1 .. len[b] : t = q[b][k]
    BY <1>2, <1>5, <1>6, <1>8 DEF Orders, Has
  <1>10. waddr[t] = x
    BY <1>2
  <1>11. Leaves(WaitingOn(list, waddr), WaitingOn(ListRemove(list, b, t), waddr), t, x)
    BY <1>1, <1>5, <1>7, <1>9, <1>10, QueueCut
  <1>12. Leaves(Queues, Queues', t, x)
    BY <1>4, <1>11, QueuesNow
  <1>13. Woken' = Woken
    BY <1>4, WokenFrame
  <1>14. Queue!Abandon(t, x)
    BY <1>12, <1>13 DEF Queue!Abandon, Leaves
  <1> QED BY <1>14

(* A walk of futex_wake_requeue has passed no block of its word that it    *)
(* left there, so what it looks at now is the first one on the word.       *)
LEMMA LooksAtFirst ==
  ASSUME NEW T, Inv(T), NEW t \in Thread, NEW n \in Thread, Looking(t, n), ~SameWord(t),
         NEW len, NEW q, Orders(len, q), NEW b, b = Bucket1(t), NEW x, x = call[t].addr
  PROVE  /\ b \in Bucket /\ Hash[x] = b
         /\ \E k : FirstOn(waddr, len, q, b, k, n, x)
  <1>1. b \in Bucket /\ len[b] \in Nat
    BY LookingAt
  <1>2. PICK k \in 0 .. len[b] - 1 : Scanned(t, k, q[b]) /\ q[b][k + 1] = n
    BY LookingAt
  <1>3. k + 1 \in 1 .. len[b] /\ (k + 1) - 1 = k
    BY <1>1
  <1>4. \A j \in 1 .. k : waddr[q[b][j]] # x
    BY <1>2 DEF Scanned
  <1>5. FirstOn(waddr, len, q, b, k + 1, n, x)
    BY <1>2, <1>3, <1>4 DEF FirstOn
  <1> QED BY <1>1, <1>5 DEF Bucket1

(* A wake grants the first waiter of its word.                             *)
LEMMA StepGrant ==
  ASSUME NEW T, Inv(T), NEW t \in Thread, WalkUnlink(t)
  PROVE  \E x \in Addr : Queue!Grant(x)
  <1>1. /\ list \in HeapType(Bucket, Thread)
        /\ waddr \in [Thread -> Addr]
    BY DEF Inv, TypeInv, TypeOK
  <1>2. PICK n \in Thread : WalkUnlink(t)!(n)
    BY DEF WalkUnlink
  <1>3. PICK x \in Addr : x = waddr[n]
    BY <1>1
  <1>4. PICK b : b = Bucket1(t)
    OBVIOUS
  <1>5. /\ Looking(t, n) /\ ~SameWord(t) /\ x = call[t].addr /\ list' = ListRemove(list, b, n)
        /\ waddr' = waddr /\ event' = event /\ cur' = [cur EXCEPT ![t] = n] /\ pc[t] = "walk"
    BY <1>2, <1>3, <1>4 DEF Looking, SameWord
  <1>6. PICK len, q : Orders(len, q)
    BY DEF Inv, ListInv
  <1>7. b \in Bucket /\ Hash[x] = b /\ \E k : FirstOn(waddr, len, q, b, k, n, x)
    BY <1>4, <1>5, <1>6, LooksAtFirst
  <1>8. PICK k : FirstOn(waddr, len, q, b, k, n, x)
    BY <1>7
  <1>9. k \in 1 .. len[b] /\ n = q[b][k] /\ \A j \in 1 .. k - 1 : waddr[q[b][j]] # x
    BY <1>8 DEF FirstOn
  <1>10. Chains(list, len, q)
    BY <1>6 DEF Orders
  <1>11. waddr[n] = x
    BY <1>3
  <1>12. Heads(WaitingOn(list, waddr), WaitingOn(ListRemove(list, b, n), waddr), n, x)
    BY <1>1, <1>7, <1>9, <1>10, <1>11, QueueCut
  <1>13. Heads(Queues, Queues', n, x)
    BY <1>5, <1>12, QueuesNow
  <1>14. Woken' = Woken \cup {n}
    <2>1. cur \in [Thread -> Thread \cup {Null}] /\ cur[t] = Null /\ Null \notin Thread
      BY <1>5, FutexAssumption DEF Inv, TypeInv, TypeOK, CallOK
    <2>2. \A u \in Thread : Notifying(u)' <=> Notifying(u) \/ u = n
      BY <1>5, <2>1 DEF Notifying
    <2> QED BY <1>5, <2>2 DEF Woken
  <1>15. Queue!Grant(x)
    BY <1>13, <1>14 DEF Queue!Grant, Heads
  <1> QED BY <1>15

(* A requeue moves the first waiter of its word to the other word, unless  *)
(* they are one.                                                           *)
LEMMA StepMove ==
  ASSUME NEW T, Inv(T), NEW t \in Thread, WalkRequeue(t)
  PROVE  (\E x, y \in Addr : Queue!Move(x, y)) \/ UNCHANGED <<Queues, Woken>>
  <1>1. list \in HeapType(Bucket, Thread)
    BY DEF Inv, TypeInv, TypeOK
  <1>2. waddr \in [Thread -> Addr]
    BY DEF Inv, TypeInv, TypeOK
  <1>3. PICK n \in Thread : WalkRequeue(t)!(n)
    BY DEF WalkRequeue
  <1>4. PICK x \in Addr : x = waddr[n]
    BY <1>2
  <1>5. PICK b : b = Bucket1(t)
    OBVIOUS
  <1>6. PICK y \in Addr : y = call[t].addr2
    BY <1>3, CallInProgress DEF Looking, Inv, WakePC
  <1>7. PICK a2 : a2 = waddr'
    OBVIOUS
  <1>8. /\ Looking(t, n) /\ x = call[t].addr /\ a2 = [waddr EXCEPT ![n] = y]
        /\ event' = event /\ cur' = cur /\ Requeues(t)
    BY <1>3, <1>4, <1>6, <1>7
  <1>9. Woken' = Woken
    BY <1>8, WokenFrame
  <1>10. CASE x = y
    <2>1. a2 = waddr
      BY <1>2, <1>4, <1>8, <1>10
    <2>2. ~TwoBuckets(t)
      BY <1>6, <1>8, <1>10 DEF TwoBuckets, Bucket1, Bucket2
    <2>3. list' = list
      BY <1>3, <2>2
    <2> QED BY <1>7, <1>9, <2>1, <2>3, QueuesFrame
  <1>11. CASE x # y
    <2>1. ~SameWord(t)
      BY <1>6, <1>8, <1>11 DEF SameWord
    <2>2. PICK len, q : Orders(len, q)
      BY DEF Inv, ListInv
    <2>3. b \in Bucket /\ Hash[x] = b /\ \E k : FirstOn(waddr, len, q, b, k, n, x)
      BY <1>5, <1>8, <2>1, <2>2, LooksAtFirst
    <2>4. PICK k : FirstOn(waddr, len, q, b, k, n, x)
      BY <2>3
    <2>5. k \in 1 .. len[b] /\ n = q[b][k] /\ \A j \in 1 .. k - 1 : waddr[q[b][j]] # x
      BY <2>4 DEF FirstOn
    <2>6. Chains(list, len, q)
      BY <2>2 DEF Orders
    <2>7. waddr[n] = x
      BY <1>4
    <2>8. PICK c \in Bucket : c = Hash[y]
      BY FutexAssumption
    <2>9. TwoBuckets(t) <=> b # c
      BY <1>5, <1>6, <1>8, <2>8 DEF TwoBuckets, Bucket1, Bucket2
    <2>10. Moves(Queues, Queues', n, x, y)
      <3>1. CASE b = c
        <4>1. list' = list
          BY <1>3, <2>9, <3>1
        <4>2. Hash[y] = b
          BY <2>8, <3>1
        <4>3. Moves(WaitingOn(list, waddr), WaitingOn(list, a2), n, x, y)
          <5>1. a2 = [waddr EXCEPT ![n] = y]
            BY <1>8
          <5>2. b \in Bucket /\ Hash[x] = b
            BY <2>3
          <5> QED BY <1>1, <1>2, <1>11, <2>4, <2>6, <2>7, <4>2, <5>1, <5>2, QueueMove
        <4> QED BY <1>7, <4>1, <4>3, QueuesNow
      <3>2. CASE b # c
        <4>1. list' = ListAdd(ListRemove(list, b, n), c, n)
          BY <1>3, <1>5, <1>6, <2>8, <2>9, <3>2 DEF Bucket2
        <4>2. PICK L : L = ListRemove(list, b, n)
          OBVIOUS
        <4>3. Heads(WaitingOn(list, waddr), WaitingOn(L, waddr), n, x)
          BY <1>1, <1>2, <2>3, <2>5, <2>6, <2>7, <4>2, QueueCut
        <4>4. L \in HeapType(Bucket, Thread)
          BY <1>1, <2>3, <4>2, ListRemoveType
        <4>5. \E m, s : Chains(L, m, s) /\ \A z \in Bucket : ~Has(m, s, z, n)
          <5>1. PICK m, s : /\ Chains(ListRemove(list, b, n), m, s)
                            /\ \A z \in Bucket, u \in Thread : Has(m, s, z, u) <=> Has(len, q, z, u) /\ u # n
            BY <1>1, <2>3, <2>5, <2>6, CutChains
          <5> QED BY <4>2, <5>1
        <4>6. PICK m, s : Chains(L, m, s) /\ \A z \in Bucket : ~Has(m, s, z, n)
          BY <4>5
        <4>7. Hash[y] = c
          BY <2>8
        <4>8. Enters(WaitingOn(L, waddr), WaitingOn(ListAdd(L, c, n), a2), n, y)
          BY <1>2, <1>8, <4>4, <4>6, <4>7, QueuePut
        <4>9. Queues[y] \in Seq(Thread) /\ Queue!InsertAt(Queues[y], Len(Queues[y]) + 1, n) = Append(Queues[y], n)
          BY InQueue, AppendInserts
        <4>10. PICK P : P = WaitingOn(L, waddr)
          OBVIOUS
        <4>11. Heads(Queues, P, n, x) /\ Enters(P, Queues', n, y)
          BY <1>7, <4>1, <4>2, <4>3, <4>8, <4>10, QueuesNow
        <4>12. DOMAIN Queues = Addr
          BY DEF Queues, WaitingOn
        <4>13. P[y] = Queues[y]
          BY <1>11, <4>11, <4>12 DEF Heads
        <4>14. Queues' = [Queues EXCEPT ![x] = Tail(Queues[x]), ![y] = Append(Queues[y], n)]
          BY <4>11, <4>12, <4>13 DEF Heads, Enters
        <4>15. Len(Queues[y]) + 1 \in 1 .. Len(Queues[y]) + 1
          BY <4>9
        <4> QED BY <1>11, <4>9, <4>11, <4>14, <4>15 DEF Heads, Moves
      <3> QED BY <3>1, <3>2
    <2>11. Queue!Move(x, y)
      BY <1>9, <2>10 DEF Queue!Move, Moves
    <2> QED BY <2>11
  <1> QED BY <1>10, <1>11

(* A thread that notices its wake takes it.                                *)
LEMMA StepTake ==
  ASSUME NEW T, Inv(T), NEW t \in Thread, WaitWoken(t) \/ AbortRecheck(t), event[t]
  PROVE  Queue!Take(t)
  <1>1. list' = list /\ waddr' = waddr /\ cur' = cur /\ event' = [event EXCEPT ![t] = FALSE]
    BY DEF WaitWoken, AbortRecheck
  <1>2. Queues' = Queues
    BY <1>1, QueuesFrame
  <1>3. ~Notifying(t)
    BY FutexAssumption DEF Inv, BlockInv, Notifying
  <1>4. event \in [Thread -> BOOLEAN]
    BY DEF Inv, TypeInv, TypeOK
  <1>5. t \in Woken /\ Woken' = Woken \ {t}
    BY <1>1, <1>3, <1>4 DEF Woken, Notifying
  <1> QED BY <1>2, <1>5 DEF Queue!Take

(* Setting the event passes on a wake that was already granted.            *)
LEMMA StepNotify ==
  ASSUME NEW T, Inv(T), NEW t \in Thread, Notify(t)
  PROVE  UNCHANGED <<Queues, Woken>>
  <1>1. /\ list' = list /\ waddr' = waddr /\ pc[t] = "notify"
        /\ event' = [event EXCEPT ![cur[t]] = TRUE] /\ cur' = [cur EXCEPT ![t] = Null]
    BY DEF Notify, Goto
  <1>2. Queues' = Queues
    BY <1>1, QueuesFrame
  <1>3. /\ event \in [Thread -> BOOLEAN] /\ cur \in [Thread -> Thread \cup {Null}]
        /\ cur[t] \in Thread /\ Null \notin Thread
    BY <1>1, FutexAssumption DEF Inv, TypeInv, TypeOK, CallOK
  <1>4. \A u \in Thread : event'[u] <=> event[u] \/ u = cur[t]
    BY <1>1, <1>3
  <1>5. \A u \in Thread : u # cur[t] => (Notifying(u)' <=> Notifying(u))
    BY <1>1, <1>3 DEF Notifying
  <1>6. Notifying(cur[t])
    BY <1>3 DEF Notifying
  <1>7. Woken' = Woken
    BY <1>4, <1>5, <1>6 DEF Woken
  <1> QED BY <1>2, <1>7

(* Every step of the futex code is one of the word queues, or none.        *)
LEMMA StepQueue ==
  ASSUME NEW T, Inv(T), [Next]_vars
  PROVE  [Queue!Next]_(Queue!vars)
  <1>1. list' = list /\ waddr' = waddr /\ event' = event /\ cur' = cur => UNCHANGED <<Queues, Woken>>
    BY QueuesFrame, WokenFrame
  <1>2. ASSUME NEW t \in Thread, Wait(t) \/ Environment(t)
        PROVE  Queue!Next \/ UNCHANGED <<Queues, Woken>>
    <2>1. CASE WaitAdd(t)
      BY <2>1, StepEnqueue DEF Queue!Next
    <2>2. CASE AbortRemove(t)
      BY <2>2, StepAbandon DEF Queue!Next
    <2>3. CASE (WaitWoken(t) \/ AbortRecheck(t)) /\ event[t]
      BY <2>3, StepTake DEF Queue!Next
    <2>4. CASE AbortRecheck(t) /\ ~event[t]
      <3>1. event \in [Thread -> BOOLEAN]
        BY DEF Inv, TypeInv, TypeOK
      <3>2. event' = event
        BY <2>4, <3>1 DEF AbortRecheck
      <3> QED BY <1>1, <2>4, <3>2 DEF AbortRecheck
    <2>5. CASE \/ WaitLock(t) \/ WaitCompare(t) \/ WaitChanged(t) \/ WaitUnlock(t) \/ AbortLock(t)
               \/ AbortUnlock(t) \/ WaitAborted(t)
      BY <1>1, <2>5 DEF WaitLock, WaitCompare, WaitChanged, WaitUnlock, AbortLock, AbortUnlock, WaitAborted
    <2>6. CASE (\E s \in Stores : Store(t, s[2], s[3])) \/ (\E c \in Calls[t] : Enter(t, c))
      BY <1>1, <2>6 DEF Store, Enter
    <2>7. WaitWoken(t) => event[t]
      BY DEF WaitWoken
    <2> QED BY <1>2, <2>1, <2>2, <2>3, <2>4, <2>5, <2>6, <2>7 DEF Wait, Environment
  <1>3. ASSUME NEW t \in Thread, Wake(t)
        PROVE  Queue!Next \/ UNCHANGED <<Queues, Woken>>
    <2>1. CASE WalkUnlink(t)
      BY <2>1, StepGrant DEF Queue!Next
    <2>2. CASE WalkRequeue(t)
      BY <2>2, StepMove DEF Queue!Next
    <2>3. CASE Notify(t)
      BY <2>3, StepNotify
    <2>4. CASE \/ WakeLock1(t) \/ WakeLock2(t) \/ WakeCompare(t) \/ Eagain1(t) \/ Eagain2(t)
               \/ WalkEnd(t) \/ WalkSkip(t) \/ WakeUnlock1(t) \/ WakeUnlock2(t)
      BY <1>1, <2>4 DEF WakeLock1, WakeLock2, WakeCompare, Eagain1, Eagain2, WalkEnd, WalkSkip,
                        WakeUnlock1, WakeUnlock2
    <2> QED BY <1>3, <2>1, <2>2, <2>3, <2>4 DEF Wake
  <1>4. UNCHANGED vars => UNCHANGED <<Queues, Woken>>
    BY <1>1 DEF vars
  <1> QED BY <1>2, <1>3, <1>4 DEF Next, Queue!vars

(* Whatever the number of threads, words and buckets, the lists, the locks *)
(* and the events of the futex code implement one first-come queue per     *)
(* word: a wake goes to the longest waiter, stays that waiter's until it   *)
(* takes it, and a timeout never takes back what was granted.              *)
THEOREM ImplementsWordQueues ==
  CmpRequeuesCrossBuckets /\ TimedBlocksStay => (Spec => ImplementsQueue)
  <1> SUFFICES ASSUME CmpRequeuesCrossBuckets, NEW T \in SUBSET Addr, TimedWordsStay(T)
               PROVE  Spec => ImplementsQueue
    BY DEF TimedBlocksStay
  <1>1. Spec => []Inv(T)
    BY InvHolds
  <1>2. Init => Queue!Init
    BY InitQueue
  <1>3. Inv(T) /\ [Next]_vars => [Queue!Next]_(Queue!vars)
    BY StepQueue
  <1> QED BY <1>1, <1>2, <1>3, PTL DEF Spec, ImplementsQueue, Queue!Spec
=============================================================================
