------------------------------- MODULE Futex --------------------------------
(***************************************************************************)
(* Fast user space mutexes: syscall/futex.c, with the part of thread_exit  *)
(* (syscall/process.c) that clears and wakes the child-tid word.           *)
(*                                                                         *)
(* Threads of one process share 256 hash buckets, each a spin lock and a   *)
(* list of wait blocks.  A wait block is a local variable of futex_wait,   *)
(* so it is named by the thread whose stack frame holds it.  One action is *)
(* one step between two shared accesses that other threads can tell apart: *)
(* taking a bucket, comparing the word, linking a block, letting go of the *)
(* bucket, the wait, setting the event.                                    *)
(***************************************************************************)
EXTENDS Naturals, FiniteSets, Sequences, LinkedList

CONSTANTS
  Thread,     \* the threads of the process
  Addr,       \* futex words
  Val,        \* values a word can hold
  NBuckets,   \* FUTEX_HASH_BUCKETS
  Hash,       \* futex_hash: [Addr -> Bucket]
  NoAddr,     \* requeue_addr == NULL
  NoVal,      \* requeue_val == NULL
  Calls,      \* [Thread -> set of calls its program makes]
  Stores,     \* the <<thread, word, value>> stores user code performs
  InitMem     \* the words when the threads start

Bucket == 0 .. NBuckets - 1

Call == [op : {"wait"}, addr : Addr, val : Val, abortable : BOOLEAN]
        \cup [op : {"wake", "exit"}, addr : Addr, count : Nat,
              addr2 : {NoAddr}, cmp : {NoVal}]
        \cup [op : {"requeue"}, addr : Addr, count : Nat,
              addr2 : Addr, cmp : Val \cup {NoVal}]

(* The calls for which the lock protocol is sound: no FUTEX_CMP_REQUEUE    *)
(* between two words of the same bucket.                                   *)
CmpRequeuesCrossBuckets ==
  \A t \in Thread : \A c \in Calls[t] :
    c.op = "requeue" /\ c.cmp # NoVal => Hash[c.addr] # Hash[c.addr2]

ASSUME FutexAssumption ==
  /\ IsFiniteSet(Thread)
  /\ NBuckets \in Nat \ {0}
  /\ Hash \in [Addr -> Bucket]
  /\ NoAddr \notin Addr /\ NoVal \notin Val /\ Null \notin Thread
  /\ Addr # {} /\ 0 \in Val
  /\ Calls \in [Thread -> SUBSET Call]
  /\ Stores \subseteq Thread \X Addr \X Val
  /\ InitMem \in [Addr -> Val]

VARIABLES
  mem,     \* the futex words
  spin,    \* [Bucket -> BOOLEAN]: spin_lock is taken
  list,    \* the wait lists and the links of the wait blocks
  waddr,   \* [Thread -> Addr]: addr field of the thread's wait block
  event,   \* [Thread -> BOOLEAN]: wait_event, an auto-reset event
  pc,      \* where each thread is
  call,    \* the arguments of the call a thread is in
  prev,    \* futex_wake_requeue: prev
  cur,     \* futex_wake_requeue: the block just unlinked, to be notified
  woken    \* futex_wake_requeue: num_woken

vars == <<mem, spin, list, waddr, event, pc, call, prev, cur, woken>>

-----------------------------------------------------------------------------
WaitPC   == {"wait_lock", "wait_compare", "wait_add", "wait_unlock",
             "wait_changed", "blocked", "abort_lock", "abort_recheck",
             "abort_remove", "abort_unlock"}
WakePC   == {"wake_lock1", "wake_lock2", "wake_compare", "eagain1", "eagain2",
             "walk", "notify", "wake_unlock1", "wake_unlock2"}
ThreadPC == {"user", "exited"} \cup WaitPC \cup WakePC

AnyCall == [op |-> "none", addr |-> CHOOSE a \in Addr : TRUE]

Bucket1(t) == Hash[call[t].addr]
Bucket2(t) == Hash[call[t].addr2]
Requeues(t) == call[t].op = "requeue"
TwoBuckets(t) == Requeues(t) /\ Bucket1(t) # Bucket2(t)

Init ==
  /\ mem = InitMem
  /\ spin = [b \in Bucket |-> FALSE]
  /\ list = EmptyHeap(Bucket, Thread)
  /\ waddr = [t \in Thread |-> AnyCall.addr]
  /\ event = [t \in Thread |-> FALSE]
  /\ pc = [t \in Thread |-> "user"]
  /\ call = [t \in Thread |-> AnyCall]
  /\ prev = [t \in Thread |-> Null]
  /\ cur = [t \in Thread |-> Null]
  /\ woken = [t \in Thread |-> 0]

Goto(t, from, to) == pc[t] = from /\ pc' = [pc EXCEPT ![t] = to]
Lock(b)   == ~spin[b] /\ spin' = [spin EXCEPT ![b] = TRUE]
Unlock(b) == spin' = [spin EXCEPT ![b] = FALSE]

-----------------------------------------------------------------------------
(* User code. *)

Store(t, a, v) ==
  /\ pc[t] = "user"
  /\ mem' = [mem EXCEPT ![a] = v]
  /\ UNCHANGED <<spin, list, waddr, event, pc, call, prev, cur, woken>>

Enter(t, c) ==
  /\ Goto(t, "user", IF c.op = "wait" THEN "wait_lock" ELSE "wake_lock1")
  /\ call' = [call EXCEPT ![t] = c]
  /\ mem' = IF c.op = "exit" THEN [mem EXCEPT ![c.addr] = 0] ELSE mem
  /\ UNCHANGED <<spin, list, waddr, event, prev, cur, woken>>

(* Back to user code; an exiting thread has none. *)
Return(t) == pc' = [pc EXCEPT ![t] = IF call[t].op = "exit" THEN "exited" ELSE "user"]

-----------------------------------------------------------------------------
(* futex_wait *)

WaitLock(t) ==
  /\ Goto(t, "wait_lock", "wait_compare")
  /\ Lock(Bucket1(t))
  /\ UNCHANGED <<mem, list, waddr, event, call, prev, cur, woken>>

(* futex_wait as it would be without the comparison under the lock. *)
WaitCompare_Skipped(t) ==
  /\ Goto(t, "wait_compare", "wait_add")
  /\ UNCHANGED <<mem, spin, list, waddr, event, call, prev, cur, woken>>

WaitCompare(t) ==
  /\ Goto(t, "wait_compare",
          IF mem[call[t].addr] # call[t].val THEN "wait_changed" ELSE "wait_add")
  /\ UNCHANGED <<mem, spin, list, waddr, event, call, prev, cur, woken>>

WaitChanged(t) ==
  /\ pc[t] = "wait_changed"
  /\ Unlock(Bucket1(t))
  /\ Return(t)
  /\ UNCHANGED <<mem, list, waddr, event, call, prev, cur, woken>>

WaitAdd(t) ==
  /\ Goto(t, "wait_add", "wait_unlock")
  /\ waddr' = [waddr EXCEPT ![t] = call[t].addr]
  /\ list' = ListAdd(list, Bucket1(t), t)
  /\ UNCHANGED <<mem, spin, event, call, prev, cur, woken>>

WaitUnlock(t) ==
  /\ Goto(t, "wait_unlock", "blocked")
  /\ Unlock(Bucket1(t))
  /\ UNCHANGED <<mem, list, waddr, event, call, prev, cur, woken>>

(* signal_wait returns WAIT_OBJECT_0: the auto-reset event is consumed. *)
WaitWoken(t) ==
  /\ pc[t] = "blocked"
  /\ event[t]
  /\ event' = [event EXCEPT ![t] = FALSE]
  /\ Return(t)
  /\ UNCHANGED <<mem, spin, list, waddr, call, prev, cur, woken>>

(* signal_wait times out or is interrupted by sigevent.  When both objects *)
(* are signalled the wait returns the lower index, which is wait_event.    *)
WaitAborted(t) ==
  /\ Goto(t, "blocked", "abort_lock")
  /\ ~event[t]
  /\ call[t].abortable
  /\ UNCHANGED <<mem, spin, list, waddr, event, call, prev, cur, woken>>

(* The abort as it would be without taking the bucket. *)
AbortLock_Skipped(t) ==
  /\ Goto(t, "abort_lock", "abort_recheck")
  /\ UNCHANGED <<mem, spin, list, waddr, event, call, prev, cur, woken>>

AbortLock(t) ==
  /\ Goto(t, "abort_lock", "abort_recheck")
  /\ Lock(Bucket1(t))
  /\ UNCHANGED <<mem, list, waddr, event, call, prev, cur, woken>>

(* futex_wait as it would be without the second look at wait_event. *)
AbortRecheck_Skipped(t) ==
  /\ Goto(t, "abort_recheck", "abort_remove")
  /\ UNCHANGED <<mem, spin, list, waddr, event, call, prev, cur, woken>>

(* WaitForSingleObject(wait_event, 0): were we woken in the meantime? *)
AbortRecheck(t) ==
  /\ Goto(t, "abort_recheck", IF event[t] THEN "abort_unlock" ELSE "abort_remove")
  /\ event' = [event EXCEPT ![t] = FALSE]
  /\ UNCHANGED <<mem, spin, list, waddr, call, prev, cur, woken>>

AbortRemove(t) ==
  /\ Goto(t, "abort_remove", "abort_unlock")
  /\ list' = ListRemove(list, Bucket1(t), t)
  /\ UNCHANGED <<mem, spin, waddr, event, call, prev, cur, woken>>

AbortUnlock(t) ==
  /\ pc[t] = "abort_unlock"
  /\ Unlock(Bucket1(t))
  /\ Return(t)
  /\ UNCHANGED <<mem, list, waddr, event, call, prev, cur, woken>>

Wait(t) == \/ WaitLock(t) \/ WaitCompare(t) \/ WaitChanged(t) \/ WaitAdd(t)
           \/ WaitUnlock(t) \/ WaitWoken(t) \/ AbortLock(t) \/ AbortRecheck(t)
           \/ AbortRemove(t) \/ AbortUnlock(t)

-----------------------------------------------------------------------------
(* futex_wake_requeue *)

(* lock_buckets without the order: the first argument first. *)
FirstBucket_Unordered(t) == Bucket1(t)

(* lock_buckets takes the lower bucket first. *)
FirstBucket(t) ==
  IF TwoBuckets(t) /\ Bucket2(t) < Bucket1(t) THEN Bucket2(t) ELSE Bucket1(t)
SecondBucket(t) == IF FirstBucket(t) = Bucket1(t) THEN Bucket2(t) ELSE Bucket1(t)

(* Past the locks: prev = NULL, num_woken = 0, and the comparison is next  *)
(* when requeue_addr and requeue_val are both given.                       *)
Locked(t) == IF Requeues(t) /\ call[t].cmp # NoVal THEN "wake_compare" ELSE "walk"

WakeLock1(t) ==
  /\ Goto(t, "wake_lock1", IF TwoBuckets(t) THEN "wake_lock2" ELSE Locked(t))
  /\ Lock(FirstBucket(t))
  /\ prev' = [prev EXCEPT ![t] = Null]
  /\ woken' = [woken EXCEPT ![t] = 0]
  /\ UNCHANGED <<mem, list, waddr, event, call, cur>>

WakeLock2(t) ==
  /\ Goto(t, "wake_lock2", Locked(t))
  /\ Lock(SecondBucket(t))
  /\ UNCHANGED <<mem, list, waddr, event, call, prev, cur, woken>>

WakeCompare(t) ==
  /\ Goto(t, "wake_compare", IF mem[call[t].addr] # call[t].cmp THEN "eagain1" ELSE "walk")
  /\ UNCHANGED <<mem, spin, list, waddr, event, call, prev, cur, woken>>

(* The value changed: both unlock_bucket calls are made, whether or not    *)
(* the two buckets are different ones.                                     *)
Eagain1(t) ==
  /\ Goto(t, "eagain1", "eagain2")
  /\ Unlock(Bucket1(t))
  /\ UNCHANGED <<mem, list, waddr, event, call, prev, cur, woken>>

Eagain2(t) ==
  /\ pc[t] = "eagain2"
  /\ Unlock(Bucket2(t))
  /\ Return(t)
  /\ UNCHANGED <<mem, list, waddr, event, call, prev, cur, woken>>

(* The block the loop looks at next. *)
NextBlock(t) == IF prev[t] = Null THEN list.head[Bucket1(t)] ELSE list.next[prev[t]]

EnoughWoken(t) == woken[t] = call[t].count

WalkEnd(t) ==
  /\ Goto(t, "walk", "wake_unlock1")
  /\ \/ ~Requeues(t) /\ EnoughWoken(t)
     \/ NextBlock(t) = Null
  /\ UNCHANGED <<mem, spin, list, waddr, event, call, prev, cur, woken>>

(* The loop goes on with block n. *)
Looking(t, n) ==
  /\ pc[t] = "walk"
  /\ Requeues(t) \/ ~EnoughWoken(t)
  /\ n = NextBlock(t)

WalkSkip(t) == \E n \in Thread :
  /\ Looking(t, n)
  /\ waddr[n] # call[t].addr
  /\ prev' = [prev EXCEPT ![t] = n]
  /\ UNCHANGED <<mem, spin, list, waddr, event, pc, call, cur, woken>>

(* The requeue as it would be if the block kept its old address. *)
WalkRequeue_KeepsAddr(t) == \E n \in Thread :
  /\ Looking(t, n)
  /\ waddr[n] = call[t].addr
  /\ Requeues(t) /\ EnoughWoken(t)
  /\ IF TwoBuckets(t)
     THEN /\ list' = ListAdd(ListRemove(list, Bucket1(t), n), Bucket2(t), n)
          /\ UNCHANGED prev
     ELSE prev' = [prev EXCEPT ![t] = n] /\ UNCHANGED list
  /\ UNCHANGED <<mem, spin, waddr, event, pc, call, cur, woken>>

(* Enough woken: the block changes its address, and its bucket if it must. *)
WalkRequeue(t) == \E n \in Thread :
  /\ Looking(t, n)
  /\ waddr[n] = call[t].addr
  /\ Requeues(t) /\ EnoughWoken(t)
  /\ waddr' = [waddr EXCEPT ![n] = call[t].addr2]
  /\ IF TwoBuckets(t)
     THEN /\ list' = ListAdd(ListRemove(list, Bucket1(t), n), Bucket2(t), n)
          /\ UNCHANGED prev
     ELSE prev' = [prev EXCEPT ![t] = n] /\ UNCHANGED list
  /\ UNCHANGED <<mem, spin, event, pc, call, cur, woken>>

(* The unlinking as it would be if the event was set first. *)
WalkUnlink_AfterEvent(t) == \E n \in Thread :
  /\ Looking(t, n)
  /\ waddr[n] = call[t].addr
  /\ ~EnoughWoken(t)
  /\ list' = ListRemove(list, Bucket1(t), n)
  /\ cur' = [cur EXCEPT ![t] = n]
  /\ event' = [event EXCEPT ![n] = TRUE]
  /\ pc' = [pc EXCEPT ![t] = "notify"]
  /\ UNCHANGED <<mem, spin, waddr, call, prev, woken>>

WalkUnlink(t) == \E n \in Thread :
  /\ Looking(t, n)
  /\ waddr[n] = call[t].addr
  /\ ~EnoughWoken(t)
  /\ list' = ListRemove(list, Bucket1(t), n)
  /\ cur' = [cur EXCEPT ![t] = n]
  /\ pc' = [pc EXCEPT ![t] = "notify"]
  /\ UNCHANGED <<mem, spin, waddr, event, call, prev, woken>>

(* The notification as it would be if it counted down. *)
Notify_CountsDown(t) ==
  /\ Goto(t, "notify", "walk")
  /\ event' = [event EXCEPT ![cur[t]] = TRUE]
  /\ woken' = [woken EXCEPT ![t] = @ - 1]
  /\ cur' = [cur EXCEPT ![t] = Null]
  /\ UNCHANGED <<mem, spin, list, waddr, call, prev>>

(* NtSetEvent *)
Notify(t) ==
  /\ Goto(t, "notify", "walk")
  /\ event' = [event EXCEPT ![cur[t]] = TRUE]
  /\ woken' = [woken EXCEPT ![t] = @ + 1]
  /\ cur' = [cur EXCEPT ![t] = Null]
  /\ UNCHANGED <<mem, spin, list, waddr, call, prev>>

(* The end of a requeue as it would be if it forgot the second bucket. *)
WakeUnlock1_Only(t) ==
  /\ pc[t] = "wake_unlock1"
  /\ Unlock(Bucket1(t))
  /\ Return(t)
  /\ UNCHANGED <<mem, list, waddr, event, call, prev, cur, woken>>

WakeUnlock1(t) ==
  /\ pc[t] = "wake_unlock1"
  /\ Unlock(Bucket1(t))
  /\ IF TwoBuckets(t) THEN Goto(t, "wake_unlock1", "wake_unlock2") ELSE Return(t)
  /\ UNCHANGED <<mem, list, waddr, event, call, prev, cur, woken>>

WakeUnlock2(t) ==
  /\ pc[t] = "wake_unlock2"
  /\ Unlock(Bucket2(t))
  /\ Return(t)
  /\ UNCHANGED <<mem, list, waddr, event, call, prev, cur, woken>>

Wake(t) == \/ WakeLock1(t) \/ WakeLock2(t) \/ WakeCompare(t) \/ Eagain1(t)
           \/ Eagain2(t) \/ WalkEnd(t) \/ WalkSkip(t) \/ WalkRequeue(t)
           \/ WalkUnlink(t) \/ Notify(t) \/ WakeUnlock1(t) \/ WakeUnlock2(t)

-----------------------------------------------------------------------------
Environment(t) ==
  \/ \E s \in Stores : s[1] = t /\ Store(t, s[2], s[3])
  \/ \E c \in Calls[t] : Enter(t, c)
  \/ WaitAborted(t)

Next == \E t \in Thread : Environment(t) \/ Wait(t) \/ Wake(t)

Spec == Init /\ [][Next]_vars

-----------------------------------------------------------------------------
(* The control points at which a thread has bucket b, by its own account.  *)
HoldsBoth == {"wake_compare", "eagain1", "walk", "notify", "wake_unlock1"}
Holds(t, b) ==
  \/ /\ pc[t] \in {"wait_compare", "wait_changed", "wait_add", "wait_unlock",
                   "abort_recheck", "abort_remove", "abort_unlock"} \cup HoldsBoth
     /\ b = Bucket1(t)
  \/ /\ TwoBuckets(t)
     /\ \/ pc[t] \in HoldsBoth \cup {"eagain2", "wake_unlock2"} /\ b = Bucket2(t)
        \/ pc[t] = "wake_lock2" /\ b = FirstBucket(t)

(* The wait block of t is linked: futex_wait has added it, and neither a   *)
(* waker nor t itself has taken it out again.                              *)
Notifying(t) == \E w \in Thread : cur[w] = t
Linked(t) == /\ pc[t] \in {"wait_unlock", "blocked", "abort_lock",
                           "abort_recheck", "abort_remove"}
             /\ ~event[t]
             /\ ~Notifying(t)
Members(b) == {t \in Thread : Linked(t) /\ Hash[waddr[t]] = b}

(* The variables have their types (the arrays, pointers and locals of      *)
(* syscall/futex.c).                                                       *)
TypeOK ==
  /\ mem \in [Addr -> Val]
  /\ spin \in [Bucket -> BOOLEAN]
  /\ list \in HeapType(Bucket, Thread)
  /\ waddr \in [Thread -> Addr]
  /\ event \in [Thread -> BOOLEAN]
  /\ pc \in [Thread -> ThreadPC]
  /\ call \in [Thread -> Call \cup {AnyCall}]
  /\ prev \in [Thread -> Thread \cup {Null}]
  /\ cur \in [Thread -> Thread \cup {Null}]
  /\ woken \in [Thread -> Nat]

(* lock_bucket and unlock_bucket pair up on every path of futex_wait and   *)
(* futex_wake_requeue: no two threads are ever inside the same bucket, and *)
(* a taken spin lock belongs to a thread that will let it go.              *)
BucketExclusion ==
  \A b \in Bucket :
    /\ \A t, u \in Thread : Holds(t, b) /\ Holds(u, b) => t = u
    /\ spin[b] <=> \E t \in Thread : Holds(t, b)

(* Every bucket's list consists of exactly the wait blocks of the threads  *)
(* that wait on a word of that bucket and have not been woken: nobody is   *)
(* lost, duplicated, or left linked after its stack frame is gone, even    *)
(* when a timeout, a wake and a requeue of the same block race.            *)
ListsExact ==
  \A b \in Bucket : LET w == Walk(list, b) IN
    /\ ProperList(list, b, Members(b))
    /\ {w[i] : i \in DOMAIN w} = Members(b)

(* The auto-reset wait_event is set only while its thread still has to     *)
(* consume it inside futex_wait: a wake that races with a timeout never    *)
(* leaks into the thread's next wait ("Check again if we're not woke").    *)
NoStaleWake ==
  \A t \in Thread :
    event[t] => pc[t] \in {"wait_unlock", "blocked", "abort_lock", "abort_recheck"}

(* A block that futex_wake_requeue holds a pointer to (prev, or the block  *)
(* it is about to notify) belongs to a thread still inside futex_wait, so  *)
(* the pointer never dangles into a stack frame that is gone.              *)
BlocksAlive ==
  \A w \in Thread : pc[w] \in {"walk", "notify"} =>
    /\ prev[w] # Null => Linked(prev[w])
    /\ pc[w] = "notify" =>
         pc[cur[w]] \in {"wait_unlock", "blocked", "abort_lock"} /\ ~event[cur[w]]

(* When the walk of futex_wake_requeue is over, it woke as many threads as *)
(* it was asked to or nobody is left waiting on the word; a requeue leaves *)
(* nobody on the word at all (unless it requeues to the word itself).      *)
WakeComplete ==
  \A w \in Thread : pc[w] = "wake_unlock1" =>
    LET left == {t \in Thread : Linked(t) /\ waddr[t] = call[w].addr}
    IN  IF Requeues(w)
        THEN woken[w] <= call[w].count /\ (call[w].addr2 # call[w].addr => left = {})
        ELSE woken[w] = call[w].count \/ (woken[w] < call[w].count /\ left = {})

(* "Wait unsuccessful, we need to remove us from the wait list": a thread  *)
(* about to return from an aborted futex_wait is on no list any more.      *)
AbortRemovesUs ==
  \A t \in Thread, b \in Bucket :
    pc[t] = "abort_unlock" => LET w == Walk(list, b) IN \A i \in DOMAIN w : w[i] # t

-----------------------------------------------------------------------------
(* The futex code implements the per-word queues of FutexQueue: the queue  *)
(* of a word is what a walk over its bucket's list finds waiting on it,    *)
(* and a grant lasts from the unlinking of the block to the consumption of *)
(* wait_event.                                                             *)

(* The blocks of a word's list whose addr field is the word itself, in the *)
(* order of the list.                                                      *)
QueueOf(L, addr, x) ==
  LET w == Walk(L, Hash[x])
      q[i \in 0 .. Len(w)] ==
        IF i = 0 THEN <<>>
        ELSE IF addr[w[i]] = x THEN Append(q[i - 1], w[i]) ELSE q[i - 1]
  IN  q[Len(w)]
WaitingOn(L, addr) == [x \in Addr |-> QueueOf(L, addr, x)]

Queues == WaitingOn(list, waddr)
Woken  == {t \in Thread : event[t] \/ Notifying(t)}

Queue == INSTANCE FutexQueue WITH queue <- Queues, granted <- Woken

(* Every step of the buckets, lists and events is a step of the word       *)
(* queues: wakes go to waiters in their order of arrival, exactly one wake *)
(* per unlinked waiter, and a wake is taken by the thread it was given to. *)
ImplementsQueue == Queue!Spec
=============================================================================
