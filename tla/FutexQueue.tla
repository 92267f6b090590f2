----------------------------- MODULE FutexQueue -----------------------------
(***************************************************************************)
(* What the futex calls promise, without buckets, locks or wait blocks:    *)
(* each word has a queue of threads; a wake grants the longest waiting one *)
(* its wake, which stays its own until it takes it; a requeue moves the    *)
(* longest waiting thread to the other word's queue; a timeout or a signal *)
(* takes a thread out of its queue, but never out of its grant.            *)
(***************************************************************************)
EXTENDS Sequences, SequencesExt, Naturals

CONSTANTS Thread, Addr

VARIABLES
  queue,    \* [Addr -> Seq(Thread)]: who waits, in the order of arrival
  granted   \* threads that were woken and have not noticed yet

vars == <<queue, granted>>

Queued(t) == \E x \in Addr : t \in {queue[x][i] : i \in DOMAIN queue[x]}

Init == queue = [x \in Addr |-> <<>>] /\ granted = {}

Enqueue(t, x) ==
  /\ ~Queued(t) /\ t \notin granted
  /\ queue' = [queue EXCEPT ![x] = Append(@, t)]
  /\ UNCHANGED granted

Grant(x) ==
  /\ queue[x] # <<>>
  /\ granted' = granted \cup {Head(queue[x])}
  /\ queue' = [queue EXCEPT ![x] = Tail(@)]

(* When both words are in one bucket a requeued block keeps its place in   *)
(* the bucket's list, so it may enter the other queue anywhere.            *)
Move(x, y) ==
  /\ x # y /\ queue[x] # <<>>
  /\ \E i \in 1 .. Len(queue[y]) + 1 :
       queue' = [queue EXCEPT ![x] = Tail(@), ![y] = InsertAt(@, i, Head(queue[x]))]
  /\ UNCHANGED granted

Take(t) ==
  /\ t \in granted
  /\ granted' = granted \ {t}
  /\ UNCHANGED queue

Abandon(t, x) ==
  /\ \E i \in DOMAIN queue[x] :
       queue[x][i] = t /\ queue' = [queue EXCEPT ![x] = RemoveAt(@, i)]
  /\ UNCHANGED granted

Next ==
  \/ \E t \in Thread : Take(t) \/ \E x \in Addr : Enqueue(t, x) \/ Abandon(t, x)
  \/ \E x \in Addr : Grant(x) \/ \E y \in Addr : Move(x, y)

Spec == Init /\ [][Next]_vars
=============================================================================
