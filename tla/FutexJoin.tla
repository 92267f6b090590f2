------------------------------ MODULE FutexJoin -----------------------------
(***************************************************************************)
(* A process whose threads make a bounded number of futex calls each, for  *)
(* liveness.  With no bound the spin locks give no thread any guarantee    *)
(* against others that take the same bucket over and over.                 *)
(*                                                                         *)
(* A joiner's program is the loop of a thread library over the child-tid   *)
(* word: while the word is not 0, futex_wait on it.  thread_exit clears    *)
(* the word and wakes one waiter.                                          *)
(***************************************************************************)
EXTENDS Futex

CONSTANTS
  MaxCalls,    \* bound on the calls of each thread outside the join loop
  Joiner       \* threads that run the join loop, their words and values
               \* being those of their only call

VARIABLE left  \* [Thread -> calls the thread may still make]

jvars == <<vars, left>>

JInit == Init /\ left = [t \in Thread |-> MaxCalls]

JoinAgain(t) ==
  /\ t \in Joiner
  /\ \E c \in Calls[t] : mem[c.addr] # 0 /\ Enter(t, c)
  /\ UNCHANGED left

OtherCall(t) ==
  /\ t \notin Joiner /\ left[t] > 0
  /\ \E c \in Calls[t] : Enter(t, c)
  /\ left' = [left EXCEPT ![t] = @ - 1]

Run(t) == (Wait(t) \/ Wake(t)) /\ UNCHANGED left

JNext == \E t \in Thread : JoinAgain(t) \/ OtherCall(t) \/ Run(t)
                           \/ (WaitAborted(t) /\ UNCHANGED left)

(* A thread inside futex code keeps running, a joiner repeats its loop.    *)
(* Nothing makes a thread exit or a timeout expire.                        *)
JFairness == \A t \in Thread : WF_jvars(Run(t)) /\ WF_jvars(JoinAgain(t))

JSpec == JInit /\ [][JNext]_jvars /\ JFairness

(* pthread_join returns: once the exiting thread has stored 0 into the     *)
(* child-tid word and finished thread_exit, the joiner is back in user     *)
(* code for good, even if its check of the word raced with the store.      *)
JoinReturns ==
  \A t \in Joiner, u \in Thread :
    pc[u] = "exited" ~> [](pc[t] = "user" /\ \A c \in Calls[t] : mem[c.addr] = 0)

(* No spin lock is held for ever: a thread that asks for a bucket gets it, *)
(* also while others lock the same two buckets for a requeue.              *)
BucketsGranted ==
  \A t \in Thread :
    pc[t] \in {"wait_lock", "abort_lock", "wake_lock1", "wake_lock2"} ~>
      pc[t] \notin {"wait_lock", "abort_lock", "wake_lock1", "wake_lock2"}
=============================================================================
