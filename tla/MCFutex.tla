------------------------------ MODULE MCFutex -------------------------------
(***************************************************************************)
(* Small processes for Futex.  Words a and b are in the same bucket, word  *)
(* c in the other one.  Each instance gives the threads a role: the calls  *)
(* they may make, over and over, in any order.                             *)
(***************************************************************************)
EXTENDS Futex

CONSTANTS w1, w2, k1, k2, a, b, c

MC_Val == {0, 1}
MC_Hash == [x \in Addr |-> IF x = c THEN 0 ELSE 1]
MC_Zero == [x \in Addr |-> 0]

WaitOn(x, abortable) == [op |-> "wait", addr |-> x, val |-> 0, abortable |-> abortable]
WakeOn(x, n) == [op |-> "wake", addr |-> x, count |-> n, addr2 |-> NoAddr, cmp |-> NoVal]
RequeueTo(x, n, y, v) == [op |-> "requeue", addr |-> x, count |-> n, addr2 |-> y, cmp |-> v]

(* Two waiters and a thread that wakes and requeues, between the buckets   *)
(* in both directions and within one, next to waits that may be aborted.   *)
(* No block that can be requeued to another bucket has a timeout.          *)
Mixed_Calls ==
  [t \in Thread |-> CASE t = w1 -> {WaitOn(a, FALSE), WaitOn(b, TRUE)}
                      [] t = w2 -> {WaitOn(a, FALSE), WaitOn(c, FALSE)}
                      [] t = k1 -> {RequeueTo(a, 1, c, 0), RequeueTo(a, 0, b, NoVal),
                                    RequeueTo(c, 0, a, NoVal), WakeOn(b, 2)}]
Mixed_Stores == {<<k1, a, 0>>, <<k1, a, 1>>}

(* Every requeue that can overtake a wait with a timeout: between buckets. *)
Stale_Calls ==
  [t \in Thread |-> CASE t = w1 -> {WaitOn(a, TRUE)}
                      [] t = w2 -> {WaitOn(c, TRUE)}
                      [] t = k1 -> {RequeueTo(a, 0, c, NoVal), WakeOn(c, 1)}]
=============================================================================
