---------------------------- MODULE MCFutexJoin -----------------------------
(***************************************************************************)
(* A joiner w1, a thread k1 that exits, and two threads that meanwhile     *)
(* keep both buckets busy: a waiter whose wait may time out, and requeues  *)
(* in both directions between the buckets.                                 *)
(***************************************************************************)
EXTENDS FutexJoin

CONSTANTS w1, k1, k2, k3, a, b, c

MC_Val == {0, 1}
MC_Hash == [x \in Addr |-> IF x = c THEN 0 ELSE 1]
MC_InitMem == [x \in Addr |-> IF x = a THEN 1 ELSE 0]

WaitOn(x, v, abortable) == [op |-> "wait", addr |-> x, val |-> v, abortable |-> abortable]
RequeueTo(x, n, y) == [op |-> "requeue", addr |-> x, count |-> n, addr2 |-> y, cmp |-> 0]
ExitWith(x) == [op |-> "exit", addr |-> x, count |-> 1, addr2 |-> NoAddr, cmp |-> NoVal]

Join_Calls ==
  [t \in Thread |-> CASE t = w1 -> {WaitOn(a, 1, FALSE)}
                      [] t = k1 -> {ExitWith(a), WaitOn(b, 0, TRUE)}
                      [] t = k2 -> {RequeueTo(b, 1, c), WaitOn(a, 0, TRUE)}
                      [] t = k3 -> {RequeueTo(c, 0, b)}]
=============================================================================
