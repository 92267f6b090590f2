---------------------------- MODULE MCChildWait -----------------------------
(***************************************************************************)
(* Small programs for ChildWait.                                           *)
(***************************************************************************)
EXTENDS ChildWait

CONSTANTS t1, t2, s1, s2

By(c1, c2, n) ==
  [calls |-> [t \in Thread |-> IF t = t1 THEN c1 ELSE c2], live |-> n]

(* A shell that waits for any child; the pattern of system(3), fork and    *)
(* wait for that child; and a thread that waits while another forks.       *)
Reap_Programs ==
  {By({"fork", "clone", "wait_any", "wait_any_nohang"}, {}, 2),
   By({"fork", "wait_pid", "wait_pid_nohang"}, {}, 1),
   By({"fork", "wait_any"}, {"fork", "clone"}, 2)}

(* Waits for one pid next to waits for any child. *)
Shell_Programs == {By({"fork", "wait_pid", "wait_any"}, {}, 2)}

(* One thread waits while another forks. *)
Deadlock_Programs == {By({"wait_any"}, {"fork"}, 2)}
=============================================================================
