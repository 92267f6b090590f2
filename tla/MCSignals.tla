----------------------------- MODULE MCSignals ------------------------------
(***************************************************************************)
(* Small programs for Signals.                                             *)
(***************************************************************************)
EXTENDS Signals

CONSTANTS t1, t2, usr1, usr2

Two_Threads == <<t1, t2>>

Program(c1, c2, mask, action2) ==
  [calls   |-> [t \in Thread |-> IF t = t1 THEN c1 ELSE c2],
   mask    |-> [t \in Thread |-> mask],
   actions |-> [s \in Sig |-> IF s = usr1 THEN "handler" ELSE action2]]

Kill1   == [op |-> "kill", sig |-> usr1]
Kill2   == [op |-> "kill", sig |-> usr2]
Wait    == [op |-> "wait"]
Masks   == [op : {"sigprocmask"}, set : {{}, {usr1}}]
Ignore1 == [op |-> "sigaction", sig |-> usr1, act |-> "SIG_IGN"]
Suspend == [op |-> "sigsuspend", set |-> {usr2}]
Poll    == [op |-> "ppoll", set |-> {}]

(* t1 suspends itself and is killed; t2 waits and kills. *)
Nested  == Program({Suspend, Kill2}, {Wait, Kill1}, {}, "handler")
(* Masks come and go while signals arrive. *)
Unmask  == Program(Masks \cup {Wait}, Masks \cup {Kill1, Ignore1}, {usr1}, "handler")
(* One signal has a handler, the other ends the process. *)
Fatally == Program({Kill1, Kill2, Wait}, {Kill1, Kill2, Wait}, {}, "SIG_DFL")
(* t1 polls with its signals let through, t2 kills. *)
Polling == Program({Poll}, {Kill1}, {usr1}, "handler")
(* t1 suspends itself while its signals are masked. *)
Suspending == Program({Suspend}, {Kill1}, {usr1}, "handler")

All_Programs     == {Nested, Unmask, Fatally, Polling}
Suspend_Programs == {Suspending}
=============================================================================
