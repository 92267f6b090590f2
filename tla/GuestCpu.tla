------------------------------- MODULE GuestCpu -----------------------------
(***************************************************************************)
(* What the translator promises: a processor that runs the guest program   *)
(* itself.  A program maps an address to an instruction; ret takes the     *)
(* address from the stack, jmpi one of those it may go to, a system call   *)
(* may replace the program, and a signal enters the handler at an          *)
(* instruction boundary and comes back there.                              *)
(***************************************************************************)
EXTENDS Integers, Sequences

CONSTANTS Prog,      \* version -> address -> [k: kind, to: set of destinations]
          Handler,   \* address of the signal handler
          MaxStack   \* bound on the depth of calls

VARIABLES pc, stack, saved, ver

guestVars == <<pc, stack, saved, ver>>

Init == pc = 0 /\ stack = << >> /\ saved = << >> /\ ver \in DOMAIN Prog

At(k) == Prog[ver][pc].k = k
To == Prog[ver][pc].to

Flow ==
  \/ At("op") /\ pc' = pc + 1 /\ UNCHANGED <<stack, ver>>
  \/ At("jmp") /\ pc' \in To /\ UNCHANGED <<stack, ver>>
  \/ At("jcc") /\ pc' \in (To \cup {pc + 1}) /\ UNCHANGED <<stack, ver>>
  \/ At("jmpi") /\ pc' \in To /\ UNCHANGED <<stack, ver>>
  \/ At("sys") /\ pc' = pc + 1 /\ ver' \in DOMAIN Prog /\ UNCHANGED stack
  \/ At("call") /\ Len(stack) < MaxStack /\ pc' \in To /\ stack' = <<pc + 1>> \o stack
     /\ UNCHANGED ver
  \/ At("ret") /\ stack # << >> /\ pc' = Head(stack) /\ stack' = Tail(stack) /\ UNCHANGED ver

Advance == Flow /\ UNCHANGED saved

Deliver == saved = << >> /\ saved' = <<pc>> /\ pc' = Handler /\ UNCHANGED <<stack, ver>>

Sigreturn ==
  /\ At("sigreturn") /\ saved # << >>
  /\ pc' = Head(saved) /\ saved' = << >> /\ UNCHANGED <<stack, ver>>

\* A step changes something: most of what implements it does not
Next == guestVars' # guestVars /\ (Advance \/ Deliver \/ Sigreturn)
Spec == Init /\ [][Next]_guestVars
=============================================================================
