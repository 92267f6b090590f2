------------------------------- MODULE Signals ------------------------------
(***************************************************************************)
(* Signals inside one process: syscall/sig.c, the delivery hooks of        *)
(* dbt/x86.c, and the waits that a signal interrupts (signal_wait; ppoll   *)
(* of syscall/vfs.c with its temporary mask).                              *)
(*                                                                         *)
(* A signal travels as a packet through a pipe to the signal thread, which *)
(* hands it to the first thread that accepts it, or leaves it pending.     *)
(* The receiving thread runs the handler when it is next in translated     *)
(* code: at once, or on its way out of a system call.                      *)
(*                                                                         *)
(* Sections under signal->mutex are single steps, except that a thread     *)
(* writing to a full pipe keeps the mutex while it waits for room.         *)
(***************************************************************************)
EXTENDS Naturals, Sequences, FiniteSets

CONSTANTS
  Thread,      \* threads of the process
  ThreadList,  \* thread_list: the threads, oldest first
  Sig,         \* signals
  Fatal,       \* signals whose default action ends the process
  Programs,    \* the programs to run: the calls each thread makes, and the
               \* masks and handlers it has set up
  MaxCalls,    \* bound: calls each thread makes outside handler returns
  PipeRoom,    \* packets that fit into the signal pipe
  None         \* no thread, no signal, no packet

Mask   == SUBSET Sig
Action == {"SIG_DFL", "SIG_IGN", "handler"}
Call   == [op : {"kill"}, sig : Sig]
          \cup [op : {"sigaction"}, sig : Sig, act : Action]
          \cup [op : {"sigprocmask", "sigsuspend", "ppoll"}, set : Mask]
          \cup [op : {"wait"}]
Packet == [type : {"kill"}, sig : Sig] \cup [type : {"deliver"}]

ASSUME SignalsAssumption ==
  /\ ThreadList \in Seq(Thread) /\ {ThreadList[i] : i \in DOMAIN ThreadList} = Thread
  /\ Fatal \subseteq Sig /\ None \notin Thread \cup Sig
  /\ "signal_thread" \notin Thread \cup {None}
  /\ Programs \subseteq [calls : [Thread -> SUBSET Call], mask : [Thread -> Mask],
                         actions : [Sig -> Action]]
  /\ MaxCalls \in Nat /\ PipeRoom \in Nat \ {0}

VARIABLES
  prog,       \* the program that runs
  actions,    \* signal->actions[sig].sa_handler (sa_mask is empty)
  pending,    \* signal->pending
  mutex,      \* the thread holding signal->mutex from one step to the next
  pipe,       \* packets in the signal pipe
  packet,     \* the packet the signal thread has read
  sigmask, sigevent, accept, siginfo, \* struct thread: sigmask, sigevent,
                                      \* can_accept_signal, current_siginfo
  frames,     \* [Thread -> frames of the handlers it is running: sig and
              \*  uc_sigmask, the mask to return to]
  oldmask,    \* local of sigsuspend and ppoll
  pc, call, left

rest   == <<prog, left>>
thread == <<sigmask, sigevent, accept, siginfo, frames>>
vars == <<rest, actions, pending, mutex, pipe, packet, thread, oldmask, pc, call>>

Init ==
  /\ prog \in Programs
  /\ actions = prog.actions /\ pending = {} /\ mutex = None
  /\ pipe = <<>> /\ packet = None
  /\ sigmask = prog.mask
  /\ sigevent = [t \in Thread |-> FALSE]
  /\ accept = [t \in Thread |-> TRUE]
  /\ siginfo = [t \in Thread |-> None]
  /\ frames = [t \in Thread |-> <<>>]
  /\ oldmask = [t \in Thread |-> {}]
  /\ pc = [t \in Thread |-> "user"]
  /\ call = [t \in Thread |-> [op |-> "wait"]]
  /\ left = [t \in Thread |-> MaxCalls]

-----------------------------------------------------------------------------
Goto(t, from, to) == pc[t] = from /\ pc' = [pc EXCEPT ![t] = to]

(* The way out as it would be without the look at signal_pending.          *)
Exit_Direct(t) == "user"

(* Out of a system call: into the handler if a signal was delivered while  *)
(* the thread was inside (dbt_set_return_addr, dbt->signal_pending).       *)
Exit(t) == IF accept[t] THEN "user" ELSE "setup"
Return(t) == pc' = [pc EXCEPT ![t] = Exit(t)]

(* send_pending_signal with the mask m: a packet, if there is a pending    *)
(* signal that m lets through; the thread goes on to p, with its sigevent  *)
(* reset first if it is about to wait in ppoll, or is stuck in WriteFile   *)
(* when the pipe is full.                                                  *)
ResetBefore(t, p) ==
  sigevent' = IF p = "ppoll_wait" THEN [sigevent EXCEPT ![t] = FALSE] ELSE sigevent
SendPending(t, m, p) ==
  IF pending \ m = {}
  THEN /\ pc' = [pc EXCEPT ![t] = p] /\ ResetBefore(t, p)
       /\ UNCHANGED <<mutex, pipe>>
  ELSE IF Len(pipe) < PipeRoom
  THEN /\ pc' = [pc EXCEPT ![t] = p] /\ ResetBefore(t, p)
       /\ pipe' = Append(pipe, [type |-> "deliver"])
       /\ UNCHANGED mutex
  ELSE /\ pc' = [pc EXCEPT ![t] = IF p = "ppoll_wait" THEN "stuck_ppoll" ELSE "stuck"]
       /\ mutex' = t
       /\ UNCHANGED <<pipe, sigevent>>

Unstuck(t) ==
  /\ pc[t] \in {"stuck", "stuck_ppoll"} /\ Len(pipe) < PipeRoom
  /\ pipe' = Append(pipe, [type |-> "deliver"])
  /\ mutex' = None
  /\ LET p == IF pc[t] = "stuck" THEN Exit(t) ELSE "ppoll_wait"
     IN  pc' = [pc EXCEPT ![t] = p] /\ ResetBefore(t, p)
  /\ UNCHANGED <<actions, pending, packet, sigmask, accept, siginfo, frames, oldmask, call, rest>>

-----------------------------------------------------------------------------
(* System calls *)

Enter(t, c) ==
  /\ Goto(t, "user", "kernel")
  /\ left[t] > 0 /\ left' = [left EXCEPT ![t] = @ - 1]
  /\ call' = [call EXCEPT ![t] = c]
  /\ UNCHANGED <<prog, actions, pending, mutex, pipe, packet, thread, oldmask>>

(* kill: one packet, written without the mutex. *)
Kill(t) ==
  /\ pc[t] = "kernel" /\ call[t].op = "kill"
  /\ Len(pipe) < PipeRoom
  /\ pipe' = Append(pipe, [type |-> "kill", sig |-> call[t].sig])
  /\ Return(t)
  /\ UNCHANGED <<actions, pending, mutex, packet, thread, oldmask, call, rest>>

Sigaction(t) ==
  /\ pc[t] = "kernel" /\ call[t].op = "sigaction" /\ mutex = None
  /\ actions' = [actions EXCEPT ![call[t].sig] = call[t].act]
  /\ Return(t)
  /\ UNCHANGED <<pending, mutex, pipe, packet, thread, oldmask, call, rest>>

(* sigprocmask as it would be without send_pending_signal. *)
Sigprocmask_NoSend(t) ==
  /\ pc[t] = "kernel" /\ call[t].op = "sigprocmask" /\ mutex = None
  /\ sigmask' = [sigmask EXCEPT ![t] = call[t].set]
  /\ Return(t)
  /\ UNCHANGED <<actions, pending, mutex, pipe, packet, sigevent, accept, siginfo, frames, oldmask, call, rest>>

(* SIG_BLOCK, SIG_UNBLOCK and SIG_SETMASK all come to some new mask. *)
Sigprocmask(t) ==
  /\ pc[t] = "kernel" /\ call[t].op = "sigprocmask" /\ mutex = None
  /\ sigmask' = [sigmask EXCEPT ![t] = call[t].set]
  /\ SendPending(t, call[t].set, Exit(t))
  /\ UNCHANGED <<actions, pending, packet, accept, siginfo, frames, oldmask, call, rest>>

SigsuspendBegin(t) ==
  /\ Goto(t, "kernel", "sigsuspend_wait") /\ call[t].op = "sigsuspend" /\ mutex = None
  /\ oldmask' = [oldmask EXCEPT ![t] = sigmask[t]]
  /\ sigmask' = [sigmask EXCEPT ![t] = call[t].set]
  /\ UNCHANGED <<actions, pending, mutex, pipe, packet, sigevent, accept, siginfo, frames, call, rest>>

(* sigsuspend as it would be without the second half. *)
SigsuspendEnd_KeepsMask(t) ==
  /\ pc[t] = "sigsuspend_wait" /\ sigevent[t] /\ mutex = None
  /\ Return(t)
  /\ UNCHANGED <<actions, pending, mutex, pipe, packet, thread, oldmask, call, rest>>

(* signal_wait returns, the old mask is back. *)
SigsuspendEnd(t) ==
  /\ pc[t] = "sigsuspend_wait" /\ sigevent[t] /\ mutex = None
  /\ sigmask' = [sigmask EXCEPT ![t] = oldmask[t]]
  /\ Return(t)
  /\ UNCHANGED <<actions, pending, mutex, pipe, packet, sigevent, accept, siginfo, frames, oldmask, call, rest>>

(* ppoll with a mask: signal_before_pwait. *)
PpollBegin(t) ==
  /\ pc[t] = "kernel" /\ call[t].op = "ppoll" /\ mutex = None
  /\ oldmask' = [oldmask EXCEPT ![t] = sigmask[t]]
  /\ sigmask' = [sigmask EXCEPT ![t] = call[t].set]
  /\ SendPending(t, call[t].set, "ppoll_wait")
  /\ UNCHANGED <<actions, pending, packet, accept, siginfo, frames, call, rest>>

(* A file is ready: signal_after_pwait. *)
PpollReady(t) ==
  /\ pc[t] = "ppoll_wait" /\ mutex = None
  /\ sigmask' = [sigmask EXCEPT ![t] = oldmask[t]]
  /\ SendPending(t, oldmask[t], Exit(t))
  /\ UNCHANGED <<actions, pending, packet, accept, siginfo, frames, oldmask, call, rest>>

(* ppoll with nothing to wait for, or with a file that is ready. *)
PpollAtOnce(t) ==
  /\ pc[t] = "kernel" /\ call[t].op = "ppoll"
  /\ Return(t)
  /\ UNCHANGED <<actions, pending, mutex, pipe, packet, thread, oldmask, call, rest>>

(* WAIT_TIMEOUT and WAIT_INTERRUPTED go straight out. *)
PpollTimeout(t) ==
  /\ pc[t] = "ppoll_wait"
  /\ Return(t)
  /\ UNCHANGED <<actions, pending, mutex, pipe, packet, thread, oldmask, call, rest>>

PpollInterrupted(t) ==
  /\ pc[t] = "ppoll_wait" /\ sigevent[t]
  /\ Return(t)
  /\ UNCHANGED <<actions, pending, mutex, pipe, packet, thread, oldmask, call, rest>>

(* Any other system call that waits in signal_wait. *)
WaitBegin(t) ==
  /\ Goto(t, "kernel", "wait") /\ call[t].op = "wait"
  /\ UNCHANGED <<actions, pending, mutex, pipe, packet, thread, oldmask, call, rest>>

WaitDone(t) ==
  /\ pc[t] = "wait"
  /\ Return(t)
  /\ UNCHANGED <<actions, pending, mutex, pipe, packet, thread, oldmask, call, rest>>

WaitInterrupted(t) ==
  /\ pc[t] = "wait" /\ sigevent[t]
  /\ Return(t)
  /\ UNCHANGED <<actions, pending, mutex, pipe, packet, thread, oldmask, call, rest>>

-----------------------------------------------------------------------------
(* Handlers *)

(* signal_setup_handler as it would be if the event stayed set. *)
SetupHandler_KeepsEvent(t) ==
  /\ Goto(t, "setup", "user") /\ mutex = None
  /\ frames' = [frames EXCEPT ![t] = Append(@, [sig |-> siginfo[t], mask |-> sigmask[t]])]
  /\ sigmask' = [sigmask EXCEPT ![t] = @ \cup {siginfo[t]}]
  /\ accept' = [accept EXCEPT ![t] = TRUE]
  /\ UNCHANGED <<actions, pending, mutex, pipe, packet, sigevent, siginfo, oldmask, call, rest>>

(* signal_setup_handler as it would be without its sigaddset. *)
SetupHandler_KeepsMask(t) ==
  /\ Goto(t, "setup", "user") /\ mutex = None
  /\ frames' = [frames EXCEPT ![t] = Append(@, [sig |-> siginfo[t], mask |-> sigmask[t]])]
  /\ accept' = [accept EXCEPT ![t] = TRUE]
  /\ sigevent' = [sigevent EXCEPT ![t] = FALSE]
  /\ UNCHANGED <<actions, pending, mutex, pipe, packet, sigmask, siginfo, oldmask, call, rest>>

(* signal_setup_handler: the frame keeps the mask the handler returns to. *)
SetupHandler(t) ==
  /\ Goto(t, "setup", "user") /\ mutex = None
  /\ frames' = [frames EXCEPT ![t] = Append(@, [sig |-> siginfo[t], mask |-> sigmask[t]])]
  /\ sigmask' = [sigmask EXCEPT ![t] = @ \cup {siginfo[t]}]
  /\ accept' = [accept EXCEPT ![t] = TRUE]
  /\ sigevent' = [sigevent EXCEPT ![t] = FALSE]
  /\ UNCHANGED <<actions, pending, mutex, pipe, packet, siginfo, oldmask, call, rest>>

(* The handler returns through rt_sigreturn. *)
HandlerReturns(t) ==
  /\ Goto(t, "user", "sigreturn") /\ frames[t] # <<>>
  /\ UNCHANGED <<actions, pending, mutex, pipe, packet, thread, oldmask, call, rest>>

Sigreturn(t) ==
  /\ pc[t] = "sigreturn" /\ mutex = None
  /\ LET m == frames[t][Len(frames[t])].mask IN
     /\ frames' = [frames EXCEPT ![t] = SubSeq(@, 1, Len(@) - 1)]
     /\ sigmask' = [sigmask EXCEPT ![t] = m]
     /\ SendPending(t, m, Exit(t))
  /\ UNCHANGED <<actions, pending, packet, accept, siginfo, oldmask, call, rest>>

-----------------------------------------------------------------------------
(* The signal thread. *)

ReadPacket ==
  /\ packet = None /\ pipe # <<>>
  /\ packet' = Head(pipe) /\ pipe' = Tail(pipe)
  /\ UNCHANGED <<actions, pending, mutex, thread, oldmask, pc, call, rest>>

(* The choice of a thread as it would be with the mask alone. *)
Accepts_MaskOnly(t, s) == s \notin sigmask[t]

Accepts(t, s) == s \notin sigmask[t] /\ accept[t]

(* Whom signal_thread_deliver_signal gives s to: the first thread that     *)
(* accepts it.                                                             *)
Receiver(s) ==
  IF \A t \in Thread : ~Accepts(t, s) THEN None
  ELSE ThreadList[CHOOSE i \in DOMAIN ThreadList :
                    /\ Accepts(ThreadList[i], s)
                    /\ \A j \in 1 .. i - 1 : ~Accepts(ThreadList[j], s)]

(* Giving s to t as it would be without SetEvent. *)
Deliver_NoEvent(t, s) ==
  /\ accept' = [accept EXCEPT ![t] = FALSE]
  /\ siginfo' = [siginfo EXCEPT ![t] = s]
  /\ pc' = [pc EXCEPT ![t] = IF @ = "user" THEN "setup" ELSE @]
  /\ UNCHANGED sigevent

(* Give s to t.  In translated code t is redirected to the handler at      *)
(* once, otherwise on its way out of the kernel.                           *)
Deliver(t, s) ==
  /\ accept' = [accept EXCEPT ![t] = FALSE]
  /\ siginfo' = [siginfo EXCEPT ![t] = s]
  /\ sigevent' = [sigevent EXCEPT ![t] = TRUE]
  /\ pc' = [pc EXCEPT ![t] = IF @ = "user" THEN "setup" ELSE @]

Stopped == \A t \in Thread : pc[t] = "exited"

Ignored(s) == actions[s] = "SIG_IGN" \/ (actions[s] = "SIG_DFL" /\ s \notin Fatal)

(* signal_thread_deliver_signal when it returns true: s is ignored, ends   *)
(* the process, or goes to a thread.                                       *)
DeliverSignal(s) ==
  \/ /\ Ignored(s)
     /\ UNCHANGED <<accept, siginfo, sigevent, pc>>
  \/ /\ actions[s] = "SIG_DFL" /\ s \in Fatal       \* process_exit
     /\ pc' = [t \in Thread |-> "exited"]
     /\ UNCHANGED <<accept, siginfo, sigevent>>
  \/ /\ actions[s] = "handler" /\ Receiver(s) # None
     /\ Deliver(Receiver(s), s)

CannotDeliver(s) == actions[s] = "handler" /\ Receiver(s) = None

(* SIGNAL_PACKET_KILL: deliver the signal or leave it pending. *)
HandleKill ==
  /\ packet # None /\ packet.type = "kill" /\ mutex = None /\ ~Stopped
  /\ packet' = None
  /\ \/ DeliverSignal(packet.sig) /\ UNCHANGED pending
     \/ /\ CannotDeliver(packet.sig)
        /\ pending' = pending \cup {packet.sig}
        /\ UNCHANGED <<accept, siginfo, sigevent, pc>>
  /\ UNCHANGED <<actions, mutex, pipe, sigmask, frames, oldmask, call, rest>>

(* SIGNAL_PACKET_DELIVER: the pending signals, under the mutex.  The code  *)
(* tries each once, by number; a signal no thread accepts now is accepted  *)
(* by none before the mutex is free.  The order is left open.              *)
DeliverBegin ==
  /\ packet # None /\ packet.type = "deliver" /\ mutex = None /\ ~Stopped
  /\ mutex' = "signal_thread"
  /\ UNCHANGED <<actions, pending, pipe, packet, thread, oldmask, pc, call, rest>>

DeliverOne ==
  /\ mutex = "signal_thread" /\ ~Stopped
  /\ \E s \in pending : DeliverSignal(s) /\ pending' = pending \ {s}
  /\ UNCHANGED <<actions, mutex, pipe, packet, sigmask, frames, oldmask, call, rest>>

DeliverDone ==
  /\ mutex = "signal_thread" /\ ~Stopped
  /\ \A s \in pending : CannotDeliver(s)
  /\ mutex' = None /\ packet' = None
  /\ UNCHANGED <<actions, pending, pipe, thread, oldmask, pc, call, rest>>

SignalThread == ReadPacket \/ HandleKill \/ DeliverBegin \/ DeliverOne \/ DeliverDone

(* Steps a thread takes by itself once it is in the kernel or a handler is *)
(* due, and those that depend on a file, a timer or another thread.        *)
Run(t) == \/ Unstuck(t) \/ Kill(t) \/ Sigaction(t) \/ Sigprocmask(t)
          \/ SigsuspendBegin(t) \/ SigsuspendEnd(t) \/ PpollBegin(t)
          \/ PpollAtOnce(t) \/ PpollInterrupted(t) \/ WaitBegin(t) \/ WaitInterrupted(t)
          \/ SetupHandler(t) \/ HandlerReturns(t) \/ Sigreturn(t)

Next ==
  \/ SignalThread
  \/ \E t \in Thread :
       \/ Run(t) \/ PpollReady(t) \/ PpollTimeout(t) \/ WaitDone(t)
       \/ \E c \in prog.calls[t] : Enter(t, c)

Spec == Init /\ [][Next]_vars

(* Threads inside the kernel and the signal thread run, and handlers       *)
(* return.  No wait is bound to end, no program bound to make a call.      *)
Fairness == WF_vars(SignalThread) /\ \A t \in Thread : WF_vars(Run(t))
FairSpec == Spec /\ Fairness

-----------------------------------------------------------------------------
PC == {"user", "kernel", "wait", "sigsuspend_wait", "ppoll_wait", "stuck",
       "stuck_ppoll", "setup", "sigreturn", "exited"}

(* The variables hold values of their types. *)
TypeOK ==
  /\ prog \in Programs
  /\ actions \in [Sig -> Action] /\ pending \subseteq Sig
  /\ mutex \in Thread \cup {None, "signal_thread"}
  /\ pipe \in Seq(Packet) /\ Len(pipe) <= PipeRoom
  /\ packet \in Packet \cup {None}
  /\ sigmask \in [Thread -> Mask] /\ oldmask \in [Thread -> Mask]
  /\ sigevent \in [Thread -> BOOLEAN] /\ accept \in [Thread -> BOOLEAN]
  /\ siginfo \in [Thread -> Sig \cup {None}]
  /\ frames \in [Thread -> Seq([sig : Sig, mask : Mask])]
  /\ pc \in [Thread -> PC] /\ call \in [Thread -> Call]
  /\ left \in [Thread -> 0 .. MaxCalls]

Makes(t, ops) == \E c \in prog.calls[t] : c.op \in ops

(* sigevent tells signal_wait that a signal waits for its handler: it is   *)
(* never left over from a handler that has started, and where nothing but  *)
(* signal_setup_handler resets it, it is set while a handler is due.       *)
EventMatches ==
  ~Stopped => \A t \in Thread :
    /\ sigevent[t] => ~accept[t]
    /\ ~accept[t] /\ ~Makes(t, {"ppoll"}) => sigevent[t]

(* Translated code never runs ahead of a handler: a thread leaves the      *)
(* kernel into the handler of the signal it has been given.                *)
HandlerFirst == \A t \in Thread : pc[t] = "user" => accept[t]

(* current_siginfo is one slot: a signal given to a thread is not replaced *)
(* by another before its handler has started.                              *)
NoSignalLost ==
  [][\A t \in Thread : ~accept[t] /\ ~accept'[t] => siginfo'[t] = siginfo[t]]_vars

(* A handler is not entered again before it has returned, in a thread that *)
(* does not change its mask itself.                                        *)
NoReentry ==
  \A t \in Thread :
    ~Makes(t, {"sigprocmask", "sigsuspend", "ppoll"}) =>
      \A i, j \in DOMAIN frames[t] :
        frames[t][i].sig = frames[t][j].sig => i = j

(* Back in the program, a thread that calls neither sigprocmask nor ppoll  *)
(* has the mask it started with: sigsuspend and the handlers, however they *)
(* nest, put back what they found.                                         *)
MaskRestored ==
  \A t \in Thread :
    (pc[t] = "user" /\ frames[t] = <<>>
       /\ ~Makes(t, {"sigprocmask", "ppoll"})) => sigmask[t] = prog.mask[t]

Unmasked(s) == s \in pending /\ (\E t \in Thread : s \notin sigmask[t]) /\ ~Stopped

(* sig.c:391: a pending signal that some thread does not mask is delivered *)
(* in the end.                                                             *)
UnmaskedDelivered == \A s \in Sig : Unmasked(s) ~> ~Unmasked(s)

(* The same where masks change in sigprocmask and by handlers only.        *)
Procmask == \A t \in Thread : ~Makes(t, {"sigsuspend", "ppoll"})
ProcmaskDelivers == \A s \in Sig : (Procmask /\ Unmasked(s)) ~> ~Unmasked(s)

(* process_info.h:56: a signal interrupts what its receiver waits for, so  *)
(* that the handler gets to run; ppoll with a mask is excepted.            *)
HandlerRuns ==
  \A t \in Thread :
    (~accept[t] /\ ~Makes(t, {"ppoll"})) ~> (accept[t] \/ Stopped)
=============================================================================
