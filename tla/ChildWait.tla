----------------------------- MODULE ChildWait ------------------------------
(***************************************************************************)
(* A process and its children: the child list and wait4 of                 *)
(* syscall/process.c, the locks of fork (syscall/fork.c), and the signal   *)
(* thread of syscall/sig.c that learns of a child's death from a broken    *)
(* pipe, marks the child terminated and releases a semaphore.              *)
(*                                                                         *)
(* A child_process structure is a slot, reused after the child is waited   *)
(* for.  Children are numbered in the order of their creation; the number  *)
(* stands for the process handle and for the child's exit code.            *)
(***************************************************************************)
EXTENDS Integers, FiniteSets, Sequences, PidTable, LinkedList

CONSTANTS
  Thread,        \* threads of the process
  Slot,          \* the child array (MAX_CHILD_COUNT)
  MaxForks,      \* bound: children created in a run
  MaxClones,     \* bound: threads created with clone in a run
  Programs,      \* the programs to run: the calls each thread makes, and how
                 \* many children it has at a time without waiting for one
  Interruptible  \* whether signals interrupt a blocked wait

Child == 1 .. MaxForks
Heads == {"child_list", "child_freelist"}
CallName == {"fork", "clone", "wait_any", "wait_any_nohang", "wait_pid", "wait_pid_nohang"}

ASSUME ChildWaitAssumption ==
  /\ Null \notin Heads \cup Slot \cup Thread
  /\ Heads \cap Slot = {}
  /\ IsFiniteSet(Slot) /\ MaxForks \in Nat /\ MaxClones \in Nat
  /\ Programs \subseteq [calls : [Thread -> SUBSET CallName], live : Nat]
  /\ Interruptible \in BOOLEAN

VARIABLES
  prog,       \* the program that runs
  alive,      \* children whose process exists
  pidOf,      \* [Child -> process->pid of the child]
  forked,     \* number of children created so far
  clones,     \* number of threads created so far
  status, code, last,      \* process_shared: slots and last_allocated_process
  next,       \* the links of child_list and child_freelist
  slot,       \* [Slot -> [pid, hProcess, hPipe, terminated]]
  childCount, \* child_count
  rwShared,   \* shared owners of rw_lock (exclusive owners never block)
  mutex,      \* signal->mutex: its owner
  sem,        \* process_wait_semaphore
  packets,    \* ADD_PROCESS packets in the signal pipe
  watch,      \* [Child -> the slot whose read is pending on the child's pipe]
  iocp,       \* completions of broken pipes: the slots they are keyed by
  sigPc, sigSlot,          \* the signal thread
  pc, call, want, cur, prev \* the program's threads, inside process_wait

shared  == <<status, code, last>>
lists   == <<next, slot, childCount>>
locks   == <<rwShared, mutex>>
sigvars == <<packets, watch, iocp, sigPc, sigSlot>>
locals  == <<call, want, cur, prev>>
world   == <<prog, alive, pidOf, forked, clones>>
vars == <<world, shared, lists, locks, sem, sigvars, pc, locals>>

NoChild == [pid |-> 0, hProcess |-> 0, hPipe |-> 0, terminated |-> FALSE]

(* Both lists as process_init_private builds them, in some order. *)
InitLinks == CHOOSE f \in [Heads \cup Slot -> Slot \cup {Null}] :
  /\ f["child_list"] = Null
  /\ SlistNodes(f, "child_freelist") = Slot
  /\ SlistEnds(f, "child_freelist")

Init ==
  /\ prog \in Programs
  /\ alive = {} /\ pidOf = [k \in Child |-> 0] /\ forked = 0 /\ clones = 0
  /\ status = [p \in Pid |-> IF p = 1 THEN "RUNNING" ELSE "NOTEXIST"]
  /\ code = [p \in Pid |-> 0] /\ last = 1
  /\ next = InitLinks
  /\ slot = [s \in Slot |-> NoChild] /\ childCount = 0
  /\ rwShared = {} /\ mutex = Null
  /\ sem = 0
  /\ packets = <<>> /\ watch = [k \in Child |-> Null] /\ iocp = <<>>
  /\ sigPc = "idle" /\ sigSlot = Null
  /\ pc = [t \in Thread |-> "user"]
  /\ call = [t \in Thread |-> "fork"] /\ want = [t \in Thread |-> 0]
  /\ cur = [t \in Thread |-> Null] /\ prev = [t \in Thread |-> "child_list"]

Goto(t, from, to) == pc[t] = from /\ pc' = [pc EXCEPT ![t] = to]
Children == SlistNodes(next, "child_list")

-----------------------------------------------------------------------------
(* The children themselves. *)

(* The last handle to the write end of child k's pipe closes: the pending  *)
(* read of the signal thread, if any, completes with an error.             *)
PipeBreaks(k) ==
  /\ iocp' = IF watch[k] = Null THEN iocp ELSE Append(iocp, watch[k])
  /\ watch' = [watch EXCEPT ![k] = Null]

(* process_exit: the child leaves a zombie with its exit code. *)
ChildExit(k) ==
  /\ k \in alive
  /\ alive' = alive \ {k}
  /\ status' = [status EXCEPT ![pidOf[k]] = "ZOMBIE"]
  /\ code' = [code EXCEPT ![pidOf[k]] = k]
  /\ PipeBreaks(k)
  /\ UNCHANGED <<prog, pidOf, forked, clones, last, lists, locks, sem, packets, sigPc, sigSlot, pc, locals>>

(* The child is terminated from outside: its slot still says RUNNING. *)
ChildKilled(k) ==
  /\ k \in alive
  /\ alive' = alive \ {k}
  /\ PipeBreaks(k)
  /\ UNCHANGED <<prog, pidOf, forked, clones, shared, lists, locks, sem, packets, sigPc, sigSlot, pc, locals>>

-----------------------------------------------------------------------------
(* fork and clone *)

ForkEnter(t) ==
  /\ "fork" \in prog.calls[t] /\ forked < MaxForks /\ Cardinality(Children) < prog.live
  /\ Goto(t, "user", "fork_init")
  /\ mutex = Null /\ mutex' = t             \* signal_fork
  /\ UNCHANGED <<world, shared, lists, rwShared, sem, sigvars, locals>>

(* process_init_child and signal_init_child, under rw_lock exclusive: a    *)
(* table slot for the pid, a child structure off the freelist, and a       *)
(* packet that tells the signal thread to watch its pipe.                  *)
ForkInit(t) ==
  /\ Goto(t, "fork_init", "fork_done")
  /\ rwShared = {}                          \* rw_lock, exclusive
  /\ next["child_freelist"] # Null /\ HasFreePid(status) /\ forked < MaxForks
  /\ LET k == forked + 1
         p == AllocPid(status, last)
         s == next["child_freelist"]
     IN  /\ forked' = k /\ alive' = alive \cup {k}
         /\ status' = [status EXCEPT ![p] = "RUNNING"]
         /\ pidOf' = [pidOf EXCEPT ![k] = p] /\ last' = p
         /\ next' = SlistAdd(SlistRemove(next, "child_freelist", s), "child_list", s)
         /\ slot' = [slot EXCEPT ![s] =
                      [pid |-> p, hProcess |-> k, hPipe |-> k, terminated |-> FALSE]]
         /\ childCount' = childCount + 1
         /\ packets' = Append(packets, s)
  /\ UNCHANGED <<prog, clones, code, locks, sem, watch, iocp, sigPc, sigSlot, locals>>

ForkDone(t) ==
  /\ Goto(t, "fork_done", "user")
  /\ mutex' = Null                          \* signal_afterfork_parent
  /\ UNCHANGED <<world, shared, lists, rwShared, sem, sigvars, locals>>

(* process_create_thread counts the new thread as a child. *)
Clone(t) ==
  /\ "clone" \in prog.calls[t] /\ clones < MaxClones
  /\ pc[t] = "user"
  /\ rwShared = {}                          \* rw_lock, exclusive
  /\ clones' = clones + 1
  /\ childCount' = childCount + 1
  /\ UNCHANGED <<prog, alive, pidOf, forked, shared, next, slot, locks, sem, sigvars, pc, locals>>

-----------------------------------------------------------------------------
(* process_wait *)

Return(t) ==
  /\ pc' = [pc EXCEPT ![t] = "user"]
  /\ rwShared' = rwShared \ {t}
Leave(t) ==
  /\ Return(t)
  /\ UNCHANGED <<world, shared, lists, mutex, sem, sigvars, locals>>

NoHang(t) == call[t] \in {"wait_any_nohang", "wait_pid_nohang"}
ForPid(t) == call[t] \in {"wait_pid", "wait_pid_nohang"}

(* wait4 takes rw_lock shared; a pid is that of a child, past or present. *)
WaitEnter(t) == \E c \in prog.calls[t] \ {"fork", "clone"} :
  /\ Goto(t, "user", "wait_find")
  /\ rwShared' = rwShared \cup {t}
  /\ call' = [call EXCEPT ![t] = c]
  /\ IF c \in {"wait_pid", "wait_pid_nohang"}
     THEN \E k \in 1 .. forked : want' = [want EXCEPT ![t] = pidOf[k]]
     ELSE UNCHANGED want
  /\ UNCHANGED <<world, shared, lists, mutex, sem, sigvars, cur, prev>>

(* The first slot of child_list that is in S, and its predecessor. *)
FindIn(t, S, to) ==
  LET w == SlistPath(next, "child_list") IN
  \E i \in 2 .. Len(w) :
    /\ w[i] \in S /\ \A j \in 2 .. i - 1 : w[j] \notin S
    /\ cur' = [cur EXCEPT ![t] = w[i]]
    /\ prev' = [prev EXCEPT ![t] = w[i - 1]]
    /\ pc' = [pc EXCEPT ![t] = to]
    /\ UNCHANGED <<world, shared, lists, locks, sem, sigvars, call, want>>

WithPid(p) == {s \in Children : slot[s].pid = p}
Terminated == {s \in Children : slot[s].terminated}

(* pid > 0: look the child up; WNOHANG fails on one that still runs. *)
FindPid(t) ==
  /\ pc[t] = "wait_find" /\ ForPid(t)
  /\ LET S == WithPid(want[t]) IN
     \/ S = {} /\ Leave(t)
     \/ ~NoHang(t) /\ FindIn(t, S, "wait_process")
     \/ NoHang(t) /\ S \ Terminated # {} /\ Leave(t)
     \/ NoHang(t) /\ S \cap Terminated # {} /\ FindIn(t, S, "wait_take")

(* signal_wait on hProcess *)
ProcessSignaled(t) ==
  /\ Goto(t, "wait_process", "wait_take")
  /\ slot[cur[t]].hProcess \notin alive
  /\ UNCHANGED <<world, shared, lists, locks, sem, sigvars, locals>>

(* pid = -1: no children, or on to the semaphore or, with WNOHANG, the list. *)
FindAny(t) ==
  /\ pc[t] = "wait_find" /\ ~ForPid(t)
  /\ IF childCount = 0
     THEN Leave(t)
     ELSE /\ Goto(t, "wait_find", IF NoHang(t) THEN "wait_search" ELSE "wait_sem")
          /\ UNCHANGED <<world, shared, lists, locks, sem, sigvars, locals>>

(* signal_wait on the semaphore *)
SemTaken(t) ==
  /\ Goto(t, "wait_sem", "wait_search")
  /\ sem > 0 /\ sem' = sem - 1
  /\ UNCHANGED <<world, shared, lists, locks, sigvars, locals>>

Interrupted(t) ==
  /\ Interruptible /\ pc[t] \in {"wait_process", "wait_sem"}
  /\ Leave(t)

Search(t) ==
  /\ pc[t] = "wait_search"
  /\ \/ Terminated = {} /\ Leave(t)
     \/ FindIn(t, Terminated, IF NoHang(t) THEN "wait_take" ELSE "wait_remove")

(* The decrement as it would be without a wait for the semaphore. *)
Take_Skipped(t) ==
  /\ Goto(t, "wait_take", "wait_remove")
  /\ UNCHANGED <<world, shared, lists, locks, sem, sigvars, locals>>

(* Decrement semaphore *)
Take(t) ==
  /\ Goto(t, "wait_take", "wait_remove")
  /\ sem > 0 /\ sem' = sem - 1
  /\ UNCHANGED <<world, shared, lists, locks, sigvars, locals>>

(* The removal as it would be if the child stayed on its list. *)
Remove_Stays(t) ==
  /\ Goto(t, "wait_remove", "wait_collect")
  /\ childCount' = childCount - 1
  /\ UNCHANGED <<world, shared, next, slot, locks, sem, sigvars, locals>>

Remove(t) ==
  /\ Goto(t, "wait_remove", "wait_collect")
  /\ next' = SlistAdd(SlistRemove(next, prev[t], cur[t]), "child_freelist", cur[t])
  /\ childCount' = childCount - 1
  /\ UNCHANGED <<world, shared, slot, locks, sem, sigvars, locals>>

(* The exit status, and the end of the zombie.  A slot in a state no child *)
(* can be in makes process_wait end the whole process.                     *)
Collect(t) ==
  LET p == slot[cur[t]].pid IN
  /\ pc[t] = "wait_collect"
  /\ IF status[p] = "NOTEXIST"
     THEN /\ pc' = [u \in Thread |-> "exited"]
          /\ UNCHANGED <<shared, rwShared>>
     ELSE /\ status' = [status EXCEPT ![p] = "NOTEXIST"]
          /\ Return(t)
          /\ UNCHANGED <<code, last>>
  /\ UNCHANGED <<world, lists, mutex, sem, sigvars, locals>>

-----------------------------------------------------------------------------
(* The signal thread. *)

(* The start of the read as it would be if a pending read was an error. *)
AddProcess_PendingIsDead ==
  /\ sigPc = "idle" /\ packets # <<>>
  /\ packets' = Tail(packets)
  /\ sigPc' = "close" /\ sigSlot' = Head(packets)
  /\ UNCHANGED <<world, shared, lists, locks, sem, watch, iocp, pc, locals>>

(* The start of the read as it would be if its failure was not noticed. *)
AddProcess_IgnoresDead ==
  /\ sigPc = "idle" /\ packets # <<>>
  /\ packets' = Tail(packets)
  /\ watch' = [watch EXCEPT ![slot[Head(packets)].hPipe] = Head(packets)]
  /\ UNCHANGED <<world, shared, lists, locks, sem, iocp, sigPc, sigSlot, pc, locals>>

(* SIGNAL_PACKET_ADD_PROCESS: start a read on the pipe; it fails at once   *)
(* when the child is already dead.                                         *)
AddProcess ==
  /\ sigPc = "idle" /\ packets # <<>>
  /\ packets' = Tail(packets)
  /\ LET s == Head(packets) IN
     IF slot[s].hPipe \in alive
     THEN watch' = [watch EXCEPT ![slot[s].hPipe] = s] /\ UNCHANGED <<sigPc, sigSlot>>
     ELSE sigPc' = "close" /\ sigSlot' = s /\ UNCHANGED watch
  /\ UNCHANGED <<world, shared, lists, locks, sem, iocp, pc, locals>>

ChildDied ==
  /\ sigPc = "idle" /\ iocp # <<>>
  /\ iocp' = Tail(iocp)
  /\ sigPc' = "close" /\ sigSlot' = Head(iocp)
  /\ UNCHANGED <<world, shared, lists, locks, sem, packets, watch, pc, locals>>

(* signal_thread_handle_child_terminated *)
ClosePipe ==
  /\ sigPc = "close" /\ sigPc' = "sigchld"
  /\ slot' = [slot EXCEPT ![sigSlot].hPipe = 0]
  /\ LET k == slot[sigSlot].hPipe IN     \* a pending read is cancelled
     IF k = 0 THEN UNCHANGED <<iocp, watch>> ELSE PipeBreaks(k)
  /\ UNCHANGED <<world, shared, next, childCount, locks, sem, packets, sigSlot, pc, locals>>

(* signal_thread_handle_kill(SIGCHLD) needs signal->mutex for a moment. *)
SendSigchld ==
  /\ sigPc = "sigchld" /\ sigPc' = "mark"
  /\ mutex = Null
  /\ UNCHANGED <<world, shared, lists, locks, sem, packets, watch, iocp, sigSlot, pc, locals>>

Mark ==
  /\ sigPc = "mark" /\ sigPc' = "release"
  /\ slot' = [slot EXCEPT ![sigSlot].terminated = TRUE]
  /\ UNCHANGED <<world, shared, next, childCount, locks, sem, packets, watch, iocp, sigSlot, pc, locals>>

ReleaseSem ==
  /\ sigPc = "release" /\ sigPc' = "idle"
  /\ sem' = sem + 1 /\ sigSlot' = Null
  /\ UNCHANGED <<world, shared, lists, locks, packets, watch, iocp, pc, locals>>

SignalThread ==
  AddProcess \/ ChildDied \/ ClosePipe \/ SendSigchld \/ Mark \/ ReleaseSem

Wait(t) == \/ FindPid(t) \/ ProcessSignaled(t) \/ FindAny(t) \/ SemTaken(t)
           \/ Search(t) \/ Take(t) \/ Remove(t) \/ Collect(t)

Next ==
  \/ \E k \in Child : ChildExit(k) \/ ChildKilled(k)
  \/ \E t \in Thread : ForkEnter(t) \/ ForkInit(t) \/ ForkDone(t) \/ Clone(t)
                       \/ WaitEnter(t) \/ Wait(t) \/ Interrupted(t)
  \/ SignalThread

Spec == Init /\ [][Next]_vars

(* The threads of the process run, and so does the signal thread.  Nothing *)
(* makes a program call wait4 or fork, a child exit, or a signal arrive.   *)
Fairness ==
  /\ WF_vars(SignalThread)
  /\ \A t \in Thread : WF_vars(ForkInit(t) \/ ForkDone(t) \/ Wait(t))
FairSpec == Spec /\ Fairness

-----------------------------------------------------------------------------
(* The variables have their types.                                         *)
TypeOK ==
  /\ prog \in Programs
  /\ alive \subseteq Child /\ forked \in 0 .. MaxForks /\ clones \in 0 .. MaxClones
  /\ pidOf \in [Child -> Pid \cup {0}]
  /\ status \in [Pid -> Status] /\ code \in [Pid -> Child \cup {0}] /\ last \in Pid
  /\ next \in [Heads \cup Slot -> Slot \cup {Null}]
  /\ slot \in [Slot -> [pid : Pid \cup {0}, hProcess : Child \cup {0},
                        hPipe : Child \cup {0}, terminated : BOOLEAN]]
  /\ childCount \in Int
  /\ rwShared \subseteq Thread /\ mutex \in Thread \cup {Null}
  /\ sem \in Nat
  /\ packets \in Seq(Slot) /\ iocp \in Seq(Slot)
  /\ watch \in [Child -> Slot \cup {Null}]
  /\ sigPc \in {"idle", "close", "sigchld", "mark", "release"}
  /\ sigSlot \in Slot \cup {Null}
  /\ pc \in [Thread -> {"user", "exited", "fork_init", "fork_done", "wait_find",
                        "wait_process", "wait_sem", "wait_search", "wait_take",
                        "wait_remove", "wait_collect"}]
  /\ call \in [Thread -> CallName]
  /\ want \in [Thread -> Pid \cup {0}]
  /\ cur \in [Thread -> Slot \cup {Null}]
  /\ prev \in [Thread -> Slot \cup Heads]

(* process_wait reports a child, dead and not reported before, with the    *)
(* exit code that very child left in the process table.                    *)
ReapsDead ==
  \A t \in Thread : pc[t] = "wait_collect" =>
    LET s == slot[cur[t]] IN
    /\ s.hProcess \notin alive
    /\ pidOf[s.hProcess] = s.pid
    /\ status[s.pid] # "NOTEXIST"
    /\ status[s.pid] = "ZOMBIE" => code[s.pid] = s.hProcess

(* Units of the wait semaphore and children marked terminated go together: *)
(* one unit, free or already taken by the thread that is about to remove   *)
(* the child, for every marked child still on the list; so "Find the       *)
(* terminated child" never comes back empty-handed with a unit spent.      *)
SemMatches ==
  sem + (IF sigPc = "release" THEN 1 ELSE 0)
      + Cardinality({t \in Thread : \/ pc[t] = "wait_remove"
                                    \/ pc[t] = "wait_search" /\ ~NoHang(t)})
    = Cardinality(Terminated)

(* Every child structure is on exactly one of child_list and               *)
(* child_freelist, and child_count is the length of the former and the     *)
(* number of threads ever created (process_create_thread).                 *)
SlotsAccounted ==
  /\ Children \cup SlistNodes(next, "child_freelist") = Slot
  /\ Children \cap SlistNodes(next, "child_freelist") = {}
  /\ childCount = Cardinality(Children) + clones

(* One thread does all the forking and waiting. *)
OneThread == Cardinality({t \in Thread : prog.calls[t] # {}}) = 1
Unnoticed(k) ==
  k <= forked /\ k \notin alive
    /\ \E s \in Children : slot[s].hProcess = k /\ ~slot[s].terminated

(* The process waiting mechanism: when a child terminates, normally or     *)
(* not, its structure is marked terminated, or has been waited for.        *)
DeathNoticed == \A k \in Child : Unnoticed(k) ~> ~Unnoticed(k)

(* In a process where one thread forks and waits the mechanism works.      *)
DeathNoticedAlone == \A k \in Child : (OneThread /\ Unnoticed(k)) ~> ~Unnoticed(k)

(* A thread blocked in wait4 returns once a child it waits for has died,   *)
(* in a process where one thread forks and waits.                          *)
WaitReturns ==
  \A t \in Thread :
    /\ (OneThread /\ pc[t] = "wait_process" /\ slot[cur[t]].hProcess \notin alive)
          ~> pc[t] = "user"
    /\ (OneThread /\ pc[t] = "wait_sem" /\ \E s \in Children : slot[s].hProcess \notin alive)
          ~> pc[t] = "user"
(* With one thread, dead children are noticed and waits for them return.   *)
DeathsReported == DeathNoticedAlone /\ WaitReturns
=============================================================================
