-------------------------------- MODULE Life --------------------------------
(***************************************************************************)
(* The life of a process and of its threads: syscall/process.c, clone of   *)
(* syscall/fork.c, and the signal thread of syscall/sig.c as far as it     *)
(* chooses a thread and ends the process.                                  *)
(*                                                                         *)
(* A process takes its pid from a table that all processes share, under a  *)
(* mutex.  Its threads have slots of their own there, except the first,    *)
(* which has the one of the process.  The parent collects the process when *)
(* Windows says that it is gone; other processes start and end meanwhile.  *)
(***************************************************************************)
EXTENDS Integers, Sequences, FiniteSets

CONSTANTS
  MaxProcess,  \* MAX_PROCESS_COUNT
  LThread,     \* the threads the process may have
  MainThread,  \* the first of them
  Stranger,    \* other children of the parent, one after the other
  LSignals,    \* bound: signals that find a handler
  NoOne        \* no thread

Pids == INSTANCE PidTable
Us == "process"                    \* the process, as a child of its parent
Kin == {Us} \cup Stranger

ASSUME LifeAssumption ==
  /\ MaxProcess \in Nat /\ MaxProcess > 3
  /\ IsFiniteSet(LThread) /\ MainThread \in LThread /\ Us \notin Stranger
  /\ NoOne \notin LThread \cup {"signal thread"} /\ "no" \notin LThread \cup Stranger
  /\ LSignals \in Nat

VARIABLES
  ptable,      \* process_shared->processes: status and exit_code
  lastPid,     \* last_allocated_process
  tableMutex,  \* the thread that has shared_mutex from one step to the next
  life,        \* thread -> where it is, its pid, can_accept_signal, whether it has a
               \* signal to handle, its sigevent, the thread it creates
  threadList,  \* thread_list; thread_free has no caller
  threadCount, \* thread_count
  tevents,     \* handle -> whether it is open, whether the event is set
  sigThread,   \* what the signal thread does, and to which thread
  kin,         \* child of the parent -> its pid, whether it lives, how it ended, and
               \* what wait4 reported
  signalsLeft,
  mixed,       \* pids given to somebody while somebody had them
  strayed      \* threads whose event was set for another one

lifeVars == <<ptable, lastPid, tableMutex, life, threadList, threadCount, tevents,
              sigThread, kin, signalsLeft, mixed, strayed>>

Unborn == [at |-> "none", pid |-> 0, accept |-> FALSE, info |-> FALSE, sigevent |-> 0, new |-> NoOne]
Unknown == [pid |-> 0, alive |-> FALSE, ended |-> "no", told |-> "no"]
Entry(s, c) == [status |-> s, code |-> c]

\* init, the parent that forked the process, and the process
LifeInit ==
  /\ ptable = [p \in Pids!Pid |-> Entry(IF p <= 3 THEN "RUNNING" ELSE "NOTEXIST", "no")]
  /\ lastPid = 3 /\ tableMutex = NoOne
  /\ life = [t \in LThread |-> IF t = MainThread
               THEN [Unborn EXCEPT !.at = "run", !.pid = 3, !.accept = TRUE, !.sigevent = 1]
               ELSE Unborn]
  /\ threadList = <<MainThread>> /\ threadCount = 1
  /\ tevents = [h \in 1 .. Cardinality(LThread) |-> [open |-> h = 1, set |-> FALSE]]
  /\ sigThread = [at |-> "idle", to |-> NoOne]
  /\ kin = [c \in Kin |-> IF c = Us THEN [Unknown EXCEPT !.pid = 3, !.alive = TRUE] ELSE Unknown]
  /\ signalsLeft = LSignals /\ mixed = {} /\ strayed = {}

-----------------------------------------------------------------------------
\* Who has a pid: a thread from its creation until it has freed its slot, a
\* process until its parent has collected it
Holds(t) == life[t].at \in {"created", "entry", "init", "ready", "run", "clone",
                            "close", "refuse", "table", "group"}
Tenants(p) ==
  {t \in LThread \ {MainThread} : kin[Us].alive /\ Holds(t) /\ life[t].pid = p}
    \cup {c \in Kin : kin[c].pid = p /\ kin[c].told = "no"}

\* process_shared_alloc, under the mutex
Allocate ==
  LET p == Pids!AllocPid([q \in Pids!Pid |-> ptable[q].status], lastPid)
  IN  /\ tableMutex = NoOne /\ \E q \in Pids!Pid : ptable[q].status = "NOTEXIST"
      /\ ptable' = [ptable EXCEPT ![p].status = "RUNNING"]
      /\ lastPid' = p
      /\ mixed' = IF Tenants(p) = {} THEN mixed ELSE mixed \cup {p}

Is(t, from) == kin[Us].alive /\ life[t].at = from
Move(t, to) == life' = [life EXCEPT ![t].at = to]

-----------------------------------------------------------------------------
\* Creation of a thread: fork_thread, then fork_thread_callback in the thread

process_create_thread(t, u) ==
  /\ Is(t, "run") /\ life[u].at = "none"
  /\ Allocate
  /\ life' = [life EXCEPT ![t].at = "clone", ![t].new = u, ![u].at = "created", ![u].pid = lastPid']
  /\ UNCHANGED <<tableMutex, threadList, threadCount, tevents, sigThread, kin, signalsLeft, strayed>>

ResumeNew(t) ==
  /\ Is(t, "clone")
  /\ life' = [life EXCEPT ![t].at = "run", ![t].new = NoOne, ![life[t].new].at = "entry"]
  /\ UNCHANGED <<ptable, lastPid, tableMutex, threadList, threadCount, tevents, sigThread, kin,
                 signalsLeft, mixed, strayed>>

\* thread_alloc; the rest of process_thread_entry goes on without the lock
thread_alloc(t) ==
  /\ Is(t, "entry") /\ Move(t, "init")
  /\ threadList' = Append(threadList, t) /\ threadCount' = threadCount + 1
  /\ UNCHANGED <<ptable, lastPid, tableMutex, tevents, sigThread, kin, signalsLeft, mixed, strayed>>

\* signal_init_thread: the event, under any handle that is free, and then consent
signal_init_thread(t) ==
  \/ /\ Is(t, "init")
     /\ \E h \in DOMAIN tevents :
          /\ ~tevents[h].open /\ tevents' = [tevents EXCEPT ![h] = [open |-> TRUE, set |-> FALSE]]
          /\ life' = [life EXCEPT ![t].at = "ready", ![t].sigevent = h]
     /\ UNCHANGED <<ptable, lastPid, tableMutex, threadList, threadCount, sigThread, kin,
                    signalsLeft, mixed, strayed>>
  \/ /\ Is(t, "ready")
     /\ life' = [life EXCEPT ![t].at = "run", ![t].accept = TRUE]
     /\ UNCHANGED <<ptable, lastPid, tableMutex, threadList, threadCount, tevents, sigThread, kin,
                    signalsLeft, mixed, strayed>>

-----------------------------------------------------------------------------
\* Signals

\* signal_thread_deliver_signal: the first thread that consents is taken, and
\* stopped some time later
ChooseReceiver ==
  /\ kin[Us].alive /\ sigThread.at = "idle" /\ signalsLeft > 0
  /\ \E i \in DOMAIN threadList :
       /\ life[threadList[i]].accept /\ \A j \in 1 .. i - 1 : ~life[threadList[j]].accept
       /\ sigThread' = [at |-> "chosen", to |-> threadList[i]]
       /\ life' = [life EXCEPT ![threadList[i]].accept = FALSE]
  /\ signalsLeft' = signalsLeft - 1
  /\ UNCHANGED <<ptable, lastPid, tableMutex, threadList, threadCount, tevents, kin, mixed, strayed>>

HandOver ==
  /\ kin[Us].alive /\ sigThread.at = "chosen"
  /\ LET t == sigThread.to
         h == life[t].sigevent
     IN  /\ life' = [life EXCEPT ![t].info = TRUE]
         /\ tevents' = [tevents EXCEPT ![h].set = tevents[h].open]
         /\ strayed' = strayed \cup
              {u \in LThread \ {t} : tevents[h].open /\ life[u].sigevent = h
                                      /\ life[u].at \in {"ready", "run", "clone", "close"}}
  /\ sigThread' = [at |-> "idle", to |-> NoOne]
  /\ UNCHANGED <<ptable, lastPid, tableMutex, threadList, threadCount, kin, signalsLeft, mixed>>

\* signal_setup_handler, when the thread is next in translated code
SetupHandler(t) ==
  /\ Is(t, "run") /\ life[t].info
  /\ life' = [life EXCEPT ![t].info = FALSE, ![t].accept = TRUE]
  /\ tevents' = [tevents EXCEPT ![life[t].sigevent].set = FALSE]
  /\ UNCHANGED <<ptable, lastPid, tableMutex, threadList, threadCount, sigThread, kin,
                 signalsLeft, mixed, strayed>>

\* signal_default_handler
DefaultAction ==
  /\ kin[Us].alive /\ sigThread.at = "idle"
  /\ sigThread' = [at |-> "group", to |-> NoOne]
  /\ UNCHANGED <<ptable, lastPid, tableMutex, life, threadList, threadCount, tevents, kin,
                 signalsLeft, mixed, strayed>>

-----------------------------------------------------------------------------
\* The end of a thread: thread_exit.  The word that joiners wait for is in Futex

sys_exit(t) ==
  /\ Is(t, "run") /\ Move(t, "close")
  /\ UNCHANGED <<ptable, lastPid, tableMutex, threadList, threadCount, tevents, sigThread, kin,
                 signalsLeft, mixed, strayed>>

signal_exit_thread(t) ==
  \/ /\ Is(t, "close") /\ Move(t, "refuse")
     /\ tevents' = [tevents EXCEPT ![life[t].sigevent] = [open |-> FALSE, set |-> FALSE]]
     /\ UNCHANGED <<ptable, lastPid, tableMutex, threadList, threadCount, sigThread, kin,
                    signalsLeft, mixed, strayed>>
  \/ /\ Is(t, "refuse")
     /\ life' = [life EXCEPT ![t].at = "table", ![t].accept = FALSE]
     /\ UNCHANGED <<ptable, lastPid, tableMutex, threadList, threadCount, tevents, sigThread, kin,
                    signalsLeft, mixed, strayed>>

\* The slot is given up, though it is the process' own for the first thread
FreeSlot(t) ==
  /\ Is(t, "table") /\ tableMutex = NoOne
  /\ ptable' = [ptable EXCEPT ![life[t].pid] = Entry("NOTEXIST", t)]
  /\ Move(t, "count")
  /\ UNCHANGED <<lastPid, tableMutex, threadList, threadCount, tevents, sigThread, kin,
                 signalsLeft, mixed, strayed>>

\* InterlockedDecrement: whoever is the last ends the process
LeaveThread(t) ==
  /\ Is(t, "count") /\ Move(t, IF threadCount = 1 THEN "last" ELSE "gone")
  /\ threadCount' = threadCount - 1
  /\ UNCHANGED <<ptable, lastPid, tableMutex, threadList, tevents, sigThread, kin, signalsLeft,
                 mixed, strayed>>

-----------------------------------------------------------------------------
\* The end of the process

sys_exit_group(t) ==
  /\ Is(t, "run") /\ Move(t, "group")
  /\ UNCHANGED <<ptable, lastPid, tableMutex, threadList, threadCount, tevents, sigThread, kin,
                 signalsLeft, mixed, strayed>>

\* process_exit keeps the mutex: ExitProcess gives it back
process_exit(who, code) ==
  /\ tableMutex = NoOne /\ tableMutex' = who
  /\ ptable' = [ptable EXCEPT ![kin[Us].pid] = Entry("ZOMBIE", code)]
  /\ kin' = [kin EXCEPT ![Us].ended = code]
  /\ UNCHANGED <<lastPid, threadList, threadCount, tevents, signalsLeft, mixed, strayed>>

ThreadEnds(t) ==
  /\ Is(t, "group") \/ Is(t, "last")
  /\ process_exit(t, t)
  /\ UNCHANGED <<life, sigThread>>

SignalEnds ==
  /\ kin[Us].alive /\ sigThread.at = "group"
  /\ process_exit("signal thread", "signal")
  /\ UNCHANGED <<life, sigThread>>

\* Windows ends the process, because ExitProcess has been called or because
\* somebody terminates it, and gives the mutex back
ProcessGone(killed) ==
  /\ kin[Us].alive /\ (killed \/ tableMutex # NoOne)
  /\ kin' = [kin EXCEPT ![Us].alive = FALSE,
                        ![Us].ended = IF @ = "no" THEN "killed" ELSE @]
  /\ tableMutex' = NoOne
  /\ UNCHANGED <<ptable, lastPid, life, threadList, threadCount, tevents, sigThread,
                 signalsLeft, mixed, strayed>>

-----------------------------------------------------------------------------
\* The parent and its other children

ParentForks(c) ==
  /\ c \in Stranger /\ kin[c].pid = 0
  /\ Allocate
  /\ kin' = [kin EXCEPT ![c].pid = lastPid', ![c].alive = TRUE]
  /\ UNCHANGED <<tableMutex, life, threadList, threadCount, tevents, sigThread, signalsLeft, strayed>>

StrangerGone(c, killed) ==
  /\ c \in Stranger /\ kin[c].alive
  /\ killed \/ tableMutex = NoOne
  /\ ptable' = IF killed THEN ptable ELSE [ptable EXCEPT ![kin[c].pid] = Entry("ZOMBIE", c)]
  /\ kin' = [kin EXCEPT ![c].alive = FALSE, ![c].ended = IF killed THEN "killed" ELSE c]
  /\ UNCHANGED <<lastPid, tableMutex, life, threadList, threadCount, tevents, sigThread,
                 signalsLeft, mixed, strayed>>

\* The outcome is taken from the slot whatever its status: the one of who had it before
Reap_Stale(c) ==
  /\ kin[c].pid # 0 /\ ~kin[c].alive /\ kin[c].told = "no" /\ tableMutex = NoOne
  /\ LET p == kin[c].pid
     IN  /\ kin' = [kin EXCEPT ![c].told = ptable[p].code]
         /\ ptable' = [ptable EXCEPT ![p].status = "NOTEXIST"]
  /\ UNCHANGED <<lastPid, tableMutex, life, threadList, threadCount, tevents, sigThread,
                 signalsLeft, mixed, strayed>>

\* process_wait, once it has found the child dead
Reap(c) ==
  /\ kin[c].pid # 0 /\ ~kin[c].alive /\ kin[c].told = "no" /\ tableMutex = NoOne
  /\ LET p == kin[c].pid
     IN  /\ kin' = [kin EXCEPT ![c].told = IF ptable[p].status = "ZOMBIE" THEN ptable[p].code
                                           ELSE "killed"]
         /\ ptable' = [ptable EXCEPT ![p].status = "NOTEXIST"]
  /\ UNCHANGED <<lastPid, tableMutex, life, threadList, threadCount, tevents, sigThread,
                 signalsLeft, mixed, strayed>>

LifeNext ==
  \/ \E t \in LThread :
       \/ \E u \in LThread : process_create_thread(t, u)
       \/ ResumeNew(t) \/ thread_alloc(t) \/ signal_init_thread(t) \/ SetupHandler(t)
       \/ sys_exit(t) \/ signal_exit_thread(t) \/ FreeSlot(t) \/ LeaveThread(t)
       \/ sys_exit_group(t) \/ ThreadEnds(t)
  \/ ChooseReceiver \/ HandOver \/ DefaultAction \/ SignalEnds
  \/ \E killed \in BOOLEAN : ProcessGone(killed) \/ \E c \in Stranger : StrangerGone(c, killed)
  \/ \E c \in Kin : ParentForks(c) \/ Reap(c)

LifeSpec == LifeInit /\ [][LifeNext]_lifeVars

-----------------------------------------------------------------------------
MainLeft == life[MainThread].at \in {"count", "gone", "last"}

(***************************************************************************)
(* Nobody is given a pid that somebody has, with one exception: the first  *)
(* thread of a process gives the pid of the process away when it leaves    *)
(* (process.c:465), however many threads remain.                           *)
(***************************************************************************)
PidsDistinct ==
  /\ mixed \subseteq {3}
  /\ mixed # {} => MainLeft

(***************************************************************************)
(* A slot is free when nobody has its pid, except that the threads of a    *)
(* process that ended by exit_group or was killed leave theirs taken for   *)
(* ever (process.c:440); and taken while somebody has it.                  *)
(***************************************************************************)
SlotsTell ==
  \A p \in Pids!Pid \ ({1, 2} \cup mixed) :
    LET Left == {t \in LThread \ {MainThread} : ~kin[Us].alive /\ Holds(t) /\ life[t].pid = p}
    IN  IF Tenants(p) # {} THEN ptable[p].status # "NOTEXIST" \/ (p = 3 /\ MainLeft)
        ELSE ptable[p].status = "NOTEXIST" \/ Left # {}

(***************************************************************************)
(* wait4 reports how a child ended, whoever else ended a thread, exited or *)
(* was killed in the meantime, unless its pid was given away.              *)
(***************************************************************************)
WaitTruthful ==
  \A c \in Kin : kin[c].told # "no" /\ kin[c].pid \notin mixed => kin[c].told = kin[c].ended

(***************************************************************************)
(* thread_count is the number of threads that have begun and not left; a   *)
(* process whose threads have all left is on its way out (process.c:470).  *)
(***************************************************************************)
ThreadsCounted ==
  kin[Us].alive =>
    /\ threadCount = Cardinality({t \in LThread : life[t].at \notin
                                    {"none", "created", "entry", "gone", "last"}})
    /\ \E t \in LThread : life[t].at \notin {"none", "gone"}

(***************************************************************************)
(* A thread that accepts signals has an event, and in the program it is    *)
(* set exactly when the thread has a signal to handle: waits are           *)
(* interrupted for that and for nothing else.  A thread that leaves        *)
(* accepts for one step after it has closed its event (sig.c:501); the     *)
(* event of another one may be set through that handle.                    *)
(***************************************************************************)
EventsOwned ==
  kin[Us].alive => \A t \in LThread :
    /\ life[t].accept /\ life[t].at # "refuse" => tevents[life[t].sigevent].open
    /\ life[t].at = "run" /\ t \notin strayed => tevents[life[t].sigevent].set = life[t].info

LivesExact == PidsDistinct /\ SlotsTell /\ WaitTruthful /\ ThreadsCounted /\ EventsOwned
=============================================================================
