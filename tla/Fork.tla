-------------------------------- MODULE Fork --------------------------------
(***************************************************************************)
(* fork_process (syscall/fork.c) among the other threads of its process.   *)
(* It takes the lock of one subsystem after another, copies the program's  *)
(* memory somewhere on the way (mm_fork), registers the child, starts it   *)
(* and gives the locks back.  The other threads make the calls that take   *)
(* more than one of these locks, or that change what is copied.            *)
(*                                                                         *)
(* A call is a program: the sequence of its lock operations, of its        *)
(* updates of the copied data and of its accesses to the memory of the     *)
(* user, which may be write-protected by a fork and then need the lock of  *)
(* the memory.  One file is open, and mapped as well.                      *)
(***************************************************************************)
EXTENDS Integers, Sequences, FiniteSets

CONSTANTS Runner,     \* threads of the parent
          Programs    \* which calls they make: functions from Runner to ForkedCall

VARIABLES task,       \* the call of each thread
          step,       \* how far it is
          holds,      \* lock -> set of <<thread, mode>>
          waiting,    \* lock -> sequence of <<thread, mode>>
          cow,        \* the user's page is write-protected: shared with a child
          open,       \* the file has a descriptor
          updating,   \* thread -> copied data it is in the middle of changing
          partial,    \* data a child got in the middle of a change
          shut        \* locks a child got taken

forkVars == <<task, step, holds, waiting, cow, open, updating, partial, shut>>

ForkedLock == {"tls", "vfs", "file", "mm", "shared", "heap", "signal", "process"}

ForkedCall ==
  {"fork", "clone", "kmalloc", "kmalloc block", "munmap", "fault", "load", "maps", "close", "dup2",
   "read", "ioctl", "set_thread_area", "sigaction", "deliver", "wait4", "kmalloc_shared"}

ASSUME ProgramsAssumption == Programs \subseteq [Runner -> ForkedCall]

-----------------------------------------------------------------------------
\* Steps of a call
Act(do, on) == [do |-> do, on |-> on]
TakeShared(l) == Act("shared", l)         \* AcquireSRWLockShared
TakeExclusive(l) == Act("exclusive", l)     \* AcquireSRWLockExclusive, EnterCriticalSection
Leave(l) == Act("release", l)
Starts(d) == Act("begin", d)              \* the first and the last write of a change
Ends(d) == Act("end", d)
Touch == Act("touch", "user")             \* a write to the user's memory
Copy(part) == Act("copy", part)

Within(l, body) == <<TakeExclusive(l)>> \o body \o <<Leave(l)>>
Change(d) == <<Starts(d), Ends(d)>>

\* A fault takes the memory lock to take the page from the child.  The thread
\* that faults inside its own fork asks for a lock it has.
Fault == Within("mm", <<Act("unprotect", "user")>>)

\* The files without a descriptor are passed over
tls_fork == <<TakeShared("tls")>>
vfs_fork == <<TakeShared("vfs"), Act("shared if open", "file")>>

\* Entries in the order of their addresses: the heap's blocks, where the files
\* are, come before the static memory, which was allocated first and on top
mm_fork == <<TakeShared("mm"), Copy("blocks"), Copy("static"), Act("protect", "user")>>
shared_fork_lock == <<TakeShared("shared")>>
heap_fork == <<TakeShared("heap")>>
signal_fork == <<TakeExclusive("signal")>>
process_init_child == Within("process", << >>)

afterfork_parent ==
  <<Act("release if open", "file"), Leave("vfs"), Leave("tls"), Leave("signal"),
    Leave("heap"), Leave("shared"), Leave("mm")>>

\* A fork that takes the lock of the children before the signals' mutex
ForkUntilChild_ProcessFirst ==
  tls_fork \o vfs_fork \o mm_fork \o shared_fork_lock \o heap_fork \o <<TakeExclusive("process")>>
    \o signal_fork \o <<Leave("process")>>

ForkUntilChild ==
  tls_fork \o vfs_fork \o mm_fork \o shared_fork_lock \o heap_fork \o signal_fork \o process_init_child

fork_process == ForkUntilChild \o afterfork_parent

\* CLONE_PARENT_SETTID: the pid is stored for the parent before the locks go
fork_process_parent_settid == ForkUntilChild \o <<Touch>> \o afterfork_parent

\* What the child sets free: every lock of its copy, and those of its descriptors' files
Reset(descriptors) == (ForkedLock \ {"file"}) \cup descriptors

-----------------------------------------------------------------------------
\* The other calls.  kmalloc and kfree, when they keep to the blocks they have
\* and when they map or unmap one
kmalloc_kfree == Within("heap", Change("heap"))
kmalloc_block == Within("heap", <<Starts("heap")>> \o Within("mm", << >>) \o <<Ends("heap")>>)

\* munmap of the last use of a file, which frees the file
munmap == Within("mm", kmalloc_kfree)
page_load == Within("mm", <<TakeShared("file"), Leave("file")>>)
mm_get_maps == <<TakeShared("mm"), TakeShared("file"), Leave("file"), Leave("mm")>>
close == Within("vfs", <<Starts("vfs"), Act("close", "file"), Ends("vfs")>>)
dup2 == Within("vfs", <<Starts("vfs")>> \o kmalloc_kfree \o <<Ends("vfs")>>)
vfs_get == <<TakeShared("vfs"), Act("look up", "file"), Leave("vfs")>>
read == <<Touch>> \o vfs_get \o <<TakeShared("file"), Leave("file")>>
ioctl == vfs_get \o Within("file", Change("file"))
set_thread_area == Within("tls", <<Starts("tls"), Touch, Ends("tls")>>)
sigaction == <<Touch>> \o Within("signal", <<Touch>> \o Change("signal"))
signal_thread == Within("signal", <<TakeShared("process"), Leave("process")>>)
wait4 == <<TakeShared("process"), Touch, Leave("process")>>
kmalloc_shared_call == Within("shared", Change("shared"))

ProgramOf(c) ==
  CASE c = "fork" -> fork_process
    [] c = "clone" -> fork_process_parent_settid
    [] c = "kmalloc" -> kmalloc_kfree
    [] c = "kmalloc block" -> kmalloc_block
    [] c = "munmap" -> munmap
    [] c = "fault" -> <<Touch>>
    [] c = "load" -> page_load
    [] c = "maps" -> mm_get_maps
    [] c = "close" -> close
    [] c = "dup2" -> dup2
    [] c = "read" -> read
    [] c = "ioctl" -> ioctl
    [] c = "set_thread_area" -> set_thread_area
    [] c = "sigaction" -> sigaction
    [] c = "deliver" -> signal_thread
    [] c = "wait4" -> wait4
    [] c = "kmalloc_shared" -> kmalloc_shared_call

-----------------------------------------------------------------------------
ForkInit ==
  /\ task \in Programs
  /\ step = [t \in Runner |-> ProgramOf(task[t])]
  /\ holds = [l \in ForkedLock |-> {}]
  /\ waiting = [l \in ForkedLock |-> << >>]
  /\ cow \in BOOLEAN
  /\ open = TRUE
  /\ updating = [t \in Runner |-> {}]
  /\ partial = {} /\ shut = {}

Waits(t, l) == \E i \in DOMAIN waiting[l] : waiting[l][i][1] = t
Blocked(t) == \E l \in ForkedLock : Waits(t, l)
Faces(t, ops) == step[t] # << >> /\ Head(step[t]).do \in ops /\ ~Blocked(t)
Holder(l) == {h[1] : h \in holds[l]}

\* Whether a request is granted beside the threads that have the lock
Fits(l, mode) ==
  holds[l] = {} \/ (mode = "shared" /\ \A h \in holds[l] : h[2] = "shared")

\* A shared request does not pass one that waits, unless the lock is free
Acquire(t) ==
  /\ Faces(t, {"shared", "exclusive"})
  /\ LET l == Head(step[t]).on
         mode == Head(step[t]).do
     IN  IF Fits(l, mode) /\ (waiting[l] = << >> \/ holds[l] = {})
         THEN /\ holds' = [holds EXCEPT ![l] = @ \cup {<<t, mode>>}]
              /\ step' = [step EXCEPT ![t] = Tail(@)]
              /\ UNCHANGED waiting
         ELSE /\ waiting' = [waiting EXCEPT ![l] = Append(@, <<t, mode>>)]
              /\ UNCHANGED <<holds, step>>
  /\ UNCHANGED <<task, cow, open, updating, partial, shut>>

Grant(l) ==
  /\ waiting[l] # << >>
  /\ LET w == Head(waiting[l])
     IN  /\ Fits(l, w[2])
         /\ holds' = [holds EXCEPT ![l] = @ \cup {w}]
         /\ step' = [step EXCEPT ![w[1]] = Tail(@)]
  /\ waiting' = [waiting EXCEPT ![l] = Tail(@)]
  /\ UNCHANGED <<task, cow, open, updating, partial, shut>>

Advance(t) == step' = [step EXCEPT ![t] = Tail(@)]

GiveBack(t) ==
  /\ Faces(t, {"release"})
  /\ LET l == Head(step[t]).on
     IN  holds' = [holds EXCEPT ![l] = {h \in @ : h[1] # t}]
  /\ Advance(t)
  /\ UNCHANGED <<task, waiting, cow, open, updating, partial, shut>>

\* vfs_fork looks at the descriptors with the table locked, and so does
\* vfs_afterfork_parent: the table is the same
EachFile(t) ==
  /\ Faces(t, {"shared if open", "release if open"})
  /\ step' = [step EXCEPT ![t] =
       CASE ~open -> Tail(@)
         [] open /\ Head(@).do = "shared if open" -> <<TakeShared("file")>> \o Tail(@)
         [] open /\ Head(@).do = "release if open" -> <<Leave("file")>> \o Tail(@)]
  /\ UNCHANGED <<task, holds, waiting, cow, open, updating, partial, shut>>

\* EBADF when there is no descriptor any more
LookUp(t) ==
  /\ Faces(t, {"look up"})
  /\ step' = [step EXCEPT ![t] = IF open THEN Tail(@) ELSE <<Leave("vfs")>>]
  /\ UNCHANGED <<task, holds, waiting, cow, open, updating, partial, shut>>

Write(t) ==
  /\ Faces(t, {"begin", "end", "close"})
  /\ LET d == Head(step[t])
     IN  /\ updating' = [updating EXCEPT ![t] =
               CASE d.do = "begin" -> @ \cup {d.on}
                 [] d.do = "end" -> @ \ {d.on}
                 [] d.do = "close" -> @]
         /\ open' = (open /\ d.do # "close")
  /\ Advance(t)
  /\ UNCHANGED <<task, holds, waiting, cow, partial, shut>>

UserWrite(t) ==
  /\ Faces(t, {"touch"})
  /\ step' = [step EXCEPT ![t] = (IF cow THEN Fault ELSE << >>) \o Tail(@)]
  /\ UNCHANGED <<task, holds, waiting, cow, open, updating, partial, shut>>

\* Under the memory lock: a fault takes the page, mm_fork shares it
Protection(t) ==
  /\ Faces(t, {"protect", "unprotect"})
  /\ cow' = (Head(step[t]).do = "protect")
  /\ Advance(t)
  /\ UNCHANGED <<task, holds, waiting, open, updating, partial, shut>>

\* What is in each part of the memory, with the locks in it
DataIn(part) == IF part = "blocks" THEN {"file", "heap"}
                ELSE {"tls", "vfs", "shared", "heap", "signal"}
LocksIn(part) == IF part = "blocks" THEN {"file"} ELSE ForkedLock \ {"file"}

\* The child's copy is what is there now; what it resets does not matter
CopyMemory(t) ==
  /\ Faces(t, {"copy"})
  /\ LET part == Head(step[t]).on
     IN  /\ partial' = partial \cup (DataIn(part) \cap UNION {updating[u] : u \in Runner})
         /\ shut' = shut \cup ({l \in LocksIn(part) : holds[l] # {}}
                                 \ Reset(IF open THEN {"file"} ELSE {}))
  /\ Advance(t)
  /\ UNCHANGED <<task, holds, waiting, cow, open, updating>>

ForkNext ==
  \/ \E t \in Runner : \/ Acquire(t) \/ GiveBack(t) \/ EachFile(t) \/ LookUp(t) \/ Write(t)
                       \/ UserWrite(t) \/ Protection(t) \/ CopyMemory(t)
  \/ \E l \in ForkedLock : Grant(l)

ForkSpec == ForkInit /\ [][ForkNext]_forkVars


-----------------------------------------------------------------------------
\* Whom a blocked thread waits for: those that have the lock, itself perhaps,
\* and the exclusive request before its own
Ahead(t, l) ==
  {waiting[l][i][1] : i \in {j \in DOMAIN waiting[l] :
       \E k \in DOMAIN waiting[l] : j < k /\ waiting[l][k][1] = t}}
WaitsFor(t) == UNION {Holder(l) \cup Ahead(t, l) : l \in {k \in ForkedLock : Waits(t, k)}}

Has(t, S) == \E l \in S : t \in Holder(l)

\* The two places where locks are taken against the order of fork: the memory
\* lock by a thread that has the heap's, the signals' or the process' (or is
\* forking itself), and a file's lock by a thread that has the memory's
AgainstOrder(t) ==
  \/ Waits(t, "mm") /\ Has(t, {"heap", "signal", "process"})
  \/ Waits(t, "file") /\ Has(t, {"mm"})

(***************************************************************************)
(* Threads that wait for each other in a circle have one among them that   *)
(* takes locks in one of the two known ways against the order (heap.c:97,  *)
(* a user page touched under signal->mutex, process->rw_lock or in fork    *)
(* itself, and mm.c:609): any other two calls that meet in the locks of    *)
(* fork let each other pass.                                               *)
(***************************************************************************)
CircularWaitsKnown ==
  \A C \in (SUBSET {t \in Runner : Blocked(t)}) \ {{}} :
    (\A t \in C : WaitsFor(t) \cap C # {}) => \E t \in C : AgainstOrder(t)

(***************************************************************************)
(* The child of a fork finds the descriptors, the slots of thread-local    *)
(* storage and open files as they are between two changes, and no lock     *)
(* taken by a thread it does not have.  The heap, the table of shared      *)
(* pools and the signal actions are copied before their locks are taken:   *)
(* these may be torn (fork.c:195-205).  A file that is only mapped and in  *)
(* use by a call of the parent is out of reach of vfs_fork.                *)
(***************************************************************************)
ChildWhole ==
  /\ partial \subseteq {"heap", "shared", "signal"} \cup (IF open THEN {} ELSE {"file"})
  /\ shut \subseteq (IF open THEN {} ELSE {"file"})

ForkSound == CircularWaitsKnown /\ ChildWhole
=============================================================================
