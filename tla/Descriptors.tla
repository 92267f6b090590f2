---------------------------- MODULE Descriptors ----------------------------
(***************************************************************************)
(* Threads of a process and of its child using file descriptors that stand *)
(* for eventfds: syscall/vfs.c for the descriptors, fs/eventfd.c for the   *)
(* files.  What happens under vfs->rw_lock is one step, and so is fork,    *)
(* which holds that lock from vfs_fork to vfs_afterfork_parent; a read or  *)
(* write only holds a reference, and goes on after its descriptor was      *)
(* closed, duplicated or reused.                                           *)
(***************************************************************************)
EXTENDS Integers, FiniteSets

CONSTANTS
  Fd, File, NoFile,
  Proc, Parent, Child,
  Thread, Home,      \* threads, and the process of each
  ValueBits,         \* width of *efd_value; EVENTFD_VALUE_MAX = 2^ValueBits - 2
  Counts,            \* what programs pass to eventfd2
  Inputs,            \* what programs write to an eventfd
  Kinds,             \* system calls the programs make
  MaxCalls           \* bound: system calls

ASSUME FileTableAssumption ==
  /\ Fd \subseteq Nat /\ IsFiniteSet(Fd)
  /\ File \subseteq Nat
  /\ NoFile \notin File

ASSUME DescriptorsAssumption ==
  /\ Proc = {Parent, Child} /\ Parent # Child
  /\ Home \in [Thread -> Proc]
  /\ ValueBits \in Nat \ {0}
  /\ 2^ValueBits \in Nat \ {0, 1} \* so it is; the provers know little of powers
  /\ Counts \subseteq 0 .. 2^ValueBits - 2
  /\ Inputs \subseteq 0 .. 2^ValueBits - 1
  /\ MaxCalls \in Nat

NoThread == 0
ASSUME ThreadAssumption == NoThread \notin Thread /\ IsFiniteSet(Thread)

VARIABLES
  vfs,        \* [Proc -> table]
  ev,         \* [File -> eventfd: value, mutex, canread, canwrite]
  thread,     \* [Thread -> what it is doing]
  inherited,  \* [File -> references the child got of the parent's reads]
  written, got, \* ghosts: what was written to and read from a file
  calls

vars == <<vfs, ev, thread, inherited, written, got, calls>>

-----------------------------------------------------------------------------
(* The descriptor table v of one process and the reference counts of its   *)
(* files, a record:                                                        *)
(*   fd      [descriptor]: the file, or NoFile                             *)
(*   cloexec [descriptor]: close it at execve                              *)
(*   ref     [file]: the reference count in struct file                    *)
(*   open    the files whose close operation has not run                   *)
Used(v) == {d \in Fd : v.fd[d] # NoFile}
Free(v) == Fd \ Used(v)
Lowest(D) == CHOOSE d \in D : \A c \in D : d <= c

Ref(v, f) == [v EXCEPT !.ref[f] = @ + 1]

(* vfs_release: the last reference closes the file. *)
Release(v, f) ==
  [v EXCEPT !.ref[f] = @ - 1,
            !.open = IF v.ref[f] = 1 THEN @ \ {f} ELSE @]

(* vfs_close. *)
CloseFd(v, d) ==
  [Release(v, v.fd[d]) EXCEPT !.fd[d] = NoFile, !.cloexec[d] = FALSE]

(* store_file_internal for a file with one reference. *)
Store(v, f, d, ce) == [v EXCEPT !.fd[d] = f, !.cloexec[d] = ce]

(* A new file, as file_init leaves it. *)
NewFile(v, f) == [v EXCEPT !.ref[f] = 1, !.open = @ \cup {f}]

(* vfs_dup to descriptor n, that overwrites what n was without closing it. *)
DupTo_Overwrites(v, d, n, ce) == Store(Ref(v, v.fd[d]), v.fd[d], n, ce)

(* vfs_dup to descriptor n: the reference is taken first, and what n was   *)
(* is closed.                                                              *)
DupTo(v, d, n, ce) ==
  LET r == Ref(v, v.fd[d])
      c == IF v.fd[n] = NoFile THEN r ELSE CloseFd(r, n)
  IN  Store(c, v.fd[d], n, ce)

(* vfs_reset, for execve. *)
CloseOnExec(v) ==
  LET D == {d \in Used(v) : v.cloexec[d]}
      n(f) == Cardinality({d \in D : v.fd[d] = f})
  IN  [fd      |-> [d \in Fd |-> IF d \in D THEN NoFile ELSE v.fd[d]],
       cloexec |-> [d \in Fd |-> v.cloexec[d] /\ d \notin D],
       ref     |-> [f \in File |-> v.ref[f] - n(f)],
       open    |-> {f \in v.open : v.ref[f] # n(f)}]

EmptyTable ==
  [fd |-> [d \in Fd |-> NoFile], cloexec |-> [d \in Fd |-> FALSE],
   ref |-> [f \in File |-> 0], open |-> {}]

-----------------------------------------------------------------------------
EVENTFD_VALUE_MAX == 2^ValueBits - 2
Wrap(n) == n % 2^ValueBits
NewEvent == [value |-> 0, mutex |-> NoThread, canread |-> 0, canwrite |-> 1]
Idle == [pc |-> "idle", file |-> NoFile, fd |-> 0, op |-> "none", n |-> 0,
         seen |-> 0]

Init ==
  /\ vfs = [p \in Proc |-> EmptyTable]
  /\ ev = [f \in File |-> NewEvent]
  /\ thread = [t \in Thread |->
                 IF Home[t] = Parent THEN Idle ELSE [Idle EXCEPT !.pc = "unborn"]]
  /\ inherited = [f \in File |-> 0]
  /\ written = [f \in File |-> 0]
  /\ got = [f \in File |-> 0]
  /\ calls = 0

Table(t) == vfs[Home[t]]
Call(t, kind) ==
  kind \in Kinds /\ thread[t].pc = "idle" /\ calls < MaxCalls /\ calls' = calls + 1
SetTable(t, v) == vfs' = [vfs EXCEPT ![Home[t]] = v]
Data == <<ev, inherited, written, got>>

-----------------------------------------------------------------------------
(* eventfd2, when a descriptor is free. *)
Unused == {f \in File : \A p \in Proc : f \notin vfs[p].open}
Eventfd2(t, n, ce) ==
  /\ Call(t, "eventfd2")
  /\ Unused # {} /\ Free(Table(t)) # {}
  /\ LET f == Lowest(Unused)
     IN  /\ SetTable(t, Store(NewFile(Table(t), f), f, Lowest(Free(Table(t))), ce))
         /\ ev' = [ev EXCEPT ![f] = [NewEvent EXCEPT !.value = n]]
         /\ written' = [written EXCEPT ![f] = n]
         /\ got' = [got EXCEPT ![f] = 0]
         /\ inherited' = [inherited EXCEPT ![f] = 0]
  /\ UNCHANGED thread

Dup(t, d) ==
  /\ Call(t, "dup")
  /\ d \in Used(Table(t)) /\ Free(Table(t)) # {}
  /\ SetTable(t, DupTo(Table(t), d, Lowest(Free(Table(t))), FALSE))
  /\ UNCHANGED <<thread, Data>>

Dup3(t, d, n, ce) ==
  /\ Call(t, "dup3")
  /\ d \in Used(Table(t)) /\ n # d
  /\ SetTable(t, DupTo(Table(t), d, n, ce))
  /\ UNCHANGED <<thread, Data>>

Close(t, d) ==
  /\ Call(t, "close")
  /\ d \in Used(Table(t))
  /\ SetTable(t, CloseFd(Table(t), d))
  /\ UNCHANGED <<thread, Data>>

(* execve; vfs_reset takes no lock, other threads may be in the middle of  *)
(* a call.                                                                 *)
Exec(t) ==
  /\ Call(t, "execve")
  /\ SetTable(t, CloseOnExec(Table(t)))
  /\ UNCHANGED <<thread, Data>>

(* fork: the child has the descriptors and the counts, also what threads   *)
(* of the parent hold at the moment, which it will never release.          *)
Holds(t, f) == thread[t].file = f
Fork(t) ==
  /\ Call(t, "fork")
  /\ Home[t] = Parent
  /\ \E c \in Thread : Home[c] = Child /\ thread[c].pc = "unborn"
  /\ vfs' = [vfs EXCEPT ![Child] = vfs[Parent]]
  /\ inherited' = [f \in File |-> Cardinality({u \in Thread : Holds(u, f)})]
  /\ thread' = [c \in Thread |-> IF Home[c] = Child THEN Idle ELSE thread[c]]
  /\ UNCHANGED <<ev, written, got>>

-----------------------------------------------------------------------------
(* vfs_get at the start of a call on descriptor d, without and with the    *)
(* reference.                                                              *)
Begin_NoRef(t, d, op, pc, n) ==
  /\ Call(t, op)
  /\ d \in Used(Table(t))
  /\ thread' = [thread EXCEPT ![t] =
                  [pc |-> pc, file |-> Table(t).fd[d], fd |-> d, op |-> op, n |-> n,
                   seen |-> 0]]
  /\ UNCHANGED <<vfs, Data>>

Begin(t, d, op, pc, n) ==
  /\ Call(t, op)
  /\ d \in Used(Table(t))
  /\ SetTable(t, Ref(Table(t), Table(t).fd[d]))
  /\ thread' = [thread EXCEPT ![t] =
                  [pc |-> pc, file |-> Table(t).fd[d], fd |-> d, op |-> op, n |-> n,
                   seen |-> 0]]
  /\ UNCHANGED Data

Read(t, d) == Begin(t, d, "read", "lock", 0)
Write(t, d, n) == Begin(t, d, "write", "lock", n)
Setfd(t, d, ce) == Begin(t, d, "setfd", "setfd", IF ce THEN 1 ELSE 0)

At(t, pc) == thread[t].pc = pc
Goto(t, pc) == thread' = [thread EXCEPT ![t].pc = pc]
Op(t) == thread[t].op
Event(t) == ev[thread[t].file]
SetEvent(t, e) == ev' = [ev EXCEPT ![thread[t].file] = e]

(* F_SETFD writes the flag without a lock, to a descriptor that may have   *)
(* become another file's.                                                  *)
SetfdStore(t) ==
  /\ At(t, "setfd")
  /\ SetTable(t, [Table(t) EXCEPT !.cloexec[thread[t].fd] = thread[t].n = 1])
  /\ Goto(t, "release")
  /\ UNCHANGED <<Data, calls>>

(* eventfd_read and eventfd_write without a mutex. *)
Lock_NoWait(t) ==
  /\ At(t, "lock")
  /\ SetEvent(t, [Event(t) EXCEPT !.mutex = t])
  /\ Goto(t, "check")
  /\ UNCHANGED <<vfs, inherited, written, got, calls>>

(* eventfd_read and eventfd_write take the mutex, and again after a wait. *)
Lock(t) ==
  /\ At(t, "lock")
  /\ Event(t).mutex = NoThread
  /\ SetEvent(t, [Event(t) EXCEPT !.mutex = t])
  /\ Goto(t, "check")
  /\ UNCHANGED <<vfs, inherited, written, got, calls>>

Blocked(t) ==
  IF Op(t) = "read" THEN Event(t).value = 0
  ELSE Wrap(Event(t).value + thread[t].n) > EVENTFD_VALUE_MAX

Leave(t) ==
  /\ At(t, "check") /\ Blocked(t)
  /\ SetEvent(t, [Event(t) EXCEPT !.mutex = NoThread])
  /\ Goto(t, "wait")
  /\ UNCHANGED <<vfs, inherited, written, got, calls>>

(* The wait on efd_sem_canread or efd_sem_canwrite. *)
Sem(t) == IF Op(t) = "read" THEN Event(t).canread ELSE Event(t).canwrite
Down(t) == IF Op(t) = "read" THEN [Event(t) EXCEPT !.canread = @ - 1]
                             ELSE [Event(t) EXCEPT !.canwrite = @ - 1]

Wake(t) ==
  /\ At(t, "wait") /\ Sem(t) > 0
  /\ SetEvent(t, Down(t))
  /\ Goto(t, "lock")
  /\ UNCHANGED <<vfs, inherited, written, got, calls>>

(* The while loop ends: the value is fetched, then stored. *)
Fetch(t) ==
  /\ At(t, "check") /\ ~Blocked(t)
  /\ thread' = [thread EXCEPT ![t].pc = "store", ![t].seen = Event(t).value]
  /\ UNCHANGED <<vfs, Data, calls>>

(* The rest of eventfd_read and eventfd_write; the semaphores count to 1. *)
Take(t) ==
  /\ At(t, "store") /\ Op(t) = "read"
  /\ got' = [got EXCEPT ![thread[t].file] = @ + thread[t].seen]
  /\ SetEvent(t, [Event(t) EXCEPT !.value = 0, !.canwrite = 1])
  /\ Goto(t, "unlock")
  /\ UNCHANGED <<vfs, inherited, written, calls>>

(* A write that tells no reader. *)
Add_NoRelease(t) ==
  /\ At(t, "store") /\ Op(t) = "write"
  /\ written' = [written EXCEPT ![thread[t].file] = @ + thread[t].n]
  /\ SetEvent(t, [Event(t) EXCEPT !.value = Wrap(thread[t].seen + thread[t].n)])
  /\ Goto(t, "unlock")
  /\ UNCHANGED <<vfs, inherited, got, calls>>

Add(t) ==
  /\ At(t, "store") /\ Op(t) = "write"
  /\ written' = [written EXCEPT ![thread[t].file] = @ + thread[t].n]
  /\ SetEvent(t, [Event(t) EXCEPT !.value = Wrap(thread[t].seen + thread[t].n),
                                  !.canread = 1])
  /\ Goto(t, "unlock")
  /\ UNCHANGED <<vfs, inherited, got, calls>>

Unlock(t) ==
  /\ At(t, "unlock")
  /\ SetEvent(t, [Event(t) EXCEPT !.mutex = NoThread])
  /\ Goto(t, "release")
  /\ UNCHANGED <<vfs, inherited, written, got, calls>>

(* vfs_release at the end of the call. *)
Finish(t) ==
  /\ At(t, "release")
  /\ SetTable(t, Release(Table(t), thread[t].file))
  /\ thread' = [thread EXCEPT ![t] = Idle]
  /\ UNCHANGED <<Data, calls>>

Continue(t) ==
  SetfdStore(t) \/ Lock(t) \/ Leave(t) \/ Wake(t) \/ Fetch(t) \/ Take(t) \/ Add(t)
    \/ Unlock(t) \/ Finish(t)

Next ==
  \E t \in Thread :
    \/ \E n \in Counts, ce \in BOOLEAN : Eventfd2(t, n, ce)
    \/ \E d \in Fd : \/ Dup(t, d) \/ Close(t, d) \/ Read(t, d)
                     \/ \E n \in Fd, ce \in BOOLEAN : Dup3(t, d, n, ce)
                     \/ \E n \in Inputs : Write(t, d, n)
                     \/ \E ce \in BOOLEAN : Setfd(t, d, ce)
    \/ Exec(t)
    \/ Fork(t)
    \/ Continue(t)

(* Windows schedules every thread that can go on, and nobody owes a call. *)
Spec == Init /\ [][Next]_vars /\ \A t \in Thread : WF_vars(Continue(t))

-----------------------------------------------------------------------------
(* The variables have their types (struct vfs_data, struct file, and the   *)
(* shared memory and semaphores of struct eventfd_file).                   *)
TypeOK ==
  /\ \A p \in Proc :
       /\ vfs[p].fd \in [Fd -> File \cup {NoFile}]
       /\ vfs[p].cloexec \in [Fd -> BOOLEAN]
       /\ vfs[p].ref \in [File -> Nat]
       /\ vfs[p].open \subseteq File
  /\ ev \in [File -> [value : 0 .. EVENTFD_VALUE_MAX, mutex : Thread \cup {NoThread},
                      canread : 0 .. 1, canwrite : 0 .. 1]]
  /\ thread \in [Thread ->
       [pc : {"unborn", "idle", "setfd", "lock", "check", "wait", "store", "unlock", "release"},
        file : File \cup {NoFile}, fd : Fd \cup {0},
        op : {"none", "read", "write", "setfd"}, n : Nat,
        seen : 0 .. EVENTFD_VALUE_MAX]]
  /\ inherited \in [File -> Nat] /\ written \in [File -> Nat] /\ got \in [File -> Nat]
  /\ calls \in 0 .. MaxCalls

(* The count of a file is the number of its descriptors and of the calls   *)
(* in progress on it, plus, in a child, of the calls that were in progress *)
(* in its parent when it was forked; and the file is open while there are  *)
(* any.  Nothing else leaks a file or closes it too early: not dup over an *)
(* open descriptor, a close or an execve in the middle of a read.          *)
RefsExact ==
  \A p \in Proc : \A f \in File :
    LET descriptors == {d \in Fd : vfs[p].fd[d] = f}
        users       == {t \in Thread : Home[t] = p /\ Holds(t, f)}
        leaked      == IF p = Child THEN inherited[f] ELSE 0
    IN  /\ vfs[p].ref[f] = Cardinality(descriptors) + Cardinality(users) + leaked
        /\ f \in vfs[p].open <=> vfs[p].ref[f] > 0

(* No thread works on a file its process has closed: eventfd_close unmaps  *)
(* the value and closes the semaphores a reader may be waiting on.         *)
NoUseAfterClose ==
  \A t \in Thread : thread[t].file # NoFile => thread[t].file \in vfs[Home[t]].open

(* What was written to an eventfd and not read yet is its value, whichever *)
(* threads of whichever processes wrote and read it.                       *)
NothingLost == \A f \in File : written[f] = got[f] + ev[f].value

(* A reader sleeps on only while there is nothing to read, although the    *)
(* semaphore holds one unit and units are left over from earlier writes.   *)
Sleeping(t) == At(t, "wait") /\ Op(t) = "read"
ReadersWake ==
  \A t \in Thread :
    (Sleeping(t) /\ Event(t).value > 0) ~> (~Sleeping(t) \/ Event(t).value = 0)
=============================================================================
