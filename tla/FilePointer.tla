----------------------------- MODULE FilePointer -----------------------------
(***************************************************************************)
(* The file pointer of an open file (fs/winfs.c).  Windows moves it with   *)
(* every transfer, so pread, pwrite and stat put it back: "we add          *)
(* interprocess locks to guard all file pointer changing operations".  The *)
(* handle and its mutex are inherited by fork; the threads here may be in  *)
(* different processes, and a process may be killed at any step.           *)
(*                                                                         *)
(* The bytes themselves are left out; llseek, which releases its rw_lock   *)
(* in the wrong mode, is taken to release what it took.                    *)
(***************************************************************************)
EXTENDS Integers, FiniteSets, Collections

CONSTANTS FThread,       \* threads that share the open file
          MaxFile,       \* bound: no write goes beyond
          FCalls         \* bound: calls of each thread

ASSUME MaxFileAssumption == MaxFile \in Nat
ASSUME FThreadAssumption == "none" \notin FThread

VARIABLES ptr,        \* the file pointer that Windows keeps
          fsize,      \* the size of the file
          fmutex,     \* the thread with fp_mutex, or "none"
          fth,        \* the call of each thread
          logical,    \* history: the pointer as POSIX has it
          torn        \* history: a process was killed between a move and its undoing

pointerVars == <<ptr, fsize, fmutex, fth, logical, torn>>

FIdle == [at |-> "idle", op |-> "none", left |-> 0, off |-> 0, saved |-> 0, done |-> 0]
Saving == {"pread", "pwrite", "stat"}     \* calls that put the pointer back

PointerInit ==
  /\ ptr = 0 /\ fsize \in 0 .. MaxFile /\ fmutex = "none" /\ logical = 0 /\ torn = FALSE
  /\ fth = [t \in FThread |-> FIdle]

FGo(t, from, c) == fth[t].at = from /\ fth' = [fth EXCEPT ![t] = c]

\* A call starts
StartCall(t, op, n, off) ==
  /\ fth[t].at = "idle" /\ fth[t].done < FCalls
  /\ fth' = [fth EXCEPT ![t] = [FIdle EXCEPT !.at = "lock", !.op = op, !.left = n, !.off = off,
                                             !.done = fth[t].done + 1]]
  /\ UNCHANGED <<ptr, fsize, fmutex, logical, torn>>

\* Lock that pread, pwrite and stat do without
Lock_ReadersOnly(t) ==
  /\ fth[t].op \in Saving \/ fmutex \in {"none", t}
  /\ fmutex' = (IF fth[t].op \in Saving THEN fmutex ELSE t)
  /\ FGo(t, "lock", [fth[t] EXCEPT !.at = IF fth[t].op = "llseek" THEN "seek" ELSE "move",
                                   !.saved = ptr])
  /\ UNCHANGED <<ptr, fsize, logical, torn>>

\* WaitForSingleObject(fp_mutex), which a thread may take again; SetFilePointerEx
\* tells where the pointer is
Lock(t) ==
  /\ fmutex \in {"none", t} /\ fmutex' = t
  /\ FGo(t, "lock", [fth[t] EXCEPT !.at = IF fth[t].op = "llseek" THEN "seek" ELSE "move",
                                   !.saved = ptr])
  /\ UNCHANGED <<ptr, fsize, logical, torn>>

\* ReadFile at the pointer or at an offset, until it returns nothing
ReadSome(t) ==
  LET c == fth[t]
      at == IF c.op = "read" THEN ptr ELSE c.off
      k == IF at >= fsize THEN 0 ELSE FX!Min({c.left, fsize - at})
  IN  /\ c.op \in {"read", "pread", "stat"}
      /\ FGo(t, "move", IF k = 0 \/ k = c.left THEN [c EXCEPT !.at = "moved", !.left = @ - k]
                        ELSE [c EXCEPT !.left = @ - k, !.off = @ + k])
      /\ ptr' = IF k = 0 THEN ptr ELSE at + k
      /\ logical' = IF c.op = "read" THEN logical + k ELSE logical
      /\ UNCHANGED <<fsize, fmutex, torn>>

\* WriteFile at the pointer, at an offset, or with O_APPEND at the end; it may
\* take less than it is given
WriteSome(t) ==
  \E k \in 1 .. fth[t].left :
    LET c == fth[t]
        at == CASE c.op = "write" -> ptr [] c.op = "append" -> fsize [] OTHER -> c.off
    IN  /\ c.op \in {"write", "append", "pwrite"} /\ at + k <= MaxFile
        /\ FGo(t, "move", [c EXCEPT !.at = IF k = c.left THEN "moved" ELSE "move",
                                    !.left = @ - k, !.off = @ + k])
        /\ ptr' = at + k /\ fsize' = FX!Max({fsize, at + k})
        /\ logical' = CASE c.op = "write" -> logical + k [] c.op = "append" -> fsize'
                        [] OTHER -> logical
        /\ UNCHANGED <<fmutex, torn>>

\* pread, pwrite and stat put the pointer back
Restore(t) ==
  /\ fth[t].op \in Saving /\ FGo(t, "moved", [fth[t] EXCEPT !.at = "unlock"])
  /\ ptr' = fth[t].saved
  /\ UNCHANGED <<fsize, fmutex, logical, torn>>

\* ReleaseMutex
Unlock(t) ==
  /\ \/ fth[t].at = "unlock" \/ (fth[t].at = "moved" /\ fth[t].op \notin Saving)
  /\ fth' = [fth EXCEPT ![t] = [FIdle EXCEPT !.done = fth[t].done]]
  /\ fmutex' = IF fmutex = t THEN "none" ELSE fmutex
  /\ UNCHANGED <<ptr, fsize, logical, torn>>

\* winfs_llseek: a negative position is an error, after which the mutex stays
\* with the thread
Seek(t) ==
  \E whence \in {"SET", "CUR", "END"} :
    LET Base(p) == CASE whence = "SET" -> 0 [] whence = "CUR" -> p [] whence = "END" -> fsize
        to == Base(ptr) + fth[t].off
    IN
    /\ to <= MaxFile
    /\ IF to < 0 THEN FGo(t, "seek", [FIdle EXCEPT !.done = fth[t].done]) /\ UNCHANGED <<ptr, logical>>
       ELSE /\ FGo(t, "seek", [fth[t] EXCEPT !.at = "unlock"])
            /\ ptr' = to /\ logical' = Base(logical) + fth[t].off
    /\ UNCHANGED <<fsize, fmutex, torn>>

\* The process of a thread is killed: its mutex is abandoned, and the next to
\* wait for it goes on
KillHolder(t) ==
  /\ fth[t].at # "dead" /\ fth' = [fth EXCEPT ![t] = [FIdle EXCEPT !.at = "dead"]]
  /\ fmutex' = (IF fmutex = t THEN "none" ELSE fmutex)
  /\ torn' = (torn \/ (fth[t].op \in Saving /\ fth[t].at \in {"move", "moved"}))
  /\ UNCHANGED <<ptr, fsize, logical>>

PointerNext ==
  \E t \in FThread :
    \/ \E n \in 1 .. 2, off \in 0 .. 1 :
         \/ StartCall(t, "pread", n, off) \/ StartCall(t, "pwrite", n, off)
         \/ off = 0 /\ (StartCall(t, "read", n, 0) \/ StartCall(t, "write", n, 0) \/ StartCall(t, "append", n, 0))
    \/ StartCall(t, "stat", 1, 0) \/ \E off \in {-1, 0, 1} : StartCall(t, "llseek", 0, off)
    \/ Lock(t) \/ ReadSome(t) \/ WriteSome(t) \/ Restore(t) \/ Unlock(t) \/ Seek(t) \/ KillHolder(t)

-----------------------------------------------------------------------------
\* "In Linux pread() and pwrite() are defined to be atomic and not touch file
\* pointers" (winfs.c): whenever no call is inside the mutex, the pointer is
\* where the reads, writes and seeks alone have taken it, and a call finds it
\* there, whatever the other threads and processes do to the shared handle;
\* unless a process was killed between moving the pointer and putting it back
PointerKept ==
  torn \/ /\ fmutex = "none" => ptr = logical
          /\ \A t \in FThread : fth[t].at \in {"move", "seek"} /\ fth[t].op \notin Saving => ptr = logical
=============================================================================
