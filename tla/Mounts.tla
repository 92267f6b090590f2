------------------------------- MODULE Mounts -------------------------------
(***************************************************************************)
(* The mount table in memory that every process of a session sees          *)
(* (syscall/vfs.c).  The first process fills it under a mutex; look-ups    *)
(* take no lock and walk the list while entries are linked in, trusting    *)
(* that "next is volatile, and in MSVC volatile means release ordering".   *)
(* Every store that a walk can see is a step; a process may die between    *)
(* two, which abandons the mutex.                                          *)
(*                                                                         *)
(* A mount point is a sequence of names; Rank is its place in the order of *)
(* strcmp, in which a path comes after the directories above it.  The code *)
(* mounts 30 directories in 63 slots.  A death during a mount can lose a   *)
(* slot; the case of a full table is left out, so there are as many more   *)
(* slots as there are processes.                                           *)
(***************************************************************************)
EXTENDS Integers, Sequences, FiniteSets, Collections

CONSTANTS MProc,        \* processes
          MountList,    \* the mount points in the order vfs_shared_init mounts them, "/" first
          Rank,         \* [mount points -> Nat]
          MAX_MOUNT_POINTS,
          LookupPath    \* paths looked up

ASSUME RankAssumption ==
  \A i, j \in DOMAIN MountList :
     i # j => /\ Rank[MountList[i]] # Rank[MountList[j]]
              /\ SX!IsPrefix(MountList[i], MountList[j]) => Rank[MountList[i]] < Rank[MountList[j]]
ASSUME MountsAssumption ==
  /\ MountList \in Seq(Seq(STRING)) /\ MountList # <<>> /\ MountList[1] = <<>>
  /\ \A i \in DOMAIN MountList : Rank[MountList[i]] \in Nat
  /\ LookupPath \subseteq Seq(STRING)
  /\ IsFiniteSet(MProc) /\ "none" \notin MProc
  /\ MAX_MOUNT_POINTS \in Nat /\ MAX_MOUNT_POINTS > Len(MountList) + Cardinality(MProc)

MountSlot == 1 .. MAX_MOUNT_POINTS - 1   \* mounts[]; slot 0 is unused

VARIABLES mounts,     \* [MountSlot -> [used, at, next]]
          mp_first, root_id,
          mmutex,     \* the process with mount_write_mutex, or "none"
          mp,         \* [MProc -> where it is]
          complete    \* history: vfs_shared_init has run to its end

mountVars == <<mounts, mp_first, root_id, mmutex, mp, complete>>

MIdle == [at |-> "start", n |-> 1, slot |-> 0, prev |-> 0, path |-> <<>>, cur |-> 0, whole |-> FALSE]

MountsInit ==
  /\ mounts = [i \in MountSlot |-> [used |-> FALSE, at |-> <<>>, next |-> 0]]
  /\ mp_first = 0 /\ root_id = 0 /\ mmutex = "none" /\ complete = FALSE
  /\ mp = [p \in MProc |-> MIdle]

MGo(p, from, c) == mp[p].at = from /\ mp' = [mp EXCEPT ![p] = c]

-----------------------------------------------------------------------------
\* vfs_shared_init: the test without the mutex, the mutex, the test again
InitTest(p) ==
  /\ MGo(p, "start", [mp[p] EXCEPT !.at = IF mp_first > 0 THEN "ready" ELSE "wait"])
  /\ UNCHANGED <<mounts, mp_first, root_id, mmutex, complete>>

InitLocked(p) ==
  /\ mmutex = "none"
  /\ IF mp_first > 0 THEN MGo(p, "wait", [mp[p] EXCEPT !.at = "ready"]) /\ UNCHANGED mmutex
     ELSE MGo(p, "wait", [mp[p] EXCEPT !.at = "fill"]) /\ mmutex' = p
  /\ UNCHANGED <<mounts, mp_first, root_id, complete>>

\* The list from its head: Mounted[k] is the k-th slot, 0 after the last
Mounted[k \in 1 .. Len(MountList) + 1] ==
  IF k = 1 THEN mp_first ELSE IF Mounted[k - 1] = 0 THEN 0 ELSE mounts[Mounted[k - 1]].next
Listed == {Mounted[k] : k \in DOMAIN Mounted} \ {0}

\* The slot after which a mount point goes, 0 for the head: the last one that
\* is not below it in strcmp order
Above(at) == {i \in Listed : Rank[mounts[i].at] > Rank[at]}
Prev(at) == IF Above(at) = {} THEN 0
            ELSE CHOOSE i \in Above(at) : \A j \in Above(at) : Rank[mounts[i].at] <= Rank[mounts[j].at]
NextOf(prev) == IF prev = 0 THEN mp_first ELSE mounts[prev].next

\* vfs_mount_unsafe: the fields of a free slot, and its place in the list
Fill(p) ==
  LET i == FX!Min({s \in MountSlot : ~mounts[s].used})
      at == MountList[mp[p].n]
  IN  /\ MGo(p, "fill", [mp[p] EXCEPT !.at = "next", !.slot = i, !.prev = Prev(at)])
      /\ mounts' = [mounts EXCEPT ![i] = [used |-> TRUE, at |-> at, next |-> 0]]
      /\ UNCHANGED <<mp_first, root_id, mmutex, complete>>

\* SetNext that comes after the entry has been linked in
SetNext_Late(p) ==
  /\ MGo(p, "next", [mp[p] EXCEPT !.at = "link"])
  /\ UNCHANGED <<mounts, mp_first, root_id, mmutex, complete>>

SetNext(p) ==
  /\ MGo(p, "next", [mp[p] EXCEPT !.at = "link"])
  /\ mounts' = [mounts EXCEPT ![mp[p].slot].next = NextOf(mp[p].prev)]
  /\ UNCHANGED <<mp_first, root_id, mmutex, complete>>

Link(p) ==
  LET i == mp[p].slot IN
  /\ MGo(p, "link", [mp[p] EXCEPT !.at = IF mp[p].n = 1 THEN "root" ELSE "mounted"])
  /\ IF mp[p].prev = 0 THEN mp_first' = i /\ UNCHANGED mounts
     ELSE mounts' = [mounts EXCEPT ![mp[p].prev].next = i] /\ UNCHANGED mp_first
  /\ UNCHANGED <<root_id, mmutex, complete>>

\* vfs_shared_init stores root_id when "/" is in the list already, goes on with
\* the next mount point, and releases the mutex after the last
SetRoot(p) ==
  /\ MGo(p, "root", [mp[p] EXCEPT !.at = "mounted"]) /\ root_id' = mp[p].slot
  /\ UNCHANGED <<mounts, mp_first, mmutex, complete>>

Proceed(p) ==
  LET more == mp[p].n < Len(MountList) IN
  /\ MGo(p, "mounted", [MIdle EXCEPT !.at = IF more THEN "fill" ELSE "ready", !.n = mp[p].n + 1])
  /\ mmutex' = (IF more THEN mmutex ELSE "none") /\ complete' = (complete \/ ~more)
  /\ UNCHANGED <<mounts, mp_first, root_id>>

\* A process is killed: the mutex it owns is abandoned, the next to wait has it
MountDie(p) ==
  /\ mp[p].at # "dead" /\ mp' = [mp EXCEPT ![p] = [MIdle EXCEPT !.at = "dead"]]
  /\ mmutex' = (IF mmutex = p THEN "none" ELSE mmutex)
  /\ UNCHANGED <<mounts, mp_first, root_id, complete>>

-----------------------------------------------------------------------------
\* find_mountpoint: one entry after the other, each read when it is reached
FindStart(p, path) ==
  /\ MGo(p, "ready", [mp[p] EXCEPT !.at = "walk", !.path = path, !.cur = mp_first, !.whole = complete])
  /\ UNCHANGED <<mounts, mp_first, root_id, mmutex, complete>>

\* Any path is below "/" only by the id of the root mount point
Matches(i, path) == SX!IsPrefix(mounts[i].at, path) /\ (mounts[i].at # <<>> \/ i = root_id)

FindStep(p) ==
  LET c == mp[p] IN
  /\ MGo(p, "walk", IF c.cur = 0 \/ Matches(c.cur, c.path) THEN [c EXCEPT !.at = "found"]
                    ELSE [c EXCEPT !.cur = mounts[c.cur].next])
  /\ UNCHANGED <<mounts, mp_first, root_id, mmutex, complete>>

FindEnd(p) ==
  /\ MGo(p, "found", [MIdle EXCEPT !.at = "ready"])
  /\ UNCHANGED <<mounts, mp_first, root_id, mmutex, complete>>

MountsNext ==
  \E p \in MProc :
    \/ InitTest(p) \/ InitLocked(p) \/ Fill(p) \/ SetNext(p) \/ Link(p) \/ SetRoot(p) \/ Proceed(p)
    \/ MountDie(p) \/ FindStep(p) \/ FindEnd(p)
    \/ \E path \in LookupPath : FindStart(p, path)

-----------------------------------------------------------------------------
\* "We have to keep mount points sorted by their POSIX paths in descending
\* order.  Hence /home will be tested before / on path resolving" (vfs.c,
\* vfs_mount_unsafe): whenever a process looks, also while an entry is being
\* linked in and after the death of the one that did it, the list is in order
\* and still ends with what was mounted first; and a walk that starts when the
\* table is complete finds the longest mount point above a path, whoever else
\* died or started meanwhile.  Not claimed for walks before that: a process that
\* starts while the table is filled takes it for complete ("The shared area is
\* already initialized"), and so do all when the one that filled it died
MountsSound ==
  /\ \A k \in 1 .. Len(MountList) :
       Mounted[k + 1] # 0 => Rank[mounts[Mounted[k]].at] > Rank[mounts[Mounted[k + 1]].at]
  /\ mp_first # 0 => \E i \in Listed : mounts[i].at = MountList[1]
  /\ \A p \in MProc : mp[p].at = "found" /\ mp[p].whole =>
       /\ mp[p].cur # 0
       /\ \A at \in SX!Range(MountList) :
            SX!IsPrefix(at, mp[p].path) => Len(at) <= Len(mounts[mp[p].cur].at)
=============================================================================
