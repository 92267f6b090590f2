------------------------------- MODULE Memory -------------------------------
(***************************************************************************)
(* The memory of a family of processes: mmap, munmap, mprotect, brk, the   *)
(* page fault handler, fork and execve, as syscall/mm.c builds them from   *)
(* sections of 64 kB that are loaded on demand and copied on write.        *)
(*                                                                         *)
(* mem is the memory as the program should see it: every mapped page of    *)
(* every process, which only that process writes.  Everything that runs    *)
(* under mm->rw_lock is one step.                                          *)
(***************************************************************************)
EXTENDS Sections

CONSTANTS
  FirstProc,       \* the process that exists at the start
  LowPage, HighPage, \* ADDRESS_ALLOCATION_LOW and _HIGH, in pages
  BrkBase,         \* the program break the ELF loader sets
  Maps,            \* arguments of mmap: [fixed, start, n, prot, file]
  Ranges, Prots,   \* arguments of munmap and mprotect
  Breaks,          \* arguments of brk, in pages
  MaxCalls,        \* bound: calls that change mappings
  MaxEntries,      \* bound: entries of a process (MAX_MMAP_COUNT)
  WildPages        \* addresses programs pass to system calls unmapped

Entry ==
  {e \in [start : Nat, end : Nat, prot : SUBSET ReadWrite,
          file : BOOLEAN, off : Nat] : e.start <= e.end}

ASSUME MemoryAssumption ==
  /\ FirstProc \in Proc /\ Proc \subseteq Nat \ {0}
  /\ LowPage \in Nat /\ HighPage \in Nat
  /\ LowPage .. HighPage - 1 \subseteq Page
  /\ BrkBase \in Page /\ Breaks \subseteq Page
  /\ Maps \subseteq [fixed : BOOLEAN, start : Page, n : Nat \ {0},
                     prot : SUBSET ReadWrite, file : BOOLEAN]
  /\ \A m \in Maps : m.start .. m.start + m.n - 1 \subseteq Page
  /\ Ranges \subseteq [first : Page, last : Page]
  /\ \A r \in Ranges : r.first <= r.last
  /\ Prots \subseteq SUBSET ReadWrite
  /\ MaxCalls \in Nat /\ MaxEntries \in Nat
  /\ WildPages \subseteq Page

VARIABLES
  alive,     \* [Proc -> "unborn", "running" or "dead"]
  entries,   \* [Proc -> the entry tree]
  brk,       \* [Proc -> mm->brk]
  sections,  \* see Sections
  mem,       \* [Proc -> [Page -> what the program should read there]]
  calls      \* calls made so far

vars == <<alive, entries, brk, sections, mem, calls>>

Init ==
  /\ alive = [p \in Proc |-> IF p = FirstProc THEN "running" ELSE "unborn"]
  /\ entries = [p \in Proc |-> {}]
  /\ brk = [p \in Proc |-> BrkBase]
  /\ sections = NoSections
  /\ mem = [p \in Proc |-> [g \in Page |-> 0]]
  /\ calls = 0

Running(p) == alive[p] = "running"
Call(p) == Running(p) /\ calls < MaxCalls /\ calls' = calls + 1

-----------------------------------------------------------------------------
(* mmap_internal, once the address is known: the entry of the pages a .. b *)
(* joins the entries E, and the sections w are made ready for it.          *)
AddEntry(p, E, w, a, b, prot, file) ==
  LET e == [start |-> a, end |-> b, prot |-> prot, file |-> file, off |-> 0]
  IN  /\ Cardinality(E \cup {e}) <= MaxEntries
      /\ entries' = [entries EXCEPT ![p] = E \cup {e}]
      /\ sections' = SetUpEnds(w, p, E \cup {e}, e)
      /\ mem' = [mem EXCEPT ![p] =
                   [g \in Page |-> IF g \in a .. b THEN Data(e, g) ELSE @[g]]]

(* With MAP_FIXED what was mapped there goes; otherwise the pages are      *)
(* taken where find_free_pages says they are free.                         *)
MapFixed(p, a, b, prot, file) ==
  LET rest == Cut(entries[p], a, b)
      gone == Mapped(entries[p]) \cap (a .. b)
  IN  AddEntry(p, rest, FreeBlocks(sections, p, gone, rest), a, b, prot, file)

MapFree(p, n, prot, file) ==
  \E a \in FirstFit(entries[p], n, LowPage, HighPage) :
    AddEntry(p, entries[p], sections, a, a + n - 1, prot, file)

Mmap(p, m) ==
  /\ Call(p)
  /\ IF m.fixed THEN MapFixed(p, m.start, m.start + m.n - 1, m.prot, m.file)
                ELSE MapFree(p, m.n, m.prot, m.file)
  /\ UNCHANGED <<alive, brk>>

(* munmap_internal_unsafe for the pages a .. b. *)
Unmap(p, a, b) ==
  LET rest == Cut(entries[p], a, b)
      gone == Mapped(entries[p]) \cap (a .. b)
  IN  /\ Cardinality(rest) <= MaxEntries
      /\ entries' = [entries EXCEPT ![p] = rest]
      /\ sections' = FreeBlocks(sections, p, gone, rest)
      /\ mem' = [mem EXCEPT ![p] = [g \in Page |-> IF g \in gone THEN 0 ELSE @[g]]]

Munmap(p, r) == Call(p) /\ Unmap(p, r.first, r.last) /\ UNCHANGED <<alive, brk>>

(* sys_mprotect's check that the pages are mapped: entries one after the  *)
(* other, the first of which has to start where the range does.            *)
Validated(E, r) ==
  /\ \E e \in E : e.start = r.first
  /\ r.first .. r.last \subseteq Mapped(E)

(* Mprotect that gives the write permission back at once. *)
Mprotect_AtOnce(p, r, prot) ==
  /\ Call(p)
  /\ Validated(entries[p], r)
  /\ LET E == Paint(entries[p], r.first, r.last, prot)
     IN  /\ Cardinality(E) <= MaxEntries
         /\ entries' = [entries EXCEPT ![p] = E]
  /\ sections' = Protect(sections, p, r.first .. r.last, prot)
  /\ UNCHANGED <<alive, brk, mem>>

(* sys_mprotect: the write permission comes back with the next write       *)
(* fault, since the block may be shared.                                   *)
Mprotect(p, r, prot) ==
  /\ Call(p)
  /\ Validated(entries[p], r)
  /\ LET E == Paint(entries[p], r.first, r.last, prot)
     IN  /\ Cardinality(E) <= MaxEntries
         /\ entries' = [entries EXCEPT ![p] = E]
  /\ sections' = Protect(sections, p, r.first .. r.last, prot \ {"w"})
  /\ UNCHANGED <<alive, brk, mem>>

(* sys_brk: shrinking unmaps, growing maps what nothing else occupies. *)
BrkShrink(p, a) ==
  /\ Call(p)
  /\ a < brk[p]
  /\ Unmap(p, a, brk[p] - 1)
  /\ brk' = [brk EXCEPT ![p] = a]
  /\ UNCHANGED alive

BrkGrow(p, a) ==
  /\ Call(p)
  /\ a > brk[p]
  /\ \A e \in entries[p] : ~Overlaps(e, brk[p], a - 1)
  /\ AddEntry(p, entries[p], sections, brk[p], a - 1, ReadWrite, FALSE)
  /\ brk' = [brk EXCEPT ![p] = a]
  /\ UNCHANGED alive

-----------------------------------------------------------------------------
MayAccess(p, g, access) ==
  g \in Mapped(entries[p]) /\ access \in EntryAt(entries[p], g).prot

(* The program writes its number to a page that Windows lets it write. *)
Write(p, g) ==
  /\ Running(p)
  /\ MayAccess(p, g, "w")
  /\ Permits(sections, p, g, "w")
  /\ sections' = [sections EXCEPT
                    !.content[sections.handle[p][BlockOf(g)]][PageIn(g)] = p]
  /\ mem' = [mem EXCEPT ![p][g] = p]
  /\ UNCHANGED <<alive, entries, brk, calls>>

Die(p) ==
  /\ alive' = [alive EXCEPT ![p] = "dead"]
  /\ entries' = [entries EXCEPT ![p] = {}]
  /\ brk' = [brk EXCEPT ![p] = BrkBase]
  /\ sections' = DropSections(sections, p)
  /\ mem' = [mem EXCEPT ![p] = [g \in Page |-> 0]]
  /\ UNCHANGED calls

(* exception_handler: the program accesses a page it may access; it dies   *)
(* when the fault handler gives up.                                        *)
Fault(p, g, access) ==
  /\ Running(p)
  /\ MayAccess(p, g, access)
  /\ ~Permits(sections, p, g, access)
  /\ LET r == HandlePageFault(sections, p, entries[p], g, access)
     IN  IF r.ok THEN /\ sections' = r.sections
                      /\ UNCHANGED <<alive, entries, brk, mem, calls>>
                 ELSE Die(p)

(* mm_check_read on an address no entry maps: the system call fails.       *)
CheckedFault(p, g) ==
  /\ Running(p)
  /\ g \notin Mapped(entries[p])
  /\ ~Permits(sections, p, g, "r")
  /\ sections' = HandlePageFault(sections, p, entries[p], g, "r").sections
  /\ UNCHANGED <<alive, entries, brk, mem, calls>>

(* fork_process as far as memory goes.  The other threads of the parent    *)
(* are assumed to leave its mappings alone from CreateProcess, where the   *)
(* child inherits the handles, to mm_fork, which takes mm->rw_lock.        *)
Fork(p, c) ==
  /\ Running(p)
  /\ alive[c] = "unborn"
  /\ alive' = [alive EXCEPT ![c] = "running"]
  /\ entries' = [entries EXCEPT ![c] = entries[p]]
  /\ brk' = [brk EXCEPT ![c] = brk[p]]
  /\ sections' = ForkSections(sections, p, c, entries[p])
  /\ mem' = [mem EXCEPT ![c] = mem[p]]
  /\ UNCHANGED calls

(* mm_reset, for execve: every block of every entry is given up. *)
Exec(p) ==
  /\ Call(p)
  /\ entries' = [entries EXCEPT ![p] = {}]
  /\ brk' = [brk EXCEPT ![p] = BrkBase]
  /\ sections' = CloseBlocks(sections, p, {BlockOf(g) : g \in Mapped(entries[p])})
  /\ mem' = [mem EXCEPT ![p] = [g \in Page |-> 0]]
  /\ UNCHANGED alive

Exit(p) == Running(p) /\ Die(p)

Next ==
  \E p \in Proc :
    \/ \E m \in Maps : Mmap(p, m)
    \/ \E r \in Ranges : Munmap(p, r) \/ \E prot \in Prots : Mprotect(p, r, prot)
    \/ \E a \in Breaks : BrkShrink(p, a) \/ BrkGrow(p, a)
    \/ \E g \in Page : \/ Write(p, g)
                       \/ \E access \in ReadWrite : Fault(p, g, access)
    \/ \E g \in WildPages : CheckedFault(p, g)
    \/ \E c \in Proc : Fork(p, c)
    \/ Exec(p)
    \/ Exit(p)

Spec == Init /\ [][Next]_vars

-----------------------------------------------------------------------------
(* The variables have their types (struct mm_data and the section table).  *)
TypeOK ==
  /\ alive \in [Proc -> {"unborn", "running", "dead"}]
  /\ entries \in [Proc -> SUBSET Entry]
  /\ brk \in [Proc -> Page]
  /\ sections.handle \in [Proc -> [Block -> Section \cup {0}]]
  /\ sections.open \in [Proc -> SUBSET Section]
  /\ sections.loaded \in [Proc -> SUBSET Block]
  /\ sections.hw \in [Proc -> [Page -> SUBSET ReadWrite]]
  /\ calls \in 0 .. MaxCalls

(* No page has two entries: mmap, munmap, mprotect and brk split and       *)
(* replace entries so that the tree stays a partition of what is mapped.   *)
DisjointEntries(E) ==
  \A e, f \in E : e # f => ~Overlaps(e, f.start, f.end)
EntriesDisjoint == \A p \in Proc : DisjointEntries(entries[p])

(* What process p finds in a page it has mapped: the section, or what the  *)
(* fault handler will load.                                                *)
Contents(p, g) ==
  LET s == sections.handle[p][BlockOf(g)]
  IN  IF s = 0 THEN Data(EntryAt(entries[p], g), g)
               ELSE sections.content[s][PageIn(g)]

(* Every process finds in its memory what it mapped and wrote itself, or   *)
(* what its parent had there when it forked: demand loading, copy on write *)
(* and the sharing of a block by several entries are invisible.            *)
ContentMatches ==
  \A p \in Proc : \A g \in Mapped(entries[p]) : Contents(p, g) = mem[p][g]

(* A page that Windows lets a process write, and that is mapped writable,  *)
(* is in a section no other process can reach.                             *)
WritersOwn ==
  \A p \in Proc : \A g \in Mapped(entries[p]) :
    /\ Permits(sections, p, g, "w")
    /\ "w" \in EntryAt(entries[p], g).prot
    => HandleCount(sections, sections.handle[p][BlockOf(g)]) = 1

(* The fault handler lets an access go on that the mapping allows, and     *)
(* then Windows does too; it gives up only on a block without a section    *)
(* whose first page is not mapped.                                         *)
FaultsResolved ==
  \A p \in Proc : Running(p) =>
    \A g \in Mapped(entries[p]) : \A access \in EntryAt(entries[p], g).prot :
      \/ Permits(sections, p, g, access)
      \/ LET r == HandlePageFault(sections, p, entries[p], g, access)
         IN  IF r.ok THEN Permits(r.sections, p, g, access)
             ELSE /\ sections.handle[p][BlockOf(g)] = 0
                  /\ FirstPage(BlockOf(g)) \notin Mapped(entries[p])

(* The section table and the handles agree, and a section goes with the    *)
(* last entry in its block: copying and unmapping leak no section.  Only a *)
(* system call that was passed an unmapped address leaves one behind.      *)
HandlesExact ==
  \A p \in Proc :
    LET used == {b \in Block : sections.handle[p][b] # 0}
    IN  /\ sections.open[p] = {sections.handle[p][b] : b \in used}
        /\ \A b, c \in used : sections.handle[p][b] = sections.handle[p][c] => b = c
        /\ used \subseteq {BlockOf(g) : g \in Mapped(entries[p]) \cup WildPages}
        /\ sections.loaded[p] \subseteq used
=============================================================================
