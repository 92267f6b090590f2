------------------------------ MODULE Sections ------------------------------
(***************************************************************************)
(* The two sides of the memory of a process in syscall/mm.c.               *)
(*                                                                         *)
(* Its mappings: the map_entry tree as the set of its entries.  An entry   *)
(* maps the pages start .. end with protection prot, from a file (page off *)
(* of it at start) or anonymously.                                         *)
(*                                                                         *)
(* What Windows holds for them: memory is mapped in blocks of              *)
(* PagesPerBlock pages; a block is backed by a section object, which       *)
(* several processes may hold a handle to.  The state w of the sections is *)
(* a record:                                                               *)
(*   handle  [process][block]: mm_section_handle, 0 for none               *)
(*   open    [process]: the sections the process has a handle to           *)
(*   loaded  [process]: the blocks whose section is mapped at its address; *)
(*           a block with a section that is not mapped is detached         *)
(*   hw      [process][page]: what Windows lets the process do to the page *)
(*   content [section][page in the block]                                  *)
(***************************************************************************)
EXTENDS Integers, FiniteSets

Span(e) == e.start .. e.end
Mapped(E) == UNION {Span(e) : e \in E}
EntryAt(E, g) == CHOOSE e \in E : g \in Span(e)

(* Part, were the file offset of a second half not moved. *)
Part_SameOffset(e, a, b) == [e EXCEPT !.start = a, !.end = b]

(* split_map_entry: the part of an entry that keeps the pages a .. b. *)
Part(e, a, b) ==
  [e EXCEPT !.start = a, !.end = b,
            !.off = IF e.file THEN e.off + (a - e.start) ELSE 0]

Max2(a, b) == IF a > b THEN a ELSE b
Min2(a, b) == IF a < b THEN a ELSE b

Overlaps(e, a, b) == e.start <= b /\ a <= e.end

(* What the splits leave of the entries outside and inside a .. b. *)
Outside(E, a, b) ==
  {e \in E : ~Overlaps(e, a, b)}
    \cup {Part(e, e.start, a - 1) : e \in {x \in E : Overlaps(x, a, b) /\ x.start < a}}
    \cup {Part(e, b + 1, e.end) : e \in {x \in E : Overlaps(x, a, b) /\ x.end > b}}
Inside(E, a, b) ==
  {Part(e, Max2(a, e.start), Min2(b, e.end)) : e \in {x \in E : Overlaps(x, a, b)}}

(* munmap: only what is outside stays. *)
Cut(E, a, b) == Outside(E, a, b)

(* mprotect: what is inside gets a new protection. *)
Paint(E, a, b, prot) ==
  Outside(E, a, b) \cup {[e EXCEPT !.prot = prot] : e \in Inside(E, a, b)}

(* Gaps that does not look at where the next entry starts. *)
Gaps_Unchecked(E, n, low, high) ==
  {a \in {low} \cup {e.end + 1 : e \in E} : a >= low /\ a + n <= high}

(* find_free_pages: the gaps of n pages that begin between low and high;   *)
(* the last one has to end below high.                                     *)
Gaps(E, n, low, high) ==
  {a \in {low} \cup {e.end + 1 : e \in E} :
     /\ a >= low /\ a < high
     /\ \A e \in E : ~Overlaps(e, a, a + n - 1)
     /\ a + n <= high \/ \E e \in E : a < e.start}

FirstFit(E, n, low, high) ==
  {a \in Gaps(E, n, low, high) : \A b \in Gaps(E, n, low, high) : a <= b}

-----------------------------------------------------------------------------
CONSTANTS
  Proc,            \* processes
  PagesPerBlock,   \* BLOCK_SIZE / PAGE_SIZE
  Page,            \* the pages of the address space
  Section          \* section objects, numbered from 1

BlockOf(g) == g \div PagesPerBlock
Block == {BlockOf(g) : g \in Page}
PagesOf(b) == {g \in Page : BlockOf(g) = b}
FirstPage(b) == b * PagesPerBlock
PageIn(g) == g % PagesPerBlock

(* Pages are a range of numbers, and there are sections for every block of *)
(* every process.                                                          *)
ASSUME SectionsAssumption ==
  /\ PagesPerBlock \in Nat \ {0}
  /\ Page \subseteq Nat /\ IsFiniteSet(Page)
  /\ \A g, h \in Page : g .. h \subseteq Page
  /\ IsFiniteSet(Proc)
  /\ Section \subseteq Nat \ {0} /\ IsFiniteSet(Section)
  /\ Cardinality(Proc) * Cardinality(Block) <= Cardinality(Section)

ReadWrite == {"r", "w"}
Zeros == [i \in 0 .. PagesPerBlock - 1 |-> 0]

(* Page n of the mapped file; written pages carry the number of a process. *)
FileData(n) == 100 + n
Data(e, g) == IF e.file THEN FileData(e.off + (g - e.start)) ELSE 0

(* VirtualProtect of the pages G, which fails where nothing is mapped. *)
Protect(w, p, G, prot) ==
  [w EXCEPT !.hw[p] =
     [g \in Page |-> IF g \in G /\ BlockOf(g) \in w.loaded[p] THEN prot ELSE @[g]]]

HandleCount(w, s) == Cardinality({q \in Proc : s \in w.open[q]})
FreeSections(w) == {s \in Section : HandleCount(w, s) = 0}

(* Windows frees a section no process has open. *)
Reclaim(w) ==
  [w EXCEPT !.content = [s \in Section |-> IF s \in FreeSections(w) THEN Zeros ELSE @[s]]]

(* allocate_block: a new section of zeros, mapped with every permission. *)
AllocateBlock(w, p, b) ==
  LET s == CHOOSE s \in FreeSections(w) : \A r \in FreeSections(w) : s <= r
  IN  [w EXCEPT !.handle[p][b] = s, !.open[p] = @ \cup {s},
                !.loaded[p] = @ \cup {b}, !.content[s] = Zeros,
                !.hw[p] = [g \in Page |-> IF BlockOf(g) = b THEN ReadWrite ELSE @[g]]]

(* NtMapViewOfSection at the address of the block. *)
MapView(w, p, b) ==
  IF b \in w.loaded[p] THEN w
  ELSE [w EXCEPT !.loaded[p] = @ \cup {b},
                 !.hw[p] = [g \in Page |-> IF BlockOf(g) = b THEN ReadWrite ELSE @[g]]]

(* load_block_protection: the pages of the block that are mapped get the   *)
(* protection of their entry, as far as mask goes.                         *)
LoadProtection(w, p, E, b, mask) ==
  [w EXCEPT !.hw[p] =
     [g \in Page |-> IF BlockOf(g) = b /\ g \in Mapped(E)
                     THEN EntryAt(E, g).prot \cap mask ELSE @[g]]]

(* load_detached_block: map the section, without write permission. *)
LoadDetached(w, p, E, b) ==
  IF b \in w.loaded[p] THEN w ELSE LoadProtection(MapView(w, p, b), p, E, b, {"r"})

(* duplicate_section that does not close the handle to the old one. *)
DuplicateSection_KeepsHandle(w, p, b) ==
  LET n == AllocateBlock(w, p, b)
  IN  [n EXCEPT !.content[n.handle[p][b]] = w.content[w.handle[p][b]]]

(* duplicate_section: a new section with a copy of the content; the handle *)
(* to the old one is closed.                                               *)
DuplicateSection(w, p, b) ==
  LET old == w.handle[p][b]
      n   == AllocateBlock(w, p, b)
  IN  [n EXCEPT !.content[n.handle[p][b]] = w.content[old], !.open[p] = @ \ {old}]

(* take_block_ownership: a section held by others too is duplicated. *)
TakeOwnership(w, p, b) ==
  IF HandleCount(w, w.handle[p][b]) = 1 THEN w ELSE DuplicateSection(w, p, b)

(* map_entry_range: the data of entry e for the pages G of one block. *)
Fill(w, p, e, b, G) ==
  [w EXCEPT !.content[w.handle[p][b]] =
     [i \in DOMAIN @ |->
        IF FirstPage(b) + i \in G THEN Data(e, FirstPage(b) + i) ELSE @[i]]]

(* mmap_internal for the first or last block of the new entry e: a block   *)
(* that has a section gets the data now.                                   *)
SetUpBlock(w, p, E, e, b) ==
  IF w.handle[p][b] = 0 THEN w
  ELSE LET G == Span(e) \cap PagesOf(b)
           o == LoadDetached(TakeOwnership(w, p, b), p, E, b)
       IN  Protect(Fill(o, p, e, b, G), p, G, e.prot)

SetUpEnds(w, p, E, e) ==
  LET first == BlockOf(e.start)
      last  == BlockOf(e.end)
      f     == SetUpBlock(w, p, E, e, first)
  IN  IF last = first THEN f ELSE SetUpBlock(f, p, E, e, last)

(* free_map_entry_blocks, for all entries that a munmap of G removes from  *)
(* a process that keeps the entries E: a block no entry is left in is      *)
(* unmapped and its section closed, in other blocks the pages are made     *)
(* inaccessible.                                                           *)
CloseBlocks(w, p, B) == Reclaim(
  [w EXCEPT !.handle[p] = [b \in Block |-> IF b \in B THEN 0 ELSE @[b]],
            !.open[p] = @ \ {w.handle[p][b] : b \in B},
            !.loaded[p] = @ \ B,
            !.hw[p] = [g \in Page |-> IF BlockOf(g) \in B THEN {} ELSE @[g]]])

FreeBlocks(w, p, G, E) ==
  LET gone == {BlockOf(g) : g \in G} \ {BlockOf(g) : g \in Mapped(E)}
  IN  Protect(CloseBlocks(w, p, gone), p, G, {})

(* handle_on_demand_page_fault: the block gets a section with the data of  *)
(* every entry in it.  The handler reports success only when the first     *)
(* page of the block is mapped.                                            *)
LoadOnDemand(w, p, E, b) ==
  LET n == AllocateBlock(w, p, b)
      m == Mapped(E)
      f == [n EXCEPT !.content[n.handle[p][b]] =
              [i \in DOMAIN @ |-> IF FirstPage(b) + i \in m
                                  THEN Data(EntryAt(E, FirstPage(b) + i), FirstPage(b) + i)
                                  ELSE 0]]
  IN  LoadProtection(f, p, E, b, ReadWrite)

(* The copy on write that leaves the protection alone. *)
CopyOnWrite_NoProtection(w, p, E, b) == MapView(TakeOwnership(w, p, b), p, b)

(* handle_cow_page_fault for a page whose entry is writable. *)
CopyOnWrite(w, p, E, b) ==
  LoadProtection(MapView(TakeOwnership(w, p, b), p, b), p, E, b, ReadWrite)

(* mm_handle_page_fault: the sections after it, and whether it reports     *)
(* that the access may be tried again.                                     *)
HandlePageFault(w, p, E, g, access) ==
  LET b == BlockOf(g)
      writable == g \in Mapped(E) /\ "w" \in EntryAt(E, g).prot
  IN  CASE w.handle[p][b] = 0 ->
             [sections |-> LoadOnDemand(w, p, E, b), ok |-> FirstPage(b) \in Mapped(E)]
        [] w.handle[p][b] # 0 /\ access = "r" ->
             [sections |-> LoadDetached(w, p, E, b), ok |-> b \notin w.loaded[p]]
        [] w.handle[p][b] # 0 /\ access = "w" /\ writable ->
             [sections |-> CopyOnWrite(w, p, E, b), ok |-> TRUE]
        [] OTHER -> [sections |-> w, ok |-> FALSE]

(* What Windows lets process p do to page g. *)
Permits(w, p, g, access) == BlockOf(g) \in w.loaded[p] /\ access \in w.hw[p][g]

(* mm_fork: the child c inherits the handles and gets the table, nothing   *)
(* mapped; the writable pages of the parent lose the write permission.     *)
ForkSections(w, p, c, E) ==
  LET cow == {g \in Mapped(E) : "w" \in EntryAt(E, g).prot}
  IN  [w EXCEPT !.handle[c] = w.handle[p], !.open[c] = w.open[p],
                !.hw[p] = [g \in Page |->
                             IF g \in cow /\ BlockOf(g) \in w.loaded[p]
                             THEN EntryAt(E, g).prot \ {"w"} ELSE @[g]]]

(* The process ends: Windows closes its handles and views. *)
DropSections(w, p) == CloseBlocks(w, p, Block)

NoSections ==
  [handle  |-> [p \in Proc |-> [b \in Block |-> 0]],
   open    |-> [p \in Proc |-> {}],
   loaded  |-> [p \in Proc |-> {}],
   hw      |-> [p \in Proc |-> [g \in Page |-> {}]],
   content |-> [s \in Section |-> Zeros]]
=============================================================================
