---------------------------- MODULE MemoryProofs ----------------------------
(***************************************************************************)
(* The memory of a family of processes, for every number of processes,     *)
(* pages, sections and calls and every argument: entries stay disjoint,    *)
(* the section table and the handles agree, and, if sections left behind   *)
(* for unmapped addresses are at the ends of the address space, programs   *)
(* find what they wrote, nobody writes a section of another's, and legal   *)
(* faults are resolved.                                                    *)
(*                                                                         *)
(* The first part says what the operators of Sections do, stated once:     *)
(* splits keep the entries of a process a partition and the rest of them   *)
(* what they were; allocating, copying, loading, protecting, filling,      *)
(* closing and inheriting sections keep the table of every process and its *)
(* handles in agreement, leave the other processes alone, and change what  *)
(* a page shows only where they say so.                                    *)
(*                                                                         *)
(* The second part is about Memory.  The inductive invariant Inv says of   *)
(* the sections that they are Sound, and of every process (MapInv) that    *)
(* its entries are a partition, that only their blocks have sections, and  *)
(* that every mapped page Agrees.                                          *)
(***************************************************************************)
EXTENDS Memory, FiniteSetTheorems, WellFoundedInduction, TLAPS

-----------------------------------------------------------------------------
(* The operators of Sections. *)

(* A set of entries that is a partition. *)
Partition(E) == E \subseteq Entry /\ DisjointEntries(E)

(* A non-empty set of numbers has a least one.                             *)
LEMMA LeastNat ==
  ASSUME NEW K \in SUBSET Nat, K # {}
  PROVE  \E k \in K : \A j \in K : k <= j
<1> DEFINE R == {ij \in Nat \X Nat : ij[1] < ij[2]}
<1>1. IsWellFoundedOn(R, Nat)
  BY NatLessThanWellFounded DEF OpToRel
<1>2. \A j, k \in Nat : <<j, k>> \notin R => k <= j
  OBVIOUS
<1> HIDE DEF R
<1>3. PICK k \in K : \A j \in K : <<j, k>> \notin R
  BY <1>1, WFMin
<1> QED BY <1>2, <1>3

-----------------------------------------------------------------------------
(* Pages and their blocks.                                                 *)
LEMMA BlockFacts ==
  /\ \A b \in Block : b \in Nat
  /\ IsFiniteSet(Block) /\ IsFiniteSet(Proc) /\ IsFiniteSet(Section)
  /\ \A g \in Page : /\ g \in Nat /\ BlockOf(g) \in Block
                     /\ PageIn(g) \in 0 .. PagesPerBlock - 1
                     /\ FirstPage(BlockOf(g)) + PageIn(g) = g
  /\ \A g, h \in Page : g <= h => BlockOf(g) <= BlockOf(h)
<1>1. PagesPerBlock \in Nat \ {0} /\ Page \subseteq Nat
  BY SectionsAssumption
<1>2. ASSUME NEW g \in Nat
      PROVE  /\ BlockOf(g) \in Nat /\ PageIn(g) \in 0 .. PagesPerBlock - 1
             /\ FirstPage(BlockOf(g)) + PageIn(g) = g
             /\ \A h \in Nat : g <= h => BlockOf(g) <= BlockOf(h)
  BY <1>1 DEF BlockOf, PageIn, FirstPage
<1>3. IsFiniteSet(Block)
  <2> DEFINE f == [g \in Page |-> BlockOf(g)]
  <2>1. f \in Surjection(Page, Block)
    BY DEF Surjection, Block
  <2> QED BY <2>1, FS_Surjection, SectionsAssumption
<1> QED BY <1>1, <1>2, <1>3, SectionsAssumption DEF Block

(* Two pages of a block are the same if they are at the same place in it.  *)
LEMMA SamePage ==
  ASSUME NEW g \in Page, NEW h \in Page, BlockOf(g) = BlockOf(h), PageIn(g) = PageIn(h)
  PROVE  g = h
  BY BlockFacts

-----------------------------------------------------------------------------
(* The sections of a family of processes: their types, and what the table  *)
(* of a process and its handles have to do with each other.                *)
SectionsType ==
  [handle  : [Proc -> [Block -> Section \cup {0}]],
   open    : [Proc -> SUBSET Section],
   loaded  : [Proc -> SUBSET Block],
   hw      : [Proc -> [Page -> SUBSET ReadWrite]],
   content : [Section -> [0 .. PagesPerBlock - 1 -> Nat]]]

UsedBlocks(w, p) == {b \in Block : w.handle[p][b] # 0}
Handles(w, p) ==
  /\ w.open[p] = {w.handle[p][b] : b \in UsedBlocks(w, p)}
  /\ \A b, c \in UsedBlocks(w, p) : w.handle[p][b] = w.handle[p][c] => b = c
  /\ w.loaded[p] \subseteq UsedBlocks(w, p)
Sound(w) == w \in SectionsType /\ \A p \in Proc : Handles(w, p)

(* Only process p has section s open.                                      *)
Sole(w, p, s) == \A q \in Proc : s \in w.open[q] <=> q = p

(* The fields of the sections, each with its type.                         *)
LEMMA SectionsFields ==
  ASSUME NEW w \in SectionsType
  PROVE  /\ w.handle \in [Proc -> [Block -> Section \cup {0}]]
         /\ w.open \in [Proc -> SUBSET Section]
         /\ w.loaded \in [Proc -> SUBSET Block]
         /\ w.hw \in [Proc -> [Page -> SUBSET ReadWrite]]
         /\ w.content \in [Section -> [0 .. PagesPerBlock - 1 -> Nat]]
         /\ 0 \notin Section
  BY SectionsAssumption DEF SectionsType

(* The count of handles tells whether a section is free, or one process's. *)
LEMMA CountsHandles ==
  ASSUME NEW w \in SectionsType, NEW s \in Section
  PROVE  /\ HandleCount(w, s) = 0 <=> \A q \in Proc : s \notin w.open[q]
         /\ \A p \in Proc : s \in w.open[p] => (HandleCount(w, s) = 1 <=> Sole(w, p, s))
<1> DEFINE Q == {q \in Proc : s \in w.open[q]}
<1>1. IsFiniteSet(Q)
  BY BlockFacts, FS_Subset
<1>2. Cardinality(Q) = 0 <=> Q = {}
  BY <1>1, FS_EmptySet
<1>3. Cardinality(Q) = 1 <=> \E q : Q = {q}
  BY <1>1, FS_Singleton
<1>4. HandleCount(w, s) = Cardinality(Q)
  BY DEF HandleCount
<1>5. Q = {} <=> \A q \in Proc : s \notin w.open[q]
  OBVIOUS
<1>6. ASSUME NEW p \in Proc, s \in w.open[p]
      PROVE  (\E q : Q = {q}) <=> Sole(w, p, s)
  <2>1. \A q : q \in Q <=> q \in Proc /\ s \in w.open[q]
    OBVIOUS
  <2> HIDE DEF Q
  <2>2. ASSUME NEW q, Q = {q} PROVE Sole(w, p, s)
    BY <1>6, <2>1, <2>2 DEF Sole
  <2>3. ASSUME Sole(w, p, s) PROVE Q = {p}
    BY <2>1, <2>3 DEF Sole
  <2> QED BY <2>2, <2>3
<1> HIDE DEF Q
<1> QED BY <1>2, <1>3, <1>4, <1>5, <1>6

(* There is a section for a block that has none of its own.                *)
LEMMA FreshSection ==
  ASSUME NEW w, Sound(w), NEW p \in Proc, NEW b \in Block,
         w.handle[p][b] # 0 => ~Sole(w, p, w.handle[p][b])
  PROVE  FreeSections(w) # {}
<1> DEFINE S == (Proc \X Block) \ {<<p, b>>}
           f(x) == w.handle[x[1]][x[2]]
           T == {f(x) : x \in S}
<1>1. /\ IsFiniteSet(Proc \X Block)
      /\ Cardinality(Proc \X Block) = Cardinality(Proc) * Cardinality(Block)
  BY BlockFacts, FS_Product
<1>2. IsFiniteSet(S) /\ Cardinality(S) = Cardinality(Proc \X Block) - 1
  BY <1>1, FS_RemoveElement
<1>3. IsFiniteSet(T) /\ Cardinality(T) <= Cardinality(S)
  <2> DEFINE F == [x \in S |-> f(x)]
  <2>1. F \in Surjection(S, T)
    <3> HIDE DEF S
    <3> QED BY DEF Surjection
  <2> HIDE DEF S, T, F
  <2> QED BY <1>2, <2>1, FS_Surjection
<1>4. ASSUME NEW q \in Proc, NEW s \in w.open[q]
      PROVE  s \in T
  <2>1. PICK c \in Block : s = w.handle[q][c] /\ s # 0
    BY DEF Sound, Handles, UsedBlocks
  <2>2. CASE <<q, c>> # <<p, b>>
    <3>1. <<q, c>> \in S /\ f(<<q, c>>) = s
      BY <2>1, <2>2
    <3> QED BY <3>1
  <2>3. CASE <<q, c>> = <<p, b>>
    <3>1. w.handle[p][b] = s /\ s # 0 /\ s \in w.open[p]
      BY <2>1, <2>3
    <3>2. PICK r \in Proc : r # p /\ s \in w.open[r]
      BY <3>1 DEF Sole
    <3>3. PICK d \in Block : s = w.handle[r][d]
      BY <3>2 DEF Sound, Handles, UsedBlocks
    <3>4. <<r, d>> \in S /\ f(<<r, d>>) = s
      BY <3>2, <3>3
    <3> QED BY <3>4
  <2> QED BY <2>2, <2>3
<1>5. ~(Section \subseteq T)
  <2>1. ASSUME Section \subseteq T PROVE FALSE
    <3>1. Cardinality(Section) <= Cardinality(T)
      BY <1>3, <2>1, FS_Subset
    <3>2. /\ Cardinality(Section) \in Nat /\ Cardinality(T) \in Nat /\ Cardinality(S) \in Nat
          /\ Cardinality(Proc \X Block) \in Nat
      BY <1>1, <1>2, <1>3, BlockFacts, FS_CardinalityType
    <3>3. Cardinality(Proc \X Block) <= Cardinality(Section)
      BY <1>1, SectionsAssumption
    <3> QED BY <1>2, <1>3, <3>1, <3>2, <3>3
  <2> QED BY <2>1
<1>6. PICK s \in Section : s \notin T
  BY <1>5
<1>7. \A q \in Proc : s \notin w.open[q]
  BY <1>4, <1>6
<1> QED BY <1>6, <1>7, CountsHandles DEF FreeSections, Sound

NewSection(w) == CHOOSE s \in FreeSections(w) : \A r \in FreeSections(w) : s <= r

(* A free section is one no process has open.                              *)
LEMMA NewIsFree ==
  ASSUME NEW w \in SectionsType, FreeSections(w) # {}
  PROVE  NewSection(w) \in Section /\ \A q \in Proc : NewSection(w) \notin w.open[q]
<1>1. FreeSections(w) \subseteq Nat
  BY SectionsAssumption DEF FreeSections
<1>2. \E k \in FreeSections(w) : \A j \in FreeSections(w) : k <= j
  BY <1>1, LeastNat
<1>3. NewSection(w) \in FreeSections(w)
  BY <1>2 DEF NewSection
<1> QED BY <1>3, CountsHandles DEF FreeSections

-----------------------------------------------------------------------------
(* What allocate_block does, field by field.                               *)
Allocated(w, v, p, b, s) ==
  /\ v.handle = [w.handle EXCEPT ![p] = [@ EXCEPT ![b] = s]]
  /\ v.open = [w.open EXCEPT ![p] = @ \cup {s}]
  /\ v.loaded = [w.loaded EXCEPT ![p] = @ \cup {b}]
  /\ v.content = [w.content EXCEPT ![s] = Zeros]
  /\ v.hw = [w.hw EXCEPT ![p] = [g \in Page |-> IF BlockOf(g) = b THEN ReadWrite ELSE @[g]]]

(* allocate_block takes a free section, keeps the types and sets these     *)
(* fields.                                                                 *)
LEMMA AllocateFields ==
  ASSUME NEW w \in SectionsType, NEW p \in Proc, NEW b \in Block, FreeSections(w) # {},
         NEW s, s = NewSection(w), NEW v, v = AllocateBlock(w, p, b)
  PROVE  /\ v \in SectionsType /\ s \in Section /\ \A q \in Proc : s \notin w.open[q]
         /\ Allocated(w, v, p, b, s)
<1>1. s \in Section /\ \A q \in Proc : s \notin w.open[q]
  BY NewIsFree
<1>2. v = [w EXCEPT !.handle[p][b] = s, !.open[p] = @ \cup {s},
                    !.loaded[p] = @ \cup {b}, !.content[s] = Zeros,
                    !.hw[p] = [g \in Page |-> IF BlockOf(g) = b THEN ReadWrite ELSE @[g]]]
  BY DEF AllocateBlock, NewSection
<1>3. Zeros \in [0 .. PagesPerBlock - 1 -> Nat]
  BY DEF Zeros
<1>4. /\ v.handle = [w.handle EXCEPT ![p] = [@ EXCEPT ![b] = s]]
      /\ v.open = [w.open EXCEPT ![p] = @ \cup {s}]
      /\ v.loaded = [w.loaded EXCEPT ![p] = @ \cup {b}]
      /\ v.content = [w.content EXCEPT ![s] = Zeros]
      /\ v.hw = [w.hw EXCEPT ![p] = [g \in Page |-> IF BlockOf(g) = b THEN ReadWrite ELSE @[g]]]
  BY <1>2 DEF SectionsType
<1>5. v \in SectionsType
  <2>1. v = [handle |-> v.handle, open |-> v.open, loaded |-> v.loaded, hw |-> v.hw,
             content |-> v.content]
    BY <1>2 DEF SectionsType
  <2>2. v.handle \in [Proc -> [Block -> Section \cup {0}]]
    BY <1>1, <1>4, SectionsFields
  <2>3. v.open \in [Proc -> SUBSET Section]
    BY <1>1, <1>4, SectionsFields
  <2>4. v.loaded \in [Proc -> SUBSET Block]
    BY <1>1, <1>4, SectionsFields
  <2>5. v.hw \in [Proc -> [Page -> SUBSET ReadWrite]]
    <3>1. ReadWrite \in SUBSET ReadWrite
      OBVIOUS
    <3>2. w.hw[p] \in [Page -> SUBSET ReadWrite]
      BY SectionsFields
    <3>3. [g \in Page |-> IF BlockOf(g) = b THEN ReadWrite ELSE w.hw[p][g]] \in [Page -> SUBSET ReadWrite]
      BY <3>1, <3>2
    <3> QED BY <3>3, <1>4, SectionsFields
  <2>6. v.content \in [Section -> [0 .. PagesPerBlock - 1 -> Nat]]
    BY <1>1, <1>3, <1>4, SectionsFields
  <2> QED BY <2>1, <2>2, <2>3, <2>4, <2>5, <2>6 DEF SectionsType
<1> QED BY <1>1, <1>4, <1>5 DEF Allocated

-----------------------------------------------------------------------------
(* What the sections have to do with an entry: page g of process p, which  *)
(* has an entry in E, shows m, the section or what will be loaded; if its  *)
(* block is mapped Windows lets the process read it if the entry does, and *)
(* write it, if the entry does, only in a section of its own.              *)
Agrees(w, p, E, g, m) ==
  LET s == w.handle[p][BlockOf(g)]
      e == EntryAt(E, g)
  IN  /\ m = IF s = 0 THEN Data(e, g) ELSE w.content[s][PageIn(g)]
      /\ BlockOf(g) \in w.loaded[p] =>
           /\ "r" \in e.prot => "r" \in w.hw[p][g]
           /\ "w" \in e.prot /\ "w" \in w.hw[p][g] => Sole(w, p, s)

(* A step of process p from w to v that leaves the others alone, and one   *)
(* that keeps what its own pages show.                                     *)
Others(w, v, p) ==
  \A q \in Proc : q # p =>
    /\ v.handle[q] = w.handle[q] /\ v.open[q] = w.open[q]
    /\ v.loaded[q] = w.loaded[q] /\ v.hw[q] = w.hw[q]
    /\ \A s \in w.open[q] : /\ v.content[s] = w.content[s]
                            /\ s \notin w.open[p] => s \notin v.open[p]
Keeps(w, v, p, E) ==
  \A g \in Page \cap Mapped(E) : \A m : Agrees(w, p, E, g, m) => Agrees(v, p, E, g, m)

(* A step of p that leaves the others alone keeps what they see and have.  *)
LEMMA OthersKeep ==
  ASSUME NEW w, NEW v, Sound(w), NEW p \in Proc, Others(w, v, p), NEW q \in Proc, q # p, NEW E
  PROVE  Handles(v, q) /\ Keeps(w, v, q, E)
<1>1. Handles(v, q)
  BY DEF Sound, Others, Handles, UsedBlocks
<1>2. \A s \in w.open[q] : v.content[s] = w.content[s] /\ (Sole(w, q, s) => Sole(v, q, s))
  BY DEF Others, Sole
<1>3. ASSUME NEW g \in Page, w.handle[q][BlockOf(g)] # 0
      PROVE  w.handle[q][BlockOf(g)] \in w.open[q]
  BY <1>3, BlockFacts DEF Sound, Handles, UsedBlocks
<1>4. ASSUME NEW g \in Page, BlockOf(g) \in w.loaded[q]
      PROVE  w.handle[q][BlockOf(g)] # 0
  BY <1>4 DEF Sound, Handles, UsedBlocks
<1>5. v.handle[q] = w.handle[q] /\ v.loaded[q] = w.loaded[q] /\ v.hw[q] = w.hw[q]
  BY DEF Others
<1>6. ASSUME NEW g \in Page, NEW m, Agrees(w, q, E, g, m)
      PROVE  Agrees(v, q, E, g, m)
  BY <1>2, <1>3, <1>4, <1>5, <1>6 DEF Agrees
<1> QED BY <1>1, <1>6 DEF Keeps

(* Two steps that leave the others alone do so together.                   *)
LEMMA OthersCompose ==
  ASSUME NEW w, NEW v, NEW u, NEW p \in Proc, Others(w, v, p), Others(v, u, p)
  PROVE  Others(w, u, p)
  BY DEF Others

(* Two steps that keep what the own pages show do so together.             *)
LEMMA KeepsCompose ==
  ASSUME NEW w, NEW v, NEW u, NEW p \in Proc, NEW E, Keeps(w, v, p, E), Keeps(v, u, p, E)
  PROVE  Keeps(w, u, p, E)
  BY DEF Keeps

(* duplicate_section gives the block a section of its own with the same    *)
(* content.                                                                *)
LEMMA DuplicateStep ==
  ASSUME NEW w, Sound(w), NEW p \in Proc, NEW b \in UsedBlocks(w, p),
         ~Sole(w, p, w.handle[p][b]), NEW v, v = DuplicateSection(w, p, b), NEW E
  PROVE  /\ Sound(v) /\ Others(w, v, p) /\ Keeps(w, v, p, E)
         /\ UsedBlocks(v, p) = UsedBlocks(w, p) /\ Sole(v, p, v.handle[p][b])
<1> DEFINE s == NewSection(w)
           n == AllocateBlock(w, p, b)
           old == w.handle[p][b]
<1>1. w \in SectionsType /\ Handles(w, p) /\ b \in Block /\ old # 0
  BY DEF Sound, UsedBlocks
<1>23. w \in SectionsType
  BY <1>1
<1>2. FreeSections(w) # {}
  BY <1>1, FreshSection
<1>4. v = [n EXCEPT !.content[n.handle[p][b]] = w.content[old], !.open[p] = @ \ {old}]
  BY DEF DuplicateSection
<1>21. s = NewSection(w)
  OBVIOUS
<1>22. n = AllocateBlock(w, p, b)
  OBVIOUS
<1> HIDE DEF s, n
<1>25. b \in Block
  BY <1>1
<1>24. /\ n \in SectionsType /\ s \in Section /\ (\A q \in Proc : s \notin w.open[q])
       /\ Allocated(w, n, p, b, s)
  BY <1>2, <1>23, <1>25, <1>21, <1>22, AllocateFields
<1>3. /\ n \in SectionsType /\ s \in Section /\ \A q \in Proc : s \notin w.open[q]
      /\ n.handle = [w.handle EXCEPT ![p] = [@ EXCEPT ![b] = s]]
      /\ n.open = [w.open EXCEPT ![p] = @ \cup {s}]
      /\ n.loaded = [w.loaded EXCEPT ![p] = @ \cup {b}]
      /\ n.content = [w.content EXCEPT ![s] = Zeros]
      /\ n.hw = [w.hw EXCEPT ![p] = [g \in Page |-> IF BlockOf(g) = b THEN ReadWrite ELSE @[g]]]
  BY <1>24 DEF Allocated
<1>5. n.handle[p][b] = s
  BY <1>1, <1>3, SectionsFields
<1>6. /\ v.handle = n.handle /\ v.loaded = n.loaded /\ v.hw = n.hw
      /\ v.content = [n.content EXCEPT ![s] = w.content[old]]
      /\ v.open = [n.open EXCEPT ![p] = @ \ {old}]
      /\ v = [handle |-> v.handle, open |-> v.open, loaded |-> v.loaded, hw |-> v.hw,
             content |-> v.content]
  BY <1>3, <1>4, <1>5 DEF SectionsType
<1>7. old \in w.open[p] /\ old \in Section /\ old # s
  BY <1>1, <1>3, SectionsFields DEF Handles
<1>8. v \in SectionsType
  <2>1. v.content \in [Section -> [0 .. PagesPerBlock - 1 -> Nat]]
    <3>1. n.content \in [Section -> [0 .. PagesPerBlock - 1 -> Nat]]
      BY <1>3, SectionsFields
    <3>2. w.content \in [Section -> [0 .. PagesPerBlock - 1 -> Nat]]
      BY <1>1, SectionsFields
    <3>3. w.content[old] \in [0 .. PagesPerBlock - 1 -> Nat]
      BY <1>7, <3>2
    <3> QED BY <1>6, <3>1, <3>3
  <2>2. v.open \in [Proc -> SUBSET Section]
    BY <1>3, <1>6, SectionsFields
  <2>3. /\ v.handle \in [Proc -> [Block -> Section \cup {0}]]
        /\ v.loaded \in [Proc -> SUBSET Block]
        /\ v.hw \in [Proc -> [Page -> SUBSET ReadWrite]]
    BY <1>3, <1>6, SectionsFields
  <2> QED BY <1>6, <2>1, <2>2, <2>3 DEF SectionsType
<1>9. /\ \A q \in Proc : q # p => /\ v.handle[q] = w.handle[q] /\ v.open[q] = w.open[q]
                                  /\ v.loaded[q] = w.loaded[q] /\ v.hw[q] = w.hw[q]
      /\ \A c \in Block : v.handle[p][c] = IF c = b THEN s ELSE w.handle[p][c]
      /\ v.open[p] = (w.open[p] \cup {s}) \ {old}
      /\ v.loaded[p] = w.loaded[p] \cup {b}
      /\ \A r \in Section : v.content[r] = IF r = s THEN w.content[old] ELSE w.content[r]
      /\ \A g \in Page : v.hw[p][g] = IF BlockOf(g) = b THEN ReadWrite ELSE w.hw[p][g]
  <2>1. /\ w.handle \in [Proc -> [Block -> Section \cup {0}]]
        /\ w.open \in [Proc -> SUBSET Section] /\ w.loaded \in [Proc -> SUBSET Block]
        /\ w.hw \in [Proc -> [Page -> SUBSET ReadWrite]]
        /\ w.content \in [Section -> [0 .. PagesPerBlock - 1 -> Nat]]
    BY <1>1, SectionsFields
  <2>2. \A q \in Proc : q # p => v.handle[q] = w.handle[q]
    BY <1>3, <1>6, <2>1
  <2>3. \A q \in Proc : q # p => v.open[q] = w.open[q]
    BY <1>3, <1>6, <2>1
  <2>4. \A q \in Proc : q # p => v.loaded[q] = w.loaded[q] /\ v.hw[q] = w.hw[q]
    BY <1>3, <1>6, <2>1
  <2>5. \A c \in Block : v.handle[p][c] = IF c = b THEN s ELSE w.handle[p][c]
    BY <1>3, <1>6, <2>1
  <2>6. v.open[p] = (w.open[p] \cup {s}) \ {old}
    BY <1>3, <1>6, <2>1
  <2>7. v.loaded[p] = w.loaded[p] \cup {b}
    BY <1>3, <1>6, <2>1
  <2>8. \A r \in Section : v.content[r] = IF r = s THEN w.content[old] ELSE w.content[r]
    BY <1>3, <1>6, <2>1
  <2>9. \A g \in Page : v.hw[p][g] = IF BlockOf(g) = b THEN ReadWrite ELSE w.hw[p][g]
    BY <1>3, <1>6, <2>1
  <2> QED BY <2>2, <2>3, <2>4, <2>5, <2>6, <2>7, <2>8, <2>9
<1>10. UsedBlocks(v, p) = UsedBlocks(w, p)
  BY <1>1, <1>3, <1>9, SectionsFields DEF UsedBlocks
<1>11. Handles(v, p)
  <2>1. v.open[p] = {v.handle[p][c] : c \in UsedBlocks(v, p)}
    <3>1. \A c \in UsedBlocks(w, p) : w.handle[p][c] \in w.open[p] /\ (w.handle[p][c] = old => c = b)
      BY <1>1 DEF Handles
    <3>2. \A c \in UsedBlocks(v, p) : v.handle[p][c] \in v.open[p]
      BY <1>3, <1>7, <1>9, <1>10, <3>1 DEF UsedBlocks
    <3>3. ASSUME NEW r \in v.open[p] PROVE \E c \in UsedBlocks(v, p) : v.handle[p][c] = r
      <4>1. CASE r = s
        BY <4>1, <1>9, <1>10 DEF UsedBlocks
      <4>2. CASE r # s
        <5>1. PICK c \in UsedBlocks(w, p) : w.handle[p][c] = r /\ r # old
          BY <1>1, <1>9, <4>2 DEF Handles
        <5> QED BY <5>1, <1>9, <1>10 DEF UsedBlocks
      <4> QED BY <4>1, <4>2
    <3> QED BY <3>2, <3>3
  <2>2. ASSUME NEW c \in UsedBlocks(v, p), NEW d \in UsedBlocks(v, p), v.handle[p][c] = v.handle[p][d]
        PROVE  c = d
    <3>1. c \in UsedBlocks(w, p) /\ d \in UsedBlocks(w, p) /\ c \in Block /\ d \in Block
      BY <1>10 DEF UsedBlocks
    <3>2. w.handle[p][c] # s /\ w.handle[p][d] # s
      BY <1>1, <1>3, <3>1 DEF Handles
    <3> QED BY <2>2, <3>1, <3>2, <1>1, <1>9 DEF Handles
  <2>3. v.loaded[p] \subseteq UsedBlocks(v, p)
    BY <1>1, <1>9, <1>10 DEF Handles
  <2> QED BY <2>1, <2>2, <2>3 DEF Handles
<1>12. Others(w, v, p)
  <2>1. \A q \in Proc : w.open[q] \subseteq Section
    BY <1>1, SectionsFields
  <2> QED BY <1>3, <1>9, <2>1 DEF Others
<1>13. Sound(v)
  BY <1>8, <1>11, <1>12, OthersKeep DEF Sound
<1>14. Sole(v, p, s)
  BY <1>3, <1>7, <1>9 DEF Sole
<1>15. ASSUME NEW g \in Page, NEW m, Agrees(w, p, E, g, m)
       PROVE  Agrees(v, p, E, g, m)
  <2>1. BlockOf(g) \in Block
    BY BlockFacts
  <2>2. CASE BlockOf(g) = b
    <3>1. m = v.content[v.handle[p][BlockOf(g)]][PageIn(g)] /\ v.handle[p][BlockOf(g)] # 0
      BY <1>1, <1>3, <1>9, <1>15, <2>2, SectionsFields DEF Agrees
    <3>2. "r" \in v.hw[p][g]
      BY <1>9, <2>2 DEF ReadWrite
    <3>3. Sole(v, p, v.handle[p][BlockOf(g)])
      BY <1>9, <1>14, <2>1, <2>2
    <3> QED BY <3>1, <3>2, <3>3 DEF Agrees
  <2>3. CASE BlockOf(g) # b
    <3>1. v.handle[p][BlockOf(g)] = w.handle[p][BlockOf(g)] /\ v.hw[p][g] = w.hw[p][g]
          /\ (BlockOf(g) \in v.loaded[p] <=> BlockOf(g) \in w.loaded[p])
      BY <1>9, <2>1, <2>3
    <3>2. ASSUME w.handle[p][BlockOf(g)] # 0
          PROVE  LET r == w.handle[p][BlockOf(g)]
                 IN  r \in w.open[p] /\ r \in Section /\ r # s /\ r # old
      BY <1>1, <1>3, <2>1, <2>3, <3>2, SectionsFields DEF Handles, UsedBlocks
    <3>3. ASSUME w.handle[p][BlockOf(g)] # 0, Sole(w, p, w.handle[p][BlockOf(g)])
          PROVE  Sole(v, p, w.handle[p][BlockOf(g)])
      BY <3>2, <3>3, <1>9 DEF Sole
    <3>4. BlockOf(g) \in w.loaded[p] => w.handle[p][BlockOf(g)] # 0
      BY <1>1 DEF Handles, UsedBlocks
    <3>5. w.handle[p][BlockOf(g)] # 0 => v.content[w.handle[p][BlockOf(g)]] = w.content[w.handle[p][BlockOf(g)]]
      BY <3>2, <1>9
    <3> QED BY <3>1, <3>3, <3>4, <3>5, <1>15 DEF Agrees
  <2> QED BY <2>2, <2>3
<1> QED BY <1>9, <1>10, <1>1, <1>12, <1>13, <1>14, <1>15 DEF Keeps

(* take_block_ownership.                                                   *)
LEMMA TakeStep ==
  ASSUME NEW w, Sound(w), NEW p \in Proc, NEW b \in UsedBlocks(w, p),
         NEW v, v = TakeOwnership(w, p, b), NEW E
  PROVE  /\ Sound(v) /\ Others(w, v, p) /\ Keeps(w, v, p, E)
         /\ UsedBlocks(v, p) = UsedBlocks(w, p) /\ Sole(v, p, v.handle[p][b])
<1>1. /\ w \in SectionsType /\ w.handle[p][b] \in w.open[p] /\ w.handle[p][b] \in Section
  <2>1. w \in SectionsType /\ Handles(w, p) /\ b \in Block /\ w.handle[p][b] # 0
    BY DEF Sound, UsedBlocks
  <2> QED BY <2>1, SectionsFields DEF Handles
<1>2. HandleCount(w, w.handle[p][b]) = 1 <=> Sole(w, p, w.handle[p][b])
  BY <1>1, CountsHandles
<1>3. CASE Sole(w, p, w.handle[p][b])
  BY <1>2, <1>3 DEF TakeOwnership, Others, Keeps
<1>4. CASE ~Sole(w, p, w.handle[p][b])
  BY <1>2, <1>4, DuplicateStep DEF TakeOwnership
<1> QED BY <1>3, <1>4

(* Views mapped and protections changed, and nothing else.                 *)
Views(w, p, L, X) == [w EXCEPT !.loaded[p] = L, !.hw[p] = X]

(* Changing views and protections of blocks in use keeps the table sound.  *)
LEMMA ViewFields ==
  ASSUME NEW w, Sound(w), NEW p \in Proc, NEW X \in [Page -> SUBSET ReadWrite],
         NEW L \in SUBSET UsedBlocks(w, p),
         NEW v, v = Views(w, p, L, X)
  PROVE  /\ Sound(v) /\ Others(w, v, p) /\ UsedBlocks(v, p) = UsedBlocks(w, p)
         /\ v.handle = w.handle /\ v.open = w.open /\ v.content = w.content
         /\ v.loaded[p] = L /\ v.hw[p] = X
<1>1. w \in SectionsType
  BY DEF Sound
<1>2. /\ v.handle = w.handle /\ v.open = w.open /\ v.content = w.content
      /\ v.loaded = [w.loaded EXCEPT ![p] = L]
      /\ v.hw = [w.hw EXCEPT ![p] = X]
      /\ v = [handle |-> v.handle, open |-> v.open, loaded |-> v.loaded, hw |-> v.hw,
             content |-> v.content]
  BY <1>1 DEF SectionsType, Views
<1>3. v \in SectionsType
  <2>1. /\ v.loaded \in [Proc -> SUBSET Block] /\ v.hw \in [Proc -> [Page -> SUBSET ReadWrite]]
        /\ v.handle \in [Proc -> [Block -> Section \cup {0}]]
        /\ v.open \in [Proc -> SUBSET Section]
        /\ v.content \in [Section -> [0 .. PagesPerBlock - 1 -> Nat]]
    BY <1>1, <1>2, SectionsFields DEF UsedBlocks
  <2> QED BY <1>2, <2>1 DEF SectionsType
<1>4. v.loaded[p] = L /\ v.hw[p] = X
  BY <1>1, <1>2, SectionsFields
<1>5. \A q \in Proc : q # p => v.loaded[q] = w.loaded[q] /\ v.hw[q] = w.hw[q]
  BY <1>1, <1>2, SectionsFields
<1>6. Others(w, v, p)
  BY <1>2, <1>5 DEF Others
<1>7. UsedBlocks(v, p) = UsedBlocks(w, p)
  BY <1>2 DEF UsedBlocks
<1>8. Handles(v, p)
  BY <1>2, <1>4, <1>7 DEF Handles, Sound
<1>9. Sound(v)
  BY <1>3, <1>6, <1>8, OthersKeep DEF Sound
<1> QED BY <1>2, <1>4, <1>6, <1>7, <1>9

(* The entry of a mapped page.                                             *)
LEMMA EntryAtFacts ==
  ASSUME NEW E \in SUBSET Entry, NEW g \in Mapped(E)
  PROVE  /\ EntryAt(E, g) \in E /\ g \in Span(EntryAt(E, g))
         /\ EntryAt(E, g).prot \in SUBSET ReadWrite
         /\ Data(EntryAt(E, g), g) \in Nat
<1>1. EntryAt(E, g) \in E /\ g \in Span(EntryAt(E, g))
  BY DEF EntryAt, Mapped
<1>2. ASSUME NEW e \in Entry, g \in Span(e)
      PROVE  e.prot \in SUBSET ReadWrite /\ Data(e, g) \in Nat
  BY <1>2 DEF Entry, Span, Data, FileData
<1> QED BY <1>1, <1>2

(* A view mapped with the protections of the entries, as far as mask goes. *)
LEMMA LoadStep ==
  ASSUME NEW w, Sound(w), NEW p \in Proc, NEW b \in UsedBlocks(w, p),
         NEW E \in SUBSET Entry, NEW mask \in SUBSET ReadWrite, "r" \in mask,
         "w" \in mask => Sole(w, p, w.handle[p][b]),
         NEW v, v = LoadProtection(MapView(w, p, b), p, E, b, mask)
  PROVE  /\ Sound(v) /\ Others(w, v, p) /\ Keeps(w, v, p, E)
         /\ UsedBlocks(v, p) = UsedBlocks(w, p)
         /\ v.handle = w.handle /\ v.open = w.open /\ v.content = w.content
         /\ v.loaded[p] = w.loaded[p] \cup {b}
         /\ \A g \in Page \cap Mapped(E) : BlockOf(g) = b => v.hw[p][g] = EntryAt(E, g).prot \cap mask
<1> DEFINE u == MapView(w, p, b)
           X == [g \in Page |-> IF BlockOf(g) = b THEN ReadWrite ELSE w.hw[p][g]]
           Y == [g \in Page |-> IF BlockOf(g) = b /\ g \in Mapped(E)
                                THEN EntryAt(E, g).prot \cap mask ELSE u.hw[p][g]]
<1>1. w \in SectionsType /\ w.hw[p] \in [Page -> SUBSET ReadWrite] /\ Handles(w, p)
      /\ w.loaded[p] \subseteq UsedBlocks(w, p)
  BY SectionsFields DEF Sound, Handles
<1>2. X \in [Page -> SUBSET ReadWrite]
  BY <1>1
<1>3. /\ Sound(u) /\ Others(w, u, p) /\ UsedBlocks(u, p) = UsedBlocks(w, p)
      /\ u.handle = w.handle /\ u.open = w.open /\ u.content = w.content
      /\ u.loaded[p] = w.loaded[p] \cup {b}
      /\ \A g \in Page : BlockOf(g) # b => u.hw[p][g] = w.hw[p][g]
  <2>1. CASE b \in w.loaded[p]
    BY <2>1 DEF MapView, Others
  <2>2. CASE b \notin w.loaded[p]
    <3> DEFINE L == w.loaded[p] \cup {b}
    <3>1. u = Views(w, p, L, X)
      BY <2>2 DEF MapView, Views
    <3>2. L \in SUBSET UsedBlocks(w, p)
      BY <1>1
    <3>3. \A g \in Page : BlockOf(g) # b => X[g] = w.hw[p][g]
      OBVIOUS
    <3> HIDE DEF u, X, L
    <3>4. /\ Sound(u) /\ Others(w, u, p) /\ UsedBlocks(u, p) = UsedBlocks(w, p)
          /\ u.handle = w.handle /\ u.open = w.open /\ u.content = w.content
          /\ u.loaded[p] = L /\ u.hw[p] = X
      BY <1>2, <3>1, <3>2, ViewFields
    <3> QED BY <3>3, <3>4 DEF L
  <2> QED BY <2>1, <2>2
<1>4. v = [u EXCEPT !.hw[p] = Y]
  BY DEF LoadProtection
<1> HIDE DEF u
<1>5. u \in SectionsType /\ u.hw[p] \in [Page -> SUBSET ReadWrite]
  BY <1>3, SectionsFields DEF Sound
<1>6. Y \in [Page -> SUBSET ReadWrite]
  <2>1. \A g \in Page \cap Mapped(E) : EntryAt(E, g).prot \in SUBSET ReadWrite
    BY EntryAtFacts
  <2> QED BY <1>5, <2>1
<1>7. /\ \A g \in Page \cap Mapped(E) : BlockOf(g) = b => Y[g] = EntryAt(E, g).prot \cap mask
      /\ \A g \in Page : BlockOf(g) # b => Y[g] = w.hw[p][g]
  BY <1>3
<1> HIDE DEF Y
<1> DEFINE L == u.loaded[p]
<1>8. v = Views(u, p, L, Y)
  BY <1>4, <1>5 DEF SectionsType, Views
<1>9. L \in SUBSET UsedBlocks(u, p)
  BY <1>1, <1>3
<1> HIDE DEF L
<1>10. /\ Sound(v) /\ Others(u, v, p) /\ UsedBlocks(v, p) = UsedBlocks(u, p)
       /\ v.handle = u.handle /\ v.open = u.open /\ v.content = u.content
       /\ v.loaded[p] = L /\ v.hw[p] = Y
  BY <1>3, <1>6, <1>8, <1>9, ViewFields
<1> USE DEF L
<1>11. Others(w, v, p)
  BY <1>3, <1>10, OthersCompose
<1>12. \A s : Sole(v, p, s) <=> Sole(w, p, s)
  BY <1>3, <1>10 DEF Sole
<1>13. ASSUME NEW g \in Page \cap Mapped(E), NEW m, Agrees(w, p, E, g, m)
       PROVE  Agrees(v, p, E, g, m)
  <2>1. CASE BlockOf(g) = b
    <3>1. v.hw[p][g] = EntryAt(E, g).prot \cap mask
      BY <1>7, <1>10, <2>1
    <3> QED BY <3>1, <2>1, <1>3, <1>10, <1>12, <1>13 DEF Agrees
  <2>2. CASE BlockOf(g) # b
    <3>1. v.hw[p][g] = w.hw[p][g] /\ (BlockOf(g) \in v.loaded[p] <=> BlockOf(g) \in w.loaded[p])
      BY <1>3, <1>7, <1>10, <2>2
    <3> QED BY <3>1, <1>3, <1>10, <1>12, <1>13 DEF Agrees
  <2> QED BY <2>1, <2>2
<1> QED BY <1>3, <1>7, <1>10, <1>11, <1>13 DEF Keeps

(* mm_change_protection.                                                   *)
LEMMA ProtectStep ==
  ASSUME NEW w, Sound(w), NEW p \in Proc, NEW G, NEW prot \in SUBSET ReadWrite,
         NEW v, v = Protect(w, p, G, prot)
  PROVE  /\ Sound(v) /\ Others(w, v, p) /\ UsedBlocks(v, p) = UsedBlocks(w, p)
         /\ v.handle = w.handle /\ v.open = w.open /\ v.content = w.content
         /\ v.loaded[p] = w.loaded[p]
         /\ \A g \in Page : v.hw[p][g] = IF g \in G /\ BlockOf(g) \in w.loaded[p] THEN prot ELSE w.hw[p][g]
         /\ \A g \in Page \ G : \A E, m : Agrees(w, p, E, g, m) => Agrees(v, p, E, g, m)
<1> DEFINE X == [g \in Page |-> IF g \in G /\ BlockOf(g) \in w.loaded[p] THEN prot ELSE w.hw[p][g]]
           L == w.loaded[p]
<1>1. w \in SectionsType /\ w.hw[p] \in [Page -> SUBSET ReadWrite]
      /\ w.loaded[p] \subseteq UsedBlocks(w, p)
  BY SectionsFields DEF Sound, Handles
<1>2. X \in [Page -> SUBSET ReadWrite] /\ L \in SUBSET UsedBlocks(w, p)
  BY <1>1
<1>3. v = Views(w, p, L, X)
  BY <1>1 DEF Protect, Views, SectionsType
<1>4. \A g \in Page : X[g] = IF g \in G /\ BlockOf(g) \in w.loaded[p] THEN prot ELSE w.hw[p][g]
  OBVIOUS
<1>5. L = w.loaded[p]
  OBVIOUS
<1> HIDE DEF X, L
<1>6. /\ Sound(v) /\ Others(w, v, p) /\ UsedBlocks(v, p) = UsedBlocks(w, p)
      /\ v.handle = w.handle /\ v.open = w.open /\ v.content = w.content
      /\ v.loaded[p] = L /\ v.hw[p] = X
  BY <1>2, <1>3, ViewFields
<1>7. \A s : Sole(v, p, s) <=> Sole(w, p, s)
  BY <1>6 DEF Sole
<1>8. ASSUME NEW g \in Page \ G, NEW E, NEW m, Agrees(w, p, E, g, m)
      PROVE  Agrees(v, p, E, g, m)
  <2>1. v.hw[p][g] = w.hw[p][g]
    BY <1>4, <1>6
  <2> QED BY <2>1, <1>5, <1>6, <1>7, <1>8 DEF Agrees
<1> QED BY <1>4, <1>5, <1>6, <1>8

(* The content of a section of one's own changed.                          *)
Filled(w, p, b, f) == [w EXCEPT !.content[w.handle[p][b]] = f]

(* A process may change a section of its own: nobody else sees it.         *)
LEMMA ContentFields ==
  ASSUME NEW w, Sound(w), NEW p \in Proc, NEW b \in UsedBlocks(w, p),
         Sole(w, p, w.handle[p][b]),
         NEW f \in [0 .. PagesPerBlock - 1 -> Nat], NEW v, v = Filled(w, p, b, f)
  PROVE  /\ Sound(v) /\ Others(w, v, p) /\ UsedBlocks(v, p) = UsedBlocks(w, p)
         /\ v.handle = w.handle /\ v.open = w.open /\ v.loaded = w.loaded /\ v.hw = w.hw
         /\ v.content[w.handle[p][b]] = f
         /\ \A s \in Section : s # w.handle[p][b] => v.content[s] = w.content[s]
         /\ \A g \in Page : BlockOf(g) # b => \A E, m : Agrees(w, p, E, g, m) => Agrees(v, p, E, g, m)
<1> DEFINE r == w.handle[p][b]
<1>1. w \in SectionsType /\ Handles(w, p) /\ b \in Block /\ r \in Section /\ r \in w.open[p]
  <2>1. w \in SectionsType /\ Handles(w, p) /\ b \in Block /\ w.handle[p][b] # 0
    BY DEF Sound, UsedBlocks
  <2> QED BY <2>1, SectionsFields DEF Handles
<1>2. /\ v.handle = w.handle /\ v.open = w.open /\ v.loaded = w.loaded /\ v.hw = w.hw
      /\ v.content = [w.content EXCEPT ![r] = f]
      /\ v = [handle |-> v.handle, open |-> v.open, loaded |-> v.loaded, hw |-> v.hw,
             content |-> v.content]
  BY <1>1 DEF SectionsType, Filled
<1>3. /\ v.content \in [Section -> [0 .. PagesPerBlock - 1 -> Nat]]
      /\ v.content[r] = f
      /\ \A s \in Section : s # r => v.content[s] = w.content[s]
  BY <1>1, <1>2, SectionsFields
<1>4. v \in SectionsType
  BY <1>1, <1>2, <1>3, SectionsFields DEF SectionsType
<1>5. Others(w, v, p)
  <2>1. ASSUME NEW q \in Proc, q # p, NEW s \in w.open[q]
        PROVE  v.content[s] = w.content[s]
    <3>1. s \in Section /\ s # r
      BY <1>1, <2>1, SectionsFields DEF Sole
    <3> QED BY <3>1, <1>3
  <2> QED BY <2>1, <1>2 DEF Others
<1>6. UsedBlocks(v, p) = UsedBlocks(w, p) /\ Handles(v, p)
  BY <1>1, <1>2 DEF UsedBlocks, Handles
<1>7. Sound(v)
  BY <1>4, <1>5, <1>6, OthersKeep DEF Sound
<1>8. ASSUME NEW g \in Page, BlockOf(g) # b, NEW E, NEW m, Agrees(w, p, E, g, m)
      PROVE  Agrees(v, p, E, g, m)
  <2>1. BlockOf(g) \in Block
    BY BlockFacts
  <2>2. ASSUME w.handle[p][BlockOf(g)] # 0
        PROVE  w.handle[p][BlockOf(g)] \in Section /\ w.handle[p][BlockOf(g)] # r
    BY <1>1, <1>8, <2>1, <2>2, SectionsFields DEF Handles, UsedBlocks
  <2>3. \A s : Sole(v, p, s) <=> Sole(w, p, s)
    BY <1>2 DEF Sole
  <2> QED BY <1>2, <1>3, <1>8, <2>2, <2>3 DEF Agrees
<1> QED BY <1>2, <1>3, <1>5, <1>6, <1>7, <1>8

-----------------------------------------------------------------------------
(* A page has one entry at most in a partition.                            *)
LEMMA EntryAtUnique ==
  ASSUME NEW E, Partition(E), NEW e \in E, NEW g, g \in Span(e)
  PROVE  EntryAt(E, g) = e
<1>1. g \in Mapped(E) /\ E \in SUBSET Entry
  BY DEF Mapped, Partition
<1>2. EntryAt(E, g) \in E /\ g \in Span(EntryAt(E, g))
  BY <1>1, EntryAtFacts
<1>3. \A x \in E : x.start \in Nat /\ x.end \in Nat
  BY <1>1 DEF Entry
<1>4. ASSUME EntryAt(E, g) # e PROVE FALSE
  <2>1. ~Overlaps(EntryAt(E, g), e.start, e.end)
    BY <1>2, <1>4 DEF Partition, DisjointEntries
  <2> QED BY <2>1, <1>2, <1>3 DEF Overlaps, Span
<1> QED BY <1>4

(* mmap_internal's set-up of one end of the new entry e.                   *)
LEMMA SetUpBlockStep ==
  ASSUME NEW w, Sound(w), NEW p \in Proc, NEW E, Partition(E), NEW e \in E, NEW b \in Block,
         NEW v, v = SetUpBlock(w, p, E, e, b)
  PROVE  /\ Sound(v) /\ Others(w, v, p) /\ UsedBlocks(v, p) = UsedBlocks(w, p)
         /\ \A g \in Page \cap Mapped(E) : \A m :
              (g \notin Span(e) \/ BlockOf(g) # b) /\ Agrees(w, p, E, g, m) => Agrees(v, p, E, g, m)
         /\ \A g \in Page : g \in Span(e) /\ BlockOf(g) = b => Agrees(v, p, E, g, Data(e, g))
<1> DEFINE G == Span(e) \cap PagesOf(b)
<1>1. E \in SUBSET Entry /\ e \in Entry /\ e.prot \in SUBSET ReadWrite
  BY DEF Partition, Entry
<1>2. \A g \in Span(e) : EntryAt(E, g) = e /\ g \in Mapped(E) /\ Data(e, g) \in Nat
  <2>1. \A g \in Span(e) : g \in Mapped(E)
    BY DEF Mapped
  <2> QED BY <2>1, <1>1, EntryAtUnique, EntryAtFacts
<1>3. \A g \in Page : g \in G <=> g \in Span(e) /\ BlockOf(g) = b
  BY DEF PagesOf
<1>4. CASE w.handle[p][b] = 0
  <2>1. v = w
    BY <1>4 DEF SetUpBlock
  <2>2. b \notin w.loaded[p]
    BY <1>4 DEF Sound, Handles, UsedBlocks
  <2>3. \A g \in Page : g \in Span(e) /\ BlockOf(g) = b => Agrees(w, p, E, g, Data(e, g))
    BY <1>2, <1>4, <2>2 DEF Agrees
  <2> QED BY <2>1, <2>3 DEF Others
<1>5. CASE w.handle[p][b] # 0
  <2> DEFINE t == TakeOwnership(w, p, b)
             o == LoadDetached(t, p, E, b)
             F == [i \in 0 .. PagesPerBlock - 1 |->
                     IF FirstPage(b) + i \in G THEN Data(e, FirstPage(b) + i)
                     ELSE o.content[o.handle[p][b]][i]]
             k == Fill(o, p, e, b, G)
  <2>1. v = Protect(k, p, G, e.prot)
    BY <1>5 DEF SetUpBlock
  <2>2. b \in UsedBlocks(w, p)
    BY <1>5 DEF UsedBlocks
  <2>3. /\ Sound(t) /\ Others(w, t, p) /\ Keeps(w, t, p, E)
        /\ UsedBlocks(t, p) = UsedBlocks(w, p) /\ Sole(t, p, t.handle[p][b])
    <3> HIDE DEF t
    <3>1. t = TakeOwnership(w, p, b)
      BY DEF t
    <3> QED BY <2>2, <3>1, TakeStep
  <2>4. /\ Sound(o) /\ Others(t, o, p) /\ Keeps(t, o, p, E)
        /\ UsedBlocks(o, p) = UsedBlocks(t, p) /\ Sole(o, p, o.handle[p][b])
        /\ b \in o.loaded[p]
    <3> HIDE DEF t
    <3>1. CASE b \in t.loaded[p]
      BY <3>1, <2>3 DEF LoadDetached, Others, Keeps
    <3>2. CASE b \notin t.loaded[p]
      <4>1. o = LoadProtection(MapView(t, p, b), p, E, b, {"r"})
        BY <3>2 DEF LoadDetached
      <4>2. {"r"} \in SUBSET ReadWrite /\ "r" \in {"r"} /\ "w" \notin {"r"}
        BY DEF ReadWrite
      <4> HIDE DEF o
      <4>3. b \in UsedBlocks(t, p)
        BY <2>2, <2>3
      <4>4. /\ Sound(o) /\ Others(t, o, p) /\ Keeps(t, o, p, E)
            /\ UsedBlocks(o, p) = UsedBlocks(t, p)
            /\ o.handle = t.handle /\ o.open = t.open
            /\ o.loaded[p] = t.loaded[p] \cup {b}
        BY <1>1, <2>3, <4>1, <4>2, <4>3, LoadStep
      <4>5. Sole(o, p, o.handle[p][b])
        BY <2>3, <4>4 DEF Sole
      <4> QED BY <4>4, <4>5
    <3> QED BY <3>1, <3>2
  <2>5. k = Filled(o, p, b, F) /\ F \in [0 .. PagesPerBlock - 1 -> Nat]
        /\ \A i \in 0 .. PagesPerBlock - 1 : F[i] = IF FirstPage(b) + i \in G THEN Data(e, FirstPage(b) + i)
                                                   ELSE o.content[o.handle[p][b]][i]
    <3> HIDE DEF o
    <3>1. o.handle[p][b] \in Section /\ o.content[o.handle[p][b]] \in [0 .. PagesPerBlock - 1 -> Nat]
      <4>1. o \in SectionsType /\ b \in UsedBlocks(o, p)
        BY <2>2, <2>3, <2>4 DEF Sound
      <4>2. o.handle[p][b] \in Section
        BY <4>1, SectionsFields DEF UsedBlocks
      <4> QED BY <4>1, <4>2, SectionsFields
    <3>2. \A g \in G : Data(e, g) \in Nat
      BY <1>2
    <3>3. F \in [0 .. PagesPerBlock - 1 -> Nat]
      BY <3>1, <3>2
    <3>4. o \in SectionsType
      BY <2>4 DEF Sound
    <3>5. k = Filled(o, p, b, F)
      BY <3>1, <3>4, SectionsFields DEF Fill, Filled
    <3> QED BY <3>3, <3>5
  <2> HIDE DEF F, k
  <2>6. b \in UsedBlocks(o, p)
    BY <2>2, <2>3, <2>4
  <2> HIDE DEF o
  <2>7. /\ Sound(k) /\ Others(o, k, p) /\ UsedBlocks(k, p) = UsedBlocks(o, p)
        /\ k.handle = o.handle /\ k.open = o.open /\ k.loaded = o.loaded /\ k.hw = o.hw
        /\ k.content[o.handle[p][b]] = F
        /\ \A g \in Page : BlockOf(g) # b => \A x, m : Agrees(o, p, x, g, m) => Agrees(k, p, x, g, m)
    BY <2>4, <2>5, <2>6, ContentFields
  <2> HIDE DEF G, t
  <2>8. /\ Sound(v) /\ Others(k, v, p) /\ UsedBlocks(v, p) = UsedBlocks(k, p)
        /\ v.handle = k.handle /\ v.open = k.open /\ v.content = k.content
        /\ v.loaded[p] = k.loaded[p]
        /\ \A g \in Page : v.hw[p][g] = IF g \in G /\ BlockOf(g) \in k.loaded[p] THEN e.prot ELSE k.hw[p][g]
        /\ \A g \in Page \ G : \A x, m : Agrees(k, p, x, g, m) => Agrees(v, p, x, g, m)
    BY <1>1, <2>1, <2>7, ProtectStep
  <2>9. Others(w, v, p)
    BY <2>3, <2>4, <2>7, <2>8, OthersCompose
  <2>10. ASSUME NEW g \in Page \cap Mapped(E), NEW m, g \notin G, Agrees(w, p, E, g, m)
         PROVE  Agrees(v, p, E, g, m)
    <3>1. Agrees(o, p, E, g, m)
      BY <2>3, <2>4, <2>10 DEF Keeps
    <3>2. Agrees(k, p, E, g, m)
      <4>1. CASE BlockOf(g) # b
        BY <3>1, <4>1, <2>7
      <4>2. CASE BlockOf(g) = b
        <5>1. PageIn(g) \in 0 .. PagesPerBlock - 1 /\ FirstPage(b) + PageIn(g) = g
          BY <4>2, BlockFacts
        <5>2. k.content[o.handle[p][b]][PageIn(g)] = o.content[o.handle[p][b]][PageIn(g)]
          BY <5>1, <2>5, <2>7, <2>10
        <5>3. \A s : Sole(k, p, s) <=> Sole(o, p, s)
          BY <2>7 DEF Sole
        <5> QED BY <3>1, <4>2, <5>2, <5>3, <2>7 DEF Agrees
      <4> QED BY <4>1, <4>2
    <3> QED BY <3>2, <2>8, <2>10
  <2>11. ASSUME NEW g \in Page, g \in G
         PROVE  Agrees(v, p, E, g, Data(e, g))
    <3>1. g \in Span(e) /\ BlockOf(g) = b /\ EntryAt(E, g) = e
      BY <1>2, <1>3, <2>11
    <3>2. PageIn(g) \in 0 .. PagesPerBlock - 1 /\ FirstPage(b) + PageIn(g) = g
      BY <3>1, BlockFacts
    <3>3. v.handle[p][b] = o.handle[p][b] /\ v.handle[p][b] # 0
          /\ v.content[v.handle[p][b]][PageIn(g)] = Data(e, g)
      <4>1. F[PageIn(g)] = Data(e, g)
        BY <3>2, <2>5, <2>11
      <4>2. v.handle[p][b] = o.handle[p][b] /\ v.content[o.handle[p][b]] = F
        BY <2>7, <2>8
      <4>3. o.handle[p][b] # 0
        BY <2>6 DEF UsedBlocks
      <4> QED BY <4>1, <4>2, <4>3
    <3>4. v.hw[p][g] = e.prot
      BY <3>1, <2>4, <2>7, <2>8, <2>11
    <3>5. Sole(v, p, v.handle[p][b])
      BY <2>4, <2>7, <2>8 DEF Sole
    <3> QED BY <3>1, <3>3, <3>4, <3>5 DEF Agrees
  <2> QED BY <1>3, <2>3, <2>4, <2>7, <2>8, <2>9, <2>10, <2>11
<1> QED BY <1>4, <1>5

(* The same of both ends.  Of what lies between, only blocks without a     *)
(* section will be loaded from the new entry.                              *)
LEMMA SetUpEndsStep ==
  ASSUME NEW w, Sound(w), NEW p \in Proc, NEW E, Partition(E), NEW e \in E, Span(e) \subseteq Page,
         NEW v, v = SetUpEnds(w, p, E, e)
  PROVE  /\ Sound(v) /\ Others(w, v, p) /\ UsedBlocks(v, p) = UsedBlocks(w, p)
         /\ \A g \in Page \cap Mapped(E) : \A m :
              g \notin Span(e) /\ Agrees(w, p, E, g, m) => Agrees(v, p, E, g, m)
         /\ \A g \in Span(e) :
              \/ BlockOf(g) \in {BlockOf(e.start), BlockOf(e.end)}
              \/ w.handle[p][BlockOf(g)] = 0
              => Agrees(v, p, E, g, Data(e, g))
<1> DEFINE first == BlockOf(e.start)
           last == BlockOf(e.end)
           f == SetUpBlock(w, p, E, e, first)
<1>1. first \in Block /\ last \in Block
  <2>1. e.start \in Span(e) /\ e.end \in Span(e)
    BY DEF Partition, Entry, Span
  <2> QED BY <2>1, BlockFacts
<1>2. v = IF last = first THEN f ELSE SetUpBlock(f, p, E, e, last)
  BY DEF SetUpEnds
<1>3. f = SetUpBlock(w, p, E, e, first)
  OBVIOUS
<1> HIDE DEF f, first, last
<1>4. /\ Sound(f) /\ Others(w, f, p) /\ UsedBlocks(f, p) = UsedBlocks(w, p)
      /\ \A g \in Page \cap Mapped(E) : \A m :
           (g \notin Span(e) \/ BlockOf(g) # first) /\ Agrees(w, p, E, g, m) => Agrees(f, p, E, g, m)
      /\ \A g \in Page : g \in Span(e) /\ BlockOf(g) = first => Agrees(f, p, E, g, Data(e, g))
  BY <1>1, <1>3, SetUpBlockStep
<1>5. ASSUME last # first
      PROVE  /\ Sound(v) /\ Others(f, v, p) /\ UsedBlocks(v, p) = UsedBlocks(f, p)
             /\ \A g \in Page \cap Mapped(E) : \A m :
                  (g \notin Span(e) \/ BlockOf(g) # last) /\ Agrees(f, p, E, g, m) => Agrees(v, p, E, g, m)
             /\ \A g \in Page : g \in Span(e) /\ BlockOf(g) = last => Agrees(v, p, E, g, Data(e, g))
  <2>1. v = SetUpBlock(f, p, E, e, last)
    BY <1>2, <1>5
  <2> QED BY <1>1, <1>4, <2>1, SetUpBlockStep
<1>6. /\ Sound(v) /\ Others(w, v, p) /\ UsedBlocks(v, p) = UsedBlocks(w, p)
  BY <1>2, <1>4, <1>5, OthersCompose
<1>7. ASSUME NEW g \in Page \cap Mapped(E), NEW m, g \notin Span(e), Agrees(w, p, E, g, m)
      PROVE  Agrees(v, p, E, g, m)
  <2>1. Agrees(f, p, E, g, m)
    BY <1>4, <1>7
  <2> QED BY <1>2, <1>5, <1>7, <2>1
<1>8. ASSUME NEW g \in Span(e)
      PROVE  /\ g \in Page /\ g \in Mapped(E) /\ EntryAt(E, g) = e /\ BlockOf(g) \in Block
  BY EntryAtUnique, BlockFacts DEF Mapped
<1>9. ASSUME NEW g \in Span(e), BlockOf(g) \in {first, last} \/ w.handle[p][BlockOf(g)] = 0
      PROVE  Agrees(v, p, E, g, Data(e, g))
  <2>1. CASE BlockOf(g) = last /\ last # first
    BY <1>5, <1>8, <2>1
  <2>2. CASE BlockOf(g) = first
    <3>1. Agrees(f, p, E, g, Data(e, g))
      BY <1>4, <1>8, <2>2
    <3> QED BY <3>1, <2>2, <1>2, <1>5, <1>8
  <2>3. CASE w.handle[p][BlockOf(g)] = 0
    <3>1. v.handle[p][BlockOf(g)] = 0 /\ BlockOf(g) \notin v.loaded[p]
      BY <1>6, <1>8, <2>3 DEF UsedBlocks, Sound, Handles
    <3> QED BY <3>1, <1>8 DEF Agrees
  <2> QED BY <1>9, <2>1, <2>2, <2>3
<1> QED BY <1>6, <1>7, <1>9 DEF first, last

-----------------------------------------------------------------------------
(* allocate_block for a block without a section.                           *)
LEMMA AllocateStep ==
  ASSUME NEW w, Sound(w), NEW p \in Proc, NEW b \in Block, w.handle[p][b] = 0,
         NEW v, v = AllocateBlock(w, p, b)
  PROVE  /\ Sound(v) /\ Others(w, v, p) /\ UsedBlocks(v, p) = UsedBlocks(w, p) \cup {b}
         /\ v.loaded[p] = w.loaded[p] \cup {b} /\ Sole(v, p, v.handle[p][b])
         /\ \A g \in Page : BlockOf(g) = b => v.hw[p][g] = ReadWrite
         /\ \A g \in Page : BlockOf(g) # b => \A E, m : Agrees(w, p, E, g, m) => Agrees(v, p, E, g, m)
<1> DEFINE s == NewSection(w)
<1>1. w \in SectionsType /\ Handles(w, p)
  BY DEF Sound
<1>23. w \in SectionsType
  BY <1>1
<1>2. FreeSections(w) # {}
  BY FreshSection
<1>31. s = NewSection(w)
  OBVIOUS
<1> HIDE DEF s
<1>24. /\ v \in SectionsType /\ s \in Section /\ (\A q \in Proc : s \notin w.open[q])
       /\ Allocated(w, v, p, b, s)
  BY <1>2, <1>23, <1>31, AllocateFields
<1>3. /\ v \in SectionsType /\ s \in Section /\ \A q \in Proc : s \notin w.open[q]
      /\ v.handle = [w.handle EXCEPT ![p] = [@ EXCEPT ![b] = s]]
      /\ v.open = [w.open EXCEPT ![p] = @ \cup {s}]
      /\ v.loaded = [w.loaded EXCEPT ![p] = @ \cup {b}]
      /\ v.content = [w.content EXCEPT ![s] = Zeros]
      /\ v.hw = [w.hw EXCEPT ![p] = [g \in Page |-> IF BlockOf(g) = b THEN ReadWrite ELSE @[g]]]
  BY <1>24 DEF Allocated
<1>4. /\ \A q \in Proc : q # p => /\ v.handle[q] = w.handle[q] /\ v.open[q] = w.open[q]
                                  /\ v.loaded[q] = w.loaded[q] /\ v.hw[q] = w.hw[q]
      /\ \A c \in Block : v.handle[p][c] = IF c = b THEN s ELSE w.handle[p][c]
      /\ v.open[p] = w.open[p] \cup {s}
      /\ v.loaded[p] = w.loaded[p] \cup {b}
      /\ \A r \in Section : r # s => v.content[r] = w.content[r]
      /\ \A g \in Page : v.hw[p][g] = IF BlockOf(g) = b THEN ReadWrite ELSE w.hw[p][g]
  BY <1>1, <1>3, SectionsFields
<1>5. UsedBlocks(v, p) = UsedBlocks(w, p) \cup {b}
  BY <1>1, <1>3, <1>4, SectionsFields DEF UsedBlocks
<1>6. \A c \in UsedBlocks(w, p) : c # b /\ c \in Block /\ w.handle[p][c] \in w.open[p] /\ w.handle[p][c] # s
  BY <1>1, <1>3 DEF Handles, UsedBlocks
<1>7. Handles(v, p)
  <2>1. v.open[p] = {v.handle[p][c] : c \in UsedBlocks(v, p)}
    <3>1. \A c \in UsedBlocks(v, p) : v.handle[p][c] \in v.open[p]
      BY <1>4, <1>5, <1>6
    <3>2. ASSUME NEW r \in v.open[p] PROVE \E c \in UsedBlocks(v, p) : v.handle[p][c] = r
      <4>1. CASE r = s
        BY <4>1, <1>4, <1>5
      <4>2. CASE r # s
        <5>1. PICK c \in UsedBlocks(w, p) : w.handle[p][c] = r
          BY <1>1, <1>4, <4>2 DEF Handles
        <5> QED BY <5>1, <1>4, <1>5, <1>6
      <4> QED BY <4>1, <4>2
    <3> QED BY <3>1, <3>2
  <2>2. ASSUME NEW c \in UsedBlocks(v, p), NEW d \in UsedBlocks(v, p), v.handle[p][c] = v.handle[p][d]
        PROVE  c = d
    BY <2>2, <1>1, <1>4, <1>5, <1>6 DEF Handles
  <2>3. v.loaded[p] \subseteq UsedBlocks(v, p)
    BY <1>1, <1>4, <1>5 DEF Handles
  <2> QED BY <2>1, <2>2, <2>3 DEF Handles
<1>8. Others(w, v, p)
  <2>1. \A q \in Proc : w.open[q] \subseteq Section
    BY <1>1, SectionsFields
  <2> QED BY <1>3, <1>4, <2>1 DEF Others
<1>9. Sound(v)
  BY <1>3, <1>7, <1>8, OthersKeep DEF Sound
<1>10. Sole(v, p, v.handle[p][b])
  BY <1>3, <1>4 DEF Sole
<1>11. ASSUME NEW g \in Page, BlockOf(g) # b, NEW E, NEW m, Agrees(w, p, E, g, m)
       PROVE  Agrees(v, p, E, g, m)
  <2>1. BlockOf(g) \in Block
    BY BlockFacts
  <2>2. v.handle[p][BlockOf(g)] = w.handle[p][BlockOf(g)] /\ v.hw[p][g] = w.hw[p][g]
        /\ (BlockOf(g) \in v.loaded[p] <=> BlockOf(g) \in w.loaded[p])
    BY <1>4, <1>11, <2>1
  <2>3. ASSUME w.handle[p][BlockOf(g)] # 0
        PROVE  LET r == w.handle[p][BlockOf(g)]
               IN  r \in w.open[p] /\ r \in Section /\ r # s
    BY <1>1, <1>3, <2>1, <2>3, SectionsFields DEF Handles, UsedBlocks
  <2>4. ASSUME w.handle[p][BlockOf(g)] # 0, Sole(w, p, w.handle[p][BlockOf(g)])
        PROVE  Sole(v, p, w.handle[p][BlockOf(g)])
    BY <2>3, <2>4, <1>4 DEF Sole
  <2>5. BlockOf(g) \in w.loaded[p] => w.handle[p][BlockOf(g)] # 0
    BY <1>1 DEF Handles, UsedBlocks
  <2>6. w.handle[p][BlockOf(g)] # 0 => v.content[w.handle[p][BlockOf(g)]] = w.content[w.handle[p][BlockOf(g)]]
    BY <2>3, <1>4
  <2> QED BY <2>2, <2>4, <2>5, <2>6, <1>11 DEF Agrees
<1> QED BY <1>4, <1>5, <1>8, <1>9, <1>10, <1>11

(* handle_on_demand_page_fault.                                            *)
LEMMA OnDemandStep ==
  ASSUME NEW w, Sound(w), NEW p \in Proc, NEW b \in Block, w.handle[p][b] = 0,
         NEW E \in SUBSET Entry, NEW v, v = LoadOnDemand(w, p, E, b)
  PROVE  /\ Sound(v) /\ Others(w, v, p) /\ Keeps(w, v, p, E)
         /\ UsedBlocks(v, p) = UsedBlocks(w, p) \cup {b} /\ b \in v.loaded[p]
         /\ \A g \in Page \cap Mapped(E) : BlockOf(g) = b => v.hw[p][g] = EntryAt(E, g).prot
<1> DEFINE n == AllocateBlock(w, p, b)
           F == [i \in 0 .. PagesPerBlock - 1 |->
                   IF FirstPage(b) + i \in Mapped(E)
                   THEN Data(EntryAt(E, FirstPage(b) + i), FirstPage(b) + i) ELSE 0]
           f == Filled(n, p, b, F)
<1>1. n = AllocateBlock(w, p, b)
  OBVIOUS
<1>2. /\ F \in [0 .. PagesPerBlock - 1 -> Nat]
      /\ \A i \in 0 .. PagesPerBlock - 1 : FirstPage(b) + i \in Mapped(E) =>
           F[i] = Data(EntryAt(E, FirstPage(b) + i), FirstPage(b) + i)
  BY EntryAtFacts
<1> HIDE DEF n
<1>3. /\ Sound(n) /\ Others(w, n, p) /\ UsedBlocks(n, p) = UsedBlocks(w, p) \cup {b}
      /\ n.loaded[p] = w.loaded[p] \cup {b} /\ Sole(n, p, n.handle[p][b])
      /\ \A g \in Page : BlockOf(g) = b => n.hw[p][g] = ReadWrite
      /\ \A g \in Page : BlockOf(g) # b => \A x, m : Agrees(w, p, x, g, m) => Agrees(n, p, x, g, m)
  BY <1>1, AllocateStep
<1>4. b \in UsedBlocks(n, p) /\ b \in UsedBlocks(f, p) /\ f = Filled(n, p, b, F)
      /\ MapView(f, p, b) = f
  BY <1>3 DEF MapView, UsedBlocks, Filled, Sound, SectionsType
<1>5. v = LoadProtection(f, p, E, b, ReadWrite)
  <2>1. n \in SectionsType /\ n.handle[p][b] \in Section
        /\ n.content[n.handle[p][b]] \in [0 .. PagesPerBlock - 1 -> Nat]
    <3>1. n \in SectionsType
      BY <1>3 DEF Sound
    <3>2. n.handle[p][b] \in Section
      BY <1>4, <3>1, SectionsFields DEF UsedBlocks
    <3> QED BY <3>1, <3>2, SectionsFields
  <2>2. v = LoadProtection([n EXCEPT !.content[n.handle[p][b]] =
              [i \in DOMAIN @ |-> IF FirstPage(b) + i \in Mapped(E)
                                  THEN Data(EntryAt(E, FirstPage(b) + i), FirstPage(b) + i)
                                  ELSE 0]], p, E, b, ReadWrite)
    BY DEF LoadOnDemand, n
  <2>3. [n EXCEPT !.content[n.handle[p][b]] =
              [i \in DOMAIN @ |-> IF FirstPage(b) + i \in Mapped(E)
                                  THEN Data(EntryAt(E, FirstPage(b) + i), FirstPage(b) + i)
                                  ELSE 0]] = f
    BY <2>1, SectionsFields DEF Filled
  <2> QED BY <2>2, <2>3
<1> HIDE DEF F, f
<1>6. /\ Sound(f) /\ Others(n, f, p) /\ UsedBlocks(f, p) = UsedBlocks(n, p)
      /\ f.handle = n.handle /\ f.open = n.open /\ f.loaded = n.loaded /\ f.hw = n.hw
      /\ f.content[n.handle[p][b]] = F
      /\ \A g \in Page : BlockOf(g) # b => \A x, m : Agrees(n, p, x, g, m) => Agrees(f, p, x, g, m)
  BY <1>2, <1>3, <1>4, ContentFields
<1>7. Sole(f, p, f.handle[p][b])
  BY <1>3, <1>6 DEF Sole
<1>8. Keeps(w, f, p, E)
  <2> SUFFICES ASSUME NEW g \in Page \cap Mapped(E), NEW m, Agrees(w, p, E, g, m)
               PROVE  Agrees(f, p, E, g, m)
    BY DEF Keeps
  <2>1. CASE BlockOf(g) # b
    BY <1>3, <1>6, <2>1
  <2>2. CASE BlockOf(g) = b
    <3>1. PageIn(g) \in 0 .. PagesPerBlock - 1 /\ FirstPage(b) + PageIn(g) = g
      BY <2>2, BlockFacts
    <3>2. m = Data(EntryAt(E, g), g)
      BY <2>2 DEF Agrees
    <3>3. F[PageIn(g)] = m
      BY <1>2, <3>1, <3>2
    <3>4. f.handle[p][b] = n.handle[p][b] /\ n.handle[p][b] # 0 /\ f.hw[p][g] = ReadWrite
      BY <1>3, <1>4, <1>6, <2>2 DEF UsedBlocks
    <3> QED BY <2>2, <3>3, <3>4, <1>6, <1>7 DEF Agrees, ReadWrite
  <2> QED BY <2>1, <2>2
<1>9. v = LoadProtection(MapView(f, p, b), p, E, b, ReadWrite)
  BY <1>4, <1>5
<1>10. /\ Sound(v) /\ Others(f, v, p) /\ Keeps(f, v, p, E)
       /\ UsedBlocks(v, p) = UsedBlocks(f, p)
       /\ v.loaded[p] = f.loaded[p] \cup {b}
       /\ \A g \in Page \cap Mapped(E) : BlockOf(g) = b => v.hw[p][g] = EntryAt(E, g).prot \cap ReadWrite
  <2>1. ReadWrite \in SUBSET ReadWrite /\ "r" \in ReadWrite
    BY DEF ReadWrite
  <2> QED BY <1>4, <1>6, <1>7, <1>9, <2>1, LoadStep
<1>11. \A g \in Page \cap Mapped(E) : EntryAt(E, g).prot \cap ReadWrite = EntryAt(E, g).prot
  BY EntryAtFacts
<1>12. Others(w, v, p)
  BY <1>3, <1>6, <1>10, OthersCompose
<1>13. Keeps(w, v, p, E)
  BY <1>8, <1>10, KeepsCompose
<1> QED BY <1>3, <1>6, <1>10, <1>11, <1>12, <1>13

(* handle_cow_page_fault.                                                  *)
LEMMA CopyStep ==
  ASSUME NEW w, Sound(w), NEW p \in Proc, NEW b \in UsedBlocks(w, p),
         NEW E \in SUBSET Entry, NEW v, v = CopyOnWrite(w, p, E, b)
  PROVE  /\ Sound(v) /\ Others(w, v, p) /\ Keeps(w, v, p, E)
         /\ UsedBlocks(v, p) = UsedBlocks(w, p) /\ b \in v.loaded[p]
         /\ \A g \in Page \cap Mapped(E) : BlockOf(g) = b => v.hw[p][g] = EntryAt(E, g).prot
<1> DEFINE t == TakeOwnership(w, p, b)
<1>1. t = TakeOwnership(w, p, b)
  OBVIOUS
<1>7. v = LoadProtection(MapView(t, p, b), p, E, b, ReadWrite)
  BY DEF CopyOnWrite
<1> HIDE DEF t
<1>2. /\ Sound(t) /\ Others(w, t, p) /\ Keeps(w, t, p, E)
      /\ UsedBlocks(t, p) = UsedBlocks(w, p) /\ Sole(t, p, t.handle[p][b])
  BY <1>1, TakeStep
<1>3. b \in UsedBlocks(t, p) /\ Sound(t) /\ Sole(t, p, t.handle[p][b])
  BY <1>2
<1>8. ReadWrite \in SUBSET ReadWrite /\ "r" \in ReadWrite
  BY DEF ReadWrite
<1>4. /\ Sound(v) /\ Others(t, v, p) /\ Keeps(t, v, p, E)
      /\ UsedBlocks(v, p) = UsedBlocks(t, p)
      /\ v.loaded[p] = t.loaded[p] \cup {b}
      /\ \A g \in Page \cap Mapped(E) : BlockOf(g) = b => v.hw[p][g] = EntryAt(E, g).prot \cap ReadWrite
  BY <1>3, <1>7, <1>8, LoadStep
<1>5. \A g \in Page \cap Mapped(E) : EntryAt(E, g).prot \cap ReadWrite = EntryAt(E, g).prot
  BY EntryAtFacts
<1>6. Others(w, v, p) /\ Keeps(w, v, p, E)
  BY <1>2, <1>4, OthersCompose, KeepsCompose
<1> QED BY <1>2, <1>4, <1>5, <1>6

(* mm_handle_page_fault keeps what pages show; when it lets an access go   *)
(* on that the entry allows, Windows does too, and it gives up only on a   *)
(* block without a section.                                                *)
LEMMA FaultStep ==
  ASSUME NEW w, Sound(w), NEW p \in Proc, NEW g \in Page, NEW E \in SUBSET Entry,
         NEW access \in ReadWrite, NEW r, r = HandlePageFault(w, p, E, g, access)
  PROVE  /\ Sound(r.sections) /\ Others(w, r.sections, p) /\ Keeps(w, r.sections, p, E)
         /\ UsedBlocks(r.sections, p) \subseteq UsedBlocks(w, p) \cup {BlockOf(g)}
         /\ g \in Mapped(E) /\ access \in EntryAt(E, g).prot =>
              /\ r.ok => Permits(r.sections, p, g, access)
              /\ \/ r.ok
                 \/ w.handle[p][BlockOf(g)] = 0 /\ FirstPage(BlockOf(g)) \notin Mapped(E)
                 \/ access = "r" /\ BlockOf(g) \in w.loaded[p]
<1> DEFINE b == BlockOf(g)
           writable == g \in Mapped(E) /\ "w" \in EntryAt(E, g).prot
<1>1. b \in Block
  BY BlockFacts
<1>2. access = "r" \/ access = "w"
  BY DEF ReadWrite
<1>3. CASE w.handle[p][b] = 0
  <2> DEFINE v == LoadOnDemand(w, p, E, b)
  <2>1. r.sections = v /\ (r.ok <=> FirstPage(b) \in Mapped(E))
    BY <1>3 DEF HandlePageFault
  <2>2. v = LoadOnDemand(w, p, E, b)
    OBVIOUS
  <2> HIDE DEF v, b
  <2>3. /\ Sound(v) /\ Others(w, v, p) /\ Keeps(w, v, p, E)
        /\ UsedBlocks(v, p) = UsedBlocks(w, p) \cup {b} /\ b \in v.loaded[p]
        /\ \A h \in Page \cap Mapped(E) : BlockOf(h) = b => v.hw[p][h] = EntryAt(E, h).prot
    BY <1>1, <1>3, <2>2, OnDemandStep
  <2>4. g \in Mapped(E) /\ access \in EntryAt(E, g).prot => Permits(v, p, g, access)
    BY <2>3 DEF Permits, b
  <2> QED BY <1>3, <2>1, <2>3, <2>4 DEF b
<1>4. CASE w.handle[p][b] # 0 /\ access = "r"
  <2> DEFINE v == LoadDetached(w, p, E, b)
  <2>1. r.sections = v /\ (r.ok <=> b \notin w.loaded[p])
    BY <1>4 DEF HandlePageFault
  <2>2. CASE b \in w.loaded[p]
    <3>1. v = w
      BY <2>2 DEF LoadDetached
    <3> QED BY <3>1, <2>1, <2>2, <1>4 DEF Others, Keeps
  <2>3. CASE b \notin w.loaded[p]
    <3>1. v = LoadProtection(MapView(w, p, b), p, E, b, {"r"})
      BY <2>3 DEF LoadDetached
    <3>2. {"r"} \in SUBSET ReadWrite /\ "r" \in {"r"} /\ "w" \notin {"r"}
      BY DEF ReadWrite
    <3>3. b \in UsedBlocks(w, p)
      BY <1>1, <1>4 DEF UsedBlocks
    <3> HIDE DEF v, b
    <3>4. /\ Sound(v) /\ Others(w, v, p) /\ Keeps(w, v, p, E)
          /\ UsedBlocks(v, p) = UsedBlocks(w, p)
          /\ v.loaded[p] = w.loaded[p] \cup {b}
          /\ \A h \in Page \cap Mapped(E) : BlockOf(h) = b => v.hw[p][h] = EntryAt(E, h).prot \cap {"r"}
      BY <3>1, <3>2, <3>3, LoadStep
    <3>5. g \in Mapped(E) /\ access \in EntryAt(E, g).prot => Permits(v, p, g, access)
      BY <3>4, <1>4 DEF Permits, b
    <3> QED BY <2>1, <2>3, <3>4, <3>5, <1>4
  <2> QED BY <2>2, <2>3
<1>5. CASE w.handle[p][b] # 0 /\ access = "w" /\ writable
  <2> DEFINE v == CopyOnWrite(w, p, E, b)
  <2>1. r.sections = v /\ r.ok
    BY <1>5 DEF HandlePageFault
  <2>2. v = CopyOnWrite(w, p, E, b) /\ b \in UsedBlocks(w, p)
    BY <1>1, <1>5 DEF UsedBlocks
  <2> HIDE DEF v, b
  <2>3. /\ Sound(v) /\ Others(w, v, p) /\ Keeps(w, v, p, E)
        /\ UsedBlocks(v, p) = UsedBlocks(w, p) /\ b \in v.loaded[p]
        /\ \A h \in Page \cap Mapped(E) : BlockOf(h) = b => v.hw[p][h] = EntryAt(E, h).prot
    BY <2>2, CopyStep
  <2>4. g \in Mapped(E) /\ access \in EntryAt(E, g).prot => Permits(v, p, g, access)
    BY <2>3 DEF Permits, b
  <2> QED BY <2>1, <2>3, <2>4
<1>6. CASE w.handle[p][b] # 0 /\ access = "w" /\ ~writable
  <2>1. r.sections = w /\ ~r.ok
    BY <1>6 DEF HandlePageFault
  <2> QED BY <2>1, <1>6 DEF Others, Keeps
<1> QED BY <1>2, <1>3, <1>4, <1>5, <1>6

-----------------------------------------------------------------------------
(* Sections closed and their blocks unmapped.  Windows clears what nobody  *)
(* has open any more.                                                      *)
LEMMA CloseStep ==
  ASSUME NEW w, Sound(w), NEW p \in Proc, NEW B \in SUBSET Block, NEW v, v = CloseBlocks(w, p, B)
  PROVE  /\ Sound(v) /\ Others(w, v, p) /\ UsedBlocks(v, p) = UsedBlocks(w, p) \ B
         /\ v.loaded[p] = w.loaded[p] \ B
         /\ \A g \in Page : BlockOf(g) \notin B => \A E, m : Agrees(w, p, E, g, m) => Agrees(v, p, E, g, m)
<1> DEFINE u == [w EXCEPT !.handle[p] = [b \in Block |-> IF b \in B THEN 0 ELSE @[b]],
                          !.open[p] = @ \ {w.handle[p][b] : b \in B},
                          !.loaded[p] = @ \ B,
                          !.hw[p] = [g \in Page |-> IF BlockOf(g) \in B THEN {} ELSE @[g]]]
           C == [s \in Section |-> IF s \in FreeSections(u) THEN Zeros ELSE u.content[s]]
           R == {w.handle[p][b] : b \in B \cap UsedBlocks(w, p)}
<1>1. w \in SectionsType /\ Handles(w, p)
  BY DEF Sound
<1>0. /\ u = [w EXCEPT !.handle[p] = [b \in Block |-> IF b \in B THEN 0 ELSE @[b]],
                     !.open[p] = @ \ {w.handle[p][b] : b \in B},
                     !.loaded[p] = @ \ B,
                     !.hw[p] = [g \in Page |-> IF BlockOf(g) \in B THEN {} ELSE @[g]]]
      /\ v = Reclaim(u)
  BY DEF CloseBlocks
<1> HIDE DEF u
<1>2. /\ u.handle = [w.handle EXCEPT ![p] = [b \in Block |-> IF b \in B THEN 0 ELSE @[b]]]
      /\ u.open = [w.open EXCEPT ![p] = @ \ {w.handle[p][b] : b \in B}]
      /\ u.loaded = [w.loaded EXCEPT ![p] = @ \ B]
      /\ u.hw = [w.hw EXCEPT ![p] = [g \in Page |-> IF BlockOf(g) \in B THEN {} ELSE @[g]]]
      /\ u.content = w.content
      /\ u = [handle |-> u.handle, open |-> u.open, loaded |-> u.loaded, hw |-> u.hw,
              content |-> u.content]
  BY <1>0, <1>1 DEF SectionsType
<1>3. /\ v.handle = u.handle /\ v.open = u.open /\ v.loaded = u.loaded /\ v.hw = u.hw
      /\ v.content = C
      /\ v = [handle |-> v.handle, open |-> v.open, loaded |-> v.loaded, hw |-> v.hw,
              content |-> v.content]
  <2>1. v = [u EXCEPT !.content = C]
    BY <1>0 DEF Reclaim
  <2> HIDE DEF C
  <2> QED BY <1>2, <2>1
<1>4. u \in SectionsType
  <2>1. u.handle \in [Proc -> [Block -> Section \cup {0}]]
    <3>1. w.handle[p] \in [Block -> Section \cup {0}]
      BY <1>1, SectionsFields
    <3>2. [b \in Block |-> IF b \in B THEN 0 ELSE w.handle[p][b]] \in [Block -> Section \cup {0}]
      BY <3>1
    <3> QED BY <3>2, <1>1, <1>2, SectionsFields
  <2>2. u.open \in [Proc -> SUBSET Section]
    BY <1>1, <1>2, SectionsFields
  <2>3. u.loaded \in [Proc -> SUBSET Block]
    BY <1>1, <1>2, SectionsFields
  <2>4. u.hw \in [Proc -> [Page -> SUBSET ReadWrite]]
    <3>1. w.hw[p] \in [Page -> SUBSET ReadWrite]
      BY <1>1, SectionsFields
    <3>2. [g \in Page |-> IF BlockOf(g) \in B THEN {} ELSE w.hw[p][g]] \in [Page -> SUBSET ReadWrite]
      BY <3>1
    <3> QED BY <3>2, <1>1, <1>2, SectionsFields
  <2>5. u.content \in [Section -> [0 .. PagesPerBlock - 1 -> Nat]]
    BY <1>1, <1>2, SectionsFields
  <2> QED BY <1>2, <2>1, <2>2, <2>3, <2>4, <2>5 DEF SectionsType
<1>5. /\ C \in [Section -> [0 .. PagesPerBlock - 1 -> Nat]]
      /\ \A s \in Section : (\E q \in Proc : s \in u.open[q]) => C[s] = w.content[s]
  <2>1. Zeros \in [0 .. PagesPerBlock - 1 -> Nat]
    BY DEF Zeros
  <2>2. \A s \in Section : (\E q \in Proc : s \in u.open[q]) => s \notin FreeSections(u)
    BY <1>4, CountsHandles DEF FreeSections
  <2> QED BY <1>2, <1>4, <2>1, <2>2, SectionsFields
<1> HIDE DEF C
<1>6. v \in SectionsType
  BY <1>3, <1>4, <1>5, SectionsFields DEF SectionsType
<1>7. /\ \A q \in Proc : q # p => /\ v.handle[q] = w.handle[q] /\ v.open[q] = w.open[q]
                                  /\ v.loaded[q] = w.loaded[q] /\ v.hw[q] = w.hw[q]
      /\ \A c \in Block : v.handle[p][c] = IF c \in B THEN 0 ELSE w.handle[p][c]
      /\ v.loaded[p] = w.loaded[p] \ B
      /\ \A g \in Page : BlockOf(g) \notin B => v.hw[p][g] = w.hw[p][g]
      /\ \A q \in Proc : v.open[q] = u.open[q]
  BY <1>1, <1>2, <1>3, SectionsFields
<1>8. UsedBlocks(v, p) = UsedBlocks(w, p) \ B
  BY <1>7 DEF UsedBlocks
<1>9. v.open[p] = {w.handle[p][b] : b \in UsedBlocks(w, p) \ B}
  <2>1. v.open[p] = w.open[p] \ {w.handle[p][b] : b \in B}
    BY <1>1, <1>2, <1>3, SectionsFields
  <2>2. ASSUME NEW s \in v.open[p] PROVE \E b \in UsedBlocks(w, p) \ B : s = w.handle[p][b]
    BY <1>1, <2>1, <2>2 DEF Handles
  <2>3. ASSUME NEW b \in UsedBlocks(w, p) \ B PROVE w.handle[p][b] \in v.open[p]
    <3>1. w.handle[p][b] \in w.open[p] /\ w.handle[p][b] \in Section /\ b \in Block
      BY <1>1, SectionsFields DEF Handles, UsedBlocks
    <3>2. ASSUME NEW c \in B, w.handle[p][c] = w.handle[p][b] PROVE FALSE
      <4>1. c \in UsedBlocks(w, p)
        BY <3>1, <3>2, <1>1, SectionsFields DEF UsedBlocks
      <4> QED BY <3>2, <4>1, <1>1 DEF Handles
    <3> QED BY <2>1, <3>1, <3>2
  <2> QED BY <2>2, <2>3
<1>10. Handles(v, p)
  BY <1>1, <1>7, <1>8, <1>9 DEF Handles, UsedBlocks
<1>11. v.open[p] \subseteq w.open[p]
  BY <1>1, <1>9 DEF Handles
<1>12. Others(w, v, p)
  <2>1. ASSUME NEW q \in Proc, q # p, NEW s \in w.open[q]
        PROVE  v.content[s] = w.content[s]
    <3>1. s \in Section /\ s \in u.open[q]
      BY <1>1, <1>7, <2>1, SectionsFields
    <3> QED BY <3>1, <1>3, <1>5
  <2> QED BY <2>1, <1>7, <1>11 DEF Others
<1>13. Sound(v)
  BY <1>6, <1>10, <1>12, OthersKeep DEF Sound
<1>14. ASSUME NEW g \in Page, BlockOf(g) \notin B, NEW E, NEW m, Agrees(w, p, E, g, m)
       PROVE  Agrees(v, p, E, g, m)
  <2>1. BlockOf(g) \in Block
    BY BlockFacts
  <2>2. v.handle[p][BlockOf(g)] = w.handle[p][BlockOf(g)] /\ v.hw[p][g] = w.hw[p][g]
        /\ (BlockOf(g) \in v.loaded[p] <=> BlockOf(g) \in w.loaded[p])
    BY <1>7, <1>14, <2>1
  <2>3. ASSUME w.handle[p][BlockOf(g)] # 0
        PROVE  LET r == w.handle[p][BlockOf(g)]
               IN  r \in v.open[p] /\ r \in w.open[p] /\ r \in Section
    <3>1. BlockOf(g) \in UsedBlocks(w, p) \ B
      BY <1>14, <2>1, <2>3 DEF UsedBlocks
    <3>2. w.handle[p][BlockOf(g)] \in v.open[p]
      BY <3>1, <1>9
    <3> QED BY <3>2, <1>11, <1>1, SectionsFields
  <2>4. ASSUME w.handle[p][BlockOf(g)] # 0, Sole(w, p, w.handle[p][BlockOf(g)])
        PROVE  Sole(v, p, w.handle[p][BlockOf(g)])
    BY <2>3, <2>4, <1>7 DEF Sole
  <2>5. BlockOf(g) \in w.loaded[p] => w.handle[p][BlockOf(g)] # 0
    BY <1>1 DEF Handles, UsedBlocks
  <2>6. w.handle[p][BlockOf(g)] # 0 => v.content[w.handle[p][BlockOf(g)]] = w.content[w.handle[p][BlockOf(g)]]
    BY <2>3, <1>3, <1>5, <1>7
  <2> QED BY <2>2, <2>4, <2>5, <2>6, <1>14 DEF Agrees
<1> QED BY <1>7, <1>8, <1>12, <1>13, <1>14

(* free_map_entry_blocks for the pages G, of which E maps none.            *)
LEMMA FreeStep ==
  ASSUME NEW w, Sound(w), NEW p \in Proc, NEW G \in SUBSET Page, NEW E,
         NEW v, v = FreeBlocks(w, p, G, E)
  PROVE  /\ Sound(v) /\ Others(w, v, p) /\ UsedBlocks(v, p) \subseteq UsedBlocks(w, p)
         /\ \A g \in G : BlockOf(g) \in UsedBlocks(v, p) => BlockOf(g) \in {BlockOf(h) : h \in Mapped(E)}
         /\ \A g \in (Page \cap Mapped(E)) \ G : \A x, m : Agrees(w, p, x, g, m) => Agrees(v, p, x, g, m)
<1> DEFINE gone == {BlockOf(g) : g \in G} \ {BlockOf(g) : g \in Mapped(E)}
           c == CloseBlocks(w, p, gone)
<1>1. c = CloseBlocks(w, p, gone) /\ v = Protect(c, p, G, {})
  BY DEF FreeBlocks
<1>6. gone \in SUBSET Block
  BY BlockFacts
<1>2. /\ \A g \in Mapped(E) : BlockOf(g) \notin gone
      /\ \A g \in G : BlockOf(g) \notin gone => BlockOf(g) \in {BlockOf(h) : h \in Mapped(E)}
  OBVIOUS
<1> HIDE DEF gone, c
<1>3. /\ Sound(c) /\ Others(w, c, p) /\ UsedBlocks(c, p) = UsedBlocks(w, p) \ gone
      /\ \A g \in Page : BlockOf(g) \notin gone => \A x, m : Agrees(w, p, x, g, m) => Agrees(c, p, x, g, m)
  BY <1>1, <1>6, CloseStep
<1>4. /\ Sound(v) /\ Others(c, v, p) /\ UsedBlocks(v, p) = UsedBlocks(c, p)
      /\ \A g \in Page \ G : \A x, m : Agrees(c, p, x, g, m) => Agrees(v, p, x, g, m)
  <2>1. {} \in SUBSET ReadWrite
    OBVIOUS
  <2> QED BY <1>1, <1>3, <2>1, ProtectStep
<1>5. Others(w, v, p)
  BY <1>3, <1>4, OthersCompose
<1> QED BY <1>2, <1>3, <1>4, <1>5

(* Page g of process p with x in its section.                              *)
Stored(w, p, g, x) ==
  LET b == BlockOf(g)
  IN  Filled(w, p, b, [w.content[w.handle[p][b]] EXCEPT ![PageIn(g)] = x])

(* A store to a page Windows lets the process write and the entry does.    *)
LEMMA WriteStep ==
  ASSUME NEW w, Sound(w), NEW p \in Proc, NEW g \in Page, NEW E, NEW x \in Nat, NEW y,
         "w" \in EntryAt(E, g).prot, Permits(w, p, g, "w"), Agrees(w, p, E, g, y),
         NEW v, v = Stored(w, p, g, x)
  PROVE  /\ Sound(v) /\ Others(w, v, p) /\ UsedBlocks(v, p) = UsedBlocks(w, p)
         /\ Agrees(v, p, E, g, x)
         /\ \A h \in Page : \A m : h # g /\ Agrees(w, p, E, h, m) => Agrees(v, p, E, h, m)
<1> DEFINE b == BlockOf(g)
           s == w.handle[p][b]
           F == [w.content[s] EXCEPT ![PageIn(g)] = x]
<1>1. /\ b \in UsedBlocks(w, p) /\ b \in Block /\ Sole(w, p, s) /\ w \in SectionsType
      /\ PageIn(g) \in 0 .. PagesPerBlock - 1
  BY BlockFacts DEF Sound, Handles, UsedBlocks, Permits, Agrees
<1>2. s \in Section /\ w.content[s] \in [0 .. PagesPerBlock - 1 -> Nat]
  BY <1>1, SectionsFields DEF UsedBlocks
<1>3. /\ F \in [0 .. PagesPerBlock - 1 -> Nat]
      /\ F[PageIn(g)] = x
      /\ \A i \in 0 .. PagesPerBlock - 1 : i # PageIn(g) => F[i] = w.content[s][i]
  BY <1>1, <1>2
<1>4. v = Filled(w, p, b, F)
  BY DEF Stored
<1> HIDE DEF F
<1>5. /\ Sound(v) /\ Others(w, v, p) /\ UsedBlocks(v, p) = UsedBlocks(w, p)
      /\ v.handle = w.handle /\ v.open = w.open /\ v.loaded = w.loaded /\ v.hw = w.hw
      /\ v.content[s] = F
      /\ \A h \in Page : BlockOf(h) # b => \A e, m : Agrees(w, p, e, h, m) => Agrees(v, p, e, h, m)
  <2>1. b \in UsedBlocks(w, p) /\ Sole(w, p, w.handle[p][b])
    BY <1>1
  <2> HIDE DEF b
  <2> QED BY <1>3, <1>4, <2>1, ContentFields
<1>6. \A r : Sole(v, p, r) <=> Sole(w, p, r)
  BY <1>5 DEF Sole
<1>7. s # 0
  BY <1>1 DEF UsedBlocks
<1>8. Agrees(v, p, E, g, x)
  BY <1>3, <1>5, <1>6, <1>7 DEF Agrees
<1>9. ASSUME NEW h \in Page, NEW m, h # g, Agrees(w, p, E, h, m)
      PROVE  Agrees(v, p, E, h, m)
  <2>1. CASE BlockOf(h) # b
    BY <1>5, <1>9, <2>1
  <2>2. CASE BlockOf(h) = b
    <3>1. PageIn(h) \in 0 .. PagesPerBlock - 1 /\ PageIn(h) # PageIn(g)
      BY <1>9, <2>2, BlockFacts, SamePage
    <3>2. v.content[s][PageIn(h)] = w.content[s][PageIn(h)]
      BY <3>1, <1>3, <1>5
    <3> QED BY <2>2, <3>2, <1>5, <1>6, <1>7, <1>9 DEF Agrees
  <2> QED BY <2>1, <2>2
<1> QED BY <1>5, <1>8, <1>9
(* The pieces splitting makes of an entry (split_map_entry) are entries,   *)
(* cover the pages asked for and keep nothing else.                        *)
LEMMA PartEntry ==
  ASSUME NEW e \in Entry, NEW a \in Nat, NEW b \in Nat, e.start <= a, a <= b
  PROVE  /\ Part(e, a, b) \in Entry
         /\ Part(e, a, b).start = a
         /\ Part(e, a, b).end = b
<1>1. /\ e.start \in Nat /\ e.end \in Nat /\ e.prot \in SUBSET ReadWrite
      /\ e.file \in BOOLEAN /\ e.off \in Nat
  BY DEF Entry
<1>2. DEFINE off == IF e.file THEN e.off + (a - e.start) ELSE 0
<1>3. off \in Nat
  BY <1>1
<1>4. Part(e, a, b) = [e EXCEPT !.start = a, !.end = b, !.off = off]
  BY DEF Part
<1>5. HIDE DEF off
<1>6. e \in [start : Nat, end : Nat, prot : SUBSET ReadWrite,
             file : BOOLEAN, off : Nat]
  BY DEF Entry
<1>7. /\ Part(e, a, b) \in [start : Nat, end : Nat, prot : SUBSET ReadWrite,
                            file : BOOLEAN, off : Nat]
      /\ Part(e, a, b).start = a
      /\ Part(e, a, b).end = b
  BY <1>3, <1>4, <1>6
<1>8. QED
  BY <1>7 DEF Entry

(* Every entry left outside a .. b (munmap_internal_unsafe) is a piece of  *)
(* an old entry on one side of it: the whole entry, its left or its right  *)
(* end.                                                                    *)
LEMMA OutsidePieces ==
  ASSUME NEW E \in SUBSET Entry, NEW a \in Nat, NEW b \in Nat, a <= b,
         NEW x \in Outside(E, a, b)
  PROVE  /\ x \in Entry
         /\ \E e \in E :
              \/ x = e /\ ~Overlaps(e, a, b)
              \/ /\ Overlaps(e, a, b) /\ e.start < a
                 /\ x = Part(e, e.start, a - 1) /\ x.start = e.start /\ x.end = a - 1
              \/ /\ Overlaps(e, a, b) /\ e.end > b
                 /\ x = Part(e, b + 1, e.end) /\ x.start = b + 1 /\ x.end = e.end
<1>1. CASE x \in {e \in E : ~Overlaps(e, a, b)}
  BY <1>1
<1>2. CASE \E e \in E : Overlaps(e, a, b) /\ e.start < a /\ x = Part(e, e.start, a - 1)
  <2>1. PICK e \in E : Overlaps(e, a, b) /\ e.start < a /\ x = Part(e, e.start, a - 1)
    BY <1>2
  <2>2. e \in Entry /\ e.start \in Nat /\ e.end \in Nat
    BY DEF Entry
  <2>3. a - 1 \in Nat /\ e.start <= a - 1
    BY <2>1, <2>2
  <2>4. x \in Entry /\ x.start = e.start /\ x.end = a - 1
    BY <2>1, <2>2, <2>3, PartEntry
  <2>5. QED
    BY <2>1, <2>4
<1>3. CASE \E e \in E : Overlaps(e, a, b) /\ e.end > b /\ x = Part(e, b + 1, e.end)
  <2>1. PICK e \in E : Overlaps(e, a, b) /\ e.end > b /\ x = Part(e, b + 1, e.end)
    BY <1>3
  <2>2. e \in Entry /\ e.start \in Nat /\ e.end \in Nat
    BY DEF Entry
  <2>3. b + 1 \in Nat /\ e.start <= b + 1 /\ b + 1 <= e.end
    BY <2>1, <2>2 DEF Overlaps
  <2>4. x \in Entry /\ x.start = b + 1 /\ x.end = e.end
    BY <2>1, <2>2, <2>3, PartEntry
  <2>5. QED
    BY <2>1, <2>4
<1>4. QED
  BY <1>1, <1>2, <1>3 DEF Outside

(* Every entry inside a .. b (mprotect) is an old entry cut to a .. b. *)
LEMMA InsidePieces ==
  ASSUME NEW E \in SUBSET Entry, NEW a \in Nat, NEW b \in Nat, a <= b,
         NEW x \in Inside(E, a, b)
  PROVE  /\ x \in Entry
         /\ \E e \in E :
              /\ x = Part(e, Max2(a, e.start), Min2(b, e.end))
              /\ x.start = Max2(a, e.start) /\ x.end = Min2(b, e.end)
              /\ a <= x.start /\ x.end <= b
              /\ e.start <= x.start /\ x.end <= e.end
<1>1. PICK e \in E : /\ Overlaps(e, a, b)
                     /\ x = Part(e, Max2(a, e.start), Min2(b, e.end))
  BY DEF Inside
<1>2. e \in Entry /\ e.start \in Nat /\ e.end \in Nat /\ e.start <= e.end
  BY DEF Entry
<1>3. /\ Max2(a, e.start) \in Nat /\ Min2(b, e.end) \in Nat
      /\ e.start <= Max2(a, e.start) /\ a <= Max2(a, e.start)
      /\ Min2(b, e.end) <= e.end /\ Min2(b, e.end) <= b
      /\ Max2(a, e.start) <= Min2(b, e.end)
  BY <1>1, <1>2 DEF Max2, Min2, Overlaps
<1>4. x \in Entry /\ x.start = Max2(a, e.start) /\ x.end = Min2(b, e.end)
  BY <1>1, <1>2, <1>3, PartEntry
<1>5. QED
  BY <1>1, <1>3, <1>4

(* What a munmap leaves is a partition, with nothing in a .. b. *)
LEMMA CutPartition ==
  ASSUME NEW E, Partition(E), NEW a \in Nat, NEW b \in Nat, a <= b
  PROVE  /\ Partition(Cut(E, a, b))
         /\ \A x \in Cut(E, a, b) : ~Overlaps(x, a, b)
<1> E \in SUBSET Entry
  BY DEF Partition
<1>1. ASSUME NEW x \in Outside(E, a, b)
      PROVE  x \in Entry /\ ~Overlaps(x, a, b)
  <2>1. x \in Entry
    BY OutsidePieces
  <2>2. PICK e \in E :
          \/ x = e /\ ~Overlaps(e, a, b)
          \/ x.end = a - 1
          \/ x.start = b + 1
    BY OutsidePieces
  <2>3. x.start \in Nat /\ x.end \in Nat
    BY <2>1 DEF Entry
  <2>4. QED
    BY <2>1, <2>2, <2>3 DEF Overlaps
<1>2. ASSUME NEW x \in Outside(E, a, b), NEW y \in Outside(E, a, b), x # y
      PROVE  ~Overlaps(x, y.start, y.end)
  <2>1. PICK e \in E :
          \/ x = e /\ ~Overlaps(e, a, b)
          \/ /\ Overlaps(e, a, b) /\ e.start < a
             /\ x = Part(e, e.start, a - 1) /\ x.start = e.start /\ x.end = a - 1
          \/ /\ Overlaps(e, a, b) /\ e.end > b
             /\ x = Part(e, b + 1, e.end) /\ x.start = b + 1 /\ x.end = e.end
    BY OutsidePieces
  <2>2. PICK f \in E :
          \/ y = f /\ ~Overlaps(f, a, b)
          \/ /\ Overlaps(f, a, b) /\ f.start < a
             /\ y = Part(f, f.start, a - 1) /\ y.start = f.start /\ y.end = a - 1
          \/ /\ Overlaps(f, a, b) /\ f.end > b
             /\ y = Part(f, b + 1, f.end) /\ y.start = b + 1 /\ y.end = f.end
    BY OutsidePieces
  <2>3. /\ e.start \in Nat /\ e.end \in Nat /\ f.start \in Nat /\ f.end \in Nat
        /\ x.start \in Nat /\ x.end \in Nat /\ y.start \in Nat /\ y.end \in Nat
    BY <1>1 DEF Entry
  <2>4. CASE e = f
    BY <1>2, <2>1, <2>2, <2>3, <2>4 DEF Overlaps
  <2>5. CASE e # f
    <3>1. ~Overlaps(e, f.start, f.end)
      BY <2>5 DEF Partition, DisjointEntries
    <3>2. e.start <= x.start /\ x.end <= e.end
      BY <2>1, <2>3 DEF Overlaps
    <3>3. f.start <= y.start /\ y.end <= f.end
      BY <2>2, <2>3 DEF Overlaps
    <3>4. QED
      BY <3>1, <3>2, <3>3, <2>3 DEF Overlaps
  <2>6. QED
    BY <2>4, <2>5
<1>3. QED
  BY <1>1, <1>2 DEF Cut, Partition, DisjointEntries

(* What an mprotect leaves is a partition. *)
LEMMA PaintPartition ==
  ASSUME NEW E, Partition(E), NEW a \in Nat, NEW b \in Nat, a <= b,
         NEW prot \in SUBSET ReadWrite
  PROVE  Partition(Paint(E, a, b, prot))
<1> DEFINE P == {[e EXCEPT !.prot = prot] : e \in Inside(E, a, b)}
<1> E \in SUBSET Entry
  BY DEF Partition
<1>1. Partition(Outside(E, a, b)) /\ \A x \in Outside(E, a, b) : ~Overlaps(x, a, b)
  BY CutPartition DEF Cut
<1>2. ASSUME NEW x \in P
      PROVE  /\ x \in Entry
             /\ \E e \in E :
                  /\ x = [Part(e, Max2(a, e.start), Min2(b, e.end)) EXCEPT !.prot = prot]
                  /\ a <= x.start /\ x.end <= b
                  /\ e.start <= x.start /\ x.end <= e.end
  <2>1. PICK i \in Inside(E, a, b) : x = [i EXCEPT !.prot = prot]
    OBVIOUS
  <2>2. i \in Entry
    BY InsidePieces
  <2>3. x \in Entry /\ x.start = i.start /\ x.end = i.end
    BY <2>1, <2>2 DEF Entry
  <2>4. PICK e \in E : /\ i = Part(e, Max2(a, e.start), Min2(b, e.end))
                       /\ a <= i.start /\ i.end <= b
                       /\ e.start <= i.start /\ i.end <= e.end
    BY InsidePieces
  <2>5. QED
    BY <2>1, <2>3, <2>4
<1>3. ASSUME NEW x \in P, NEW y \in P, x # y
      PROVE  ~Overlaps(x, y.start, y.end)
  <2>1. PICK e \in E :
          /\ x = [Part(e, Max2(a, e.start), Min2(b, e.end)) EXCEPT !.prot = prot]
          /\ e.start <= x.start /\ x.end <= e.end
    BY <1>2
  <2>2. PICK f \in E :
          /\ y = [Part(f, Max2(a, f.start), Min2(b, f.end)) EXCEPT !.prot = prot]
          /\ f.start <= y.start /\ y.end <= f.end
    BY <1>2
  <2>3. ~Overlaps(e, f.start, f.end)
    BY <1>3, <2>1, <2>2 DEF Partition, DisjointEntries
  <2>4. /\ e.start \in Nat /\ e.end \in Nat /\ f.start \in Nat /\ f.end \in Nat
        /\ x.start \in Nat /\ x.end \in Nat /\ y.start \in Nat /\ y.end \in Nat
    BY <1>2 DEF Entry
  <2>5. QED
    BY <2>1, <2>2, <2>3, <2>4 DEF Overlaps
<1>4. ASSUME NEW x \in Outside(E, a, b), NEW y \in P
      PROVE  ~Overlaps(x, y.start, y.end) /\ ~Overlaps(y, x.start, x.end)
  <2>1. a <= y.start /\ y.end <= b
    BY <1>2
  <2>2. ~Overlaps(x, a, b)
    BY <1>1
  <2>3. /\ x.start \in Nat /\ x.end \in Nat /\ y.start \in Nat /\ y.end \in Nat
    BY <1>1, <1>2 DEF Entry, Partition
  <2>4. QED
    BY <2>1, <2>2, <2>3 DEF Overlaps
<1>5. Paint(E, a, b, prot) = Outside(E, a, b) \cup P
  BY DEF Paint
<1> HIDE DEF P
<1>6. QED
  BY <1>1, <1>2, <1>3, <1>4, <1>5 DEF Partition, DisjointEntries

(* A new entry (mmap_internal) over pages nothing overlaps. *)
LEMMA AddPartition ==
  ASSUME NEW E, Partition(E), NEW e \in Entry,
         \A x \in E : ~Overlaps(x, e.start, e.end)
  PROVE  Partition(E \cup {e})
<1>1. ASSUME NEW x \in E PROVE ~Overlaps(e, x.start, x.end)
  <2>1. /\ x.start \in Nat /\ x.end \in Nat /\ e.start \in Nat /\ e.end \in Nat
    BY DEF Partition, Entry
  <2>2. QED
    BY <2>1 DEF Overlaps
<1>2. QED
  BY <1>1 DEF Partition, DisjointEntries


(* mm_fork: the child has the parent's handles and nothing mapped; what    *)
(* either may write is taken from the parent's hardware.                   *)
LEMMA ForkStep ==
  ASSUME NEW w, Sound(w), NEW p \in Proc, NEW c \in Proc, c # p, w.loaded[c] = {},
         NEW E \in SUBSET Entry, NEW v, v = ForkSections(w, p, c, E)
  PROVE  /\ Sound(v) /\ UsedBlocks(v, c) = UsedBlocks(w, p)
         /\ \A q \in Proc : q # c => UsedBlocks(v, q) = UsedBlocks(w, q)
         /\ v.loaded = w.loaded
         /\ \A g \in Page \cap Mapped(E) : \A m :
              Agrees(w, p, E, g, m) => Agrees(v, p, E, g, m) /\ Agrees(v, c, E, g, m)
         /\ \A q \in Proc \ {p, c} : \A F : Keeps(w, v, q, F)
<1> DEFINE cow == {g \in Mapped(E) : "w" \in EntryAt(E, g).prot}
           X == [g \in Page |-> IF g \in cow /\ BlockOf(g) \in w.loaded[p]
                                THEN EntryAt(E, g).prot \ {"w"} ELSE w.hw[p][g]]
<1>1. w \in SectionsType /\ w.hw[p] \in [Page -> SUBSET ReadWrite]
  BY SectionsFields DEF Sound
<1>2. X \in [Page -> SUBSET ReadWrite]
  <2>1. \A g \in cow : EntryAt(E, g).prot \in SUBSET ReadWrite
    BY EntryAtFacts
  <2> QED BY <1>1, <2>1
<1>3. \A g \in Page : X[g] = IF g \in cow /\ BlockOf(g) \in w.loaded[p]
                             THEN EntryAt(E, g).prot \ {"w"} ELSE w.hw[p][g]
  OBVIOUS
<1>4. v = [w EXCEPT !.handle[c] = w.handle[p], !.open[c] = w.open[p], !.hw[p] = X]
  BY <1>1 DEF ForkSections, SectionsType
<1>5. \A g \in Mapped(E) : "w" \in EntryAt(E, g).prot => g \in cow
  OBVIOUS
<1> HIDE DEF X, cow
<1>6. /\ v.handle = [w.handle EXCEPT ![c] = w.handle[p]]
      /\ v.open = [w.open EXCEPT ![c] = w.open[p]]
      /\ v.hw = [w.hw EXCEPT ![p] = X]
      /\ v.loaded = w.loaded /\ v.content = w.content
      /\ v = [handle |-> v.handle, open |-> v.open, loaded |-> v.loaded, hw |-> v.hw,
              content |-> v.content]
  BY <1>1, <1>4 DEF SectionsType
<1>7. v \in SectionsType
  <2>1. /\ v.handle \in [Proc -> [Block -> Section \cup {0}]]
        /\ v.open \in [Proc -> SUBSET Section]
        /\ v.hw \in [Proc -> [Page -> SUBSET ReadWrite]]
        /\ v.loaded \in [Proc -> SUBSET Block]
        /\ v.content \in [Section -> [0 .. PagesPerBlock - 1 -> Nat]]
    BY <1>1, <1>2, <1>6, SectionsFields
  <2> QED BY <1>6, <2>1 DEF SectionsType
<1>8. /\ v.handle[c] = w.handle[p] /\ v.open[c] = w.open[p] /\ v.hw[p] = X
      /\ \A q \in Proc : q # c => v.handle[q] = w.handle[q] /\ v.open[q] = w.open[q]
      /\ \A q \in Proc : q # p => v.hw[q] = w.hw[q]
  BY <1>1, <1>6, SectionsFields
<1>9. /\ UsedBlocks(v, c) = UsedBlocks(w, p)
      /\ \A q \in Proc : q # c => UsedBlocks(v, q) = UsedBlocks(w, q)
  BY <1>8 DEF UsedBlocks
<1>10. Sound(v)
  <2>1. Handles(v, c)
    BY <1>6, <1>8, <1>9 DEF Sound, Handles
  <2>2. ASSUME NEW q \in Proc, q # c PROVE Handles(v, q)
    BY <1>6, <1>8, <1>9, <2>2 DEF Sound, Handles
  <2> QED BY <1>7, <2>1, <2>2 DEF Sound
<1>11. ASSUME NEW g \in Page \cap Mapped(E), NEW m, Agrees(w, p, E, g, m)
       PROVE  Agrees(v, p, E, g, m) /\ Agrees(v, c, E, g, m)
  <2>1. Agrees(v, c, E, g, m)
    BY <1>6, <1>8, <1>11 DEF Agrees
  <2>2. BlockOf(g) \in w.loaded[p] =>
          /\ "r" \in EntryAt(E, g).prot => "r" \in X[g]
          /\ "w" \in EntryAt(E, g).prot => "w" \notin X[g]
    BY <1>3, <1>5, <1>11 DEF Agrees
  <2>3. Agrees(v, p, E, g, m)
    BY <2>2, <1>6, <1>8, <1>11 DEF Agrees
  <2> QED BY <2>1, <2>3
<1>12. ASSUME NEW q \in Proc \ {p, c}, NEW F, NEW g \in Page, NEW m, Agrees(w, q, F, g, m)
       PROVE  Agrees(v, q, F, g, m)
  <2>1. ASSUME NEW s, Sole(w, q, s) PROVE Sole(v, q, s)
    BY <2>1, <1>8 DEF Sole
  <2> QED BY <2>1, <1>6, <1>8, <1>12 DEF Agrees
<1> QED BY <1>6, <1>9, <1>10, <1>11, <1>12 DEF Keeps

-----------------------------------------------------------------------------
(* What the splits leave of a page: the protection and the data.           *)
SameAt(E, F, g) ==
  /\ EntryAt(F, g).prot = EntryAt(E, g).prot
  /\ Data(EntryAt(F, g), g) = Data(EntryAt(E, g), g)

(* A page whose entry was only split agrees as before.                     *)
LEMMA SameAgrees ==
  ASSUME NEW E, NEW F, NEW g, SameAt(E, F, g), NEW w, NEW p, NEW m, Agrees(w, p, E, g, m)
  PROVE  Agrees(w, p, F, g, m)
  BY DEF SameAt, Agrees

(* A piece of an entry has its protection and, offset moved, its data.     *)
LEMMA PartData ==
  ASSUME NEW e \in Entry, NEW a \in Nat, NEW b \in Nat, NEW g \in Nat
  PROVE  Part(e, a, b).prot = e.prot /\ Data(Part(e, a, b), g) = Data(e, g)
<1> DEFINE off == IF e.file THEN e.off + (a - e.start) ELSE 0
           x == [e EXCEPT !.start = a, !.end = b, !.off = off]
<1>1. /\ e.start \in Nat /\ e.end \in Nat /\ e.off \in Nat
      /\ e \in [start : Nat, end : Nat, prot : SUBSET ReadWrite, file : BOOLEAN, off : Nat]
  BY DEF Entry
<1>2. Part(e, a, b) = x
  BY DEF Part
<1>3. x.start = a /\ x.file = e.file /\ x.prot = e.prot /\ x.off = off
  <2> HIDE DEF off
  <2> QED BY <1>1
<1>4. e.file => off + (g - a) = e.off + (g - e.start)
  BY <1>1
<1> HIDE DEF x, off
<1> QED BY <1>2, <1>3, <1>4 DEF Data

(* munmap: what is outside a .. b stays mapped, and stays the same.        *)
LEMMA CutEntries ==
  ASSUME NEW E, Partition(E), NEW a \in Nat, NEW b \in Nat, a <= b
  PROVE  /\ Mapped(Cut(E, a, b)) = Mapped(E) \ (a .. b)
         /\ \A g \in Mapped(Cut(E, a, b)) : SameAt(E, Cut(E, a, b), g)
<1> DEFINE F == Cut(E, a, b)
<1> E \in SUBSET Entry
  BY DEF Partition
<1>1. Partition(F) /\ F = Outside(E, a, b)
  BY CutPartition DEF Cut
<1> HIDE DEF F
<1>2. ASSUME NEW x \in F, NEW g \in Span(x)
      PROVE  g \in Mapped(E) /\ g \notin a .. b /\ SameAt(E, F, g)
  <2>1. PICK e \in E :
          \/ x = e /\ ~Overlaps(e, a, b)
          \/ /\ Overlaps(e, a, b) /\ e.start < a
             /\ x = Part(e, e.start, a - 1) /\ x.start = e.start /\ x.end = a - 1
          \/ /\ Overlaps(e, a, b) /\ e.end > b
             /\ x = Part(e, b + 1, e.end) /\ x.start = b + 1 /\ x.end = e.end
    BY <1>1, OutsidePieces
  <2>2. /\ e \in Entry /\ e.start \in Nat /\ e.end \in Nat
        /\ x \in Entry /\ x.start \in Nat /\ x.end \in Nat /\ g \in Nat
        /\ x.start <= g /\ g <= x.end
    BY <1>1 DEF Partition, Entry, Span
  <2>3. g \in Span(e) /\ g \notin a .. b
    BY <2>1, <2>2 DEF Span, Overlaps
  <2>4. EntryAt(E, g) = e /\ EntryAt(F, g) = x
    BY <1>1, <2>3, EntryAtUnique
  <2>5. x.prot = e.prot /\ Data(x, g) = Data(e, g)
    <3>1. a - 1 \in Nat \/ ~(e.start < a)
      BY <2>2
    <3>2. CASE x = e
      BY <3>2
    <3>3. CASE e.start < a /\ x = Part(e, e.start, a - 1)
      BY <2>2, <3>1, <3>3, PartData
    <3>4. CASE x = Part(e, b + 1, e.end)
      <4>1. b + 1 \in Nat
        OBVIOUS
      <4> QED BY <2>2, <3>4, <4>1, PartData
    <3> QED BY <2>1, <3>2, <3>3, <3>4
  <2> QED BY <2>3, <2>4, <2>5 DEF SameAt, Mapped
<1>3. ASSUME NEW e \in E, NEW g \in Span(e), g \notin a .. b
      PROVE  g \in Mapped(F)
  <2>1. e \in Entry /\ e.start \in Nat /\ e.end \in Nat /\ g \in Nat /\ e.start <= g /\ g <= e.end
    BY DEF Entry, Span
  <2>2. CASE ~Overlaps(e, a, b)
    <3>1. e \in F
      BY <1>1, <2>2 DEF Outside
    <3> QED BY <3>1 DEF Mapped
  <2>3. CASE Overlaps(e, a, b) /\ g < a
    <3>1. a - 1 \in Nat /\ e.start <= a - 1 /\ e.start < a /\ g <= a - 1
      BY <2>1, <2>3
    <3>2. Part(e, e.start, a - 1) \in F
      BY <1>1, <2>3, <3>1 DEF Outside
    <3>3. g \in Span(Part(e, e.start, a - 1))
      BY <2>1, <3>1, PartEntry DEF Span
    <3> QED BY <3>2, <3>3 DEF Mapped
  <2>4. CASE Overlaps(e, a, b) /\ g > b
    <3>1. b + 1 \in Nat /\ b + 1 <= e.end /\ e.end > b /\ b + 1 <= g /\ e.start <= b + 1
      BY <2>1, <2>4 DEF Overlaps
    <3>2. Part(e, b + 1, e.end) \in F
      BY <1>1, <2>4, <3>1 DEF Outside
    <3>3. g \in Span(Part(e, b + 1, e.end))
      BY <2>1, <3>1, PartEntry DEF Span
    <3> QED BY <3>2, <3>3 DEF Mapped
  <2> QED BY <1>3, <2>1, <2>2, <2>3, <2>4
<1>4. \A g : g \in Mapped(F) <=> \E x \in F : g \in Span(x)
  BY DEF Mapped
<1>5. \A g : g \in Mapped(E) <=> \E x \in E : g \in Span(x)
  BY DEF Mapped
<1> QED BY <1>2, <1>3, <1>4, <1>5 DEF F

(* mprotect: the pages inside get the protection and keep their data.      *)
LEMMA PaintEntries ==
  ASSUME NEW E, Partition(E), NEW a \in Nat, NEW b \in Nat, a <= b,
         NEW prot \in SUBSET ReadWrite
  PROVE  LET F == Paint(E, a, b, prot)
         IN  /\ Mapped(F) = Mapped(E)
             /\ \A g \in Mapped(E) :
                  /\ EntryAt(F, g).prot = IF g \in a .. b THEN prot ELSE EntryAt(E, g).prot
                  /\ Data(EntryAt(F, g), g) = Data(EntryAt(E, g), g)
<1> DEFINE F == Paint(E, a, b, prot)
           P == {[i EXCEPT !.prot = prot] : i \in Inside(E, a, b)}
<1> E \in SUBSET Entry
  BY DEF Partition
<1>1. Partition(F) /\ F = Cut(E, a, b) \cup P
  <2>1. Partition(Paint(E, a, b, prot))
    BY PaintPartition
  <2>2. Paint(E, a, b, prot) = Cut(E, a, b) \cup P
    BY DEF Paint, Cut
  <2> QED BY <2>1, <2>2
<1>2. ASSUME NEW i \in Inside(E, a, b), NEW g \in Span(i)
      PROVE  /\ g \in Mapped(E) /\ g \in a .. b
             /\ Data([i EXCEPT !.prot = prot], g) = Data(EntryAt(E, g), g)
  <2>1. PICK e \in E : /\ i = Part(e, Max2(a, e.start), Min2(b, e.end))
                       /\ i.start = Max2(a, e.start) /\ i.end = Min2(b, e.end)
                       /\ a <= i.start /\ i.end <= b
                       /\ e.start <= i.start /\ i.end <= e.end
    BY InsidePieces
  <2>2. /\ e \in Entry /\ e.start \in Nat /\ e.end \in Nat
        /\ i \in Entry /\ i.start \in Nat /\ i.end \in Nat /\ g \in Nat
        /\ i.start <= g /\ g <= i.end
    <3>1. i \in Entry
      BY InsidePieces
    <3> QED BY <3>1 DEF Entry, Span
  <2>3. g \in Span(e) /\ g \in a .. b
    BY <2>1, <2>2 DEF Span
  <2>4. EntryAt(E, g) = e
    BY <2>3, EntryAtUnique
  <2>5. Data(i, g) = Data(e, g)
    <3>1. Max2(a, e.start) \in Nat /\ Min2(b, e.end) \in Nat
      BY <2>2 DEF Max2, Min2
    <3> QED BY <2>1, <2>2, <3>1, PartData
  <2>6. Data([i EXCEPT !.prot = prot], g) = Data(i, g)
    <3>1. i \in [start : Nat, end : Nat, prot : SUBSET ReadWrite, file : BOOLEAN, off : Nat]
      BY <2>2 DEF Entry
    <3>2. [i EXCEPT !.prot = prot].file = i.file /\ [i EXCEPT !.prot = prot].off = i.off
          /\ [i EXCEPT !.prot = prot].start = i.start
      BY <3>1
    <3> QED BY <3>2 DEF Data
  <2> QED BY <2>3, <2>4, <2>5, <2>6 DEF Mapped
<1>3. ASSUME NEW x \in P, NEW g \in Span(x)
      PROVE  g \in Mapped(E) /\ g \in a .. b /\ Data(x, g) = Data(EntryAt(E, g), g) /\ x.prot = prot
  <2>1. PICK i \in Inside(E, a, b) : x = [i EXCEPT !.prot = prot]
    OBVIOUS
  <2>2. i \in [start : Nat, end : Nat, prot : SUBSET ReadWrite, file : BOOLEAN, off : Nat]
    BY InsidePieces DEF Entry
  <2>3. x.start = i.start /\ x.end = i.end /\ x.prot = prot
    BY <2>1, <2>2
  <2>4. g \in Span(i)
    BY <2>3 DEF Span
  <2> QED BY <1>2, <2>1, <2>3, <2>4
<1>4. ASSUME NEW e \in E, NEW g \in Span(e), g \in a .. b
      PROVE  \E x \in P : g \in Span(x)
  <2>1. e \in Entry /\ e.start \in Nat /\ e.end \in Nat /\ g \in Nat /\ e.start <= g /\ g <= e.end
    BY DEF Entry, Span
  <2>2. Overlaps(e, a, b)
    BY <1>4, <2>1 DEF Overlaps
  <2> DEFINE i == Part(e, Max2(a, e.start), Min2(b, e.end))
  <2>3. i \in Inside(E, a, b)
    BY <2>2 DEF Inside
  <2>4. /\ Max2(a, e.start) \in Nat /\ Min2(b, e.end) \in Nat
        /\ e.start <= Max2(a, e.start) /\ Max2(a, e.start) <= g /\ g <= Min2(b, e.end)
    BY <1>4, <2>1 DEF Max2, Min2
  <2>5. i \in Entry /\ i.start = Max2(a, e.start) /\ i.end = Min2(b, e.end)
    BY <2>1, <2>4, PartEntry
  <2> HIDE DEF i
  <2>6. [i EXCEPT !.prot = prot] \in P
    BY <2>3
  <2>7. [i EXCEPT !.prot = prot].start = i.start /\ [i EXCEPT !.prot = prot].end = i.end
    BY <2>5 DEF Entry
  <2>8. g \in Span([i EXCEPT !.prot = prot])
    BY <2>1, <2>4, <2>5, <2>7 DEF Span
  <2> QED BY <2>6, <2>8
<1> HIDE DEF P, F
<1>5. /\ Mapped(Cut(E, a, b)) = Mapped(E) \ (a .. b)
      /\ \A g \in Mapped(Cut(E, a, b)) : SameAt(E, Cut(E, a, b), g)
      /\ Cut(E, a, b) \in SUBSET Entry
  BY CutEntries, CutPartition DEF Partition
<1>6. ASSUME NEW g \in Mapped(E)
      PROVE  /\ g \in Mapped(F)
             /\ EntryAt(F, g).prot = IF g \in a .. b THEN prot ELSE EntryAt(E, g).prot
             /\ Data(EntryAt(F, g), g) = Data(EntryAt(E, g), g)
  <2>1. CASE g \in a .. b
    <3>1. PICK x \in P : g \in Span(x)
      BY <1>4, <2>1 DEF Mapped
    <3>2. EntryAt(F, g) = x /\ g \in Mapped(F)
      BY <1>1, <3>1, EntryAtUnique DEF Mapped
    <3> QED BY <1>3, <2>1, <3>1, <3>2
  <2>2. CASE g \notin a .. b
    <3> DEFINE x == EntryAt(Cut(E, a, b), g)
    <3>1. x \in Cut(E, a, b) /\ g \in Span(x) /\ SameAt(E, Cut(E, a, b), g)
      BY <1>5, <2>2, EntryAtFacts
    <3>2. x \in F
      BY <1>1, <3>1
    <3>3. EntryAt(F, g) = x /\ g \in Mapped(F)
      BY <1>1, <3>1, <3>2, EntryAtUnique DEF Mapped
    <3> QED BY <2>2, <3>1, <3>3 DEF SameAt
  <2> QED BY <2>1, <2>2
<1>7. ASSUME NEW g \in Mapped(F) PROVE g \in Mapped(E)
  <2>1. PICK x \in F : g \in Span(x)
    BY DEF Mapped
  <2>2. CASE x \in P
    BY <1>3, <2>1, <2>2
  <2>3. CASE x \in Cut(E, a, b)
    <3>1. g \in Mapped(Cut(E, a, b))
      BY <2>1, <2>3 DEF Mapped
    <3> QED BY <1>5, <3>1
  <2> QED BY <1>1, <2>1, <2>2, <2>3
<1> QED BY <1>6, <1>7 DEF F

(* mmap: the new pages get the new entry, the others keep theirs.          *)
LEMMA AddEntries ==
  ASSUME NEW E, NEW e, Partition(E), Partition(E \cup {e})
  PROVE  /\ Mapped(E \cup {e}) = Mapped(E) \cup Span(e)
         /\ \A g \in Mapped(E) : SameAt(E, E \cup {e}, g)
         /\ \A g \in Span(e) : EntryAt(E \cup {e}, g) = e
<1>1. ASSUME NEW g \in Mapped(E) PROVE SameAt(E, E \cup {e}, g)
  <2>1. EntryAt(E, g) \in E /\ g \in Span(EntryAt(E, g))
    BY EntryAtFacts DEF Partition
  <2>2. EntryAt(E, g) \in E \cup {e}
    BY <2>1
  <2>3. EntryAt(E \cup {e}, g) = EntryAt(E, g)
    BY <2>1, <2>2, EntryAtUnique
  <2> QED BY <2>3 DEF SameAt
<1>2. ASSUME NEW g \in Span(e) PROVE EntryAt(E \cup {e}, g) = e
  <2>1. e \in E \cup {e}
    OBVIOUS
  <2> QED BY <2>1, EntryAtUnique
<1>3. Mapped(E \cup {e}) = Mapped(E) \cup Span(e)
  BY DEF Mapped
<1> QED BY <1>1, <1>2, <1>3

-----------------------------------------------------------------------------
(* The system calls and faults of Memory. *)

(* The first and the last block of the address space cannot lie in the     *)
(* middle of a new mapping: there a section left behind for an address     *)
(* nothing was mapped at does no harm.                                     *)
AtEnd(b) == (\A c \in Block : c <= b) \/ (\A c \in Block : b <= c)
WildAtEnds == \A h \in WildPages : AtEnd(BlockOf(h))

(* A process with the entries E, whose program should see m, among the     *)
(* sections w.                                                             *)
MapInv(w, p, E, m) ==
  /\ Partition(E) /\ Mapped(E) \subseteq Page
  /\ UsedBlocks(w, p) \subseteq {BlockOf(g) : g \in Mapped(E) \cup WildPages}
  /\ m \in [Page -> Nat]
  /\ WildAtEnds => \A g \in Mapped(E) : Agrees(w, p, E, g, m[g])

(* Another process's step.                                                 *)
LEMMA MapOthers ==
  ASSUME NEW w, Sound(w), NEW p \in Proc, NEW v, Others(w, v, p),
         NEW q \in Proc, q # p, NEW E, NEW m, MapInv(w, q, E, m)
  PROVE  MapInv(v, q, E, m)
<1>1. Keeps(w, v, q, E)
  BY OthersKeep
<1>2. UsedBlocks(v, q) = UsedBlocks(w, q)
  BY DEF Others, UsedBlocks
<1>3. WildAtEnds => \A g \in Mapped(E) : Agrees(v, q, E, g, m[g])
  BY <1>1 DEF MapInv, Keeps
<1> QED BY <1>2, <1>3 DEF MapInv

(* mmap_internal.                                                          *)
LEMMA MapAdd ==
  ASSUME NEW w, Sound(w), NEW p \in Proc, NEW E, NEW m, MapInv(w, p, E, m),
         NEW e \in Entry, NEW a \in Nat, NEW b \in Nat, a = e.start, b = e.end,
         a <= b, a .. b \subseteq Page, \A x \in E : ~Overlaps(x, a, b),
         NEW v, v = SetUpEnds(w, p, E \cup {e}, e),
         NEW n, n = [g \in Page |-> IF g \in a .. b THEN Data(e, g) ELSE m[g]]
  PROVE  Sound(v) /\ Others(w, v, p) /\ MapInv(v, p, E \cup {e}, n)
<1> DEFINE F == E \cup {e}
<1>1. /\ e \in Entry /\ e.start = a /\ e.end = b /\ Span(e) = a .. b
  BY DEF Span
<1>2. Partition(F) /\ e \in F /\ Partition(E)
  BY <1>1, AddPartition DEF MapInv
<1>3. /\ Mapped(F) = Mapped(E) \cup (a .. b)
      /\ \A g \in Mapped(E) : SameAt(E, F, g)
      /\ \A g \in a .. b : EntryAt(F, g) = e
  BY <1>1, <1>2, AddEntries
<1>4. v = SetUpEnds(w, p, F, e)
  OBVIOUS
<1>21. Span(e) \subseteq Page
  BY <1>1
<1>22. Partition(F)
  BY <1>2
<1>23. e \in F
  BY <1>2
<1> HIDE DEF F
<1>5. /\ Sound(v) /\ Others(w, v, p) /\ UsedBlocks(v, p) = UsedBlocks(w, p)
      /\ \A g \in Page \cap Mapped(F) : \A y :
           g \notin Span(e) /\ Agrees(w, p, F, g, y) => Agrees(v, p, F, g, y)
      /\ \A g \in Span(e) :
           \/ BlockOf(g) \in {BlockOf(e.start), BlockOf(e.end)}
           \/ w.handle[p][BlockOf(g)] = 0
           => Agrees(v, p, F, g, Data(e, g))
  BY <1>4, <1>21, <1>22, <1>23, SetUpEndsStep
<1>6. \A g \in Mapped(E) : g \in Page /\ g \notin a .. b
  <2>1. ASSUME NEW x \in E, NEW g \in Span(x) PROVE g \notin a .. b
    <3>1. x.start \in Nat /\ x.end \in Nat
      BY <1>2 DEF Partition, Entry
    <3> QED BY <3>1 DEF Overlaps, Span
  <2> QED BY <2>1 DEF MapInv, Mapped
<1>7. n \in [Page -> Nat]
  <2>1. \A g \in a .. b : Data(e, g) \in Nat
    <3>1. F \in SUBSET Entry
      BY <1>2 DEF Partition
    <3> QED BY <1>3, <3>1, EntryAtFacts
  <2> QED BY <2>1 DEF MapInv
<1>8. ASSUME NEW g \in a .. b, WildAtEnds
      PROVE  \/ BlockOf(g) \in {BlockOf(a), BlockOf(b)}
             \/ w.handle[p][BlockOf(g)] = 0
  <2> SUFFICES ASSUME BlockOf(g) \notin {BlockOf(a), BlockOf(b)}, w.handle[p][BlockOf(g)] # 0
               PROVE  FALSE
    OBVIOUS
  <2>1. a \in Page /\ b \in Page /\ g \in Page /\ a <= g /\ g <= b
    OBVIOUS
  <2>2. /\ BlockOf(a) \in Nat /\ BlockOf(b) \in Nat /\ BlockOf(g) \in Nat
        /\ BlockOf(a) \in Block /\ BlockOf(b) \in Block /\ BlockOf(g) \in Block
        /\ BlockOf(a) < BlockOf(g) /\ BlockOf(g) < BlockOf(b)
    <3>1. BlockOf(a) <= BlockOf(g) /\ BlockOf(g) <= BlockOf(b)
      BY <2>1, BlockFacts
    <3>2. BlockOf(a) \in Block /\ BlockOf(b) \in Block /\ BlockOf(g) \in Block
      BY <2>1, BlockFacts
    <3>3. BlockOf(a) \in Nat /\ BlockOf(b) \in Nat /\ BlockOf(g) \in Nat
      BY <3>2, BlockFacts
    <3> QED BY <3>1, <3>2, <3>3
  <2>3. PICK h \in Mapped(E) \cup WildPages : BlockOf(h) = BlockOf(g)
    <3>1. BlockOf(g) \in UsedBlocks(w, p)
      BY <2>2 DEF UsedBlocks
    <3> QED BY <3>1 DEF MapInv
  <2>4. CASE h \in Mapped(E)
    <3>1. h \in Page /\ h \in Nat /\ (h < a \/ h > b)
      BY <1>6, <2>4, BlockFacts
    <3>2. BlockOf(h) <= BlockOf(a) \/ BlockOf(b) <= BlockOf(h)
      BY <2>1, <3>1, BlockFacts
    <3> QED BY <2>2, <2>3, <3>2
  <2>5. CASE h \in WildPages
    <3>1. AtEnd(BlockOf(g))
      BY <1>8, <2>3, <2>5 DEF WildAtEnds
    <3>2. BlockOf(b) <= BlockOf(g) \/ BlockOf(g) <= BlockOf(a)
      BY <2>2, <3>1 DEF AtEnd
    <3> QED BY <2>2, <3>2
  <2> QED BY <2>3, <2>4, <2>5
<1>9. ASSUME NEW g \in Mapped(F), WildAtEnds
      PROVE  Agrees(v, p, F, g, n[g])
  <2>1. CASE g \in a .. b
    <3>1. n[g] = Data(e, g)
      BY <2>1
    <3>2. \/ BlockOf(g) \in {BlockOf(a), BlockOf(b)}
          \/ w.handle[p][BlockOf(g)] = 0
      BY <1>8, <1>9, <2>1
    <3> QED BY <1>1, <1>5, <2>1, <3>1, <3>2
  <2>2. CASE g \in Mapped(E)
    <3>1. n[g] = m[g] /\ g \notin Span(e) /\ g \in Page
      BY <1>1, <1>6, <2>2
    <3>2. Agrees(w, p, F, g, m[g])
      BY <1>3, <2>2, <1>9, SameAgrees DEF MapInv
    <3> QED BY <1>5, <1>9, <3>1, <3>2
  <2> QED BY <1>3, <1>9, <2>1, <2>2
<1>10. UsedBlocks(v, p) \subseteq {BlockOf(g) : g \in Mapped(F) \cup WildPages}
  BY <1>3, <1>5 DEF MapInv
<1>11. Mapped(F) \subseteq Page
  BY <1>3 DEF MapInv
<1> QED BY <1>2, <1>5, <1>7, <1>9, <1>10, <1>11 DEF MapInv, F

(* The pages G go; of the others, what stays mapped shows what it did.     *)
LEMMA MapLess ==
  ASSUME NEW w, Sound(w), NEW p \in Proc, NEW E, NEW m, MapInv(w, p, E, m),
         NEW F, Partition(F), NEW G \in SUBSET Page, Mapped(F) = Mapped(E) \ G,
         \A g \in Mapped(F) : SameAt(E, F, g),
         NEW v, v = FreeBlocks(w, p, G, F),
         NEW n \in [Page -> Nat], \A g \in Mapped(F) : n[g] = m[g]
  PROVE  Sound(v) /\ Others(w, v, p) /\ MapInv(v, p, F, n)
<1>1. /\ Sound(v) /\ Others(w, v, p) /\ UsedBlocks(v, p) \subseteq UsedBlocks(w, p)
      /\ \A g \in G : BlockOf(g) \in UsedBlocks(v, p) => BlockOf(g) \in {BlockOf(h) : h \in Mapped(F)}
      /\ \A g \in (Page \cap Mapped(F)) \ G : \A x, y : Agrees(w, p, x, g, y) => Agrees(v, p, x, g, y)
  <2>1. Sound(v)
    BY FreeStep
  <2>2. Others(w, v, p)
    BY FreeStep
  <2>3. UsedBlocks(v, p) \subseteq UsedBlocks(w, p)
    BY FreeStep
  <2>4. \A g \in G : BlockOf(g) \in UsedBlocks(v, p) => BlockOf(g) \in {BlockOf(h) : h \in Mapped(F)}
    BY FreeStep
  <2>5. \A g \in (Page \cap Mapped(F)) \ G : \A x, y : Agrees(w, p, x, g, y) => Agrees(v, p, x, g, y)
    BY FreeStep
  <2> QED BY <2>1, <2>2, <2>3, <2>4, <2>5
<1>2. Mapped(F) \subseteq Page
  BY DEF MapInv
<1>3. ASSUME NEW c \in UsedBlocks(v, p)
      PROVE  \E g \in Mapped(F) \cup WildPages : c = BlockOf(g)
  <2>1. PICK g \in Mapped(E) \cup WildPages : c = BlockOf(g)
    BY <1>1 DEF MapInv
  <2>2. g \in G \/ g \in Mapped(F) \cup WildPages
    OBVIOUS
  <2> QED BY <1>1, <2>1, <2>2
<1>4. ASSUME NEW g \in Mapped(F), WildAtEnds
      PROVE  Agrees(v, p, F, g, n[g])
  <2>1. Agrees(w, p, E, g, m[g]) /\ n[g] = m[g]
    BY <1>4 DEF MapInv
  <2>2. Agrees(w, p, F, g, n[g])
    BY <2>1, SameAgrees
  <2> QED BY <1>1, <1>2, <2>2
<1> QED BY <1>1, <1>2, <1>3, <1>4 DEF MapInv

(* munmap_internal_unsafe.                                                 *)
LEMMA MapCut ==
  ASSUME NEW w, Sound(w), NEW p \in Proc, NEW E, NEW m, MapInv(w, p, E, m),
         NEW a \in Nat, NEW b \in Nat, a <= b,
         NEW F, F = Cut(E, a, b), NEW G, G = Mapped(E) \cap (a .. b),
         NEW v, v = FreeBlocks(w, p, G, F),
         NEW n \in [Page -> Nat], \A g \in Mapped(E) \ (a .. b) : n[g] = m[g]
  PROVE  Sound(v) /\ Others(w, v, p) /\ MapInv(v, p, F, n)
<1>1. Partition(E) /\ Partition(F) /\ Mapped(E) \subseteq Page
  BY CutPartition DEF MapInv
<1>2. /\ Mapped(F) = Mapped(E) \ (a .. b)
      /\ \A g \in Mapped(F) : SameAt(E, F, g)
  BY <1>1, CutEntries
<1>3. Partition(F)
  BY <1>1
<1>4. G \in SUBSET Page
  BY <1>1
<1>5. Mapped(F) = Mapped(E) \ G
  BY <1>2
<1>6. \A g \in Mapped(F) : SameAt(E, F, g)
  BY <1>2
<1>7. \A g \in Mapped(F) : n[g] = m[g]
  BY <1>2
<1>8. v = FreeBlocks(w, p, G, F)
  OBVIOUS
<1> QED BY <1>3, <1>4, <1>5, <1>6, <1>7, <1>8, MapLess

(* sys_mprotect.                                                           *)
LEMMA MapPaint ==
  ASSUME NEW w, Sound(w), NEW p \in Proc, NEW E, NEW m, MapInv(w, p, E, m),
         NEW a \in Nat, NEW b \in Nat, a <= b, NEW prot \in SUBSET ReadWrite,
         NEW F, F = Paint(E, a, b, prot), NEW v, v = Protect(w, p, a .. b, prot \ {"w"})
  PROVE  Sound(v) /\ Others(w, v, p) /\ MapInv(v, p, F, m)
<1>1. Partition(E) /\ Partition(F) /\ Mapped(E) \subseteq Page
  BY PaintPartition DEF MapInv
<1>2. /\ Mapped(F) = Mapped(E)
      /\ \A g \in Mapped(E) :
           /\ EntryAt(F, g).prot = IF g \in a .. b THEN prot ELSE EntryAt(E, g).prot
           /\ Data(EntryAt(F, g), g) = Data(EntryAt(E, g), g)
  <2>1. Mapped(Paint(E, a, b, prot)) = Mapped(E)
    BY <1>1, PaintEntries
  <2>2. \A g \in Mapped(E) :
          /\ EntryAt(Paint(E, a, b, prot), g).prot =
               IF g \in a .. b THEN prot ELSE EntryAt(E, g).prot
          /\ Data(EntryAt(Paint(E, a, b, prot), g), g) = Data(EntryAt(E, g), g)
    BY <1>1, PaintEntries
  <2> QED BY <2>1, <2>2
<1>3. /\ Sound(v) /\ Others(w, v, p) /\ UsedBlocks(v, p) = UsedBlocks(w, p)
      /\ v.handle = w.handle /\ v.open = w.open /\ v.content = w.content
      /\ v.loaded[p] = w.loaded[p]
      /\ \A g \in Page : v.hw[p][g] = IF g \in a .. b /\ BlockOf(g) \in w.loaded[p]
                                      THEN prot \ {"w"} ELSE w.hw[p][g]
      /\ \A g \in Page \ (a .. b) : \A x, y : Agrees(w, p, x, g, y) => Agrees(v, p, x, g, y)
  <2>1. prot \ {"w"} \in SUBSET ReadWrite
    OBVIOUS
  <2> QED BY <2>1, ProtectStep
<1>4. ASSUME NEW g \in Mapped(F), WildAtEnds
      PROVE  Agrees(v, p, F, g, m[g])
  <2>1. g \in Mapped(E) /\ g \in Page /\ Agrees(w, p, E, g, m[g])
    BY <1>1, <1>2, <1>4 DEF MapInv
  <2>2. CASE g \in a .. b
    <3>1. EntryAt(F, g).prot = prot /\ Data(EntryAt(F, g), g) = Data(EntryAt(E, g), g)
      BY <1>2, <2>1, <2>2
    <3>2. BlockOf(g) \in v.loaded[p] => v.hw[p][g] = prot \ {"w"}
      BY <1>3, <2>1, <2>2
    <3> QED BY <1>3, <2>1, <3>1, <3>2 DEF Agrees
  <2>3. CASE g \notin a .. b
    <3>1. SameAt(E, F, g)
      BY <1>2, <2>1, <2>3 DEF SameAt
    <3> QED BY <1>3, <2>1, <2>3, <3>1, SameAgrees
  <2> QED BY <2>2, <2>3
<1> QED BY <1>1, <1>2, <1>3, <1>4 DEF MapInv

(* execve and exit: nothing mapped is left.                                *)
LEMMA MapClose ==
  ASSUME NEW w, Sound(w), NEW p \in Proc, NEW E, NEW m, MapInv(w, p, E, m),
         NEW B, B = Block \/ B = {BlockOf(g) : g \in Mapped(E)},
         NEW v, v = CloseBlocks(w, p, B), NEW n \in [Page -> Nat]
  PROVE  Sound(v) /\ Others(w, v, p) /\ MapInv(v, p, {}, n)
<1>1. B \in SUBSET Block
  BY BlockFacts DEF MapInv
<1>2. Sound(v) /\ Others(w, v, p) /\ UsedBlocks(v, p) = UsedBlocks(w, p) \ B
  BY <1>1, CloseStep
<1>3. Mapped({}) = {} /\ Partition({})
  BY DEF Mapped, Partition, DisjointEntries
<1>4. UsedBlocks(v, p) \subseteq {BlockOf(g) : g \in WildPages}
  BY <1>2 DEF MapInv, UsedBlocks
<1> QED BY <1>2, <1>3, <1>4 DEF MapInv

(* A page fault at a page that is mapped or wild.                          *)
LEMMA MapFault ==
  ASSUME NEW w, Sound(w), NEW p \in Proc, NEW E, NEW m, MapInv(w, p, E, m),
         NEW g \in Mapped(E) \cup WildPages, NEW access \in ReadWrite,
         NEW v, v = HandlePageFault(w, p, E, g, access).sections
  PROVE  Sound(v) /\ Others(w, v, p) /\ MapInv(v, p, E, m)
<1>1. g \in Page /\ E \in SUBSET Entry
  BY MemoryAssumption DEF MapInv, Partition
<1>2. /\ Sound(v) /\ Others(w, v, p) /\ Keeps(w, v, p, E)
      /\ UsedBlocks(v, p) \subseteq UsedBlocks(w, p) \cup {BlockOf(g)}
  <2> DEFINE r == HandlePageFault(w, p, E, g, access)
  <2>1. r = HandlePageFault(w, p, E, g, access)
    OBVIOUS
  <2>2. v = r.sections
    OBVIOUS
  <2>3. g \in Page
    BY <1>1
  <2>4. E \in SUBSET Entry
    BY <1>1
  <2> HIDE DEF r
  <2>5. /\ Sound(r.sections) /\ Others(w, r.sections, p) /\ Keeps(w, r.sections, p, E)
        /\ UsedBlocks(r.sections, p) \subseteq UsedBlocks(w, p) \cup {BlockOf(g)}
    BY <2>1, <2>3, <2>4, FaultStep
  <2> QED BY <2>2, <2>5
<1>3. UsedBlocks(v, p) \subseteq {BlockOf(h) : h \in Mapped(E) \cup WildPages}
  BY <1>2 DEF MapInv
<1>4. WildAtEnds => \A h \in Mapped(E) : Agrees(v, p, E, h, m[h])
  BY <1>2 DEF MapInv, Keeps
<1> QED BY <1>2, <1>3, <1>4 DEF MapInv

(* A store.  Of the other processes it keeps what they see, if no section  *)
(* left behind lies under a mapping.                                       *)
LEMMA MapWrite ==
  ASSUME NEW w, Sound(w), NEW p \in Proc, NEW E, NEW m, MapInv(w, p, E, m),
         NEW g \in Mapped(E), "w" \in EntryAt(E, g).prot, Permits(w, p, g, "w"),
         NEW x \in Nat, NEW v, v = Stored(w, p, g, x), NEW n, n = [m EXCEPT ![g] = x]
  PROVE  /\ Sound(v) /\ MapInv(v, p, E, n)
         /\ \A q \in Proc \ {p} : \A F, l : MapInv(w, q, F, l) => MapInv(v, q, F, l)
<1> DEFINE s == w.handle[p][BlockOf(g)]
           f == [w.content[s] EXCEPT ![PageIn(g)] = x]
<1>1. g \in Page /\ m \in [Page -> Nat]
  BY DEF MapInv
<1>2. s \in Section /\ PageIn(g) \in 0 .. PagesPerBlock - 1
  <2>1. BlockOf(g) \in w.loaded[p] /\ w.loaded[p] \subseteq UsedBlocks(w, p)
    BY DEF Permits, Sound, Handles
  <2>2. w.handle \in [Proc -> [Block -> Section \cup {0}]]
    BY SectionsFields DEF Sound
  <2> QED BY <1>1, <2>1, <2>2, BlockFacts DEF UsedBlocks
<1>3. f \in [0 .. PagesPerBlock - 1 -> Nat]
  <2>1. w.content[s] \in [0 .. PagesPerBlock - 1 -> Nat]
    BY <1>2, SectionsFields DEF Sound
  <2> HIDE DEF s
  <2> QED BY <1>2, <2>1
<1>4. v = [w EXCEPT !.content[s] = f]
  BY DEF Stored, Filled
<1> HIDE DEF s, f
<1>5. /\ v.handle = w.handle /\ v.open = w.open /\ v.loaded = w.loaded
      /\ v \in SectionsType
  BY <1>2, <1>3, <1>4 DEF Sound, SectionsType
<1>6. Sound(v)
  BY <1>5 DEF Sound, Handles, UsedBlocks
<1>7. \A q \in Proc : UsedBlocks(v, q) = UsedBlocks(w, q)
  BY <1>5 DEF UsedBlocks
<1>8. n \in [Page -> Nat] /\ n[g] = x /\ \A h \in Page : h # g => n[h] = m[h]
  BY <1>1
<1>9. CASE ~WildAtEnds
  BY <1>6, <1>7, <1>8, <1>9 DEF MapInv
<1>10. CASE WildAtEnds
  <2>1. Agrees(w, p, E, g, m[g])
    BY <1>10 DEF MapInv
  <2>2. /\ Others(w, v, p) /\ Agrees(v, p, E, g, x)
        /\ \A h \in (Page \cap Mapped(E)) \ {g} : \A y : Agrees(w, p, E, h, y) => Agrees(v, p, E, h, y)
    BY <1>1, <2>1, WriteStep
  <2>3. \A h \in Mapped(E) : Agrees(v, p, E, h, n[h])
    BY <1>8, <1>10, <2>2 DEF MapInv
  <2>4. MapInv(v, p, E, n)
    BY <1>7, <1>8, <2>3 DEF MapInv
  <2>5. ASSUME NEW q \in Proc \ {p}, NEW F, NEW l, MapInv(w, q, F, l)
        PROVE  MapInv(v, q, F, l)
    BY <2>2, <2>5, MapOthers
  <2> QED BY <1>6, <2>4, <2>5
<1> QED BY <1>9, <1>10

(* fork.                                                                   *)
LEMMA MapFork ==
  ASSUME NEW w, Sound(w), NEW p \in Proc, NEW E, NEW m, MapInv(w, p, E, m),
         NEW c \in Proc, c # p, w.loaded[c] = {}, NEW v, v = ForkSections(w, p, c, E)
  PROVE  /\ Sound(v) /\ MapInv(v, p, E, m) /\ MapInv(v, c, E, m) /\ v.loaded = w.loaded
         /\ \A q \in Proc \ {p, c} : \A F, l : MapInv(w, q, F, l) => MapInv(v, q, F, l)
<1>1. E \in SUBSET Entry
  BY DEF MapInv, Partition
<1>2. /\ Sound(v) /\ UsedBlocks(v, c) = UsedBlocks(w, p)
      /\ \A q \in Proc : q # c => UsedBlocks(v, q) = UsedBlocks(w, q)
      /\ v.loaded = w.loaded
      /\ \A g \in Page \cap Mapped(E) : \A y :
           Agrees(w, p, E, g, y) => Agrees(v, p, E, g, y) /\ Agrees(v, c, E, g, y)
      /\ \A q \in Proc \ {p, c} : \A F : Keeps(w, v, q, F)
  BY <1>1, ForkStep
<1>3. /\ MapInv(v, p, E, m) /\ MapInv(v, c, E, m)
  BY <1>2 DEF MapInv
<1>4. ASSUME NEW q \in Proc \ {p, c}, NEW F, NEW l, MapInv(w, q, F, l)
      PROVE  MapInv(v, q, F, l)
  <2>1. Keeps(w, v, q, F) /\ UsedBlocks(v, q) = UsedBlocks(w, q)
    BY <1>2
  <2>2. WildAtEnds => \A g \in Mapped(F) : Agrees(v, q, F, g, l[g])
    BY <1>4, <2>1 DEF MapInv, Keeps
  <2> QED BY <1>4, <2>1, <2>2 DEF MapInv
<1> QED BY <1>2, <1>3, <1>4

-----------------------------------------------------------------------------
(* The inductive invariant: types, the sections sound, each process's      *)
(* entries, handles and memory in agreement, and no views before birth.    *)
Lives == {"unborn", "running", "dead"}
Inv ==
  /\ alive \in [Proc -> Lives] /\ brk \in [Proc -> Page] /\ calls \in 0 .. MaxCalls
  /\ entries \in [Proc -> SUBSET Entry] /\ mem \in [Proc -> [Page -> Nat]]
  /\ Sound(sections)
  /\ \A p \in Proc : MapInv(sections, p, entries[p], mem[p])
  /\ \A p \in Proc : alive[p] = "unborn" => sections.loaded[p] = {}

(* What a step of process p has to show.                                   *)
Moves(p, E, m) ==
  /\ entries' = [entries EXCEPT ![p] = E] /\ mem' = [mem EXCEPT ![p] = m]
  /\ Sound(sections') /\ MapInv(sections', p, E, m)
  /\ \A q \in Proc \ {p} : MapInv(sections', q, entries[q], mem[q])
  /\ \A q \in Proc \ {p} : sections'.loaded[q] = sections.loaded[q]
Stays(p) ==
  /\ alive' \in [Proc -> Lives] /\ alive'[p] # "unborn"
  /\ \A q \in Proc \ {p} : alive'[q] = alive[q]
  /\ brk' \in [Proc -> Page] /\ calls' \in 0 .. MaxCalls

(* A step that shows this keeps the invariant.                             *)
LEMMA MovesInv ==
  ASSUME Inv, NEW p \in Proc, NEW E, NEW m, Moves(p, E, m), Stays(p)
  PROVE  Inv'
<1>1. E \in SUBSET Entry /\ m \in [Page -> Nat]
  BY DEF Moves, MapInv, Partition
<1>2. /\ entries' \in [Proc -> SUBSET Entry] /\ mem' \in [Proc -> [Page -> Nat]]
      /\ entries'[p] = E /\ mem'[p] = m
      /\ \A q \in Proc \ {p} : entries'[q] = entries[q] /\ mem'[q] = mem[q]
  BY <1>1 DEF Moves, Inv
<1>3. ASSUME NEW q \in Proc PROVE MapInv(sections', q, entries'[q], mem'[q])
  <2>1. CASE q = p
    BY <1>2, <2>1 DEF Moves
  <2>2. CASE q # p
    <3>1. MapInv(sections', q, entries[q], mem[q])
      BY <2>2 DEF Moves
    <3> QED BY <1>2, <2>2, <3>1
  <2> QED BY <2>1, <2>2
<1>4. ASSUME NEW q \in Proc, alive'[q] = "unborn" PROVE sections'.loaded[q] = {}
  <2>1. q # p
    BY <1>4 DEF Stays
  <2> QED BY <1>4, <2>1 DEF Inv, Moves, Stays
<1>5. (\A q \in Proc : MapInv(sections, q, entries[q], mem[q]))'
  BY <1>3 DEF MapInv, WildAtEnds, AtEnd, Partition, DisjointEntries, UsedBlocks, Agrees, Sole
<1> QED BY <1>2, <1>4, <1>5 DEF Inv, Moves, Stays

(* A step that only concerns the sections of process p.                    *)
LEMMA OthersMove ==
  ASSUME Inv, NEW p \in Proc, NEW E, NEW m,
         entries' = [entries EXCEPT ![p] = E], mem' = [mem EXCEPT ![p] = m],
         Sound(sections'), Others(sections, sections', p), MapInv(sections', p, E, m)
  PROVE  Moves(p, E, m)
<1>1. Sound(sections)
  BY DEF Inv
<1>2. ASSUME NEW q \in Proc \ {p}
      PROVE  MapInv(sections', q, entries[q], mem[q])
  <2>1. q # p
    OBVIOUS
  <2>2. MapInv(sections, q, entries[q], mem[q])
    BY DEF Inv
  <2> QED BY <1>1, <2>1, <2>2, MapOthers
<1>3. \A q \in Proc \ {p} : sections'.loaded[q] = sections.loaded[q]
  BY DEF Others
<1> QED BY <1>2, <1>3 DEF Moves

(* A system call that leaves the processes alone.                          *)
LEMMA CallStays ==
  ASSUME Inv, NEW p \in Proc, Call(p), alive' = alive, brk' \in [Proc -> Page]
  PROVE  Stays(p)
BY MemoryAssumption DEF Inv, Call, Running, Stays

(* mmap_internal, whatever it was preceded by.                             *)
LEMMA AddEntryMoves ==
  ASSUME Inv, NEW p \in Proc, NEW E, NEW w, Sound(w), Others(sections, w, p),
         MapInv(w, p, E, mem[p]), NEW a \in Nat, NEW b \in Nat, a <= b, a .. b \subseteq Page,
         \A x \in E : ~Overlaps(x, a, b), NEW prot \in SUBSET ReadWrite, NEW file \in BOOLEAN,
         AddEntry(p, E, w, a, b, prot, file)
  PROVE  \E F, m : Moves(p, F, m)
<1> DEFINE e == [start |-> a, end |-> b, prot |-> prot, file |-> file, off |-> 0]
           n == [g \in Page |-> IF g \in a .. b THEN Data(e, g) ELSE mem[p][g]]
<1>1. e \in Entry /\ e.start = a /\ e.end = b
  BY DEF Entry
<1>2. /\ entries' = [entries EXCEPT ![p] = E \cup {e}]
      /\ sections' = SetUpEnds(w, p, E \cup {e}, e)
      /\ mem' = [mem EXCEPT ![p] = n]
  BY DEF AddEntry, Inv
<1> HIDE DEF e
<1>3. n = [g \in Page |-> IF g \in a .. b THEN Data(e, g) ELSE mem[p][g]]
  OBVIOUS
<1> HIDE DEF n
<1>4. e \in Entry
  BY <1>1
<1>5. a = e.start /\ b = e.end
  BY <1>1
<1>6. sections' = SetUpEnds(w, p, E \cup {e}, e)
  BY <1>2
<1>7. Sound(sections') /\ Others(w, sections', p) /\ MapInv(sections', p, E \cup {e}, n)
  <2>1. \A x \in E : ~Overlaps(x, a, b)
    OBVIOUS
  <2>2. a .. b \subseteq Page
    OBVIOUS
  <2>3. a = e.start
    BY <1>5
  <2>4. b = e.end
    BY <1>5
  <2>5. MapInv(w, p, E, mem[p])
    OBVIOUS
  <2>6. Sound(sections')
    BY <1>3, <1>4, <1>6, <2>1, <2>2, <2>3, <2>4, <2>5, MapAdd
  <2>7. Others(w, sections', p)
    BY <1>3, <1>4, <1>6, <2>1, <2>2, <2>3, <2>4, <2>5, MapAdd
  <2>8. MapInv(sections', p, E \cup {e}, n)
    BY <1>3, <1>4, <1>6, <2>1, <2>2, <2>3, <2>4, <2>5, MapAdd
  <2> QED BY <2>6, <2>7, <2>8
<1>8. Others(sections, sections', p)
  BY <1>7, OthersCompose
<1>9. Moves(p, E \cup {e}, n)
  BY <1>2, <1>7, <1>8, OthersMove
<1> QED BY <1>9

(* munmap_internal.                                                        *)
LEMMA UnmapMoves ==
  ASSUME Inv, NEW p \in Proc, NEW a \in Nat, NEW b \in Nat, a <= b, Unmap(p, a, b)
  PROVE  \E F, m : Moves(p, F, m)
<1> DEFINE E == entries[p]
           F == Cut(E, a, b)
           G == Mapped(E) \cap (a .. b)
           n == [g \in Page |-> IF g \in G THEN 0 ELSE mem[p][g]]
<1>1. /\ entries' = [entries EXCEPT ![p] = F]
      /\ sections' = FreeBlocks(sections, p, G, F)
      /\ mem' = [mem EXCEPT ![p] = n]
  BY DEF Unmap, Inv
<1>2. Sound(sections) /\ MapInv(sections, p, E, mem[p]) /\ mem[p] \in [Page -> Nat]
  BY DEF Inv
<1>3. Mapped(E) \subseteq Page
  BY <1>2 DEF MapInv
<1>4. n \in [Page -> Nat] /\ \A g \in Mapped(E) \ (a .. b) : n[g] = mem[p][g]
  BY <1>2, <1>3
<1>5. F = Cut(E, a, b) /\ G = Mapped(E) \cap (a .. b)
  OBVIOUS
<1> HIDE DEF E, F, G, n
<1>6. sections' = FreeBlocks(sections, p, G, F)
  BY <1>1
<1>7. Sound(sections') /\ Others(sections, sections', p) /\ MapInv(sections', p, F, n)
  BY <1>2, <1>4, <1>5, <1>6, MapCut
<1>8. Moves(p, F, n)
  BY <1>1, <1>7, OthersMove
<1> QED BY <1>8

(* The free pages find_free_pages finds are pages.                         *)
LEMMA FreePages ==
  ASSUME NEW E, Partition(E), Mapped(E) \subseteq Page, NEW n \in Nat \ {0},
         NEW a \in FirstFit(E, n, LowPage, HighPage)
  PROVE  /\ a \in Nat /\ a + n - 1 \in Nat /\ a <= a + n - 1
         /\ a .. a + n - 1 \subseteq Page
         /\ \A x \in E : ~Overlaps(x, a, a + n - 1)
<1>1. /\ a \in {LowPage} \cup {e.end + 1 : e \in E}
      /\ a >= LowPage /\ a < HighPage
      /\ \A e \in E : ~Overlaps(e, a, a + n - 1)
      /\ a + n <= HighPage \/ \E e \in E : a < e.start
  BY DEF FirstFit, Gaps
<1>2. \A e \in E : e.start \in Nat /\ e.end \in Nat /\ e.start <= e.end /\ e.start \in Page
  <2>1. \A e \in E : e.start \in Nat /\ e.end \in Nat /\ e.start <= e.end
    BY DEF Partition, Entry
  <2>2. \A e \in E : e.start \in Span(e)
    BY <2>1 DEF Span
  <2> QED BY <2>1, <2>2 DEF Mapped
<1>3. /\ LowPage \in Nat /\ HighPage \in Nat /\ LowPage .. HighPage - 1 \subseteq Page
      /\ \A g, h \in Page : g .. h \subseteq Page
  BY MemoryAssumption, SectionsAssumption
<1>4. a \in Nat /\ a \in Page
  BY <1>1, <1>2, <1>3
<1>5. a .. a + n - 1 \subseteq Page
  <2>1. CASE a + n <= HighPage
    BY <1>1, <1>3, <1>4, <2>1
  <2>2. CASE \E e \in E : a < e.start
    <3>1. PICK e \in E : a < e.start
      BY <2>2
    <3>2. a + n - 1 < e.start
      BY <1>1, <1>2, <1>4, <3>1 DEF Overlaps
    <3>3. a .. e.start \subseteq Page
      BY <1>2, <1>3, <1>4, <3>1
    <3> QED BY <1>2, <1>4, <3>2, <3>3
  <2> QED BY <1>1, <2>1, <2>2
<1> QED BY <1>1, <1>4, <1>5

(* mmap, with MAP_FIXED over existing mappings and without.                *)
LEMMA MmapInv ==
  ASSUME Inv, NEW p \in Proc, NEW c \in Maps, Mmap(p, c)
  PROVE  Inv'
<1>1. /\ c.start \in Page /\ c.start \in Nat /\ c.n \in Nat \ {0} /\ c.prot \in SUBSET ReadWrite
      /\ c.file \in BOOLEAN /\ c.start .. c.start + c.n - 1 \subseteq Page
  BY MemoryAssumption, SectionsAssumption
<1>2. Sound(sections) /\ MapInv(sections, p, entries[p], mem[p]) /\ mem[p] \in [Page -> Nat]
  BY DEF Inv
<1>3. Partition(entries[p]) /\ Mapped(entries[p]) \subseteq Page
  BY <1>2 DEF MapInv
<1>4. Stays(p)
  <2>1. Call(p) /\ alive' = alive /\ brk' \in [Proc -> Page]
    BY DEF Mmap, Inv
  <2> QED BY <2>1, CallStays
<1>5. CASE c.fixed
  <2> DEFINE b == c.start + c.n - 1
             F == Cut(entries[p], c.start, b)
             G == Mapped(entries[p]) \cap (c.start .. b)
             w == FreeBlocks(sections, p, G, F)
  <2>1. b \in Nat /\ c.start <= b /\ c.start .. b \subseteq Page
    BY <1>1
  <2>2. AddEntry(p, F, w, c.start, b, c.prot, c.file)
    BY <1>5 DEF Mmap, MapFixed
  <2> HIDE DEF b
  <2>3. \A x \in F : ~Overlaps(x, c.start, b)
    BY <1>1, <1>3, <2>1, CutPartition
  <2>4. F = Cut(entries[p], c.start, b) /\ G = Mapped(entries[p]) \cap (c.start .. b)
    OBVIOUS
  <2>5. w = FreeBlocks(sections, p, G, F)
    OBVIOUS
  <2> HIDE DEF F, G, w
  <2>6. Sound(w) /\ Others(sections, w, p) /\ MapInv(w, p, F, mem[p])
    BY <1>1, <1>2, <2>1, <2>4, <2>5, MapCut
  <2>7. \E X, m : Moves(p, X, m)
    BY <1>1, <2>1, <2>2, <2>3, <2>6, AddEntryMoves
  <2> QED BY <1>4, <2>7, MovesInv
<1>6. CASE ~c.fixed
  <2>1. PICK a \in FirstFit(entries[p], c.n, LowPage, HighPage) :
          AddEntry(p, entries[p], sections, a, a + c.n - 1, c.prot, c.file)
    BY <1>6 DEF Mmap, MapFree
  <2> DEFINE b == a + c.n - 1
  <2>2. /\ a \in Nat /\ b \in Nat /\ a <= b /\ a .. b \subseteq Page
        /\ \A x \in entries[p] : ~Overlaps(x, a, b)
    BY <1>1, <1>3, FreePages
  <2>3. AddEntry(p, entries[p], sections, a, b, c.prot, c.file)
    BY <2>1
  <2> HIDE DEF b
  <2>4. Others(sections, sections, p)
    BY DEF Others
  <2>5. \E X, m : Moves(p, X, m)
    BY <1>1, <1>2, <2>2, <2>3, <2>4, AddEntryMoves
  <2> QED BY <1>4, <2>5, MovesInv
<1> QED BY <1>5, <1>6

(* brk, shrinking and growing.                                             *)
LEMMA BrkInv ==
  ASSUME Inv, NEW p \in Proc, NEW a \in Breaks, BrkShrink(p, a) \/ BrkGrow(p, a)
  PROVE  Inv'
<1>1. a \in Page /\ a \in Nat /\ brk[p] \in Page /\ brk[p] \in Nat
  BY MemoryAssumption, SectionsAssumption DEF Inv
<1>2. Sound(sections) /\ MapInv(sections, p, entries[p], mem[p])
  BY DEF Inv
<1>3. Stays(p)
  <2>1. Call(p) /\ alive' = alive /\ brk' = [brk EXCEPT ![p] = a]
    BY DEF BrkShrink, BrkGrow
  <2>2. brk' \in [Proc -> Page]
    BY <1>1, <2>1 DEF Inv
  <2> QED BY <2>1, <2>2, CallStays
<1>4. CASE BrkShrink(p, a)
  <2>1. Unmap(p, a, brk[p] - 1) /\ a <= brk[p] - 1 /\ brk[p] - 1 \in Nat
    BY <1>1, <1>4 DEF BrkShrink
  <2>2. \E X, m : Moves(p, X, m)
    BY <1>1, <2>1, UnmapMoves
  <2> QED BY <1>3, <2>2, MovesInv
<1>5. CASE BrkGrow(p, a)
  <2>1. /\ a > brk[p] /\ \A e \in entries[p] : ~Overlaps(e, brk[p], a - 1)
        /\ AddEntry(p, entries[p], sections, brk[p], a - 1, ReadWrite, FALSE)
    BY <1>5 DEF BrkGrow
  <2>2. a - 1 \in Nat /\ brk[p] <= a - 1
    BY <1>1, <2>1
  <2>3. brk[p] .. a - 1 \subseteq Page
    <3>1. brk[p] .. a \subseteq Page
      BY <1>1, SectionsAssumption
    <3> QED BY <1>1, <3>1
  <2>4. Others(sections, sections, p)
    BY DEF Others
  <2>5. ReadWrite \in SUBSET ReadWrite /\ FALSE \in BOOLEAN
    OBVIOUS
  <2>6. \E X, m : Moves(p, X, m)
    BY <1>1, <1>2, <2>1, <2>2, <2>3, <2>4, <2>5, AddEntryMoves
  <2> QED BY <1>3, <2>6, MovesInv
<1> QED BY <1>4, <1>5

(* munmap.                                                                 *)
LEMMA MunmapInv ==
  ASSUME Inv, NEW p \in Proc, NEW r \in Ranges, Munmap(p, r)
  PROVE  Inv'
<1>1. r.first \in Nat /\ r.last \in Nat /\ r.first <= r.last
  BY MemoryAssumption, SectionsAssumption
<1>2. Unmap(p, r.first, r.last)
  BY DEF Munmap
<1>3. Stays(p)
  <2>1. Call(p) /\ alive' = alive /\ brk' \in [Proc -> Page]
    BY DEF Munmap, Inv
  <2> QED BY <2>1, CallStays
<1>4. \E X, m : Moves(p, X, m)
  BY <1>1, <1>2, UnmapMoves
<1> QED BY <1>3, <1>4, MovesInv

(* mprotect.                                                               *)
LEMMA MprotectInv ==
  ASSUME Inv, NEW p \in Proc, NEW r \in Ranges, NEW prot \in Prots, Mprotect(p, r, prot)
  PROVE  Inv'
<1>1. r.first \in Nat /\ r.last \in Nat /\ r.first <= r.last /\ prot \in SUBSET ReadWrite
  BY MemoryAssumption, SectionsAssumption
<1> DEFINE F == Paint(entries[p], r.first, r.last, prot)
<1>2. /\ entries' = [entries EXCEPT ![p] = F] /\ mem' = mem
      /\ sections' = Protect(sections, p, r.first .. r.last, prot \ {"w"})
  BY DEF Mprotect
<1>3. F = Paint(entries[p], r.first, r.last, prot)
  OBVIOUS
<1> HIDE DEF F
<1>4. Sound(sections) /\ MapInv(sections, p, entries[p], mem[p])
  BY DEF Inv
<1>5. sections' = Protect(sections, p, r.first .. r.last, prot \ {"w"})
  BY <1>2
<1>6. Sound(sections') /\ Others(sections, sections', p) /\ MapInv(sections', p, F, mem[p])
  BY <1>1, <1>3, <1>4, <1>5, MapPaint
<1>7. mem' = [mem EXCEPT ![p] = mem[p]]
  BY <1>2 DEF Inv
<1>8. Moves(p, F, mem[p])
  BY <1>2, <1>6, <1>7, OthersMove
<1>9. Stays(p)
  <2>1. Call(p) /\ alive' = alive /\ brk' \in [Proc -> Page]
    BY DEF Mprotect, Inv
  <2> QED BY <2>1, CallStays
<1> QED BY <1>8, <1>9, MovesInv

(* A store of the program.                                                 *)
LEMMA WriteInv ==
  ASSUME Inv, NEW p \in Proc, NEW g \in Page, Write(p, g)
  PROVE  Inv'
<1> DEFINE E == entries[p]
           n == [mem[p] EXCEPT ![g] = p]
<1>1. /\ Running(p) /\ g \in Mapped(E) /\ "w" \in EntryAt(E, g).prot
      /\ Permits(sections, p, g, "w") /\ mem' = [mem EXCEPT ![p] = n]
      /\ alive' = alive /\ entries' = entries /\ brk' = brk /\ calls' = calls
  BY DEF Write, MayAccess, Inv
<1>2. sections' = Stored(sections, p, g, p)
  <2> DEFINE s == sections.handle[p][BlockOf(g)]
             i == PageIn(g)
  <2>1. sections' = [sections EXCEPT !.content[s][i] = p]
    BY DEF Write
  <2>2. Stored(sections, p, g, p) =
          [sections EXCEPT !.content[s] = [sections.content[s] EXCEPT ![i] = p]]
    BY DEF Stored, Filled
  <2> QED BY <2>1, <2>2
<1>3. sections'.loaded = sections.loaded
  BY <1>2 DEF Stored, Filled, Inv, Sound, SectionsType
<1>4. p \in Nat
  BY MemoryAssumption
<1>5. Sound(sections) /\ MapInv(sections, p, E, mem[p])
  BY DEF Inv
<1>6. entries' = [entries EXCEPT ![p] = E]
  BY <1>1 DEF Inv
<1>7. n = [mem[p] EXCEPT ![g] = p]
  OBVIOUS
<1> HIDE DEF E, n
<1>8. g \in Mapped(E)
  BY <1>1
<1>9. "w" \in EntryAt(E, g).prot
  BY <1>1
<1>10. Permits(sections, p, g, "w")
  BY <1>1
<1>11. /\ Sound(sections') /\ MapInv(sections', p, E, n)
       /\ \A q \in Proc \ {p} : \A F, l : MapInv(sections, q, F, l) => MapInv(sections', q, F, l)
  BY <1>2, <1>4, <1>5, <1>7, <1>8, <1>9, <1>10, MapWrite
<1>12. Moves(p, E, n)
  <2>1. \A q \in Proc : MapInv(sections, q, entries[q], mem[q])
    BY DEF Inv
  <2>2. \A q \in Proc \ {p} : MapInv(sections', q, entries[q], mem[q])
    BY <1>11, <2>1
  <2> QED BY <1>1, <1>3, <1>6, <1>11, <2>2 DEF Moves
<1>13. Stays(p)
  BY <1>1 DEF Stays, Inv, Running
<1> QED BY <1>12, <1>13, MovesInv

(* The end of a process, and the end of its program.                       *)
LEMMA DieInv ==
  ASSUME Inv, NEW p \in Proc, Die(p) \/ Exec(p)
  PROVE  Inv'
<1> DEFINE n == [g \in Page |-> 0]
           B == IF Die(p) THEN Block ELSE {BlockOf(g) : g \in Mapped(entries[p])}
<1>1. /\ entries' = [entries EXCEPT ![p] = {}] /\ mem' = [mem EXCEPT ![p] = n]
      /\ sections' = CloseBlocks(sections, p, B)
  BY DEF Die, Exec, DropSections
<1>2. Sound(sections) /\ MapInv(sections, p, entries[p], mem[p])
  BY DEF Inv
<1>3. n \in [Page -> Nat]
  OBVIOUS
<1>4. B = Block \/ B = {BlockOf(g) : g \in Mapped(entries[p])}
  OBVIOUS
<1> HIDE DEF n, B
<1>5. sections' = CloseBlocks(sections, p, B)
  BY <1>1
<1>6. Sound(sections') /\ Others(sections, sections', p) /\ MapInv(sections', p, {}, n)
  BY <1>2, <1>3, <1>4, <1>5, MapClose
<1>7. Moves(p, {}, n)
  BY <1>1, <1>6, OthersMove
<1>8. Stays(p)
  <2>1. brk' = [brk EXCEPT ![p] = BrkBase] /\ BrkBase \in Page
    BY MemoryAssumption DEF Die, Exec
  <2>2. brk' \in [Proc -> Page]
    BY <2>1 DEF Inv
  <2>3. CASE Die(p)
    BY <2>2, <2>3 DEF Die, Stays, Inv, Lives
  <2>4. CASE Exec(p)
    <3>1. Call(p) /\ alive' = alive
      BY <2>4 DEF Exec
    <3> QED BY <2>2, <3>1, CallStays
  <2> QED BY <2>3, <2>4
<1> QED BY <1>7, <1>8, MovesInv

(* Page faults the handler deals with, at addresses mapped and not mapped. *)
LEMMA FaultMoves ==
  ASSUME Inv, NEW p \in Proc, Running(p), NEW g \in Mapped(entries[p]) \cup WildPages,
         NEW access \in ReadWrite,
         sections' = HandlePageFault(sections, p, entries[p], g, access).sections,
         UNCHANGED <<alive, entries, brk, mem, calls>>
  PROVE  Inv'
<1>1. Sound(sections) /\ MapInv(sections, p, entries[p], mem[p])
  BY DEF Inv
<1>2. Sound(sections') /\ Others(sections, sections', p) /\ MapInv(sections', p, entries[p], mem[p])
  BY <1>1, MapFault
<1>3. entries' = [entries EXCEPT ![p] = entries[p]] /\ mem' = [mem EXCEPT ![p] = mem[p]]
  BY DEF Inv
<1>4. Moves(p, entries[p], mem[p])
  BY <1>2, <1>3, OthersMove
<1>5. Stays(p)
  BY DEF Stays, Inv, Running
<1> QED BY <1>4, <1>5, MovesInv

(* A page fault at a mapped page; the process dies if it is not resolved.  *)
LEMMA FaultInv ==
  ASSUME Inv, NEW p \in Proc, NEW g \in Page, NEW access \in ReadWrite, Fault(p, g, access)
  PROVE  Inv'
<1>1. Running(p) /\ g \in Mapped(entries[p])
  BY DEF Fault, MayAccess
<1>2. CASE HandlePageFault(sections, p, entries[p], g, access).ok
  <2>1. /\ sections' = HandlePageFault(sections, p, entries[p], g, access).sections
        /\ UNCHANGED <<alive, entries, brk, mem, calls>>
    BY <1>2 DEF Fault
  <2> QED BY <1>1, <2>1, FaultMoves
<1>3. CASE ~HandlePageFault(sections, p, entries[p], g, access).ok
  <2>1. Die(p)
    BY <1>3 DEF Fault
  <2> QED BY <2>1, DieInv
<1> QED BY <1>2, <1>3

(* A system call that reads an address nothing is mapped at.               *)
LEMMA CheckedFaultInv ==
  ASSUME Inv, NEW p \in Proc, NEW g \in WildPages, CheckedFault(p, g)
  PROVE  Inv'
<1>1. /\ Running(p) /\ sections' = HandlePageFault(sections, p, entries[p], g, "r").sections
      /\ UNCHANGED <<alive, entries, brk, mem, calls>>
  BY DEF CheckedFault
<1>2. "r" \in ReadWrite
  BY DEF ReadWrite
<1> QED BY <1>1, <1>2, FaultMoves

(* fork.                                                                   *)
LEMMA ForkInv ==
  ASSUME Inv, NEW p \in Proc, NEW c \in Proc, Fork(p, c)
  PROVE  Inv'
<1>1. /\ Running(p) /\ alive[c] = "unborn" /\ c # p
      /\ alive' = [alive EXCEPT ![c] = "running"] /\ brk' = [brk EXCEPT ![c] = brk[p]]
      /\ calls' = calls
  BY DEF Fork, Running
<1>2. /\ entries' = [entries EXCEPT ![c] = entries[p]] /\ mem' = [mem EXCEPT ![c] = mem[p]]
      /\ sections' = ForkSections(sections, p, c, entries[p])
  BY DEF Fork
<1>3. Sound(sections) /\ MapInv(sections, p, entries[p], mem[p]) /\ sections.loaded[c] = {}
  BY <1>1 DEF Inv
<1>4. /\ Sound(sections') /\ MapInv(sections', p, entries[p], mem[p])
      /\ MapInv(sections', c, entries[p], mem[p]) /\ sections'.loaded = sections.loaded
      /\ \A q \in Proc \ {p, c} : \A F, l : MapInv(sections, q, F, l) => MapInv(sections', q, F, l)
  BY <1>1, <1>2, <1>3, MapFork
<1>5. Moves(c, entries[p], mem[p])
  <2>1. \A q \in Proc : MapInv(sections, q, entries[q], mem[q])
    BY DEF Inv
  <2>2. \A q \in Proc \ {c} : MapInv(sections', q, entries[q], mem[q])
    BY <1>4, <2>1
  <2> QED BY <1>2, <1>4, <2>2 DEF Moves
<1> QED BY <1>1, <1>5, MovesInv DEF Stays, Inv, Lives

(* At the start nothing is mapped and no section is open.                  *)
LEMMA InitInv == Init => Inv
<1> SUFFICES ASSUME Init PROVE Inv
  OBVIOUS
<1>1. PagesPerBlock \in Nat \ {0} /\ BrkBase \in Page /\ MaxCalls \in Nat
  BY MemoryAssumption, SectionsAssumption
<1>2. NoSections \in SectionsType
  <2>1. Zeros \in [0 .. PagesPerBlock - 1 -> Nat]
    BY DEF Zeros
  <2> QED BY <2>1 DEF NoSections, SectionsType
<1>3. \A p \in Proc : /\ UsedBlocks(NoSections, p) = {} /\ NoSections.open[p] = {}
                      /\ NoSections.loaded[p] = {}
  BY DEF NoSections, UsedBlocks
<1>4. Sound(NoSections)
  BY <1>2, <1>3 DEF Sound, Handles
<1>5. Mapped({}) = {} /\ Partition({})
  BY DEF Mapped, Partition, DisjointEntries
<1>6. \A p \in Proc : \A m \in [Page -> Nat] : MapInv(NoSections, p, {}, m)
  BY <1>3, <1>5 DEF MapInv
<1>7. \A p \in Proc : entries[p] = {} /\ mem[p] \in [Page -> Nat] /\ sections = NoSections
  BY DEF Init
<1>8. /\ alive \in [Proc -> Lives] /\ brk \in [Proc -> Page] /\ calls \in 0 .. MaxCalls
      /\ entries \in [Proc -> SUBSET Entry] /\ mem \in [Proc -> [Page -> Nat]]
      /\ sections = NoSections
  BY <1>1 DEF Init, Lives
<1>9. \A p \in Proc : MapInv(sections, p, entries[p], mem[p])
  BY <1>6, <1>7
<1> QED BY <1>3, <1>4, <1>8, <1>9 DEF Inv

(* Every step keeps the invariant.                                         *)
LEMMA NextInv == Inv /\ [Next]_vars => Inv'
<1> SUFFICES ASSUME Inv, [Next]_vars PROVE Inv'
  OBVIOUS
<1>1. ASSUME NEW p \in Proc, NEW c \in Maps, Mmap(p, c) PROVE Inv'
  BY <1>1, MmapInv
<1>2. ASSUME NEW p \in Proc, NEW r \in Ranges, Munmap(p, r) PROVE Inv'
  BY <1>2, MunmapInv
<1>3. ASSUME NEW p \in Proc, NEW r \in Ranges, NEW prot \in Prots, Mprotect(p, r, prot)
      PROVE  Inv'
  BY <1>3, MprotectInv
<1>4. ASSUME NEW p \in Proc, NEW a \in Breaks, BrkShrink(p, a) \/ BrkGrow(p, a)
      PROVE  Inv'
  BY <1>4, BrkInv
<1>5. ASSUME NEW p \in Proc, NEW g \in Page, Write(p, g) PROVE Inv'
  BY <1>5, WriteInv
<1>6. ASSUME NEW p \in Proc, NEW g \in Page, NEW access \in ReadWrite, Fault(p, g, access)
      PROVE  Inv'
  BY <1>6, FaultInv
<1>7. ASSUME NEW p \in Proc, NEW g \in WildPages, CheckedFault(p, g) PROVE Inv'
  BY <1>7, CheckedFaultInv
<1>8. ASSUME NEW p \in Proc, NEW c \in Proc, Fork(p, c) PROVE Inv'
  BY <1>8, ForkInv
<1>9. ASSUME NEW p \in Proc, Exec(p) \/ Exit(p) PROVE Inv'
  BY <1>9, DieInv DEF Exit
<1>10. CASE UNCHANGED vars
  <2>1. /\ sections' = sections /\ entries' = entries /\ mem' = mem /\ alive' = alive
        /\ brk' = brk /\ calls' = calls
    BY <1>10 DEF vars
  <2>2. Sound(sections')
    BY <2>1 DEF Inv
  <2>3. \A p \in Proc : MapInv(sections', p, entries'[p], mem'[p])
    BY <2>1 DEF Inv
  <2>4. (\A p \in Proc : MapInv(sections, p, entries[p], mem[p]))'
    BY <2>3 DEF MapInv, WildAtEnds, AtEnd, Partition, DisjointEntries, UsedBlocks, Agrees, Sole
  <2> QED BY <2>1, <2>2, <2>4 DEF Inv
<1> QED
  BY <1>1, <1>2, <1>3, <1>4, <1>5, <1>6, <1>7, <1>8, <1>9, <1>10 DEF Next

-----------------------------------------------------------------------------
(* What the invariant says of the table of sections.                       *)
LEMMA InvHandlesExact == Inv => HandlesExact
<1> SUFFICES ASSUME Inv, NEW p \in Proc
             PROVE  /\ sections.open[p] = {sections.handle[p][b] : b \in UsedBlocks(sections, p)}
                    /\ \A b, c \in UsedBlocks(sections, p) :
                         sections.handle[p][b] = sections.handle[p][c] => b = c
                    /\ UsedBlocks(sections, p) \subseteq
                         {BlockOf(g) : g \in Mapped(entries[p]) \cup WildPages}
                    /\ sections.loaded[p] \subseteq UsedBlocks(sections, p)
  BY DEF HandlesExact, UsedBlocks
<1>1. Handles(sections, p) /\ MapInv(sections, p, entries[p], mem[p])
  BY DEF Inv, Sound
<1> QED BY <1>1 DEF Handles, MapInv

(* What it says of a mapped page.                                          *)
LEMMA InvAgrees ==
  ASSUME Inv, WildAtEnds, NEW p \in Proc, NEW g \in Mapped(entries[p])
  PROVE  /\ Agrees(sections, p, entries[p], g, mem[p][g]) /\ g \in Page
         /\ entries[p] \in SUBSET Entry /\ Sound(sections)
<1>1. MapInv(sections, p, entries[p], mem[p]) /\ Sound(sections)
  BY DEF Inv
<1> QED BY <1>1 DEF MapInv, Partition

(* ... that it shows what its process put there, ...                       *)
LEMMA InvContentMatches ==
  ASSUME Inv, WildAtEnds
  PROVE  ContentMatches
<1> SUFFICES ASSUME NEW p \in Proc, NEW g \in Mapped(entries[p])
             PROVE  Contents(p, g) = mem[p][g]
  BY DEF ContentMatches
<1>1. Agrees(sections, p, entries[p], g, mem[p][g])
  BY InvAgrees
<1> QED BY <1>1 DEF Agrees, Contents

(* ... that nobody else has a section it can be written in, ...            *)
LEMMA InvWritersOwn ==
  ASSUME Inv, WildAtEnds
  PROVE  WritersOwn
<1> SUFFICES ASSUME NEW p \in Proc, NEW g \in Mapped(entries[p]),
                    Permits(sections, p, g, "w"), "w" \in EntryAt(entries[p], g).prot
             PROVE  HandleCount(sections, sections.handle[p][BlockOf(g)]) = 1
  BY DEF WritersOwn
<1> DEFINE s == sections.handle[p][BlockOf(g)]
<1>1. /\ Agrees(sections, p, entries[p], g, mem[p][g]) /\ g \in Page /\ Sound(sections)
  BY InvAgrees
<1>2. BlockOf(g) \in sections.loaded[p] /\ Sole(sections, p, s)
  BY <1>1 DEF Agrees, Permits
<1>3. BlockOf(g) \in UsedBlocks(sections, p)
  BY <1>1, <1>2 DEF Sound, Handles
<1>4. sections \in SectionsType
  BY <1>1 DEF Sound
<1>5. s \in Section
  <2>1. sections.handle \in [Proc -> [Block -> Section \cup {0}]]
    BY <1>4, SectionsFields
  <2> QED BY <1>3, <2>1 DEF UsedBlocks
<1>6. s \in sections.open[p]
  BY <1>2 DEF Sole
<1> HIDE DEF s
<1>7. HandleCount(sections, s) = 1
  BY <1>2, <1>4, <1>5, <1>6, CountsHandles
<1> QED BY <1>7 DEF s

(* ... and that a legal access gets through or is resolved.                *)
LEMMA InvFaultsResolved ==
  ASSUME Inv, WildAtEnds
  PROVE  FaultsResolved
<1> SUFFICES ASSUME NEW p \in Proc, NEW g \in Mapped(entries[p]),
                    NEW access \in EntryAt(entries[p], g).prot,
                    NEW r, r = HandlePageFault(sections, p, entries[p], g, access),
                    ~Permits(sections, p, g, access)
             PROVE  IF r.ok THEN Permits(r.sections, p, g, access)
                    ELSE /\ sections.handle[p][BlockOf(g)] = 0
                         /\ FirstPage(BlockOf(g)) \notin Mapped(entries[p])
  BY DEF FaultsResolved
<1>1. /\ Agrees(sections, p, entries[p], g, mem[p][g]) /\ g \in Page /\ Sound(sections)
      /\ entries[p] \in SUBSET Entry
  BY InvAgrees
<1>2. access \in ReadWrite
  BY <1>1, EntryAtFacts
<1>3. /\ r.ok => Permits(r.sections, p, g, access)
      /\ \/ r.ok
         \/ /\ sections.handle[p][BlockOf(g)] = 0
            /\ FirstPage(BlockOf(g)) \notin Mapped(entries[p])
         \/ access = "r" /\ BlockOf(g) \in sections.loaded[p]
  BY <1>1, <1>2, FaultStep
<1>4. access = "r" /\ BlockOf(g) \in sections.loaded[p] => Permits(sections, p, g, access)
  BY <1>1 DEF Agrees, Permits
<1> QED BY <1>3, <1>4

-----------------------------------------------------------------------------
(* Every reachable state satisfies the invariant.                          *)
LEMMA SpecInv == Spec => []Inv
BY InitInv, NextInv, PTL DEF Spec

(* The variables keep their types.                                         *)
THEOREM TypeCorrect == Spec => []TypeOK
<1>1. Inv => TypeOK
  BY SectionsFields DEF Inv, TypeOK, Lives, Sound
<1> QED BY <1>1, SpecInv, PTL

(* No page of any process ever has two entries, whatever it calls: the     *)
(* splits of munmap and mprotect, the overwriting mmap, the search for     *)
(* free pages and brk keep the tree a partition.                           *)
THEOREM EntriesStayDisjoint == Spec => []EntriesDisjoint
<1>1. Inv => EntriesDisjoint
  BY DEF Inv, MapInv, Partition, EntriesDisjoint
<1> QED BY <1>1, SpecInv, PTL

(* No handle is leaked, lost or shared by two blocks, and no section       *)
(* outlives the last entry in its block, except where a system call was    *)
(* passed an unmapped address.                                             *)
THEOREM HandlesStayExact == Spec => []HandlesExact
BY InvHandlesExact, SpecInv, PTL

(* Demand loading, copy on write and the sharing of a block by several     *)
(* entries are invisible to every process, ...                             *)
THEOREM ContentStaysRight == WildAtEnds => (Spec => []ContentMatches)
<1> SUFFICES ASSUME WildAtEnds PROVE Spec => []ContentMatches
  OBVIOUS
<1>1. Inv => ContentMatches
  BY InvContentMatches
<1> QED BY <1>1, SpecInv, PTL

(* ... nobody can write a section another process can reach, ...           *)
THEOREM WritersStayAlone == WildAtEnds => (Spec => []WritersOwn)
<1> SUFFICES ASSUME WildAtEnds PROVE Spec => []WritersOwn
  OBVIOUS
<1>1. Inv => WritersOwn
  BY InvWritersOwn
<1> QED BY <1>1, SpecInv, PTL

(* ... and every legal access is resolved by one run of the fault handler, *)
(* but for a block whose first page is not mapped.                         *)
THEOREM FaultsStayResolved == WildAtEnds => (Spec => []FaultsResolved)
<1> SUFFICES ASSUME WildAtEnds PROVE Spec => []FaultsResolved
  OBVIOUS
<1>1. Inv => FaultsResolved
  BY InvFaultsResolved
<1> QED BY <1>1, SpecInv, PTL
=============================================================================
