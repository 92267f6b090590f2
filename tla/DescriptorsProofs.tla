------------------------- MODULE DescriptorsProofs --------------------------
(***************************************************************************)
(* The counts of vfs.c and the values of eventfd.c, for any descriptors,   *)
(* files, threads, width of the value and calls. The first part says what  *)
(* each operation on a file table does to its balance: the table's count   *)
(* of a file less the descriptors of the file. None but Ref and Release    *)
(* moves it, so that the invariant of the second part need only relate     *)
(* balances to calls in progress and to what fork leaked. The third part   *)
(* follows a value through the mutex.                                      *)
(*                                                                         *)
(* The last part is about what is open below descriptors on Windows: the   *)
(* handles of winfs.c and the names they were opened by (WinFiles).  What  *)
(* is to be deleted is open, without access and by an unlink, rename or    *)
(* test under way, so that nothing of it is left when those are done;      *)
(* Unspoilt says so of every handle, every name and the recycle bin.  A    *)
(* call opens handles, closes some, moves a name with those that have it,  *)
(* marks one or leaves them: one lemma for each, and then the calls.       *)
(***************************************************************************)
EXTENDS Descriptors, WinFiles, FiniteSetTheorems, WellFoundedInduction, TLAPS

-----------------------------------------------------------------------------
(* The operations of a file table.                                         *)

(* A non-empty set of numbers has a lowest one, which Lowest finds.        *)
LEMMA LowestIsIn ==
  ASSUME NEW D \in SUBSET Nat, D # {}
  PROVE  Lowest(D) \in D
  <1> DEFINE R == {ij \in Nat \X Nat : ij[1] < ij[2]}
  <1>1. IsWellFoundedOn(R, Nat)
    BY NatLessThanWellFounded DEF OpToRel
  <1>2. \A c, d \in Nat : <<c, d>> \notin R => d <= c
    OBVIOUS
  <1> HIDE DEF R
  <1>3. PICK d \in D : \A c \in D : <<c, d>> \notin R
    BY <1>1, WFMin
  <1>4. \A c \in D : d <= c
    BY <1>2, <1>3
  <1> QED BY <1>4 DEF Lowest

TableType == [fd : [Fd -> File \cup {NoFile}], cloexec : [Fd -> BOOLEAN],
              ref : [File -> Int], open : SUBSET File]

(* The descriptors of f, and the references to f that are not theirs.      *)
FdsOf(v, f)   == {d \in Fd : v.fd[d] = f}
Balance(v, f) == v.ref[f] - Cardinality(FdsOf(v, f))

(* Descriptors are counted, and a file is open as long as it is counted.   *)
TableInv(v) ==
  /\ v \in TableType
  /\ \A f \in File : Balance(v, f) >= 0 /\ (f \in v.open <=> v.ref[f] > 0)

(* The descriptors of a file are finitely many, and one is enough to count *)
LEMMA FdsFinite ==
  ASSUME NEW v, NEW f
  PROVE  /\ IsFiniteSet(FdsOf(v, f)) /\ Cardinality(FdsOf(v, f)) \in Nat
         /\ FdsOf(v, f) # {} => Cardinality(FdsOf(v, f)) > 0
  <1>1. IsFiniteSet(FdsOf(v, f))
    BY FS_Subset, FileTableAssumption DEF FdsOf
  <1> QED BY <1>1, FS_CardinalityType, FS_EmptySet

(* A count is a natural number, at least that of the descriptors.          *)
LEMMA DescriptorsCount ==
  ASSUME NEW v, TableInv(v), NEW f \in File
  PROVE  /\ v.ref[f] \in Nat /\ Balance(v, f) \in Nat
         /\ v.ref[f] = Balance(v, f) + Cardinality(FdsOf(v, f))
         /\ \A d \in Fd : v.fd[d] = f => v.ref[f] > 0
  <1>1. v.ref[f] \in Int
    BY DEF TableInv, TableType
  <1>2. \A d \in Fd : v.fd[d] = f => FdsOf(v, f) # {}
    BY DEF FdsOf
  <1> QED BY <1>1, <1>2, FdsFinite DEF TableInv, Balance

(* A reference taken to a file that is open.                               *)
LEMMA RefTable ==
  ASSUME NEW v, TableInv(v), NEW g \in File, v.ref[g] > 0
  PROVE  /\ TableInv(Ref(v, g))
         /\ \A f \in File : Balance(Ref(v, g), f) = Balance(v, f) + IF f = g THEN 1 ELSE 0
         /\ Ref(v, g).fd = v.fd /\ Ref(v, g).ref[g] > 1
  <1> DEFINE w == Ref(v, g)
  <1>1. /\ w \in TableType /\ w.fd = v.fd /\ w.open = v.open
        /\ \A f \in File : w.ref[f] = v.ref[f] + IF f = g THEN 1 ELSE 0
        /\ \A f \in File : v.ref[f] \in Int
    BY DEF TableInv, TableType, Ref
  <1> HIDE DEF w
  <1>2. \A f : FdsOf(w, f) = FdsOf(v, f)
    BY <1>1 DEF FdsOf
  <1>3. \A f \in File : Balance(w, f) = Balance(v, f) + IF f = g THEN 1 ELSE 0
    BY <1>1, <1>2, FdsFinite DEF Balance
  <1>4. TableInv(w)
    BY <1>1, <1>3, DescriptorsCount DEF TableInv
  <1> QED BY <1>1, <1>3, <1>4 DEF w

(* A table with one field changed.                                         *)
LEMMA TableUpdate ==
  ASSUME NEW v \in TableType
  PROVE  /\ \A x \in [Fd -> File \cup {NoFile}] :
              LET w == [v EXCEPT !.fd = x]
              IN  w \in TableType /\ w.fd = x /\ w.cloexec = v.cloexec
                    /\ w.ref = v.ref /\ w.open = v.open
         /\ \A x \in [Fd -> BOOLEAN] :
              LET w == [v EXCEPT !.cloexec = x]
              IN  w \in TableType /\ w.fd = v.fd /\ w.cloexec = x
                    /\ w.ref = v.ref /\ w.open = v.open
         /\ \A x \in [File -> Int] :
              LET w == [v EXCEPT !.ref = x]
              IN  w \in TableType /\ w.fd = v.fd /\ w.cloexec = v.cloexec
                    /\ w.ref = x /\ w.open = v.open
         /\ \A x \in SUBSET File :
              LET w == [v EXCEPT !.open = x]
              IN  w \in TableType /\ w.fd = v.fd /\ w.cloexec = v.cloexec
                    /\ w.ref = v.ref /\ w.open = x
  BY DEF TableType

(* The fields of a table, typed.                                           *)
LEMMA TableFields ==
  ASSUME NEW v \in TableType
  PROVE  /\ v.fd \in [Fd -> File \cup {NoFile}] /\ v.cloexec \in [Fd -> BOOLEAN]
         /\ v.ref \in [File -> Int] /\ v.open \in SUBSET File
  BY DEF TableType

(* What vfs_release and vfs_close leave, field by field.                   *)
LEMMA ReleaseFields ==
  ASSUME NEW v \in TableType, NEW g \in File
  PROVE  /\ Release(v, g) \in TableType
         /\ Release(v, g).fd = v.fd /\ Release(v, g).cloexec = v.cloexec
         /\ Release(v, g).ref = [v.ref EXCEPT ![g] = @ - 1]
         /\ Release(v, g).open = IF v.ref[g] = 1 THEN v.open \ {g} ELSE v.open
  <1> DEFINE r == [v.ref EXCEPT ![g] = @ - 1]
             o == IF v.ref[g] = 1 THEN v.open \ {g} ELSE v.open
             w == [v EXCEPT !.ref = r]
  <1>1. r \in [File -> Int] /\ o \in SUBSET File
    BY TableFields
  <1>2. w \in TableType /\ w.fd = v.fd /\ w.cloexec = v.cloexec /\ w.ref = r /\ w.open = v.open
    BY <1>1, TableUpdate
  <1>3. Release(v, g) = [w EXCEPT !.open = o]
    BY <1>2 DEF Release
  <1> HIDE DEF w, r, o
  <1>4. Release(v, g) \in TableType /\ Release(v, g).fd = v.fd /\ Release(v, g).cloexec = v.cloexec
          /\ Release(v, g).ref = r /\ Release(v, g).open = o
    BY <1>1, <1>2, <1>3, TableUpdate
  <1> QED BY <1>4 DEF r, o

(* The same of vfs_close.                                                  *)
LEMMA CloseFdFields ==
  ASSUME NEW v \in TableType, NEW d \in Used(v)
  PROVE  /\ CloseFd(v, d) \in TableType
         /\ CloseFd(v, d).fd = [v.fd EXCEPT ![d] = NoFile]
         /\ CloseFd(v, d).ref = [v.ref EXCEPT ![v.fd[d]] = @ - 1]
         /\ CloseFd(v, d).open = IF v.ref[v.fd[d]] = 1 THEN v.open \ {v.fd[d]} ELSE v.open
  <1> DEFINE w == Release(v, v.fd[d])
             x == [w.fd EXCEPT ![d] = NoFile]
             y == [w EXCEPT !.fd = x]
             c == [y.cloexec EXCEPT ![d] = FALSE]
  <1>1. v.fd[d] \in File
    BY TableFields DEF Used
  <1>2. /\ w \in TableType /\ w.fd = v.fd
        /\ w.ref = [v.ref EXCEPT ![v.fd[d]] = @ - 1]
        /\ w.open = IF v.ref[v.fd[d]] = 1 THEN v.open \ {v.fd[d]} ELSE v.open
    BY <1>1, ReleaseFields
  <1> HIDE DEF w
  <1>3. x \in [Fd -> File \cup {NoFile}]
    BY <1>2, TableFields
  <1>4. y \in TableType /\ y.fd = x /\ y.ref = w.ref /\ y.open = w.open
    <2> HIDE DEF x
    <2> QED BY <1>2, <1>3, TableUpdate
  <1>5. c \in [Fd -> BOOLEAN]
    BY <1>4, TableFields
  <1>6. CloseFd(v, d) = [y EXCEPT !.cloexec = c]
    BY DEF CloseFd, w
  <1> HIDE DEF y, c
  <1>7. CloseFd(v, d) \in TableType /\ CloseFd(v, d).fd = y.fd
          /\ CloseFd(v, d).ref = y.ref /\ CloseFd(v, d).open = y.open
    BY <1>4, <1>5, <1>6, TableUpdate
  <1> QED BY <1>2, <1>4, <1>7

(* The same of store_file_internal.                                        *)
LEMMA StoreFields ==
  ASSUME NEW v \in TableType, NEW g \in File, NEW d \in Fd, NEW ce \in BOOLEAN
  PROVE  /\ Store(v, g, d, ce) \in TableType /\ Store(v, g, d, ce).fd = [v.fd EXCEPT ![d] = g]
         /\ Store(v, g, d, ce).ref = v.ref /\ Store(v, g, d, ce).open = v.open
  <1> DEFINE x == [v.fd EXCEPT ![d] = g]
             y == [v EXCEPT !.fd = x]
             c == [y.cloexec EXCEPT ![d] = ce]
  <1>1. x \in [Fd -> File \cup {NoFile}]
    BY TableFields
  <1>2. y \in TableType /\ y.fd = x /\ y.ref = v.ref /\ y.open = v.open
    <2> HIDE DEF x
    <2> QED BY <1>1, TableUpdate
  <1>3. c \in [Fd -> BOOLEAN]
    BY <1>2, TableFields
  <1>4. Store(v, g, d, ce) = [y EXCEPT !.cloexec = c]
    BY DEF Store
  <1> HIDE DEF y, c
  <1>5. Store(v, g, d, ce) \in TableType /\ Store(v, g, d, ce).fd = y.fd
          /\ Store(v, g, d, ce).ref = y.ref /\ Store(v, g, d, ce).open = y.open
    BY <1>2, <1>3, <1>4, TableUpdate
  <1> QED BY <1>2, <1>5

(* A reference given back that was not a descriptor's: the file is closed  *)
(* with the last.                                                          *)
LEMMA ReleaseTable ==
  ASSUME NEW v, TableInv(v), NEW g \in File, Balance(v, g) > 0
  PROVE  /\ TableInv(Release(v, g))
         /\ \A f \in File : Balance(Release(v, g), f) = Balance(v, f) - IF f = g THEN 1 ELSE 0
  <1> DEFINE w == Release(v, g)
  <1>1. /\ w \in TableType /\ w.fd = v.fd
        /\ w.open = IF v.ref[g] = 1 THEN v.open \ {g} ELSE v.open
        /\ \A f \in File : w.ref[f] = v.ref[f] - IF f = g THEN 1 ELSE 0
        /\ \A f \in File : v.ref[f] \in Int
    <2>1. v \in TableType /\ v.ref \in [File -> Int]
      BY TableFields DEF TableInv
    <2>2. /\ w \in TableType /\ w.fd = v.fd
          /\ w.ref = [v.ref EXCEPT ![g] = @ - 1]
          /\ w.open = IF v.ref[g] = 1 THEN v.open \ {g} ELSE v.open
      BY <2>1, ReleaseFields
    <2> HIDE DEF w
    <2> QED BY <2>1, <2>2
  <1> HIDE DEF w
  <1>2. \A f : FdsOf(w, f) = FdsOf(v, f)
    BY <1>1 DEF FdsOf
  <1>3. \A f \in File : Balance(w, f) = Balance(v, f) - IF f = g THEN 1 ELSE 0
    BY <1>1, <1>2, FdsFinite DEF Balance
  <1>4. TableInv(w)
    BY <1>1, <1>3, DescriptorsCount DEF TableInv
  <1> QED BY <1>3, <1>4 DEF w

(* Closing a descriptor takes away the reference it stood for.             *)
LEMMA CloseFdTable ==
  ASSUME NEW v, TableInv(v), NEW d \in Used(v)
  PROVE  /\ TableInv(CloseFd(v, d))
         /\ \A f \in File : Balance(CloseFd(v, d), f) = Balance(v, f)
         /\ CloseFd(v, d).fd = [v.fd EXCEPT ![d] = NoFile]
         /\ \A f \in File : f # v.fd[d] => CloseFd(v, d).ref[f] = v.ref[f]
         /\ CloseFd(v, d).ref[v.fd[d]] = v.ref[v.fd[d]] - 1
  <1> DEFINE w == CloseFd(v, d)
             g == v.fd[d]
  <1>1. d \in Fd /\ g \in File
    BY DEF Used, TableInv, TableType
  <1>2. /\ w \in TableType /\ w.fd = [v.fd EXCEPT ![d] = NoFile]
        /\ w.open = IF v.ref[g] = 1 THEN v.open \ {g} ELSE v.open
        /\ \A f \in File : w.ref[f] = v.ref[f] - IF f = g THEN 1 ELSE 0
        /\ \A f \in File : v.ref[f] \in Int
    <2>1. v \in TableType /\ v.ref \in [File -> Int]
      BY TableFields DEF TableInv
    <2>2. /\ w \in TableType /\ w.fd = [v.fd EXCEPT ![d] = NoFile]
          /\ w.ref = [v.ref EXCEPT ![g] = @ - 1]
          /\ w.open = IF v.ref[g] = 1 THEN v.open \ {g} ELSE v.open
      BY <2>1, CloseFdFields
    <2> HIDE DEF w, g
    <2> QED BY <1>1, <2>1, <2>2
  <1>3. v.fd \in [Fd -> File \cup {NoFile}]
    BY DEF TableInv, TableType
  <1> HIDE DEF w
  <1>4. \A f \in File : FdsOf(w, f) = IF f = g THEN FdsOf(v, f) \ {d} ELSE FdsOf(v, f)
    BY <1>1, <1>2, <1>3, FileTableAssumption DEF FdsOf
  <1>5. Cardinality(FdsOf(v, g) \ {d}) = Cardinality(FdsOf(v, g)) - 1
    <2>1. d \in FdsOf(v, g)
      BY <1>1 DEF FdsOf
    <2> HIDE DEF g
    <2> QED BY <2>1, FdsFinite, FS_RemoveElement
  <1>6. \A f \in File : Balance(w, f) = Balance(v, f)
    <2> HIDE DEF g
    <2>1. ASSUME NEW f \in File PROVE Balance(w, f) = Balance(v, f)
      <3>1. CASE f = g
        <4>1. FdsOf(w, f) = FdsOf(v, f) \ {d}
          BY <1>4, <3>1
        <4>2. w.ref[f] = v.ref[f] - 1 /\ v.ref[f] \in Int
          BY <1>2, <3>1
        <4>3. Cardinality(FdsOf(v, f)) \in Nat
          BY FdsFinite
        <4> QED BY <1>5, <3>1, <4>1, <4>2, <4>3 DEF Balance
      <3>2. CASE f # g
        BY <1>2, <1>4, <3>2 DEF Balance
      <3> QED BY <3>1, <3>2
    <2> QED BY <2>1
  <1>7. TableInv(w)
    BY <1>1, <1>2, <1>6, DescriptorsCount DEF TableInv
  <1> QED BY <1>1, <1>2, <1>6, <1>7 DEF w

(* A free descriptor made to stand for an open file takes over a reference *)
LEMMA StoreTable ==
  ASSUME NEW v, v \in TableType, NEW g \in File, NEW d \in Free(v), NEW ce \in BOOLEAN
  PROVE  /\ Store(v, g, d, ce) \in TableType
         /\ Store(v, g, d, ce).ref = v.ref /\ Store(v, g, d, ce).open = v.open
         /\ \A f \in File : Balance(Store(v, g, d, ce), f) = Balance(v, f) - IF f = g THEN 1 ELSE 0
  <1> DEFINE w == Store(v, g, d, ce)
  <1>1. d \in Fd /\ v.fd[d] = NoFile /\ g # NoFile
    BY FileTableAssumption DEF Free, Used
  <1>2. /\ w \in TableType /\ w.fd = [v.fd EXCEPT ![d] = g] /\ w.ref = v.ref /\ w.open = v.open
        /\ \A f \in File : v.ref[f] \in Int /\ v.fd \in [Fd -> File \cup {NoFile}]
    BY <1>1, StoreFields, TableFields
  <1> HIDE DEF w
  <1>3. \A f \in File : FdsOf(w, f) = IF f = g THEN FdsOf(v, f) \cup {d} ELSE FdsOf(v, f)
    BY <1>1, <1>2, FileTableAssumption DEF FdsOf
  <1>4. Cardinality(FdsOf(v, g) \cup {d}) = Cardinality(FdsOf(v, g)) + 1
    <2>1. d \notin FdsOf(v, g)
      BY <1>1 DEF FdsOf
    <2> QED BY <2>1, FdsFinite, FS_AddElement
  <1>5. \A f \in File : Balance(w, f) = Balance(v, f) - IF f = g THEN 1 ELSE 0
    <2>1. ASSUME NEW f \in File
          PROVE  Balance(w, f) = Balance(v, f) - IF f = g THEN 1 ELSE 0
      <3>1. CASE f = g
        <4>1. FdsOf(w, f) = FdsOf(v, f) \cup {d}
          BY <1>3, <3>1
        <4>2. w.ref[f] = v.ref[f] /\ v.ref[f] \in Int
          BY <1>2
        <4>3. Cardinality(FdsOf(v, f)) \in Nat
          BY FdsFinite
        <4> QED BY <1>4, <3>1, <4>1, <4>2, <4>3 DEF Balance
      <3>2. CASE f # g
        BY <1>2, <1>3, <3>2, FdsFinite DEF Balance
      <3> QED BY <3>1, <3>2
    <2> QED BY <2>1
  <1> QED BY <1>2, <1>5 DEF w

(* vfs_dup moves no reference but those descriptors take and give back.    *)
LEMMA DupToTable ==
  ASSUME NEW v, TableInv(v), NEW d \in Used(v), NEW n \in Fd, n # d, NEW ce \in BOOLEAN
  PROVE  /\ TableInv(DupTo(v, d, n, ce))
         /\ \A f \in File : Balance(DupTo(v, d, n, ce), f) = Balance(v, f)
  <1> DEFINE g == v.fd[d]
             r == Ref(v, g)
             c == IF v.fd[n] = NoFile THEN r ELSE CloseFd(r, n)
             w == Store(c, g, n, ce)
  <1>1. g \in File /\ d \in Fd /\ v.ref[g] > 0 /\ v.fd \in [Fd -> File \cup {NoFile}]
    BY DescriptorsCount, TableFields DEF Used, TableInv
  <1> HIDE DEF g
  <1>2. /\ TableInv(r) /\ r.fd = v.fd /\ r.ref[g] > 1
        /\ \A f \in File : Balance(r, f) = Balance(v, f) + IF f = g THEN 1 ELSE 0
    BY <1>1, RefTable
  <1> HIDE DEF r
  <1>3. /\ TableInv(c) /\ n \in Free(c) /\ c.ref[g] > 0
        /\ \A f \in File : Balance(c, f) = Balance(v, f) + IF f = g THEN 1 ELSE 0
    <2>1. CASE v.fd[n] = NoFile
      <3>1. c = r
        BY <2>1
      <3>2. n \in Free(r) /\ r.ref[g] > 0
        <4>1. r.ref[g] \in Nat
          BY <1>1, <1>2, DescriptorsCount
        <4> QED BY <1>2, <2>1, <4>1 DEF Free, Used
      <3> HIDE DEF c
      <3> QED BY <1>2, <3>1, <3>2
    <2>2. CASE v.fd[n] # NoFile
      <3>1. n \in Used(r)
        BY <1>2, <2>2 DEF Used
      <3>2. /\ TableInv(CloseFd(r, n)) /\ CloseFd(r, n).fd = [r.fd EXCEPT ![n] = NoFile]
            /\ \A f \in File : Balance(CloseFd(r, n), f) = Balance(r, f)
        BY <1>2, <3>1, CloseFdTable
      <3>3. CloseFd(r, n).ref[g] > 0
        <4>1. CASE g = r.fd[n]
          <5>1. CloseFd(r, n).ref[g] = r.ref[g] - 1
            BY <1>2, <3>1, <4>1, CloseFdTable
          <5>2. r.ref[g] \in Nat
            BY <1>1, <1>2, DescriptorsCount
          <5> QED BY <1>2, <5>1, <5>2
        <4>2. CASE g # r.fd[n]
          <5>1. CloseFd(r, n).ref[g] = r.ref[g]
            <6>1. \A f \in File : f # r.fd[n] => CloseFd(r, n).ref[f] = r.ref[f]
              BY <1>2, <3>1, CloseFdTable
            <6> QED BY <1>1, <4>2, <6>1
          <5>2. r.ref[g] \in Nat
            BY <1>1, <1>2, DescriptorsCount
          <5> QED BY <1>2, <5>1, <5>2
        <4> QED BY <4>1, <4>2
      <3>4. n \in Free(CloseFd(r, n))
        BY <1>1, <1>2, <3>2 DEF Free, Used
      <3> QED BY <1>2, <2>2, <3>2, <3>3, <3>4
    <2> QED BY <2>1, <2>2
  <1> HIDE DEF c
  <1>4. c \in TableType
    BY <1>3 DEF TableInv
  <1>5. /\ w \in TableType /\ w.ref = c.ref /\ w.open = c.open
        /\ \A f \in File : Balance(w, f) = Balance(c, f) - IF f = g THEN 1 ELSE 0
    BY <1>1, <1>3, <1>4, StoreTable
  <1>6. w = DupTo(v, d, n, ce)
    BY DEF DupTo, c, r, g
  <1> HIDE DEF w
  <1>7. \A f \in File : Balance(v, f) \in Nat
    BY DescriptorsCount
  <1>8. \A f \in File : Balance(w, f) = Balance(v, f)
    BY <1>3, <1>5, <1>7
  <1>9. TableInv(w)
    BY <1>3, <1>5, <1>7, <1>8 DEF TableInv
  <1> QED BY <1>6, <1>8, <1>9

(* A new file's one reference is its descriptor's.                         *)
LEMMA NewFileTable ==
  ASSUME NEW v, TableInv(v), NEW g \in File, v.ref[g] = 0, NEW d \in Free(v), NEW ce \in BOOLEAN
  PROVE  /\ TableInv(Store(NewFile(v, g), g, d, ce))
         /\ \A f \in File : Balance(Store(NewFile(v, g), g, d, ce), f) = Balance(v, f)
  <1> DEFINE r == [v.ref EXCEPT ![g] = 1]
             a == [v EXCEPT !.ref = r]
             n == NewFile(v, g)
             w == Store(n, g, d, ce)
  <1>1. v \in TableType /\ v.ref \in [File -> Int] /\ v.open \in SUBSET File /\ r \in [File -> Int]
    BY TableFields DEF TableInv
  <1>2. a \in TableType /\ a.fd = v.fd /\ a.ref = r /\ a.open = v.open
    BY <1>1, TableUpdate
  <1>3. n = [a EXCEPT !.open = v.open \cup {g}]
    BY <1>2 DEF NewFile
  <1> HIDE DEF a, n
  <1>4. n \in TableType /\ n.fd = v.fd /\ n.ref = r /\ n.open = v.open \cup {g}
    <2>1. v.open \cup {g} \in SUBSET File
      BY <1>1
    <2> QED BY <1>2, <1>3, <2>1, TableUpdate
  <1>5. d \in Free(n)
    BY <1>4 DEF Free, Used
  <1>6. /\ w \in TableType /\ w.ref = n.ref /\ w.open = n.open
        /\ \A f \in File : Balance(w, f) = Balance(n, f) - IF f = g THEN 1 ELSE 0
    BY <1>4, <1>5, StoreTable
  <1> HIDE DEF w
  <1>7. \A f \in File : Balance(n, f) = Balance(v, f) + IF f = g THEN 1 ELSE 0
    <2>1. \A f : FdsOf(n, f) = FdsOf(v, f)
      BY <1>4 DEF FdsOf
    <2> QED BY <1>1, <1>4, <2>1, FdsFinite DEF Balance
  <1>8. \A f \in File : Balance(v, f) \in Nat
    BY DescriptorsCount
  <1>9. \A f \in File : Balance(w, f) = Balance(v, f)
    BY <1>6, <1>7, <1>8
  <1>10. \A f \in File : f \in w.open <=> w.ref[f] > 0
    BY <1>1, <1>4, <1>6 DEF TableInv
  <1>11. TableInv(w)
    BY <1>6, <1>8, <1>9, <1>10 DEF TableInv
  <1> QED BY <1>9, <1>11 DEF w, n

(* vfs_reset closes each descriptor it closes once.                        *)
LEMMA CloseOnExecTable ==
  ASSUME NEW v, TableInv(v)
  PROVE  /\ TableInv(CloseOnExec(v))
         /\ \A f \in File : Balance(CloseOnExec(v), f) = Balance(v, f)
  <1> DEFINE D == {d \in Used(v) : v.cloexec[d]}
             n(f) == Cardinality({d \in D : v.fd[d] = f})
             w == CloseOnExec(v)
  <1>1. /\ v \in TableType /\ v.fd \in [Fd -> File \cup {NoFile}] /\ v.cloexec \in [Fd -> BOOLEAN]
        /\ v.ref \in [File -> Int] /\ v.open \in SUBSET File
    BY TableFields DEF TableInv
  <1>2. /\ w.fd = [d \in Fd |-> IF d \in D THEN NoFile ELSE v.fd[d]]
        /\ w.cloexec = [d \in Fd |-> v.cloexec[d] /\ d \notin D]
        /\ w.ref = [f \in File |-> v.ref[f] - n(f)]
        /\ w.open = {f \in v.open : v.ref[f] # n(f)}
    BY DEF CloseOnExec
  <1>3. ASSUME NEW f \in File
        PROVE  /\ n(f) \in Nat /\ n(f) <= Cardinality(FdsOf(v, f))
               /\ Cardinality(FdsOf(w, f)) = Cardinality(FdsOf(v, f)) - n(f)
    <2> DEFINE C == {d \in D : v.fd[d] = f}
    <2>1. C \subseteq FdsOf(v, f)
      BY DEF FdsOf, Used
    <2>2. FdsOf(w, f) = FdsOf(v, f) \ C
      BY <1>1, <1>2, FileTableAssumption DEF FdsOf, Used
    <2>3. FdsOf(v, f) \cap C = C
      BY <2>1
    <2> HIDE DEF C, w
    <2>4. IsFiniteSet(C) /\ Cardinality(C) <= Cardinality(FdsOf(v, f))
      BY <2>1, FdsFinite, FS_Subset
    <2>5. Cardinality(FdsOf(w, f)) = Cardinality(FdsOf(v, f)) - Cardinality(C)
      BY <2>2, <2>3, FdsFinite, FS_Difference
    <2>6. Cardinality(C) \in Nat
      BY <2>4, FS_CardinalityType
    <2> QED BY <2>4, <2>5, <2>6 DEF C
  <1>4. w \in TableType
    <2> HIDE DEF n, D
    <2>1. \A f \in File : v.ref[f] - n(f) \in Int
      BY <1>1, <1>3
    <2>2. /\ [d \in Fd |-> IF d \in D THEN NoFile ELSE v.fd[d]] \in [Fd -> File \cup {NoFile}]
          /\ [d \in Fd |-> v.cloexec[d] /\ d \notin D] \in [Fd -> BOOLEAN]
          /\ [f \in File |-> v.ref[f] - n(f)] \in [File -> Int]
          /\ {f \in v.open : v.ref[f] # n(f)} \in SUBSET File
      BY <1>1, <2>1
    <2>3. w = [fd |-> [d \in Fd |-> IF d \in D THEN NoFile ELSE v.fd[d]],
               cloexec |-> [d \in Fd |-> v.cloexec[d] /\ d \notin D],
               ref |-> [f \in File |-> v.ref[f] - n(f)],
               open |-> {f \in v.open : v.ref[f] # n(f)}]
      BY DEF CloseOnExec, D, n
    <2> HIDE DEF w
    <2> QED BY <2>2, <2>3 DEF TableType
  <1> HIDE DEF w, n, D
  <1>5. \A f \in File : v.ref[f] \in Nat /\ Balance(v, f) \in Nat
                          /\ v.ref[f] = Balance(v, f) + Cardinality(FdsOf(v, f))
    BY DescriptorsCount
  <1>6. \A f \in File : Balance(w, f) = Balance(v, f)
    <2>1. ASSUME NEW f \in File PROVE Balance(w, f) = Balance(v, f)
      <3>1. w.ref[f] = v.ref[f] - n(f)
        BY <1>2
      <3>2. n(f) \in Nat /\ Cardinality(FdsOf(w, f)) = Cardinality(FdsOf(v, f)) - n(f)
        BY <1>3
      <3> QED BY <1>1, <3>1, <3>2, FdsFinite DEF Balance
    <2> QED BY <2>1
  <1>7. \A f \in File : f \in w.open <=> w.ref[f] > 0
    <2>1. ASSUME NEW f \in File PROVE f \in w.open <=> w.ref[f] > 0
      <3>1. w.ref[f] = v.ref[f] - n(f) /\ (f \in w.open <=> f \in v.open /\ v.ref[f] # n(f))
        BY <1>2
      <3>2. n(f) \in Nat /\ n(f) <= v.ref[f] /\ v.ref[f] \in Nat
        BY <1>3, <1>5, FdsFinite
      <3> QED BY <3>1, <3>2 DEF TableInv
    <2> QED BY <2>1
  <1>8. TableInv(w)
    BY <1>4, <1>5, <1>6, <1>7 DEF TableInv
  <1> QED BY <1>6, <1>8 DEF w

-----------------------------------------------------------------------------
(* The types of the variables; a reference count is a natural number by    *)
(* what is counted, so that an integer is enough to start from.            *)
PCs == {"unborn", "idle", "setfd", "lock", "check", "wait", "store", "unlock", "release"}
ThreadType ==
  [pc : PCs, file : File \cup {NoFile}, fd : Fd \cup {0},
   op : {"none", "read", "write", "setfd"}, n : Nat, seen : 0 .. EVENTFD_VALUE_MAX]
EventType == [value : 0 .. EVENTFD_VALUE_MAX, mutex : Thread \cup {NoThread},
              canread : 0 .. 1, canwrite : 0 .. 1]

TypeInv ==
  /\ vfs \in [Proc -> TableType]
  /\ ev \in [File -> EventType]
  /\ thread \in [Thread -> ThreadType]
  /\ inherited \in [File -> Nat] /\ written \in [File -> Nat] /\ got \in [File -> Nat]
  /\ calls \in 0 .. MaxCalls

(* What follows from where a thread is.  A process that has been forked    *)
(* has no thread that is not running.                                      *)
Inside == {"lock", "check", "wait", "store", "unlock"}
PlaceInv ==
  \A t \in Thread :
    /\ thread[t].pc \in {"unborn", "idle"} <=> thread[t].file = NoFile
    /\ thread[t].pc \in Inside => thread[t].op \in {"read", "write"}
    /\ thread[t].pc = "setfd" => thread[t].fd \in Fd
    /\ thread[t].pc = "store" /\ thread[t].op = "write" =>
         Wrap(thread[t].seen + thread[t].n) <= EVENTFD_VALUE_MAX
    /\ thread[t].pc = "unborn" =>
         Home[t] = Child /\ \A u \in Thread : Home[u] = Child => thread[u].pc = "unborn"

(* The references that are not descriptors' are those of calls in progress *)
(* and, in a child, those it inherited of its parent's.                    *)
UsersOf(p, f) == {t \in Thread : Home[t] = p /\ Holds(t, f)}
Leaked(p, f)  == IF p = Child THEN inherited[f] ELSE 0
CountInv ==
  \A p \in Proc : /\ TableInv(vfs[p])
                  /\ \A f \in File : Balance(vfs[p], f) = Cardinality(UsersOf(p, f)) + Leaked(p, f)

Inv == TypeInv /\ PlaceInv /\ CountInv

-----------------------------------------------------------------------------
(* Facts about the constants.                                              *)
LEMMA ConstantFacts ==
  /\ EVENTFD_VALUE_MAX \in Nat /\ 2^ValueBits \in Nat /\ 2^ValueBits = EVENTFD_VALUE_MAX + 2
  /\ Counts \subseteq 0 .. EVENTFD_VALUE_MAX /\ Inputs \subseteq Nat
  /\ \A m \in Nat : Wrap(m) \in Nat /\ (m < 2^ValueBits => Wrap(m) = m)
  /\ \A t \in Thread : Home[t] \in Proc
  /\ Parent \in Proc /\ Child \in Proc /\ NoFile \notin File /\ NoThread \notin Thread
  <1>1. 2^ValueBits \in Nat \ {0, 1}
    BY DescriptorsAssumption
  <1>2. EVENTFD_VALUE_MAX \in Nat /\ 2^ValueBits = EVENTFD_VALUE_MAX + 2
    BY <1>1 DEF EVENTFD_VALUE_MAX
  <1>3. \A m \in Nat : Wrap(m) \in Nat /\ (m < 2^ValueBits => Wrap(m) = m)
    BY <1>1 DEF Wrap
  <1>4. Counts \subseteq 0 .. EVENTFD_VALUE_MAX /\ Inputs \subseteq Nat
    BY <1>1, DescriptorsAssumption DEF EVENTFD_VALUE_MAX
  <1> QED BY <1>1, <1>2, <1>3, <1>4, DescriptorsAssumption, FileTableAssumption, ThreadAssumption

(* The calls in progress on a file are finitely many.                      *)
LEMMA UsersFinite ==
  ASSUME NEW p, NEW f
  PROVE  /\ IsFiniteSet(UsersOf(p, f)) /\ Cardinality(UsersOf(p, f)) \in Nat
         /\ Cardinality(UsersOf(p, f)) = 0 <=> UsersOf(p, f) = {}
  <1>1. IsFiniteSet(UsersOf(p, f))
    BY FS_Subset, ThreadAssumption DEF UsersOf
  <1> QED BY <1>1, FS_CardinalityType, FS_EmptySet

(* What a thread works on is counted, so it is open.                       *)
LEMMA HeldIsOpen ==
  ASSUME Inv, NEW t \in Thread, thread[t].file # NoFile
  PROVE  /\ thread[t].file \in File /\ thread[t].file \in vfs[Home[t]].open
         /\ Balance(vfs[Home[t]], thread[t].file) > 0
  <1> DEFINE f == thread[t].file
             p == Home[t]
  <1>1. f \in File /\ p \in Proc
    BY ConstantFacts DEF Inv, TypeInv, ThreadType
  <1>2. t \in UsersOf(p, f)
    BY DEF UsersOf, Holds
  <1>3. inherited[f] \in Nat
    BY <1>1 DEF Inv, TypeInv
  <1> HIDE DEF f, p
  <1>4. Cardinality(UsersOf(p, f)) > 0
    BY <1>2, UsersFinite
  <1>5. TableInv(vfs[p]) /\ Balance(vfs[p], f) > 0
    BY <1>1, <1>3, <1>4, UsersFinite DEF Inv, CountInv, Leaked
  <1>6. f \in vfs[p].open
    BY <1>1, <1>5, DescriptorsCount, FdsFinite DEF TableInv
  <1> QED BY <1>1, <1>5, <1>6 DEF f, p

(* A file nobody has open is not worked on, and nothing leaked of it.      *)
LEMMA UnusedIsFree ==
  ASSUME Inv, NEW f \in Unused
  PROVE  /\ f \in File /\ inherited[f] = 0
         /\ \A p \in Proc : vfs[p].ref[f] = 0
         /\ \A t \in Thread : thread[t].file # f
  <1>1. f \in File /\ \A p \in Proc : f \notin vfs[p].open
    BY DEF Unused
  <1>2. ASSUME NEW p \in Proc PROVE vfs[p].ref[f] = 0 /\ Balance(vfs[p], f) = 0
    <2>1. TableInv(vfs[p])
      BY DEF Inv, CountInv
    <2>2. vfs[p].ref[f] \in Nat /\ ~(vfs[p].ref[f] > 0)
      BY <1>1, <2>1, DescriptorsCount DEF TableInv
    <2> QED BY <1>1, <2>1, <2>2, DescriptorsCount, FdsFinite
  <1>3. inherited[f] = 0
    <2>1. Balance(vfs[Child], f) = Cardinality(UsersOf(Child, f)) + inherited[f]
      BY <1>1, ConstantFacts DEF Inv, CountInv, Leaked
    <2>2. inherited[f] \in Nat
      BY <1>1 DEF Inv, TypeInv
    <2> QED BY <1>2, <2>1, <2>2, UsersFinite, ConstantFacts
  <1>4. \A t \in Thread : thread[t].file # f
    BY <1>1, HeldIsOpen, ConstantFacts
  <1> QED BY <1>1, <1>2, <1>3, <1>4

(* A thread moved to another place of its call.                            *)
LEMMA GotoFacts ==
  ASSUME thread \in [Thread -> ThreadType], NEW t \in Thread, NEW pc \in PCs, Goto(t, pc)
  PROVE  /\ thread' \in [Thread -> ThreadType] /\ thread'[t].pc = pc
         /\ thread'[t].file = thread[t].file /\ thread'[t].fd = thread[t].fd
         /\ thread'[t].op = thread[t].op /\ thread'[t].n = thread[t].n
         /\ thread'[t].seen = thread[t].seen
         /\ \A u \in Thread : u # t => thread'[u] = thread[u]
  BY DEF Goto, ThreadType

(* An eventfd with its fields changed.                                     *)
LEMMA EventUpdate ==
  ASSUME NEW e \in EventType
  PROVE  /\ \A x \in Thread \cup {NoThread} :
              LET w == [e EXCEPT !.mutex = x]
              IN  w \in EventType /\ w.mutex = x /\ w.value = e.value
         /\ \A x \in 0 .. EVENTFD_VALUE_MAX :
              LET w == [e EXCEPT !.value = x]
              IN  w \in EventType /\ w.mutex = e.mutex /\ w.value = x
         /\ \A x \in 0 .. 1 :
              LET w == [e EXCEPT !.canread = x]
              IN  w \in EventType /\ w.mutex = e.mutex /\ w.value = e.value
         /\ \A x \in 0 .. 1 :
              LET w == [e EXCEPT !.canwrite = x]
              IN  w \in EventType /\ w.mutex = e.mutex /\ w.value = e.value
  BY DEF EventType

-----------------------------------------------------------------------------
(* Steps that move no reference.                                           *)
LEMMA CountFrame ==
  ASSUME CountInv, \A t \in Thread : thread'[t].file = thread[t].file, inherited' = inherited,
         \A p \in Proc : /\ TableInv(vfs'[p])
                         /\ \A f \in File : Balance(vfs'[p], f) = Balance(vfs[p], f)
  PROVE  CountInv'
  <1>1. \A p \in Proc, f \in File : UsersOf(p, f)' = UsersOf(p, f)
    BY DEF UsersOf, Holds
  <1>2. \A p \in Proc, f \in File : Leaked(p, f)' = Leaked(p, f)
    BY DEF Leaked
  <1> QED BY <1>1, <1>2 DEF CountInv

(* A call on the descriptor table that leaves it v.                        *)
LEMMA TableStep ==
  ASSUME Inv, NEW t \in Thread, NEW v, SetTable(t, v), calls' \in 0 .. MaxCalls,
         TableInv(v), \A f \in File : Balance(v, f) = Balance(Table(t), f),
         UNCHANGED <<thread, ev, inherited, written, got>>
  PROVE  Inv'
  <1>1. Home[t] \in Proc /\ v \in TableType
    BY ConstantFacts DEF TableInv
  <1>2. vfs' = [vfs EXCEPT ![Home[t]] = v] /\ vfs \in [Proc -> TableType]
    BY DEF SetTable, Inv, TypeInv
  <1>3. TypeInv'
    BY <1>1, <1>2 DEF Inv, TypeInv
  <1>4. PlaceInv'
    BY DEF Inv, PlaceInv
  <1>5. \A p \in Proc : /\ TableInv(vfs'[p])
                        /\ \A f \in File : Balance(vfs'[p], f) = Balance(vfs[p], f)
    BY <1>1, <1>2 DEF Inv, CountInv, Table
  <1>6. CountInv'
    BY <1>5, CountFrame DEF Inv
  <1> QED BY <1>3, <1>4, <1>6 DEF Inv

(* A thread that goes on in a call, with its eventfd left as e.            *)
LEMMA MoveStep ==
  ASSUME Inv, NEW t \in Thread, thread[t].pc \in Inside,
         NEW pc \in Inside \cup {"release"}, Goto(t, pc), pc # "store",
         NEW e \in EventType, SetEvent(t, e), UNCHANGED <<vfs, inherited, calls>>,
         written' \in [File -> Nat], got' \in [File -> Nat]
  PROVE  Inv'
  <1>1. thread \in [Thread -> ThreadType] /\ pc \in PCs
    BY DEF Inv, TypeInv, PCs, Inside
  <1>2. /\ thread' \in [Thread -> ThreadType] /\ thread'[t].pc = pc
        /\ thread'[t].file = thread[t].file /\ thread'[t].fd = thread[t].fd
        /\ thread'[t].op = thread[t].op
        /\ \A u \in Thread : u # t => thread'[u] = thread[u]
    BY <1>1, GotoFacts
  <1>3. ev' \in [File -> EventType]
    BY DEF SetEvent, Inv, TypeInv
  <1>4. TypeInv'
    BY <1>2, <1>3 DEF Inv, TypeInv
  <1>5. PlaceInv'
    BY <1>2 DEF Inv, PlaceInv, Inside
  <1>6. CountInv'
    <2>1. \A u \in Thread : thread'[u].file = thread[u].file
      BY <1>2
    <2>2. CountInv
      BY DEF Inv
    <2> QED BY <2>1, <2>2, CountFrame DEF CountInv
  <1> QED BY <1>4, <1>5, <1>6 DEF Inv

(* A call is one more, within the bound.                                   *)
LEMMA CallBound ==
  ASSUME TypeInv, NEW t, NEW kind, Call(t, kind)
  PROVE  calls' \in 0 .. MaxCalls /\ thread[t].pc = "idle"
  BY DescriptorsAssumption DEF TypeInv, Call

(* What a thread inside a call has: its file, and that file's eventfd.     *)
LEMMA InsideFacts ==
  ASSUME Inv, NEW t \in Thread, thread[t].pc \notin {"idle", "unborn"}
  PROVE  /\ thread[t].file \in File /\ Event(t) \in EventType
         /\ thread[t].n \in Nat /\ thread[t].seen \in 0 .. EVENTFD_VALUE_MAX
  BY DEF Inv, TypeInv, PlaceInv, ThreadType, Event

-----------------------------------------------------------------------------
(* Nothing is open at first, and no child was forked.                      *)
LEMMA InvInit == Init => Inv
  <1> SUFFICES ASSUME Init PROVE Inv
    OBVIOUS
  <1>1. NewEvent \in EventType /\ 0 \in 0 .. MaxCalls
    BY ConstantFacts, DescriptorsAssumption DEF NewEvent, EventType
  <1>2. Idle \in ThreadType /\ [Idle EXCEPT !.pc = "unborn"] \in ThreadType
    BY ConstantFacts DEF Idle, ThreadType, PCs
  <1>3. TableInv(EmptyTable) /\ \A f \in File : Balance(EmptyTable, f) = 0
    <2>1. EmptyTable \in TableType
      BY DEF EmptyTable, TableType
    <2>2. \A f \in File : FdsOf(EmptyTable, f) = {} /\ EmptyTable.ref[f] = 0 /\ f \notin EmptyTable.open
      BY FileTableAssumption DEF EmptyTable, FdsOf
    <2>3. \A f \in File : Balance(EmptyTable, f) = 0
      BY <2>2, FS_EmptySet DEF Balance
    <2> QED BY <2>1, <2>2, <2>3 DEF TableInv
  <1>4. TypeInv
    BY <1>1, <1>2, <1>3 DEF Init, TypeInv, TableInv
  <1>5. PlaceInv
    <2>1. \A t \in Thread : /\ thread[t].file = NoFile
                            /\ thread[t].pc = IF Home[t] = Parent THEN "idle" ELSE "unborn"
      BY DEF Init, Idle
    <2> QED BY <2>1, DescriptorsAssumption, ConstantFacts DEF PlaceInv, Inside
  <1>6. CountInv
    <2>1. \A p \in Proc, f \in File : UsersOf(p, f) = {} /\ Leaked(p, f) = 0
      BY FileTableAssumption DEF Init, UsersOf, Holds, Idle, Leaked
    <2>2. Cardinality({}) = 0
      BY FS_EmptySet
    <2>3. \A p \in Proc : vfs[p] = EmptyTable
      BY DEF Init
    <2> HIDE DEF Init
    <2> QED BY <1>3, <2>1, <2>2, <2>3 DEF CountInv
  <1> QED BY <1>4, <1>5, <1>6 DEF Inv

(* Every call and every step of a call keeps the counts.                   *)
LEMMA InvStep == Inv /\ [Next]_vars => Inv'
  <1> SUFFICES ASSUME Inv, [Next]_vars PROVE Inv'
    OBVIOUS
  <1>T. /\ vfs \in [Proc -> TableType] /\ ev \in [File -> EventType]
        /\ thread \in [Thread -> ThreadType] /\ TypeInv /\ PlaceInv /\ CountInv
        /\ inherited \in [File -> Nat] /\ written \in [File -> Nat] /\ got \in [File -> Nat]
        /\ calls \in 0 .. MaxCalls
    BY DEF Inv, TypeInv
  <1>H. \A t \in Thread : Home[t] \in Proc /\ TableInv(Table(t)) /\ Table(t) \in TableType
    BY ConstantFacts DEF Inv, CountInv, Table, TableInv
  <1>Dup. ASSUME NEW t \in Thread, NEW d \in Fd, Dup(t, d) PROVE Inv'
    <2> DEFINE n == Lowest(Free(Table(t)))
    <2>1. d \in Used(Table(t)) /\ Free(Table(t)) # {} /\ calls' \in 0 .. MaxCalls
      BY <1>T, <1>Dup, CallBound DEF Dup
    <2>2. n \in Free(Table(t))
      BY <2>1, LowestIsIn, FileTableAssumption DEF Free
    <2>3. n \in Fd /\ n # d
      BY <2>1, <2>2 DEF Free
    <2> HIDE DEF n
    <2>4. /\ TableInv(DupTo(Table(t), d, n, FALSE))
          /\ \A f \in File : Balance(DupTo(Table(t), d, n, FALSE), f) = Balance(Table(t), f)
      BY <1>H, <2>1, <2>3, DupToTable
    <2>5. SetTable(t, DupTo(Table(t), d, n, FALSE)) /\ UNCHANGED <<thread, ev, inherited, written, got>>
      BY <1>Dup DEF Dup, Data, n
    <2> QED BY <2>1, <2>4, <2>5, TableStep
  <1>Dup3. ASSUME NEW t \in Thread, NEW d \in Fd, NEW n \in Fd, NEW ce \in BOOLEAN, Dup3(t, d, n, ce)
           PROVE  Inv'
    <2>1. d \in Used(Table(t)) /\ n # d /\ calls' \in 0 .. MaxCalls
      BY <1>T, <1>Dup3, CallBound DEF Dup3
    <2>2. /\ TableInv(DupTo(Table(t), d, n, ce))
          /\ \A f \in File : Balance(DupTo(Table(t), d, n, ce), f) = Balance(Table(t), f)
      BY <1>H, <2>1, DupToTable
    <2>3. SetTable(t, DupTo(Table(t), d, n, ce)) /\ UNCHANGED <<thread, ev, inherited, written, got>>
      BY <1>Dup3 DEF Dup3, Data
    <2> QED BY <2>1, <2>2, <2>3, TableStep
  <1>Close. ASSUME NEW t \in Thread, NEW d \in Fd, Close(t, d) PROVE Inv'
    <2>1. d \in Used(Table(t)) /\ calls' \in 0 .. MaxCalls
      BY <1>T, <1>Close, CallBound DEF Close
    <2>2. /\ TableInv(CloseFd(Table(t), d))
          /\ \A f \in File : Balance(CloseFd(Table(t), d), f) = Balance(Table(t), f)
      BY <1>H, <2>1, CloseFdTable
    <2>3. SetTable(t, CloseFd(Table(t), d)) /\ UNCHANGED <<thread, ev, inherited, written, got>>
      BY <1>Close DEF Close, Data
    <2> QED BY <2>1, <2>2, <2>3, TableStep
  <1>Exec. ASSUME NEW t \in Thread, Exec(t) PROVE Inv'
    <2>1. calls' \in 0 .. MaxCalls
      BY <1>T, <1>Exec, CallBound DEF Exec
    <2>2. /\ TableInv(CloseOnExec(Table(t)))
          /\ \A f \in File : Balance(CloseOnExec(Table(t)), f) = Balance(Table(t), f)
      BY <1>H, CloseOnExecTable
    <2>3. SetTable(t, CloseOnExec(Table(t))) /\ UNCHANGED <<thread, ev, inherited, written, got>>
      BY <1>Exec DEF Exec, Data
    <2> QED BY <2>1, <2>2, <2>3, TableStep
  <1>Eventfd2. ASSUME NEW t \in Thread, NEW n \in Counts, NEW ce \in BOOLEAN, Eventfd2(t, n, ce)
               PROVE  Inv'
    <2> DEFINE f == Lowest(Unused)
               d == Lowest(Free(Table(t)))
               v == Store(NewFile(Table(t), f), f, d, ce)
    <2>1. f \in Unused
      BY <1>Eventfd2, LowestIsIn, FileTableAssumption DEF Eventfd2, Unused
    <2>2. d \in Free(Table(t))
      BY <1>Eventfd2, LowestIsIn, FileTableAssumption DEF Eventfd2, Free
    <2>3. /\ SetTable(t, v) /\ ev' = [ev EXCEPT ![f] = [NewEvent EXCEPT !.value = n]]
          /\ written' = [written EXCEPT ![f] = n] /\ got' = [got EXCEPT ![f] = 0]
          /\ inherited' = [inherited EXCEPT ![f] = 0] /\ thread' = thread
      BY <1>Eventfd2 DEF Eventfd2
    <2>4. calls' \in 0 .. MaxCalls
      BY <1>T, <1>Eventfd2, CallBound DEF Eventfd2
    <2> HIDE DEF f, d
    <2>5. f \in File /\ inherited[f] = 0 /\ Table(t).ref[f] = 0
      BY <1>H, <2>1, UnusedIsFree DEF Table
    <2>6. TableInv(v) /\ \A g \in File : Balance(v, g) = Balance(Table(t), g)
      BY <1>H, <2>2, <2>5, NewFileTable
    <2> HIDE DEF v
    <2>7. inherited' = inherited
      BY <1>T, <2>3, <2>5
    <2>8. n \in 0 .. EVENTFD_VALUE_MAX /\ n \in Nat
      BY ConstantFacts
    <2>9. [NewEvent EXCEPT !.value = n] \in EventType
      BY <2>8, ConstantFacts DEF NewEvent, EventType
    <2>10. vfs' \in [Proc -> TableType] /\ vfs' = [vfs EXCEPT ![Home[t]] = v]
      BY <1>T, <2>3, <2>6 DEF SetTable, TableInv
    <2>11. TypeInv'
      BY <1>T, <2>3, <2>4, <2>5, <2>7, <2>8, <2>9, <2>10 DEF TypeInv
    <2>12. PlaceInv'
      BY <1>T, <2>3 DEF PlaceInv
    <2>13. \A p \in Proc : /\ TableInv(vfs'[p])
                           /\ \A g \in File : Balance(vfs'[p], g) = Balance(vfs[p], g)
      BY <1>T, <1>H, <2>6, <2>10 DEF CountInv, Table
    <2>14. CountInv'
      BY <1>T, <2>3, <2>7, <2>13, CountFrame
    <2> QED BY <2>11, <2>12, <2>14 DEF Inv
  <1>Begin. ASSUME NEW t \in Thread, NEW d \in Fd,
                   NEW op \in {"read", "write", "setfd"}, NEW pc \in {"lock", "setfd"},
                   NEW n \in Nat, pc = "setfd" \/ op # "setfd", Begin(t, d, op, pc, n)
            PROVE  Inv'
    <2> DEFINE g == Table(t).fd[d]
               new == [pc |-> pc, file |-> g, fd |-> d, op |-> op, n |-> n, seen |-> 0]
    <2>1. d \in Used(Table(t)) /\ calls' \in 0 .. MaxCalls /\ thread[t].pc = "idle"
      BY <1>T, <1>Begin, CallBound DEF Begin
    <2>2. /\ SetTable(t, Ref(Table(t), g)) /\ thread' = [thread EXCEPT ![t] = new]
          /\ UNCHANGED <<ev, inherited, written, got>>
      BY <1>Begin DEF Begin, Data
    <2>3. g \in File /\ Table(t).ref[g] > 0
      BY <1>H, <2>1, DescriptorsCount, TableFields DEF Used
    <2> HIDE DEF g
    <2>4. /\ TableInv(Ref(Table(t), g))
          /\ \A f \in File : Balance(Ref(Table(t), g), f) = Balance(Table(t), f) + IF f = g THEN 1 ELSE 0
      BY <1>H, <2>3, RefTable
    <2>5. new \in ThreadType
      BY <2>3, ConstantFacts DEF ThreadType, PCs
    <2>6. /\ thread' \in [Thread -> ThreadType] /\ thread'[t] = new
          /\ \A u \in Thread : u # t => thread'[u] = thread[u]
      BY <1>T, <2>2, <2>5
    <2>7. vfs' = [vfs EXCEPT ![Home[t]] = Ref(Table(t), g)] /\ vfs' \in [Proc -> TableType]
      BY <1>T, <2>2, <2>4 DEF SetTable, TableInv
    <2>8. TypeInv'
      BY <1>T, <2>1, <2>2, <2>6, <2>7 DEF TypeInv
    <2>9. PlaceInv'
      BY <1>T, <1>Begin, <2>1, <2>3, <2>6, ConstantFacts DEF PlaceInv, Inside
    <2>10. thread[t].file = NoFile
      BY <1>T, <2>1 DEF PlaceInv
    <2>11. ASSUME NEW p \in Proc, NEW f \in File
           PROVE  Balance(vfs'[p], f) = Cardinality(UsersOf(p, f)') + Leaked(p, f)'
      <3>1. /\ Balance(vfs[p], f) = Cardinality(UsersOf(p, f)) + Leaked(p, f)
            /\ Leaked(p, f)' = Leaked(p, f) /\ Leaked(p, f) \in Nat
        BY <1>T, <2>2 DEF CountInv, Leaked
      <3>2. CASE p = Home[t] /\ f = g
        <4>1. UsersOf(p, f)' = UsersOf(p, f) \cup {t} /\ t \notin UsersOf(p, f)
          BY <2>3, <2>6, <2>10, <3>2, ConstantFacts DEF UsersOf, Holds
        <4>2. Cardinality(UsersOf(p, f)') = Cardinality(UsersOf(p, f)) + 1
          BY <4>1, UsersFinite, FS_AddElement
        <4>3. Balance(vfs'[p], f) = Balance(vfs[p], f) + 1
          BY <1>T, <2>4, <2>7, <3>2 DEF Table
        <4> QED BY <3>1, <4>2, <4>3, UsersFinite
      <3>3. CASE ~(p = Home[t] /\ f = g)
        <4>1. UsersOf(p, f)' = UsersOf(p, f)
          BY <2>6, <2>10, <3>3, ConstantFacts DEF UsersOf, Holds
        <4>2. Balance(vfs[p], f) \in Nat
          BY <1>T, DescriptorsCount DEF CountInv
        <4>3. Balance(vfs'[p], f) = Balance(vfs[p], f)
          BY <1>T, <2>4, <2>7, <3>3, <4>2 DEF Table
        <4> QED BY <3>1, <4>1, <4>3
      <3> QED BY <3>2, <3>3
    <2>12. \A p \in Proc : TableInv(vfs'[p])
      BY <1>T, <2>4, <2>7 DEF CountInv
    <2>13. CountInv'
      BY <2>11, <2>12 DEF CountInv
    <2> QED BY <2>8, <2>9, <2>13 DEF Inv
  <1>Finish. ASSUME NEW t \in Thread, Finish(t) PROVE Inv'
    <2> DEFINE g == thread[t].file
    <2>1. thread[t].pc = "release" /\ g # NoFile
      BY <1>T, <1>Finish DEF Finish, At, PlaceInv
    <2>2. /\ SetTable(t, Release(Table(t), g)) /\ thread' = [thread EXCEPT ![t] = Idle]
          /\ UNCHANGED <<ev, inherited, written, got, calls>>
      BY <1>Finish DEF Finish, Data
    <2>3. g \in File /\ Balance(Table(t), g) > 0
      BY <2>1, HeldIsOpen DEF Table
    <2> HIDE DEF g
    <2>4. /\ TableInv(Release(Table(t), g))
          /\ \A f \in File : Balance(Release(Table(t), g), f) = Balance(Table(t), f) - IF f = g THEN 1 ELSE 0
      BY <1>H, <2>3, ReleaseTable
    <2>5. Idle \in ThreadType /\ Idle.file = NoFile /\ Idle.pc = "idle"
      BY ConstantFacts DEF ThreadType, PCs, Idle
    <2>6. /\ thread' \in [Thread -> ThreadType] /\ thread'[t] = Idle
          /\ \A u \in Thread : u # t => thread'[u] = thread[u]
      BY <1>T, <2>2, <2>5
    <2>7. vfs' = [vfs EXCEPT ![Home[t]] = Release(Table(t), g)] /\ vfs' \in [Proc -> TableType]
      BY <1>T, <2>2, <2>4 DEF SetTable, TableInv
    <2>8. TypeInv'
      BY <1>T, <2>2, <2>6, <2>7 DEF TypeInv
    <2>9. PlaceInv'
      BY <1>T, <2>1, <2>5, <2>6 DEF PlaceInv, Inside
    <2>10. ASSUME NEW p \in Proc, NEW f \in File
           PROVE  Balance(vfs'[p], f) = Cardinality(UsersOf(p, f)') + Leaked(p, f)'
      <3>1. /\ Balance(vfs[p], f) = Cardinality(UsersOf(p, f)) + Leaked(p, f)
            /\ Leaked(p, f)' = Leaked(p, f) /\ Leaked(p, f) \in Nat
        BY <1>T, <2>2 DEF CountInv, Leaked
      <3>2. CASE p = Home[t] /\ f = g
        <4>1. UsersOf(p, f)' = UsersOf(p, f) \ {t} /\ t \in UsersOf(p, f)
          BY <2>3, <2>5, <2>6, <3>2, ConstantFacts DEF UsersOf, Holds, g
        <4>2. Cardinality(UsersOf(p, f)') = Cardinality(UsersOf(p, f)) - 1
          BY <4>1, UsersFinite, FS_RemoveElement
        <4>3. Balance(vfs'[p], f) = Balance(vfs[p], f) - 1
          BY <1>T, <2>4, <2>7, <3>2 DEF Table
        <4> QED BY <3>1, <4>2, <4>3, UsersFinite
      <3>3. CASE ~(p = Home[t] /\ f = g)
        <4>1. UsersOf(p, f)' = UsersOf(p, f)
          BY <2>5, <2>6, <3>3, ConstantFacts DEF UsersOf, Holds, g
        <4>2. Balance(vfs[p], f) \in Nat
          BY <1>T, DescriptorsCount DEF CountInv
        <4>3. Balance(vfs'[p], f) = Balance(vfs[p], f)
          BY <1>T, <2>4, <2>7, <3>3, <4>2 DEF Table
        <4> QED BY <3>1, <4>1, <4>3
      <3> QED BY <3>2, <3>3
    <2>11. \A p \in Proc : TableInv(vfs'[p])
      BY <1>T, <2>4, <2>7 DEF CountInv
    <2>12. CountInv'
      BY <2>10, <2>11 DEF CountInv
    <2> QED BY <2>8, <2>9, <2>12 DEF Inv
  <1>Fork. ASSUME NEW t \in Thread, Fork(t) PROVE Inv'
    <2>1. /\ vfs' = [vfs EXCEPT ![Child] = vfs[Parent]]
          /\ inherited' = [f \in File |-> Cardinality({u \in Thread : Holds(u, f)})]
          /\ thread' = [c \in Thread |-> IF Home[c] = Child THEN Idle ELSE thread[c]]
          /\ UNCHANGED <<ev, written, got>> /\ calls' \in 0 .. MaxCalls
      BY <1>T, <1>Fork, CallBound DEF Fork
    <2>2. \A u \in Thread : Home[u] = Child => thread[u].file = NoFile
      BY <1>T, <1>Fork DEF Fork, PlaceInv
    <2>3. \A f \in File : {u \in Thread : Holds(u, f)} = UsersOf(Parent, f)
      BY <2>2, DescriptorsAssumption, ConstantFacts DEF UsersOf, Holds
    <2>4. \A f \in File : inherited'[f] = Cardinality(UsersOf(Parent, f))
      BY <2>1, <2>3
    <2>5. Idle \in ThreadType /\ Idle.file = NoFile /\ Idle.pc = "idle"
      BY ConstantFacts DEF ThreadType, PCs, Idle
    <2>6. TypeInv'
      <3>1. inherited' \in [File -> Nat]
        BY <2>1, <2>3, UsersFinite
      <3>2. thread' \in [Thread -> ThreadType]
        BY <1>T, <2>1, <2>5
      <3>3. vfs' \in [Proc -> TableType]
        BY <1>T, <2>1, ConstantFacts
      <3> QED BY <1>T, <2>1, <3>1, <3>2, <3>3 DEF TypeInv
    <2>7. PlaceInv'
      <3>1. \A u \in Thread : IF Home[u] = Child THEN thread'[u] = Idle ELSE thread'[u] = thread[u]
        BY <2>1
      <3>2. \A u \in Thread : thread'[u].pc # "unborn"
        BY <1>T, <2>5, <3>1 DEF PlaceInv
      <3> QED BY <1>T, <2>5, <3>1, <3>2 DEF PlaceInv, Inside
    <2>8. \A f \in File : UsersOf(Parent, f)' = UsersOf(Parent, f) /\ UsersOf(Child, f)' = {}
      BY <2>1, <2>5, DescriptorsAssumption, ConstantFacts DEF UsersOf, Holds
    <2>9. CountInv'
      <3>1. vfs'[Child] = vfs[Parent] /\ vfs'[Parent] = vfs[Parent]
        BY <1>T, <2>1, DescriptorsAssumption
      <3>2. /\ TableInv(vfs[Parent])
            /\ \A f \in File : Balance(vfs[Parent], f) = Cardinality(UsersOf(Parent, f))
        BY <1>T, DescriptorsAssumption, UsersFinite DEF CountInv, Leaked
      <3>3. \A f \in File : /\ Cardinality(UsersOf(Parent, f)') + Leaked(Parent, f)' = Balance(vfs[Parent], f)
                            /\ Cardinality(UsersOf(Child, f)') + Leaked(Child, f)' = Balance(vfs[Parent], f)
        BY <2>4, <2>8, <3>2, DescriptorsAssumption, UsersFinite, FS_EmptySet DEF Leaked
      <3> QED BY <3>1, <3>2, <3>3, DescriptorsAssumption DEF CountInv
    <2> QED BY <2>6, <2>7, <2>9 DEF Inv
  <1>SetfdStore. ASSUME NEW t \in Thread, SetfdStore(t) PROVE Inv'
    <2> DEFINE x == [Table(t).cloexec EXCEPT ![thread[t].fd] = thread[t].n = 1]
               v == [Table(t) EXCEPT !.cloexec = x]
    <2>1. thread[t].pc = "setfd" /\ SetTable(t, v) /\ Goto(t, "release")
            /\ UNCHANGED <<ev, inherited, written, got, calls>>
      BY <1>SetfdStore DEF SetfdStore, At, Data
    <2>2. x \in [Fd -> BOOLEAN]
      BY <1>H, TableFields
    <2>3. v \in TableType /\ v.fd = Table(t).fd /\ v.ref = Table(t).ref /\ v.open = Table(t).open
      <3> HIDE DEF x
      <3> QED BY <1>H, <2>2, TableUpdate
    <2> HIDE DEF v, x
    <2>4. TableInv(v) /\ \A f \in File : Balance(v, f) = Balance(Table(t), f)
      BY <1>H, <2>3 DEF TableInv, Balance, FdsOf
    <2>5. vfs' = [vfs EXCEPT ![Home[t]] = v] /\ vfs' \in [Proc -> TableType]
      BY <1>T, <2>1, <2>3 DEF SetTable
    <2>6. /\ thread' \in [Thread -> ThreadType] /\ thread'[t].pc = "release"
          /\ thread'[t].file = thread[t].file
          /\ \A u \in Thread : u # t => thread'[u] = thread[u]
      BY <1>T, <2>1, GotoFacts DEF PCs
    <2>7. TypeInv'
      BY <1>T, <2>1, <2>5, <2>6 DEF TypeInv
    <2>8. PlaceInv'
      BY <1>T, <2>1, <2>6 DEF PlaceInv, Inside
    <2>9. \A p \in Proc : /\ TableInv(vfs'[p])
                          /\ \A f \in File : Balance(vfs'[p], f) = Balance(vfs[p], f)
      BY <1>T, <1>H, <2>4, <2>5 DEF CountInv, Table
    <2>10. \A u \in Thread : thread'[u].file = thread[u].file
      BY <2>6
    <2>11. CountInv'
      BY <1>T, <2>1, <2>9, <2>10, CountFrame
    <2> QED BY <2>7, <2>8, <2>11 DEF Inv
  <1>Lock. ASSUME NEW t \in Thread, Lock(t) PROVE Inv'
    <2>1. [Event(t) EXCEPT !.mutex = t] \in EventType
      BY <1>Lock, InsideFacts, EventUpdate DEF Lock, At
    <2> QED BY <1>T, <1>Lock, <2>1, MoveStep DEF Lock, At, Inside
  <1>Leave. ASSUME NEW t \in Thread, Leave(t) PROVE Inv'
    <2>1. [Event(t) EXCEPT !.mutex = NoThread] \in EventType
      BY <1>Leave, InsideFacts, EventUpdate DEF Leave, At
    <2> QED BY <1>T, <1>Leave, <2>1, MoveStep DEF Leave, At, Inside
  <1>Wake. ASSUME NEW t \in Thread, Wake(t) PROVE Inv'
    <2>1. Event(t) \in EventType /\ Sem(t) > 0
      BY <1>Wake, InsideFacts DEF Wake, At
    <2>2. Down(t) \in EventType
      <3>1. /\ Event(t).canread \in 0 .. 1 /\ Event(t).canwrite \in 0 .. 1
            /\ Event(t).canread > 0 => Event(t).canread - 1 \in 0 .. 1
            /\ Event(t).canwrite > 0 => Event(t).canwrite - 1 \in 0 .. 1
        BY <2>1 DEF EventType
      <3> QED BY <2>1, <3>1, EventUpdate DEF Down, Sem
    <2> QED BY <1>T, <1>Wake, <2>2, MoveStep DEF Wake, At, Inside
  <1>Fetch. ASSUME NEW t \in Thread, Fetch(t) PROVE Inv'
    <2>1. /\ thread[t].pc = "check" /\ ~Blocked(t)
          /\ thread' = [thread EXCEPT ![t].pc = "store", ![t].seen = Event(t).value]
          /\ UNCHANGED <<vfs, ev, inherited, written, got, calls>>
      BY <1>Fetch DEF Fetch, At, Data
    <2>2. Event(t).value \in 0 .. EVENTFD_VALUE_MAX /\ thread[t].n \in Nat
      BY <2>1, InsideFacts DEF EventType
    <2> DEFINE w == [thread[t] EXCEPT !.pc = "store", !.seen = Event(t).value]
    <2>2a. /\ w \in ThreadType /\ w.pc = "store" /\ w.seen = Event(t).value /\ w.n = thread[t].n
          /\ w.file = thread[t].file /\ w.op = thread[t].op
      BY <1>T, <2>2 DEF ThreadType, PCs
    <2>2b. thread' = [thread EXCEPT ![t] = w]
      BY <1>T, <2>1 DEF ThreadType
    <2> HIDE DEF w
    <2>3. /\ thread' \in [Thread -> ThreadType] /\ thread'[t].pc = "store"
          /\ thread'[t].seen = Event(t).value /\ thread'[t].n = thread[t].n
          /\ thread'[t].file = thread[t].file /\ thread'[t].op = thread[t].op
          /\ \A u \in Thread : u # t => thread'[u] = thread[u]
      BY <1>T, <2>2a, <2>2b
    <2>4. TypeInv'
      BY <1>T, <2>1, <2>3 DEF TypeInv
    <2>5. thread[t].op = "write" => Wrap(Event(t).value + thread[t].n) <= EVENTFD_VALUE_MAX
      <3>1. Wrap(Event(t).value + thread[t].n) \in Nat
        BY <2>2, ConstantFacts
      <3> QED BY <2>1, <3>1, ConstantFacts DEF Blocked, Op
    <2>6. PlaceInv'
      BY <1>T, <2>1, <2>3, <2>5 DEF PlaceInv, Inside
    <2>7. \A u \in Thread : thread'[u].file = thread[u].file
      BY <2>3
    <2>8. CountInv'
      BY <1>T, <2>1, <2>7, CountFrame DEF CountInv
    <2> QED BY <2>4, <2>6, <2>8 DEF Inv
  <1>Take. ASSUME NEW t \in Thread, Take(t) PROVE Inv'
    <2> DEFINE b == Event(t)
               a == [b EXCEPT !.value = 0]
               e == [a EXCEPT !.canwrite = 1]
    <2>1. Event(t) \in EventType /\ thread[t].file \in File /\ thread[t].seen \in Nat
      BY <1>Take, InsideFacts, ConstantFacts DEF Take, At
    <2>2. a \in EventType
      <3>1. b \in EventType /\ 0 \in 0 .. EVENTFD_VALUE_MAX
        BY <2>1, ConstantFacts
      <3> HIDE DEF b
      <3> QED BY <3>1, EventUpdate
    <2>3. e \in EventType
      <3>1. 1 \in 0 .. 1
        OBVIOUS
      <3> HIDE DEF a
      <3> QED BY <2>2, <3>1, EventUpdate
    <2>4. SetEvent(t, e)
      BY <1>Take DEF Take
    <2>5. got' \in [File -> Nat]
      BY <1>T, <1>Take, <2>1 DEF Take
    <2> HIDE DEF e
    <2> QED BY <1>T, <1>Take, <2>3, <2>4, <2>5, MoveStep DEF Take, At, Inside
  <1>Add. ASSUME NEW t \in Thread, Add(t) PROVE Inv'
    <2> DEFINE x == Wrap(thread[t].seen + thread[t].n)
               b == Event(t)
               a == [b EXCEPT !.value = x]
               e == [a EXCEPT !.canread = 1]
    <2>1. /\ Event(t) \in EventType /\ thread[t].file \in File /\ thread[t].seen \in Nat
          /\ thread[t].n \in Nat
      BY <1>Add, InsideFacts, ConstantFacts DEF Add, At
    <2>2. x \in 0 .. EVENTFD_VALUE_MAX
      BY <1>T, <1>Add, <2>1, ConstantFacts DEF Add, At, Op, PlaceInv
    <2>3. a \in EventType
      <3>1. b \in EventType
        BY <2>1
      <3> HIDE DEF x, b
      <3> QED BY <2>2, <3>1, EventUpdate
    <2>4. e \in EventType
      <3>1. 1 \in 0 .. 1
        OBVIOUS
      <3> HIDE DEF a
      <3> QED BY <2>3, <3>1, EventUpdate
    <2>5. SetEvent(t, e)
      BY <1>Add DEF Add
    <2>6. written' \in [File -> Nat]
      BY <1>T, <1>Add, <2>1 DEF Add
    <2> HIDE DEF e
    <2> QED BY <1>T, <1>Add, <2>4, <2>5, <2>6, MoveStep DEF Add, At, Inside
  <1>Unlock. ASSUME NEW t \in Thread, Unlock(t) PROVE Inv'
    <2>1. [Event(t) EXCEPT !.mutex = NoThread] \in EventType
      BY <1>Unlock, InsideFacts, EventUpdate DEF Unlock, At
    <2> QED BY <1>T, <1>Unlock, <2>1, MoveStep DEF Unlock, At, Inside
  <1>Stutter. ASSUME UNCHANGED vars PROVE Inv'
    <2>1. TypeInv'
      BY <1>T, <1>Stutter DEF vars, TypeInv
    <2>2. PlaceInv'
      BY <1>T, <1>Stutter DEF vars, PlaceInv
    <2>3. CountInv'
      BY <1>T, <1>Stutter, CountFrame DEF vars, CountInv
    <2> QED BY <2>1, <2>2, <2>3 DEF Inv
  <1>Calls. ASSUME NEW t \in Thread, NEW d \in Fd,
                   \/ Read(t, d)
                   \/ \E n \in Inputs : Write(t, d, n)
                   \/ \E ce \in BOOLEAN : Setfd(t, d, ce)
            PROVE  Inv'
    <2>1. ASSUME Read(t, d) PROVE Inv'
      BY <1>Begin, <2>1 DEF Read
    <2>2. ASSUME NEW n \in Inputs, Write(t, d, n) PROVE Inv'
      <3>1. n \in Nat
        BY ConstantFacts
      <3> QED BY <1>Begin, <2>2, <3>1 DEF Write
    <2>3. ASSUME NEW ce \in BOOLEAN, Setfd(t, d, ce) PROVE Inv'
      <3>1. (IF ce THEN 1 ELSE 0) \in Nat
        OBVIOUS
      <3> QED BY <1>Begin, <2>3, <3>1 DEF Setfd
    <2> QED BY <1>Calls, <2>1, <2>2, <2>3
  <1> QED
    BY <1>Dup, <1>Dup3, <1>Close, <1>Exec, <1>Eventfd2, <1>Calls, <1>Finish, <1>Fork, <1>SetfdStore,
       <1>Lock, <1>Leave, <1>Wake, <1>Fetch, <1>Take, <1>Add, <1>Unlock, <1>Stutter
    DEF Next, Continue

(* The types, the places of the threads and the counts, in every state.    *)
LEMMA InvAlways == Spec => []Inv
  <1> QED BY InvInit, InvStep, PTL DEF Spec

(* The variables have the types of vfs.c and eventfd.c: a count never goes *)
(* below zero, a value never above EVENTFD_VALUE_MAX.                      *)
THEOREM TypeCorrect == Spec => []TypeOK
  <1>1. Inv => TypeOK
    <2> SUFFICES ASSUME Inv PROVE TypeOK
      OBVIOUS
    <2>1. ASSUME NEW p \in Proc
          PROVE  /\ vfs[p].fd \in [Fd -> File \cup {NoFile}] /\ vfs[p].cloexec \in [Fd -> BOOLEAN]
                 /\ vfs[p].ref \in [File -> Nat] /\ vfs[p].open \subseteq File
      <3>1. TableInv(vfs[p])
        BY DEF Inv, CountInv
      <3>2. vfs[p].ref \in [File -> Int] /\ \A f \in File : vfs[p].ref[f] \in Nat
        BY <3>1, DescriptorsCount, TableFields DEF TableInv
      <3> QED BY <3>1, <3>2, TableFields DEF TableInv
    <2> QED BY <2>1 DEF Inv, TypeInv, TypeOK, ThreadType, EventType, PCs
  <1> QED BY <1>1, InvAlways, PTL

(* vfs_get and vfs_release, the stores and closes of vfs.c and fork pair   *)
(* up: a count is that of the descriptors, the calls in progress and, in a *)
(* child, the calls of its parent at fork, and a file is open while        *)
(* counted.                                                                *)
THEOREM ReferencesCount == Spec => []RefsExact
  <1>1. Inv => RefsExact
    <2> SUFFICES ASSUME Inv, NEW p \in Proc, NEW f \in File
                 PROVE  /\ vfs[p].ref[f] = Cardinality(FdsOf(vfs[p], f)) + Cardinality(UsersOf(p, f)) + Leaked(p, f)
                        /\ f \in vfs[p].open <=> vfs[p].ref[f] > 0
      BY DEF RefsExact, FdsOf, UsersOf, Leaked
    <2>1. TableInv(vfs[p]) /\ Balance(vfs[p], f) = Cardinality(UsersOf(p, f)) + Leaked(p, f)
      BY DEF Inv, CountInv
    <2>2. inherited[f] \in Nat /\ vfs[p].ref[f] \in Nat
      BY <2>1, DescriptorsCount DEF Inv, TypeInv
    <2> QED BY <2>1, <2>2, FdsFinite, UsersFinite DEF Balance, Leaked, TableInv
  <1> QED BY <1>1, InvAlways, PTL

(* No close, dup3, execve or exit of a call by another thread closes the   *)
(* file a read or write is in the middle of.                               *)
THEOREM HeldFilesStayOpen == Spec => []NoUseAfterClose
  <1>1. Inv => NoUseAfterClose
    BY HeldIsOpen DEF NoUseAfterClose
  <1> QED BY <1>1, InvAlways, PTL

-----------------------------------------------------------------------------
(* What eventfd_read and eventfd_write do to the value.  The mutex is held *)
(* from the check to the unlock, so what was fetched is still the value    *)
(* when it is stored.                                                      *)
Locked == {"check", "store", "unlock"}
MutexInv ==
  \A t \in Thread :
    /\ thread[t].pc \in Locked => Event(t).mutex = t
    /\ thread[t].pc = "store" =>
         /\ thread[t].seen = Event(t).value
         /\ thread[t].op = "write" => thread[t].seen + thread[t].n < 2^ValueBits

(* Programs write what Inputs says they do.                                *)
InputInv == \A t \in Thread : thread[t].op = "write" => thread[t].n \in Inputs

(* No write passes the check of eventfd_write because its sum wraps.       *)
NoWrap ==
  \A t \in Thread :
    At(t, "check") /\ Op(t) = "write" => Event(t).value + thread[t].n < 2^ValueBits

KeptInv == MutexInv /\ NothingLost

(* A step that touches no eventfd, and takes no thread into one's mutex.   *)
LEMMA KeptFrame ==
  ASSUME KeptInv, UNCHANGED <<ev, written, got>>,
         \A u \in Thread : thread'[u] = thread[u] \/ thread'[u].pc \notin Locked
  PROVE  KeptInv'
  BY DEF KeptInv, MutexInv, NothingLost, Event, Locked

(* A step of a thread inside a call that leaves its eventfd as e.          *)
LEMMA KeptMove ==
  ASSUME Inv, KeptInv, NEW t \in Thread, thread[t].file \in File, NEW e, SetEvent(t, e),
         \/ Event(t).mutex \in {NoThread, t}
         \/ e.mutex = Event(t).mutex /\ e.value = Event(t).value,
         NEW pc \in PCs \ {"store"}, Goto(t, pc), pc \in Locked => e.mutex = t,
         written'[thread[t].file] = got'[thread[t].file] + e.value,
         \A g \in File : g # thread[t].file => written'[g] = written[g] /\ got'[g] = got[g]
  PROVE  KeptInv'
  <1> DEFINE f == thread[t].file
  <1>1. /\ ev'[f] = e /\ \A g \in File : g # f => ev'[g] = ev[g]
    BY DEF SetEvent, Inv, TypeInv
  <1>2. /\ thread'[t].file = f /\ thread'[t].pc = pc
        /\ \A u \in Thread : u # t => thread'[u] = thread[u]
    BY GotoFacts DEF Inv, TypeInv
  <1>3. NothingLost'
    BY <1>1 DEF KeptInv, NothingLost
  <1>4. ASSUME NEW u \in Thread, thread'[u].pc \in Locked
        PROVE  /\ Event(u)'.mutex = u
               /\ thread'[u].pc = "store" =>
                    /\ thread'[u].seen = Event(u)'.value
                    /\ thread'[u].op = "write" => thread'[u].seen + thread'[u].n < 2^ValueBits
    <2>1. CASE u = t
      BY <1>1, <1>2, <1>4, <2>1 DEF Event
    <2>2. CASE u # t
      <3>1. thread'[u] = thread[u] /\ Event(u).mutex = u
        BY <1>2, <1>4, <2>2 DEF KeptInv, MutexInv
      <3>2. thread[u].file \in File
        BY <1>4, <3>1 DEF Inv, TypeInv, PlaceInv, ThreadType, Locked
      <3>3. CASE thread[u].file # f
        BY <1>1, <1>4, <3>1, <3>2, <3>3 DEF Event, KeptInv, MutexInv
      <3>4. CASE thread[u].file = f
        <4>1. Event(u) = Event(t) /\ u # NoThread
          BY <3>4, ThreadAssumption DEF Event
        <4>2. e.mutex = u /\ e.value = Event(u).value
          BY <2>2, <3>1, <4>1
        <4>3. Event(u)' = e
          BY <1>1, <3>1, <3>4 DEF Event
        <4> QED BY <1>4, <3>1, <4>2, <4>3 DEF KeptInv, MutexInv
      <3> QED BY <3>3, <3>4
    <2> QED BY <2>1, <2>2
  <1>5. MutexInv'
    BY <1>4 DEF MutexInv, Locked
  <1> QED BY <1>3, <1>5 DEF KeptInv

(* No value has been written at first.                                     *)
LEMMA KeptInit == Init => KeptInv
  <1> SUFFICES ASSUME Init PROVE KeptInv
    OBVIOUS
  <1>1. \A t \in Thread : thread[t].pc \in {"idle", "unborn"}
    BY DEF Init, Idle
  <1>2. \A f \in File : written[f] = 0 /\ got[f] = 0 /\ ev[f].value = 0
    BY DEF Init, NewEvent
  <1> QED BY <1>1, <1>2 DEF KeptInv, MutexInv, NothingLost, Locked

(* Every step that wraps no sum keeps what was written and not read.       *)
LEMMA KeptStep == Inv /\ NoWrap /\ KeptInv /\ [Next]_vars => KeptInv'
  <1> SUFFICES ASSUME Inv, NoWrap, KeptInv, [Next]_vars PROVE KeptInv'
    OBVIOUS
  <1>T. /\ ev \in [File -> EventType] /\ thread \in [Thread -> ThreadType]
        /\ written \in [File -> Nat] /\ got \in [File -> Nat]
    BY DEF Inv, TypeInv
  <1>K. \A f \in File : written[f] = got[f] + ev[f].value
    BY DEF KeptInv, NothingLost
  <1>Table. ASSUME UNCHANGED <<thread, ev, written, got>> PROVE KeptInv'
    BY <1>Table, KeptFrame
  <1>Begin. ASSUME NEW t \in Thread, NEW d \in Fd, NEW op, NEW pc \in {"lock", "setfd"}, NEW n,
                   Begin(t, d, op, pc, n)
            PROVE  KeptInv'
    <2>1. UNCHANGED <<ev, written, got>> /\ \A u \in Thread : thread'[u] = thread[u] \/ thread'[u].pc = pc
      BY <1>T, <1>Begin DEF Begin, Data
    <2> QED BY <2>1, KeptFrame DEF Locked
  <1>Calls. ASSUME NEW t \in Thread, NEW d \in Fd,
                   \/ Read(t, d)
                   \/ \E n \in Inputs : Write(t, d, n)
                   \/ \E ce \in BOOLEAN : Setfd(t, d, ce)
            PROVE  KeptInv'
    BY <1>Calls, <1>Begin DEF Read, Write, Setfd
  <1>Finish. ASSUME NEW t \in Thread, Finish(t) PROVE KeptInv'
    <2>1. UNCHANGED <<ev, written, got>> /\ \A u \in Thread : thread'[u] = thread[u] \/ thread'[u].pc = "idle"
      BY <1>T, <1>Finish DEF Finish, Data, Idle
    <2> QED BY <2>1, KeptFrame DEF Locked
  <1>Fork. ASSUME NEW t \in Thread, Fork(t) PROVE KeptInv'
    <2>1. UNCHANGED <<ev, written, got>> /\ \A u \in Thread : thread'[u] = thread[u] \/ thread'[u].pc = "idle"
      BY <1>T, <1>Fork DEF Fork, Idle
    <2> QED BY <2>1, KeptFrame DEF Locked
  <1>SetfdStore. ASSUME NEW t \in Thread, SetfdStore(t) PROVE KeptInv'
    <2>1. UNCHANGED <<ev, written, got>> /\ \A u \in Thread : thread'[u] = thread[u] \/ thread'[u].pc = "release"
      BY <1>T, <1>SetfdStore DEF SetfdStore, Goto, Data
    <2> QED BY <2>1, KeptFrame DEF Locked
  <1>Eventfd2. ASSUME NEW t \in Thread, NEW n \in Counts, NEW ce \in BOOLEAN, Eventfd2(t, n, ce)
               PROVE  KeptInv'
    <2> DEFINE f == Lowest(Unused)
    <2>1. f \in Unused
      BY <1>Eventfd2, LowestIsIn, FileTableAssumption DEF Eventfd2, Unused
    <2>2. /\ ev' = [ev EXCEPT ![f] = [NewEvent EXCEPT !.value = n]] /\ thread' = thread
          /\ written' = [written EXCEPT ![f] = n] /\ got' = [got EXCEPT ![f] = 0]
      BY <1>Eventfd2 DEF Eventfd2
    <2> HIDE DEF f
    <2>3. f \in File /\ \A u \in Thread : thread[u].file # f
      BY <2>1, UnusedIsFree
    <2>4. ev'[f].value = n /\ written'[f] = n /\ got'[f] = 0
      BY <1>T, <2>2, <2>3 DEF NewEvent
    <2>5. \A g \in File : g # f => ev'[g] = ev[g] /\ written'[g] = written[g] /\ got'[g] = got[g]
      BY <1>T, <2>2
    <2>6. NothingLost'
      BY <1>K, <2>4, <2>5, ConstantFacts DEF NothingLost
    <2>7. \A u \in Thread : thread[u].pc \in Locked => thread[u].file \in File
      BY <1>T DEF Inv, PlaceInv, ThreadType, Locked
    <2>8. \A u \in Thread : thread[u].pc \in Locked => Event(u)' = Event(u)
      BY <2>2, <2>3, <2>5, <2>7 DEF Event
    <2>9. MutexInv'
      BY <2>2, <2>8 DEF KeptInv, MutexInv, Locked
    <2> QED BY <2>6, <2>9 DEF KeptInv
  <1>In. ASSUME NEW t \in Thread, thread[t].pc \in Inside
         PROVE  /\ thread[t].file \in File /\ Event(t) \in EventType
                /\ thread[t].n \in Nat /\ thread[t].seen \in Nat
                /\ written[thread[t].file] = got[thread[t].file] + Event(t).value
    BY <1>In, <1>K, InsideFacts, ConstantFacts DEF Inside, Event
  <1>Lock. ASSUME NEW t \in Thread, Lock(t) PROVE KeptInv'
    <2> DEFINE e == [Event(t) EXCEPT !.mutex = t]
    <2>1. /\ thread[t].pc = "lock" /\ Event(t).mutex = NoThread /\ SetEvent(t, e)
          /\ Goto(t, "check") /\ written' = written /\ got' = got
      BY <1>Lock DEF Lock, At
    <2>2. Event(t) \in EventType /\ e.mutex = t /\ e.value = Event(t).value
      BY <1>In, <2>1, EventUpdate DEF Inside
    <2> HIDE DEF e
    <2> QED BY <1>In, <2>1, <2>2, KeptMove DEF Inside, PCs
  <1>Leave. ASSUME NEW t \in Thread, Leave(t) PROVE KeptInv'
    <2> DEFINE e == [Event(t) EXCEPT !.mutex = NoThread]
    <2>1. /\ thread[t].pc = "check" /\ SetEvent(t, e)
          /\ Goto(t, "wait") /\ written' = written /\ got' = got
      BY <1>Leave DEF Leave, At
    <2>2. Event(t).mutex = t
      BY <2>1 DEF KeptInv, MutexInv, Locked
    <2>3. Event(t) \in EventType /\ e.value = Event(t).value
      BY <1>In, <2>1, EventUpdate DEF Inside
    <2> HIDE DEF e
    <2> QED BY <1>In, <2>1, <2>2, <2>3, KeptMove DEF Inside, PCs, Locked
  <1>Unlock. ASSUME NEW t \in Thread, Unlock(t) PROVE KeptInv'
    <2> DEFINE e == [Event(t) EXCEPT !.mutex = NoThread]
    <2>1. /\ thread[t].pc = "unlock" /\ SetEvent(t, e)
          /\ Goto(t, "release") /\ written' = written /\ got' = got
      BY <1>Unlock DEF Unlock, At
    <2>2. Event(t).mutex = t
      BY <2>1 DEF KeptInv, MutexInv, Locked
    <2>3. Event(t) \in EventType /\ e.value = Event(t).value
      BY <1>In, <2>1, EventUpdate DEF Inside
    <2> HIDE DEF e
    <2> QED BY <1>In, <2>1, <2>2, <2>3, KeptMove DEF Inside, PCs, Locked
  <1>Wake. ASSUME NEW t \in Thread, Wake(t) PROVE KeptInv'
    <2>1. /\ thread[t].pc = "wait" /\ SetEvent(t, Down(t)) /\ Sem(t) > 0
          /\ Goto(t, "lock") /\ written' = written /\ got' = got
      BY <1>Wake DEF Wake, At
    <2>2. Down(t).mutex = Event(t).mutex /\ Down(t).value = Event(t).value
      BY <1>In, <2>1 DEF Inside, Down, EventType
    <2> QED BY <1>In, <2>1, <2>2, KeptMove DEF Inside, PCs, Locked
  <1>Fetch. ASSUME NEW t \in Thread, Fetch(t) PROVE KeptInv'
    <2>1. /\ thread[t].pc = "check" /\ UNCHANGED <<ev, written, got>>
          /\ thread' = [thread EXCEPT ![t].pc = "store", ![t].seen = Event(t).value]
      BY <1>Fetch DEF Fetch, At, Data
    <2>2. /\ thread'[t].pc = "store" /\ thread'[t].seen = Event(t).value /\ thread'[t].n = thread[t].n
          /\ thread'[t].file = thread[t].file /\ thread'[t].op = thread[t].op
          /\ \A u \in Thread : u # t => thread'[u] = thread[u]
      BY <1>T, <2>1 DEF ThreadType
    <2>3. /\ Event(t).mutex = t
          /\ thread[t].op = "write" => Event(t).value + thread[t].n < 2^ValueBits
      BY <2>1 DEF KeptInv, MutexInv, Locked, NoWrap, At, Op
    <2>4. \A u \in Thread : Event(u)' = Event(u)
      BY <2>1, <2>2 DEF Event
    <2>5. NothingLost'
      BY <2>1 DEF KeptInv, NothingLost
    <2>6. MutexInv'
      BY <2>2, <2>3, <2>4 DEF KeptInv, MutexInv
    <2> QED BY <2>5, <2>6 DEF KeptInv
  <1>Take. ASSUME NEW t \in Thread, Take(t) PROVE KeptInv'
    <2> DEFINE f == thread[t].file
               e == [Event(t) EXCEPT !.value = 0, !.canwrite = 1]
    <2>1. /\ thread[t].pc = "store" /\ SetEvent(t, e) /\ Goto(t, "unlock") /\ written' = written
          /\ got' = [got EXCEPT ![f] = @ + thread[t].seen]
      BY <1>Take DEF Take, At
    <2>2. Event(t).mutex = t /\ thread[t].seen = Event(t).value
      BY <2>1 DEF KeptInv, MutexInv, Locked
    <2>3. f \in File /\ Event(t) \in EventType /\ thread[t].seen \in Nat
          /\ written[f] = got[f] + Event(t).value
      BY <1>In, <2>1 DEF Inside
    <2>4. e.mutex = t /\ e.value = 0
      BY <2>2, <2>3 DEF EventType
    <2>5. /\ got'[f] = got[f] + thread[t].seen /\ got[f] \in Nat
          /\ \A g \in File : g # f => got'[g] = got[g]
      BY <1>T, <2>1, <2>3
    <2> HIDE DEF e
    <2>6. written'[f] = got'[f] + e.value
      BY <2>1, <2>2, <2>3, <2>4, <2>5
    <2> QED BY <2>1, <2>2, <2>3, <2>4, <2>5, <2>6, KeptMove DEF PCs
  <1>Add. ASSUME NEW t \in Thread, Add(t) PROVE KeptInv'
    <2> DEFINE f == thread[t].file
               m == Wrap(thread[t].seen + thread[t].n)
               e == [Event(t) EXCEPT !.value = m, !.canread = 1]
    <2>1. /\ thread[t].pc = "store" /\ thread[t].op = "write" /\ SetEvent(t, e) /\ Goto(t, "unlock")
          /\ got' = got /\ written' = [written EXCEPT ![f] = @ + thread[t].n]
      BY <1>Add DEF Add, At, Op
    <2>2. /\ Event(t).mutex = t /\ thread[t].seen = Event(t).value
          /\ thread[t].seen + thread[t].n < 2^ValueBits
      BY <2>1 DEF KeptInv, MutexInv, Locked
    <2>3. f \in File /\ Event(t) \in EventType /\ thread[t].seen \in Nat /\ thread[t].n \in Nat
          /\ written[f] = got[f] + Event(t).value
      BY <1>In, <2>1 DEF Inside
    <2>4. m = Event(t).value + thread[t].n
      BY <2>2, <2>3, ConstantFacts
    <2> HIDE DEF m
    <2>5. e.mutex = t /\ e.value = m
      BY <2>2, <2>3 DEF EventType
    <2>6. /\ written'[f] = written[f] + thread[t].n /\ got[f] \in Nat
          /\ \A g \in File : g # f => written'[g] = written[g]
      BY <1>T, <2>1, <2>3
    <2> HIDE DEF e
    <2>7. Event(t).value \in Nat
      BY <2>2, <2>3
    <2>8. written'[f] = got'[f] + e.value
      BY <2>1, <2>3, <2>4, <2>5, <2>6, <2>7
    <2> QED BY <2>1, <2>2, <2>3, <2>5, <2>6, <2>8, KeptMove DEF PCs
  <1> QED
    BY <1>Table, <1>Calls, <1>Finish, <1>Fork, <1>SetfdStore, <1>Eventfd2, <1>Lock, <1>Leave,
       <1>Unlock, <1>Wake, <1>Fetch, <1>Take, <1>Add
    DEF Next, Continue, Dup, Dup3, Close, Exec, Data, vars

(* As long as no sum wraps in eventfd_write, what was written and not read *)
(* yet is the value.                                                       *)
THEOREM KeptUnlessWrapped == Spec /\ []NoWrap => []NothingLost
  <1>1. KeptInv => NothingLost
    BY DEF KeptInv
  <1> QED BY <1>1, KeptInit, KeptStep, InvAlways, PTL DEF Spec

(* What a write in progress writes is what programs write.                 *)
LEMMA InputAlways == Spec => []InputInv
  <1>1. Init => InputInv
    BY DEF Init, InputInv, Idle
  <1>2. Inv /\ InputInv /\ [Next]_vars => InputInv'
    <2> SUFFICES ASSUME Inv, InputInv, [Next]_vars PROVE InputInv'
      OBVIOUS
    <2>T. thread \in [Thread -> ThreadType]
      BY DEF Inv, TypeInv
    <2>1. ASSUME NEW t \in Thread, NEW d \in Fd, NEW op, NEW pc, NEW n, Begin(t, d, op, pc, n),
                 op = "write" => n \in Inputs
          PROVE  InputInv'
      BY <2>T, <2>1 DEF Begin, InputInv
    <2>2. ASSUME NEW t \in Thread, NEW d \in Fd,
                 \/ Read(t, d)
                 \/ \E n \in Inputs : Write(t, d, n)
                 \/ \E ce \in BOOLEAN : Setfd(t, d, ce)
          PROVE  InputInv'
      BY <2>1, <2>2 DEF Read, Write, Setfd
    <2>3. ASSUME NEW t \in Thread, Finish(t) \/ Fork(t) PROVE InputInv'
      BY <2>T, <2>3 DEF Finish, Fork, Idle, InputInv
    <2>4. ASSUME \A u \in Thread : thread'[u].op = thread[u].op /\ thread'[u].n = thread[u].n
          PROVE  InputInv'
      BY <2>4 DEF InputInv
    <2>5. ASSUME NEW t \in Thread,
                 \/ SetfdStore(t) \/ Lock(t) \/ Leave(t) \/ Wake(t) \/ Take(t) \/ Add(t) \/ Unlock(t)
          PROVE  InputInv'
      <3>1. PICK pc \in PCs : Goto(t, pc)
        BY <2>5 DEF SetfdStore, Lock, Leave, Wake, Take, Add, Unlock, PCs
      <3>2. \A u \in Thread : thread'[u].op = thread[u].op /\ thread'[u].n = thread[u].n
        BY <2>T, <3>1, GotoFacts
      <3> QED BY <2>4, <3>2
    <2>6. ASSUME NEW t \in Thread, Fetch(t) PROVE InputInv'
      BY <2>T, <2>4, <2>6 DEF Fetch, ThreadType
    <2> QED BY <2>2, <2>3, <2>4, <2>5, <2>6
            DEF Next, Continue, Dup, Dup3, Close, Exec, Eventfd2, Data, vars
  <1> QED BY <1>1, <1>2, InvAlways, PTL DEF Spec

(* The use every event loop makes of an eventfd, to write ones, loses      *)
(* nothing: a value is at most EVENTFD_VALUE_MAX, two short of wrapping.   *)
THEOREM OnesAreKept ==
  ASSUME Inputs \subseteq {0, 1}
  PROVE  Spec => []NothingLost
  <1>1. Inv /\ InputInv => NoWrap
    <2> SUFFICES ASSUME Inv, InputInv, NEW t \in Thread, At(t, "check"), Op(t) = "write"
                 PROVE  Event(t).value + thread[t].n < 2^ValueBits
      BY DEF NoWrap
    <2>1. thread[t].n \in {0, 1}
      BY DEF InputInv, Op
    <2>2. Event(t).value \in 0 .. EVENTFD_VALUE_MAX
      BY InsideFacts DEF At, EventType
    <2> QED BY <2>1, <2>2, ConstantFacts
  <1> QED BY <1>1, KeptUnlessWrapped, InvAlways, InputAlways, PTL

-----------------------------------------------------------------------------
(* The names of a directory.                                               *)

WinName == FName \cup Bin
WinId == FileId \cup {NoId}
WinSlot == {"fd", "own", "tmp", "leaked"}
WinHandle == [p : WProc, slot : WinSlot, id : FileId, name : WinName, acc : BOOLEAN, excl : BOOLEAN]
WinPlace == {"idle", "test", "share", "bin", "dispose", "close", "rename", "link", "release", "write", "dead"}
WinCall == [at : WinPlace, op : {"none", "open", "rename", "link", "unlink", "symlink"},
            n : FName \cup {NoId}, tries : Nat, nofollow : BOOLEAN]
WinTypeOK ==
  /\ wname \in [WinName -> WinId] /\ wkind \in [FileId -> {"file", "link", "blank"}]
  /\ pend \subseteq WinName /\ hand \subseteq WinHandle /\ wth \in [WProc -> WinCall]
  /\ wcalls \in Nat /\ adir \in [FName -> WinId] /\ spoilt \in BOOLEAN

\* Which handles a call has
Opening(c) == c.at = "test" /\ c.op = "open"
Testing(c) == c.at = "test" /\ c.op \in {"rename", "link"}
OwnsOne(c) ==
  \/ Testing(c) \/ c.at \in {"rename", "link", "release"}
  \/ c.op = "rename" /\ c.at \in {"share", "bin", "dispose", "close"}
HasTmp(c) == c.at \in {"bin", "dispose", "close", "write"}
CallSound(c) ==
  /\ c.at = "test" => c.op \in {"open", "rename", "link"}
  /\ c.at = "rename" => c.op = "rename"
  /\ c.op \in {"rename", "link"} \/ c.at \in {"share", "bin", "dispose", "close", "rename", "link"} => c.n \in FName

Seats(hs) == {<<h.p, h.slot>> : h \in hs}
OnePerSeat(hs) == \A g, h \in hs : g.p = h.p /\ g.slot = h.slot /\ g.slot # "leaked" => g = h
SeatsSound(seats, cs) ==
  /\ \A p \in WProc, s \in WinSlot :
       <<p, s>> \in seats => cs[p].at # "dead" /\ (s = "tmp" => HasTmp(cs[p]))
  /\ \A p \in WProc : /\ CallSound(cs[p])
                      /\ Opening(cs[p]) => <<p, "fd">> \in seats
                      /\ OwnsOne(cs[p]) => <<p, "own">> \in seats
                      /\ HasTmp(cs[p]) => <<p, "tmp">> \in seats

\* Handles hs, a table of names and those to be deleted go together
Named(hs, names, waiting) ==
  /\ \A h \in hs : names[h.name] = h.id
  /\ \A n \in waiting : \E h \in hs : h.name = n
\* A handle that shares the file for DELETE only is beside none with access
Exclusive(hs) == \A g, h \in hs : g.excl /\ g.id = h.id => ~h.acc

ClosesPending == \A h \in hand : h.slot = "tmp" /\ wth[h.p].at = "close" => h.name \in pend

\* Unless it is spoilt: who has opened a file for good has access to it, what is
\* to be deleted in the directory is open without access only, and the directory
\* is what it should be but for names to be deleted
AccessSound(h, c, waiting) ==
  /\ h.slot = "fd" => h.acc \/ Opening(c)
  /\ h.slot = "own" => h.acc \/ Testing(c)
  /\ h.slot = "tmp" /\ c.at = "write" => h.acc
  /\ h.slot = "tmp" /\ c.at = "dispose" => h.excl \/ h.name \in Bin
  /\ h.slot # "leaked"
  /\ h.name \in waiting \cap FName => ~h.acc
NameSound(n) == IF n \in pend THEN adir[n] \in {NoId, wname[n]} ELSE adir[n] = wname[n]
BinSound(b) ==
  Visible(b) => \/ \E p \in WProc : wth[p].at = "dead"
                \/ \E h \in hand : h.slot = "tmp" /\ h.name = b /\ wth[h.p].at = "dispose"
Unspoilt ==
  /\ \A h \in hand : AccessSound(h, wth[h.p], pend)
  /\ \A n \in FName : NameSound(n)
  /\ \A b \in Bin : BinSound(b)

WinInv ==
  /\ WinTypeOK /\ OnePerSeat(hand) /\ SeatsSound(Seats(hand), wth)
  /\ Named(hand, wname, pend) /\ Exclusive(hand) /\ ClosesPending
  /\ ~spoilt => Unspoilt

(* Handles by slot.                                                        *)
LEMMA SeatsAre ==
  ASSUME WinTypeOK, NEW p \in WProc, NEW s \in WinSlot
  PROVE  /\ <<p, s>> \in Seats(hand) <=> Handle(p, s) # {}
         /\ Handle(p, s) # {} => /\ Mine(p, s) \in hand /\ Mine(p, s) \in WinHandle
                                 /\ Mine(p, s).p = p /\ Mine(p, s).slot = s
         /\ OnePerSeat(hand) /\ s # "leaked" => \A h \in Handle(p, s) : h = Mine(p, s)
  <1>1. <<p, s>> \in Seats(hand) <=> Handle(p, s) # {}
    BY DEF Seats, Handle
  <1>2. ASSUME Handle(p, s) # {} PROVE Mine(p, s) \in Handle(p, s)
    BY <1>2 DEF Mine
  <1>3. \A h \in Handle(p, s) : h \in hand /\ h \in WinHandle /\ h.p = p /\ h.slot = s
    BY DEF Handle, WinTypeOK
  <1>4. ASSUME OnePerSeat(hand), s # "leaked", NEW h \in Handle(p, s) PROVE h = Mine(p, s)
    BY <1>2, <1>3, <1>4 DEF OnePerSeat
  <1> QED BY <1>1, <1>2, <1>3, <1>4

LEMMA SeatsStep ==
  ASSUME WinTypeOK, NEW seats, SeatsSound(seats, wth), NEW p \in WProc, NEW c, wth' = [wth EXCEPT ![p] = c],
         NEW seats2, \A q \in WProc \ {p}, s \in WinSlot : <<q, s>> \in seats2 <=> <<q, s>> \in seats,
         CallSound(c),
         \A s \in WinSlot : <<p, s>> \in seats2 => c.at # "dead" /\ (s = "tmp" => HasTmp(c)),
         Opening(c) => <<p, "fd">> \in seats2, OwnsOne(c) => <<p, "own">> \in seats2,
         HasTmp(c) => <<p, "tmp">> \in seats2
  PROVE  SeatsSound(seats2, wth')
  <1>1. wth'[p] = c /\ \A q \in WProc : q # p => wth'[q] = wth[q]
    BY DEF WinTypeOK
  <1>2. ASSUME NEW q \in WProc, NEW s \in WinSlot, <<q, s>> \in seats2
        PROVE  wth'[q].at # "dead" /\ (s = "tmp" => HasTmp(wth'[q]))
    BY <1>1, <1>2 DEF SeatsSound
  <1>3. ASSUME NEW q \in WProc
        PROVE  /\ CallSound(wth'[q]) /\ (Opening(wth'[q]) => <<q, "fd">> \in seats2)
               /\ (OwnsOne(wth'[q]) => <<q, "own">> \in seats2) /\ (HasTmp(wth'[q]) => <<q, "tmp">> \in seats2)
    <2>1. CASE q = p
      BY <1>1, <2>1
    <2>2. CASE q # p
      <3>1. /\ CallSound(wth[q]) /\ (Opening(wth[q]) => <<q, "fd">> \in seats)
            /\ (OwnsOne(wth[q]) => <<q, "own">> \in seats) /\ (HasTmp(wth[q]) => <<q, "tmp">> \in seats)
        BY DEF SeatsSound
      <3>2. \A s \in WinSlot : <<q, s>> \in seats2 <=> <<q, s>> \in seats
        BY <2>2
      <3>3. "fd" \in WinSlot /\ "own" \in WinSlot /\ "tmp" \in WinSlot
        BY DEF WinSlot
      <3> QED BY <1>1, <2>2, <3>1, <3>2, <3>3
    <2> QED BY <2>1, <2>2
  <1> QED BY <1>2, <1>3 DEF SeatsSound

(* Handles closed.                                                         *)
LEMMA NamedClosing ==
  ASSUME WinTypeOK, Named(hand, wname, pend), NEW hs \in SUBSET hand, Closing(hs)
  PROVE  /\ wname' \in [WinName -> WinId] /\ pend' \subseteq pend /\ hand' = hs
         /\ \A n \in WinName : wname'[n] = IF n \in pend /\ n \notin pend' THEN NoId ELSE wname[n]
         /\ \A n \in pend : n \notin pend' <=> \A h \in hs : h.name # n
         /\ Named(hand', wname', pend')
  <1> DEFINE gone == {n \in pend : \A h \in hs : h.name # n}
  <1>1. hand' = hs /\ pend' = pend \ gone /\ wname' = [n \in WinName |-> IF n \in gone THEN NoId ELSE wname[n]]
    BY DEF Closing, WinTypeOK
  <1>2. NoId \in WinId /\ \A n \in WinName : wname[n] \in WinId
    BY DEF WinId, WinTypeOK
  <1>3. wname' \in [WinName -> WinId]
    BY <1>1, <1>2
  <1>4. \A h \in hs : h.name \in WinName /\ h.name \notin gone /\ wname[h.name] = h.id
    BY DEF WinTypeOK, WinHandle, Named
  <1>5. \A h \in hs : wname'[h.name] = h.id
    BY <1>1, <1>4
  <1>6. \A n \in pend' : \E h \in hs : h.name = n
    BY <1>1
  <1>7. pend \subseteq WinName
    BY DEF WinTypeOK
  <1> QED BY <1>1, <1>3, <1>5, <1>6, <1>7 DEF Named

(* A name moves.                                                           *)
LEMMA NamedMoved ==
  ASSUME WinTypeOK, Named(hand, wname, pend), NEW old \in WinName, NEW new \in WinName, old # new,
         old \notin pend, new \notin pend, \A h \in hand : h.name # new,
         wname' = [wname EXCEPT ![new] = wname[old], ![old] = NoId], hand' = Moved(old, new, hand), pend' = pend
  PROVE  /\ Named(hand', wname', pend') /\ wname' \in [WinName -> WinId]
         /\ \A n \in WinName : wname'[n] = IF n = new THEN wname[old] ELSE IF n = old THEN NoId ELSE wname[n]
  <1>1. \A n \in WinName : wname[n] \in WinId
    BY DEF WinTypeOK
  <1>2. NoId \in WinId
    BY DEF WinId
  <1>3. wname' \in [WinName -> WinId] /\ \A n \in WinName : wname'[n] = IF n = new THEN wname[old] ELSE IF n = old THEN NoId ELSE wname[n]
    BY <1>1, <1>2 DEF WinTypeOK
  <1>4. \A h \in hand : h \in WinHandle /\ h.name \in WinName /\ wname[h.name] = h.id
    BY DEF WinTypeOK, WinHandle, Named
  <1>5. \A h \in hand : LET g == IF h.name = old THEN [h EXCEPT !.name = new] ELSE h
                        IN  g \in hand' /\ g.id = h.id /\ g.name = (IF h.name = old THEN new ELSE h.name)
    BY <1>4 DEF Moved, WinHandle
  <1>6. \A g \in hand' : \E h \in hand : g.id = h.id /\ g.name = (IF h.name = old THEN new ELSE h.name)
    BY <1>4 DEF Moved, WinHandle
  <1>7. \A g \in hand' : wname'[g.name] = g.id
    <2> SUFFICES ASSUME NEW g \in hand' PROVE wname'[g.name] = g.id
      OBVIOUS
    <2>1. PICK h \in hand : g.id = h.id /\ g.name = (IF h.name = old THEN new ELSE h.name)
      BY <1>6
    <2> QED BY <2>1, <1>3, <1>4
  <1>8. \A n \in pend : \E g \in hand' : g.name = n
    <2> SUFFICES ASSUME NEW n \in pend PROVE \E g \in hand' : g.name = n
      OBVIOUS
    <2>1. PICK h \in hand : h.name = n
      BY DEF Named
    <2> QED BY <2>1, <1>5
  <1> QED BY <1>3, <1>7, <1>8 DEF Named

LEMMA WinFacts ==
  ASSUME WinInv, NEW p \in WProc
  PROVE  /\ WinTypeOK /\ OnePerSeat(hand) /\ SeatsSound(Seats(hand), wth) /\ Named(hand, wname, pend)
         /\ Exclusive(hand) /\ ClosesPending /\ (~spoilt => Unspoilt)
         /\ wth[p] \in WinCall /\ CallSound(wth[p]) /\ NoId \notin FileId /\ FName \cap Bin = {}
         /\ \A h \in hand : /\ h \in WinHandle /\ h.p \in WProc /\ h.slot \in WinSlot /\ h.id \in FileId /\ h.name \in WinName
                            /\ h.acc \in BOOLEAN /\ h.excl \in BOOLEAN /\ <<h.p, h.slot>> \in Seats(hand)
                            /\ wth[h.p].at # "dead" /\ (h.slot = "tmp" => HasTmp(wth[h.p])) /\ wname[h.name] = h.id
         /\ \A n \in pend : n \in WinName /\ wname[n] # NoId
         /\ (Opening(wth[p]) => Handle(p, "fd") # {}) /\ (OwnsOne(wth[p]) => Handle(p, "own") # {})
         /\ (HasTmp(wth[p]) => Handle(p, "tmp") # {})
  <1>1. WinTypeOK /\ OnePerSeat(hand) /\ SeatsSound(Seats(hand), wth) /\ Named(hand, wname, pend)
        /\ Exclusive(hand) /\ ClosesPending /\ (~spoilt => Unspoilt)
    BY DEF WinInv
  <1>2. \A h \in hand : /\ h \in WinHandle /\ h.p \in WProc /\ h.slot \in WinSlot /\ h.id \in FileId /\ h.name \in WinName
                        /\ h.acc \in BOOLEAN /\ h.excl \in BOOLEAN
    BY <1>1 DEF WinTypeOK, WinHandle
  <1>3. \A h \in hand : <<h.p, h.slot>> \in Seats(hand)
    BY DEF Seats
  <1>4. \A h \in hand : wth[h.p].at # "dead" /\ (h.slot = "tmp" => HasTmp(wth[h.p]))
    BY <1>1, <1>2, <1>3 DEF SeatsSound
  <1>5. \A h \in hand : wname[h.name] = h.id
    BY <1>1 DEF Named
  <1>6. NoId \notin FileId /\ FName \cap Bin = {}
    BY WinAssumption
  <1>7. \A n \in pend : n \in WinName /\ wname[n] # NoId
    BY <1>1, <1>2, <1>5, <1>6 DEF Named, WinTypeOK
  <1>8. "fd" \in WinSlot /\ "own" \in WinSlot /\ "tmp" \in WinSlot
    BY DEF WinSlot
  <1>9. CallSound(wth[p]) /\ (Opening(wth[p]) => Handle(p, "fd") # {}) /\ (OwnsOne(wth[p]) => Handle(p, "own") # {})
        /\ (HasTmp(wth[p]) => Handle(p, "tmp") # {})
    BY <1>1, <1>8, SeatsAre DEF SeatsSound
  <1>10. wth[p] \in WinCall
    BY <1>1 DEF WinTypeOK
  <1> QED BY <1>1, <1>2, <1>3, <1>4, <1>5, <1>6, <1>7, <1>9, <1>10

(* A handle is opened.                                                     *)
LEMMA OpenStep ==
  ASSUME WinInv, NEW p \in WProc, NEW c \in WinCall, wth' = [wth EXCEPT ![p] = c],
         wth[p].at \in {"idle", "share", "rename"}, NEW g \in WinHandle, g.p = p, g.slot # "leaked",
         Handle(p, g.slot) = {}, hand' = hand \cup {g}, g.name \in FName, g.name \notin pend,
         wname[g.name] \in {NoId, g.id}, wname' = [wname EXCEPT ![g.name] = g.id],
         adir' = IF wname[g.name] = NoId THEN [adir EXCEPT ![g.name] = g.id] ELSE adir,
         \A h \in hand : h.id = g.id => ~(h.excl /\ g.acc) /\ ~(g.excl /\ h.acc), ~(g.excl /\ g.acc),
         wkind' \in [FileId -> {"file", "link", "blank"}], wcalls' \in Nat, pend' = pend, spoilt' = spoilt,
         CallSound(c), c.at \notin {"dead", "close"}, HasTmp(c) <=> g.slot = "tmp", Opening(c) => g.slot = "fd",
         OwnsOne(c) => g.slot = "own" \/ OwnsOne(wth[p]), AccessSound(g, c, pend)
  PROVE  WinInv'
  <1> USE DEF WinName
  <1>1. /\ WinTypeOK /\ OnePerSeat(hand) /\ SeatsSound(Seats(hand), wth) /\ Named(hand, wname, pend)
        /\ Exclusive(hand) /\ ClosesPending /\ (~spoilt => Unspoilt)
        /\ NoId \notin FileId /\ FName \cap Bin = {}
        /\ \A h \in hand : /\ h \in WinHandle /\ h.p \in WProc /\ h.slot \in WinSlot /\ h.id \in FileId /\ h.name \in WinName
                           /\ h.acc \in BOOLEAN /\ h.excl \in BOOLEAN
                           /\ (h.slot = "tmp" => HasTmp(wth[h.p])) /\ wname[h.name] = h.id
        /\ \A n \in pend : n \in WinName /\ wname[n] # NoId
    BY WinFacts
  <1>2. wth'[p] = c /\ \A q \in WProc : q # p => wth'[q] = wth[q]
    BY <1>1 DEF WinTypeOK
  <1>3. /\ g.id \in FileId /\ g.name \in WinName /\ g.slot \in WinSlot /\ g \in hand' /\ hand \subseteq hand'
        /\ \A h \in hand' : h = g \/ h \in hand
    BY DEF WinHandle
  <1>4. wname'[g.name] = g.id /\ \A n \in WinName : n # g.name => wname'[n] = wname[n]
    BY <1>1, <1>3 DEF WinTypeOK
  <1>5. g.id \in WinId
    BY <1>3 DEF WinId
  <1>6. WinTypeOK'
    BY <1>1, <1>5 DEF WinTypeOK
  <1>7. \A h \in hand : ~(h.p = p /\ h.slot = g.slot)
    BY DEF Handle
  <1>8. OnePerSeat(hand')
    BY <1>1, <1>3, <1>7 DEF OnePerSeat
  <1>9. \A q, s : <<q, s>> \in Seats(hand') <=> <<q, s>> \in Seats(hand) \/ (q = p /\ s = g.slot)
    BY <1>3 DEF Seats
  <1>10. \A s \in WinSlot : <<p, s>> \in Seats(hand') => (s = "tmp" => HasTmp(c))
    <2>1. <<p, "tmp">> \notin Seats(hand)
      BY <1>1 DEF Seats, HasTmp
    <2> QED BY <2>1, <1>9
  <1>11. OwnsOne(wth[p]) => <<p, "own">> \in Seats(hand)
    BY <1>1 DEF SeatsSound
  <1>12. SeatsSound(Seats(hand'), wth')
    <2> DEFINE seats2 == Seats(hand')
    <2>1. \A q \in WProc \ {p}, s \in WinSlot : <<q, s>> \in seats2 <=> <<q, s>> \in Seats(hand)
      BY <1>9
    <2>2. \A s \in WinSlot : <<p, s>> \in seats2 => c.at # "dead" /\ (s = "tmp" => HasTmp(c))
      BY <1>10
    <2>3. /\ Opening(c) => <<p, "fd">> \in seats2
          /\ OwnsOne(c) => <<p, "own">> \in seats2
          /\ HasTmp(c) => <<p, "tmp">> \in seats2
      BY <1>9, <1>11
    <2> HIDE DEF seats2
    <2>4. SeatsSound(seats2, wth')
      BY <1>1, <2>1, <2>2, <2>3, SeatsStep
    <2> QED BY <2>4 DEF seats2
  <1>13. \A h \in hand : wname'[h.name] = h.id
    BY <1>1, <1>4
  <1>14. Named(hand', wname', pend')
    BY <1>1, <1>3, <1>4, <1>13 DEF Named
  <1>15. Exclusive(hand')
    BY <1>1, <1>3 DEF Exclusive
  <1>16. ClosesPending'
    <2> SUFFICES ASSUME NEW h \in hand', h.slot = "tmp", wth'[h.p].at = "close" PROVE h.name \in pend'
      BY DEF ClosesPending
    <2> QED BY <1>1, <1>2, <1>3 DEF ClosesPending
  <1>17. ASSUME ~spoilt' PROVE Unspoilt'
    <2>1. /\ \A h \in hand : AccessSound(h, wth[h.p], pend)
          /\ \A n \in FName : NameSound(n)
          /\ \A b \in Bin : BinSound(b)
      BY <1>1, <1>17 DEF Unspoilt
    <2>2. ASSUME NEW h \in hand' PROVE AccessSound(h, wth'[h.p], pend')
      <3>1. CASE h = g
        BY <1>2, <3>1
      <3>2. CASE h # g
        <4>1. h \in hand /\ AccessSound(h, wth[h.p], pend) /\ (h.slot = "tmp" => HasTmp(wth[h.p])) /\ h.p \in WProc
          BY <1>1, <1>3, <2>1, <3>2
        <4>2. CASE h.p = p
          BY <1>2, <4>1, <4>2 DEF AccessSound, Opening, Testing, HasTmp
        <4>3. CASE h.p # p
          BY <1>2, <4>1, <4>3
        <4> QED BY <4>2, <4>3
      <3> QED BY <3>1, <3>2
    <2>3. ASSUME NEW n \in FName PROVE NameSound(n)'
      <3>1. NameSound(n) /\ adir \in [FName -> WinId] /\ n \in WinName
        BY <1>1, <2>1 DEF WinTypeOK
      <3>2. CASE n = g.name
        BY <1>3, <1>4, <3>1, <3>2 DEF NameSound
      <3>3. CASE n # g.name
        BY <1>4, <3>1, <3>3 DEF NameSound
      <3> QED BY <3>2, <3>3
    <2>4. ASSUME NEW b \in Bin PROVE BinSound(b)'
      <3>1. b # g.name /\ wname'[b] = wname[b]
        BY <1>1, <1>4
      <3> SUFFICES ASSUME Visible(b) PROVE \/ \E q \in WProc : wth'[q].at = "dead"
                                           \/ \E h \in hand' : h.slot = "tmp" /\ h.name = b /\ wth'[h.p].at = "dispose"
        BY <3>1 DEF BinSound, Visible
      <3>2. \/ \E q \in WProc : wth[q].at = "dead"
            \/ \E h \in hand : h.slot = "tmp" /\ h.name = b /\ wth[h.p].at = "dispose"
        BY <2>1 DEF BinSound
      <3> QED BY <1>1, <1>2, <1>3, <3>2
    <2> QED BY <2>2, <2>3, <2>4 DEF Unspoilt
  <1> QED BY <1>6, <1>8, <1>12, <1>14, <1>15, <1>16, <1>17 DEF WinInv

(* Handles are closed.                                                     *)
LEMMA CloseStep ==
  ASSUME WinInv, NEW p \in WProc, NEW c \in WinCall, wth' = [wth EXCEPT ![p] = c], NEW rs \in SUBSET hand,
         \A h \in rs : h.p = p, Closing(hand \ rs), wth[p].at # "dead", CallSound(c),
         c.at \in {"idle", "rename", "release", "dead"}, wth[p].at = "dispose" => c.at = "dead",
         \A h \in hand \ rs : h.p = p => /\ c.at # "dead" /\ h.slot # "tmp"
                                         /\ ~(Opening(wth[p]) /\ h.slot = "fd") /\ ~(Testing(wth[p]) /\ h.slot = "own"),
         OwnsOne(c) => <<p, "own">> \in Seats(hand \ rs),
         wkind' \in [FileId -> {"file", "link", "blank"}], wcalls' \in Nat, adir' \in [FName -> WinId],
         spoilt' \in BOOLEAN, ~spoilt' => ~spoilt,
         ~spoilt' => \A n \in FName : IF n \in pend /\ n \notin pend' THEN adir'[n] = NoId
                                      ELSE adir'[n] = adir[n] \/ (n \in pend' /\ adir'[n] = NoId)
  PROVE  WinInv'
  <1>1. /\ WinTypeOK /\ OnePerSeat(hand) /\ SeatsSound(Seats(hand), wth) /\ Named(hand, wname, pend)
        /\ Exclusive(hand) /\ ClosesPending /\ (~spoilt => Unspoilt)
        /\ \A h \in hand : /\ h \in WinHandle /\ h.p \in WProc /\ h.slot \in WinSlot /\ h.name \in WinName
                           /\ (h.slot = "tmp" => HasTmp(wth[h.p]))
    BY WinFacts
  <1>2. wth'[p] = c /\ \A q \in WProc : q # p => wth'[q] = wth[q]
    BY <1>1 DEF WinTypeOK
  <1>3. /\ wname' \in [WinName -> WinId] /\ pend' \subseteq pend /\ hand' = hand \ rs
        /\ \A n \in WinName : wname'[n] = IF n \in pend /\ n \notin pend' THEN NoId ELSE wname[n]
        /\ \A n \in pend : n \notin pend' <=> \A h \in hand \ rs : h.name # n
        /\ Named(hand', wname', pend')
    <2> DEFINE hs == hand \ rs
    <2>1. hs \in SUBSET hand /\ Closing(hs)
      OBVIOUS
    <2> HIDE DEF hs
    <2>2. /\ wname' \in [WinName -> WinId] /\ pend' \subseteq pend /\ hand' = hs
          /\ \A n \in WinName : wname'[n] = IF n \in pend /\ n \notin pend' THEN NoId ELSE wname[n]
          /\ \A n \in pend : n \notin pend' <=> \A h \in hs : h.name # n
          /\ Named(hand', wname', pend')
      BY <1>1, <2>1, NamedClosing
    <2> QED BY <2>2 DEF hs
  <1>4. \A n \in FName : n \in WinName
    BY DEF WinName
  <1>5. WinTypeOK'
    BY <1>1, <1>3 DEF WinTypeOK
  <1>6. OnePerSeat(hand')
    BY <1>1, <1>3 DEF OnePerSeat
  <1>7. SeatsSound(Seats(hand'), wth')
    <2> DEFINE seats2 == Seats(hand')
    <2>1. \A q \in WProc \ {p}, s \in WinSlot : <<q, s>> \in seats2 <=> <<q, s>> \in Seats(hand)
      BY <1>3 DEF Seats
    <2>2. \A s \in WinSlot : <<p, s>> \in seats2 => c.at # "dead" /\ (s = "tmp" => HasTmp(c))
      BY <1>3 DEF Seats
    <2>3. /\ Opening(c) => <<p, "fd">> \in seats2
          /\ OwnsOne(c) => <<p, "own">> \in seats2
          /\ HasTmp(c) => <<p, "tmp">> \in seats2
      BY <1>3 DEF Opening, HasTmp
    <2> HIDE DEF seats2
    <2>4. SeatsSound(seats2, wth')
      BY <1>1, <2>1, <2>2, <2>3, SeatsStep
    <2> QED BY <2>4 DEF seats2
  <1>8. Exclusive(hand')
    BY <1>1, <1>3 DEF Exclusive
  <1>9. ClosesPending'
    <2> SUFFICES ASSUME NEW h \in hand', h.slot = "tmp", wth'[h.p].at = "close" PROVE h.name \in pend'
      BY DEF ClosesPending
    <2>1. h \in hand \ rs /\ h.p # p /\ h.p \in WProc
      BY <1>1, <1>3
    <2>2. h.name \in pend
      BY <1>1, <1>2, <2>1 DEF ClosesPending
    <2> QED BY <1>3, <2>1, <2>2
  <1>10. ASSUME ~spoilt' PROVE Unspoilt'
    <2>1. /\ \A h \in hand : AccessSound(h, wth[h.p], pend)
          /\ \A n \in FName : NameSound(n)
          /\ \A b \in Bin : BinSound(b)
      BY <1>1, <1>10 DEF Unspoilt
    <2>2. ASSUME NEW h \in hand' PROVE AccessSound(h, wth'[h.p], pend')
      <3>1. h \in hand \ rs /\ AccessSound(h, wth[h.p], pend) /\ h.p \in WProc
        BY <1>1, <1>3, <2>1
      <3>2. h.name \in pend' \cap FName => h.name \in pend \cap FName
        BY <1>3
      <3>3. CASE h.p = p
        BY <1>2, <3>1, <3>2, <3>3 DEF AccessSound, Opening, Testing
      <3>4. CASE h.p # p
        BY <1>2, <3>1, <3>2, <3>4 DEF AccessSound
      <3> QED BY <3>3, <3>4
    <2>3. ASSUME NEW n \in FName PROVE NameSound(n)'
      <3>1. NameSound(n) /\ n \in WinName
        BY <1>4, <2>1
      <3> QED BY <1>3, <1>10, <3>1 DEF NameSound
    <2>4. ASSUME NEW b \in Bin PROVE BinSound(b)'
      <3> SUFFICES ASSUME Visible(b)' PROVE \/ \E q \in WProc : wth'[q].at = "dead"
                                            \/ \E h \in hand' : h.slot = "tmp" /\ h.name = b /\ wth'[h.p].at = "dispose"
        BY DEF BinSound
      <3>1. b \in WinName
        BY DEF WinName
      <3>2. Visible(b)
        BY <1>3, <3>1 DEF Visible
      <3>3. BinSound(b)
        BY <2>1
      <3>4. CASE \E q \in WProc : wth[q].at = "dead"
        BY <1>2, <3>4
      <3>5. ASSUME NEW h \in hand, h.slot = "tmp", h.name = b, wth[h.p].at = "dispose"
            PROVE  \/ \E q \in WProc : wth'[q].at = "dead"
                   \/ \E g \in hand' : g.slot = "tmp" /\ g.name = b /\ wth'[g.p].at = "dispose"
        <4>1. CASE h.p = p
          BY <1>2, <3>5, <4>1
        <4>2. CASE h.p # p
          BY <1>1, <1>2, <1>3, <3>5, <4>2
        <4> QED BY <4>1, <4>2
      <3> QED BY <3>2, <3>3, <3>4, <3>5 DEF BinSound
    <2> QED BY <2>2, <2>3, <2>4 DEF Unspoilt
  <1> QED BY <1>3, <1>5, <1>6, <1>7, <1>8, <1>9, <1>10 DEF WinInv

(* No name goes with handles that have access.                             *)
LEMMA NoneGone ==
  ASSUME WinInv, ~spoilt, NEW rs \in SUBSET hand, Closing(hand \ rs), \A h \in rs : h.acc \/ h.name \notin pend
  PROVE  \A n \in FName : n \in pend => n \in pend'
  <1> SUFFICES ASSUME NEW n \in FName, n \in pend PROVE n \in pend'
    OBVIOUS
  <1>1. pend' = pend \ {m \in pend : \A h \in hand \ rs : h.name # m}
    BY DEF Closing
  <1>2. PICK h \in hand : h.name = n
    BY DEF WinInv, Named
  <1>3. ~h.acc
    BY <1>2 DEF WinInv, Unspoilt, AccessSound
  <1>4. h \in hand \ rs
    BY <1>2, <1>3
  <1> QED BY <1>1, <1>2, <1>4

(* A name moves, by the call of a process that has a handle of it.         *)
LEMMA NameMoves ==
  ASSUME WinInv, NEW p \in WProc, NEW c \in WinCall, wth' = [wth EXCEPT ![p] = c], NEW h \in hand, h.p = p,
         NEW new \in WinName, h.name # new, h.name \notin pend, new \notin pend, \A g \in hand : g.name # new,
         wname' = [wname EXCEPT ![new] = h.id, ![h.name] = NoId], hand' = Moved(h.name, new, hand), pend' = pend,
         wth[p].at \in {"bin", "rename"}, c.at \in {"dispose", "release"}, CallSound(c),
         HasTmp(c) <=> HasTmp(wth[p]), OwnsOne(c) => OwnsOne(wth[p]),
         c.at = "dispose" => h.slot = "tmp" /\ new \in Bin, new \in Bin => c.at = "dispose",
         wkind' = wkind, wcalls' \in Nat, adir' \in [FName -> WinId], spoilt' \in BOOLEAN, ~spoilt' => ~spoilt,
         ~spoilt' => h.name \in FName,
         ~spoilt' => \A n \in FName : adir'[n] = IF n = new THEN h.id ELSE IF n = h.name THEN NoId ELSE adir[n]
  PROVE  WinInv'
  <1> DEFINE old == h.name
             To(g) == IF g.name = old THEN [g EXCEPT !.name = new] ELSE g
  <1>1. /\ WinTypeOK /\ OnePerSeat(hand) /\ SeatsSound(Seats(hand), wth) /\ Named(hand, wname, pend)
        /\ Exclusive(hand) /\ ClosesPending /\ (~spoilt => Unspoilt) /\ FName \cap Bin = {}
        /\ \A g \in hand : /\ g \in WinHandle /\ g.p \in WProc /\ g.slot \in WinSlot /\ g.name \in WinName
                           /\ (g.slot = "tmp" => HasTmp(wth[g.p])) /\ wname[g.name] = g.id
    BY WinFacts
  <1>2. wth'[p] = c /\ \A q \in WProc : q # p => wth'[q] = wth[q]
    BY <1>1 DEF WinTypeOK
  <1>3. \A g \in WinHandle : /\ To(g) \in WinHandle /\ To(g).p = g.p /\ To(g).slot = g.slot /\ To(g).id = g.id
                             /\ To(g).acc = g.acc /\ To(g).excl = g.excl
                             /\ To(g).name = IF g.name = old THEN new ELSE g.name
    BY DEF WinHandle
  <1>4. hand' = {To(g) : g \in hand}
    BY DEF Moved
  <1>5. \A k \in hand' : \E g \in hand : k = To(g)
    BY <1>4
  <1>6. \A g \in hand : To(g) \in hand'
    BY <1>4
  <1>7. wname[old] = h.id /\ old \in WinName /\ old \notin pend /\ old # new
    BY <1>1
  <1>8. /\ Named(hand', wname', pend') /\ wname' \in [WinName -> WinId]
        /\ \A n \in WinName : wname'[n] = IF n = new THEN h.id ELSE IF n = old THEN NoId ELSE wname[n]
    <2>1. wname' = [wname EXCEPT ![new] = wname[old], ![old] = NoId] /\ hand' = Moved(old, new, hand)
      BY <1>7
    <2> HIDE DEF old
    <2> QED BY <1>1, <1>7, <2>1, NamedMoved
  <1> HIDE DEF old, To
  <1>9. \A n \in FName : n \in WinName
    BY DEF WinName
  <1>10. hand' \subseteq WinHandle
    BY <1>1, <1>3, <1>5
  <1>11. WinTypeOK'
    BY <1>1, <1>8, <1>10 DEF WinTypeOK
  <1>12. OnePerSeat(hand')
    <2> SUFFICES ASSUME NEW k1 \in hand', NEW k2 \in hand', k1.p = k2.p, k1.slot = k2.slot, k1.slot # "leaked"
                 PROVE  k1 = k2
      BY DEF OnePerSeat
    <2>1. PICK g1 \in hand : k1 = To(g1)
      BY <1>5
    <2>2. PICK g2 \in hand : k2 = To(g2)
      BY <1>5
    <2>3. g1 = g2
      BY <1>1, <1>3, <2>1, <2>2 DEF OnePerSeat
    <2> QED BY <2>1, <2>2, <2>3
  <1>13. \A q, s : <<q, s>> \in Seats(hand') <=> <<q, s>> \in Seats(hand)
    BY <1>1, <1>3, <1>5, <1>6 DEF Seats
  <1>14. SeatsSound(Seats(hand'), wth')
    <2> DEFINE seats2 == Seats(hand')
    <2>1. \A q \in WProc \ {p}, s \in WinSlot : <<q, s>> \in seats2 <=> <<q, s>> \in Seats(hand)
      BY <1>13
    <2>2. \A s \in WinSlot : <<p, s>> \in seats2 => c.at # "dead" /\ (s = "tmp" => HasTmp(c))
      BY <1>1, <1>13 DEF SeatsSound
    <2>3. /\ Opening(c) => <<p, "fd">> \in seats2
          /\ OwnsOne(c) => <<p, "own">> \in seats2
          /\ HasTmp(c) => <<p, "tmp">> \in seats2
      BY <1>1, <1>13 DEF SeatsSound, Opening
    <2> HIDE DEF seats2
    <2>4. SeatsSound(seats2, wth')
      BY <1>1, <2>1, <2>2, <2>3, SeatsStep
    <2> QED BY <2>4 DEF seats2
  <1>15. Exclusive(hand')
    <2> SUFFICES ASSUME NEW k1 \in hand', NEW k2 \in hand', k1.excl, k1.id = k2.id PROVE ~k2.acc
      BY DEF Exclusive
    <2>1. PICK g1 \in hand : k1 = To(g1)
      BY <1>5
    <2>2. PICK g2 \in hand : k2 = To(g2)
      BY <1>5
    <2>3. g1.excl /\ g1.id = g2.id /\ k2.acc = g2.acc
      BY <1>1, <1>3, <2>1, <2>2
    <2> QED BY <1>1, <2>3 DEF Exclusive
  <1>16. ClosesPending'
    <2> SUFFICES ASSUME NEW k \in hand', k.slot = "tmp", wth'[k.p].at = "close" PROVE k.name \in pend'
      BY DEF ClosesPending
    <2>1. PICK g \in hand : k = To(g)
      BY <1>5
    <2>2. k.p = g.p /\ k.slot = g.slot /\ g.p \in WProc /\ k.name = IF g.name = old THEN new ELSE g.name
      BY <1>1, <1>3, <2>1
    <2>3. g.name \in pend
      BY <1>1, <1>2, <2>2 DEF ClosesPending
    <2> QED BY <1>7, <2>2, <2>3
  <1>17. ASSUME ~spoilt' PROVE Unspoilt'
    <2>1. /\ \A g \in hand : AccessSound(g, wth[g.p], pend)
          /\ \A n \in FName : NameSound(n)
          /\ \A b \in Bin : BinSound(b)
          /\ old \in FName
      BY <1>1, <1>17 DEF Unspoilt, old
    <2>2. ASSUME NEW k \in hand' PROVE AccessSound(k, wth'[k.p], pend')
      <3>1. PICK g \in hand : k = To(g)
        BY <1>5
      <3>2. /\ k.p = g.p /\ k.slot = g.slot /\ k.acc = g.acc /\ k.excl = g.excl /\ g.p \in WProc
            /\ k.name = IF g.name = old THEN new ELSE g.name
        BY <1>1, <1>3, <3>1
      <3>3. AccessSound(g, wth[g.p], pend)
        BY <2>1
      <3>4. k.name \in pend' \cap FName => g.name \in pend \cap FName
        BY <3>2
      <3>5. g.name \in Bin => k.name \in Bin
        BY <1>1, <2>1, <3>2
      <3>6. CASE g.p # p
        BY <1>2, <3>2, <3>3, <3>4, <3>5, <3>6 DEF AccessSound
      <3>7. CASE g.p = p
        <4>1. g.slot = "tmp" /\ c.at = "dispose" => k.name \in Bin
          <5> SUFFICES ASSUME g.slot = "tmp", c.at = "dispose" PROVE k.name \in Bin
            OBVIOUS
          <5>1. g = h
            BY <1>1, <3>7 DEF OnePerSeat
          <5> QED BY <3>2, <5>1 DEF old
        <4>2. (k.slot = "fd" => k.acc) /\ (k.slot = "own" => k.acc) /\ k.slot # "leaked"
          BY <3>2, <3>3, <3>7 DEF AccessSound, Opening, Testing
        <4> QED BY <1>2, <3>2, <3>3, <3>4, <3>7, <4>1, <4>2 DEF AccessSound
      <3> QED BY <3>6, <3>7
    <2>3. ASSUME NEW n \in FName PROVE NameSound(n)'
      <3>1. NameSound(n) /\ n \in WinName
        BY <1>9, <2>1
      <3>2. adir'[n] = IF n = new THEN h.id ELSE IF n = old THEN NoId ELSE adir[n]
        BY <1>17 DEF old
      <3> QED BY <1>7, <1>8, <3>1, <3>2 DEF NameSound
    <2>4. ASSUME NEW b \in Bin PROVE BinSound(b)'
      <3> SUFFICES ASSUME Visible(b)' PROVE \/ \E q \in WProc : wth'[q].at = "dead"
                                            \/ \E k \in hand' : k.slot = "tmp" /\ k.name = b /\ wth'[k.p].at = "dispose"
        BY DEF BinSound
      <3>1. b \in WinName /\ b # old
        BY <1>1, <2>1 DEF WinName
      <3>2. CASE b = new
        <4>1. c.at = "dispose" /\ To(h) \in hand' /\ To(h).slot = "tmp" /\ To(h).name = b /\ To(h).p = p
          BY <1>1, <1>3, <1>6, <3>2 DEF old
        <4> QED BY <1>2, <4>1
      <3>3. CASE b # new
        <4>1. Visible(b)
          BY <1>8, <3>1, <3>3 DEF Visible
        <4>2. BinSound(b)
          BY <2>1
        <4>3. CASE \E q \in WProc : wth[q].at = "dead"
          BY <1>2, <4>3
        <4>4. ASSUME NEW g \in hand, g.slot = "tmp", g.name = b, wth[g.p].at = "dispose"
              PROVE  \E k \in hand' : k.slot = "tmp" /\ k.name = b /\ wth'[k.p].at = "dispose"
          <5>1. To(g) \in hand' /\ To(g).slot = "tmp" /\ To(g).name = b /\ To(g).p = g.p /\ g.p # p /\ g.p \in WProc
            BY <1>1, <1>3, <1>6, <3>1, <4>4
          <5> QED BY <1>2, <4>4, <5>1
        <4> QED BY <4>1, <4>2, <4>3, <4>4 DEF BinSound
      <3> QED BY <3>2, <3>3
    <2> QED BY <2>2, <2>3, <2>4 DEF Unspoilt
  <1> QED BY <1>8, <1>11, <1>12, <1>14, <1>15, <1>16, <1>17 DEF WinInv

(* The handles stay: a call fails or goes on, a name is added or marked.   *)
LEMMA StayStep ==
  ASSUME WinInv, NEW p \in WProc, NEW c \in WinCall, wth' = [wth EXCEPT ![p] = c], hand' = hand,
         wth[p].at \notin {"dead", "test"}, c.at \notin {"dead", "test", "dispose", "write"}, CallSound(c),
         HasTmp(c) <=> HasTmp(wth[p]), OwnsOne(c) => OwnsOne(wth[p]),
         pend \subseteq pend', \A n \in pend' \ pend : wth[p].at = "dispose" /\ \E h \in hand : h.p = p /\ h.slot = "tmp" /\ h.name = n,
         wth[p].at = "dispose" \/ c.at = "close" => \A h \in hand : h.p = p /\ h.slot = "tmp" => h.name \in pend',
         wname' \in [WinName -> WinId], adir' \in [FName -> WinId],
         \A n \in WinName : wname'[n] = wname[n] \/ (wname[n] = NoId /\ n \in FName /\ n \notin pend' /\ adir'[n] = wname'[n]),
         \A n \in FName : wname'[n] = wname[n] => adir'[n] = adir[n],
         wkind' = wkind, wcalls' \in Nat, spoilt' = spoilt
  PROVE  WinInv'
  <1>1. /\ WinTypeOK /\ OnePerSeat(hand) /\ SeatsSound(Seats(hand), wth) /\ Named(hand, wname, pend)
        /\ Exclusive(hand) /\ ClosesPending /\ (~spoilt => Unspoilt) /\ FName \cap Bin = {} /\ NoId \notin FileId
        /\ \A g \in hand : /\ g \in WinHandle /\ g.p \in WProc /\ g.slot \in WinSlot /\ g.name \in WinName /\ g.id \in FileId
                           /\ (g.slot = "tmp" => HasTmp(wth[g.p])) /\ wname[g.name] = g.id
    BY WinFacts
  <1>2. wth'[p] = c /\ \A q \in WProc : q # p => wth'[q] = wth[q]
    BY <1>1 DEF WinTypeOK
  <1>3. pend' \subseteq WinName
    BY <1>1 DEF WinTypeOK
  <1>4. WinTypeOK'
    BY <1>1, <1>3 DEF WinTypeOK
  <1>5. SeatsSound(Seats(hand), wth')
    <2> DEFINE seats2 == Seats(hand)
    <2>1. \A s \in WinSlot : <<p, s>> \in seats2 => c.at # "dead" /\ (s = "tmp" => HasTmp(c))
      BY <1>1 DEF SeatsSound
    <2>2. /\ Opening(c) => <<p, "fd">> \in seats2
          /\ OwnsOne(c) => <<p, "own">> \in seats2
          /\ HasTmp(c) => <<p, "tmp">> \in seats2
      BY <1>1 DEF SeatsSound, Opening
    <2> HIDE DEF seats2
    <2>3. SeatsSound(seats2, wth')
      BY <1>1, <2>1, <2>2, SeatsStep DEF seats2
    <2> QED BY <2>3 DEF seats2
  <1>6. \A h \in hand : wname'[h.name] = h.id
    BY <1>1
  <1>7. Named(hand', wname', pend')
    BY <1>1, <1>6 DEF Named
  <1>8. ClosesPending'
    <2> SUFFICES ASSUME NEW h \in hand, h.slot = "tmp", wth'[h.p].at = "close" PROVE h.name \in pend'
      BY DEF ClosesPending
    <2> QED BY <1>1, <1>2 DEF ClosesPending
  <1>9. ASSUME ~spoilt' PROVE Unspoilt'
    <2>1. /\ \A h \in hand : AccessSound(h, wth[h.p], pend)
          /\ \A n \in FName : NameSound(n)
          /\ \A b \in Bin : BinSound(b)
      BY <1>1, <1>9 DEF Unspoilt
    <2>2. ASSUME NEW g \in hand PROVE AccessSound(g, wth'[g.p], pend')
      <3>1. AccessSound(g, wth[g.p], pend) /\ g.p \in WProc /\ g.name \in WinName /\ (g.slot = "tmp" => HasTmp(wth[g.p]))
        BY <1>1, <2>1
      <3>2. ASSUME g.name \in pend' \cap FName PROVE ~g.acc
        <4>1. CASE g.name \in pend
          BY <3>1, <3>2, <4>1 DEF AccessSound
        <4>2. CASE g.name \notin pend
          <5>1. PICK h \in hand : h.p = p /\ h.slot = "tmp" /\ h.name = g.name /\ wth[p].at = "dispose"
            BY <3>2, <4>2
          <5>2. h.excl
            BY <1>1, <2>1, <3>2, <5>1 DEF AccessSound
          <5> QED BY <1>1, <5>1, <5>2 DEF Exclusive
        <4> QED BY <4>1, <4>2
      <3>3. CASE g.p = p
        BY <1>2, <3>1, <3>2, <3>3 DEF AccessSound, Opening, Testing
      <3>4. CASE g.p # p
        BY <1>2, <3>1, <3>2, <3>4 DEF AccessSound
      <3> QED BY <3>3, <3>4
    <2>3. ASSUME NEW n \in FName PROVE NameSound(n)'
      <3>1. NameSound(n) /\ n \in WinName
        BY <2>1 DEF WinName
      <3>2. CASE wname'[n] = wname[n]
        BY <3>1, <3>2 DEF NameSound
      <3>3. CASE wname'[n] # wname[n]
        BY <3>1, <3>3 DEF NameSound
      <3> QED BY <3>2, <3>3
    <2>4. ASSUME NEW b \in Bin PROVE BinSound(b)'
      <3> SUFFICES ASSUME Visible(b)' PROVE \/ \E q \in WProc : wth'[q].at = "dead"
                                            \/ \E k \in hand : k.slot = "tmp" /\ k.name = b /\ wth'[k.p].at = "dispose"
        BY DEF BinSound
      <3>1. b \in WinName /\ b \notin FName
        BY <1>1 DEF WinName
      <3>2. Visible(b) /\ b \notin pend'
        BY <3>1 DEF Visible
      <3>3. BinSound(b)
        BY <2>1
      <3>4. CASE \E q \in WProc : wth[q].at = "dead"
        BY <1>2, <3>4
      <3>5. ASSUME NEW g \in hand, g.slot = "tmp", g.name = b, wth[g.p].at = "dispose"
            PROVE  \E k \in hand : k.slot = "tmp" /\ k.name = b /\ wth'[k.p].at = "dispose"
        BY <1>1, <1>2, <3>2, <3>5
      <3> QED BY <3>2, <3>3, <3>4, <3>5 DEF BinSound
    <2> QED BY <2>2, <2>3, <2>4 DEF Unspoilt
  <1> QED BY <1>1, <1>4, <1>5, <1>7, <1>8, <1>9 DEF WinInv

(* A handle changes: it has access now, or nobody closes it.               *)
LEMMA MarkStep ==
  ASSUME WinInv, NEW p \in WProc, NEW c \in WinCall, wth' = [wth EXCEPT ![p] = c], NEW h \in hand, h.p = p,
         NEW k \in WinHandle, k.p = p, k.id = h.id, k.name = h.name, k.excl = h.excl, hand' = (hand \ {h}) \cup {k},
         k.acc => h.acc \/ (Shared(h.id, TRUE, FALSE) /\ h.name \notin pend), k.slot \in {h.slot, "leaked"},
         \A g \in hand : g.p = p /\ g.slot = "tmp" => g = h /\ k.slot = "leaked",
         wth[p].at \in {"test", "bin"}, c.at \in {"idle", "rename", "link", "release"}, CallSound(c),
         OwnsOne(c) => OwnsOne(wth[p]) /\ (h.slot = "own" => k.slot = "own"),
         wname' = wname, pend' = pend, adir' = adir, wkind' = wkind, wcalls' \in Nat, spoilt' \in BOOLEAN,
         ~spoilt' => /\ ~spoilt /\ k.acc /\ k.slot = h.slot /\ h.slot \in {"fd", "own"}
                     /\ (Opening(wth[p]) => h.slot = "fd") /\ (Testing(wth[p]) => h.slot = "own")
  PROVE  WinInv'
  <1>1. /\ WinTypeOK /\ OnePerSeat(hand) /\ SeatsSound(Seats(hand), wth) /\ Named(hand, wname, pend)
        /\ Exclusive(hand) /\ ClosesPending /\ (~spoilt => Unspoilt)
        /\ \A g \in hand : /\ g \in WinHandle /\ g.p \in WProc /\ g.slot \in WinSlot
                           /\ (g.slot = "tmp" => HasTmp(wth[g.p])) /\ wname[g.name] = g.id
    BY WinFacts
  <1>2. wth'[p] = c /\ \A q \in WProc : q # p => wth'[q] = wth[q]
    BY <1>1 DEF WinTypeOK
  <1>3. WinTypeOK'
    BY <1>1 DEF WinTypeOK
  <1>4. OnePerSeat(hand')
    BY <1>1 DEF OnePerSeat
  <1>5. SeatsSound(Seats(hand'), wth')
    <2> DEFINE seats2 == Seats(hand')
    <2>1. \A q \in WProc \ {p}, s \in WinSlot : <<q, s>> \in seats2 <=> <<q, s>> \in Seats(hand)
      BY DEF Seats
    <2>2. <<p, "tmp">> \notin seats2
      BY DEF Seats
    <2>3. ~HasTmp(c) /\ ~Opening(c)
      BY DEF HasTmp, Opening
    <2>4. OwnsOne(c) => <<p, "own">> \in seats2
      BY <1>1 DEF SeatsSound, Seats
    <2> HIDE DEF seats2
    <2>5. SeatsSound(seats2, wth')
      BY <1>1, <2>1, <2>2, <2>3, <2>4, SeatsStep
    <2> QED BY <2>5 DEF seats2
  <1>6. Named(hand', wname', pend')
    BY <1>1 DEF Named
  <1>7. Exclusive(hand')
    <2> SUFFICES ASSUME NEW k1 \in hand', NEW k2 \in hand', k1.excl, k1.id = k2.id, k2.acc PROVE FALSE
      BY DEF Exclusive
    <2>1. PICK g1 \in hand : g1.excl /\ g1.id = k1.id
      OBVIOUS
    <2>2. CASE k2 \in hand
      BY <1>1, <2>1, <2>2 DEF Exclusive
    <2>3. CASE k2 = k
      BY <1>1, <2>1, <2>3 DEF Exclusive, Shared
    <2> QED BY <2>2, <2>3
  <1>8. ClosesPending'
    <2> SUFFICES ASSUME NEW g \in hand', g.slot = "tmp", wth'[g.p].at = "close" PROVE g.name \in pend'
      BY DEF ClosesPending
    <2>1. g \in hand /\ g.p # p /\ g.p \in WProc
      BY <1>1, <1>2
    <2> QED BY <1>1, <1>2, <2>1 DEF ClosesPending
  <1>9. ASSUME ~spoilt' PROVE Unspoilt'
    <2>1. /\ \A g \in hand : AccessSound(g, wth[g.p], pend)
          /\ \A n \in FName : NameSound(n)
          /\ \A b \in Bin : BinSound(b)
          /\ ~spoilt /\ k.acc /\ k.slot = h.slot /\ h.slot \in {"fd", "own"}
          /\ (Opening(wth[p]) => h.slot = "fd") /\ (Testing(wth[p]) => h.slot = "own")
      BY <1>1, <1>9 DEF Unspoilt
    <2>2. ASSUME NEW g \in hand' PROVE AccessSound(g, wth'[g.p], pend')
      <3>1. CASE g = k
        <4>1. AccessSound(h, wth[p], pend)
          BY <2>1
        <4> QED BY <1>2, <2>1, <3>1, <4>1 DEF AccessSound
      <3>2. CASE g # k
        <4>1. g \in hand /\ g # h /\ AccessSound(g, wth[g.p], pend) /\ g.p \in WProc
          BY <1>1, <2>1, <3>2
        <4>2. CASE g.p = p
          <5>1. g.slot # h.slot
            BY <1>1, <2>1, <4>1, <4>2 DEF OnePerSeat
          <5>2. g.slot # "tmp"
            BY <2>1, <4>1, <4>2
          <5> QED BY <1>2, <2>1, <4>1, <4>2, <5>1, <5>2 DEF AccessSound
        <4>3. CASE g.p # p
          BY <1>2, <4>1, <4>3
        <4> QED BY <4>2, <4>3
      <3> QED BY <3>1, <3>2
    <2>3. \A n \in FName : NameSound(n)'
      BY <2>1 DEF NameSound
    <2>4. ASSUME NEW b \in Bin PROVE BinSound(b)'
      <3> SUFFICES ASSUME Visible(b)' PROVE \/ \E q \in WProc : wth'[q].at = "dead"
                                            \/ \E g \in hand' : g.slot = "tmp" /\ g.name = b /\ wth'[g.p].at = "dispose"
        BY DEF BinSound
      <3>1. Visible(b) /\ BinSound(b)
        BY <2>1 DEF Visible
      <3>2. CASE \E q \in WProc : wth[q].at = "dead"
        BY <1>2, <3>2
      <3>3. ASSUME NEW g \in hand, g.slot = "tmp", g.name = b, wth[g.p].at = "dispose"
            PROVE  \E g2 \in hand' : g2.slot = "tmp" /\ g2.name = b /\ wth'[g2.p].at = "dispose"
        BY <1>1, <1>2, <2>1, <3>3
      <3> QED BY <3>1, <3>2, <3>3 DEF BinSound
    <2> QED BY <2>2, <2>3, <2>4 DEF Unspoilt
  <1> QED BY <1>3, <1>4, <1>5, <1>6, <1>7, <1>8, <1>9 DEF WinInv

(* The calls, each as one of these.                                        *)
LEMMA WinSame ==
  ASSUME winVars' = winVars, WinInv
  PROVE  WinInv'
  <1>1. /\ WinTypeOK' = WinTypeOK /\ ClosesPending' = ClosesPending /\ Unspoilt' = Unspoilt
    BY DEF winVars, WinTypeOK, ClosesPending, Unspoilt, NameSound, BinSound, Visible
  <1> QED BY <1>1 DEF winVars, WinInv

LEMMA WinInvInit == WinInit => WinInv
  <1> SUFFICES ASSUME WinInit PROVE WinInv
    OBVIOUS
  <1>1. NoId \in WinId /\ WCalls \in Nat /\ FName \cap Bin = {} /\ 0 \in Nat
    BY WinAssumption DEF WinId
  <1>2. WIdle \in WinCall
    BY <1>1 DEF WIdle, WinCall, WinPlace
  <1>3. WinTypeOK
    BY <1>1, <1>2 DEF WinInit, WinTypeOK, WinName
  <1>4. SeatsSound(Seats(hand), wth)
    BY <1>2 DEF WinInit, SeatsSound, Seats, WIdle, CallSound, Opening, OwnsOne, Testing, HasTmp
  <1>5. OnePerSeat(hand) /\ Named(hand, wname, pend) /\ Exclusive(hand) /\ ClosesPending
    BY DEF WinInit, OnePerSeat, Named, Exclusive, ClosesPending
  <1>6. Unspoilt
    BY DEF WinInit, Unspoilt, NameSound, BinSound, Visible
  <1> QED BY <1>3, <1>4, <1>5, <1>6 DEF WinInv

LEMMA CallAt ==
  ASSUME NEW r \in WinCall, NEW a \in WinPlace
  PROVE  LET c == [r EXCEPT !.at = a]
         IN  c \in WinCall /\ c.at = a /\ c.op = r.op /\ c.n = r.n /\ c.tries = r.tries
  BY DEF WinCall

LEMMA CreateStep ==
  ASSUME WinInv, NEW p \in WProc, NEW op \in {"open", "rename", "link"}, NEW n \in FName, NEW to,
         op # "open" => to \in FName, op = "open" => to = NoId, NEW opath \in BOOLEAN, NEW nofollow \in BOOLEAN,
         NEW creat \in BOOLEAN, Create(p, op, n, to, opath, nofollow, creat)
  PROVE  WinInv'
  <1> DEFINE id == IF Visible(n) THEN wname[n] ELSE CHOOSE i \in FreeIds : TRUE
             slot == IF op = "open" THEN "fd" ELSE "own"
             c == [WIdle EXCEPT !.at = "test", !.op = op, !.n = to, !.nofollow = nofollow]
             g == [p |-> p, slot |-> slot, id |-> id, name |-> n, acc |-> ~opath, excl |-> FALSE]
  <1>1. WinTypeOK /\ NoId \notin FileId /\ (\A m \in pend : wname[m] # NoId) /\ \A h \in hand : h.id \in FileId
    BY WinFacts
  <1>2. n \in WinName /\ wname[n] \in WinId
    BY <1>1 DEF WinName, WinTypeOK
  <1>3. n \notin pend /\ id \in FileId /\ wname[n] \in {NoId, id} /\ (wname[n] = NoId => id \in FreeIds)
        /\ (wname[n] # NoId => Shared(wname[n], ~opath, FALSE) /\ id = wname[n])
    <2>1. CASE Visible(n)
      BY <1>2, <2>1 DEF Create, Visible, WinId
    <2>2. CASE ~Visible(n)
      <3>1. wname[n] = NoId /\ FreeIds # {}
        BY <2>2 DEF Create
      <3>2. id \in FreeIds
        BY <2>2, <3>1
      <3>3. id \in FileId
        BY <3>2 DEF FreeIds
      <3> QED BY <1>1, <3>1, <3>2, <3>3
    <2> QED BY <2>1, <2>2
  <1>4. /\ wth[p].at = "idle" /\ wcalls > 0 /\ wcalls' = wcalls - 1 /\ wth' = [wth EXCEPT ![p] = c]
        /\ Handle(p, slot) = {} /\ hand' = hand \cup {g} /\ wname' = [wname EXCEPT ![n] = id]
        /\ adir' = (IF wname[n] = NoId THEN [adir EXCEPT ![n] = id] ELSE adir)
        /\ wkind' = (IF wname[n] = NoId THEN [wkind EXCEPT ![id] = "file"] ELSE wkind)
        /\ pend' = pend /\ spoilt' = spoilt
    BY DEF Create, WBegin
  <1> HIDE DEF id
  <1>5. c \in WinCall /\ c.at = "test" /\ c.op = op /\ c.n = to
    BY WinAssumption DEF WIdle, WinCall, WinPlace
  <1>6. g \in WinHandle /\ g.p = p /\ g.slot = slot /\ g.id = id /\ g.name = n /\ ~g.excl /\ g.acc = ~opath
    BY <1>2, <1>3 DEF WinHandle, WinSlot
  <1>7. slot \in {"fd", "own"} /\ (slot = "fd" <=> op = "open")
    OBVIOUS
  <1>8. /\ CallSound(c) /\ c.at \notin {"dead", "close"} /\ (HasTmp(c) <=> g.slot = "tmp") /\ (Opening(c) <=> g.slot = "fd")
        /\ (OwnsOne(c) <=> g.slot = "own") /\ (Testing(c) <=> g.slot = "own")
    BY <1>5, <1>6, <1>7 DEF CallSound, HasTmp, Opening, OwnsOne, Testing
  <1>9. AccessSound(g, c, pend)
    BY <1>3, <1>5, <1>6, <1>7, <1>8 DEF AccessSound
  <1>10. wcalls' \in Nat /\ wkind' \in [FileId -> {"file", "link", "blank"}]
    BY <1>1, <1>3, <1>4 DEF WinTypeOK
  <1>11. \A h \in hand : h.id = g.id => ~(h.excl /\ g.acc) /\ ~(g.excl /\ h.acc)
    BY <1>3, <1>6 DEF Shared, FreeIds
  <1> HIDE DEF c, g, slot
  <1> QED BY <1>3, <1>4, <1>5, <1>6, <1>7, <1>8, <1>9, <1>10, <1>11, OpenStep

LEMMA SymlinkStep ==
  ASSUME WinInv, NEW p \in WProc, NEW n \in FName, winfs_symlink(p, n)
  PROVE  WinInv'
  <1> DEFINE id == CHOOSE i \in FreeIds : TRUE
             c == [WIdle EXCEPT !.at = "write", !.op = "symlink"]
             g == [p |-> p, slot |-> "tmp", id |-> id, name |-> n, acc |-> TRUE, excl |-> FALSE]
  <1>1. /\ WinTypeOK /\ NoId \notin FileId /\ (\A m \in pend : wname[m] # NoId)
        /\ \A h \in hand : h.slot = "tmp" => HasTmp(wth[h.p])
    BY WinFacts
  <1>2. n \in WinName
    BY DEF WinName
  <1>3. id \in FreeIds /\ wname[n] = NoId
    BY DEF winfs_symlink
  <1>4. id \in FileId /\ \A h \in hand : h.id # id
    BY <1>3 DEF FreeIds
  <1>5. /\ wth[p].at = "idle" /\ wcalls > 0 /\ wcalls' = wcalls - 1 /\ wth' = [wth EXCEPT ![p] = c]
        /\ hand' = hand \cup {g} /\ wname' = [wname EXCEPT ![n] = id]
        /\ adir' = [adir EXCEPT ![n] = id] /\ wkind' = [wkind EXCEPT ![id] = "blank"]
        /\ pend' = pend /\ spoilt' = spoilt
    BY DEF winfs_symlink, WBegin
  <1> HIDE DEF id
  <1>6. c \in WinCall /\ c.at = "write" /\ c.op = "symlink"
    BY WinAssumption DEF WIdle, WinCall, WinPlace
  <1>7. g \in WinHandle /\ g.p = p /\ g.slot = "tmp" /\ g.id = id /\ g.name = n /\ ~g.excl /\ g.acc
    BY <1>2, <1>4 DEF WinHandle, WinSlot
  <1>8. n \notin pend
    BY <1>1, <1>3
  <1>9. /\ CallSound(c) /\ c.at \notin {"dead", "close"} /\ (HasTmp(c) <=> g.slot = "tmp") /\ ~Opening(c)
        /\ ~OwnsOne(c) /\ AccessSound(g, c, pend)
    BY <1>6, <1>7, <1>8 DEF CallSound, HasTmp, Opening, OwnsOne, Testing, AccessSound
  <1>10. wcalls' \in Nat /\ wkind' \in [FileId -> {"file", "link", "blank"}]
    BY <1>1, <1>4, <1>5 DEF WinTypeOK
  <1>11. Handle(p, "tmp") = {}
    BY <1>1, <1>5 DEF Handle, HasTmp
  <1>12. \A h \in hand : h.id = g.id => ~(h.excl /\ g.acc) /\ ~(g.excl /\ h.acc)
    BY <1>4, <1>7
  <1>13. g.slot = "tmp" /\ Handle(p, g.slot) = {} /\ wname[g.name] = NoId /\ wname' = [wname EXCEPT ![g.name] = g.id]
         /\ adir' = IF wname[g.name] = NoId THEN [adir EXCEPT ![g.name] = g.id] ELSE adir
    BY <1>3, <1>5, <1>7, <1>11
  <1> HIDE DEF c, g
  <1> QED BY <1>5, <1>6, <1>7, <1>8, <1>9, <1>10, <1>12, <1>13, OpenStep

LEMMA UnlinkStep ==
  ASSUME WinInv, NEW p \in WProc, NEW n \in FName, NEW c \in WinCall, Unlink(c, p, n), wth[p].at \in {"idle", "rename"},
         c.op \in {"unlink", "rename"}, c.op = "rename" => OwnsOne(wth[p]), wcalls' \in Nat
  PROVE  WinInv'
  <1> DEFINE c1 == [c EXCEPT !.n = n, !.at = "share"]
             c2 == [c EXCEPT !.n = n, !.at = "dispose"]
             g == [p |-> p, slot |-> "tmp", id |-> wname[n], name |-> n, acc |-> FALSE, excl |-> TRUE]
  <1>1. /\ WinTypeOK /\ \A h \in hand : h.slot = "tmp" => HasTmp(wth[h.p])
    BY WinFacts
  <1>2. n \in WinName /\ wname[n] \in FileId /\ wname[n] # NoId /\ n \notin pend
    BY <1>1 DEF Unlink, Visible, WinName, WinTypeOK, WinId
  <1>3. wname' = wname /\ wkind' = wkind /\ pend' = pend /\ adir' = adir /\ spoilt' = spoilt
    BY DEF Unlink
  <1>4. /\ c1 \in WinCall /\ c1.at = "share" /\ c1.op = c.op /\ c1.n = n
        /\ c2 \in WinCall /\ c2.at = "dispose" /\ c2.op = c.op /\ c2.n = n
    BY DEF WinCall, WinPlace
  <1>5. CASE Shared(wname[n], FALSE, TRUE)
    <2>1. wth' = [wth EXCEPT ![p] = c2] /\ hand' = hand \cup {g}
      BY <1>5 DEF Unlink
    <2>2. g \in WinHandle /\ g.p = p /\ g.slot = "tmp" /\ g.id = wname[n] /\ g.name = n /\ g.excl /\ ~g.acc
      BY <1>2 DEF WinHandle, WinSlot
    <2>3. /\ CallSound(c2) /\ c2.at \notin {"dead", "close"} /\ HasTmp(c2) /\ ~Opening(c2)
          /\ (OwnsOne(c2) => OwnsOne(wth[p])) /\ AccessSound(g, c2, pend)
      BY <1>2, <1>4, <2>2 DEF CallSound, HasTmp, Opening, OwnsOne, Testing, AccessSound
    <2>4. Handle(p, "tmp") = {}
      BY <1>1 DEF Handle, HasTmp
    <2>5. \A h \in hand : h.id = g.id => ~(h.excl /\ g.acc) /\ ~(g.excl /\ h.acc)
      BY <1>5, <2>2 DEF Shared
    <2>6. wname' = [wname EXCEPT ![g.name] = g.id] /\ wkind' \in [FileId -> {"file", "link", "blank"}]
      BY <1>1, <1>3, <2>2 DEF WinTypeOK
    <2>8. Handle(p, g.slot) = {} /\ g.name \in FName /\ g.name \notin pend /\ wname[g.name] \in {NoId, g.id}
      BY <1>2, <2>2, <2>4
    <2>7. adir' = IF wname[g.name] = NoId THEN [adir EXCEPT ![g.name] = g.id] ELSE adir
      BY <1>2, <1>3, <2>2
    <2> HIDE DEF c1, c2, g
    <2> QED BY <1>2, <1>3, <1>4, <2>1, <2>2, <2>3, <2>5, <2>6, <2>7, <2>8, OpenStep
  <1>6. CASE ~Shared(wname[n], FALSE, TRUE)
    <2>1. wth' = [wth EXCEPT ![p] = c1] /\ hand' = hand
      BY <1>6 DEF Unlink
    <2>2. CallSound(c1) /\ ~HasTmp(c1) /\ ~HasTmp(wth[p]) /\ (OwnsOne(c1) => OwnsOne(wth[p]))
      BY <1>4 DEF CallSound, HasTmp, OwnsOne, Testing
    <2>3. wname' \in [WinName -> WinId] /\ adir' \in [FName -> WinId]
      BY <1>1, <1>3 DEF WinTypeOK
    <2> HIDE DEF c1, c2, g
    <2> QED BY <1>3, <1>4, <2>1, <2>2, <2>3, StayStep
  <1> QED BY <1>5, <1>6

LEMMA SymTestStep ==
  ASSUME WinInv, NEW p \in WProc, SymTest(p)
  PROVE  WinInv'
  <1> DEFINE h == Tested(p)
             slot == IF wth[p].op = "open" THEN "fd" ELSE "own"
             readable == h.acc \/ (Shared(h.id, TRUE, FALSE) /\ h.name \notin pend)
             dropped == readable /\ wkind[h.id] = "link" /\ (h.acc \/ ~wth[p].nofollow)
             c == IF wth[p].op = "open" \/ dropped THEN WIdle ELSE [wth[p] EXCEPT !.at = wth[p].op]
             k == [h EXCEPT !.acc = readable]
  <1>1. /\ WinTypeOK /\ OnePerSeat(hand) /\ wth[p] \in WinCall /\ CallSound(wth[p])
        /\ \A g \in hand : g \in WinHandle /\ (g.slot = "tmp" => HasTmp(wth[g.p]))
        /\ (Opening(wth[p]) => Handle(p, "fd") # {}) /\ (OwnsOne(wth[p]) => Handle(p, "own") # {})
    BY WinFacts
  <1>2. wth[p].at = "test" /\ wth[p].op \in {"open", "rename", "link"}
    BY <1>1 DEF SymTest, CallSound
  <1>3. slot \in {"fd", "own"} /\ (Opening(wth[p]) <=> slot = "fd") /\ (Testing(wth[p]) <=> slot = "own") /\ slot \in WinSlot
    BY <1>2 DEF Opening, Testing, WinSlot
  <1>4. Handle(p, slot) # {}
    BY <1>1, <1>3 DEF OwnsOne
  <1>5. h = Mine(p, slot) /\ h \in hand /\ h \in WinHandle /\ h.p = p /\ h.slot = slot /\ \A g \in Handle(p, slot) : g = h
    BY <1>1, <1>3, <1>4, SeatsAre DEF Tested
  <1>6. /\ wth' = [wth EXCEPT ![p] = c] /\ wcalls' = wcalls /\ wkind' = wkind /\ adir' = adir
        /\ spoilt' = (spoilt \/ ~readable)
        /\ IF dropped THEN Closing(hand \ {h})
           ELSE hand' = (hand \ {h}) \cup {k} /\ wname' = wname /\ pend' = pend
    BY DEF SymTest, WGo
  <1>7. readable \in BOOLEAN
    BY <1>5 DEF WinHandle
  <1>8. c \in WinCall /\ c.at \in {"idle", "rename", "link"} /\ (c.at = "link" \/ c.at = "rename" => wth[p].op = c.at /\ c.op = c.at)
        /\ (dropped => c.at = "idle") /\ CallSound(c) /\ (c.at = "idle" => c.op = "none")
    <2>1. CASE wth[p].op = "open" \/ dropped
      BY <2>1, WinAssumption DEF WIdle, WinCall, WinPlace, CallSound
    <2>2. CASE ~(wth[p].op = "open" \/ dropped)
      <3>1. c = [wth[p] EXCEPT !.at = wth[p].op]
        BY <2>2
      <3> HIDE DEF c, dropped, readable, h
      <3>2. c \in WinCall /\ c.at = wth[p].op /\ c.op = wth[p].op /\ c.n = wth[p].n
        <4>1. wth[p].op \in WinPlace
          BY <1>2, <2>2 DEF WinPlace
        <4> QED BY <1>1, <3>1, <4>1, CallAt
      <3> QED BY <1>1, <1>2, <2>2, <3>2 DEF CallSound
    <2> QED BY <2>1, <2>2
  <1>9. OwnsOne(c) => OwnsOne(wth[p]) /\ c.at # "idle"
    BY <1>2, <1>8 DEF OwnsOne, Testing
  <1>10. \A g \in hand : g.p = p => g.slot # "tmp"
    BY <1>1, <1>2 DEF HasTmp
  <1>11. wcalls' \in Nat /\ wkind' \in [FileId -> {"file", "link", "blank"}] /\ adir' \in [FName -> WinId] /\ spoilt' \in BOOLEAN
    BY <1>1, <1>6, <1>7 DEF WinTypeOK
  <1>12. CASE dropped
    <2> DEFINE rs == {h}
    <2>1. rs \in SUBSET hand /\ Closing(hand \ rs) /\ (\A g \in rs : g.p = p /\ (g.acc \/ g.name \notin pend))
      BY <1>5, <1>6, <1>12
    <2>2. ~OwnsOne(c) /\ c.at = "idle"
      BY <1>8, <1>9, <1>12
    <2>3. \A g \in hand \ rs : g.p = p => /\ g.slot # "tmp"
                                          /\ ~(Opening(wth[p]) /\ g.slot = "fd") /\ ~(Testing(wth[p]) /\ g.slot = "own")
      BY <1>3, <1>5, <1>10 DEF Handle
    <2> HIDE DEF rs, c, dropped, readable, k, slot, h
    <2>4. ~spoilt' => ~spoilt
      BY <1>6
    <2>5. ~spoilt' => \A n \in FName : n \in pend => n \in pend'
      BY <2>1, <2>4, NoneGone
    <2>6. ~spoilt' => \A n \in FName : IF n \in pend /\ n \notin pend' THEN adir'[n] = NoId
                                       ELSE adir'[n] = adir[n] \/ (n \in pend' /\ adir'[n] = NoId)
      BY <1>6, <2>5
    <2>7. wth[p].at # "dead" /\ wth[p].at # "dispose" /\ CallSound(c) /\ c \in WinCall /\ wth' = [wth EXCEPT ![p] = c]
      BY <1>2, <1>6, <1>8
    <2> QED BY <1>11, <2>1, <2>2, <2>3, <2>4, <2>6, <2>7, CloseStep
  <1>13. CASE ~dropped
    <2>1. hand' = (hand \ {h}) \cup {k} /\ wname' = wname /\ pend' = pend
      BY <1>6, <1>13
    <2>2. k \in WinHandle /\ k.p = p /\ k.id = h.id /\ k.name = h.name /\ k.excl = h.excl /\ k.slot = h.slot /\ k.acc = readable
      BY <1>5, <1>7 DEF WinHandle
    <2>3. k.acc => h.acc \/ (Shared(h.id, TRUE, FALSE) /\ h.name \notin pend)
      BY <2>2
    <2>4. ~spoilt' => /\ ~spoilt /\ k.acc /\ k.slot = h.slot /\ h.slot \in {"fd", "own"}
                      /\ (Opening(wth[p]) => h.slot = "fd") /\ (Testing(wth[p]) => h.slot = "own")
      BY <1>3, <1>5, <1>6, <2>2
    <2>5. OwnsOne(c) => OwnsOne(wth[p]) /\ (h.slot = "own" => k.slot = "own")
      BY <1>9, <2>2
    <2>6. wth[p].at \in {"test", "bin"} /\ c.at \in {"idle", "rename", "link", "release"} /\ k.slot \in {h.slot, "leaked"}
      BY <1>2, <1>8, <2>2
    <2> HIDE DEF c, dropped, readable, k, slot, h
    <2>7. \A g \in hand : g.p = p /\ g.slot = "tmp" => g = h /\ k.slot = "leaked"
      BY <1>10
    <2>8. wth' = [wth EXCEPT ![p] = c] /\ wkind' = wkind /\ adir' = adir /\ h \in hand /\ h.p = p /\ c \in WinCall /\ CallSound(c)
      BY <1>5, <1>6, <1>8
    <2> QED BY <1>11, <2>1, <2>2, <2>3, <2>4, <2>5, <2>6, <2>7, <2>8, MarkStep, ZenonT(60)
  <1> QED BY <1>12, <1>13

LEMMA CloseCallStep ==
  ASSUME WinInv, NEW p \in WProc, winfs_close(p) \/ ReleaseOwn(p) \/ SymlinkWrite(p)
  PROVE  WinInv'
  <1> DEFINE s == IF winfs_close(p) THEN "fd" ELSE IF ReleaseOwn(p) THEN "own" ELSE "tmp"
             rs == Handle(p, s)
  <1>1. /\ WinTypeOK /\ OnePerSeat(hand) /\ (~spoilt => Unspoilt)
        /\ \A g \in hand : g \in WinHandle /\ (g.slot = "tmp" => HasTmp(wth[g.p]))
        /\ (HasTmp(wth[p]) => Handle(p, "tmp") # {})
    BY WinFacts
  <1>2. s \in WinSlot /\ "tmp" \in WinSlot
    BY DEF WinSlot
  <1>3. rs \in SUBSET hand /\ \A h \in rs : h.p = p /\ h.slot = s
    BY DEF Handle
  <1>4. WIdle \in WinCall /\ WIdle.at = "idle" /\ CallSound(WIdle) /\ ~OwnsOne(WIdle)
    BY WinAssumption DEF WIdle, WinCall, WinPlace, CallSound, OwnsOne, Testing
  <1>5. wth' = [wth EXCEPT ![p] = WIdle] /\ adir' = adir /\ spoilt' = spoilt
    BY DEF winfs_close, ReleaseOwn, SymlinkWrite, WBegin, WGo
  <1>6. wcalls' \in Nat
    BY <1>1 DEF WinTypeOK, winfs_close, ReleaseOwn, SymlinkWrite, WBegin, WGo
  <1>7. Closing(hand \ rs) /\ wkind' \in [FileId -> {"file", "link", "blank"}]
        /\ wth[p].at \in {"idle", "release", "write"} /\ (s = "tmp" <=> wth[p].at = "write")
    <2>1. CASE winfs_close(p)
      BY <1>1, <2>1 DEF winfs_close, WBegin, WinTypeOK
    <2>2. CASE ~winfs_close(p) /\ ReleaseOwn(p)
      BY <1>1, <2>2 DEF ReleaseOwn, WGo, WinTypeOK
    <2>3. CASE ~winfs_close(p) /\ ~ReleaseOwn(p) /\ SymlinkWrite(p)
      <3>1. wth[p].at = "write" /\ s = "tmp" /\ Closing(hand \ {Mine(p, "tmp")}) /\ wkind' = [wkind EXCEPT ![Mine(p, "tmp").id] = "link"]
        BY <2>3 DEF SymlinkWrite, WGo
      <3>2. Handle(p, "tmp") # {}
        BY <1>1, <3>1 DEF HasTmp
      <3>3. Mine(p, "tmp") \in Handle(p, "tmp") /\ \A h \in Handle(p, "tmp") : h = Mine(p, "tmp")
        BY <1>1, <1>2, <3>2, SeatsAre DEF Handle
      <3>4. rs = {Mine(p, "tmp")}
        BY <3>1, <3>3
      <3> QED BY <1>1, <3>1, <3>4 DEF WinTypeOK
    <2> QED BY <2>1, <2>2, <2>3
  <1>8. \A h \in hand \ rs : h.p = p => /\ h.slot # "tmp"
                                        /\ ~(Opening(wth[p]) /\ h.slot = "fd") /\ ~(Testing(wth[p]) /\ h.slot = "own")
    BY <1>1, <1>7 DEF Handle, HasTmp, Opening, Testing
  <1>9. ~spoilt => \A h \in rs : h.acc
    <2> SUFFICES ASSUME ~spoilt, NEW h \in rs PROVE h.acc
      OBVIOUS
    <2>1. h \in hand /\ h.p = p /\ h.slot = s
      BY <1>3
    <2>2. AccessSound(h, wth[p], pend)
      BY <1>1, <2>1 DEF Unspoilt
    <2>3. s \in {"fd", "own", "tmp"} /\ ~Opening(wth[p]) /\ ~Testing(wth[p]) /\ (s = "tmp" => wth[p].at = "write")
      BY <1>7 DEF Opening, Testing
    <2> QED BY <2>1, <2>2, <2>3 DEF AccessSound
  <1> HIDE DEF s, rs
  <1>10. ~spoilt => \A n \in FName : n \in pend => n \in pend'
    BY <1>3, <1>7, <1>9, NoneGone
  <1>11. ~spoilt' => \A n \in FName : IF n \in pend /\ n \notin pend' THEN adir'[n] = NoId
                                      ELSE adir'[n] = adir[n] \/ (n \in pend' /\ adir'[n] = NoId)
    BY <1>5, <1>10
  <1>12. adir' \in [FName -> WinId] /\ spoilt' \in BOOLEAN
    BY <1>1, <1>5 DEF WinTypeOK
  <1> QED BY <1>3, <1>4, <1>5, <1>6, <1>7, <1>8, <1>11, <1>12, CloseStep

\* What Busy and the other ends of an unlink leave
LEMMA CallEnds ==
  ASSUME NEW r \in WinCall, CallSound(r), NEW a \in {"rename", "release"}, r.at \in {"share", "bin", "close"},
         NEW c, c = IF r.op = "rename" THEN [r EXCEPT !.at = a] ELSE WIdle
  PROVE  c \in WinCall /\ CallSound(c) /\ c.at \in {"idle", a} /\ ~HasTmp(c) /\ ~Opening(c) /\ (OwnsOne(c) => OwnsOne(r) /\ r.op = "rename")
  <1>1. CASE r.op = "rename"
    <2>1. a \in WinPlace
      BY DEF WinPlace
    <2>2. c \in WinCall /\ c.at = a /\ c.op = r.op /\ c.n = r.n
      BY <1>1, <2>1, CallAt
    <2> QED BY <1>1, <2>2 DEF CallSound, HasTmp, Opening, OwnsOne
  <1>2. CASE r.op # "rename"
    <2>1. c = WIdle
      BY <1>2
    <2> QED BY <2>1, WinAssumption DEF WIdle, WinCall, WinPlace, CallSound, HasTmp, Opening, OwnsOne, Testing
  <1> QED BY <1>1, <1>2

LEMMA OpenSharedStep ==
  ASSUME WinInv, NEW p \in WProc, OpenShared(p)
  PROVE  WinInv'
  <1> DEFINE r == wth[p]
             n == r.n
             g == [p |-> p, slot |-> "tmp", id |-> wname[n], name |-> n, acc |-> FALSE, excl |-> FALSE]
  <1>1. /\ WinTypeOK /\ r \in WinCall /\ CallSound(r) /\ Exclusive(hand)
        /\ \A h \in hand : h \in WinHandle /\ (h.slot = "tmp" => HasTmp(wth[h.p]))
    BY WinFacts
  <1>2. r.at = "share"
    BY DEF OpenShared
  <1>3. n \in FName /\ n \in WinName
    BY <1>1, <1>2 DEF CallSound, WinName
  <1>4. wname' = wname /\ wkind' = wkind /\ pend' = pend /\ adir' = adir /\ spoilt' = spoilt /\ wcalls' = wcalls
    BY DEF OpenShared, WGo
  <1>5. wcalls' \in Nat /\ wkind' \in [FileId -> {"file", "link", "blank"}] /\ wname' \in [WinName -> WinId] /\ adir' \in [FName -> WinId]
    BY <1>1, <1>4 DEF WinTypeOK
  <1>6. CASE Visible(n)
    <2> DEFINE c == [r EXCEPT !.at = "bin"]
    <2>1. wth' = [wth EXCEPT ![p] = c] /\ hand' = hand \cup {g}
      BY <1>6 DEF OpenShared, WGo
    <2>2. wname[n] \in FileId /\ wname[n] # NoId /\ n \notin pend
      BY <1>1, <1>3, <1>6 DEF Visible, WinTypeOK, WinId
    <2>3. g \in WinHandle /\ g.p = p /\ g.slot = "tmp" /\ g.id = wname[n] /\ g.name = n /\ ~g.excl /\ ~g.acc
      BY <1>3, <2>2 DEF WinHandle, WinSlot
    <2>4. "bin" \in WinPlace
      BY DEF WinPlace
    <2>5. c \in WinCall /\ c.at = "bin" /\ c.op = r.op /\ c.n = n
      BY <1>1, <2>4, CallAt
    <2> HIDE DEF c, g, n, r
    <2>6. CallSound(c) /\ HasTmp(c) /\ ~Opening(c) /\ (OwnsOne(c) => OwnsOne(r))
      BY <1>2, <1>3, <2>5 DEF CallSound, HasTmp, Opening, OwnsOne, Testing
    <2>7. AccessSound(g, c, pend)
      BY <2>2, <2>3, <2>5 DEF AccessSound
    <2>8. Handle(p, "tmp") = {}
      BY <1>1, <1>2 DEF Handle, HasTmp, r
    <2>9. Handle(p, g.slot) = {} /\ g.name \in FName /\ g.name \notin pend /\ wname[g.name] \in {NoId, g.id} /\ g.slot # "leaked"
      BY <1>3, <2>2, <2>3, <2>8
    <2>10. wname' = [wname EXCEPT ![g.name] = g.id] /\ adir' = IF wname[g.name] = NoId THEN [adir EXCEPT ![g.name] = g.id] ELSE adir
      BY <1>1, <1>4, <2>2, <2>3 DEF WinTypeOK
    <2>11. (\A h \in hand : h.id = g.id => ~(h.excl /\ g.acc) /\ ~(g.excl /\ h.acc)) /\ ~(g.excl /\ g.acc)
      BY <2>3
    <2>12. c.at \notin {"dead", "close"} /\ (HasTmp(c) <=> g.slot = "tmp") /\ wth[p].at \in {"idle", "share", "rename"}
           /\ (OwnsOne(c) => g.slot = "own" \/ OwnsOne(wth[p]))
      BY <1>2, <2>3, <2>5, <2>6 DEF r
    <2> QED BY <1>4, <1>5, <2>1, <2>3, <2>5, <2>6, <2>7, <2>9, <2>10, <2>11, <2>12, OpenStep
  <1>7. CASE ~Visible(n)
    <2> DEFINE c == Busy(p)
    <2>1. wth' = [wth EXCEPT ![p] = c] /\ hand' = hand
      BY <1>7 DEF OpenShared, WGo
    <2>2. c = IF r.op = "rename" THEN [r EXCEPT !.at = "release"] ELSE WIdle
      BY DEF Busy
    <2> HIDE DEF c, r
    <2>3. c \in WinCall /\ CallSound(c) /\ c.at \in {"idle", "release"} /\ ~HasTmp(c) /\ (OwnsOne(c) => OwnsOne(r))
      BY <1>1, <1>2, <2>2, CallEnds
    <2>4. ~HasTmp(r)
      BY <1>2 DEF HasTmp
    <2> QED BY <1>2, <1>4, <1>5, <2>1, <2>3, <2>4, StayStep DEF r
  <1> QED BY <1>6, <1>7

LEMMA RecycleStep ==
  ASSUME WinInv, NEW p \in WProc, move_to_recycle_bin(p)
  PROVE  WinInv'
  <1> DEFINE r == wth[p]
             h == Mine(p, "tmp")
             bin == <<h.id, r.n>>
             free == wname[bin] = NoId /\ h.name \in FName /\ h.name \notin pend
  <1>1. /\ WinTypeOK /\ OnePerSeat(hand) /\ r \in WinCall /\ CallSound(r) /\ NoId \notin FileId /\ FName \cap Bin = {}
        /\ \A g \in hand : g \in WinHandle /\ g.id \in FileId /\ wname[g.name] = g.id
        /\ \A n \in pend : wname[n] # NoId
        /\ (HasTmp(r) => Handle(p, "tmp") # {})
    BY WinFacts
  <1>2. r.at = "bin"
    BY DEF move_to_recycle_bin, WGo
  <1>3. "tmp" \in WinSlot /\ Handle(p, "tmp") # {}
    BY <1>1, <1>2 DEF WinSlot, HasTmp
  <1>4. h \in hand /\ h \in WinHandle /\ h.p = p /\ h.slot = "tmp" /\ \A g \in Handle(p, "tmp") : g = h
    BY <1>1, <1>3, SeatsAre
  <1>5. h.id \in FileId /\ r.n \in FName
    BY <1>1, <1>2, <1>4 DEF CallSound
  <1>6. bin \in Bin /\ bin \in WinName
    BY <1>5 DEF Bin, WinName
  <1>7. wcalls' = wcalls /\ wkind' = wkind /\ pend' = pend
    BY DEF move_to_recycle_bin, WGo
  <1>8. wcalls' \in Nat
    BY <1>1, <1>7 DEF WinTypeOK
  <1>9. CASE free
    <2> DEFINE c == [r EXCEPT !.at = "dispose"]
    <2>1. /\ wth' = [wth EXCEPT ![p] = c] /\ hand' = Moved(h.name, bin, hand)
          /\ wname' = [wname EXCEPT ![bin] = h.id, ![h.name] = NoId] /\ adir' = [adir EXCEPT ![h.name] = NoId]
          /\ spoilt' = spoilt
      BY <1>9 DEF move_to_recycle_bin, WGo
    <2>2. "dispose" \in WinPlace
      BY DEF WinPlace
    <2>3. c \in WinCall /\ c.at = "dispose" /\ c.op = r.op /\ c.n = r.n
      BY <1>1, <2>2, CallAt
    <2>4. wname[bin] = NoId /\ h.name \in FName /\ h.name \notin pend
      BY <1>9
    <2> HIDE DEF c, r, h, bin, free
    <2>5. h.name # bin /\ bin \notin pend /\ \A g \in hand : g.name # bin
      BY <1>1, <1>6, <2>4
    <2>6. CallSound(c) /\ HasTmp(c) /\ HasTmp(r) /\ (OwnsOne(c) => OwnsOne(r))
      BY <1>2, <1>5, <2>3 DEF CallSound, HasTmp, OwnsOne, Testing
    <2>7. bin \notin FName
      BY <1>1, <1>6
    <2>8. adir' \in [FName -> WinId] /\ spoilt' \in BOOLEAN
      BY <1>1, <2>1 DEF WinTypeOK, WinId
    <2>9. \A n \in FName : adir'[n] = IF n = bin THEN h.id ELSE IF n = h.name THEN NoId ELSE adir[n]
      BY <1>1, <2>1, <2>7 DEF WinTypeOK
    <2>10. wth[p].at \in {"bin", "rename"} /\ (HasTmp(c) <=> HasTmp(wth[p])) /\ (OwnsOne(c) => OwnsOne(wth[p]))
      BY <1>2, <2>6 DEF r
    <2> QED BY <1>4, <1>6, <1>7, <1>8, <2>1, <2>3, <2>4, <2>5, <2>6, <2>8, <2>9, <2>10, NameMoves
  <1>10. CASE ~free
    <2> DEFINE c == Busy(p)
               k == [h EXCEPT !.slot = "leaked"]
    <2>1. /\ wth' = [wth EXCEPT ![p] = c] /\ hand' = (hand \ {h}) \cup {k}
          /\ wname' = wname /\ adir' = adir /\ spoilt' = TRUE
      BY <1>10 DEF move_to_recycle_bin, WGo
    <2>2. c = IF r.op = "rename" THEN [r EXCEPT !.at = "release"] ELSE WIdle
      BY DEF Busy
    <2>3. k \in WinHandle /\ k.p = p /\ k.id = h.id /\ k.name = h.name /\ k.excl = h.excl /\ k.slot = "leaked" /\ k.acc = h.acc
      BY <1>4 DEF WinHandle, WinSlot
    <2> HIDE DEF c, r, h, k, free
    <2>4. c \in WinCall /\ CallSound(c) /\ c.at \in {"idle", "release"} /\ (OwnsOne(c) => OwnsOne(r))
      BY <1>1, <1>2, <2>2, CallEnds
    <2>5. \A g \in hand : g.p = p /\ g.slot = "tmp" => g = h /\ k.slot = "leaked"
      BY <1>4, <2>3 DEF Handle
    <2>6. wth[p].at \in {"test", "bin"} /\ (OwnsOne(c) => OwnsOne(wth[p]) /\ (h.slot = "own" => k.slot = "own"))
      BY <1>2, <1>4, <2>4 DEF r
    <2>7. spoilt' \in BOOLEAN /\ (k.acc => h.acc \/ (Shared(h.id, TRUE, FALSE) /\ h.name \notin pend))
          /\ k.slot \in {h.slot, "leaked"} /\ c.at \in {"idle", "rename", "link", "release"}
      BY <2>1, <2>3, <2>4
    <2>8. ~spoilt' => /\ ~spoilt /\ k.acc /\ k.slot = h.slot /\ h.slot \in {"fd", "own"}
                      /\ (Opening(wth[p]) => h.slot = "fd") /\ (Testing(wth[p]) => h.slot = "own")
      BY <2>1
    <2> QED BY <1>4, <1>7, <1>8, <2>1, <2>3, <2>4, <2>5, <2>6, <2>7, <2>8, MarkStep, ZenonT(60)
  <1> QED BY <1>9, <1>10

LEMMA DisposeStep ==
  ASSUME WinInv, NEW p \in WProc, Dispose(p)
  PROVE  WinInv'
  <1> DEFINE r == wth[p]
             h == Mine(p, "tmp")
             c == [r EXCEPT !.at = "close"]
  <1>1. /\ WinTypeOK /\ OnePerSeat(hand) /\ r \in WinCall /\ CallSound(r)
        /\ \A g \in hand : g \in WinHandle /\ g.name \in WinName
        /\ (HasTmp(r) => Handle(p, "tmp") # {})
    BY WinFacts
  <1>2. /\ r.at = "dispose" /\ wth' = [wth EXCEPT ![p] = c] /\ pend' = pend \cup {h.name} /\ wname' = wname
        /\ wkind' = wkind /\ hand' = hand /\ adir' = adir /\ spoilt' = spoilt /\ wcalls' = wcalls
    BY DEF Dispose, WGo
  <1>3. "tmp" \in WinSlot /\ Handle(p, "tmp") # {} /\ "close" \in WinPlace
    BY <1>1, <1>2 DEF WinSlot, HasTmp, WinPlace
  <1>4. h \in hand /\ h \in WinHandle /\ h.p = p /\ h.slot = "tmp" /\ \A g \in Handle(p, "tmp") : g = h
    BY <1>1, <1>3, SeatsAre
  <1>5. c \in WinCall /\ c.at = "close" /\ c.op = r.op /\ c.n = r.n
    BY <1>1, <1>3, CallAt
  <1> HIDE DEF c, r, h
  <1>6. CallSound(c) /\ HasTmp(c) /\ HasTmp(r) /\ (OwnsOne(c) => OwnsOne(r))
    BY <1>1, <1>2, <1>5 DEF CallSound, HasTmp, OwnsOne, Testing
  <1>7. \A g \in hand : g.p = p /\ g.slot = "tmp" => g.name \in pend'
    BY <1>2, <1>4 DEF Handle
  <1>8. wname' \in [WinName -> WinId] /\ adir' \in [FName -> WinId] /\ wcalls' \in Nat
    BY <1>1, <1>2 DEF WinTypeOK
  <1>9. \A n \in pend' \ pend : wth[p].at = "dispose" /\ \E g \in hand : g.p = p /\ g.slot = "tmp" /\ g.name = n
    BY <1>2, <1>4 DEF r
  <1> QED BY <1>2, <1>5, <1>6, <1>7, <1>8, <1>9, StayStep DEF r

LEMMA UnlinkCloseStep ==
  ASSUME WinInv, NEW p \in WProc, UnlinkClose(p)
  PROVE  WinInv'
  <1> DEFINE r == wth[p]
             h == Mine(p, "tmp")
             c == IF r.op = "rename" THEN [r EXCEPT !.at = "rename"] ELSE WIdle
             rs == {h}
  <1>1. /\ WinTypeOK /\ OnePerSeat(hand) /\ r \in WinCall /\ CallSound(r) /\ Named(hand, wname, pend) /\ ClosesPending
        /\ SeatsSound(Seats(hand), wth)
        /\ \A g \in hand : g \in WinHandle
        /\ (HasTmp(r) => Handle(p, "tmp") # {}) /\ (OwnsOne(r) => Handle(p, "own") # {})
    BY WinFacts
  <1>2. /\ r.at = "close" /\ wth' = [wth EXCEPT ![p] = c] /\ Closing(hand \ rs)
        /\ adir' = (IF h.name \in FName THEN [adir EXCEPT ![h.name] = NoId] ELSE adir)
        /\ wkind' = wkind /\ spoilt' = spoilt /\ wcalls' = wcalls
    BY DEF UnlinkClose, WGo
  <1>3. "tmp" \in WinSlot /\ "own" \in WinSlot /\ Handle(p, "tmp") # {}
    BY <1>1, <1>2 DEF WinSlot, HasTmp
  <1>4. h \in hand /\ h.p = p /\ h.slot = "tmp" /\ \A g \in Handle(p, "tmp") : g = h
    BY <1>1, <1>3, SeatsAre
  <1>5. h.name \in pend
    BY <1>1, <1>2, <1>4 DEF ClosesPending
  <1>6. rs \in SUBSET hand /\ \A g \in rs : g.p = p
    BY <1>4
  <1>7. \A g \in hand \ rs : g.p = p => g.slot # "tmp"
    BY <1>4 DEF Handle
  <1>8. \A n \in FName : n \in pend /\ n \notin pend' => n = h.name
    <2> SUFFICES ASSUME NEW n \in FName, n \in pend, n \notin pend' PROVE n = h.name
      OBVIOUS
    <2>1. PICK g \in hand : g.name = n
      BY <1>1 DEF Named
    <2>2. \A k \in hand \ rs : k.name # n
      BY <1>2 DEF Closing
    <2> QED BY <2>1, <2>2
  <1>9. \A n \in FName : n = h.name => n \in pend /\ adir'[n] = NoId
    BY <1>1, <1>2, <1>5 DEF WinTypeOK
  <1>10. \A n \in FName : n # h.name => adir'[n] = adir[n]
    BY <1>1, <1>2 DEF WinTypeOK
  <1>11. /\ wcalls' \in Nat /\ wkind' \in [FileId -> {"file", "link", "blank"}] /\ spoilt' \in BOOLEAN
         /\ adir' \in [FName -> WinId]
    BY <1>1, <1>2 DEF WinTypeOK, WinId
  <1> HIDE DEF h, c
  <1>12. c \in WinCall /\ CallSound(c) /\ c.at \in {"idle", "rename"} /\ (OwnsOne(c) => OwnsOne(r))
    BY <1>1, <1>2, CallEnds DEF c
  <1>13. OwnsOne(c) => <<p, "own">> \in Seats(hand \ rs)
    <2> SUFFICES ASSUME OwnsOne(c) PROVE <<p, "own">> \in Seats(hand \ rs)
      OBVIOUS
    <2>1. PICK g \in Handle(p, "own") : TRUE
      BY <1>1, <1>12
    <2>2. g \in hand \ rs /\ g.p = p /\ g.slot = "own"
      BY <1>4, <2>1 DEF Handle
    <2> QED BY <2>2 DEF Seats
  <1> HIDE DEF r, rs
  <1>14. ~spoilt' => \A n \in FName : IF n \in pend /\ n \notin pend' THEN adir'[n] = NoId
                                      ELSE adir'[n] = adir[n] \/ (n \in pend' /\ adir'[n] = NoId)
    BY <1>8, <1>9, <1>10
  <1>15. wth[p].at = "close" /\ ~Opening(wth[p]) /\ ~Testing(wth[p])
    BY <1>2 DEF r, Opening, Testing
  <1>16. \A g \in hand \ rs : g.p = p => /\ c.at # "dead" /\ g.slot # "tmp"
                                         /\ ~(Opening(wth[p]) /\ g.slot = "fd") /\ ~(Testing(wth[p]) /\ g.slot = "own")
    BY <1>7, <1>12, <1>15
  <1> QED BY <1>2, <1>6, <1>11, <1>12, <1>13, <1>14, <1>15, <1>16, CloseStep

LEMMA KillStep ==
  ASSUME WinInv, NEW p \in WProc, WinKill(p)
  PROVE  WinInv'
  <1> DEFINE c == [WIdle EXCEPT !.at = "dead"]
             rs == {h \in hand : h.p = p}
  <1>1. WinTypeOK
    BY WinFacts
  <1>2. hand \ rs = {h \in hand : h.p # p}
    OBVIOUS
  <1>3. /\ wth[p].at # "dead" /\ wth' = [wth EXCEPT ![p] = c] /\ Closing(hand \ rs)
        /\ adir' = [n \in FName |-> IF n \in pend /\ wname'[n] = NoId THEN NoId ELSE adir[n]]
        /\ wkind' = wkind /\ spoilt' = spoilt /\ wcalls' = wcalls
    BY <1>2 DEF WinKill
  <1>4. c \in WinCall /\ c.at = "dead" /\ CallSound(c) /\ ~OwnsOne(c)
    BY WinAssumption DEF WIdle, WinCall, WinPlace, CallSound, OwnsOne, Testing
  <1>5. rs \in SUBSET hand /\ (\A g \in rs : g.p = p) /\ \A g \in hand \ rs : g.p # p
    OBVIOUS
  <1>6. /\ wcalls' \in Nat /\ wkind' \in [FileId -> {"file", "link", "blank"}] /\ spoilt' \in BOOLEAN
    BY <1>1, <1>3 DEF WinTypeOK
  <1>7. adir' \in [FName -> WinId]
    <2>1. \A n \in FName : adir[n] \in WinId
      BY <1>1 DEF WinTypeOK
    <2>2. NoId \in WinId
      BY DEF WinId
    <2> QED BY <1>3, <2>1, <2>2
  <1> HIDE DEF rs, c
  <1>8. \A n \in FName : IF n \in pend /\ n \notin pend' THEN wname'[n] = NoId ELSE wname'[n] = wname[n]
    <2> DEFINE hs == hand \ rs
    <2>1. hs \in SUBSET hand /\ Closing(hs) /\ WinTypeOK /\ Named(hand, wname, pend)
      BY <1>3, WinFacts
    <2> HIDE DEF hs
    <2> QED BY <2>1, NamedClosing DEF WinName
  <1>9. \A n \in pend : wname[n] # NoId
    BY WinFacts
  <1>10. \A n \in FName : adir'[n] = IF n \in pend /\ wname'[n] = NoId THEN NoId ELSE adir[n]
    BY <1>3
  <1>11. \A n \in FName : IF n \in pend /\ n \notin pend' THEN adir'[n] = NoId
                          ELSE adir'[n] = adir[n] \/ (n \in pend' /\ adir'[n] = NoId)
    BY <1>8, <1>9, <1>10
  <1> QED BY <1>3, <1>4, <1>5, <1>6, <1>7, <1>11, CloseStep

LEMMA LinkStep ==
  ASSUME WinInv, NEW p \in WProc, winfs_link(p)
  PROVE  WinInv'
  <1> DEFINE r == wth[p]
             h == Mine(p, "own")
             c == [r EXCEPT !.at = "release"]
             n == r.n
             done == wname[n] = NoId /\ h.name \notin pend
  <1>1. /\ WinTypeOK /\ OnePerSeat(hand) /\ r \in WinCall /\ CallSound(r)
        /\ \A g \in hand : g \in WinHandle /\ g.id \in FileId
        /\ \A m \in pend : wname[m] # NoId
        /\ (OwnsOne(r) => Handle(p, "own") # {})
    BY WinFacts
  <1>2. /\ r.at = "link" /\ wth' = [wth EXCEPT ![p] = c] /\ wcalls' = wcalls
        /\ wname' = (IF done THEN [wname EXCEPT ![n] = h.id] ELSE wname)
        /\ adir' = (IF done THEN [adir EXCEPT ![n] = h.id] ELSE adir)
        /\ wkind' = wkind /\ pend' = pend /\ hand' = hand /\ spoilt' = spoilt
    BY DEF winfs_link, WGo
  <1>3. "own" \in WinSlot /\ "release" \in WinPlace /\ Handle(p, "own") # {} /\ n \in FName /\ n \in WinName
    BY <1>1, <1>2 DEF WinSlot, WinPlace, OwnsOne, CallSound, WinName
  <1>4. h \in hand /\ h.id \in WinId
    BY <1>1, <1>3, SeatsAre DEF WinId
  <1>5. c \in WinCall /\ c.at = "release" /\ c.op = r.op /\ c.n = r.n
    BY <1>1, <1>3, CallAt
  <1> HIDE DEF c, h
  <1>6. CallSound(c) /\ ~HasTmp(c) /\ ~HasTmp(r) /\ (OwnsOne(c) => OwnsOne(r))
    BY <1>1, <1>2, <1>5 DEF CallSound, HasTmp, OwnsOne, Testing
  <1>7. wname' \in [WinName -> WinId] /\ adir' \in [FName -> WinId] /\ wcalls' \in Nat
    BY <1>1, <1>2, <1>4 DEF WinTypeOK
  <1>8. \A m \in WinName : wname'[m] = wname[m] \/ (wname[m] = NoId /\ m \in FName /\ m \notin pend' /\ adir'[m] = wname'[m])
    BY <1>1, <1>2, <1>3 DEF WinTypeOK
  <1>9. \A m \in FName : wname'[m] = wname[m] => adir'[m] = adir[m]
    <2>1. CASE done
      <3>1. wname'[n] = h.id /\ wname[n] = NoId /\ h.id \in FileId /\ NoId \notin FileId
        BY <1>1, <1>2, <1>3, <1>4, <2>1, WinAssumption DEF WinTypeOK
      <3> QED BY <1>1, <1>2, <2>1, <3>1 DEF WinTypeOK
    <2>2. CASE ~done
      BY <1>2, <2>2
    <2> QED BY <2>1, <2>2
  <1> HIDE DEF r, n, done
  <1>10. wth[p].at = "link" /\ (HasTmp(c) <=> HasTmp(wth[p])) /\ (OwnsOne(c) => OwnsOne(wth[p]))
    BY <1>2, <1>6 DEF r
  <1> QED BY <1>2, <1>5, <1>6, <1>7, <1>8, <1>9, <1>10, StayStep

LEMMA RenameStep ==
  ASSUME WinInv, NEW p \in WProc, winfs_rename(p)
  PROVE  WinInv'
  <1> DEFINE r == wth[p]
             h == Mine(p, "own")
             over == r.tries = 4 \/ h.name \in pend \/ h.name = r.n
             denied == r.n \in pend \/ (wname[r.n] # NoId /\ \E g \in hand : g.id = wname[r.n])
             c == [r EXCEPT !.at = "release"]
             c2 == [r EXCEPT !.tries = @ + 1]
  <1>1. /\ WinTypeOK /\ OnePerSeat(hand) /\ r \in WinCall /\ CallSound(r) /\ NoId \notin FileId /\ FName \cap Bin = {}
        /\ \A g \in hand : g \in WinHandle /\ g.id \in FileId /\ g.name \in WinName /\ wname[g.name] = g.id
        /\ (OwnsOne(r) => Handle(p, "own") # {})
    BY WinFacts
  <1>2. r.at = "rename" /\ OwnsOne(r) /\ r.n \in FName /\ r.n \in WinName
    BY <1>1 DEF winfs_rename, OwnsOne, CallSound, WinName
  <1>3. "own" \in WinSlot /\ "release" \in WinPlace
    BY DEF WinSlot, WinPlace
  <1>4. h \in hand /\ h.p = p /\ h.id \in FileId
    BY <1>1, <1>2, <1>3, SeatsAre
  <1>5. c \in WinCall /\ c.at = "release" /\ c.op = r.op /\ c.n = r.n
    BY <1>1, <1>3, CallAt
  <1>6. CallSound(c) /\ ~HasTmp(c) /\ ~HasTmp(r)
    BY <1>1, <1>2, <1>5 DEF CallSound, HasTmp
  <1>7. CASE (over \/ (denied /\ ~Visible(r.n))) /\ WGo(p, "rename", c) /\ UNCHANGED <<wname, wkind, pend, hand, adir, spoilt>>
    <2>1. /\ wth' = [wth EXCEPT ![p] = c] /\ wcalls' = wcalls /\ wname' = wname /\ wkind' = wkind /\ pend' = pend
          /\ hand' = hand /\ adir' = adir /\ spoilt' = spoilt
      BY <1>7 DEF WGo
    <2>2. wname' \in [WinName -> WinId] /\ adir' \in [FName -> WinId] /\ wcalls' \in Nat
      BY <1>1, <2>1 DEF WinTypeOK
    <2> HIDE DEF c, c2, over, denied, h, r
    <2>3. wth[p].at = "rename" /\ (HasTmp(c) <=> HasTmp(wth[p])) /\ (OwnsOne(c) => OwnsOne(wth[p]))
      BY <1>2, <1>6 DEF r
    <2> QED BY <1>5, <1>6, <2>1, <2>2, <2>3, StayStep
  <1>8. CASE /\ ~over /\ ~denied /\ WGo(p, "rename", c)
             /\ wname' = [wname EXCEPT ![r.n] = h.id, ![h.name] = NoId]
             /\ adir' = [n \in FName |-> IF n = r.n THEN h.id ELSE IF n = h.name THEN NoId ELSE adir[n]]
             /\ hand' = Moved(h.name, r.n, hand) /\ spoilt' = (spoilt \/ h.name \notin FName) /\ UNCHANGED <<wkind, pend>>
    <2>1. /\ wth' = [wth EXCEPT ![p] = c] /\ wcalls' = wcalls /\ wkind' = wkind /\ pend' = pend
      BY <1>8 DEF WGo
    <2>2. h.name # r.n /\ h.name \notin pend /\ r.n \notin pend /\ \A g \in hand : g.name # r.n
      BY <1>1, <1>2, <1>8
    <2>3. wcalls' \in Nat /\ spoilt' \in BOOLEAN
      BY <1>1, <1>8, <2>1 DEF WinTypeOK
    <2>4. adir' \in [FName -> WinId]
      <3>1. h.id \in WinId /\ NoId \in WinId /\ \A n \in FName : adir[n] \in WinId
        BY <1>1, <1>4 DEF WinTypeOK, WinId
      <3> HIDE DEF h, r
      <3> QED BY <1>8, <3>1
    <2>5. /\ wname' = [wname EXCEPT ![r.n] = h.id, ![h.name] = NoId] /\ hand' = Moved(h.name, r.n, hand)
          /\ (~spoilt' => ~spoilt /\ h.name \in FName)
          /\ \A n \in FName : adir'[n] = IF n = r.n THEN h.id ELSE IF n = h.name THEN NoId ELSE adir[n]
      BY <1>8
    <2>6. wth[p].at = "rename" /\ (HasTmp(c) <=> HasTmp(wth[p])) /\ (OwnsOne(c) => OwnsOne(wth[p])) /\ r.n \notin Bin
      BY <1>1, <1>2, <1>6
    <2> HIDE DEF c, c2, over, denied, h, r
    <2> QED BY <1>2, <1>4, <1>5, <1>6, <2>1, <2>2, <2>3, <2>4, <2>5, <2>6, NameMoves
  <1>9. CASE Unlink(c2, p, r.n) /\ UNCHANGED wcalls
    <2>1. wcalls' \in Nat
      BY <1>1, <1>9 DEF WinTypeOK
    <2>2. c2 \in WinCall /\ c2.op = "rename"
      BY <1>1, <1>2 DEF CallSound, WinCall
    <2> HIDE DEF c, c2, over, denied, h
    <2> QED BY <1>2, <1>9, <2>1, <2>2, UnlinkStep
  <1> QED BY <1>7, <1>8, <1>9 DEF winfs_rename

LEMMA WinStep == WinInv /\ [WinNext]_winVars => WinInv'
  <1>1. ASSUME WinInv, WinNext PROVE WinInv'
    <2>1. PICK p \in WProc :
            \/ \E n \in FName :
                 \/ \E opath, nofollow, creat \in BOOLEAN : Create(p, "open", n, NoId, opath, nofollow, creat)
                 \/ \E op \in {"rename", "link"}, to \in FName : Create(p, op, n, to, TRUE, TRUE, FALSE)
                 \/ winfs_unlink(p, n) \/ winfs_symlink(p, n)
            \/ SymTest(p) \/ winfs_close(p) \/ OpenShared(p) \/ move_to_recycle_bin(p) \/ Dispose(p)
            \/ UnlinkClose(p) \/ winfs_rename(p) \/ winfs_link(p) \/ ReleaseOwn(p) \/ SymlinkWrite(p) \/ WinKill(p)
      BY <1>1 DEF WinNext
    <2>2. ASSUME NEW n \in FName, NEW opath \in BOOLEAN, NEW nofollow \in BOOLEAN, NEW creat \in BOOLEAN,
                 Create(p, "open", n, NoId, opath, nofollow, creat)
          PROVE  WinInv'
      BY <1>1, <2>2, CreateStep
    <2>3. ASSUME NEW n \in FName, NEW op \in {"rename", "link"}, NEW to \in FName, Create(p, op, n, to, TRUE, TRUE, FALSE)
          PROVE  WinInv'
      <3>1. op \in {"open", "rename", "link"} /\ op # "open"
        OBVIOUS
      <3> QED BY <1>1, <2>3, <3>1, CreateStep
    <2>4. ASSUME NEW n \in FName, winfs_unlink(p, n) PROVE WinInv'
      <3> DEFINE c == [WIdle EXCEPT !.op = "unlink"]
      <3>1. c \in WinCall /\ c.op = "unlink"
        BY WinAssumption DEF WIdle, WinCall, WinPlace
      <3>2. Unlink(c, p, n) /\ wth[p].at = "idle" /\ wcalls > 0 /\ wcalls' = wcalls - 1
        BY <2>4 DEF winfs_unlink
      <3>3. wcalls' \in Nat
        BY <1>1, <3>2 DEF WinInv, WinTypeOK
      <3> HIDE DEF c
      <3> QED BY <1>1, <3>1, <3>2, <3>3, UnlinkStep
    <2>5. ASSUME NEW n \in FName, winfs_symlink(p, n) PROVE WinInv'
      BY <1>1, <2>5, SymlinkStep
    <2>6. CASE SymTest(p)
      BY <1>1, <2>6, SymTestStep
    <2>7. CASE winfs_close(p) \/ ReleaseOwn(p) \/ SymlinkWrite(p)
      BY <1>1, <2>7, CloseCallStep
    <2>8. CASE OpenShared(p)
      BY <1>1, <2>8, OpenSharedStep
    <2>9. CASE move_to_recycle_bin(p)
      BY <1>1, <2>9, RecycleStep
    <2>10. CASE Dispose(p)
      BY <1>1, <2>10, DisposeStep
    <2>11. CASE UnlinkClose(p)
      BY <1>1, <2>11, UnlinkCloseStep
    <2>12. CASE winfs_rename(p)
      BY <1>1, <2>12, RenameStep
    <2>13. CASE winfs_link(p)
      BY <1>1, <2>13, LinkStep
    <2>14. CASE WinKill(p)
      BY <1>1, <2>14, KillStep
    <2> QED BY <2>1, <2>2, <2>3, <2>4, <2>5, <2>6, <2>7, <2>8, <2>9, <2>10, <2>11, <2>12, <2>13, <2>14
  <1>2. ASSUME WinInv, UNCHANGED winVars PROVE WinInv'
    BY <1>2, WinSame
  <1> QED BY <1>1, <1>2

LEMMA WinInvExact == WinInv => DirectoryExact
  <1> SUFFICES ASSUME WinInv, ~spoilt, \A p \in WProc : wth[p].at \in {"idle", "dead"}
               PROVE  /\ pend \cap FName = {} /\ \A n \in FName : wname[n] = adir[n]
                      /\ \A b \in Bin : Visible(b) => \E p \in WProc : wth[p].at = "dead"
    BY DEF DirectoryExact
  <1>1. /\ WinTypeOK /\ Named(hand, wname, pend) /\ Unspoilt
        /\ \A h \in hand : h \in WinHandle /\ h.p \in WProc /\ h.slot \in WinSlot /\ (h.slot = "tmp" => HasTmp(wth[h.p]))
    <2>1. WinTypeOK /\ Named(hand, wname, pend) /\ Unspoilt
      BY DEF WinInv
    <2>2. \A h \in hand : h \in WinHandle /\ h.p \in WProc /\ h.slot \in WinSlot
      BY <2>1 DEF WinTypeOK, WinHandle
    <2> QED BY <2>1, <2>2 DEF WinInv, SeatsSound, Seats
  <1>2. \A h \in hand : h.slot \in {"fd", "own"} /\ h.acc
    <2> SUFFICES ASSUME NEW h \in hand PROVE h.slot \in {"fd", "own"} /\ h.acc
      OBVIOUS
    <2>1. AccessSound(h, wth[h.p], pend) /\ h.slot \in WinSlot /\ h.p \in WProc /\ (h.slot = "tmp" => HasTmp(wth[h.p]))
      BY <1>1 DEF Unspoilt
    <2>2. ~HasTmp(wth[h.p]) /\ ~Opening(wth[h.p]) /\ ~Testing(wth[h.p])
      BY <2>1 DEF HasTmp, Opening, Testing
    <2> QED BY <2>1, <2>2 DEF AccessSound, WinSlot
  <1>3. ASSUME NEW n \in FName PROVE n \notin pend
    <2> SUFFICES ASSUME n \in pend PROVE FALSE
      OBVIOUS
    <2>1. PICK h \in hand : h.name = n
      BY <1>1 DEF Named
    <2>2. AccessSound(h, wth[h.p], pend) /\ h.acc
      BY <1>1, <1>2 DEF Unspoilt
    <2> QED BY <2>1, <2>2 DEF AccessSound
  <1>4. \A n \in FName : wname[n] = adir[n]
    BY <1>1, <1>3 DEF Unspoilt, NameSound
  <1>5. ASSUME NEW b \in Bin, Visible(b) PROVE \E p \in WProc : wth[p].at = "dead"
    BY <1>1, <1>2, <1>5 DEF Unspoilt, BinSound
  <1> QED BY <1>3, <1>4, <1>5

\* Whenever no call is under way the directory is what the calls have made of it,
\* nothing waits in it to be deleted, and the recycle bin holds no file that is
\* to stay (fs/winfs.c: winfs_unlink and move_to_recycle_bin against open, rename,
\* link and symlink of other processes)
THEOREM DirectoryIsExact == WinInit /\ [][WinNext]_winVars => []DirectoryExact
  <1>1. WinInit => WinInv
    BY WinInvInit
  <1>2. WinInv /\ [WinNext]_winVars => WinInv'
    BY WinStep
  <1>3. WinInv => DirectoryExact
    BY WinInvExact
  <1> QED BY <1>1, <1>2, <1>3, PTL

=============================================================================
