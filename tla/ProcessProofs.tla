---------------------------- MODULE ProcessProofs -----------------------------
(***************************************************************************)
(* Theorems about the processes of the emulator: how a thread forks, and   *)
(* how threads and processes begin and end (syscall/fork.c, process.c).    *)
(*                                                                         *)
(* Fork, for every number of threads and every choice of their calls: type *)
(* correctness, what a queue and a lock hold, and that fork is sound:      *)
(* threads wait for each other in a circle only in the two known ways, and *)
(* the child finds what it was given whole.  The argument follows one      *)
(* thread alone.  Its situation is what it holds, what it is changing,     *)
(* whether it found the file closed, and the steps it has left.  A         *)
(* situation is safe when no course of the steps left asks for a lock      *)
(* against the order but in a known way, or copies memory without the      *)
(* locks of what must be whole; Safe is the largest set of situations that *)
(* these rules keep.  Every call is safe from its start (by composition of *)
(* its parts), and each step of the system keeps every thread safe.        *)
(*                                                                         *)
(* Life, for every number of threads, of slots in the table of processes   *)
(* and of other children of the parent: type correctness, and that pids,   *)
(* slots, reports, the count of the threads and their events are right     *)
(* whichever way threads and processes end.  The invariant has three parts *)
(* that hardly meet.  Slots says who owns which pid, with what stands in   *)
(* the table for him; it holds for every pid but one that was given away   *)
(* (mixed).  Counts is about the number of the threads that have begun, and*)
(* Events about who owns which event.                                      *)
(***************************************************************************)
EXTENDS Fork, Life, FiniteSetTheorems, SequenceTheorems, WellFoundedInduction, TLAPS

(***************************************************************************)
(* Fork                                                                    *)
(***************************************************************************)
LockMode == {"shared", "exclusive"}
Doing == LockMode \cup {"release", "shared if open", "release if open", "look up", "begin", "end",
                        "close", "touch", "protect", "unprotect", "copy"}
Subject == ForkedLock \cup {"user", "blocks", "static"}
Action == [do : Doing, on : Subject]
Held == ForkedLock \X LockMode

-----------------------------------------------------------------------------
(* Situations of one thread. *)

Rank(l) ==
  CASE l = "tls" -> 1 [] l = "vfs" -> 2 [] l = "file" -> 3 [] l = "mm" -> 4
    [] l = "shared" -> 5 [] l = "heap" -> 6 [] l = "signal" -> 7 [] l = "process" -> 8

HasIn(H, S) == \E h \in H : h[1] \in S
Known(H, l) == (l = "mm" /\ HasIn(H, {"heap", "signal", "process"}))
                 \/ (l = "file" /\ HasIn(H, {"mm"}))
InOrder(H, l) == \A h \in H : Rank(h[1]) < Rank(l)
MayAsk(H, l) == l \in ForkedLock /\ (InOrder(H, l) \/ Known(H, l))

Guarded(H, U) == \A d \in U \cap {"tls", "vfs", "file"} : <<d, "exclusive">> \in H
Without(H, l) == {h \in H : h[1] # l}

\* H is held, U is being changed, c: the file is known to be closed, a is next and r after it
Permits(R, H, U, c, a, r) ==
  /\ a.do \in LockMode => MayAsk(H, a.on) /\ <<H \cup {<<a.on, a.do>>}, U, c, r>> \in R
  /\ a.do = "release" => a.on \in ForkedLock /\ <<Without(H, a.on), U, c, r>> \in R
  /\ a.do = "shared if open" => /\ ~c => <<H, U, FALSE, <<TakeShared("file")>> \o r>> \in R
                                /\ <<H, U, TRUE, r>> \in R
  /\ a.do = "release if open" => /\ <<H, U, c, <<Leave("file")>> \o r>> \in R
                                 /\ <<H, U, c, r>> \in R
  /\ a.do = "look up" => <<H, U, c, r>> \in R /\ <<H, U, c, <<Leave("vfs")>>>> \in R
  /\ a.do = "begin" => <<H, U \cup {a.on}, c, r>> \in R
  /\ a.do = "end" => <<H, U \ {a.on}, c, r>> \in R
  /\ a.do \in {"close", "protect", "unprotect"} => <<H, U, c, r>> \in R
  /\ a.do = "touch" => <<H, U, c, r>> \in R /\ <<H, U, c, Fault \o r>> \in R
  /\ a.do = "copy" => /\ <<H, U, c, r>> \in R
                      /\ U = {} /\ HasIn(H, {"tls"}) /\ HasIn(H, {"vfs"})
                      /\ c \/ HasIn(H, {"file"})

Situation == (SUBSET Held) \X (SUBSET Subject) \X BOOLEAN \X Seq(Action)
Closed(R) ==
  \A x \in R : /\ Guarded(x[1], x[2])
               /\ x[4] # << >> => Permits(R, x[1], x[2], x[3], Head(x[4]), Tail(x[4]))
Safe == UNION {R \in SUBSET Situation : Closed(R)}
Good(H, U, c, s) == <<H, U, c, s>> \in Safe

(* The rules allow no less with more situations to go on to.               *)
LEMMA PermitsMore ==
  ASSUME NEW R, NEW R2, R \subseteq R2, NEW H, NEW U, NEW c, NEW a, NEW r, Permits(R, H, U, c, a, r)
  PROVE  Permits(R2, H, U, c, a, r)
  BY DEF Permits

(* The safe situations keep the rules.                                     *)
LEMMA SafeClosed == Safe \subseteq Situation /\ Closed(Safe)
  <1>1. Safe \subseteq Situation
    BY DEF Safe
  <1>2. ASSUME NEW x \in Safe
        PROVE  /\ Guarded(x[1], x[2])
               /\ x[4] # << >> => Permits(Safe, x[1], x[2], x[3], Head(x[4]), Tail(x[4]))
    <2>1. PICK R \in SUBSET Situation : Closed(R) /\ x \in R
      BY DEF Safe
    <2>2. R \subseteq Safe
      BY <2>1 DEF Safe
    <2>3. Guarded(x[1], x[2])
      BY <2>1 DEF Closed
    <2>4. x[4] # << >> => Permits(R, x[1], x[2], x[3], Head(x[4]), Tail(x[4]))
      BY <2>1 DEF Closed
    <2>5. x[4] # << >> => Permits(Safe, x[1], x[2], x[3], Head(x[4]), Tail(x[4]))
      BY <2>2, <2>4, PermitsMore
    <2> QED BY <2>3, <2>5
  <1> QED BY <1>1, <1>2 DEF Closed

(* What a safe situation is.                                               *)
LEMMA GoodIs ==
  ASSUME NEW H, NEW U, NEW c, NEW s, Good(H, U, c, s)
  PROVE  /\ H \in SUBSET Held /\ U \in SUBSET Subject /\ c \in BOOLEAN /\ s \in Seq(Action)
         /\ Guarded(H, U)
         /\ s # << >> => Permits(Safe, H, U, c, Head(s), Tail(s))
  <1>1. <<H, U, c, s>> \in Situation
    BY SafeClosed DEF Good
  <1>2. H \in SUBSET Held /\ U \in SUBSET Subject /\ c \in BOOLEAN /\ s \in Seq(Action)
    BY <1>1 DEF Situation
  <1> DEFINE x == <<H, U, c, s>>
  <1>3. x \in Safe
    BY DEF Good
  <1>4. x[1] = H /\ x[2] = U /\ x[3] = c /\ x[4] = s
    OBVIOUS
  <1> HIDE DEF x
  <1>5. /\ Guarded(x[1], x[2])
        /\ x[4] # << >> => Permits(Safe, x[1], x[2], x[3], Head(x[4]), Tail(x[4]))
    BY <1>3, SafeClosed DEF Closed
  <1> QED BY <1>2, <1>4, <1>5

(* A situation from which the rules lead to safe ones is safe.             *)
LEMMA GoodWhen ==
  ASSUME NEW H \in SUBSET Held, NEW U \in SUBSET Subject, NEW c \in BOOLEAN, NEW s \in Seq(Action),
         Guarded(H, U),
         s # << >> => Permits(Safe, H, U, c, Head(s), Tail(s))
  PROVE  Good(H, U, c, s)
  <1> DEFINE x == <<H, U, c, s>>
             R == Safe \cup {x}
  <1>1. x \in Situation
    BY DEF Situation
  <1>2. R \in SUBSET Situation
    BY <1>1, SafeClosed
  <1>3. x[1] = H /\ x[2] = U /\ x[3] = c /\ x[4] = s
    OBVIOUS
  <1> HIDE DEF x
  <1>4. Closed(R)
    <2> SUFFICES ASSUME NEW y \in R
                 PROVE  /\ Guarded(y[1], y[2])
                        /\ y[4] # << >> => Permits(R, y[1], y[2], y[3], Head(y[4]), Tail(y[4]))
      BY DEF Closed
    <2>1. Guarded(y[1], y[2])
      BY <1>3, SafeClosed DEF Closed
    <2>2. y[4] # << >> => Permits(Safe, y[1], y[2], y[3], Head(y[4]), Tail(y[4]))
      BY <1>3, SafeClosed DEF Closed
    <2>3. Safe \subseteq R
      OBVIOUS
    <2> HIDE DEF R
    <2>4. y[4] # << >> => Permits(R, y[1], y[2], y[3], Head(y[4]), Tail(y[4]))
      BY <2>2, <2>3, PermitsMore
    <2> QED BY <2>1, <2>4
  <1>5. x \in R
    OBVIOUS
  <1> QED BY <1>2, <1>4, <1>5 DEF Good, Safe, x

(* A thread with nothing left to do.                                       *)
LEMMA GoodEnd ==
  ASSUME NEW H \in SUBSET Held, NEW U \in SUBSET Subject, NEW c \in BOOLEAN, Guarded(H, U)
  PROVE  Good(H, U, c, << >>)
  <1>1. << >> \in Seq(Action)
    OBVIOUS
  <1> QED BY <1>1, GoodWhen

(* The first of a sequence that was put in front.                          *)
LEMMA FirstOf ==
  ASSUME NEW a \in Action, NEW r \in Seq(Action)
  PROVE  /\ <<a>> \o r \in Seq(Action) /\ <<a>> \o r # << >>
         /\ Head(<<a>> \o r) = a /\ Tail(<<a>> \o r) = r
  <1>1. <<a>> \in Seq(Action) /\ Len(<<a>>) = 1 /\ <<a>>[1] = a
    OBVIOUS
  <1>2. /\ <<a>> \o r \in Seq(Action) /\ Len(<<a>> \o r) = 1 + Len(r)
        /\ \A i \in 1 .. 1 + Len(r) : (<<a>> \o r)[i] = IF i <= 1 THEN <<a>>[1] ELSE r[i - 1]
    <2>1. /\ <<a>> \o r \in Seq(Action) /\ Len(<<a>> \o r) = Len(<<a>>) + Len(r)
          /\ \A i \in 1 .. Len(<<a>>) + Len(r) :
                (<<a>> \o r)[i] = IF i <= Len(<<a>>) THEN <<a>>[i] ELSE r[i - Len(<<a>>)]
      BY <1>1, ConcatProperties
    <2> QED BY <1>1, <2>1
  <1>3. Len(r) \in Nat
    OBVIOUS
  <1>4. <<a>> \o r # << >>
    BY <1>2, <1>3
  <1>5. (<<a>> \o r)[1] = a
    BY <1>1, <1>2, <1>3
  <1>6. Head(<<a>> \o r) = a
    BY <1>2, <1>4, <1>5
  <1>7. Tail(<<a>> \o r) = r
    <2> DEFINE s == <<a>> \o r
    <2>0. s \in Seq(Action) /\ s # << >> /\ Len(s) = 1 + Len(r)
      BY <1>2, <1>4
    <2>1. /\ Tail(s) \in Seq(Action) /\ Len(Tail(s)) = Len(s) - 1
          /\ \A i \in 1 .. Len(Tail(s)) : Tail(s)[i] = s[i + 1]
      <3> HIDE DEF s
      <3> QED BY <2>0, HeadTailProperties
    <2>2. Len(Tail(s)) = Len(r)
      BY <1>3, <2>0, <2>1
    <2>3. \A i \in 1 .. Len(r) : s[i + 1] = r[i]
      BY <1>2, <1>3
    <2> HIDE DEF s
    <2>4. \A i \in 1 .. Len(r) : Tail(s)[i] = r[i]
      BY <2>1, <2>2, <2>3
    <2>5. Tail(s) = r
      BY <2>1, <2>2, <2>4, SeqEqual
    <2> QED BY <2>5 DEF s
  <1> QED BY <1>2, <1>4, <1>6, <1>7

(* Short sequences put together.                                           *)
LEMMA Tuples ==
  \A a, b, d \in Action :
         /\ <<a>> \o <<b>> = <<a, b>>
         /\ <<a>> \o << >> = <<a>>
         /\ <<a>> \o << >> \o <<b>> = <<a, b>>
         /\ <<a>> \o <<b>> \o <<d>> = <<a, b, d>>
  <1> TAKE a \in Action, b \in Action, d \in Action
  <1>1. <<a>> \o <<b>> = <<a, b>>
    <2>1. <<a>> \o <<b>> \in Seq(Action) /\ Len(<<a>> \o <<b>>) = 2
      OBVIOUS
    <2>2. (<<a>> \o <<b>>)[1] = a /\ (<<a>> \o <<b>>)[2] = b
      OBVIOUS
    <2>3. /\ <<a, b>> \in Seq(Action) /\ Len(<<a, b>>) = 2
          /\ \A i \in 1 .. 2 : (<<a>> \o <<b>>)[i] = <<a, b>>[i]
      BY <2>2
    <2> QED BY <2>1, <2>3, SeqEqual
  <1>2. <<a>> \o << >> = <<a>>
    OBVIOUS
  <1>3. <<a, b>> \o <<d>> = <<a, b, d>>
    <2>1. <<a, b>> \o <<d>> \in Seq(Action) /\ Len(<<a, b>> \o <<d>>) = 3
      OBVIOUS
    <2>2. (<<a, b>> \o <<d>>)[1] = a /\ (<<a, b>> \o <<d>>)[2] = b /\ (<<a, b>> \o <<d>>)[3] = d
      OBVIOUS
    <2>3. /\ <<a, b, d>> \in Seq(Action) /\ Len(<<a, b, d>>) = 3
          /\ \A i \in 1 .. 3 : (<<a, b>> \o <<d>>)[i] = <<a, b, d>>[i]
      BY <2>2
    <2> QED BY <2>1, <2>3, SeqEqual
  <1>4. <<a>> \o << >> \o <<b>> = <<a, b>>
    BY <1>1, <1>2, Zenon
  <1>5. <<a>> \o <<b>> \o <<d>> = <<a, b, d>>
    BY <1>1, <1>3, Zenon
  <1> QED BY <1>1, <1>2, <1>4, <1>5

(* The first of a sequence with more behind it.                            *)
LEMMA SplitHead ==
  ASSUME NEW s \in Seq(Action), s # << >>, NEW k \in Seq(Action)
  PROVE  /\ Head(s) \in Action /\ Tail(s) \in Seq(Action) /\ Tail(s) \o k \in Seq(Action)
         /\ s \o k = <<Head(s)>> \o (Tail(s) \o k)
  <1> DEFINE a == Head(s)
             r == Tail(s)
  <1>1. a \in Action /\ r \in Seq(Action)
    BY HeadTailProperties
  <1>2. s = <<a>> \o r
    <2>1. <<a>> \o r \in Seq(Action) /\ <<a>> \o r # << >> /\ Head(<<a>> \o r) = a /\ Tail(<<a>> \o r) = r
      BY <1>1, FirstOf
    <2>2. Len(s) \in Nat \ {0} /\ Len(<<a>> \o r) \in Nat \ {0}
      BY <2>1
    <2>3. Len(s) = Len(<<a>> \o r)
      BY <2>1, <2>2, HeadTailProperties
    <2>4. ASSUME NEW i \in 1 .. Len(s) PROVE s[i] = (<<a>> \o r)[i]
      <3>1. CASE i = 1
        BY <2>1, <2>2, <3>1
      <3>2. CASE i # 1
        <4>1. i - 1 \in 1 .. Len(r)
          BY <2>2, <3>2, HeadTailProperties
        <4>2. s[i] = r[i - 1]
          BY <2>2, <4>1, HeadTailProperties
        <4>3. (<<a>> \o r)[i] = Tail(<<a>> \o r)[i - 1]
          BY <2>1, <2>2, <2>3, <4>1, HeadTailProperties
        <4> QED BY <2>1, <4>2, <4>3
      <3> QED BY <3>1, <3>2
    <2> QED BY <2>1, <2>3, <2>4, SeqEqual
  <1>3. <<a>> \in Seq(Action) /\ r \o k \in Seq(Action)
    BY <1>1, ConcatProperties
  <1> HIDE DEF a, r
  <1>4. (<<a>> \o r) \o k = <<a>> \o (r \o k)
    BY <1>1, <1>3, ConcatAssociative
  <1>5. s \o k = <<a>> \o (r \o k)
    BY <1>2, <1>4
  <1> QED BY <1>1, <1>3, <1>5 DEF a, r

(* A step that the rules permit, before safe steps.                        *)
LEMMA GoodStep ==
  ASSUME NEW H \in SUBSET Held, NEW U \in SUBSET Subject, NEW c \in BOOLEAN,
         NEW a \in Action, NEW r \in Seq(Action),
         Guarded(H, U), Permits(Safe, H, U, c, a, r)
  PROVE  Good(H, U, c, <<a>> \o r)
  BY FirstOf, GoodWhen
-----------------------------------------------------------------------------
(* Parts of a call.  A part leads from (H, U) to (H2, U2) when whatever is *)
(* safe there is safe behind it here, whether the file is closed or not.   *)

Sits(H, U) == H \in SUBSET Held /\ U \in SUBSET Subject /\ Guarded(H, U)
Leads(H, U, P, H2, U2) ==
  \A c \in BOOLEAN, k \in Seq(Action) : Good(H2, U2, c, k) => Good(H, U, c, P \o k)
Free(H, l) == l \in ForkedLock /\ \A h \in H : h[1] # l
With(H, l) == H \cup {<<l, "exclusive">>}

(* The steps are actions.                                                  *)
LEMMA StepsAre ==
  /\ \A l \in ForkedLock : /\ TakeShared(l) \in Action /\ TakeExclusive(l) \in Action
                           /\ Leave(l) \in Action /\ Starts(l) \in Action /\ Ends(l) \in Action
  /\ Touch \in Action /\ Act("unprotect", "user") \in Action /\ Act("protect", "user") \in Action
  /\ Act("close", "file") \in Action /\ Act("look up", "file") \in Action
  /\ Act("shared if open", "file") \in Action /\ Act("release if open", "file") \in Action
  /\ Copy("blocks") \in Action /\ Copy("static") \in Action
  BY DEF Action, Doing, LockMode, Subject, ForkedLock, TakeShared, TakeExclusive, Leave, Starts, Ends,
         Touch, Copy, Act

(* Two parts one after the other.                                          *)
LEMMA LeadsThen ==
  ASSUME NEW P \in Seq(Action), NEW Q \in Seq(Action), NEW H, NEW U, NEW H1, NEW U1, NEW H2, NEW U2,
         Leads(H, U, P, H1, U1), Leads(H1, U1, Q, H2, U2)
  PROVE  P \o Q \in Seq(Action) /\ Leads(H, U, P \o Q, H2, U2)
  <1>1. P \o Q \in Seq(Action)
    BY ConcatProperties
  <1>2. ASSUME NEW c \in BOOLEAN, NEW k \in Seq(Action), Good(H2, U2, c, k)
        PROVE  Good(H, U, c, (P \o Q) \o k)
    <2>1. Q \o k \in Seq(Action)
      BY ConcatProperties
    <2>2. Good(H1, U1, c, Q \o k)
      BY <1>2 DEF Leads
    <2>3. Good(H, U, c, P \o (Q \o k))
      BY <2>1, <2>2 DEF Leads
    <2>4. (P \o Q) \o k = P \o (Q \o k)
      BY ConcatAssociative
    <2> QED BY <2>3, <2>4
  <1> QED BY <1>1, <1>2 DEF Leads

(* Parts put together in either way.                                       *)
LEMMA Regroup ==
  ASSUME NEW P \in Seq(Action), NEW Q \in Seq(Action), NEW k \in Seq(Action)
  PROVE  P \o Q \in Seq(Action) /\ Q \o k \in Seq(Action) /\ (P \o Q) \o k = P \o (Q \o k)
  BY ConcatProperties, ConcatAssociative

(* No step at all.                                                         *)
LEMMA LeadsNothing ==
  ASSUME NEW H, NEW U
  PROVE  << >> \in Seq(Action) /\ Leads(H, U, << >>, H, U)
  <1>1. \A k \in Seq(Action) : << >> \o k = k
    BY ConcatEmptySeq
  <1>2. << >> \in Seq(Action)
    OBVIOUS
  <1> QED BY <1>1, <1>2 DEF Leads

(* One step that the rules permit before what is safe at (H2, U2).         *)
LEMMA LeadsOne ==
  ASSUME NEW H, NEW U, Sits(H, U), NEW H2, NEW U2, NEW a \in Action,
         \A c \in BOOLEAN, k \in Seq(Action) : Good(H2, U2, c, k) => Permits(Safe, H, U, c, a, k)
  PROVE  <<a>> \in Seq(Action) /\ Leads(H, U, <<a>>, H2, U2)
  <1>1. ASSUME NEW c \in BOOLEAN, NEW k \in Seq(Action), Good(H2, U2, c, k)
        PROVE  Good(H, U, c, <<a>> \o k)
    <2>1. Permits(Safe, H, U, c, a, k)
      BY <1>1
    <2> QED BY <2>1, GoodStep DEF Sits
  <1>2. <<a>> \in Seq(Action)
    OBVIOUS
  <1> QED BY <1>1, <1>2 DEF Leads

(* Taking a lock.                                                          *)
LEMMA LeadsTake ==
  ASSUME NEW H, NEW U, Sits(H, U), NEW l, MayAsk(H, l), NEW m \in LockMode
  PROVE  /\ <<Act(m, l)>> \in Seq(Action) /\ Leads(H, U, <<Act(m, l)>>, H \cup {<<l, m>>}, U)
         /\ Sits(H \cup {<<l, m>>}, U)
  <1>1. Act(m, l) \in Action /\ Act(m, l).do = m /\ Act(m, l).on = l
    BY DEF Act, Action, Doing, LockMode, Subject, MayAsk
  <1>2. ASSUME NEW c \in BOOLEAN, NEW k \in Seq(Action), Good(H \cup {<<l, m>>}, U, c, k)
        PROVE  Permits(Safe, H, U, c, Act(m, l), k)
    BY <1>1, <1>2 DEF Permits, LockMode, Good
  <1>3. Sits(H \cup {<<l, m>>}, U)
    BY DEF Sits, Guarded, Held, MayAsk
  <1> QED BY <1>1, <1>2, <1>3, LeadsOne

(* Giving a lock back.                                                     *)
LEMMA LeadsLeave ==
  ASSUME NEW H, NEW U, Sits(H, U), NEW l \in ForkedLock
  PROVE  <<Leave(l)>> \in Seq(Action) /\ Leads(H, U, <<Leave(l)>>, Without(H, l), U)
  <1>1. Leave(l) \in Action /\ Leave(l).do = "release" /\ Leave(l).on = l
    BY StepsAre DEF Act, Leave
  <1>2. ASSUME NEW c \in BOOLEAN, NEW k \in Seq(Action), Good(Without(H, l), U, c, k)
        PROVE  Permits(Safe, H, U, c, Leave(l), k)
    BY <1>1, <1>2 DEF Permits, LockMode, Good
  <1> QED BY <1>1, <1>2, LeadsOne

(* Beginning a change of data whose lock is held, or that needs none to be *)
(* found whole.                                                            *)
LEMMA LeadsStarts ==
  ASSUME NEW H, NEW U, Sits(H, U), NEW d \in ForkedLock,
         <<d, "exclusive">> \in H \/ d \notin {"tls", "vfs", "file"}
  PROVE  /\ <<Starts(d)>> \in Seq(Action) /\ Leads(H, U, <<Starts(d)>>, H, U \cup {d})
         /\ Sits(H, U \cup {d})
  <1>1. Starts(d) \in Action /\ Starts(d).do = "begin" /\ Starts(d).on = d
    BY StepsAre DEF Act, Starts
  <1>2. ASSUME NEW c \in BOOLEAN, NEW k \in Seq(Action), Good(H, U \cup {d}, c, k)
        PROVE  Permits(Safe, H, U, c, Starts(d), k)
    BY <1>1, <1>2 DEF Permits, LockMode, Good
  <1>3. Sits(H, U \cup {d})
    BY DEF Sits, Guarded, Subject
  <1> QED BY <1>1, <1>2, <1>3, LeadsOne

(* Ending it.                                                              *)
LEMMA LeadsEnds ==
  ASSUME NEW H, NEW U, Sits(H, U), NEW d \in ForkedLock
  PROVE  /\ <<Ends(d)>> \in Seq(Action) /\ Leads(H, U, <<Ends(d)>>, H, U \ {d})
         /\ Sits(H, U \ {d})
  <1>1. Ends(d) \in Action /\ Ends(d).do = "end" /\ Ends(d).on = d
    BY StepsAre DEF Act, Ends
  <1>2. ASSUME NEW c \in BOOLEAN, NEW k \in Seq(Action), Good(H, U \ {d}, c, k)
        PROVE  Permits(Safe, H, U, c, Ends(d), k)
    BY <1>1, <1>2 DEF Permits, LockMode, Good
  <1>3. Sits(H, U \ {d})
    BY DEF Sits, Guarded
  <1> QED BY <1>1, <1>2, <1>3, LeadsOne

(* Steps that change nothing a thread holds or has begun.                  *)
LEMMA LeadsPlain ==
  ASSUME NEW H, NEW U, Sits(H, U), NEW a \in Action, a.do \in {"close", "protect", "unprotect"}
  PROVE  <<a>> \in Seq(Action) /\ Leads(H, U, <<a>>, H, U)
  <1>1. ASSUME NEW c \in BOOLEAN, NEW k \in Seq(Action), Good(H, U, c, k)
        PROVE  Permits(Safe, H, U, c, a, k)
    BY <1>1 DEF Permits, LockMode, Good
  <1> QED BY <1>1, LeadsOne

(* A whole change.                                                         *)
LEMMA LeadsChange ==
  ASSUME NEW H, NEW U, Sits(H, U), NEW d \in ForkedLock, d \notin U,
         <<d, "exclusive">> \in H \/ d \notin {"tls", "vfs", "file"}
  PROVE  Change(d) \in Seq(Action) /\ Leads(H, U, Change(d), H, U)
  <1>0. (U \cup {d}) \ {d} = U
    OBVIOUS
  <1>1. /\ <<Starts(d)>> \in Seq(Action) /\ Leads(H, U, <<Starts(d)>>, H, U \cup {d})
        /\ Sits(H, U \cup {d})
    BY LeadsStarts
  <1>2. <<Ends(d)>> \in Seq(Action) /\ Leads(H, U \cup {d}, <<Ends(d)>>, H, U)
    <2>1. <<Ends(d)>> \in Seq(Action) /\ Leads(H, U \cup {d}, <<Ends(d)>>, H, (U \cup {d}) \ {d})
      BY <1>1, LeadsEnds
    <2> QED BY <1>0, <2>1
  <1>3. <<Starts(d)>> \o <<Ends(d)>> \in Seq(Action) /\ Leads(H, U, <<Starts(d)>> \o <<Ends(d)>>, H, U)
    BY <1>1, <1>2, LeadsThen
  <1>4. Change(d) = <<Starts(d)>> \o <<Ends(d)>>
    BY DEF Change
  <1> QED BY <1>3, <1>4

(* What is done between taking a lock and giving it back.                  *)
LEMMA LeadsHeld ==
  ASSUME NEW H, NEW U, Sits(H, U), NEW l, MayAsk(H, l), Free(H, l), NEW m \in LockMode,
         NEW B \in Seq(Action), Leads(H \cup {<<l, m>>}, U, B, H \cup {<<l, m>>}, U)
  PROVE  /\ <<Act(m, l)>> \o B \o <<Leave(l)>> \in Seq(Action)
         /\ Leads(H, U, <<Act(m, l)>> \o B \o <<Leave(l)>>, H, U)
  <1> DEFINE G == H \cup {<<l, m>>}
  <1>1. <<Act(m, l)>> \in Seq(Action) /\ Leads(H, U, <<Act(m, l)>>, G, U) /\ Sits(G, U)
    BY LeadsTake
  <1>2. Without(G, l) = H
    BY DEF Without, Free
  <1>3. <<Leave(l)>> \in Seq(Action) /\ Leads(G, U, <<Leave(l)>>, H, U)
    <2> HIDE DEF G
    <2> QED BY <1>1, <1>2, LeadsLeave DEF Free
  <1>4. <<Act(m, l)>> \o B \in Seq(Action) /\ Leads(H, U, <<Act(m, l)>> \o B, G, U)
    <2>1. Leads(G, U, B, G, U)
      OBVIOUS
    <2> HIDE DEF G
    <2> QED BY <1>1, <2>1, LeadsThen
  <1> HIDE DEF G
  <1> QED BY <1>3, <1>4, LeadsThen

(* The same for an exclusive lock.                                         *)
LEMMA LeadsWithin ==
  ASSUME NEW H, NEW U, Sits(H, U), NEW l, MayAsk(H, l), Free(H, l),
         NEW B \in Seq(Action), Leads(With(H, l), U, B, With(H, l), U)
  PROVE  Within(l, B) \in Seq(Action) /\ Leads(H, U, Within(l, B), H, U)
  BY LeadsHeld DEF Within, TakeExclusive, With, LockMode

(* Being granted a lock leaves a thread as it should be.                   *)
LEMMA SitsWith ==
  ASSUME NEW H, NEW U, Sits(H, U), NEW l \in ForkedLock, NEW m \in LockMode
  PROVE  Sits(H \cup {<<l, m>>}, U)
  BY DEF Sits, Guarded, Held

(* A write to the user's memory, which may take the memory lock.           *)
LEMMA LeadsTouch ==
  ASSUME NEW H, NEW U, Sits(H, U), MayAsk(H, "mm"), Free(H, "mm")
  PROVE  <<Touch>> \in Seq(Action) /\ Leads(H, U, <<Touch>>, H, U)
  <1>0. Sits(With(H, "mm"), U)
    BY SitsWith DEF With, LockMode, ForkedLock
  <1>1. /\ <<Act("unprotect", "user")>> \in Seq(Action)
        /\ Leads(With(H, "mm"), U, <<Act("unprotect", "user")>>, With(H, "mm"), U)
    BY <1>0, LeadsPlain, StepsAre DEF Act
  <1>2. Fault \in Seq(Action) /\ Leads(H, U, Fault, H, U)
    BY <1>1, LeadsWithin DEF Fault
  <1>3. Touch \in Action /\ Touch.do = "touch"
    BY StepsAre DEF Touch, Act
  <1>4. ASSUME NEW c \in BOOLEAN, NEW k \in Seq(Action), Good(H, U, c, k)
        PROVE  Permits(Safe, H, U, c, Touch, k)
    <2>1. Good(H, U, c, Fault \o k)
      BY <1>2, <1>4 DEF Leads
    <2> QED BY <1>3, <1>4, <2>1 DEF Permits, LockMode, Good
  <1> QED BY <1>3, <1>4, LeadsOne
-----------------------------------------------------------------------------
(* The calls of one thread. *)

(* What a lock may be asked for with.                                      *)
LEMMA RankIs ==
  /\ \A l \in ForkedLock : Rank(l) \in 1 .. 8
  /\ Rank("tls") = 1 /\ Rank("vfs") = 2 /\ Rank("file") = 3 /\ Rank("mm") = 4
  /\ Rank("shared") = 5 /\ Rank("heap") = 6 /\ Rank("signal") = 7 /\ Rank("process") = 8
  BY DEF Rank, ForkedLock

(* A thread that has nothing may ask for any lock.                         *)
LEMMA AskFirst ==
  ASSUME NEW l \in ForkedLock
  PROVE  InOrder({}, l) /\ MayAsk({}, l) /\ Free({}, l) /\ Sits({}, {})
  BY DEF InOrder, MayAsk, Free, Sits, Guarded

(* Locks that are behind all those held are free to be asked for.          *)
LEMMA AskInOrder ==
  ASSUME NEW H \in SUBSET Held, NEW l \in ForkedLock, InOrder(H, l)
  PROVE  MayAsk(H, l) /\ Free(H, l)
  <1>1. \A h \in H : h[1] \in ForkedLock
    BY DEF Held
  <1>2. \A h \in H : h[1] # l
    <2> SUFFICES ASSUME NEW h \in H, h[1] = l PROVE FALSE
      OBVIOUS
    <2>1. Rank(h[1]) < Rank(l)
      BY DEF InOrder
    <2> QED BY <2>1, RankIs
  <1> QED BY <1>2 DEF MayAsk, Free

(* A lock behind the one just taken.                                       *)
LEMMA AskHigher ==
  ASSUME NEW H \in SUBSET Held, NEW l \in ForkedLock, InOrder(H, l), NEW m \in LockMode,
         NEW k \in ForkedLock, Rank(l) < Rank(k)
  PROVE  /\ H \cup {<<l, m>>} \in SUBSET Held
         /\ InOrder(H \cup {<<l, m>>}, k) /\ MayAsk(H \cup {<<l, m>>}, k) /\ Free(H \cup {<<l, m>>}, k)
  <1>1. H \cup {<<l, m>>} \in SUBSET Held
    BY DEF Held
  <1>2. ASSUME NEW h \in H \cup {<<l, m>>}
        PROVE  Rank(h[1]) < Rank(k)
    <2>1. h[1] \in ForkedLock
      BY <1>1 DEF Held
    <2>2. Rank(h[1]) \in Int /\ Rank(l) \in Int /\ Rank(k) \in Int
      BY <2>1, RankIs
    <2>3. CASE h \in H
      <3>1. Rank(h[1]) < Rank(l)
        BY <2>3 DEF InOrder
      <3> QED BY <2>2, <3>1
    <2>4. CASE h = <<l, m>>
      BY <2>4
    <2> QED BY <2>3, <2>4
  <1>3. InOrder(H \cup {<<l, m>>}, k)
    BY <1>2 DEF InOrder
  <1> QED BY <1>1, <1>3, AskInOrder

(* The order of the locks that fork takes.                                 *)
LEMMA ForkRanks ==
  /\ Rank("tls") < Rank("vfs") /\ Rank("vfs") < Rank("file") /\ Rank("vfs") < Rank("mm")
  /\ Rank("file") < Rank("mm") /\ Rank("mm") < Rank("shared") /\ Rank("shared") < Rank("heap")
  /\ Rank("heap") < Rank("signal") /\ Rank("signal") < Rank("process")
  BY RankIs

(* kmalloc and kfree, in whatever order-keeping place.                     *)
LEMMA LeadsKmalloc ==
  ASSUME NEW H, NEW U, Sits(H, U), InOrder(H, "heap"), "heap" \notin U
  PROVE  kmalloc_kfree \in Seq(Action) /\ Leads(H, U, kmalloc_kfree, H, U)
  <1>0. "heap" \in ForkedLock /\ H \in SUBSET Held
    BY DEF ForkedLock, Sits
  <1>1. MayAsk(H, "heap") /\ Free(H, "heap")
    BY <1>0, AskInOrder
  <1>2. Sits(With(H, "heap"), U)
    BY <1>0, SitsWith DEF With, LockMode
  <1>3. Change("heap") \in Seq(Action) /\ Leads(With(H, "heap"), U, Change("heap"), With(H, "heap"), U)
    BY <1>0, <1>2, LeadsChange
  <1> QED BY <1>1, <1>3, LeadsWithin DEF kmalloc_kfree

(* kmalloc that maps a block: the memory lock after the heap's, a known    *)
(* way against the order.                                                  *)
LEMMA LeadsKmallocBlock ==
  kmalloc_block \in Seq(Action) /\ Leads({}, {}, kmalloc_block, {}, {})
  <1> DEFINE G == With({}, "heap")
  <1>0. "heap" \in ForkedLock /\ "mm" \in ForkedLock
    BY DEF ForkedLock
  <1>1. MayAsk({}, "heap") /\ Free({}, "heap") /\ Sits({}, {})
    BY <1>0, AskFirst
  <1>2. Sits(G, {})
    BY <1>0, <1>1, SitsWith DEF With, LockMode
  <1>3. MayAsk(G, "mm") /\ Free(G, "mm")
    BY <1>0 DEF MayAsk, Free, With, Known, HasIn
  <1> HIDE DEF G
  <1>4. <<Starts("heap")>> \in Seq(Action) /\ Leads(G, {}, <<Starts("heap")>>, G, {"heap"}) /\ Sits(G, {"heap"})
    <2>1. /\ <<Starts("heap")>> \in Seq(Action) /\ Leads(G, {}, <<Starts("heap")>>, G, {} \cup {"heap"})
          /\ Sits(G, {} \cup {"heap"})
      BY <1>0, <1>2, LeadsStarts
    <2>2. {} \cup {"heap"} = {"heap"}
      OBVIOUS
    <2> QED BY <2>1, <2>2
  <1>5. Within("mm", << >>) \in Seq(Action) /\ Leads(G, {"heap"}, Within("mm", << >>), G, {"heap"})
    BY <1>3, <1>4, LeadsNothing, LeadsWithin
  <1>6. <<Ends("heap")>> \in Seq(Action) /\ Leads(G, {"heap"}, <<Ends("heap")>>, G, {})
    <2>1. <<Ends("heap")>> \in Seq(Action) /\ Leads(G, {"heap"}, <<Ends("heap")>>, G, {"heap"} \ {"heap"})
      BY <1>0, <1>4, LeadsEnds
    <2>2. {"heap"} \ {"heap"} = {}
      OBVIOUS
    <2> QED BY <2>1, <2>2
  <1>7. /\ <<Starts("heap")>> \o Within("mm", << >>) \in Seq(Action)
        /\ Leads(G, {}, <<Starts("heap")>> \o Within("mm", << >>), G, {"heap"})
    BY <1>4, <1>5, LeadsThen
  <1>8. /\ <<Starts("heap")>> \o Within("mm", << >>) \o <<Ends("heap")>> \in Seq(Action)
        /\ Leads(G, {}, <<Starts("heap")>> \o Within("mm", << >>) \o <<Ends("heap")>>, G, {})
    BY <1>6, <1>7, LeadsThen
  <1> QED BY <1>1, <1>8, LeadsWithin DEF kmalloc_block, G

(* munmap and the load of a page: the heap's and a file's lock within the  *)
(* memory lock, the second a known way against the order.                  *)
LEMMA LeadsMemory ==
  /\ munmap \in Seq(Action) /\ Leads({}, {}, munmap, {}, {})
  /\ page_load \in Seq(Action) /\ Leads({}, {}, page_load, {}, {})
  /\ mm_get_maps \in Seq(Action) /\ Leads({}, {}, mm_get_maps, {}, {})
  <1> DEFINE G(m) == {} \cup {<<"mm", m>>}
             Reads == <<TakeShared("file")>> \o << >> \o <<Leave("file")>>
  <1>0. "heap" \in ForkedLock /\ "mm" \in ForkedLock /\ "file" \in ForkedLock
    BY DEF ForkedLock
  <1>1. MayAsk({}, "mm") /\ Free({}, "mm") /\ Sits({}, {}) /\ InOrder({}, "mm")
    BY <1>0, AskFirst
  <1>2. ASSUME NEW m \in LockMode PROVE Sits(G(m), {})
    BY <1>0, <1>1, SitsWith
  <1>3. ASSUME NEW m \in LockMode PROVE InOrder(G(m), "heap")
    BY <1>0, <1>1, AskHigher, RankIs
  <1>4. ASSUME NEW m \in LockMode PROVE MayAsk(G(m), "file") /\ Free(G(m), "file")
    BY <1>0 DEF MayAsk, Free, Known, HasIn
  <1>5. ASSUME NEW m \in LockMode
        PROVE  Reads \in Seq(Action) /\ Leads(G(m), {}, Reads, G(m), {})
    <2>1. Sits(G(m), {}) /\ MayAsk(G(m), "file") /\ Free(G(m), "file")
      BY <1>2, <1>4
    <2> HIDE DEF G
    <2>2. "shared" \in LockMode
      BY DEF LockMode
    <2>3. << >> \in Seq(Action) /\ Leads(G(m) \cup {<<"file", "shared">>}, {}, << >>, G(m) \cup {<<"file", "shared">>}, {})
      BY LeadsNothing
    <2> QED BY <2>1, <2>2, <2>3, LeadsHeld DEF TakeShared
  <1>6. Reads = <<TakeShared("file"), Leave("file")>>
    BY <1>0, StepsAre, Tuples
  <1>7. munmap \in Seq(Action) /\ Leads({}, {}, munmap, {}, {})
    <2>1. G("exclusive") = With({}, "mm") /\ "exclusive" \in LockMode
      BY DEF With, LockMode
    <2>2. Sits(With({}, "mm"), {}) /\ InOrder(With({}, "mm"), "heap")
      BY <1>2, <1>3, <2>1
    <2>3. /\ kmalloc_kfree \in Seq(Action)
          /\ Leads(With({}, "mm"), {}, kmalloc_kfree, With({}, "mm"), {})
      BY <2>2, LeadsKmalloc
    <2> QED BY <1>1, <2>3, LeadsWithin DEF munmap
  <1>8. page_load \in Seq(Action) /\ Leads({}, {}, page_load, {}, {})
    <2>1. G("exclusive") = With({}, "mm") /\ "exclusive" \in LockMode
      BY DEF With, LockMode
    <2>2. Reads \in Seq(Action) /\ Leads(With({}, "mm"), {}, Reads, With({}, "mm"), {})
      BY <1>5, <2>1
    <2>3. page_load = Within("mm", Reads)
      BY <1>6 DEF page_load
    <2> HIDE DEF Reads
    <2> QED BY <1>1, <2>2, <2>3, LeadsWithin
  <1>9. mm_get_maps \in Seq(Action) /\ Leads({}, {}, mm_get_maps, {}, {})
    <2>1. "shared" \in LockMode
      BY DEF LockMode
    <2>2. Reads \in Seq(Action) /\ Leads(G("shared"), {}, Reads, G("shared"), {})
      BY <1>5, <2>1
    <2>3. mm_get_maps = <<Act("shared", "mm")>> \o Reads \o <<Leave("mm")>>
      BY <1>6 DEF mm_get_maps, TakeShared
    <2> HIDE DEF Reads
    <2> QED BY <1>1, <2>1, <2>2, <2>3, LeadsHeld
  <1> QED BY <1>7, <1>8, <1>9
(* The files: close, dup2 and what looks a descriptor up.                  *)
LEMMA LeadsFiles ==
  /\ close \in Seq(Action) /\ Leads({}, {}, close, {}, {})
  /\ dup2 \in Seq(Action) /\ Leads({}, {}, dup2, {}, {})
  /\ vfs_get \in Seq(Action) /\ Leads({}, {}, vfs_get, {}, {})
  <1> DEFINE G == With({}, "vfs")
  <1>0. "vfs" \in ForkedLock /\ "heap" \in ForkedLock /\ "exclusive" \in LockMode /\ "shared" \in LockMode
    BY DEF ForkedLock, LockMode
  <1>1. MayAsk({}, "vfs") /\ Free({}, "vfs") /\ Sits({}, {}) /\ InOrder({}, "vfs")
    BY <1>0, AskFirst
  <1>2. Sits(G, {}) /\ InOrder(G, "heap") /\ <<"vfs", "exclusive">> \in G
    BY <1>0, <1>1, SitsWith, AskHigher, RankIs DEF With
  <1> HIDE DEF G
  <1>3. <<Starts("vfs")>> \in Seq(Action) /\ Leads(G, {}, <<Starts("vfs")>>, G, {"vfs"}) /\ Sits(G, {"vfs"})
    <2>1. /\ <<Starts("vfs")>> \in Seq(Action) /\ Leads(G, {}, <<Starts("vfs")>>, G, {} \cup {"vfs"})
          /\ Sits(G, {} \cup {"vfs"})
      BY <1>0, <1>2, LeadsStarts
    <2>2. {} \cup {"vfs"} = {"vfs"}
      OBVIOUS
    <2> QED BY <2>1, <2>2
  <1>4. <<Ends("vfs")>> \in Seq(Action) /\ Leads(G, {"vfs"}, <<Ends("vfs")>>, G, {})
    <2>1. <<Ends("vfs")>> \in Seq(Action) /\ Leads(G, {"vfs"}, <<Ends("vfs")>>, G, {"vfs"} \ {"vfs"})
      BY <1>0, <1>3, LeadsEnds
    <2>2. {"vfs"} \ {"vfs"} = {}
      OBVIOUS
    <2> QED BY <2>1, <2>2
  <1>5. ASSUME NEW B \in Seq(Action), Leads(G, {"vfs"}, B, G, {"vfs"})
        PROVE  /\ Within("vfs", <<Starts("vfs")>> \o B \o <<Ends("vfs")>>) \in Seq(Action)
               /\ Leads({}, {}, Within("vfs", <<Starts("vfs")>> \o B \o <<Ends("vfs")>>), {}, {})
    <2>1. <<Starts("vfs")>> \o B \in Seq(Action) /\ Leads(G, {}, <<Starts("vfs")>> \o B, G, {"vfs"})
      BY <1>3, <1>5, LeadsThen
    <2>2. /\ <<Starts("vfs")>> \o B \o <<Ends("vfs")>> \in Seq(Action)
          /\ Leads(G, {}, <<Starts("vfs")>> \o B \o <<Ends("vfs")>>, G, {})
      BY <1>4, <2>1, LeadsThen
    <2> QED BY <1>1, <2>2, LeadsWithin DEF G
  <1>6. close \in Seq(Action) /\ Leads({}, {}, close, {}, {})
    <2> DEFINE B == <<Act("close", "file")>>
    <2>1. B \in Seq(Action) /\ Leads(G, {"vfs"}, B, G, {"vfs"})
      BY <1>3, LeadsPlain, StepsAre DEF Act
    <2>2. <<Starts("vfs"), Act("close", "file"), Ends("vfs")>> = <<Starts("vfs")>> \o B \o <<Ends("vfs")>>
      <3>1. Starts("vfs") \in Action /\ Ends("vfs") \in Action /\ Act("close", "file") \in Action
        BY <1>0, StepsAre
      <3> QED BY <3>1, Tuples
    <2> HIDE DEF B
    <2> QED BY <1>5, <2>1, <2>2 DEF close
  <1>7. dup2 \in Seq(Action) /\ Leads({}, {}, dup2, {}, {})
    <2>1. kmalloc_kfree \in Seq(Action) /\ Leads(G, {"vfs"}, kmalloc_kfree, G, {"vfs"})
      BY <1>2, <1>3, LeadsKmalloc
    <2> QED BY <1>5, <2>1 DEF dup2
  <1>8. vfs_get \in Seq(Action) /\ Leads({}, {}, vfs_get, {}, {})
    <2> DEFINE F == {} \cup {<<"vfs", "shared">>}
               a == Act("look up", "file")
    <2>1. Sits(F, {})
      BY <1>0, <1>1, SitsWith
    <2>2. <<Leave("vfs")>> \in Seq(Action) /\ Leads(F, {}, <<Leave("vfs")>>, {}, {})
      <3>1. Without(F, "vfs") = {}
        BY DEF Without
      <3> HIDE DEF F
      <3> QED BY <1>0, <2>1, <3>1, LeadsLeave
    <2>3. ASSUME NEW c \in BOOLEAN PROVE Good(F, {}, c, <<Leave("vfs")>>)
      <3>1. Good({}, {}, c, << >>)
        BY <1>1, GoodEnd DEF Sits
      <3>2. Good(F, {}, c, <<Leave("vfs")>> \o << >>)
        <4> HIDE DEF F
        <4>1. << >> \in Seq(Action)
          OBVIOUS
        <4> QED BY <2>2, <3>1, <4>1 DEF Leads
      <3>3. <<Leave("vfs")>> \o << >> = <<Leave("vfs")>>
        OBVIOUS
      <3> QED BY <3>2, <3>3
    <2>4. a \in Action /\ a.do = "look up"
      BY StepsAre DEF Act
    <2> HIDE DEF F, a
    <2>5. ASSUME NEW c \in BOOLEAN, NEW k \in Seq(Action), Good(F, {}, c, k)
          PROVE  Permits(Safe, F, {}, c, a, k)
      BY <2>3, <2>4, <2>5 DEF Permits, LockMode, Good
    <2>6. <<a>> \in Seq(Action) /\ Leads(F, {}, <<a>>, F, {})
      BY <2>1, <2>4, <2>5, LeadsOne
    <2>7. /\ <<Act("shared", "vfs")>> \o <<a>> \o <<Leave("vfs")>> \in Seq(Action)
          /\ Leads({}, {}, <<Act("shared", "vfs")>> \o <<a>> \o <<Leave("vfs")>>, {}, {})
      BY <1>0, <1>1, <2>6, LeadsHeld DEF F
    <2>8. vfs_get = <<Act("shared", "vfs")>> \o <<a>> \o <<Leave("vfs")>>
      <3>1. TakeShared("vfs") \in Action /\ Leave("vfs") \in Action
        BY <1>0, StepsAre
      <3>2. vfs_get = <<TakeShared("vfs")>> \o <<a>> \o <<Leave("vfs")>>
        BY <2>4, <3>1, Tuples DEF vfs_get, a
      <3> QED BY <3>2 DEF TakeShared
    <2> QED BY <2>7, <2>8
  <1> QED BY <1>6, <1>7, <1>8

(* read and ioctl, and the calls that keep to one subsystem and the user's *)
(* memory.                                                                 *)
LEMMA LeadsCalls ==
  /\ read \in Seq(Action) /\ Leads({}, {}, read, {}, {})
  /\ ioctl \in Seq(Action) /\ Leads({}, {}, ioctl, {}, {})
  /\ <<Touch>> \in Seq(Action) /\ Leads({}, {}, <<Touch>>, {}, {})
  /\ wait4 \in Seq(Action) /\ Leads({}, {}, wait4, {}, {})
  /\ signal_thread \in Seq(Action) /\ Leads({}, {}, signal_thread, {}, {})
  /\ kmalloc_shared_call \in Seq(Action) /\ Leads({}, {}, kmalloc_shared_call, {}, {})
  <1>0. /\ "file" \in ForkedLock /\ "process" \in ForkedLock /\ "signal" \in ForkedLock
        /\ "mm" \in ForkedLock /\ "shared" \in ForkedLock /\ "shared" \in LockMode /\ "exclusive" \in LockMode
    BY DEF ForkedLock, LockMode
  <1>1. ASSUME NEW l \in ForkedLock
        PROVE  MayAsk({}, l) /\ Free({}, l) /\ Sits({}, {}) /\ InOrder({}, l) /\ {} \in SUBSET Held
    BY AskFirst
  <1>2. <<Touch>> \in Seq(Action) /\ Leads({}, {}, <<Touch>>, {}, {})
    BY <1>0, <1>1, LeadsTouch
  <1>3. ASSUME NEW l \in ForkedLock, NEW m \in LockMode
        PROVE  /\ <<Act(m, l)>> \o << >> \o <<Leave(l)>> \in Seq(Action)
               /\ Leads({}, {}, <<Act(m, l)>> \o << >> \o <<Leave(l)>>, {}, {})
    <2>1. << >> \in Seq(Action) /\ Leads({} \cup {<<l, m>>}, {}, << >>, {} \cup {<<l, m>>}, {})
      BY LeadsNothing
    <2> QED BY <1>1, <2>1, LeadsHeld
  <1>4. ASSUME NEW l \in ForkedLock
        PROVE  Within(l, Change(l)) \in Seq(Action) /\ Leads({}, {}, Within(l, Change(l)), {}, {})
    <2>1. Sits(With({}, l), {}) /\ <<l, "exclusive">> \in With({}, l)
      BY <1>0, <1>1, SitsWith DEF With
    <2>2. Change(l) \in Seq(Action) /\ Leads(With({}, l), {}, Change(l), With({}, l), {})
      BY <2>1, LeadsChange
    <2> QED BY <1>1, <2>2, LeadsWithin
  <1>5. read \in Seq(Action) /\ Leads({}, {}, read, {}, {})
    <2>1. <<Touch>> \o vfs_get \in Seq(Action) /\ Leads({}, {}, <<Touch>> \o vfs_get, {}, {})
      BY <1>2, LeadsFiles, LeadsThen
    <2>2. <<TakeShared("file"), Leave("file")>> = <<Act("shared", "file")>> \o << >> \o <<Leave("file")>>
      <3>1. <<TakeShared("file"), Leave("file")>> = <<TakeShared("file")>> \o << >> \o <<Leave("file")>>
        BY <1>0, StepsAre, Tuples
      <3> QED BY <3>1 DEF TakeShared
    <2>3. /\ <<TakeShared("file"), Leave("file")>> \in Seq(Action)
          /\ Leads({}, {}, <<TakeShared("file"), Leave("file")>>, {}, {})
      BY <1>0, <1>3, <2>2
    <2> QED BY <2>1, <2>3, LeadsThen DEF read
  <1>6. ioctl \in Seq(Action) /\ Leads({}, {}, ioctl, {}, {})
    BY <1>0, <1>4, LeadsFiles, LeadsThen DEF ioctl
  <1>7. wait4 \in Seq(Action) /\ Leads({}, {}, wait4, {}, {})
    <2> DEFINE F == {} \cup {<<"process", "shared">>}
    <2>1. Sits(F, {}) /\ MayAsk(F, "mm") /\ Free(F, "mm")
      <3>1. Sits(F, {})
        BY <1>0, <1>1, SitsWith
      <3> QED BY <1>0, <3>1 DEF MayAsk, Free, Known, HasIn
    <2>2. <<Touch>> \in Seq(Action) /\ Leads(F, {}, <<Touch>>, F, {})
      <3> HIDE DEF F
      <3> QED BY <2>1, LeadsTouch
    <2>3. /\ <<Act("shared", "process")>> \o <<Touch>> \o <<Leave("process")>> \in Seq(Action)
          /\ Leads({}, {}, <<Act("shared", "process")>> \o <<Touch>> \o <<Leave("process")>>, {}, {})
      BY <1>0, <1>1, <2>2, LeadsHeld
    <2>4. wait4 = <<Act("shared", "process")>> \o <<Touch>> \o <<Leave("process")>>
      <3>1. wait4 = <<TakeShared("process")>> \o <<Touch>> \o <<Leave("process")>>
        <4>1. TakeShared("process") \in Action /\ Touch \in Action /\ Leave("process") \in Action
          BY <1>0, StepsAre
        <4> QED BY <4>1, Tuples DEF wait4
      <3> QED BY <3>1 DEF TakeShared
    <2> QED BY <2>3, <2>4
  <1>8. signal_thread \in Seq(Action) /\ Leads({}, {}, signal_thread, {}, {})
    <2> DEFINE F == {} \cup {<<"signal", "exclusive">>}
               B == <<Act("shared", "process")>> \o << >> \o <<Leave("process")>>
    <2>1. Sits(F, {})
      BY <1>0, <1>1, SitsWith
    <2>2. MayAsk(F, "process") /\ Free(F, "process")
      <3>1. InOrder({}, "signal") /\ {} \in SUBSET Held /\ Rank("signal") < Rank("process")
        BY <1>0, <1>1, RankIs
      <3> QED BY <1>0, <3>1, AskHigher
    <2>3. B \in Seq(Action) /\ Leads(F, {}, B, F, {})
      <3> HIDE DEF F
      <3>1. /\ << >> \in Seq(Action)
            /\ Leads(F \cup {<<"process", "shared">>}, {}, << >>, F \cup {<<"process", "shared">>}, {})
        BY LeadsNothing
      <3> QED BY <1>0, <2>1, <2>2, <3>1, LeadsHeld
    <2>4. B = <<TakeShared("process"), Leave("process")>>
      <3>1. <<TakeShared("process"), Leave("process")>> = <<TakeShared("process")>> \o << >> \o <<Leave("process")>>
        BY <1>0, StepsAre, Tuples
      <3> QED BY <3>1 DEF TakeShared
    <2>5. F = With({}, "signal")
      BY DEF With
    <2> HIDE DEF B, F
    <2>6. Within("signal", B) \in Seq(Action) /\ Leads({}, {}, Within("signal", B), {}, {})
      BY <1>0, <1>1, <2>3, <2>5, LeadsWithin
    <2> QED BY <2>4, <2>6 DEF signal_thread
  <1> QED BY <1>0, <1>2, <1>4, <1>5, <1>6, <1>7, <1>8 DEF kmalloc_shared_call

(* set_thread_area and sigaction, which touch the user's memory within     *)
(* their locks.                                                            *)
LEMMA LeadsTouching ==
  /\ set_thread_area \in Seq(Action) /\ Leads({}, {}, set_thread_area, {}, {})
  /\ sigaction \in Seq(Action) /\ Leads({}, {}, sigaction, {}, {})
  <1>0. /\ "tls" \in ForkedLock /\ "signal" \in ForkedLock /\ "mm" \in ForkedLock /\ "exclusive" \in LockMode
    BY DEF ForkedLock, LockMode
  <1>1. ASSUME NEW l \in ForkedLock
        PROVE  MayAsk({}, l) /\ Free({}, l) /\ Sits({}, {}) /\ InOrder({}, l) /\ {} \in SUBSET Held
    BY AskFirst
  <1>2. ASSUME NEW l \in ForkedLock
        PROVE  Sits(With({}, l), {}) /\ <<l, "exclusive">> \in With({}, l)
    BY <1>0, <1>1, SitsWith DEF With
  <1>3. set_thread_area \in Seq(Action) /\ Leads({}, {}, set_thread_area, {}, {})
    <2> DEFINE G == With({}, "tls")
    <2>1. MayAsk(G, "mm") /\ Free(G, "mm")
      <3>1. InOrder({}, "tls") /\ {} \in SUBSET Held /\ Rank("tls") < Rank("mm")
        BY <1>0, <1>1, RankIs
      <3> QED BY <1>0, <3>1, AskHigher DEF With
    <2>2. Sits(G, {}) /\ <<"tls", "exclusive">> \in G
      BY <1>0, <1>2
    <2> HIDE DEF G
    <2>3. <<Starts("tls")>> \in Seq(Action) /\ Leads(G, {}, <<Starts("tls")>>, G, {"tls"}) /\ Sits(G, {"tls"})
      <3>1. /\ <<Starts("tls")>> \in Seq(Action) /\ Leads(G, {}, <<Starts("tls")>>, G, {} \cup {"tls"})
            /\ Sits(G, {} \cup {"tls"})
        BY <1>0, <2>2, LeadsStarts
      <3>2. {} \cup {"tls"} = {"tls"}
        OBVIOUS
      <3> QED BY <3>1, <3>2
    <2>4. <<Touch>> \in Seq(Action) /\ Leads(G, {"tls"}, <<Touch>>, G, {"tls"})
      BY <2>1, <2>3, LeadsTouch
    <2>5. <<Ends("tls")>> \in Seq(Action) /\ Leads(G, {"tls"}, <<Ends("tls")>>, G, {})
      <3>1. <<Ends("tls")>> \in Seq(Action) /\ Leads(G, {"tls"}, <<Ends("tls")>>, G, {"tls"} \ {"tls"})
        BY <1>0, <2>3, LeadsEnds
      <3>2. {"tls"} \ {"tls"} = {}
        OBVIOUS
      <3> QED BY <3>1, <3>2
    <2>6. <<Starts("tls")>> \o <<Touch>> \in Seq(Action) /\ Leads(G, {}, <<Starts("tls")>> \o <<Touch>>, G, {"tls"})
      BY <2>3, <2>4, LeadsThen
    <2>7. /\ <<Starts("tls")>> \o <<Touch>> \o <<Ends("tls")>> \in Seq(Action)
          /\ Leads(G, {}, <<Starts("tls")>> \o <<Touch>> \o <<Ends("tls")>>, G, {})
      BY <2>5, <2>6, LeadsThen
    <2>8. <<Starts("tls"), Touch, Ends("tls")>> = <<Starts("tls")>> \o <<Touch>> \o <<Ends("tls")>>
      <3>1. Starts("tls") \in Action /\ Touch \in Action /\ Ends("tls") \in Action
        BY <1>0, StepsAre
      <3> QED BY <3>1, Tuples
    <2> DEFINE B == <<Starts("tls"), Touch, Ends("tls")>>
    <2>9. B \in Seq(Action) /\ Leads(G, {}, B, G, {})
      BY <2>7, <2>8
    <2> HIDE DEF B
    <2>10. Within("tls", B) \in Seq(Action) /\ Leads({}, {}, Within("tls", B), {}, {})
      BY <1>0, <1>1, <2>9, LeadsWithin DEF G
    <2> QED BY <2>10 DEF set_thread_area, B
  <1>4. sigaction \in Seq(Action) /\ Leads({}, {}, sigaction, {}, {})
    <2> DEFINE G == With({}, "signal")
    <2>1. MayAsk(G, "mm") /\ Free(G, "mm")
      BY <1>0 DEF MayAsk, Free, Known, HasIn, With
    <2>2. Sits(G, {})
      BY <1>0, <1>2
    <2> HIDE DEF G
    <2>3. <<Touch>> \in Seq(Action) /\ Leads(G, {}, <<Touch>>, G, {})
      BY <2>1, <2>2, LeadsTouch
    <2>4. Change("signal") \in Seq(Action) /\ Leads(G, {}, Change("signal"), G, {})
      BY <1>0, <2>2, LeadsChange
    <2>5. <<Touch>> \o Change("signal") \in Seq(Action) /\ Leads(G, {}, <<Touch>> \o Change("signal"), G, {})
      BY <2>3, <2>4, LeadsThen
    <2> DEFINE B == <<Touch>> \o Change("signal")
    <2>6. B \in Seq(Action) /\ Leads(G, {}, B, G, {})
      BY <2>5
    <2> HIDE DEF B
    <2>7. Within("signal", B) \in Seq(Action) /\ Leads({}, {}, Within("signal", B), {}, {})
      BY <1>0, <1>1, <2>6, LeadsWithin DEF G
    <2>8. <<Touch>> \in Seq(Action) /\ Leads({}, {}, <<Touch>>, {}, {})
      BY LeadsCalls
    <2> QED BY <2>7, <2>8, LeadsThen DEF sigaction, B
  <1> QED BY <1>3, <1>4
-----------------------------------------------------------------------------
(* fork and clone. *)

(* What gives locks back and asks for none may be done whatever is held.   *)
Released(s) == \A G \in SUBSET Held, c \in BOOLEAN : Good(G, {}, c, s)

(* Giving back one more lock first.                                        *)
LEMMA ReleasedLeave ==
  ASSUME NEW s \in Seq(Action), s # << >>, NEW l \in ForkedLock, Head(s) = Leave(l), Released(Tail(s))
  PROVE  Released(s)
  <1>1. Leave(l).do = "release" /\ Leave(l).on = l
    BY DEF Leave, Act
  <1>2. ASSUME NEW G \in SUBSET Held, NEW c \in BOOLEAN
        PROVE  Good(G, {}, c, s)
    <2>1. Without(G, l) \in SUBSET Held
      BY DEF Without
    <2>2. Good(Without(G, l), {}, c, Tail(s))
      BY <2>1 DEF Released
    <2>3. Permits(Safe, G, {}, c, Head(s), Tail(s))
      BY <1>1, <2>2 DEF Permits, LockMode, Good
    <2>4. Guarded(G, {})
      BY DEF Guarded
    <2> QED BY <2>3, <2>4, GoodWhen
  <1> QED BY <1>2 DEF Released

(* The end of a fork in the parent, from any locks held.                   *)
LEMMA AfterforkReleased == afterfork_parent \in Seq(Action) /\ Released(afterfork_parent)
  <1> DEFINE o == Act("release if open", "file")
             r0 == << >>
             r1 == <<Leave("mm")>>
             r2 == <<Leave("shared"), Leave("mm")>>
             r3 == <<Leave("heap"), Leave("shared"), Leave("mm")>>
             r4 == <<Leave("signal"), Leave("heap"), Leave("shared"), Leave("mm")>>
             r5 == <<Leave("tls"), Leave("signal"), Leave("heap"), Leave("shared"), Leave("mm")>>
             r6 == <<Leave("vfs"), Leave("tls"), Leave("signal"), Leave("heap"), Leave("shared"), Leave("mm")>>
  <1>0. /\ "mm" \in ForkedLock /\ "shared" \in ForkedLock /\ "heap" \in ForkedLock /\ "signal" \in ForkedLock
        /\ "tls" \in ForkedLock /\ "vfs" \in ForkedLock /\ "file" \in ForkedLock
    BY DEF ForkedLock
  <1>1. /\ Leave("mm") \in Action /\ Leave("shared") \in Action /\ Leave("heap") \in Action
        /\ Leave("signal") \in Action /\ Leave("tls") \in Action /\ Leave("vfs") \in Action
        /\ Leave("file") \in Action /\ o \in Action
    BY <1>0, StepsAre
  <1>2. /\ r0 \in Seq(Action) /\ r1 \in Seq(Action) /\ r2 \in Seq(Action) /\ r3 \in Seq(Action)
        /\ r4 \in Seq(Action) /\ r5 \in Seq(Action) /\ r6 \in Seq(Action)
        /\ afterfork_parent \in Seq(Action)
    <2>0. r0 \in Seq(Action)
      OBVIOUS
    <2>1. r1 \in Seq(Action)
      BY DEF Leave, Act, Action, Doing, LockMode, Subject, ForkedLock
    <2>2. r2 \in Seq(Action)
      BY DEF Leave, Act, Action, Doing, LockMode, Subject, ForkedLock
    <2>3. r3 \in Seq(Action)
      BY DEF Leave, Act, Action, Doing, LockMode, Subject, ForkedLock
    <2>4. r4 \in Seq(Action)
      BY DEF Leave, Act, Action, Doing, LockMode, Subject, ForkedLock
    <2>5. r5 \in Seq(Action)
      BY DEF Leave, Act, Action, Doing, LockMode, Subject, ForkedLock
    <2>6. r6 \in Seq(Action)
      BY DEF Leave, Act, Action, Doing, LockMode, Subject, ForkedLock
    <2>7. afterfork_parent \in Seq(Action)
      BY DEF afterfork_parent, Leave, Act, Action, Doing, LockMode, Subject, ForkedLock
    <2> QED BY <2>0, <2>1, <2>2, <2>3, <2>4, <2>5, <2>6, <2>7
  <1>21. r1 # << >> /\ Head(r1) = Leave("mm") /\ Tail(r1) = r0
    OBVIOUS
  <1>22. r2 # << >> /\ Head(r2) = Leave("shared") /\ Tail(r2) = r1
    OBVIOUS
  <1>23. r3 # << >> /\ Head(r3) = Leave("heap") /\ Tail(r3) = r2
    OBVIOUS
  <1>24. r4 # << >> /\ Head(r4) = Leave("signal") /\ Tail(r4) = r3
    OBVIOUS
  <1>25. r5 # << >> /\ Head(r5) = Leave("tls") /\ Tail(r5) = r4
    OBVIOUS
  <1>26. r6 # << >> /\ Head(r6) = Leave("vfs") /\ Tail(r6) = r5
    OBVIOUS
  <1>27. afterfork_parent # << >> /\ Head(afterfork_parent) = o /\ Tail(afterfork_parent) = r6
    BY DEF afterfork_parent
  <1>3. Released(r0)
    BY GoodEnd DEF Released, Guarded
  <1> HIDE DEF r0, r1, r2, r3, r4, r5, r6
  <1>4. Released(r1)
    BY <1>0, <1>2, <1>21, <1>3, ReleasedLeave
  <1>5. Released(r2)
    BY <1>0, <1>2, <1>22, <1>4, ReleasedLeave
  <1>6. Released(r3)
    BY <1>0, <1>2, <1>23, <1>5, ReleasedLeave
  <1>7. Released(r4)
    BY <1>0, <1>2, <1>24, <1>6, ReleasedLeave
  <1>8. Released(r5)
    BY <1>0, <1>2, <1>25, <1>7, ReleasedLeave
  <1>9. Released(r6)
    BY <1>0, <1>2, <1>26, <1>8, ReleasedLeave
  <1>10. Released(<<Leave("file")>> \o r6)
    <2>1. /\ <<Leave("file")>> \o r6 \in Seq(Action) /\ <<Leave("file")>> \o r6 # << >>
          /\ Head(<<Leave("file")>> \o r6) = Leave("file") /\ Tail(<<Leave("file")>> \o r6) = r6
      BY <1>1, <1>2, FirstOf
    <2> QED BY <1>0, <1>9, <2>1, ReleasedLeave
  <1>11. o.do = "release if open"
    BY DEF Act
  <1> HIDE DEF o
  <1>12. ASSUME NEW G \in SUBSET Held, NEW c \in BOOLEAN
         PROVE  Good(G, {}, c, afterfork_parent)
    <2>1. Good(G, {}, c, r6) /\ Good(G, {}, c, <<Leave("file")>> \o r6)
      BY <1>9, <1>10 DEF Released
    <2>2. Permits(Safe, G, {}, c, Head(afterfork_parent), Tail(afterfork_parent))
      BY <1>11, <1>27, <2>1 DEF Permits, LockMode, Good
    <2>3. Guarded(G, {})
      BY DEF Guarded
    <2> QED BY <1>2, <2>2, <2>3, GoodWhen
  <1> QED BY <1>2, <1>12 DEF Released
(* The write of the child's pid with all locks of fork held: the thread    *)
(* may ask for the memory lock it has, a known way against the order.      *)
LEMMA TouchReleased ==
  ASSUME NEW G \in SUBSET Held, HasIn(G, {"heap"}), NEW c \in BOOLEAN
  PROVE  Good(G, {}, c, <<Touch>> \o afterfork_parent)
  <1> DEFINE u == Act("unprotect", "user")
             x == TakeExclusive("mm")
             l == Leave("mm")
             r == afterfork_parent
             F == G \cup {<<"mm", "exclusive">>}
  <1>0. "mm" \in ForkedLock
    BY DEF ForkedLock
  <1>1. u \in Action /\ x \in Action /\ l \in Action /\ Touch \in Action
    BY <1>0, StepsAre
  <1>2. /\ u.do = "unprotect" /\ x.do = "exclusive" /\ x.on = "mm" /\ Touch.do = "touch"
        /\ l = Leave("mm")
    BY DEF Act, TakeExclusive, Touch
  <1>3. r \in Seq(Action) /\ Released(r)
    BY AfterforkReleased
  <1>4. <<u>> \o << >> = <<u>> /\ Within("mm", <<u>>) = <<x>> \o <<u>> \o <<l>>
    BY <1>1, Tuples DEF Within
  <1>5. F \in SUBSET Held
    BY DEF Held, ForkedLock, LockMode
  <1>6. MayAsk(G, "mm")
    BY <1>0 DEF MayAsk, Known, HasIn
  <1> HIDE DEF u, x, l, r
  <1>7. /\ <<l>> \o r \in Seq(Action) /\ <<l>> \o r # << >>
        /\ Head(<<l>> \o r) = Leave("mm") /\ Tail(<<l>> \o r) = r
    BY <1>1, <1>2, <1>3, FirstOf
  <1>8. Released(<<l>> \o r)
    BY <1>0, <1>3, <1>7, ReleasedLeave
  <1>9. <<u>> \o (<<l>> \o r) \in Seq(Action) /\ Good(F, {}, c, <<u>> \o (<<l>> \o r))
    <2>1. Good(F, {}, c, <<l>> \o r)
      BY <1>5, <1>8 DEF Released
    <2>2. Sits(F, {})
      BY <1>5 DEF Sits, Guarded
    <2> HIDE DEF F
    <2>3. Leads(F, {}, <<u>>, F, {})
      BY <1>1, <1>2, <2>2, LeadsPlain
    <2>4. Good(F, {}, c, <<u>> \o (<<l>> \o r))
      BY <1>7, <2>1, <2>3 DEF Leads
    <2> QED BY <1>1, <1>7, <2>4, FirstOf
  <1>10. Good(G, {}, c, <<x>> \o (<<u>> \o (<<l>> \o r)))
    <2>1. Permits(Safe, G, {}, c, x, <<u>> \o (<<l>> \o r))
      BY <1>2, <1>6, <1>9 DEF Permits, LockMode, Good
    <2>2. Guarded(G, {})
      BY DEF Guarded
    <2> QED BY <1>1, <1>9, <2>1, <2>2, GoodStep
  <1>11. Fault \o r = <<x>> \o (<<u>> \o (<<l>> \o r))
    <2>1. <<x>> \in Seq(Action) /\ <<u>> \in Seq(Action) /\ <<l>> \in Seq(Action)
      BY <1>1
    <2>2. <<x>> \o <<u>> \in Seq(Action)
      BY <2>1, ConcatProperties
    <2>3. (<<x>> \o <<u>> \o <<l>>) \o r = (<<x>> \o <<u>>) \o (<<l>> \o r)
      BY <1>3, <2>1, <2>2, ConcatAssociative
    <2>4. (<<x>> \o <<u>>) \o (<<l>> \o r) = <<x>> \o (<<u>> \o (<<l>> \o r))
      BY <1>7, <2>1, ConcatAssociative
    <2>5. Fault = <<x>> \o <<u>> \o <<l>>
      BY <1>4 DEF Fault, u
    <2> QED BY <2>3, <2>4, <2>5
  <1>12. Permits(Safe, G, {}, c, Touch, r)
    <2>1. Good(G, {}, c, r)
      BY <1>3 DEF Released
    <2> QED BY <1>2, <1>10, <1>11, <2>1 DEF Permits, LockMode, Good
  <1>13. Guarded(G, {})
    BY DEF Guarded
  <1> QED BY <1>1, <1>3, <1>12, <1>13, GoodStep DEF r

(* What a thread holds when it copies the memory.                          *)
Copies(H, c) ==
  /\ Sits(H, {}) /\ HasIn(H, {"tls"}) /\ HasIn(H, {"vfs"})
  /\ c \/ HasIn(H, {"file"})

(* mm_fork is a sequence of steps.                                         *)
LEMMA MmForkIs == mm_fork \in Seq(Action)
  BY DEF mm_fork, TakeShared, Copy, Act, Action, Doing, LockMode, Subject, ForkedLock

(* mm_fork, with the locks of what must be copied whole.                   *)
LEMMA GoodMmFork ==
  ASSUME NEW H, NEW c \in BOOLEAN, Copies(H, c), InOrder(H, "mm"), NEW k \in Seq(Action),
         Good(H \cup {<<"mm", "shared">>}, {}, c, k)
  PROVE  mm_fork \in Seq(Action) /\ Good(H, {}, c, mm_fork \o k)
  <1> DEFINE G == H \cup {<<"mm", "shared">>}
             b == Copy("blocks")
             s == Copy("static")
             p == Act("protect", "user")
             t == TakeShared("mm")
  <1>0. "mm" \in ForkedLock /\ "shared" \in LockMode /\ H \in SUBSET Held
    BY DEF ForkedLock, LockMode, Copies, Sits
  <1>1. b \in Action /\ s \in Action /\ p \in Action /\ t \in Action
    BY <1>0, StepsAre
  <1>2. b.do = "copy" /\ s.do = "copy" /\ p.do = "protect" /\ t = Act("shared", "mm")
    BY DEF Copy, Act, TakeShared
  <1>3. Copies(G, c) /\ Sits(G, {})
    <2>1. Sits(G, {})
      BY <1>0, SitsWith DEF Copies
    <2> QED BY <2>1 DEF Copies, HasIn
  <1>4. MayAsk(H, "mm")
    BY <1>0, AskInOrder
  <1>5. Good(G, {}, c, k)
    OBVIOUS
  <1> HIDE DEF G, b, s, p, t
  <1>6. <<p>> \o k \in Seq(Action) /\ Good(G, {}, c, <<p>> \o k)
    BY <1>1, <1>2, <1>3, <1>5, LeadsPlain, FirstOf DEF Leads
  <1>7. ASSUME NEW a \in Action, a.do = "copy", NEW q \in Seq(Action), Good(G, {}, c, q)
        PROVE  <<a>> \o q \in Seq(Action) /\ Good(G, {}, c, <<a>> \o q)
    <2>1. Permits(Safe, G, {}, c, a, q)
      BY <1>3, <1>7 DEF Permits, Copies, LockMode, Good
    <2>2. Guarded(G, {}) /\ G \in SUBSET Held
      BY <1>3 DEF Sits
    <2> QED BY <2>1, <2>2, GoodStep, FirstOf
  <1>8. <<s>> \o (<<p>> \o k) \in Seq(Action) /\ Good(G, {}, c, <<s>> \o (<<p>> \o k))
    BY <1>1, <1>2, <1>6, <1>7
  <1>9. <<b>> \o (<<s>> \o (<<p>> \o k)) \in Seq(Action) /\ Good(G, {}, c, <<b>> \o (<<s>> \o (<<p>> \o k)))
    BY <1>1, <1>2, <1>7, <1>8
  <1>10. Good(H, {}, c, <<t>> \o (<<b>> \o (<<s>> \o (<<p>> \o k))))
    <2>1. Sits(H, {})
      BY DEF Copies
    <2>2. Leads(H, {}, <<t>>, G, {})
      BY <1>0, <1>2, <1>4, <2>1, LeadsTake DEF G
    <2> QED BY <1>9, <2>2 DEF Leads
  <1>11. /\ mm_fork # << >> /\ Head(mm_fork) = t /\ Tail(mm_fork) = <<b, s, p>>
         /\ <<b, s, p>> # << >> /\ Head(<<b, s, p>>) = b /\ Tail(<<b, s, p>>) = <<s, p>>
         /\ <<s, p>> # << >> /\ Head(<<s, p>>) = s /\ Tail(<<s, p>>) = <<p>>
    BY DEF mm_fork, t, b, s, p
  <1>12. mm_fork \o k = <<t>> \o (<<b>> \o (<<s>> \o (<<p>> \o k)))
    <2>1. <<b, s, p>> \in Seq(Action) /\ mm_fork \o k = <<t>> \o (<<b, s, p>> \o k)
      BY <1>11, MmForkIs, SplitHead
    <2>2. <<s, p>> \in Seq(Action) /\ <<b, s, p>> \o k = <<b>> \o (<<s, p>> \o k)
      BY <1>11, <2>1, SplitHead
    <2>3. <<s, p>> \o k = <<s>> \o (<<p>> \o k)
      BY <1>11, <2>2, SplitHead
    <2> QED BY <2>1, <2>2, <2>3
  <1> QED BY <1>10, <1>12, MmForkIs
(* The parts of fork are sequences of steps.                               *)
LEMMA ForkPartsAre ==
  /\ tls_fork \in Seq(Action) /\ vfs_fork \in Seq(Action) /\ mm_fork \in Seq(Action)
  /\ shared_fork_lock \in Seq(Action) /\ heap_fork \in Seq(Action) /\ signal_fork \in Seq(Action)
  /\ process_init_child \in Seq(Action)
  <1>1. tls_fork \in Seq(Action)
    BY DEF tls_fork, TakeShared, Act, Action, Doing, LockMode, Subject, ForkedLock
  <1>2. vfs_fork \in Seq(Action)
    BY DEF vfs_fork, TakeShared, Act, Action, Doing, LockMode, Subject, ForkedLock
  <1>3. shared_fork_lock \in Seq(Action)
    BY DEF shared_fork_lock, TakeShared, Act, Action, Doing, LockMode, Subject, ForkedLock
  <1>4. heap_fork \in Seq(Action)
    BY DEF heap_fork, TakeShared, Act, Action, Doing, LockMode, Subject, ForkedLock
  <1>5. signal_fork \in Seq(Action)
    BY DEF signal_fork, TakeExclusive, Act, Action, Doing, LockMode, Subject, ForkedLock
  <1>6. process_init_child \in Seq(Action)
    <2>1. "process" \in ForkedLock
      BY DEF ForkedLock
    <2>2. << >> \in Seq(Action) /\ Leads(With({}, "process"), {}, << >>, With({}, "process"), {})
      BY LeadsNothing
    <2> QED BY <2>1, <2>2, AskFirst, LeadsWithin DEF process_init_child
  <1> QED BY <1>1, <1>2, <1>3, <1>4, <1>5, <1>6, MmForkIs

(* The locks after the memory's, and the child's entry, from any locks     *)
(* before it.                                                              *)
LEMMA LeadsAfterMm ==
  ASSUME NEW H \in SUBSET Held, InOrder(H, "mm"),
         NEW G, G = H \cup {<<"mm", "shared">>} \cup {<<"shared", "shared">>} \cup {<<"heap", "shared">>}
                      \cup {<<"signal", "exclusive">>}
  PROVE  /\ G \in SUBSET Held
         /\ \A c \in BOOLEAN, k \in Seq(Action) :
              Good(G, {}, c, k)
                => Good(H \cup {<<"mm", "shared">>}, {}, c,
                        shared_fork_lock \o (heap_fork \o (signal_fork \o (process_init_child \o k))))
  <1> DEFINE G1 == H \cup {<<"mm", "shared">>}
             G2 == G1 \cup {<<"shared", "shared">>}
             G3 == G2 \cup {<<"heap", "shared">>}
             G4 == G3 \cup {<<"signal", "exclusive">>}
  <1>0. /\ "mm" \in ForkedLock /\ "shared" \in ForkedLock /\ "heap" \in ForkedLock /\ "signal" \in ForkedLock
        /\ "process" \in ForkedLock /\ "shared" \in LockMode /\ "exclusive" \in LockMode
    BY DEF ForkedLock, LockMode
  <1>1. G1 \in SUBSET Held /\ InOrder(G1, "shared") /\ MayAsk(G1, "shared")
    BY <1>0, AskHigher, ForkRanks
  <1> HIDE DEF G1
  <1>2. G2 \in SUBSET Held /\ InOrder(G2, "heap") /\ MayAsk(G2, "heap")
    BY <1>0, <1>1, AskHigher, ForkRanks
  <1> HIDE DEF G2
  <1>3. G3 \in SUBSET Held /\ InOrder(G3, "signal") /\ MayAsk(G3, "signal")
    BY <1>0, <1>2, AskHigher, ForkRanks
  <1> HIDE DEF G3
  <1>4. G4 \in SUBSET Held /\ MayAsk(G4, "process") /\ Free(G4, "process")
    BY <1>0, <1>3, AskHigher, ForkRanks
  <1>5. Sits(G1, {}) /\ Sits(G2, {}) /\ Sits(G3, {}) /\ Sits(G4, {})
    BY <1>1, <1>2, <1>3, <1>4 DEF Sits, Guarded
  <1>6. /\ Leads(G1, {}, shared_fork_lock, G2, {})
        /\ Leads(G2, {}, heap_fork, G3, {})
        /\ Leads(G3, {}, signal_fork, G4, {})
    <2>1. Leads(G1, {}, shared_fork_lock, G2, {})
      BY <1>0, <1>1, <1>5, LeadsTake DEF shared_fork_lock, TakeShared, G2
    <2>2. Leads(G2, {}, heap_fork, G3, {})
      BY <1>0, <1>2, <1>5, LeadsTake DEF heap_fork, TakeShared, G3
    <2>3. Leads(G3, {}, signal_fork, G4, {})
      BY <1>0, <1>3, <1>5, LeadsTake DEF signal_fork, TakeExclusive, G4
    <2> QED BY <2>1, <2>2, <2>3
  <1>7. G = G4
    BY DEF G1, G2, G3
  <1> HIDE DEF G4
  <1>8. Leads(G4, {}, process_init_child, G4, {})
    <2>1. << >> \in Seq(Action) /\ Leads(With(G4, "process"), {}, << >>, With(G4, "process"), {})
      BY LeadsNothing
    <2> QED BY <1>4, <1>5, <2>1, LeadsWithin DEF process_init_child
  <1>9. ASSUME NEW c \in BOOLEAN, NEW k \in Seq(Action), Good(G4, {}, c, k)
        PROVE  Good(G1, {}, c, shared_fork_lock \o (heap_fork \o (signal_fork \o (process_init_child \o k))))
    <2>1. process_init_child \o k \in Seq(Action) /\ Good(G4, {}, c, process_init_child \o k)
      BY <1>8, <1>9, ForkPartsAre, ConcatProperties DEF Leads
    <2>2. /\ signal_fork \o (process_init_child \o k) \in Seq(Action)
          /\ Good(G3, {}, c, signal_fork \o (process_init_child \o k))
      BY <1>6, <2>1, ForkPartsAre, ConcatProperties DEF Leads
    <2>3. /\ heap_fork \o (signal_fork \o (process_init_child \o k)) \in Seq(Action)
          /\ Good(G2, {}, c, heap_fork \o (signal_fork \o (process_init_child \o k)))
      BY <1>6, <2>2, ForkPartsAre, ConcatProperties DEF Leads
    <2> QED BY <1>6, <2>3 DEF Leads
  <1> QED BY <1>4, <1>7, <1>9 DEF G1

(* Whatever may be done with all locks of fork held may be done after      *)
(* fork took them, whether the file has a descriptor or not.               *)
LEMMA GoodFork ==
  ASSUME NEW T \in Seq(Action),
         \A G \in SUBSET Held, c \in BOOLEAN : HasIn(G, {"heap"}) => Good(G, {}, c, T)
  PROVE  ForkUntilChild \in Seq(Action) /\ Good({}, {}, FALSE, ForkUntilChild \o T)
  <1> DEFINE R == shared_fork_lock \o (heap_fork \o (signal_fork \o (process_init_child \o T)))
             K == mm_fork \o R
             o == Act("shared if open", "file")
             F1 == {} \cup {<<"tls", "shared">>}
             F2 == F1 \cup {<<"vfs", "shared">>}
             F3 == F2 \cup {<<"file", "shared">>}
  <1>0. /\ "tls" \in ForkedLock /\ "vfs" \in ForkedLock /\ "file" \in ForkedLock /\ "mm" \in ForkedLock
        /\ "shared" \in LockMode
    BY DEF ForkedLock, LockMode
  <1>1. /\ process_init_child \o T \in Seq(Action)
        /\ signal_fork \o (process_init_child \o T) \in Seq(Action)
        /\ heap_fork \o (signal_fork \o (process_init_child \o T)) \in Seq(Action)
        /\ R \in Seq(Action) /\ K \in Seq(Action)
    <2>1. process_init_child \o T \in Seq(Action)
      BY ForkPartsAre, ConcatProperties
    <2>2. signal_fork \o (process_init_child \o T) \in Seq(Action)
      BY <2>1, ForkPartsAre, ConcatProperties
    <2>3. heap_fork \o (signal_fork \o (process_init_child \o T)) \in Seq(Action)
      BY <2>2, ForkPartsAre, ConcatProperties
    <2>4. R \in Seq(Action)
      BY <2>3, ForkPartsAre, ConcatProperties
    <2> HIDE DEF R
    <2>5. K \in Seq(Action)
      BY <2>4, ForkPartsAre, ConcatProperties
    <2> QED BY <2>1, <2>2, <2>3, <2>4, <2>5
  <1>2. ASSUME NEW H, NEW c \in BOOLEAN, Copies(H, c), InOrder(H, "mm")
        PROVE  Good(H, {}, c, K)
    <2> DEFINE G == H \cup {<<"mm", "shared">>} \cup {<<"shared", "shared">>} \cup {<<"heap", "shared">>}
                      \cup {<<"signal", "exclusive">>}
    <2>1. H \in SUBSET Held
      BY <1>2 DEF Copies, Sits
    <2>2. HasIn(G, {"heap"})
      <3>1. <<"heap", "shared">> \in G /\ <<"heap", "shared">>[1] = "heap"
        OBVIOUS
      <3> HIDE DEF G
      <3> QED BY <3>1 DEF HasIn
    <2>3. /\ G \in SUBSET Held
          /\ Good(G, {}, c, T) => Good(H \cup {<<"mm", "shared">>}, {}, c, R)
      BY <1>2, <2>1, LeadsAfterMm
    <2> HIDE DEF G
    <2>4. Good(H \cup {<<"mm", "shared">>}, {}, c, R)
      BY <2>2, <2>3
    <2> HIDE DEF R
    <2> QED BY <1>1, <1>2, <2>4, GoodMmFork
  <1> HIDE DEF R, K
  <1>3. InOrder({}, "tls") /\ MayAsk({}, "tls") /\ Sits({}, {}) /\ {} \in SUBSET Held
    BY <1>0, AskFirst
  <1>4. F1 \in SUBSET Held /\ InOrder(F1, "vfs") /\ MayAsk(F1, "vfs")
    BY <1>0, <1>3, AskHigher, ForkRanks
  <1>5. /\ F2 \in SUBSET Held /\ InOrder(F2, "file") /\ MayAsk(F2, "file")
        /\ InOrder(F2, "mm") /\ HasIn(F2, {"tls"}) /\ HasIn(F2, {"vfs"})
    <2>1. HasIn(F2, {"tls"}) /\ HasIn(F2, {"vfs"})
      <3>1. <<"tls", "shared">> \in F2 /\ <<"vfs", "shared">> \in F2
        OBVIOUS
      <3>2. <<"tls", "shared">>[1] = "tls" /\ <<"vfs", "shared">>[1] = "vfs"
        OBVIOUS
      <3> HIDE DEF F2
      <3> QED BY <3>1, <3>2 DEF HasIn
    <2> HIDE DEF F1
    <2> QED BY <1>0, <1>4, <2>1, AskHigher, ForkRanks
  <1>6. /\ F3 \in SUBSET Held /\ InOrder(F3, "mm")
        /\ HasIn(F3, {"tls"}) /\ HasIn(F3, {"vfs"}) /\ HasIn(F3, {"file"})
    <2>1. HasIn(F3, {"tls"}) /\ HasIn(F3, {"vfs"}) /\ HasIn(F3, {"file"})
      <3>1. <<"file", "shared">> \in F3 /\ <<"file", "shared">>[1] = "file"
        OBVIOUS
      <3>2. F2 \subseteq F3
        OBVIOUS
      <3> HIDE DEF F2, F3
      <3> QED BY <1>5, <3>1, <3>2 DEF HasIn
    <2> HIDE DEF F2
    <2> QED BY <1>0, <1>5, <2>1, AskHigher, ForkRanks
  <1> HIDE DEF F1, F2, F3
  <1>7. Sits(F1, {}) /\ Sits(F2, {}) /\ Sits(F3, {})
    BY <1>4, <1>5, <1>6 DEF Sits, Guarded
  <1>8. Good(F3, {}, FALSE, K) /\ Good(F2, {}, TRUE, K)
    BY <1>2, <1>5, <1>6, <1>7 DEF Copies
  <1>9. <<TakeShared("file")>> \o K \in Seq(Action) /\ Good(F2, {}, FALSE, <<TakeShared("file")>> \o K)
    <2>1. Leads(F2, {}, <<Act("shared", "file")>>, F3, {})
      BY <1>0, <1>5, <1>7, LeadsTake DEF F3
    <2>2. TakeShared("file") \in Action
      BY <1>0, StepsAre
    <2>3. <<TakeShared("file")>> \o K \in Seq(Action)
      BY <1>1, <2>2, FirstOf
    <2> QED BY <1>1, <1>8, <2>1, <2>3 DEF Leads, TakeShared
  <1>10. o \in Action /\ o.do = "shared if open"
    BY StepsAre DEF Act
  <1> HIDE DEF o
  <1>11. <<o>> \o K \in Seq(Action) /\ Good(F2, {}, FALSE, <<o>> \o K)
    <2>1. Permits(Safe, F2, {}, FALSE, o, K)
      BY <1>8, <1>9, <1>10 DEF Permits, LockMode, Good
    <2>2. Guarded(F2, {})
      BY DEF Guarded
    <2> QED BY <1>1, <1>5, <1>10, <2>1, <2>2, GoodStep, FirstOf
  <1>12. vfs_fork \o K \in Seq(Action) /\ Good(F1, {}, FALSE, vfs_fork \o K)
    <2>1. Leads(F1, {}, <<Act("shared", "vfs")>>, F2, {})
      BY <1>0, <1>4, <1>7, LeadsTake DEF F2
    <2>2. Good(F1, {}, FALSE, <<Act("shared", "vfs")>> \o (<<o>> \o K))
      BY <1>11, <2>1 DEF Leads
    <2>3. vfs_fork # << >> /\ Head(vfs_fork) = Act("shared", "vfs") /\ Tail(vfs_fork) = <<o>>
      <3>1. vfs_fork = <<Act("shared", "vfs"), o>>
        BY DEF vfs_fork, TakeShared, o
      <3> QED BY <3>1
    <2>4. vfs_fork \o K = <<Act("shared", "vfs")>> \o (<<o>> \o K)
      <3>1. vfs_fork \in Seq(Action) /\ K \in Seq(Action)
        BY <1>1, ForkPartsAre
      <3>2. vfs_fork \o K = <<Head(vfs_fork)>> \o (Tail(vfs_fork) \o K)
        BY <2>3, <3>1, SplitHead
      <3> QED BY <2>3, <3>2
    <2> QED BY <1>1, <2>2, <2>4, ForkPartsAre, ConcatProperties
  <1>13. Good({}, {}, FALSE, tls_fork \o (vfs_fork \o K))
    <2>1. Leads({}, {}, <<Act("shared", "tls")>>, F1, {})
      BY <1>0, <1>3, LeadsTake DEF F1
    <2> QED BY <1>12, <2>1 DEF Leads, tls_fork, TakeShared
  <1>14. ForkUntilChild \in Seq(Action) /\ ForkUntilChild \o T = tls_fork \o (vfs_fork \o K)
    <2> DEFINE A1 == tls_fork \o vfs_fork
               A2 == A1 \o mm_fork
               A3 == A2 \o shared_fork_lock
               A4 == A3 \o heap_fork
               A5 == A4 \o signal_fork
               A6 == A5 \o process_init_child
               R6 == process_init_child \o T
               R5 == signal_fork \o R6
               R4 == heap_fork \o R5
    <2>0. ForkUntilChild = A6
      BY DEF ForkUntilChild
    <2>1. R6 \in Seq(Action) /\ R5 \in Seq(Action) /\ R4 \in Seq(Action) /\ R = shared_fork_lock \o R4
      BY <1>1 DEF R
    <2>2. A1 \in Seq(Action) /\ A1 \o K = tls_fork \o (vfs_fork \o K)
      <3>1. tls_fork \in Seq(Action) /\ vfs_fork \in Seq(Action) /\ K \in Seq(Action)
        BY <1>1, ForkPartsAre
      <3> QED BY <3>1, Regroup
    <2> HIDE DEF A1
    <2>3. A2 \in Seq(Action) /\ A2 \o R = A1 \o K
      <3>1. A1 \in Seq(Action) /\ mm_fork \in Seq(Action) /\ R \in Seq(Action)
        BY <1>1, <2>2, ForkPartsAre, <2>1
      <3>2. K = mm_fork \o R
        BY <2>1 DEF K
      <3> HIDE DEF R4, R5, R6
      <3>3. A2 \in Seq(Action) /\ (A1 \o mm_fork) \o R = A1 \o (mm_fork \o R)
        BY <3>1, Regroup, SMTT(30)
      <3> QED BY <3>2, <3>3
    <2> HIDE DEF A2
    <2>4. A3 \in Seq(Action) /\ A3 \o R4 = A2 \o R
      <3>1. A2 \in Seq(Action) /\ shared_fork_lock \in Seq(Action) /\ R4 \in Seq(Action)
        BY <1>1, <2>3, ForkPartsAre, <2>1
      <3>2. R = shared_fork_lock \o R4
        BY <2>1
      <3> HIDE DEF R, R4, R5, R6
      <3>3. A3 \in Seq(Action) /\ (A2 \o shared_fork_lock) \o R4 = A2 \o (shared_fork_lock \o R4)
        BY <3>1, Regroup, SMTT(30)
      <3> QED BY <3>2, <3>3
    <2> HIDE DEF A3
    <2>5. A4 \in Seq(Action) /\ A4 \o R5 = A3 \o R4
      <3>1. A3 \in Seq(Action) /\ heap_fork \in Seq(Action) /\ R5 \in Seq(Action)
        BY <1>1, <2>4, ForkPartsAre, <2>1
      <3>2. R4 = heap_fork \o R5
        BY <2>1 DEF K
      <3> HIDE DEF R4, R5, R6
      <3>3. A4 \in Seq(Action) /\ (A3 \o heap_fork) \o R5 = A3 \o (heap_fork \o R5)
        BY <3>1, Regroup, SMTT(30)
      <3> QED BY <3>2, <3>3
    <2> HIDE DEF A4
    <2>6. A5 \in Seq(Action) /\ A5 \o R6 = A4 \o R5
      <3>1. A4 \in Seq(Action) /\ signal_fork \in Seq(Action) /\ R6 \in Seq(Action)
        BY <1>1, <2>5, ForkPartsAre, <2>1
      <3>2. R5 = signal_fork \o R6
        BY <2>1 DEF K
      <3> HIDE DEF R4, R5, R6
      <3>3. A5 \in Seq(Action) /\ (A4 \o signal_fork) \o R6 = A4 \o (signal_fork \o R6)
        BY <3>1, Regroup, SMTT(30)
      <3> QED BY <3>2, <3>3
    <2> HIDE DEF A5
    <2>7. A6 \in Seq(Action) /\ A6 \o T = A5 \o R6
      <3>1. A5 \in Seq(Action) /\ process_init_child \in Seq(Action) /\ T \in Seq(Action)
        BY <1>1, <2>6, ForkPartsAre, <2>1
      <3>2. R6 = process_init_child \o T
        BY <2>1 DEF K
      <3> HIDE DEF R4, R5, R6
      <3>3. A6 \in Seq(Action) /\ (A5 \o process_init_child) \o T = A5 \o (process_init_child \o T)
        BY <3>1, Regroup, SMTT(30)
      <3> QED BY <3>2, <3>3
    <2> HIDE DEF A6
    <2> HIDE DEF R4, R5, R6
    <2> QED BY <2>0, <2>2, <2>3, <2>4, <2>5, <2>6, <2>7
  <1> QED BY <1>13, <1>14

(* Every call is safe from its start.                                      *)
LEMMA CallsGood ==
  ASSUME NEW c \in ForkedCall
  PROVE  ProgramOf(c) \in Seq(Action) /\ Good({}, {}, FALSE, ProgramOf(c))
  <1>1. ASSUME NEW P \in Seq(Action), Leads({}, {}, P, {}, {})
        PROVE  Good({}, {}, FALSE, P)
    <2>1. Good({}, {}, FALSE, << >>)
      BY GoodEnd DEF Guarded
    <2>2. << >> \in Seq(Action) /\ P \o << >> = P
      BY ConcatEmptySeq
    <2> QED BY <1>1, <2>1, <2>2 DEF Leads
  <1>2. fork_process \in Seq(Action) /\ Good({}, {}, FALSE, fork_process)
    <2>1. \A G \in SUBSET Held, b \in BOOLEAN : HasIn(G, {"heap"}) => Good(G, {}, b, afterfork_parent)
      BY AfterforkReleased DEF Released
    <2>2. ForkUntilChild \in Seq(Action) /\ Good({}, {}, FALSE, ForkUntilChild \o afterfork_parent)
      BY <2>1, AfterforkReleased, GoodFork
    <2> QED BY <2>2, AfterforkReleased, ConcatProperties DEF fork_process
  <1>3. fork_process_parent_settid \in Seq(Action) /\ Good({}, {}, FALSE, fork_process_parent_settid)
    <2> DEFINE T == <<Touch>> \o afterfork_parent
    <2>1. Touch \in Action /\ <<Touch>> \in Seq(Action)
      BY StepsAre, LeadsCalls
    <2>2. T \in Seq(Action)
      BY <2>1, AfterforkReleased, FirstOf
    <2>3. \A G \in SUBSET Held, b \in BOOLEAN : HasIn(G, {"heap"}) => Good(G, {}, b, T)
      BY TouchReleased
    <2> HIDE DEF T
    <2>4. ForkUntilChild \in Seq(Action) /\ Good({}, {}, FALSE, ForkUntilChild \o T)
      BY <2>2, <2>3, GoodFork
    <2>5. ForkUntilChild \o <<Touch>> \o afterfork_parent = ForkUntilChild \o T
      BY <2>1, <2>4, AfterforkReleased, ConcatAssociative DEF T
    <2>6. ForkUntilChild \o T \in Seq(Action)
      BY <2>2, <2>4, ConcatProperties
    <2> QED BY <2>4, <2>5, <2>6 DEF fork_process_parent_settid
  <1>4. CASE c \in {"fork", "clone"}
    BY <1>2, <1>3, <1>4 DEF ProgramOf
  <1>5. CASE c \in {"kmalloc", "kmalloc block", "munmap", "load", "maps"}
    <2>1. kmalloc_kfree \in Seq(Action) /\ Leads({}, {}, kmalloc_kfree, {}, {})
      <3>1. InOrder({}, "heap") /\ Sits({}, {})
        BY AskFirst DEF ForkedLock
      <3> QED BY <3>1, LeadsKmalloc
    <2> QED BY <1>1, <1>5, <2>1, LeadsKmallocBlock, LeadsMemory DEF ProgramOf
  <1>6. CASE c \in {"close", "dup2", "read", "ioctl"}
    BY <1>1, <1>6, LeadsFiles, LeadsCalls DEF ProgramOf
  <1>7. CASE c \in {"fault", "deliver", "wait4", "kmalloc_shared", "set_thread_area", "sigaction"}
    BY <1>1, <1>7, LeadsCalls, LeadsTouching DEF ProgramOf
  <1> QED BY <1>4, <1>5, <1>6, <1>7 DEF ForkedCall
-----------------------------------------------------------------------------
(* The invariant. *)

ForkTypeOK ==
  /\ task \in [Runner -> ForkedCall]
  /\ step \in [Runner -> Seq(Action)]
  /\ holds \in [ForkedLock -> SUBSET (Runner \X LockMode)]
  /\ waiting \in [ForkedLock -> Seq(Runner \X LockMode)]
  /\ cow \in BOOLEAN /\ open \in BOOLEAN
  /\ updating \in [Runner -> SUBSET Subject]
  /\ partial \subseteq ForkedLock /\ shut \subseteq ForkedLock

HeldBy(t) == {h \in Held : <<t, h[2]>> \in holds[h[1]]}
OnCourse(t) == \E c \in BOOLEAN : (c => ~open) /\ Good(HeldBy(t), updating[t], c, step[t])
Modes == \A l \in ForkedLock : \A g, h \in holds[l] : g[1] # h[1] => g[2] = "shared" /\ h[2] = "shared"
Asks(s, w, l) == s[w[1]] # << >> /\ Head(s[w[1]]) = Act(w[2], l)
InQueue(s, q, l) ==
  /\ \A i \in DOMAIN q : Asks(s, q[i], l)
  /\ \A i, j \in DOMAIN q : q[i][1] = q[j][1] => i = j
Queued == \A l \in ForkedLock : InQueue(step, waiting[l], l)

ForkInv ==
  /\ ForkTypeOK
  /\ \A t \in Runner : OnCourse(t)
  /\ Modes
  /\ Queued
  /\ ChildWhole

(* The initial states.                                                     *)
LEMMA ForkInitInv == ForkInit => ForkInv
  <1> SUFFICES ASSUME ForkInit PROVE ForkInv
    OBVIOUS
  <1>1. task \in [Runner -> ForkedCall]
    BY ProgramsAssumption DEF ForkInit
  <1>2. ForkTypeOK
    <2>1. step \in [Runner -> Seq(Action)]
      BY <1>1, CallsGood DEF ForkInit
    <2>2. << >> \in Seq(Runner \X LockMode)
      OBVIOUS
    <2> QED BY <1>1, <2>1, <2>2 DEF ForkInit, ForkTypeOK
  <1>3. ASSUME NEW t \in Runner PROVE OnCourse(t)
    <2>1. HeldBy(t) = {}
      BY DEF HeldBy, ForkInit, Held
    <2>2. Good({}, {}, FALSE, step[t])
      BY <1>1, CallsGood DEF ForkInit
    <2> QED BY <2>1, <2>2 DEF OnCourse, ForkInit
  <1>4. Modes /\ Queued /\ ChildWhole
    BY DEF ForkInit, Modes, Queued, InQueue, ChildWhole
  <1> QED BY <1>2, <1>3, <1>4 DEF ForkInv

(* What the next step of a thread may be.                                  *)
LEMMA NextStep ==
  ASSUME ForkInv, NEW t \in Runner, step[t] # << >>
  PROVE  /\ HeldBy(t) \in SUBSET Held /\ updating[t] \in SUBSET Subject
         /\ Head(step[t]) \in Action /\ Tail(step[t]) \in Seq(Action)
         /\ \E c \in BOOLEAN : /\ c => ~open
                               /\ Permits(Safe, HeldBy(t), updating[t], c, Head(step[t]), Tail(step[t]))
  <1>1. PICK c \in BOOLEAN : (c => ~open) /\ Good(HeldBy(t), updating[t], c, step[t])
    BY DEF ForkInv, OnCourse
  <1>2. Permits(Safe, HeldBy(t), updating[t], c, Head(step[t]), Tail(step[t]))
    BY <1>1, GoodIs
  <1>3. HeldBy(t) \in SUBSET Held /\ updating[t] \in SUBSET Subject /\ step[t] \in Seq(Action)
    BY <1>1, GoodIs
  <1> QED BY <1>1, <1>2, <1>3, HeadTailProperties

(* A step of one thread, that is not waiting, leaves the queues as they    *)
(* should be.                                                              *)
LEMMA QueuedKept ==
  ASSUME ForkInv, NEW t \in Runner, ~Blocked(t), UNCHANGED waiting,
         \A u \in Runner \ {t} : step'[u] = step[u]
  PROVE  Queued'
  <1> SUFFICES ASSUME NEW l \in ForkedLock, NEW i \in DOMAIN waiting[l]
               PROVE  Asks(step', waiting[l][i], l)
    BY DEF ForkInv, Queued, InQueue
  <1>1. waiting[l][i] \in Runner \X LockMode
    BY DEF ForkInv, ForkTypeOK
  <1>2. waiting[l][i][1] \in Runner \ {t}
    BY <1>1 DEF Blocked, Waits
  <1>3. Asks(step, waiting[l][i], l)
    BY DEF ForkInv, Queued, InQueue
  <1> QED BY <1>2, <1>3 DEF Asks

(* Nor does it lead the others off their course.                           *)
LEMMA CourseKept ==
  ASSUME ForkInv, NEW t \in Runner,
         \A u \in Runner \ {t} : /\ HeldBy(u)' = HeldBy(u) /\ updating'[u] = updating[u]
                                 /\ step'[u] = step[u],
         open' => open, OnCourse(t)'
  PROVE  \A u \in Runner : OnCourse(u)'
  <1> SUFFICES ASSUME NEW u \in Runner \ {t} PROVE OnCourse(u)'
    OBVIOUS
  <1>1. OnCourse(u)
    BY DEF ForkInv
  <1> QED BY <1>1 DEF OnCourse

(* What is held is unchanged when the locks are.                           *)
LEMMA HeldByKept ==
  ASSUME UNCHANGED holds
  PROVE  \A u \in Runner : HeldBy(u)' = HeldBy(u)
  BY DEF HeldBy

(* A thread that is granted a lock.                                        *)
Granted(t, m, l) ==
  /\ holds' = [holds EXCEPT ![l] = @ \cup {<<t, m>>}]
  /\ step' = [step EXCEPT ![t] = Tail(@)]
  /\ UNCHANGED <<task, cow, open, updating, partial, shut>>

(* It has it, the others have what they had, and it shares it with those   *)
(* that share it.                                                          *)
LEMMA GrantedKeeps ==
  ASSUME ForkInv, NEW t \in Runner, NEW l \in ForkedLock, NEW m \in LockMode,
         step[t] # << >>, Head(step[t]) = Act(m, l), Fits(l, m), Granted(t, m, l)
  PROVE  (\A u \in Runner : OnCourse(u)') /\ Modes' /\ ChildWhole'
         /\ holds' \in [ForkedLock -> SUBSET (Runner \X LockMode)]
         /\ step' \in [Runner -> Seq(Action)]
  <1>1. holds \in [ForkedLock -> SUBSET (Runner \X LockMode)] /\ step \in [Runner -> Seq(Action)]
    BY DEF ForkInv, ForkTypeOK
  <1>2. holds' \in [ForkedLock -> SUBSET (Runner \X LockMode)]
    BY <1>1 DEF Granted
  <1>3. PICK c \in BOOLEAN : /\ c => ~open
                             /\ Permits(Safe, HeldBy(t), updating[t], c, Head(step[t]), Tail(step[t]))
    BY NextStep
  <1>4. Tail(step[t]) \in Seq(Action)
    BY NextStep
  <1>5. step' \in [Runner -> Seq(Action)] /\ step'[t] = Tail(step[t])
        /\ \A u \in Runner \ {t} : step'[u] = step[u]
    BY <1>1, <1>4 DEF Granted
  <1>6. Act(m, l).do = m /\ Act(m, l).on = l
    BY DEF Act
  <1>7. Good(HeldBy(t) \cup {<<l, m>>}, updating[t], c, Tail(step[t]))
    BY <1>3, <1>6 DEF Permits, Good
  <1>8. HeldBy(t)' = HeldBy(t) \cup {<<l, m>>}
    <2>1. \A h \in Held : <<t, h[2]>> \in holds'[h[1]] <=> <<t, h[2]>> \in holds[h[1]] \/ h = <<l, m>>
      BY <1>1 DEF Granted, Held
    <2>2. <<l, m>> \in Held
      BY DEF Held
    <2> QED BY <2>1, <2>2 DEF HeldBy
  <1>9. ASSUME NEW u \in Runner \ {t} PROVE HeldBy(u)' = HeldBy(u)
    <2>1. \A h \in Held : <<u, h[2]>> \in holds'[h[1]] <=> <<u, h[2]>> \in holds[h[1]]
      BY <1>1, <1>9 DEF Granted, Held
    <2> QED BY <2>1 DEF HeldBy
  <1>10. updating' = updating /\ open' = open
    BY DEF Granted
  <1>11. OnCourse(t)'
    BY <1>3, <1>5, <1>7, <1>8, <1>10 DEF OnCourse
  <1>12. \A u \in Runner : OnCourse(u)'
    BY <1>5, <1>9, <1>10, <1>11, CourseKept
  <1>13. Modes'
    <2> SUFFICES ASSUME NEW k \in ForkedLock, NEW g \in holds'[k], NEW h \in holds'[k], g[1] # h[1]
                 PROVE  g[2] = "shared" /\ h[2] = "shared"
      BY DEF Modes
    <2>1. CASE k # l
      <3>1. holds'[k] = holds[k]
        BY <1>1, <2>1 DEF Granted
      <3> QED BY <3>1 DEF ForkInv, Modes
    <2>2. CASE k = l
      <3>1. holds'[l] = holds[l] \cup {<<t, m>>}
        BY <1>1 DEF Granted
      <3>2. CASE g \in holds[l] /\ h \in holds[l]
        BY <3>2 DEF ForkInv, Modes
      <3>3. CASE g = <<t, m>> \/ h = <<t, m>>
        <4>1. holds[l] # {}
          BY <2>2, <3>1, <3>3
        <4> QED BY <2>2, <3>1, <3>3, <4>1 DEF Fits
      <3> QED BY <2>2, <3>1, <3>2, <3>3
    <2> QED BY <2>1, <2>2
  <1>14. ChildWhole'
    BY DEF ForkInv, ChildWhole, Granted
  <1> QED BY <1>2, <1>5, <1>12, <1>13, <1>14

(* Acquire: a lock granted at once, or a place at the end of the queue.    *)
LEMMA AcquireInv ==
  ASSUME ForkInv, NEW t \in Runner, Acquire(t)
  PROVE  ForkInv'
  <1> DEFINE l == Head(step[t]).on
             m == Head(step[t]).do
  <1>1. step[t] # << >> /\ m \in LockMode /\ ~Blocked(t)
    BY DEF Acquire, Faces, LockMode
  <1>2. l \in ForkedLock /\ Head(step[t]) \in Action
    BY <1>1, NextStep DEF Permits, MayAsk
  <1>3. Head(step[t]) = Act(m, l)
    BY <1>2 DEF Action, Act
  <1>4. CASE Fits(l, m) /\ (waiting[l] = << >> \/ holds[l] = {})
    <2>1. Granted(t, m, l) /\ UNCHANGED waiting
      BY <1>4 DEF Acquire, Granted
    <2> HIDE DEF l, m
    <2>2. /\ (\A u \in Runner : OnCourse(u)') /\ Modes' /\ ChildWhole'
          /\ holds' \in [ForkedLock -> SUBSET (Runner \X LockMode)]
          /\ step' \in [Runner -> Seq(Action)]
      BY <1>1, <1>2, <1>3, <1>4, <2>1, GrantedKeeps
    <2>3. \A u \in Runner \ {t} : step'[u] = step[u]
      BY <2>1 DEF Granted, ForkInv, ForkTypeOK
    <2>4. Queued'
      BY <1>1, <2>1, <2>3, QueuedKept
    <2>5. ForkTypeOK'
      BY <2>1, <2>2 DEF ForkInv, ForkTypeOK, Granted
    <2> QED BY <2>2, <2>4, <2>5 DEF ForkInv
  <1>5. CASE ~(Fits(l, m) /\ (waiting[l] = << >> \/ holds[l] = {}))
    <2>1. /\ waiting' = [waiting EXCEPT ![l] = Append(@, <<t, m>>)]
          /\ UNCHANGED <<task, step, holds, cow, open, updating, partial, shut>>
      BY <1>5 DEF Acquire
    <2> HIDE DEF l, m
    <2>2. waiting \in [ForkedLock -> Seq(Runner \X LockMode)]
      BY DEF ForkInv, ForkTypeOK
    <2>3. /\ waiting' \in [ForkedLock -> Seq(Runner \X LockMode)]
          /\ waiting'[l] = Append(waiting[l], <<t, m>>)
          /\ \A k \in ForkedLock \ {l} : waiting'[k] = waiting[k]
      BY <1>1, <1>2, <2>1, <2>2
    <2>4. ForkTypeOK'
      BY <2>1, <2>3 DEF ForkInv, ForkTypeOK
    <2>5. Queued'
      <3> SUFFICES ASSUME NEW k \in ForkedLock PROVE InQueue(step, waiting'[k], k)
        BY <2>1 DEF Queued
      <3>1. InQueue(step, waiting[k], k)
        BY DEF ForkInv, Queued
      <3>2. CASE k # l
        BY <2>3, <3>1, <3>2
      <3>3. CASE k = l
        <4> DEFINE q == waiting[l]
                   q2 == Append(q, <<t, m>>)
        <4>1. q \in Seq(Runner \X LockMode) /\ <<t, m>> \in Runner \X LockMode
          BY <1>1, <1>2, <2>2
        <4>2. /\ Len(q2) = Len(q) + 1 /\ DOMAIN q2 = 1 .. Len(q) + 1 /\ DOMAIN q = 1 .. Len(q)
              /\ Len(q) \in Nat
              /\ \A i \in 1 .. Len(q) : q2[i] = q[i]
              /\ q2[Len(q) + 1] = <<t, m>>
          BY <4>1
        <4>3. \A i \in 1 .. Len(q) : q[i][1] # t /\ Asks(step, q[i], l)
          BY <1>1, <1>2, <3>1, <3>3, <4>2 DEF Blocked, Waits, InQueue
        <4>4. \A i, j \in 1 .. Len(q) : q[i][1] = q[j][1] => i = j
          BY <3>1, <3>3, <4>2 DEF InQueue
        <4>5. Asks(step, <<t, m>>, l)
          BY <1>1, <1>3 DEF Asks
        <4>6. waiting'[k] = q2
          BY <2>3, <3>3
        <4> HIDE DEF q, q2
        <4>7. ASSUME NEW i \in DOMAIN q2 PROVE Asks(step, q2[i], l)
          BY <4>2, <4>3, <4>5
        <4>8. ASSUME NEW i \in DOMAIN q2, NEW j \in DOMAIN q2, q2[i][1] = q2[j][1] PROVE i = j
          BY <4>2, <4>3, <4>4, <4>8
        <4>9. InQueue(step, q2, l)
          BY <4>7, <4>8 DEF InQueue
        <4> QED BY <3>3, <4>6, <4>9
      <3> QED BY <3>2, <3>3
    <2>6. \A u \in Runner : OnCourse(u)'
      <3>1. \A u \in Runner : HeldBy(u)' = HeldBy(u)
        BY <2>1, HeldByKept
      <3> QED BY <2>1, <3>1 DEF OnCourse, ForkInv
    <2>7. Modes' /\ ChildWhole'
      BY <2>1 DEF ForkInv, Modes, ChildWhole
    <2> QED BY <2>4, <2>5, <2>6, <2>7 DEF ForkInv
  <1> QED BY <1>4, <1>5

(* Grant: the first of a queue.                                            *)
LEMMA GrantInv ==
  ASSUME ForkInv, NEW l \in ForkedLock, Grant(l)
  PROVE  ForkInv'
  <1> DEFINE q == waiting[l]
             w == Head(q)
             t == w[1]
             m == w[2]
  <1>1. waiting \in [ForkedLock -> Seq(Runner \X LockMode)] /\ q \in Seq(Runner \X LockMode) /\ q # << >>
    BY DEF ForkInv, ForkTypeOK, Grant
  <1>2. /\ Head(q) = q[1] /\ 1 \in DOMAIN q /\ Tail(q) \in Seq(Runner \X LockMode)
        /\ DOMAIN q = 1 .. Len(q) /\ DOMAIN Tail(q) = 1 .. Len(q) - 1 /\ Len(q) \in Nat
        /\ \A i \in 1 .. Len(q) - 1 : Tail(q)[i] = q[i + 1]
        /\ w \in Runner \X LockMode
    <2> HIDE DEF q
    <2> QED BY <1>1, HeadTailProperties
  <1>3. t \in Runner /\ m \in LockMode /\ w = <<t, m>>
    BY <1>2
  <1>4. step[t] # << >> /\ Head(step[t]) = Act(m, l)
    BY <1>2 DEF ForkInv, Queued, InQueue, Asks
  <1>5. Granted(t, m, l) /\ Fits(l, m) /\ waiting' = [waiting EXCEPT ![l] = Tail(@)]
    BY <1>3 DEF Grant, Granted
  <1>6. /\ (\A u \in Runner : OnCourse(u)') /\ Modes' /\ ChildWhole'
        /\ holds' \in [ForkedLock -> SUBSET (Runner \X LockMode)]
        /\ step' \in [Runner -> Seq(Action)]
    <2> HIDE DEF t, m
    <2> QED BY <1>3, <1>4, <1>5, GrantedKeeps
  <1>7. /\ waiting' \in [ForkedLock -> Seq(Runner \X LockMode)] /\ waiting'[l] = Tail(q)
        /\ \A k \in ForkedLock \ {l} : waiting'[k] = waiting[k]
    BY <1>1, <1>2, <1>5
  <1>8. ForkTypeOK'
    BY <1>5, <1>6, <1>7 DEF ForkInv, ForkTypeOK, Granted
  <1>9. \A u \in Runner \ {t} : step'[u] = step[u]
    BY <1>5 DEF Granted, ForkInv, ForkTypeOK
  <1>10. Queued'
    <2> SUFFICES ASSUME NEW k \in ForkedLock PROVE InQueue(step', waiting'[k], k)
      BY DEF Queued
    <2>0. InQueue(step, waiting[k], k)
      BY DEF ForkInv, Queued
    <2>1. ASSUME NEW v, v[1] \in Runner \ {t}, Asks(step, v, k) PROVE Asks(step', v, k)
      BY <1>9, <2>1 DEF Asks
    <2>2. CASE k # l
      <3>1. waiting'[k] = waiting[k]
        BY <1>7, <2>2
      <3>2. ASSUME NEW i \in DOMAIN waiting[k] PROVE waiting[k][i][1] \in Runner \ {t}
        <4>1. waiting[k][i] \in Runner \X LockMode
          BY <1>1
        <4>2. Asks(step, waiting[k][i], k)
          BY <2>0 DEF InQueue
        <4>3. ASSUME waiting[k][i][1] = t PROVE FALSE
          <5>1. Act(waiting[k][i][2], k) = Act(m, l)
            BY <1>4, <4>2, <4>3 DEF Asks
          <5> HIDE DEF m
          <5> QED BY <2>2, <5>1 DEF Act
        <4> QED BY <4>1, <4>3
      <3>3. \A i \in DOMAIN waiting[k] : Asks(step', waiting[k][i], k)
        <4> HIDE DEF t
        <4> QED BY <2>0, <2>1, <3>2 DEF InQueue
      <3> QED BY <2>0, <3>1, <3>3 DEF InQueue
    <2>3. CASE k = l
      <3>1. waiting'[k] = Tail(q)
        BY <1>7, <2>3
      <3>2. /\ \A i \in DOMAIN q : Asks(step, q[i], l) /\ q[i] \in Runner \X LockMode
            /\ \A i, j \in DOMAIN q : q[i][1] = q[j][1] => i = j
        BY <1>1, <2>0, <2>3 DEF InQueue
      <3>3. t = q[1][1]
        BY <1>2
      <3> HIDE DEF t, w, q
      <3>4. ASSUME NEW i \in 1 .. Len(q) - 1
            PROVE  Tail(q)[i] = q[i + 1] /\ i + 1 \in DOMAIN q /\ i + 1 # 1
        BY <1>2
      <3>5. ASSUME NEW i \in 1 .. Len(q) - 1
            PROVE  Asks(step, Tail(q)[i], l) /\ Tail(q)[i][1] \in Runner \ {t}
        <4>1. Asks(step, q[i + 1], l) /\ q[i + 1] \in Runner \X LockMode /\ q[i + 1][1] # q[1][1]
          BY <1>2, <3>2, <3>4
        <4> QED BY <3>3, <3>4, <4>1
      <3>6. ASSUME NEW i \in 1 .. Len(q) - 1, NEW j \in 1 .. Len(q) - 1, Tail(q)[i][1] = Tail(q)[j][1]
            PROVE  i = j
        <4>1. i + 1 = j + 1
          BY <3>2, <3>4, <3>6
        <4> QED BY <4>1
      <3>7. \A i \in 1 .. Len(q) - 1 : Asks(step', Tail(q)[i], l)
        BY <2>1, <2>3, <3>5
      <3> DEFINE r == Tail(q)
      <3>8. DOMAIN r = 1 .. Len(q) - 1 /\ waiting'[k] = r
        BY <1>2, <3>1
      <3>9. \A i \in DOMAIN r : Asks(step', r[i], l)
        BY <3>7, <3>8
      <3>10. \A i, j \in DOMAIN r : r[i][1] = r[j][1] => i = j
        BY <3>6, <3>8
      <3> HIDE DEF r
      <3>11. InQueue(step', r, l)
        BY <3>9, <3>10 DEF InQueue
      <3> QED BY <2>3, <3>8, <3>11
    <2> QED BY <2>2, <2>3
  <1> QED BY <1>6, <1>8, <1>10 DEF ForkInv
(* A step of one thread that is not waiting keeps the invariant, if it     *)
(* keeps to its course.                                                    *)
LEMMA AlongInv ==
  ASSUME ForkInv, NEW t \in Runner, ~Blocked(t), UNCHANGED <<task, waiting>>,
         NEW s \in Seq(Action), step' = [step EXCEPT ![t] = s],
         NEW U \in SUBSET Subject, updating' = [updating EXCEPT ![t] = U],
         holds' \in [ForkedLock -> SUBSET (Runner \X LockMode)],
         \A u \in Runner \ {t} : HeldBy(u)' = HeldBy(u),
         cow' \in BOOLEAN, open' \in BOOLEAN, open' => open,
         NEW c \in BOOLEAN, c => ~open', Good(HeldBy(t)', U, c, s),
         Modes', ChildWhole', partial' \subseteq ForkedLock, shut' \subseteq ForkedLock
  PROVE  ForkInv'
  <1>1. step \in [Runner -> Seq(Action)] /\ updating \in [Runner -> SUBSET Subject]
    BY DEF ForkInv, ForkTypeOK
  <1>2. /\ step' \in [Runner -> Seq(Action)] /\ step'[t] = s
        /\ \A u \in Runner \ {t} : step'[u] = step[u]
    BY <1>1
  <1>3. /\ updating' \in [Runner -> SUBSET Subject] /\ updating'[t] = U
        /\ \A u \in Runner \ {t} : updating'[u] = updating[u]
    BY <1>1
  <1>4. OnCourse(t)'
    BY <1>2, <1>3 DEF OnCourse
  <1>5. \A u \in Runner : OnCourse(u)'
    BY <1>2, <1>3, <1>4, CourseKept
  <1>6. Queued'
    BY <1>2, QueuedKept
  <1>7. ForkTypeOK'
    BY <1>2, <1>3 DEF ForkInv, ForkTypeOK
  <1> QED BY <1>5, <1>6, <1>7 DEF ForkInv

(* What follows from the state that an action leaves alone.                *)
LEMMA RestIs ==
  ASSUME ForkInv
  PROVE  /\ holds \in [ForkedLock -> SUBSET (Runner \X LockMode)] /\ cow \in BOOLEAN /\ open \in BOOLEAN
         /\ step \in [Runner -> Seq(Action)] /\ updating \in [Runner -> SUBSET Subject]
         /\ partial \subseteq ForkedLock /\ shut \subseteq ForkedLock /\ Modes /\ ChildWhole
         /\ \A t \in Runner : updating = [updating EXCEPT ![t] = updating[t]]
  BY DEF ForkInv, ForkTypeOK

(* GiveBack.                                                               *)
LEMMA GiveBackInv ==
  ASSUME ForkInv, NEW t \in Runner, GiveBack(t)
  PROVE  ForkInv'
  <1> DEFINE l == Head(step[t]).on
             H == Without(HeldBy(t), l)
  <1>1. step[t] # << >> /\ Head(step[t]).do = "release" /\ ~Blocked(t)
    BY DEF GiveBack, Faces
  <1>2. PICK c \in BOOLEAN : /\ c => ~open
                             /\ Permits(Safe, HeldBy(t), updating[t], c, Head(step[t]), Tail(step[t]))
    BY <1>1, NextStep
  <1>3. l \in ForkedLock /\ Good(H, updating[t], c, Tail(step[t]))
    BY <1>1, <1>2 DEF Permits, Good
  <1>4. Tail(step[t]) \in Seq(Action) /\ updating[t] \in SUBSET Subject
    BY <1>1, NextStep
  <1>5. /\ holds' = [holds EXCEPT ![l] = {h \in @ : h[1] # t}]
        /\ step' = [step EXCEPT ![t] = Tail(@)]
        /\ UNCHANGED <<task, waiting, cow, open, updating, partial, shut>>
    BY DEF GiveBack, Advance
  <1>6. /\ holds' \in [ForkedLock -> SUBSET (Runner \X LockMode)]
        /\ holds'[l] = {h \in holds[l] : h[1] # t}
        /\ \A k \in ForkedLock \ {l} : holds'[k] = holds[k]
    BY <1>3, <1>5, RestIs
  <1>7. HeldBy(t)' = H
    <2> HIDE DEF l
    <2>1. \A h \in Held : <<t, h[2]>> \in holds'[h[1]] <=> <<t, h[2]>> \in holds[h[1]] /\ h[1] # l
      BY <1>3, <1>6 DEF Held
    <2> QED BY <2>1 DEF HeldBy, Without
  <1>8. ASSUME NEW u \in Runner \ {t} PROVE HeldBy(u)' = HeldBy(u)
    <2> HIDE DEF l
    <2>1. \A h \in Held : <<u, h[2]>> \in holds'[h[1]] <=> <<u, h[2]>> \in holds[h[1]]
      BY <1>3, <1>6, <1>8 DEF Held
    <2> QED BY <2>1 DEF HeldBy
  <1>9. Modes'
    <2>1. \A k \in ForkedLock : holds'[k] \subseteq holds[k]
      BY <1>6
    <2> QED BY <2>1, RestIs DEF Modes
  <1>10. ChildWhole'
    BY <1>5, RestIs DEF ChildWhole
  <1>11. step' = [step EXCEPT ![t] = Tail(step[t])] /\ updating' = [updating EXCEPT ![t] = updating[t]]
    BY <1>5, RestIs
  <1>12. UNCHANGED <<task, waiting>> /\ cow' \in BOOLEAN /\ open' \in BOOLEAN /\ (open' => open)
         /\ (c => ~open') /\ partial' \subseteq ForkedLock /\ shut' \subseteq ForkedLock
    BY <1>2, <1>5, RestIs
  <1> HIDE DEF H
  <1>13. Good(HeldBy(t)', updating[t], c, Tail(step[t]))
    BY <1>3, <1>7
  <1> QED BY <1>1, <1>4, <1>6, <1>8, <1>9, <1>10, <1>11, <1>12, <1>13, AlongInv

(* Steps that leave the locks, and the child, alone.                       *)
LEMMA QuietInv ==
  ASSUME ForkInv, NEW t \in Runner, ~Blocked(t), UNCHANGED <<task, waiting, holds, partial, shut>>,
         NEW s, step' = [step EXCEPT ![t] = s],
         NEW U, updating' = [updating EXCEPT ![t] = U],
         cow' \in BOOLEAN, open' \in BOOLEAN, open' => open,
         NEW c \in BOOLEAN, c => ~open', Good(HeldBy(t), U, c, s)
  PROVE  ForkInv'
  <1>1. \A u \in Runner : HeldBy(u)' = HeldBy(u)
    BY HeldByKept
  <1>2. s \in Seq(Action) /\ U \in SUBSET Subject
    BY GoodIs
  <1>3. Modes' /\ ChildWhole' /\ holds' \in [ForkedLock -> SUBSET (Runner \X LockMode)]
        /\ partial' \subseteq ForkedLock /\ shut' \subseteq ForkedLock
    BY RestIs DEF Modes, ChildWhole
  <1>4. Good(HeldBy(t)', U, c, s)
    BY <1>1
  <1> QED BY <1>1, <1>2, <1>3, <1>4, AlongInv

(* EachFile.                                                               *)
LEMMA EachFileInv ==
  ASSUME ForkInv, NEW t \in Runner, EachFile(t)
  PROVE  ForkInv'
  <1> DEFINE a == Head(step[t])
             r == Tail(step[t])
  <1>1. step[t] # << >> /\ a.do \in {"shared if open", "release if open"} /\ ~Blocked(t)
    BY DEF EachFile, Faces
  <1>2. PICK c \in BOOLEAN : (c => ~open) /\ Permits(Safe, HeldBy(t), updating[t], c, a, r)
    BY <1>1, NextStep
  <1>3. /\ UNCHANGED <<task, waiting, holds, partial, shut>> /\ cow' = cow /\ open' = open
        /\ updating' = [updating EXCEPT ![t] = updating[t]]
        /\ cow' \in BOOLEAN /\ open' \in BOOLEAN
    BY RestIs DEF EachFile
  <1>4. CASE ~open
    <2>1. step' = [step EXCEPT ![t] = r]
      BY <1>4 DEF EachFile
    <2>2. \E d \in BOOLEAN : Good(HeldBy(t), updating[t], d, r)
      BY <1>1, <1>2 DEF Permits, Good
    <2>3. PICK d \in BOOLEAN : Good(HeldBy(t), updating[t], d, r)
      BY <2>2
    <2> HIDE DEF r, a
    <2> QED BY <1>1, <1>3, <1>4, <2>1, <2>3, QuietInv
  <1>5. CASE open /\ a.do = "shared if open"
    <2> DEFINE s == <<TakeShared("file")>> \o r
    <2>1. step' = [step EXCEPT ![t] = s]
      BY <1>5 DEF EachFile
    <2>2. Good(HeldBy(t), updating[t], FALSE, s)
      BY <1>2, <1>5 DEF Permits, Good
    <2> HIDE DEF s
    <2> QED BY <1>1, <1>3, <2>1, <2>2, QuietInv
  <1>6. CASE open /\ a.do = "release if open"
    <2> DEFINE s == <<Leave("file")>> \o r
    <2>1. step' = [step EXCEPT ![t] = s]
      BY <1>6 DEF EachFile
    <2>2. Good(HeldBy(t), updating[t], c, s)
      BY <1>2, <1>6 DEF Permits, Good
    <2> HIDE DEF s
    <2> QED BY <1>1, <1>2, <1>3, <2>1, <2>2, QuietInv
  <1>7. open \in BOOLEAN
    BY RestIs
  <1> HIDE DEF a, r
  <1> QED BY <1>1, <1>4, <1>5, <1>6, <1>7

(* LookUp.                                                                 *)
LEMMA LookUpInv ==
  ASSUME ForkInv, NEW t \in Runner, LookUp(t)
  PROVE  ForkInv'
  <1> DEFINE s == IF open THEN Tail(step[t]) ELSE <<Leave("vfs")>>
  <1>1. step[t] # << >> /\ Head(step[t]).do = "look up" /\ ~Blocked(t)
    BY DEF LookUp, Faces
  <1>2. PICK c \in BOOLEAN : /\ c => ~open
                             /\ Permits(Safe, HeldBy(t), updating[t], c, Head(step[t]), Tail(step[t]))
    BY <1>1, NextStep
  <1>3. /\ UNCHANGED <<task, waiting, holds, partial, shut>> /\ cow' = cow /\ open' = open
        /\ updating' = [updating EXCEPT ![t] = updating[t]]
        /\ cow' \in BOOLEAN /\ open' \in BOOLEAN
    BY RestIs DEF LookUp
  <1>4. step' = [step EXCEPT ![t] = s]
    BY DEF LookUp
  <1>5. Good(HeldBy(t), updating[t], c, s)
    BY <1>1, <1>2 DEF Permits, Good
  <1> HIDE DEF s
  <1> QED BY <1>1, <1>2, <1>3, <1>4, <1>5, QuietInv

(* Write.                                                                  *)
LEMMA WriteInv ==
  ASSUME ForkInv, NEW t \in Runner, Write(t)
  PROVE  ForkInv'
  <1> DEFINE d == Head(step[t])
             r == Tail(step[t])
             U == CASE d.do = "begin" -> updating[t] \cup {d.on}
                    [] d.do = "end" -> updating[t] \ {d.on}
                    [] d.do = "close" -> updating[t]
  <1>1. step[t] # << >> /\ d.do \in {"begin", "end", "close"} /\ ~Blocked(t)
    BY DEF Write, Faces
  <1>2. PICK c \in BOOLEAN : (c => ~open) /\ Permits(Safe, HeldBy(t), updating[t], c, d, r)
    BY <1>1, NextStep
  <1>3. /\ UNCHANGED <<task, waiting, holds, partial, shut>> /\ cow' = cow
        /\ open' = (open /\ d.do # "close") /\ cow' \in BOOLEAN /\ open' \in BOOLEAN
    BY RestIs DEF Write
  <1>4. updating' = [updating EXCEPT ![t] = U] /\ step' = [step EXCEPT ![t] = r]
    BY DEF Write, Advance
  <1>5. Good(HeldBy(t), U, c, r)
    <2>1. CASE d.do = "begin"
      BY <1>2, <2>1 DEF Permits, Good
    <2>2. CASE d.do = "end"
      BY <1>2, <2>2 DEF Permits, Good
    <2>3. CASE d.do = "close"
      BY <1>2, <2>3 DEF Permits, Good
    <2> QED BY <1>1, <2>1, <2>2, <2>3
  <1>6. (open' => open) /\ (c => ~open')
    BY <1>2, <1>3
  <1> HIDE DEF U, d, r
  <1> QED BY <1>1, <1>3, <1>4, <1>5, <1>6, QuietInv

(* UserWrite.                                                              *)
LEMMA UserWriteInv ==
  ASSUME ForkInv, NEW t \in Runner, UserWrite(t)
  PROVE  ForkInv'
  <1> DEFINE r == Tail(step[t])
             s == (IF cow THEN Fault ELSE << >>) \o r
  <1>1. step[t] # << >> /\ Head(step[t]).do = "touch" /\ ~Blocked(t)
    BY DEF UserWrite, Faces
  <1>2. PICK c \in BOOLEAN : /\ c => ~open
                             /\ Permits(Safe, HeldBy(t), updating[t], c, Head(step[t]), r)
    BY <1>1, NextStep
  <1>3. /\ UNCHANGED <<task, waiting, holds, partial, shut>> /\ cow' = cow /\ open' = open
        /\ updating' = [updating EXCEPT ![t] = updating[t]]
        /\ cow' \in BOOLEAN /\ open' \in BOOLEAN
    BY RestIs DEF UserWrite
  <1>4. step' = [step EXCEPT ![t] = s]
    BY DEF UserWrite
  <1>5. Good(HeldBy(t), updating[t], c, s)
    <2>1. Good(HeldBy(t), updating[t], c, r) /\ Good(HeldBy(t), updating[t], c, Fault \o r)
      BY <1>1, <1>2 DEF Permits, Good
    <2>2. << >> \o r = r
      BY <1>1, NextStep, ConcatEmptySeq
    <2> QED BY <2>1, <2>2
  <1> HIDE DEF s
  <1> QED BY <1>1, <1>2, <1>3, <1>4, <1>5, QuietInv

(* Protection.                                                             *)
LEMMA ProtectionInv ==
  ASSUME ForkInv, NEW t \in Runner, Protection(t)
  PROVE  ForkInv'
  <1> DEFINE r == Tail(step[t])
  <1>1. step[t] # << >> /\ Head(step[t]).do \in {"protect", "unprotect"} /\ ~Blocked(t)
    BY DEF Protection, Faces
  <1>2. PICK c \in BOOLEAN : /\ c => ~open
                             /\ Permits(Safe, HeldBy(t), updating[t], c, Head(step[t]), r)
    BY <1>1, NextStep
  <1>3. /\ UNCHANGED <<task, waiting, holds, partial, shut>> /\ open' = open
        /\ updating' = [updating EXCEPT ![t] = updating[t]]
        /\ cow' \in BOOLEAN /\ open' \in BOOLEAN
    BY RestIs DEF Protection
  <1>4. step' = [step EXCEPT ![t] = r]
    BY DEF Protection, Advance
  <1>5. Good(HeldBy(t), updating[t], c, r)
    BY <1>1, <1>2 DEF Permits, Good
  <1> HIDE DEF r
  <1> QED BY <1>1, <1>2, <1>3, <1>4, <1>5, QuietInv

(* CopyMemory: nobody is changing the descriptors, the slots of            *)
(* thread-local storage or an open file, for the thread that copies has    *)
(* their locks.                                                            *)
LEMMA CopyMemoryInv ==
  ASSUME ForkInv, NEW t \in Runner, CopyMemory(t)
  PROVE  ForkInv'
  <1> DEFINE r == Tail(step[t])
             p == Head(step[t]).on
  <1>1. step[t] # << >> /\ Head(step[t]).do = "copy" /\ ~Blocked(t)
    BY DEF CopyMemory, Faces
  <1>2. PICK c \in BOOLEAN : /\ c => ~open
                             /\ Permits(Safe, HeldBy(t), updating[t], c, Head(step[t]), r)
    BY <1>1, NextStep
  <1>3. /\ updating[t] = {} /\ HasIn(HeldBy(t), {"tls"}) /\ HasIn(HeldBy(t), {"vfs"})
        /\ c \/ HasIn(HeldBy(t), {"file"})
        /\ Good(HeldBy(t), updating[t], c, r)
    BY <1>1, <1>2 DEF Permits, Good
  <1>4. ASSUME NEW d \in {"tls", "vfs", "file"}, HasIn(HeldBy(t), {d}), NEW u \in Runner, d \in updating[u]
        PROVE  FALSE
    <2>1. u # t
      BY <1>3, <1>4
    <2>2. PICK e \in BOOLEAN : Good(HeldBy(u), updating[u], e, step[u])
      BY DEF ForkInv, OnCourse
    <2>3. <<d, "exclusive">> \in HeldBy(u)
      BY <1>4, <2>2, GoodIs DEF Guarded
    <2>4. <<u, "exclusive">> \in holds[d]
      BY <2>3 DEF HeldBy
    <2>5. PICK h \in HeldBy(t) : h[1] = d
      BY <1>4 DEF HasIn
    <2>6. <<t, h[2]>> \in holds[d]
      BY <2>5 DEF HeldBy
    <2>7. d \in ForkedLock
      BY DEF ForkedLock
    <2>8. <<u, "exclusive">>[2] = "shared"
      BY <2>1, <2>4, <2>6, <2>7, RestIs DEF Modes
    <2> QED BY <2>8
  <1>5. /\ partial' = partial \cup (DataIn(p) \cap UNION {updating[u] : u \in Runner})
        /\ shut' = shut \cup ({l \in LocksIn(p) : holds[l] # {}} \ Reset(IF open THEN {"file"} ELSE {}))
        /\ step' = [step EXCEPT ![t] = r]
        /\ UNCHANGED <<task, holds, waiting, cow, open, updating>>
    BY DEF CopyMemory, Advance
  <1>6. partial' \subseteq {"heap", "shared", "signal"} \cup (IF open THEN {} ELSE {"file"})
    <2> SUFFICES ASSUME NEW d \in DataIn(p), NEW u \in Runner, d \in updating[u]
                 PROVE  d \in {"heap", "shared", "signal"} \cup (IF open THEN {} ELSE {"file"})
      BY <1>5, RestIs DEF ChildWhole
    <2>1. d \in {"file", "heap", "tls", "vfs", "shared", "signal"}
      BY DEF DataIn
    <2>2. d # "tls" /\ d # "vfs"
      BY <1>3, <1>4
    <2>3. d = "file" => ~open
      BY <1>2, <1>3, <1>4
    <2> QED BY <2>1, <2>2, <2>3
  <1>7. shut' \subseteq (IF open THEN {} ELSE {"file"})
    BY <1>5, RestIs DEF ChildWhole, LocksIn, Reset, ForkedLock
  <1>8. ChildWhole'
    BY <1>5, <1>6, <1>7 DEF ChildWhole
  <1>9. partial' \subseteq ForkedLock /\ shut' \subseteq ForkedLock
    BY <1>6, <1>7 DEF ForkedLock
  <1>10. Modes'
    BY <1>5, RestIs DEF Modes
  <1>11. /\ updating' = [updating EXCEPT ![t] = updating[t]] /\ updating[t] \in SUBSET Subject
         /\ holds' \in [ForkedLock -> SUBSET (Runner \X LockMode)]
         /\ cow' \in BOOLEAN /\ open' \in BOOLEAN /\ (open' => open) /\ (c => ~open')
    BY <1>2, <1>5, RestIs
  <1>12. \A u \in Runner : HeldBy(u)' = HeldBy(u)
    BY <1>5, HeldByKept
  <1>13. Good(HeldBy(t)', updating[t], c, r)
    BY <1>3, <1>12
  <1>14. r \in Seq(Action)
    BY <1>1, NextStep
  <1>15. UNCHANGED <<task, waiting>> /\ step' = [step EXCEPT ![t] = r]
    BY <1>5
  <1>16. ~Blocked(t) /\ partial' \subseteq ForkedLock /\ shut' \subseteq ForkedLock
    BY <1>1, <1>9
  <1> HIDE DEF r
  <1> QED BY <1>8, <1>10, <1>11, <1>12, <1>13, <1>14, <1>15, <1>16, AlongInv

(* The step of every action, and of none.                                  *)
LEMMA ForkNextInv == ForkInv /\ [ForkNext]_forkVars => ForkInv'
  <1> SUFFICES ASSUME ForkInv, [ForkNext]_forkVars PROVE ForkInv'
    OBVIOUS
  <1>1. ASSUME NEW t \in Runner, Acquire(t) PROVE ForkInv'
    BY <1>1, AcquireInv
  <1>2. ASSUME NEW t \in Runner, GiveBack(t) PROVE ForkInv'
    BY <1>2, GiveBackInv
  <1>3. ASSUME NEW t \in Runner, EachFile(t) PROVE ForkInv'
    BY <1>3, EachFileInv
  <1>4. ASSUME NEW t \in Runner, LookUp(t) PROVE ForkInv'
    BY <1>4, LookUpInv
  <1>5. ASSUME NEW t \in Runner, Write(t) PROVE ForkInv'
    BY <1>5, WriteInv
  <1>6. ASSUME NEW t \in Runner, UserWrite(t) PROVE ForkInv'
    BY <1>6, UserWriteInv
  <1>7. ASSUME NEW t \in Runner, Protection(t) PROVE ForkInv'
    BY <1>7, ProtectionInv
  <1>8. ASSUME NEW t \in Runner, CopyMemory(t) PROVE ForkInv'
    BY <1>8, CopyMemoryInv
  <1>9. ASSUME NEW l \in ForkedLock, Grant(l) PROVE ForkInv'
    BY <1>9, GrantInv
  <1>10. CASE UNCHANGED forkVars
    <2>1. UNCHANGED <<task, step, holds, waiting, cow, open, updating, partial, shut>>
      BY <1>10 DEF forkVars
    <2>2. ForkTypeOK'
      BY <2>1 DEF ForkInv, ForkTypeOK
    <2>3. \A t \in Runner : OnCourse(t)'
      BY <2>1, HeldByKept DEF ForkInv, OnCourse
    <2>4. Modes'
      BY <2>1 DEF ForkInv, Modes
    <2>5. Queued'
      BY <2>1 DEF ForkInv, Queued, InQueue, Asks
    <2>6. ChildWhole'
      BY <2>1 DEF ForkInv, ChildWhole
    <2> QED BY <2>2, <2>3, <2>4, <2>5, <2>6 DEF ForkInv
  <1> QED BY <1>1, <1>2, <1>3, <1>4, <1>5, <1>6, <1>7, <1>8, <1>9, <1>10 DEF ForkNext
-----------------------------------------------------------------------------
(* Threads that wait for each other. *)

(* Every set of numbers has a least one.                                   *)
LEMMA LeastNumber ==
  ASSUME NEW K \in SUBSET Nat, K # {}
  PROVE  \E k \in K : \A j \in K : k <= j
  <1> DEFINE R == {ij \in Nat \X Nat : ij[1] < ij[2]}
  <1>1. IsWellFoundedOn(R, Nat)
    BY NatLessThanWellFounded DEF OpToRel
  <1>2. \A j, k \in Nat : <<j, k>> \notin R => k <= j
    OBVIOUS
  <1> HIDE DEF R
  <1>3. PICK k \in K : \A j \in K : <<j, k>> \notin R
    BY <1>1, WFMin
  <1> QED BY <1>2, <1>3

(* One of a set of locks is the last in the order.                         *)
LEMMA LastInOrder ==
  ASSUME NEW L \in SUBSET ForkedLock, L # {}
  PROVE  \E l \in L : \A k \in L : Rank(k) <= Rank(l)
  <1> DEFINE K == {8 - Rank(l) : l \in L}
  <1>1. \A l \in L : Rank(l) \in 1 .. 8
    BY RankIs
  <1>2. K \in SUBSET Nat /\ K # {}
    BY <1>1
  <1> HIDE DEF K
  <1>3. PICK k \in K : \A j \in K : k <= j
    BY <1>2, LeastNumber
  <1>4. PICK l \in L : k = 8 - Rank(l)
    BY DEF K
  <1>5. ASSUME NEW j \in L PROVE Rank(j) <= Rank(l)
    <2>1. 8 - Rank(l) <= 8 - Rank(j)
      BY <1>3, <1>4 DEF K
    <2> QED BY <1>1, <2>1
  <1> QED BY <1>5

(* A thread waits for the lock that its next step asks for, and for no     *)
(* other.                                                                  *)
LEMMA WaitsForOne ==
  ASSUME ForkInv, NEW t \in Runner, NEW l \in ForkedLock, Waits(t, l)
  PROVE  /\ step[t] # << >> /\ Head(step[t]).on = l /\ Head(step[t]).do \in LockMode
  <1>1. PICK i \in DOMAIN waiting[l] : waiting[l][i][1] = t
    BY DEF Waits
  <1>2. Asks(step, waiting[l][i], l)
    BY DEF ForkInv, Queued, InQueue
  <1>3. waiting[l][i] \in Runner \X LockMode
    BY DEF ForkInv, ForkTypeOK
  <1> QED BY <1>1, <1>2, <1>3 DEF Asks, Act

(* What it waits for is behind all it holds, or it is one of the known     *)
(* two.                                                                    *)
LEMMA WaitsInOrder ==
  ASSUME ForkInv, NEW t \in Runner, NEW l \in ForkedLock, Waits(t, l), ~AgainstOrder(t)
  PROVE  InOrder(HeldBy(t), l)
  <1>1. step[t] # << >> /\ Head(step[t]).on = l /\ Head(step[t]).do \in LockMode
    BY WaitsForOne
  <1>2. MayAsk(HeldBy(t), l)
    BY <1>1, NextStep DEF Permits
  <1>3. ASSUME NEW S, HasIn(HeldBy(t), S) PROVE Has(t, S)
    <2>1. PICK h \in HeldBy(t) : h[1] \in S
      BY <1>3 DEF HasIn
    <2>2. <<t, h[2]>> \in holds[h[1]]
      BY DEF HeldBy
    <2>3. t \in Holder(h[1])
      BY <2>2 DEF Holder
    <2> QED BY <2>1, <2>3 DEF Has
  <1>4. ~Known(HeldBy(t), l)
    BY <1>3 DEF Known, AgainstOrder
  <1> QED BY <1>2, <1>4 DEF MayAsk

(* In a circle, look at the last lock in the order that one of it waits    *)
(* for, and there at the one of it that came first: it waits for a thread  *)
(* of the circle that has this lock, and that thread waits for a lock that *)
(* is no further on, so it asks against the order.                         *)
LEMMA CircularWaits == ForkInv => CircularWaitsKnown
  <1> SUFFICES ASSUME ForkInv,
                      NEW C \in SUBSET {t \in Runner : Blocked(t)}, C # {},
                      \A t \in C : WaitsFor(t) \cap C # {},
                      \A t \in C : ~AgainstOrder(t)
               PROVE  FALSE
    BY DEF CircularWaitsKnown
  <1> DEFINE L == {l \in ForkedLock : \E t \in C : Waits(t, l)}
  <1>1. L \in SUBSET ForkedLock /\ L # {}
    BY DEF Blocked
  <1>2. PICK l \in L : \A k \in L : Rank(k) <= Rank(l)
    <2> HIDE DEF L
    <2> QED BY <1>1, LastInOrder
  <1> DEFINE q == waiting[l]
             K == {i \in DOMAIN q : q[i][1] \in C}
  <1>3. l \in ForkedLock /\ q \in Seq(Runner \X LockMode)
    BY DEF ForkInv, ForkTypeOK
  <1>4. K \in SUBSET Nat /\ K # {}
    <2>1. DOMAIN q \subseteq Nat
      BY <1>3
    <2> QED BY <2>1 DEF Waits
  <1>5. PICK i \in K : \A j \in K : i <= j
    <2> HIDE DEF K
    <2> QED BY <1>4, LeastNumber
  <1> DEFINE t == q[i][1]
  <1>6. t \in C /\ t \in Runner /\ i \in DOMAIN q /\ Waits(t, l)
    BY DEF Waits
  <1>7. PICK c \in C : c \in WaitsFor(t)
    BY <1>6
  <1>8. PICK k \in ForkedLock : Waits(t, k) /\ c \in Holder(k) \cup Ahead(t, k)
    BY <1>7 DEF WaitsFor
  <1>9. k = l
    BY <1>3, <1>6, <1>8, WaitsForOne
  <1>10. c \notin Ahead(t, l)
    <2> SUFFICES ASSUME c \in Ahead(t, l) PROVE FALSE
      OBVIOUS
    <2>1. PICK j \in DOMAIN q, n \in DOMAIN q : q[j][1] = c /\ j < n /\ q[n][1] = t
      BY DEF Ahead
    <2>2. n = i
      BY <1>3, <1>6, <2>1 DEF ForkInv, Queued, InQueue
    <2>3. j \in K
      BY <2>1
    <2>4. i <= j
      BY <1>5, <2>3
    <2> QED BY <1>4, <2>1, <2>2, <2>3, <2>4
  <1>11. PICK h \in holds[l] : h[1] = c
    BY <1>8, <1>9, <1>10 DEF Holder
  <1>12. <<l, h[2]>> \in HeldBy(c)
    <2>1. holds[l] \in SUBSET (Runner \X LockMode)
      BY <1>3 DEF ForkInv, ForkTypeOK
    <2>2. h = <<c, h[2]>> /\ h[2] \in LockMode
      BY <1>11, <2>1
    <2> QED BY <1>3, <1>11, <2>2 DEF HeldBy, Held
  <1>13. PICK m \in ForkedLock : Waits(c, m)
    BY DEF Blocked
  <1>14. m \in L
    BY <1>13
  <1>15. Rank(m) <= Rank(l)
    BY <1>2, <1>14
  <1>16. InOrder(HeldBy(c), m)
    BY <1>13, WaitsInOrder
  <1>17. Rank(l) < Rank(m)
    BY <1>12, <1>16 DEF InOrder
  <1>18. Rank(l) \in Int /\ Rank(m) \in Int
    BY <1>3, <1>13, RankIs
  <1> QED BY <1>15, <1>17, <1>18
-----------------------------------------------------------------------------
(* The theorems. *)

(* Where the threads are, the invariant is.                                *)
LEMMA ForkAlwaysInv == ForkSpec => []ForkInv
  BY ForkInitInv, ForkNextInv, PTL DEF ForkSpec

(* Type correctness: a thread has a rest of a call's steps before it, a    *)
(* lock has threads with it and threads that wait for it (fork.c and the   *)
(* locks of the subsystems it forks).                                      *)
THEOREM ForkTypeCorrect == ForkSpec => []ForkTypeOK
  <1>1. ForkInv => ForkTypeOK
    BY DEF ForkInv
  <1> QED BY <1>1, ForkAlwaysInv, PTL

(* A lock that two threads have is shared by both, and a thread in a queue *)
(* is there once, for the lock that its next step asks for (AcquireSRWLock *)
(* and the critical sections, as the calls beside fork use them).          *)
THEOREM ForkLocksTruthful == ForkSpec => [](Modes /\ Queued)
  <1>1. ForkInv => Modes /\ Queued
    BY DEF ForkInv
  <1> QED BY <1>1, ForkAlwaysInv, PTL

(* Whatever the threads and their calls are, threads that wait for each    *)
(* other in a circle have one among them that takes locks in one of the    *)
(* two known ways against the order of fork_process, and a child finds     *)
(* what it was given whole: nothing half changed but what is copied before *)
(* its lock is taken, and no lock taken by a thread it does not have.      *)
THEOREM ForkIsSound == ForkSpec => []ForkSound
  <1>1. ForkInv => ForkSound
    BY CircularWaits DEF ForkInv, ForkSound
  <1> QED BY <1>1, ForkAlwaysInv, PTL

-----------------------------------------------------------------------------
(***************************************************************************)
(* The life of threads and processes                                       *)
(***************************************************************************)
Pid == 1 .. MaxProcess - 1
Handle == 1 .. Cardinality(LThread)
Outcome == {"no", "signal", "killed"} \cup LThread \cup Stranger
Early == {"none", "created", "entry", "init"}
Stage == Early \cup {"ready", "run", "clone", "close", "refuse", "table", "count", "gone", "last", "group"}
LifeOf == [at : Stage, pid : {0} \cup Pid, accept : BOOLEAN, info : BOOLEAN,
           sigevent : {0} \cup Handle, new : LThread \cup {NoOne}]

LifeTypeOK ==
  /\ ptable \in [Pid -> [status : {"NOTEXIST", "RUNNING", "ZOMBIE"}, code : Outcome]]
  /\ lastPid \in Pid
  /\ tableMutex \in LThread \cup {"signal thread", NoOne}
  /\ life \in [LThread -> LifeOf]
  /\ threadList \in Seq(LThread) /\ threadCount \in Int
  /\ tevents \in [Handle -> [open : BOOLEAN, set : BOOLEAN]]
  /\ sigThread \in [at : {"idle", "chosen", "group"}, to : LThread \cup {NoOne}]
  /\ kin \in [Kin -> [pid : {0} \cup Pid, alive : BOOLEAN, ended : Outcome, told : Outcome]]
  /\ signalsLeft \in Nat /\ mixed \subseteq Pid /\ strayed \subseteq LThread

-----------------------------------------------------------------------------
(* Pids *)

Others == LThread \ {MainThread}
Untold(c) == kin[c].told = "no" /\ kin[c].pid # 0

\* Nobody but one has a pid
Apart ==
  /\ \A t, u \in Others : Holds(t) /\ Holds(u) /\ life[t].pid = life[u].pid => t = u \/ life[t].pid \in mixed
  /\ \A t \in Others, c \in Kin : Holds(t) /\ Untold(c) /\ life[t].pid = kin[c].pid => life[t].pid \in mixed
  /\ \A c, d \in Kin : Untold(c) /\ Untold(d) /\ kin[c].pid = kin[d].pid => c = d \/ kin[c].pid \in mixed

\* Its slot is taken
Taken ==
  /\ \A t \in Others : Holds(t) => /\ life[t].pid \in Pid \ {1, 2}
                                   /\ ptable[life[t].pid].status # "NOTEXIST" \/ life[t].pid \in mixed
  /\ \A c \in Kin : Untold(c) => /\ kin[c].pid \in Pid \ {1, 2}
                                 /\ \/ ptable[kin[c].pid].status # "NOTEXIST" \/ kin[c].pid \in mixed
                                    \/ c = Us /\ MainLeft
  /\ ptable[1].status # "NOTEXIST" /\ ptable[2].status # "NOTEXIST"

\* and no other slot is
NoMore ==
  \A p \in Pid \ ({1, 2} \cup mixed) : ptable[p].status # "NOTEXIST" =>
    \/ \E t \in Others : Holds(t) /\ life[t].pid = p
    \/ \E c \in Kin : Untold(c) /\ kin[c].pid = p

\* What the slot of a child tells of it
TellsOf(c) ==
  LET p == kin[c].pid IN
  /\ Untold(c) /\ p \notin mixed =>
       /\ ptable[p].status = "ZOMBIE" => ptable[p].code = kin[c].ended /\ kin[c].ended # "no"
       /\ ptable[p].status # "ZOMBIE" => kin[c].ended = IF kin[c].alive THEN "no" ELSE "killed"
  /\ kin[c].told # "no" => ~kin[c].alive /\ p # 0 /\ (p \in mixed \/ kin[c].told = kin[c].ended)
  /\ p = 0 => ~kin[c].alive /\ kin[c].told = "no" /\ kin[c].ended = "no"
  /\ kin[c].alive /\ c # Us => kin[c].ended = "no"
Tells == \A c \in Kin : TellsOf(c)

Ours ==
  /\ kin[Us].pid = 3 /\ life[MainThread].pid = 3 /\ life[MainThread].at \notin Early \cup {"ready"}
  /\ kin[Us].alive => (tableMutex = NoOne <=> kin[Us].ended = "no")

Slots == PidsDistinct /\ Apart /\ Taken /\ NoMore /\ Tells /\ Ours

-----------------------------------------------------------------------------
(* Threads and their events *)

Begun == {t \in LThread : life[t].at \notin {"none", "created", "entry", "gone", "last"}}
Counts ==
  /\ threadCount = Cardinality(Begun)
  /\ \E t \in LThread : life[t].at \notin {"none", "gone"}

\* A thread that creates another has it to itself
Births ==
  /\ \A t \in LThread : life[t].at = "clone" => life[t].new \in LThread /\ life[life[t].new].at = "created"
  /\ \A t, u \in LThread : life[t].at = "clone" /\ life[u].at = "clone" /\ life[t].new = life[u].new => t = u

HasEvent(t) == life[t].at \in {"ready", "run", "clone", "close", "group"}
EventOf(t) ==
  /\ HasEvent(t) => tevents[life[t].sigevent].open
  /\ life[t].at \notin Early => life[t].sigevent \in Handle
  /\ life[t].at \in Early \cup {"ready"} => ~life[t].accept /\ ~life[t].info /\ sigThread.to # t
  /\ life[t].accept => HasEvent(t) \/ life[t].at = "refuse"
  /\ life[t].at \in {"ready", "run", "clone"} /\ t \notin strayed =>
       tevents[life[t].sigevent].set = life[t].info
Events ==
  /\ \A t \in LThread : EventOf(t)
  /\ \A t, u \in LThread : HasEvent(t) /\ HasEvent(u) /\ life[t].sigevent = life[u].sigevent => t = u
  /\ sigThread.at = "chosen" => sigThread.to \in LThread

LifeInv == LifeTypeOK /\ Slots /\ Births /\ Counts /\ Events

-----------------------------------------------------------------------------
(* Facts about the parts of the state. *)

(* Every set of numbers has a least one.                                   *)
LEMMA LeastOfAll ==
  ASSUME NEW K \in SUBSET Nat, K # {}
  PROVE  \E k \in K : \A j \in K : k <= j
  <1> DEFINE R == {ij \in Nat \X Nat : ij[1] < ij[2]}
  <1>1. IsWellFoundedOn(R, Nat)
    BY NatLessThanWellFounded DEF OpToRel
  <1>2. \A j, k \in Nat : <<j, k>> \notin R => k <= j
    OBVIOUS
  <1> HIDE DEF R
  <1>3. PICK k \in K : \A j \in K : <<j, k>> \notin R
    BY <1>1, WFMin
  <1> QED BY <1>2, <1>3

(* The names of children and of threads.                                   *)
LEMMA NamesAre ==
  /\ {1, 2, 3} \subseteq Pid /\ Pid \subseteq Nat /\ 0 \notin Pid /\ Pids!Pid = Pid
  /\ Us \in Kin /\ Us \notin Stranger /\ MainThread \in LThread /\ MainThread \notin Others
  <1>1. MaxProcess \in Nat /\ MaxProcess > 3
    BY LifeAssumption
  <1>2. {1, 2, 3} \subseteq Pid /\ Pid \subseteq Nat /\ 0 \notin Pid /\ Pids!Pid = Pid
    BY <1>1 DEF Pid, Pids!Pid
  <1>3. Us \in Kin /\ Us \notin Stranger /\ MainThread \in LThread /\ MainThread \notin Others
    BY LifeAssumption DEF Kin, Others
  <1> QED BY <1>2, <1>3

(* The handles: as many as there may be threads.                           *)
LEMMA HandlesAre == Cardinality(LThread) \in Nat /\ 1 \in Handle /\ 0 \notin Handle
  <1>1. Cardinality(LThread) \in Nat /\ LThread # {}
    BY LifeAssumption, FS_CardinalityType
  <1>2. Cardinality(LThread) # 0
    BY <1>1, LifeAssumption, FS_EmptySet
  <1> QED BY <1>1, <1>2 DEF Handle

(* process_shared_alloc finds a slot that is free, when there is one.      *)
LEMMA AllocFindsFree ==
  ASSUME NEW s, NEW last \in Pid, \E q \in Pid : s[q] = "NOTEXIST"
  PROVE  Pids!AllocPid(s, last) \in Pid /\ s[Pids!AllocPid(s, last)] = "NOTEXIST"
  <1>0. MaxProcess \in Nat /\ MaxProcess > 3
    BY LifeAssumption
  <1> DEFINE free == {i \in Pid : s[Pids!Candidate(last, i)] = "NOTEXIST"}
  <1>1. PICK q \in Pid : s[q] = "NOTEXIST"
    OBVIOUS
  <1> DEFINE i == IF q > last THEN q - last ELSE q - last + (MaxProcess - 1)
  <1>2. i \in Pid /\ Pids!Candidate(last, i) = q
    BY <1>0 DEF Pid, Pids!Candidate
  <1>3. i \in free
    BY <1>1, <1>2
  <1>4. free \in SUBSET Nat /\ free # {}
    BY <1>3, NamesAre
  <1> HIDE DEF free, i
  <1>5. \E k \in free : \A j \in free : k <= j
    BY <1>4, LeastOfAll
  <1> DEFINE k == CHOOSE k \in free : \A j \in free : k <= j
  <1>6. k \in free
    BY <1>5
  <1>7. Pids!AllocPid(s, last) = Pids!Candidate(last, k)
    BY NamesAre DEF Pids!AllocPid, free
  <1> HIDE DEF k
  <1>8. k \in Pid /\ s[Pids!Candidate(last, k)] = "NOTEXIST"
    BY <1>6 DEF free
  <1>9. Pids!Candidate(last, k) \in Pid
    BY <1>0, <1>8 DEF Pid, Pids!Candidate
  <1> QED BY <1>7, <1>8, <1>9

(* Who is given a pid finds it taken by nobody, or it is the one that the  *)
(* first thread gave away.                                                 *)
LEMMA AllocateGives ==
  ASSUME LifeInv, Allocate
  PROVE  LET p == lastPid' IN
         /\ p \in Pid \ {1, 2} /\ ptable' = [ptable EXCEPT ![p].status = "RUNNING"]
         /\ mixed \subseteq mixed' /\ mixed' \subseteq mixed \cup {p} /\ mixed' \subseteq {3}
         /\ mixed' # {} => MainLeft
         /\ p \notin mixed' => /\ \A t \in Others : Holds(t) => life[t].pid # p
                               /\ \A c \in Kin : Untold(c) => kin[c].pid # p
  <1> DEFINE s == [q \in Pids!Pid |-> ptable[q].status]
             p == lastPid'
  <1>1. lastPid \in Pid /\ Pids!Pid = Pid
    BY NamesAre DEF LifeInv, LifeTypeOK
  <1>2. \E q \in Pid : s[q] = "NOTEXIST"
    BY <1>1 DEF Allocate
  <1>3. p = Pids!AllocPid(s, lastPid)
    BY DEF Allocate
  <1>4. p \in Pid /\ s[p] = "NOTEXIST"
    <2> HIDE DEF s, p
    <2> QED BY <1>1, <1>2, <1>3, AllocFindsFree
  <1>5. ptable[p].status = "NOTEXIST"
    BY <1>1, <1>4
  <1>6. /\ ptable' = [ptable EXCEPT ![p].status = "RUNNING"]
        /\ mixed' = IF Tenants(p) = {} THEN mixed ELSE mixed \cup {p}
    BY DEF Allocate
  <1> HIDE DEF p, s
  <1>7. p \notin {1, 2}
    BY <1>5 DEF LifeInv, Slots, Taken
  <1>8. ASSUME NEW t \in Others, Holds(t), life[t].pid = p
        PROVE  p \in mixed
    BY <1>5, <1>8 DEF LifeInv, Slots, Taken
  <1>9. ASSUME NEW c \in Kin, Untold(c), kin[c].pid = p, p \notin mixed
        PROVE  c = Us /\ MainLeft /\ p = 3 /\ Tenants(p) # {}
    <2>1. c = Us /\ MainLeft
      BY <1>5, <1>9 DEF LifeInv, Slots, Taken
    <2>2. p = 3
      BY <1>9, <2>1 DEF LifeInv, Slots, Ours
    <2>3. c \in Tenants(p)
      BY <1>9 DEF Tenants, Untold
    <2> QED BY <2>1, <2>2, <2>3
  <1>10. ASSUME Tenants(p) # {}, p \notin mixed
         PROVE  MainLeft /\ p = 3
    <2>1. PICK x \in Tenants(p) : TRUE
      BY <1>10
    <2>2. CASE x \in {t \in LThread \ {MainThread} : kin[Us].alive /\ Holds(t) /\ life[t].pid = p}
      BY <1>8, <1>10, <2>2 DEF Others
    <2>3. CASE x \in {c \in Kin : kin[c].pid = p /\ kin[c].told = "no"}
      BY <1>4, <1>9, <1>10, <2>3, NamesAre DEF Untold
    <2> QED BY <2>1, <2>2, <2>3 DEF Tenants
  <1>11. mixed \subseteq mixed' /\ mixed' \subseteq mixed \cup {p}
    BY <1>6
  <1>12. mixed' \subseteq {3} /\ (mixed' # {} => MainLeft)
    BY <1>6, <1>10 DEF LifeInv, Slots, PidsDistinct
  <1>13. p \notin mixed' => /\ \A t \in Others : Holds(t) => life[t].pid # p
                            /\ \A c \in Kin : Untold(c) => kin[c].pid # p
    BY <1>6, <1>8, <1>9
  <1> QED BY <1>4, <1>6, <1>7, <1>11, <1>12, <1>13 DEF p

-----------------------------------------------------------------------------
(* The initial states. *)

LEMMA LifeInitInv == LifeInit => LifeInv
  <1> SUFFICES ASSUME LifeInit PROVE LifeInv
    OBVIOUS
  <1> DEFINE First == [Unborn EXCEPT !.at = "run", !.pid = 3, !.accept = TRUE, !.sigevent = 1]
             Born == [Unknown EXCEPT !.pid = 3, !.alive = TRUE]
             Child == [pid : {0} \cup Pid, alive : BOOLEAN, ended : Outcome, told : Outcome]
  <1>1. /\ life \in [LThread -> LifeOf]
        /\ life[MainThread].at = "run" /\ life[MainThread].pid = 3 /\ life[MainThread].sigevent = 1
        /\ life[MainThread].accept = TRUE /\ life[MainThread].info = FALSE
        /\ \A t \in LThread \ {MainThread} : life[t].at = "none" /\ life[t].accept = FALSE /\ life[t].info = FALSE
    <2>1. First \in LifeOf
      BY NamesAre, HandlesAre DEF LifeOf, Stage, Early, Unborn
    <2>2. /\ Unborn \in LifeOf /\ Unborn.at = "none" /\ Unborn.accept = FALSE /\ Unborn.info = FALSE
      BY DEF LifeOf, Stage, Early, Unborn
    <2>3. /\ First.at = "run" /\ First.pid = 3 /\ First.sigevent = 1 /\ First.accept = TRUE /\ First.info = FALSE
      BY DEF Unborn
    <2> HIDE DEF First
    <2>4. life = [t \in LThread |-> IF t = MainThread THEN First ELSE Unborn]
      BY DEF LifeInit, First
    <2> QED BY <2>1, <2>2, <2>3, <2>4, NamesAre
  <1>2. /\ kin \in [Kin -> Child]
        /\ kin[Us].pid = 3 /\ kin[Us].alive = TRUE /\ kin[Us].ended = "no" /\ kin[Us].told = "no"
        /\ \A c \in Kin \ {Us} : /\ kin[c].pid = 0 /\ kin[c].alive = FALSE /\ kin[c].ended = "no"
                                 /\ kin[c].told = "no"
    <2>1. Born \in Child /\ Unknown \in Child
      BY NamesAre DEF Outcome, Unknown
    <2>2. /\ Born.pid = 3 /\ Born.alive = TRUE /\ Born.ended = "no" /\ Born.told = "no"
          /\ Unknown.pid = 0 /\ Unknown.alive = FALSE /\ Unknown.ended = "no" /\ Unknown.told = "no"
      BY DEF Unknown
    <2> HIDE DEF Born, Child
    <2>3. kin = [c \in Kin |-> IF c = Us THEN Born ELSE Unknown]
      BY DEF LifeInit, Born
    <2> QED BY <2>1, <2>2, <2>3, NamesAre
  <1>0. tableMutex = NoOne /\ sigThread = [at |-> "idle", to |-> NoOne] /\ NoOne \notin LThread
    BY LifeAssumption DEF LifeInit
  <1>3. /\ ptable \in [Pid -> [status : {"NOTEXIST", "RUNNING", "ZOMBIE"}, code : Outcome]]
        /\ \A p \in Pid : ptable[p].status = IF p <= 3 THEN "RUNNING" ELSE "NOTEXIST"
    BY NamesAre DEF LifeInit, Entry, Outcome
  <1>4. tevents \in [Handle -> [open : BOOLEAN, set : BOOLEAN]] /\ tevents[1].open /\ ~tevents[1].set
    BY HandlesAre DEF LifeInit, Handle
  <1>5. LifeTypeOK
    <2>1. threadList \in Seq(LThread) /\ threadCount \in Int
      BY NamesAre DEF LifeInit
    <2> QED BY <1>1, <1>2, <1>3, <1>4, <2>1, LifeAssumption, NamesAre DEF LifeInit, LifeTypeOK
  <1>6. Slots
    <2>1. \A t \in Others : ~Holds(t)
      BY <1>1 DEF Others, Holds
    <2>2. \A c \in Kin : Untold(c) => c = Us /\ kin[c].pid = 3
      BY <1>2 DEF Untold
    <2>3. Untold(Us)
      BY <1>2, NamesAre DEF Untold
    <2>4. PidsDistinct
      BY DEF LifeInit, PidsDistinct
    <2>5. Apart
      BY <2>1, <2>2 DEF Apart
    <2>6. Taken
      BY <1>3, <2>1, <2>2, NamesAre DEF Taken
    <2>7. NoMore
      BY <1>2, <1>3, <2>3, NamesAre DEF NoMore, Pid
    <2>8. Tells
      BY <1>2, <1>3, NamesAre DEF Tells, TellsOf, Untold
    <2>9. Ours
      BY <1>0, <1>1, <1>2, NamesAre DEF Ours, Early
    <2> QED BY <2>4, <2>5, <2>6, <2>7, <2>8, <2>9 DEF Slots
  <1>7. Births
    BY <1>1 DEF Births
  <1>8. Counts
    <2>1. Begun = {MainThread}
      BY <1>1, NamesAre DEF Begun
    <2>2. threadCount = 1 /\ life[MainThread].at = "run"
      BY <1>1, NamesAre DEF LifeInit
    <2> QED BY <2>1, <2>2, NamesAre, FS_Singleton DEF Counts
  <1>9. Events
    <2>2. \A t \in LThread \ {MainThread} : EventOf(t)
      BY <1>0, <1>1 DEF EventOf, HasEvent, Early
    <2>3. EventOf(MainThread)
      BY <1>0, <1>1, <1>4, HandlesAre DEF EventOf, HasEvent, Early
    <2>4. \A t \in LThread : EventOf(t)
      BY <2>2, <2>3
    <2>5. \A t \in LThread : HasEvent(t) => t = MainThread
      BY <1>1 DEF HasEvent
    <2> QED BY <1>0, <2>4, <2>5 DEF Events
  <1> QED BY <1>5, <1>6, <1>7, <1>8, <1>9 DEF LifeInv
-----------------------------------------------------------------------------
(* Steps that leave a part of the invariant as it is. *)

(* Nobody gets or loses a pid.                                             *)
LEMMA SlotsKept ==
  ASSUME Slots, UNCHANGED <<ptable, kin, mixed, tableMutex>>,
         \A t \in LThread : life'[t].pid = life[t].pid /\ (Holds(t)' <=> Holds(t)),
         life'[MainThread].at \notin Early \cup {"ready"}, MainLeft => MainLeft'
  PROVE  Slots'
  <1>0. \A t \in Others : t \in LThread
    BY DEF Others
  <1>1. \A c \in Kin : Untold(c)' = Untold(c)
    BY DEF Untold
  <1>2. PidsDistinct'
    BY DEF Slots, PidsDistinct
  <1>3. Apart'
    BY <1>0, <1>1 DEF Slots, Apart
  <1>4. Taken'
    BY <1>0, <1>1 DEF Slots, Taken
  <1>5. NoMore'
    BY <1>0, <1>1 DEF Slots, NoMore
  <1>6. Tells'
    BY <1>1 DEF Slots, Tells, TellsOf
  <1>7. Ours'
    BY NamesAre DEF Slots, Ours
  <1> QED BY <1>2, <1>3, <1>4, <1>5, <1>6, <1>7 DEF Slots

(* No thread begins or leaves.                                             *)
LEMMA CountsKept ==
  ASSUME Counts, threadCount' = threadCount,
         \A t \in LThread : /\ t \in Begun' <=> t \in Begun
                            /\ life[t].at \notin {"none", "gone"} => life'[t].at \notin {"none", "gone"}
  PROVE  Counts'
  <1>1. Begun' = Begun
    BY DEF Begun
  <1> QED BY <1>1 DEF Counts

(* No thread is created or let go.                                         *)
LEMMA BirthsKept ==
  ASSUME Births,
         \A t \in LThread : /\ life'[t].at = "clone" => life[t].at = "clone" /\ life'[t].new = life[t].new
                            /\ life[t].at = "created" => life'[t].at = "created"
  PROVE  Births'
  BY DEF Births

(* Threads go on, and keep or lose their events, with what is set in them. *)
LEMMA EventsKept ==
  ASSUME Events, UNCHANGED <<tevents, strayed>>,
         \A t \in LThread :
           /\ life'[t].sigevent = life[t].sigevent /\ life'[t].info = life[t].info
           /\ life'[t].accept => /\ life[t].accept
                                 /\ life'[t].at = life[t].at \/ HasEvent(t)' \/ life'[t].at = "refuse"
           /\ HasEvent(t)' => HasEvent(t)
           /\ life'[t].at \notin Early => life[t].at \notin Early
           /\ life'[t].at \in Early \cup {"ready"} => life[t].at \in Early \cup {"ready"}
           /\ life'[t].at \in {"ready", "run", "clone"} => life[t].at \in {"ready", "run", "clone"},
         sigThread'.to \in {sigThread.to, NoOne},
         sigThread'.at = "chosen" => sigThread' = sigThread
  PROVE  Events'
  <1>0. NoOne \notin LThread
    BY LifeAssumption
  <1>1. ASSUME NEW t \in LThread PROVE EventOf(t)'
    <2>1. EventOf(t)
      BY DEF Events
    <2>2. HasEvent(t)' => tevents'[life'[t].sigevent].open
      BY <2>1 DEF EventOf
    <2>3. life'[t].at \notin Early => life'[t].sigevent \in Handle
      BY <2>1 DEF EventOf
    <2>4. life'[t].at \in Early \cup {"ready"} => ~life'[t].accept /\ ~life'[t].info /\ sigThread'.to # t
      BY <1>0, <2>1 DEF EventOf
    <2>5. life'[t].at \in {"ready", "run", "clone"} /\ t \notin strayed' =>
            tevents'[life'[t].sigevent].set = life'[t].info
      BY <2>1 DEF EventOf
    <2>6. life'[t].accept => HasEvent(t)' \/ life'[t].at = "refuse"
      BY <2>1 DEF EventOf, HasEvent
    <2> QED BY <2>2, <2>3, <2>4, <2>5, <2>6 DEF EventOf
  <1>2. \A t, u \in LThread : HasEvent(t)' /\ HasEvent(u)' /\ life'[t].sigevent = life'[u].sigevent => t = u
    BY DEF Events
  <1>3. sigThread'.at = "chosen" => sigThread'.to \in LThread
    BY DEF Events
  <1> QED BY <1>1, <1>2, <1>3 DEF Events

(* The steps of one thread.                                                *)
LEMMA MoveIs ==
  ASSUME LifeTypeOK, NEW t \in LThread, NEW s \in Stage, Move(t, s)
  PROVE  /\ life' \in [LThread -> LifeOf]
         /\ life'[t] = [life[t] EXCEPT !.at = s] /\ life'[t].at = s
         /\ \A u \in LThread \ {t} : life'[u] = life[u]
         /\ \A u \in LThread : /\ life'[u].pid = life[u].pid /\ life'[u].accept = life[u].accept
                               /\ life'[u].info = life[u].info /\ life'[u].sigevent = life[u].sigevent
                               /\ life'[u].new = life[u].new
  <1>1. life \in [LThread -> LifeOf]
    BY DEF LifeTypeOK
  <1>2. life[t] \in LifeOf
    BY <1>1
  <1>3. [life[t] EXCEPT !.at = s] \in LifeOf
    BY <1>2 DEF LifeOf
  <1>4. life' = [life EXCEPT ![t] = [life[t] EXCEPT !.at = s]]
    BY DEF Move
  <1> DEFINE r == [life[t] EXCEPT !.at = s]
  <1>5. /\ r.at = s /\ r.pid = life[t].pid /\ r.accept = life[t].accept /\ r.info = life[t].info
        /\ r.sigevent = life[t].sigevent /\ r.new = life[t].new
    BY <1>2 DEF LifeOf
  <1>6. r \in LifeOf /\ life' = [life EXCEPT ![t] = r]
    BY <1>3, <1>4
  <1> HIDE DEF r
  <1>7. life' \in [LThread -> LifeOf] /\ life'[t] = r /\ \A u \in LThread \ {t} : life'[u] = life[u]
    BY <1>1, <1>6
  <1>8. r = [life[t] EXCEPT !.at = s]
    BY DEF r
  <1> QED BY <1>5, <1>7, <1>8

(* sys_exit and sys_exit_group: the thread turns to its end.               *)
TurnsTo(t, s, from) ==
  /\ life[t].at = from /\ Move(t, s)
  /\ UNCHANGED <<ptable, lastPid, tableMutex, threadList, threadCount, tevents, sigThread, kin,
                 signalsLeft, mixed, strayed>>
LEMMA WithinInv ==
  ASSUME LifeInv, NEW t \in LThread, NEW s \in {"close", "group"}, TurnsTo(t, s, "run")
  PROVE  LifeInv'
  <1>0. /\ LifeTypeOK /\ Slots /\ Births /\ Counts /\ Events /\ s \in Stage /\ life[t].at = "run" /\ Move(t, s)
        /\ UNCHANGED <<ptable, lastPid, tableMutex, threadList, threadCount, tevents, sigThread, kin,
                       signalsLeft, mixed, strayed>>
    BY DEF LifeInv, TurnsTo, Stage
  <1>1. /\ life' \in [LThread -> LifeOf] /\ life'[t].at = s
        /\ \A u \in LThread \ {t} : life'[u] = life[u]
        /\ \A u \in LThread : /\ life'[u].pid = life[u].pid /\ life'[u].accept = life[u].accept
                              /\ life'[u].info = life[u].info /\ life'[u].sigevent = life[u].sigevent
                              /\ life'[u].new = life[u].new
    BY <1>0, MoveIs
  <1>2. LifeTypeOK'
    BY <1>0, <1>1 DEF LifeTypeOK
  <1>3. Slots'
    <2>1. \A u \in LThread : Holds(u)' <=> Holds(u)
      BY <1>0, <1>1 DEF Holds
    <2>2. life'[MainThread].at \notin Early \cup {"ready"} /\ (MainLeft => MainLeft')
      BY <1>0, <1>1, NamesAre DEF Slots, Ours, MainLeft, Early
    <2> QED BY <1>0, <1>1, <2>1, <2>2, SlotsKept
  <1>4. Births'
    BY <1>0, <1>1, BirthsKept
  <1>5. Counts'
    BY <1>0, <1>1, CountsKept DEF Begun
  <1>6. Events'
    BY <1>0, <1>1, EventsKept DEF HasEvent, Early
  <1> QED BY <1>2, <1>3, <1>4, <1>5, <1>6 DEF LifeInv

(* The threads that have begun can be counted.                             *)
LEMMA BegunFinite == IsFiniteSet(Begun) /\ Cardinality(Begun) \in Nat
  <1>1. IsFiniteSet(LThread)
    BY LifeAssumption
  <1>2. Begun \subseteq LThread
    BY DEF Begun
  <1> QED BY <1>1, <1>2, FS_Subset, FS_CardinalityType

(* thread_alloc: one more has begun.                                       *)
LEMMA ThreadAllocInv ==
  ASSUME LifeInv, NEW t \in LThread, thread_alloc(t)
  PROVE  LifeInv'
  <1>0. /\ LifeTypeOK /\ Slots /\ Births /\ Counts /\ Events /\ "init" \in Stage /\ life[t].at = "entry"
        /\ Move(t, "init") /\ threadList' = Append(threadList, t) /\ threadCount' = threadCount + 1
        /\ UNCHANGED <<ptable, lastPid, tableMutex, tevents, sigThread, kin, signalsLeft, mixed, strayed>>
    BY DEF LifeInv, thread_alloc, Is, Stage, Early
  <1>1. /\ life' \in [LThread -> LifeOf] /\ life'[t].at = "init"
        /\ \A u \in LThread \ {t} : life'[u] = life[u]
        /\ \A u \in LThread : /\ life'[u].pid = life[u].pid /\ life'[u].accept = life[u].accept
                              /\ life'[u].info = life[u].info /\ life'[u].sigevent = life[u].sigevent
                              /\ life'[u].new = life[u].new
    BY <1>0, MoveIs
  <1>2. LifeTypeOK'
    <2>1. threadList \in Seq(LThread) /\ threadCount \in Int
      BY <1>0 DEF LifeTypeOK
    <2>2. threadList' \in Seq(LThread) /\ threadCount' \in Int
      BY <1>0, <2>1
    <2> QED BY <1>0, <1>1, <2>2 DEF LifeTypeOK
  <1>3. Slots'
    <2>1. \A u \in LThread : Holds(u)' <=> Holds(u)
      BY <1>0, <1>1 DEF Holds
    <2>2. life'[MainThread].at \notin Early \cup {"ready"} /\ (MainLeft => MainLeft')
      BY <1>0, <1>1, NamesAre DEF Slots, Ours, MainLeft, Early
    <2> QED BY <1>0, <1>1, <2>1, <2>2, SlotsKept
  <1>4. Births'
    BY <1>0, <1>1, BirthsKept
  <1>5. Counts'
    <2>1. Begun' = Begun \cup {t} /\ t \notin Begun
      BY <1>0, <1>1 DEF Begun
    <2>2. Cardinality(Begun') = Cardinality(Begun) + 1
      BY <2>1, BegunFinite, FS_AddElement
    <2>3. life'[t].at \notin {"none", "gone"}
      BY <1>1
    <2> QED BY <1>0, <2>2, <2>3 DEF Counts
  <1>6. Events'
    <2>1. ~life[t].accept
      BY <1>0 DEF Events, EventOf, Early
    <2> QED BY <1>0, <1>1, <2>1, EventsKept DEF HasEvent, Early
  <1> QED BY <1>2, <1>3, <1>4, <1>5, <1>6 DEF LifeInv

(* LeaveThread: one less, and if it is not the last there is another.      *)
LEMMA LeaveThreadInv ==
  ASSUME LifeInv, NEW t \in LThread, LeaveThread(t)
  PROVE  LifeInv'
  <1> DEFINE s == IF threadCount = 1 THEN "last" ELSE "gone"
  <1>0. /\ LifeTypeOK /\ Slots /\ Births /\ Counts /\ Events /\ s \in Stage /\ life[t].at = "count"
        /\ Move(t, s) /\ threadCount' = threadCount - 1
        /\ UNCHANGED <<ptable, lastPid, tableMutex, threadList, tevents, sigThread, kin, signalsLeft,
                       mixed, strayed>>
    BY DEF LifeInv, LeaveThread, Is, Stage
  <1>1. /\ life' \in [LThread -> LifeOf] /\ life'[t].at = s
        /\ \A u \in LThread \ {t} : life'[u] = life[u]
        /\ \A u \in LThread : /\ life'[u].pid = life[u].pid /\ life'[u].accept = life[u].accept
                              /\ life'[u].info = life[u].info /\ life'[u].sigevent = life[u].sigevent
                              /\ life'[u].new = life[u].new
    <2> HIDE DEF s
    <2> QED BY <1>0, MoveIs
  <1>2. LifeTypeOK'
    <2>1. threadCount \in Int
      BY <1>0 DEF LifeTypeOK
    <2>2. threadCount' \in Int
      BY <1>0, <2>1
    <2> QED BY <1>0, <1>1, <2>2 DEF LifeTypeOK
  <1>3. Slots'
    <2>1. \A u \in LThread : Holds(u)' <=> Holds(u)
      BY <1>0, <1>1 DEF Holds
    <2>2. life'[MainThread].at \notin Early \cup {"ready"} /\ (MainLeft => MainLeft')
      BY <1>0, <1>1, NamesAre DEF Slots, Ours, MainLeft, Early
    <2> QED BY <1>0, <1>1, <2>1, <2>2, SlotsKept
  <1>4. Births'
    BY <1>0, <1>1, BirthsKept
  <1>5. Counts'
    <2>1. Begun' = Begun \ {t} /\ t \in Begun
      BY <1>0, <1>1 DEF Begun
    <2>2. Cardinality(Begun') = Cardinality(Begun) - 1 /\ Cardinality(Begun) \in Nat
      BY <2>1, BegunFinite, FS_RemoveElement
    <2>3. threadCount' = Cardinality(Begun') /\ threadCount = Cardinality(Begun)
      BY <1>0, <2>2 DEF Counts
    <2>4. \E u \in LThread : life'[u].at \notin {"none", "gone"}
      <3>1. CASE threadCount = 1
        BY <1>1, <3>1
      <3>2. CASE threadCount # 1
        <4>1. Cardinality(Begun') # 0
          BY <2>2, <2>3, <3>2
        <4>2. Begun' # {}
          BY <4>1, FS_EmptySet
        <4> QED BY <4>2 DEF Begun
      <3> QED BY <3>1, <3>2
    <2> QED BY <2>3, <2>4 DEF Counts
  <1>6. Events'
    <2>1. ~life[t].accept
      BY <1>0 DEF Events, EventOf, HasEvent
    <2> QED BY <1>0, <1>1, <2>1, EventsKept DEF HasEvent, Early
  <1> QED BY <1>2, <1>3, <1>4, <1>5, <1>6 DEF LifeInv

(* What is needed of a step that leaves the pids alone and lets no thread  *)
(* be created, begin or leave.                                             *)
LEMMA WalkInv ==
  ASSUME LifeInv,
         UNCHANGED <<ptable, lastPid, tableMutex, threadList, threadCount, kin, mixed>>,
         life' \in [LThread -> LifeOf],
         tevents' \in [Handle -> [open : BOOLEAN, set : BOOLEAN]],
         sigThread' \in [at : {"idle", "chosen", "group"}, to : LThread \cup {NoOne}],
         signalsLeft' \in Nat, strayed' \subseteq LThread,
         \A u \in LThread : /\ life'[u].pid = life[u].pid /\ life'[u].new = life[u].new
                            /\ \/ life'[u].at = life[u].at
                               \/ life[u].at = "init" /\ life'[u].at = "ready"
                               \/ life[u].at = "ready" /\ life'[u].at = "run"
                               \/ life[u].at = "close" /\ life'[u].at = "refuse"
                               \/ life[u].at = "refuse" /\ life'[u].at = "table",
         Events'
  PROVE  LifeInv'
  <1>1. LifeTypeOK'
    BY DEF LifeInv, LifeTypeOK
  <1>2. Slots'
    <2>1. \A u \in LThread : Holds(u)' <=> Holds(u)
      BY DEF Holds
    <2>2. life'[MainThread].at \notin Early \cup {"ready"} /\ (MainLeft => MainLeft')
      BY NamesAre DEF LifeInv, Slots, Ours, MainLeft, Early
    <2> QED BY <2>1, <2>2, SlotsKept DEF LifeInv
  <1>3. Births'
    BY BirthsKept DEF LifeInv
  <1>4. Counts'
    BY CountsKept DEF LifeInv, Begun
  <1> QED BY <1>1, <1>2, <1>3, <1>4 DEF LifeInv

(* signal_init_thread: an event of its own, and then it consents.          *)
LEMMA SignalInitInv ==
  ASSUME LifeInv, NEW t \in LThread, signal_init_thread(t)
  PROVE  LifeInv'
  <1>0. /\ life \in [LThread -> LifeOf] /\ life[t] \in LifeOf /\ strayed \subseteq LThread
        /\ tevents \in [Handle -> [open : BOOLEAN, set : BOOLEAN]] /\ signalsLeft \in Nat
        /\ sigThread \in [at : {"idle", "chosen", "group"}, to : LThread \cup {NoOne}]
    BY DEF LifeInv, LifeTypeOK
  <1>1. ASSUME NEW h \in DOMAIN tevents, Is(t, "init"), ~tevents[h].open,
               tevents' = [tevents EXCEPT ![h] = [open |-> TRUE, set |-> FALSE]],
               life' = [life EXCEPT ![t].at = "ready", ![t].sigevent = h],
               UNCHANGED <<ptable, lastPid, tableMutex, threadList, threadCount, sigThread, kin,
                           signalsLeft, mixed, strayed>>
        PROVE  LifeInv'
    <2>1. h \in Handle /\ life[t].at = "init"
      BY <1>0, <1>1 DEF Is
    <2>2. /\ life' \in [LThread -> LifeOf] /\ life'[t].at = "ready" /\ life'[t].sigevent = h
          /\ life'[t].info = life[t].info /\ life'[t].accept = life[t].accept
          /\ \A u \in LThread \ {t} : life'[u] = life[u]
          /\ \A u \in LThread : life'[u].pid = life[u].pid /\ life'[u].new = life[u].new
      BY <1>0, <1>1, <2>1 DEF LifeOf, Stage
    <2>3. /\ tevents' \in [Handle -> [open : BOOLEAN, set : BOOLEAN]]
          /\ tevents'[h].open = TRUE /\ tevents'[h].set = FALSE /\ \A k \in Handle \ {h} : tevents'[k] = tevents[k]
      BY <1>0, <1>1, <2>1
    <2>4. ASSUME NEW u \in LThread \ {t}, HasEvent(u) PROVE life[u].sigevent \in Handle \ {h}
      BY <1>1, <2>4 DEF LifeInv, Events, EventOf, HasEvent, Early
    <2>5. \A u \in LThread \ {t} : EventOf(u)'
      <3> SUFFICES ASSUME NEW u \in LThread \ {t} PROVE EventOf(u)'
        OBVIOUS
      <3>1. EventOf(u)
        BY DEF LifeInv, Events
      <3>2. life[u].at \in {"ready", "run", "clone"} => HasEvent(u)
        BY DEF HasEvent
      <3>3. life'[u] = life[u] /\ sigThread' = sigThread /\ strayed' = strayed /\ (HasEvent(u)' <=> HasEvent(u))
        BY <1>1, <2>2 DEF HasEvent
      <3>4. HasEvent(u) => tevents'[life[u].sigevent] = tevents[life[u].sigevent]
        BY <2>3, <2>4
      <3> QED BY <3>1, <3>2, <3>3, <3>4 DEF EventOf
    <2>6. EventOf(t)'
      <3>1. ~life[t].accept /\ ~life[t].info /\ sigThread.to # t
        BY <2>1 DEF LifeInv, Events, EventOf, Early
      <3>2. life[t].info = FALSE /\ life[t].accept = FALSE
        BY <1>0, <3>1 DEF LifeOf
      <3>3. sigThread'.to # t
        BY <1>1, <3>1
      <3> QED BY <2>1, <2>2, <2>3, <3>2, <3>3 DEF EventOf, HasEvent, Early
    <2>7. Events'
      <3>1. \A u, w \in LThread : HasEvent(u)' /\ HasEvent(w)' /\ life'[u].sigevent = life'[w].sigevent => u = w
        BY <2>1, <2>2, <2>4 DEF LifeInv, Events, HasEvent
      <3>2. sigThread'.at = "chosen" => sigThread'.to \in LThread
        BY <1>1 DEF LifeInv, Events
      <3> QED BY <2>5, <2>6, <3>1, <3>2 DEF Events
    <2> QED BY <1>0, <1>1, <2>1, <2>2, <2>3, <2>7, WalkInv
  <1>2. ASSUME Is(t, "ready"), life' = [life EXCEPT ![t].at = "run", ![t].accept = TRUE],
               UNCHANGED <<ptable, lastPid, tableMutex, threadList, threadCount, tevents, sigThread, kin,
                           signalsLeft, mixed, strayed>>
        PROVE  LifeInv'
    <2>1. life[t].at = "ready"
      BY <1>2 DEF Is
    <2>2. /\ life' \in [LThread -> LifeOf] /\ life'[t].at = "run" /\ life'[t].sigevent = life[t].sigevent
          /\ life'[t].info = life[t].info /\ life'[t].accept = TRUE
          /\ \A u \in LThread \ {t} : life'[u] = life[u]
          /\ \A u \in LThread : life'[u].pid = life[u].pid /\ life'[u].new = life[u].new
      BY <1>0, <1>2, <2>1 DEF LifeOf, Stage
    <2>3. \A u \in LThread \ {t} : EventOf(u)'
      BY <1>2, <2>2 DEF LifeInv, Events, EventOf, HasEvent
    <2>4. EventOf(t)'
      <3>1. EventOf(t)
        BY DEF LifeInv, Events
      <3> QED BY <1>2, <2>1, <2>2, <3>1 DEF EventOf, HasEvent, Early
    <2>5. Events'
      <3>1. \A u, w \in LThread : HasEvent(u)' /\ HasEvent(w)' /\ life'[u].sigevent = life'[w].sigevent => u = w
        BY <2>1, <2>2 DEF LifeInv, Events, HasEvent
      <3>2. sigThread'.at = "chosen" => sigThread'.to \in LThread
        BY <1>2 DEF LifeInv, Events
      <3> QED BY <2>3, <2>4, <3>1, <3>2 DEF Events
    <2> QED BY <1>0, <1>2, <2>1, <2>2, <2>5, WalkInv
  <1> QED BY <1>1, <1>2 DEF signal_init_thread

(* ChooseReceiver: one that consents does so no more.                      *)
LEMMA ChooseReceiverInv ==
  ASSUME LifeInv, ChooseReceiver
  PROVE  LifeInv'
  <1>0. /\ life \in [LThread -> LifeOf] /\ strayed \subseteq LThread /\ threadList \in Seq(LThread)
        /\ tevents \in [Handle -> [open : BOOLEAN, set : BOOLEAN]] /\ signalsLeft \in Nat
    BY DEF LifeInv, LifeTypeOK
  <1>1. PICK i \in DOMAIN threadList :
          /\ life[threadList[i]].accept
          /\ sigThread' = [at |-> "chosen", to |-> threadList[i]]
          /\ life' = [life EXCEPT ![threadList[i]].accept = FALSE]
    BY DEF ChooseReceiver
  <1> DEFINE t == threadList[i]
  <1>2. t \in LThread
    BY <1>0
  <1>3. /\ UNCHANGED <<ptable, lastPid, tableMutex, threadList, threadCount, tevents, kin, mixed, strayed>>
        /\ signalsLeft' \in Nat
    BY <1>0 DEF ChooseReceiver
  <1>4. /\ life[t].accept /\ sigThread' = [at |-> "chosen", to |-> t]
        /\ life' = [life EXCEPT ![t].accept = FALSE]
    BY <1>1
  <1> HIDE DEF t
  <1>5. /\ life' \in [LThread -> LifeOf] /\ life'[t].accept = FALSE
        /\ \A u \in LThread \ {t} : life'[u] = life[u]
        /\ \A u \in LThread : /\ life'[u].pid = life[u].pid /\ life'[u].new = life[u].new
                              /\ life'[u].at = life[u].at /\ life'[u].info = life[u].info
                              /\ life'[u].sigevent = life[u].sigevent
    BY <1>0, <1>2, <1>4 DEF LifeOf
  <1>6. sigThread' \in [at : {"idle", "chosen", "group"}, to : LThread \cup {NoOne}]
        /\ sigThread'.at = "chosen" /\ sigThread'.to = t
    BY <1>2, <1>4
  <1>7. life[t].at \notin Early \cup {"ready"}
    BY <1>2, <1>4 DEF LifeInv, Events, EventOf
  <1>8. \A u \in LThread : EventOf(u)'
    <2> SUFFICES ASSUME NEW u \in LThread PROVE EventOf(u)'
      OBVIOUS
    <2>1. EventOf(u)
      BY DEF LifeInv, Events
    <2>2. HasEvent(u)' <=> HasEvent(u)
      BY <1>5 DEF HasEvent
    <2>3. life'[u].at \in Early \cup {"ready"} => ~life'[u].accept /\ ~life'[u].info /\ sigThread'.to # u
      BY <1>5, <1>6, <1>7, <2>1 DEF EventOf
    <2>4. life'[u].accept => life[u].accept
      BY <1>5
    <2> QED BY <1>3, <1>5, <2>1, <2>2, <2>3, <2>4 DEF EventOf
  <1>9. Events'
    <2>1. \A u, w \in LThread : HasEvent(u)' /\ HasEvent(w)' /\ life'[u].sigevent = life'[w].sigevent => u = w
      BY <1>5 DEF LifeInv, Events, HasEvent
    <2> QED BY <1>2, <1>6, <1>8, <2>1 DEF Events
  <1> QED BY <1>0, <1>3, <1>5, <1>6, <1>9, WalkInv

(* HandOver: the receiver's event is set, or that of the thread which has  *)
(* its handle now.                                                         *)
LEMMA HandOverInv ==
  ASSUME LifeInv, HandOver
  PROVE  LifeInv'
  <1>0. /\ life \in [LThread -> LifeOf] /\ strayed \subseteq LThread
        /\ tevents \in [Handle -> [open : BOOLEAN, set : BOOLEAN]] /\ signalsLeft \in Nat
    BY DEF LifeInv, LifeTypeOK
  <1>1. PICK t \in LThread : t = sigThread.to
    BY DEF HandOver, LifeInv, Events
  <1>2. EventOf(t)
    BY <1>1 DEF LifeInv, Events
  <1>3. life[t].at \notin Early \cup {"ready"}
    BY <1>1, <1>2 DEF EventOf
  <1>31. PICK h \in Handle : h = life[t].sigevent
    BY <1>2, <1>3 DEF EventOf
  <1>4. /\ life' = [life EXCEPT ![t].info = TRUE]
        /\ tevents' = [tevents EXCEPT ![h].set = tevents[h].open]
        /\ strayed' = strayed \cup
             {u \in LThread \ {t} : tevents[h].open /\ life[u].sigevent = h
                                     /\ life[u].at \in {"ready", "run", "clone", "close"}}
        /\ sigThread' = [at |-> "idle", to |-> NoOne]
        /\ UNCHANGED <<ptable, lastPid, tableMutex, threadList, threadCount, kin, signalsLeft, mixed>>
    BY <1>1, <1>31 DEF HandOver
  <1>5. /\ life' \in [LThread -> LifeOf] /\ life'[t].info = TRUE
        /\ \A u \in LThread \ {t} : life'[u] = life[u]
        /\ \A u \in LThread : /\ life'[u].pid = life[u].pid /\ life'[u].new = life[u].new
                              /\ life'[u].at = life[u].at /\ life'[u].accept = life[u].accept
                              /\ life'[u].sigevent = life[u].sigevent
    <2> DEFINE r == [life[t] EXCEPT !.info = TRUE]
    <2>1. life[t] \in LifeOf /\ life' = [life EXCEPT ![t] = r] /\ life \in [LThread -> LifeOf]
      BY <1>0, <1>4
    <2>2. /\ r \in LifeOf /\ r.info = TRUE /\ r.pid = life[t].pid /\ r.new = life[t].new
          /\ r.at = life[t].at /\ r.accept = life[t].accept /\ r.sigevent = life[t].sigevent
      BY <2>1 DEF LifeOf
    <2> HIDE DEF r
    <2> QED BY <2>1, <2>2
  <1>6. /\ tevents' \in [Handle -> [open : BOOLEAN, set : BOOLEAN]]
        /\ tevents'[h].set = tevents[h].open
        /\ \A k \in Handle \ {h} : tevents'[k] = tevents[k]
        /\ \A k \in Handle : tevents'[k].open = tevents[k].open
    BY <1>0, <1>3, <1>31, <1>4
  <1>7. sigThread' \in [at : {"idle", "chosen", "group"}, to : LThread \cup {NoOne}]
        /\ sigThread'.at = "idle" /\ sigThread'.to = NoOne /\ NoOne \notin LThread
    BY <1>4, LifeAssumption
  <1>8. strayed' \subseteq LThread
    BY <1>0, <1>4
  <1>9. EventOf(t)'
    <2>1. HasEvent(t)' <=> HasEvent(t)
      BY <1>1, <1>5 DEF HasEvent
    <2>2. life[t].at \in {"ready", "run", "clone"} => tevents[h].open = TRUE
      BY <1>0, <1>2, <1>31 DEF EventOf, HasEvent
    <2>3. life'[t].sigevent = h
      BY <1>1, <1>31, <1>5
    <2>4. HasEvent(t) => tevents'[h].open
      BY <1>2, <1>3, <1>31, <1>6 DEF EventOf
    <2>5. life'[t].accept => HasEvent(t) \/ life[t].at = "refuse"
      BY <1>1, <1>2, <1>5 DEF EventOf
    <2> QED BY <1>1, <1>3, <1>31, <1>5, <1>6, <2>1, <2>2, <2>3, <2>4, <2>5 DEF EventOf
  <1>10. \A u \in LThread \ {t} : EventOf(u)'
    <2> SUFFICES ASSUME NEW u \in LThread \ {t} PROVE EventOf(u)'
      OBVIOUS
    <2>1. EventOf(u)
      BY DEF LifeInv, Events
    <2>2. HasEvent(u)' <=> HasEvent(u)
      BY <1>5 DEF HasEvent
    <2>3. HasEvent(u) => life[u].sigevent \in Handle /\ tevents[life[u].sigevent].open
      BY <2>1 DEF EventOf, HasEvent, Early
    <2>4. ASSUME life[u].at \in {"ready", "run", "clone"}, u \notin strayed'
          PROVE  tevents'[life[u].sigevent].set = life[u].info
      <3>1. HasEvent(u) /\ u \notin strayed
        BY <1>4, <2>4 DEF HasEvent
      <3>2. life[u].sigevent # h
        BY <1>4, <2>3, <2>4, <3>1
      <3> QED BY <1>6, <2>1, <2>3, <2>4, <3>1, <3>2 DEF EventOf
    <2>5. HasEvent(u) => tevents'[life[u].sigevent].open
      BY <1>6, <2>3
    <2> QED BY <1>5, <1>7, <2>1, <2>2, <2>4, <2>5 DEF EventOf
  <1>11. Events'
    <2>1. \A u, w \in LThread : HasEvent(u)' /\ HasEvent(w)' /\ life'[u].sigevent = life'[w].sigevent => u = w
      BY <1>5 DEF LifeInv, Events, HasEvent
    <2> QED BY <1>7, <1>9, <1>10, <2>1 DEF Events
  <1> QED BY <1>0, <1>4, <1>5, <1>6, <1>7, <1>8, <1>11, WalkInv

(* SetupHandler: the signal is taken, and the event reset with it.         *)
LEMMA SetupHandlerInv ==
  ASSUME LifeInv, NEW t \in LThread, SetupHandler(t)
  PROVE  LifeInv'
  <1>0. /\ life \in [LThread -> LifeOf] /\ strayed \subseteq LThread
        /\ tevents \in [Handle -> [open : BOOLEAN, set : BOOLEAN]] /\ signalsLeft \in Nat
        /\ sigThread \in [at : {"idle", "chosen", "group"}, to : LThread \cup {NoOne}]
    BY DEF LifeInv, LifeTypeOK
  <1>1. /\ life[t].at = "run" /\ life' = [life EXCEPT ![t].info = FALSE, ![t].accept = TRUE]
        /\ tevents' = [tevents EXCEPT ![life[t].sigevent].set = FALSE]
        /\ UNCHANGED <<ptable, lastPid, tableMutex, threadList, threadCount, sigThread, kin, signalsLeft,
                       mixed, strayed>>
    BY DEF SetupHandler, Is
  <1>2. EventOf(t)
    BY DEF LifeInv, Events
  <1>3. HasEvent(t)
    BY <1>1 DEF HasEvent
  <1>4. PICK h \in Handle : h = life[t].sigevent
    BY <1>1, <1>2 DEF EventOf, Early
  <1>5. /\ life' \in [LThread -> LifeOf] /\ life'[t].info = FALSE /\ life'[t].accept = TRUE
        /\ \A u \in LThread \ {t} : life'[u] = life[u]
        /\ \A u \in LThread : /\ life'[u].pid = life[u].pid /\ life'[u].new = life[u].new
                              /\ life'[u].at = life[u].at /\ life'[u].sigevent = life[u].sigevent
    <2> DEFINE r == [[life[t] EXCEPT !.info = FALSE] EXCEPT !.accept = TRUE]
    <2>1. life[t] \in LifeOf
      BY <1>0
    <2>2. /\ r \in LifeOf /\ r.info = FALSE /\ r.accept = TRUE /\ r.pid = life[t].pid /\ r.new = life[t].new
          /\ r.at = life[t].at /\ r.sigevent = life[t].sigevent
      BY <2>1 DEF LifeOf
    <2>3. life' = [life EXCEPT ![t] = r]
      BY <1>0, <1>1
    <2> HIDE DEF r
    <2> QED BY <1>0, <2>2, <2>3
  <1>6. /\ tevents' \in [Handle -> [open : BOOLEAN, set : BOOLEAN]]
        /\ tevents'[h].set = FALSE
        /\ \A k \in Handle \ {h} : tevents'[k] = tevents[k]
        /\ \A k \in Handle : tevents'[k].open = tevents[k].open
    BY <1>0, <1>1, <1>4
  <1>7. EventOf(t)'
    <2>1. HasEvent(t)'
      BY <1>3, <1>5 DEF HasEvent
    <2>2. life'[t].sigevent = h /\ life'[t].at = "run"
      BY <1>1, <1>4, <1>5
    <2>3. tevents'[h].open
      BY <1>2, <1>3, <1>4, <1>6 DEF EventOf
    <2> QED BY <1>3, <1>5, <1>6, <2>1, <2>2, <2>3 DEF EventOf, Early
  <1>8. \A u \in LThread \ {t} : EventOf(u)'
    <2> SUFFICES ASSUME NEW u \in LThread \ {t} PROVE EventOf(u)'
      OBVIOUS
    <2>1. EventOf(u)
      BY DEF LifeInv, Events
    <2>2. HasEvent(u)' <=> HasEvent(u)
      BY <1>5 DEF HasEvent
    <2>3. HasEvent(u) => life[u].sigevent \in Handle \ {h}
      BY <1>3, <1>4, <2>1 DEF EventOf, HasEvent, Early, LifeInv, Events
    <2>4. life[u].at \in {"ready", "run", "clone"} => HasEvent(u)
      BY DEF HasEvent
    <2>5. HasEvent(u) => tevents'[life[u].sigevent] = tevents[life[u].sigevent]
      BY <1>6, <2>3
    <2>6. life'[u] = life[u] /\ sigThread' = sigThread /\ strayed' = strayed
      BY <1>1, <1>5
    <2> QED BY <2>1, <2>2, <2>4, <2>5, <2>6 DEF EventOf
  <1>9. Events'
    <2>1. \A u, w \in LThread : HasEvent(u)' /\ HasEvent(w)' /\ life'[u].sigevent = life'[w].sigevent => u = w
      BY <1>5 DEF LifeInv, Events, HasEvent
    <2>2. sigThread'.at = "chosen" => sigThread'.to \in LThread
      BY <1>1 DEF LifeInv, Events
    <2> QED BY <1>7, <1>8, <2>1, <2>2 DEF Events
  <1> QED BY <1>0, <1>1, <1>5, <1>6, <1>9, WalkInv

(* DefaultAction: the signal thread is going to end the process.           *)
LEMMA DefaultActionInv ==
  ASSUME LifeInv, DefaultAction
  PROVE  LifeInv'
  <1>1. /\ life' = life /\ tevents' = tevents /\ strayed' = strayed
        /\ sigThread' = [at |-> "group", to |-> NoOne] /\ signalsLeft' = signalsLeft
        /\ UNCHANGED <<ptable, lastPid, tableMutex, threadList, threadCount, kin, mixed>>
    BY DEF DefaultAction
  <1>2. sigThread'.at = "group" /\ sigThread'.to = NoOne
        /\ sigThread' \in [at : {"idle", "chosen", "group"}, to : LThread \cup {NoOne}]
    BY <1>1
  <1>3. Events'
    BY <1>1, <1>2, EventsKept DEF LifeInv, HasEvent
  <1> QED BY <1>1, <1>2, <1>3, WalkInv DEF LifeInv, LifeTypeOK

(* signal_exit_thread: the event is closed, and then consent withdrawn.    *)
LEMMA SignalExitInv ==
  ASSUME LifeInv, NEW t \in LThread, signal_exit_thread(t)
  PROVE  LifeInv'
  <1> DEFINE h == life[t].sigevent
  <1>0. /\ life \in [LThread -> LifeOf] /\ strayed \subseteq LThread
        /\ tevents \in [Handle -> [open : BOOLEAN, set : BOOLEAN]] /\ signalsLeft \in Nat
        /\ sigThread \in [at : {"idle", "chosen", "group"}, to : LThread \cup {NoOne}]
        /\ LifeTypeOK
    BY DEF LifeInv, LifeTypeOK
  <1>1. ASSUME Is(t, "close"), Move(t, "refuse"), tevents' = [tevents EXCEPT ![h] = [open |-> FALSE, set |-> FALSE]],
               UNCHANGED <<ptable, lastPid, tableMutex, threadList, threadCount, sigThread, kin,
                           signalsLeft, mixed, strayed>>
        PROVE  LifeInv'
    <2>1. life[t].at = "close" /\ "refuse" \in Stage
      BY <1>1 DEF Is, Stage
    <2>2. EventOf(t) /\ HasEvent(t)
      BY <2>1 DEF LifeInv, Events, HasEvent
    <2>3. h \in Handle
      BY <2>1, <2>2 DEF EventOf, Early
    <2> HIDE DEF h
    <2>4. /\ life' \in [LThread -> LifeOf] /\ life'[t].at = "refuse"
          /\ \A u \in LThread \ {t} : life'[u] = life[u]
          /\ \A u \in LThread : /\ life'[u].pid = life[u].pid /\ life'[u].accept = life[u].accept
                                /\ life'[u].info = life[u].info /\ life'[u].sigevent = life[u].sigevent
                                /\ life'[u].new = life[u].new
      BY <1>0, <1>1, <2>1, MoveIs
    <2>5. /\ tevents' \in [Handle -> [open : BOOLEAN, set : BOOLEAN]]
          /\ \A k \in Handle \ {h} : tevents'[k] = tevents[k]
      BY <1>0, <1>1, <2>3
    <2>6. EventOf(t)'
      BY <2>2, <2>3, <2>4, <2>5 DEF EventOf, HasEvent, Early, h
    <2>7. \A u \in LThread \ {t} : EventOf(u)'
      <3> SUFFICES ASSUME NEW u \in LThread \ {t} PROVE EventOf(u)'
        OBVIOUS
      <3>1. EventOf(u)
        BY DEF LifeInv, Events
      <3>2. HasEvent(u)' <=> HasEvent(u)
        BY <2>4 DEF HasEvent
      <3>3. HasEvent(u) => life[u].sigevent \in Handle \ {h}
        BY <2>2, <3>1 DEF EventOf, HasEvent, Early, LifeInv, Events, h
      <3>4. life[u].at \in {"ready", "run", "clone"} => HasEvent(u)
        BY DEF HasEvent
      <3>5. HasEvent(u) => tevents'[life[u].sigevent] = tevents[life[u].sigevent]
        BY <2>5, <3>3
      <3> QED BY <1>1, <2>4, <3>1, <3>2, <3>4, <3>5 DEF EventOf
    <2>8. Events'
      <3>1. \A u, w \in LThread : HasEvent(u)' /\ HasEvent(w)' /\ life'[u].sigevent = life'[w].sigevent => u = w
        BY <2>4 DEF LifeInv, Events, HasEvent
      <3>2. sigThread'.at = "chosen" => sigThread'.to \in LThread
        BY <1>1 DEF LifeInv, Events
      <3> QED BY <2>6, <2>7, <3>1, <3>2 DEF Events
    <2> QED BY <1>0, <1>1, <2>1, <2>4, <2>5, <2>8, WalkInv
  <1>2. ASSUME Is(t, "refuse"), life' = [life EXCEPT ![t].at = "table", ![t].accept = FALSE],
               UNCHANGED <<ptable, lastPid, tableMutex, threadList, threadCount, tevents, sigThread, kin,
                           signalsLeft, mixed, strayed>>
        PROVE  LifeInv'
    <2>1. life[t].at = "refuse"
      BY <1>2 DEF Is
    <2>2. /\ life' \in [LThread -> LifeOf] /\ life'[t].at = "table" /\ life'[t].accept = FALSE
          /\ \A u \in LThread \ {t} : life'[u] = life[u]
          /\ \A u \in LThread : /\ life'[u].pid = life[u].pid /\ life'[u].new = life[u].new
                                /\ life'[u].info = life[u].info /\ life'[u].sigevent = life[u].sigevent
      <3> DEFINE r == [[life[t] EXCEPT !.at = "table"] EXCEPT !.accept = FALSE]
      <3>1. life[t] \in LifeOf /\ life \in [LThread -> LifeOf]
        BY <1>0
      <3>2. /\ r \in LifeOf /\ r.at = "table" /\ r.accept = FALSE /\ r.pid = life[t].pid /\ r.new = life[t].new
            /\ r.info = life[t].info /\ r.sigevent = life[t].sigevent
        BY <3>1 DEF LifeOf, Stage
      <3>3. life' = [life EXCEPT ![t] = r]
        BY <1>2, <3>1
      <3> HIDE DEF r
      <3> QED BY <3>1, <3>2, <3>3
    <2>3. Events'
      BY <1>2, <2>1, <2>2, EventsKept DEF LifeInv, HasEvent, Early
    <2> QED BY <1>0, <1>2, <2>1, <2>2, <2>3, WalkInv
  <1> QED BY <1>1, <1>2 DEF signal_exit_thread

(* ResumeNew: the created thread is let go, and the other returns.         *)
LEMMA ResumeNewInv ==
  ASSUME LifeInv, NEW t \in LThread, ResumeNew(t)
  PROVE  LifeInv'
  <1>0. LifeTypeOK /\ Slots /\ Births /\ Counts /\ Events /\ life \in [LThread -> LifeOf]
    BY DEF LifeInv, LifeTypeOK
  <1>1. /\ life[t].at = "clone"
        /\ life' = [life EXCEPT ![t].at = "run", ![t].new = NoOne, ![life[t].new].at = "entry"]
        /\ UNCHANGED <<ptable, lastPid, tableMutex, threadList, threadCount, tevents, sigThread, kin,
                       signalsLeft, mixed, strayed>>
    BY DEF ResumeNew, Is
  <1>2. PICK u \in LThread : u = life[t].new /\ life[u].at = "created"
    BY <1>0, <1>1 DEF Births
  <1>3. u # t
    BY <1>1, <1>2
  <1>4. /\ life' \in [LThread -> LifeOf] /\ life'[t].at = "run" /\ life'[u].at = "entry"
        /\ \A w \in LThread \ {t, u} : life'[w] = life[w]
        /\ \A w \in LThread : /\ life'[w].pid = life[w].pid /\ life'[w].accept = life[w].accept
                              /\ life'[w].info = life[w].info /\ life'[w].sigevent = life[w].sigevent
    <2> DEFINE r == [[life[t] EXCEPT !.at = "run"] EXCEPT !.new = NoOne]
               s == [life[u] EXCEPT !.at = "entry"]
    <2>1. life[t] \in LifeOf /\ life[u] \in LifeOf
      BY <1>0
    <2>2. /\ r \in LifeOf /\ r.at = "run" /\ r.pid = life[t].pid /\ r.accept = life[t].accept
          /\ r.info = life[t].info /\ r.sigevent = life[t].sigevent
      BY <2>1 DEF LifeOf, Stage
    <2>3. /\ s \in LifeOf /\ s.at = "entry" /\ s.pid = life[u].pid /\ s.accept = life[u].accept
          /\ s.info = life[u].info /\ s.sigevent = life[u].sigevent
      BY <2>1 DEF LifeOf, Stage, Early
    <2>4. /\ DOMAIN life' = LThread /\ life'[t] = r /\ life'[u] = s
          /\ \A w \in LThread \ {t, u} : life'[w] = life[w]
      BY <1>0, <1>1, <1>2, <1>3
    <2> HIDE DEF r, s
    <2>5. life' \in [LThread -> LifeOf]
      <3>1. \A w \in LThread : life'[w] \in LifeOf
        BY <1>0, <2>2, <2>3, <2>4
      <3>2. life' = [w \in LThread |-> life'[w]]
        BY <1>0, <1>1
      <3> QED BY <3>1, <3>2
    <2> QED BY <2>2, <2>3, <2>4, <2>5
  <1>5. LifeTypeOK'
    BY <1>0, <1>1, <1>4 DEF LifeTypeOK
  <1>6. Slots'
    <2>1. \A w \in LThread : Holds(w)' <=> Holds(w)
      BY <1>1, <1>2, <1>4 DEF Holds
    <2>2. life'[MainThread].at \notin Early \cup {"ready"} /\ (MainLeft => MainLeft')
      BY <1>0, <1>1, <1>2, <1>4, NamesAre DEF Slots, Ours, MainLeft, Early
    <2> QED BY <1>0, <1>1, <1>4, <2>1, <2>2, SlotsKept
  <1>7. Births'
    <2>1. ASSUME NEW w \in LThread, life'[w].at = "clone"
          PROVE  /\ w \notin {t, u} /\ life[w].at = "clone" /\ life'[w].new = life[w].new
                 /\ life[w].new \notin {t, u}
      <3>1. w \notin {t, u} /\ life[w].at = "clone" /\ life'[w].new = life[w].new
        BY <1>4, <2>1
      <3>2. life[w].new # u
        BY <1>0, <1>1, <1>2, <3>1 DEF Births
      <3>3. life[w].new # t
        BY <1>0, <1>1, <3>1 DEF Births
      <3> QED BY <3>1, <3>2, <3>3
    <2>2. \A w \in LThread : life'[w].at = "clone" =>
             life'[w].new \in LThread /\ life'[life'[w].new].at = "created"
      BY <1>0, <1>4, <2>1 DEF Births
    <2>3. \A w, v \in LThread : life'[w].at = "clone" /\ life'[v].at = "clone" /\ life'[w].new = life'[v].new => w = v
      BY <1>0, <2>1 DEF Births
    <2> QED BY <2>2, <2>3 DEF Births
  <1>8. Counts'
    <2>1. \A w \in LThread : /\ w \in Begun' <=> w \in Begun
                             /\ life[w].at \notin {"none", "gone"} => life'[w].at \notin {"none", "gone"}
      BY <1>1, <1>2, <1>4 DEF Begun
    <2> QED BY <1>0, <1>1, <2>1, CountsKept
  <1>9. Events'
    <2>1. \A w \in LThread :
             /\ HasEvent(w)' => HasEvent(w)
             /\ life'[w].accept => life[w].accept
             /\ life'[w].at = life[w].at \/ HasEvent(w)' \/ life'[w].at = "entry"
             /\ life'[w].at \notin Early => life[w].at \notin Early
             /\ life'[w].at \in Early \cup {"ready"} => life[w].at \in Early \cup {"ready"}
             /\ life'[w].at \in {"ready", "run", "clone"} => life[w].at \in {"ready", "run", "clone"}
      BY <1>1, <1>2, <1>4 DEF HasEvent, Early
    <2>2. ~life[u].accept
      BY <1>0, <1>2 DEF Events, EventOf, Early
    <2>3. \A w \in LThread : life'[w].at = "entry" /\ w # u => life'[w].at = life[w].at
      BY <1>4
    <2> QED BY <1>0, <1>1, <1>4, <2>1, <2>2, <2>3, EventsKept
  <1> QED BY <1>5, <1>6, <1>7, <1>8, <1>9 DEF LifeInv

(* What stands in the table after a pid was given out.                     *)
LEMMA AllocatedTable ==
  ASSUME LifeInv, Allocate
  PROVE  /\ ptable' \in [Pid -> [status : {"NOTEXIST", "RUNNING", "ZOMBIE"}, code : Outcome]]
         /\ \A q \in Pid : ptable'[q].status = (IF q = lastPid' THEN "RUNNING" ELSE ptable[q].status)
                           /\ ptable'[q].code = ptable[q].code
         /\ lastPid' \in Pid /\ mixed' \subseteq Pid
  <1> DEFINE p == lastPid'
  <1>1. ptable \in [Pid -> [status : {"NOTEXIST", "RUNNING", "ZOMBIE"}, code : Outcome]] /\ mixed \subseteq Pid
    BY DEF LifeInv, LifeTypeOK
  <1>2. /\ p \in Pid /\ ptable' = [ptable EXCEPT ![p].status = "RUNNING"]
        /\ mixed' \subseteq mixed \cup {p}
    BY AllocateGives
  <1> HIDE DEF p
  <1>3. /\ ptable' \in [Pid -> [status : {"NOTEXIST", "RUNNING", "ZOMBIE"}, code : Outcome]]
        /\ \A q \in Pid : ptable'[q].status = (IF q = p THEN "RUNNING" ELSE ptable[q].status)
                          /\ ptable'[q].code = ptable[q].code
    BY <1>1, <1>2
  <1>4. mixed' \subseteq Pid
    BY <1>1, <1>2
  <1> QED BY <1>2, <1>3, <1>4 DEF p

(* process_create_thread: a pid for the new thread.                        *)
LEMMA CreateThreadInv ==
  ASSUME LifeInv, NEW t \in LThread, NEW u \in LThread, process_create_thread(t, u)
  PROVE  LifeInv'
  <1>0. LifeTypeOK /\ Slots /\ Births /\ Counts /\ Events /\ life \in [LThread -> LifeOf]
    BY DEF LifeInv, LifeTypeOK
  <1>1. /\ life[t].at = "run" /\ life[u].at = "none" /\ Allocate /\ u # t
        /\ life' = [life EXCEPT ![t].at = "clone", ![t].new = u, ![u].at = "created", ![u].pid = lastPid']
        /\ UNCHANGED <<tableMutex, threadList, threadCount, tevents, sigThread, kin, signalsLeft, strayed>>
    BY DEF process_create_thread, Is
  <1>2. PICK p \in Pid : p = lastPid'
    BY <1>1, AllocatedTable
  <1>3. /\ ptable' \in [Pid -> [status : {"NOTEXIST", "RUNNING", "ZOMBIE"}, code : Outcome]]
        /\ \A q \in Pid : ptable'[q].status = (IF q = p THEN "RUNNING" ELSE ptable[q].status)
                          /\ ptable'[q].code = ptable[q].code
        /\ lastPid' \in Pid /\ mixed' \subseteq Pid
    BY <1>1, <1>2, AllocatedTable
  <1>4. /\ p \notin {1, 2} /\ mixed \subseteq mixed' /\ mixed' \subseteq {3} /\ (mixed' # {} => MainLeft)
        /\ p \notin mixed' => /\ \A w \in Others : Holds(w) => life[w].pid # p
                              /\ \A c \in Kin : Untold(c) => kin[c].pid # p
    BY <1>1, <1>2, AllocateGives
  <1>5. /\ life' \in [LThread -> LifeOf] /\ life'[t].at = "clone" /\ life'[t].new = u
        /\ life'[u].at = "created" /\ life'[u].pid = p /\ life'[t].pid = life[t].pid
        /\ \A w \in LThread \ {t, u} : life'[w] = life[w]
        /\ \A w \in LThread : /\ life'[w].accept = life[w].accept
                              /\ life'[w].info = life[w].info /\ life'[w].sigevent = life[w].sigevent
    <2> DEFINE r == [[life[t] EXCEPT !.at = "clone"] EXCEPT !.new = u]
               s == [[life[u] EXCEPT !.at = "created"] EXCEPT !.pid = p]
    <2>1. life[t] \in LifeOf /\ life[u] \in LifeOf
      BY <1>0
    <2>2. /\ r \in LifeOf /\ r.at = "clone" /\ r.pid = life[t].pid /\ r.accept = life[t].accept
          /\ r.info = life[t].info /\ r.sigevent = life[t].sigevent /\ r.new = u
      BY <2>1 DEF LifeOf, Stage
    <2>3. /\ s \in LifeOf /\ s.at = "created" /\ s.pid = p /\ s.accept = life[u].accept
          /\ s.info = life[u].info /\ s.sigevent = life[u].sigevent
      BY <2>1 DEF LifeOf, Stage, Early
    <2>4. /\ DOMAIN life' = LThread /\ life'[t] = r /\ life'[u] = s
          /\ \A w \in LThread \ {t, u} : life'[w] = life[w]
      BY <1>0, <1>1, <1>2
    <2> HIDE DEF r, s
    <2>5. life' \in [LThread -> LifeOf]
      <3>1. \A w \in LThread : life'[w] \in LifeOf
        BY <1>0, <2>2, <2>3, <2>4
      <3>2. life' = [w \in LThread |-> life'[w]]
        BY <1>0, <1>1
      <3> QED BY <3>1, <3>2
    <2> QED BY <2>2, <2>3, <2>4, <2>5
  <1>6. LifeTypeOK'
    BY <1>0, <1>1, <1>3, <1>5 DEF LifeTypeOK
  <1>7. Slots'
    <2>0. u \in Others /\ life[MainThread].at \notin Early
      BY <1>0, <1>1 DEF Slots, Ours, Early, Others
    <2>1. /\ \A w \in Others \ {u} : (Holds(w)' <=> Holds(w)) /\ life'[w].pid = life[w].pid
          /\ Holds(u)' /\ life'[u].pid = p
      BY <1>1, <1>5 DEF Holds, Others
    <2>2. /\ life'[MainThread].pid = life[MainThread].pid /\ life'[MainThread].at \notin Early \cup {"ready"}
          /\ MainLeft' <=> MainLeft
      BY <1>0, <1>1, <1>5, <2>0, NamesAre DEF Slots, Ours, MainLeft, Early
    <2>3. \A c \in Kin : Untold(c)' <=> Untold(c)
      BY <1>1 DEF Untold
    <2>10. Apart /\ Taken /\ kin' = kin
      BY <1>0, <1>1 DEF Slots
    <2>4. PidsDistinct'
      BY <1>4, <2>2 DEF PidsDistinct
    <2>5. Apart'
      <3>1. \A v, w \in Others : Holds(v)' /\ Holds(w)' /\ life'[v].pid = life'[w].pid => v = w \/ life'[v].pid \in mixed'
        <4>1. ASSUME NEW v \in Others \ {u}, Holds(v)', life'[v].pid = p PROVE p \in mixed'
          BY <1>4, <2>1, <4>1
        <4>2. ASSUME NEW v \in Others \ {u}, NEW w \in Others \ {u}, Holds(v)', Holds(w)',
                     life'[v].pid = life'[w].pid
              PROVE  v = w \/ life'[v].pid \in mixed'
          <5>1. Holds(v) /\ Holds(w) /\ life[v].pid = life[w].pid /\ life'[v].pid = life[v].pid
            BY <2>1, <4>2
          <5>2. v = w \/ life[v].pid \in mixed
            BY <2>10, <5>1 DEF Apart
          <5> QED BY <1>4, <5>1, <5>2
        <4> QED BY <2>1, <4>1, <4>2
      <3>2. ASSUME NEW v \in Others, NEW c \in Kin, Holds(v)', Untold(c)', life'[v].pid = kin'[c].pid
            PROVE  life'[v].pid \in mixed'
        <4>1. Untold(c) /\ kin'[c] = kin[c]
          BY <2>3, <2>10, <3>2
        <4>2. CASE v = u
          BY <1>4, <2>1, <3>2, <4>1, <4>2
        <4>3. CASE v # u
          <5>1. Holds(v) /\ life'[v].pid = life[v].pid
            BY <2>1, <3>2, <4>3
          <5> QED BY <1>4, <2>10, <3>2, <4>1, <5>1 DEF Apart
        <4> QED BY <4>2, <4>3
      <3>3. ASSUME NEW c \in Kin, NEW d \in Kin, Untold(c)', Untold(d)', kin'[c].pid = kin'[d].pid
            PROVE  c = d \/ kin'[c].pid \in mixed'
        <4>1. Untold(c) /\ Untold(d) /\ kin' = kin
          BY <2>3, <2>10, <3>3
        <4> QED BY <1>4, <2>10, <3>3, <4>1 DEF Apart
      <3> QED BY <3>1, <3>2, <3>3 DEF Apart
    <2>6. Taken'
      <3>1. \A w \in Others : Holds(w)' => /\ life'[w].pid \in Pid \ {1, 2}
                                           /\ ptable'[life'[w].pid].status # "NOTEXIST" \/ life'[w].pid \in mixed'
        <4>1. ptable'[p].status = "RUNNING" /\ p \in Pid \ {1, 2} /\ life'[u].pid = p
          BY <1>2, <1>3, <1>4, <2>1
        <4>2. ASSUME NEW w \in Others \ {u}, Holds(w)'
              PROVE  /\ life'[w].pid \in Pid \ {1, 2}
                     /\ ptable'[life'[w].pid].status # "NOTEXIST" \/ life'[w].pid \in mixed'
          <5>1. Holds(w) /\ life'[w].pid = life[w].pid
            BY <2>1, <4>2
          <5>2. life[w].pid \in Pid \ {1, 2} /\ (ptable[life[w].pid].status # "NOTEXIST" \/ life[w].pid \in mixed)
            BY <2>10, <5>1 DEF Taken
          <5> QED BY <1>3, <1>4, <5>1, <5>2
        <4> QED BY <4>1, <4>2
      <3>2. \A c \in Kin : Untold(c)' => /\ kin'[c].pid \in Pid \ {1, 2}
                                 /\ \/ ptable'[kin'[c].pid].status # "NOTEXIST" \/ kin'[c].pid \in mixed'
                                    \/ c = Us /\ MainLeft'
        BY <1>0, <1>1, <1>3, <1>4, <2>2, <2>3 DEF Slots, Taken
      <3>3. ptable'[1].status # "NOTEXIST" /\ ptable'[2].status # "NOTEXIST"
        BY <1>0, <1>3, <1>4, NamesAre DEF Slots, Taken
      <3> QED BY <3>1, <3>2, <3>3 DEF Taken
    <2>7. NoMore'
      <3> SUFFICES ASSUME NEW q \in Pid \ ({1, 2} \cup mixed'), ptable'[q].status # "NOTEXIST"
                   PROVE  \/ \E w \in Others : Holds(w)' /\ life'[w].pid = q
                          \/ \E c \in Kin : Untold(c)' /\ kin'[c].pid = q
        BY DEF NoMore
      <3>1. CASE q = p
        BY <2>0, <2>1, <3>1
      <3>2. CASE q # p
        <4>1. ptable[q].status # "NOTEXIST" /\ q \in Pid \ ({1, 2} \cup mixed)
          BY <1>3, <1>4, <3>2
        <4>2. CASE \E w \in Others : Holds(w) /\ life[w].pid = q
          <5>1. PICK w \in Others : Holds(w) /\ life[w].pid = q
            BY <4>2
          <5>2. w # u
            BY <1>1, <5>1 DEF Holds
          <5> QED BY <2>1, <5>1, <5>2
        <4>3. CASE \E c \in Kin : Untold(c) /\ kin[c].pid = q
          BY <1>1, <2>3, <4>3
        <4> QED BY <1>0, <4>1, <4>2, <4>3 DEF Slots, NoMore
      <3> QED BY <3>1, <3>2
    <2>8. Tells'
      <3> SUFFICES ASSUME NEW c \in Kin
                   PROVE  TellsOf(c)'
        BY DEF Tells
      <3>1. kin' = kin
        BY <1>1
      <3>2. ASSUME Untold(c), kin[c].pid \notin mixed'
            PROVE  kin[c].pid \notin mixed /\ ptable'[kin[c].pid].status = ptable[kin[c].pid].status
                   /\ ptable'[kin[c].pid].code = ptable[kin[c].pid].code
        BY <1>0, <1>3, <1>4, <3>2 DEF Slots, Taken
      <3> QED BY <1>0, <1>4, <2>3, <3>1, <3>2 DEF Slots, Tells, TellsOf
    <2>9. Ours'
      BY <1>0, <1>1, <2>2 DEF Slots, Ours
    <2> QED BY <2>4, <2>5, <2>6, <2>7, <2>8, <2>9 DEF Slots
  <1>8. Births'
    <2>1. ASSUME NEW w \in LThread \ {t}, life'[w].at = "clone"
          PROVE  /\ w \notin {t, u} /\ life[w].at = "clone" /\ life'[w].new = life[w].new
                 /\ life[w].new \notin {t, u}
      <3>1. w \notin {t, u} /\ life[w].at = "clone" /\ life'[w].new = life[w].new
        BY <1>5, <2>1
      <3> QED BY <1>0, <1>1, <3>1 DEF Births
    <2>2. \A w \in LThread : life'[w].at = "clone" =>
             life'[w].new \in LThread /\ life'[life'[w].new].at = "created"
      BY <1>0, <1>5, <2>1 DEF Births
    <2>3. \A w, v \in LThread : life'[w].at = "clone" /\ life'[v].at = "clone" /\ life'[w].new = life'[v].new => w = v
      BY <1>0, <1>5, <2>1 DEF Births
    <2> QED BY <2>2, <2>3 DEF Births
  <1>9. Counts'
    <2>1. \A w \in LThread : /\ w \in Begun' <=> w \in Begun
                             /\ life[w].at \notin {"none", "gone"} => life'[w].at \notin {"none", "gone"}
      BY <1>1, <1>5 DEF Begun
    <2> QED BY <1>0, <1>1, <2>1, CountsKept
  <1>10. Events'
    <2>1. \A w \in LThread :
             /\ HasEvent(w)' => HasEvent(w)
             /\ life'[w].accept => life[w].accept
             /\ life'[w].at = life[w].at \/ HasEvent(w)' \/ life'[w].at = "created"
             /\ life'[w].at \notin Early => life[w].at \notin Early
             /\ life'[w].at \in Early \cup {"ready"} => life[w].at \in Early \cup {"ready"}
             /\ life'[w].at \in {"ready", "run", "clone"} => life[w].at \in {"ready", "run", "clone"}
      BY <1>1, <1>5 DEF HasEvent, Early
    <2>2. ~life[u].accept
      BY <1>0, <1>1 DEF Events, EventOf, Early
    <2>3. \A w \in LThread : life'[w].at = "created" /\ w # u => life'[w].at = life[w].at
      BY <1>5
    <2> QED BY <1>0, <1>1, <1>5, <2>1, <2>2, <2>3, EventsKept
  <1> QED BY <1>6, <1>7, <1>8, <1>9, <1>10 DEF LifeInv

(* Who has a pid had it before: nothing can have come together, and the    *)
(* slots that were taken and still are tell so.                            *)
Fewer ==
  /\ \A t \in Others : Holds(t)' => Holds(t) /\ life'[t].pid = life[t].pid
  /\ \A c \in Kin : Untold(c)' => Untold(c) /\ kin'[c].pid = kin[c].pid
  /\ mixed' = mixed /\ (MainLeft => MainLeft')
Stays(p) == ptable[p].status # "NOTEXIST" => ptable'[p].status # "NOTEXIST"
LEMMA FewerApart ==
  ASSUME Apart, Fewer
  PROVE  Apart'
  BY DEF Apart, Fewer
LEMMA FewerTaken ==
  ASSUME Taken, Fewer, Stays(1), Stays(2),
         \A t \in Others : Holds(t)' => Stays(life[t].pid) \/ life[t].pid \in mixed,
         \A c \in Kin : Untold(c)' => Stays(kin[c].pid) \/ kin[c].pid \in mixed \/ (c = Us /\ MainLeft')
  PROVE  Taken'
  <1>1. ASSUME NEW t \in Others, Holds(t)'
        PROVE  /\ life'[t].pid \in Pid \ {1, 2}
               /\ ptable'[life'[t].pid].status # "NOTEXIST" \/ life'[t].pid \in mixed'
    BY <1>1 DEF Taken, Fewer, Stays
  <1>2. ASSUME NEW c \in Kin, Untold(c)'
        PROVE  /\ kin'[c].pid \in Pid \ {1, 2}
               /\ \/ ptable'[kin'[c].pid].status # "NOTEXIST" \/ kin'[c].pid \in mixed'
                  \/ c = Us /\ MainLeft'
    BY <1>2 DEF Taken, Fewer, Stays
  <1>3. ptable'[1].status # "NOTEXIST" /\ ptable'[2].status # "NOTEXIST"
    BY DEF Taken, Stays
  <1> QED BY <1>1, <1>2, <1>3 DEF Taken

(* FreeSlot: the slot is nobody's any more, unless it is the process'.     *)
LEMMA FreeSlotInv ==
  ASSUME LifeInv, NEW t \in LThread, FreeSlot(t)
  PROVE  LifeInv'
  <1>0. /\ LifeTypeOK /\ Slots /\ Births /\ Counts /\ Events /\ "count" \in Stage
        /\ ptable \in [Pid -> [status : {"NOTEXIST", "RUNNING", "ZOMBIE"}, code : Outcome]]
        /\ life \in [LThread -> LifeOf]
    BY DEF LifeInv, LifeTypeOK, Stage
  <1>1. /\ kin[Us].alive /\ life[t].at = "table" /\ tableMutex = NoOne /\ Move(t, "count")
        /\ ptable' = [ptable EXCEPT ![life[t].pid] = Entry("NOTEXIST", t)]
        /\ UNCHANGED <<lastPid, tableMutex, threadList, threadCount, tevents, sigThread, kin,
                       signalsLeft, mixed, strayed>>
    BY DEF FreeSlot, Is
  <1>2. /\ life' \in [LThread -> LifeOf] /\ life'[t].at = "count"
        /\ \A u \in LThread \ {t} : life'[u] = life[u]
        /\ \A u \in LThread : /\ life'[u].pid = life[u].pid /\ life'[u].accept = life[u].accept
                              /\ life'[u].info = life[u].info /\ life'[u].sigevent = life[u].sigevent
                              /\ life'[u].new = life[u].new
    BY <1>0, <1>1, MoveIs
  <1>3. PICK p \in Pid \ {1, 2} : p = life[t].pid /\ (t = MainThread => p = 3)
    <2>1. CASE t = MainThread
      BY <1>0, <2>1, NamesAre DEF Slots, Ours
    <2>2. CASE t # MainThread
      <3>1. t \in Others /\ Holds(t)
        BY <1>1, <2>2 DEF Others, Holds
      <3> QED BY <1>0, <2>2, <3>1 DEF Slots, Taken
    <2> QED BY <2>1, <2>2
  <1>4. /\ ptable' \in [Pid -> [status : {"NOTEXIST", "RUNNING", "ZOMBIE"}, code : Outcome]]
        /\ ptable'[p].status = "NOTEXIST" /\ \A q \in Pid \ {p} : ptable'[q] = ptable[q]
    <2>1. Entry("NOTEXIST", t) \in [status : {"NOTEXIST", "RUNNING", "ZOMBIE"}, code : Outcome]
          /\ Entry("NOTEXIST", t).status = "NOTEXIST"
      BY DEF Entry, Outcome
    <2> QED BY <1>0, <1>1, <1>3, <2>1
  <1>5. LifeTypeOK'
    BY <1>0, <1>1, <1>2, <1>4 DEF LifeTypeOK
  <1>6. Slots'
    <2>1. /\ \A w \in Others \ {t} : (Holds(w)' <=> Holds(w))
          /\ ~Holds(t)' /\ \A w \in Others : life'[w].pid = life[w].pid
      BY <1>1, <1>2 DEF Holds, Others
    <2>2. /\ life'[MainThread].pid = life[MainThread].pid /\ life'[MainThread].at \notin Early \cup {"ready"}
          /\ (MainLeft => MainLeft') /\ (t = MainThread => MainLeft')
      BY <1>0, <1>1, <1>2, NamesAre DEF Slots, Ours, MainLeft, Early
    <2>3. \A c \in Kin : (Untold(c)' <=> Untold(c)) /\ kin'[c] = kin[c]
      BY <1>1 DEF Untold
    <2>4. PidsDistinct'
      BY <1>0, <1>1, <2>2 DEF Slots, PidsDistinct
    <2>6. ASSUME NEW w \in Others \ {t}, Holds(w), life[w].pid = p
          PROVE  p \in mixed
      <3>1. CASE t = MainThread
        <4>1. Untold(Us) /\ kin[Us].pid = 3 /\ p = 3
          BY <1>0, <1>1, <1>3, <3>1, NamesAre DEF Slots, Tells, TellsOf, Ours, Untold
        <4> QED BY <1>0, <2>6, <4>1, NamesAre DEF Slots, Apart
      <3>2. CASE t # MainThread
        <4>1. t \in Others /\ Holds(t)
          BY <1>1, <3>2 DEF Others, Holds
        <4> QED BY <1>0, <1>3, <2>6, <4>1 DEF Slots, Apart
      <3> QED BY <3>1, <3>2
    <2>7. ASSUME NEW c \in Kin, Untold(c), kin[c].pid = p
          PROVE  p \in mixed \/ (c = Us /\ t = MainThread)
      <3>1. CASE t = MainThread
        <4>1. Untold(Us) /\ kin[Us].pid = 3 /\ p = 3
          BY <1>0, <1>1, <1>3, <3>1, NamesAre DEF Slots, Tells, TellsOf, Ours, Untold
        <4> QED BY <1>0, <2>7, <3>1, <4>1, NamesAre DEF Slots, Apart
      <3>2. CASE t # MainThread
        <4>1. t \in Others /\ Holds(t)
          BY <1>1, <3>2 DEF Others, Holds
        <4> QED BY <1>0, <1>3, <2>7, <4>1 DEF Slots, Apart
      <3> QED BY <3>1, <3>2
    <2>30. Fewer
      BY <1>1, <2>1, <2>2, <2>3 DEF Fewer
    <2>31. \A q \in Pid \ {p} : Stays(q)
      BY <1>4 DEF Stays
    <2>5. Apart'
      BY <1>0, <2>30, FewerApart DEF Slots
    <2>8. Taken'
      <3>1. Stays(1) /\ Stays(2)
        BY <2>31, NamesAre
      <3>2. ASSUME NEW w \in Others, Holds(w)' PROVE Stays(life[w].pid) \/ life[w].pid \in mixed
        <4>1. w # t /\ Holds(w)
          BY <2>1, <3>2
        <4>2. life[w].pid \in Pid
          BY <1>0, <4>1 DEF Slots, Taken
        <4> QED BY <2>6, <2>31, <4>1, <4>2
      <3>3. ASSUME NEW c \in Kin, Untold(c)'
            PROVE  Stays(kin[c].pid) \/ kin[c].pid \in mixed \/ (c = Us /\ MainLeft')
        <4>1. Untold(c)
          BY <2>3, <3>3
        <4>2. kin[c].pid \in Pid
          BY <1>0, <4>1 DEF Slots, Taken
        <4> QED BY <2>2, <2>7, <2>31, <4>1, <4>2
      <3>4. Taken
        BY <1>0 DEF Slots
      <3> QED BY <2>30, <3>1, <3>2, <3>3, <3>4, FewerTaken
    <2>9. NoMore'
      <3> SUFFICES ASSUME NEW q \in Pid \ ({1, 2} \cup mixed'), ptable'[q].status # "NOTEXIST"
                   PROVE  \/ \E w \in Others : Holds(w)' /\ life'[w].pid = q
                          \/ \E c \in Kin : Untold(c)' /\ kin'[c].pid = q
        BY DEF NoMore
      <3>1. q # p /\ ptable[q].status # "NOTEXIST" /\ q \in Pid \ ({1, 2} \cup mixed)
        BY <1>1, <1>4
      <3>2. CASE \E w \in Others : Holds(w) /\ life[w].pid = q
        BY <1>3, <2>1, <3>1, <3>2
      <3>3. CASE \E c \in Kin : Untold(c) /\ kin[c].pid = q
        BY <2>3, <3>3
      <3> QED BY <1>0, <3>1, <3>2, <3>3 DEF Slots, NoMore
    <2>10. Tells'
      <3>1. ASSUME NEW c \in Kin, Untold(c), kin[c].pid \notin mixed
            PROVE  \/ ptable'[kin[c].pid] = ptable[kin[c].pid]
                   \/ c = Us /\ ptable'[kin[c].pid].status = "NOTEXIST" /\ kin[c].ended = "no" /\ kin[c].alive
        <4>1. CASE kin[c].pid = p
          BY <1>0, <1>1, <1>4, <2>7, <3>1, <4>1 DEF Slots, Ours
        <4>2. CASE kin[c].pid # p
          BY <1>0, <1>4, <3>1, <4>2 DEF Slots, Taken
        <4> QED BY <4>1, <4>2
      <3> QED BY <1>0, <1>1, <2>3, <3>1 DEF Slots, Tells, TellsOf
    <2>11. Ours'
      BY <1>0, <1>1, <2>2 DEF Slots, Ours
    <2> QED BY <2>4, <2>5, <2>8, <2>9, <2>10, <2>11 DEF Slots
  <1>7. Births'
    BY <1>0, <1>1, <1>2, BirthsKept
  <1>8. Counts'
    BY <1>0, <1>1, <1>2, CountsKept DEF Begun
  <1>9. Events'
    <2>1. ~life[t].accept
      BY <1>0, <1>1 DEF Events, EventOf, HasEvent
    <2> QED BY <1>0, <1>1, <1>2, <2>1, EventsKept DEF HasEvent, Early
  <1> QED BY <1>5, <1>6, <1>7, <1>8, <1>9 DEF LifeInv

(* What the ends of processes leave alone.                                 *)
LEMMA ThreadsKept ==
  ASSUME LifeInv, UNCHANGED <<life, threadCount, tevents, sigThread, strayed>>
  PROVE  Births' /\ Counts' /\ Events'
  <1>1. \A t \in LThread : (HasEvent(t)' <=> HasEvent(t)) /\ (t \in Begun' <=> t \in Begun)
    BY DEF HasEvent, Begun
  <1>2. Births'
    BY BirthsKept DEF LifeInv
  <1>3. Counts'
    BY <1>1, CountsKept DEF LifeInv
  <1>4. Events'
    BY <1>1, EventsKept DEF LifeInv
  <1> QED BY <1>2, <1>3, <1>4

(* What the slot of a child tells, when neither has changed.               *)
LEMMA TellsKept ==
  ASSUME NEW c \in Kin, TellsOf(c), kin'[c] = kin[c], mixed' = mixed,
         Untold(c) /\ kin[c].pid \notin mixed => ptable'[kin[c].pid] = ptable[kin[c].pid]
  PROVE  TellsOf(c)'
  <1>1. Untold(c)' <=> Untold(c)
    BY DEF Untold
  <1>2. Untold(c)' /\ kin'[c].pid \notin mixed' =>
          /\ ptable'[kin'[c].pid].status = "ZOMBIE" =>
               ptable'[kin'[c].pid].code = kin'[c].ended /\ kin'[c].ended # "no"
          /\ ptable'[kin'[c].pid].status # "ZOMBIE" => kin'[c].ended = IF kin'[c].alive THEN "no" ELSE "killed"
    BY <1>1 DEF TellsOf
  <1>3. /\ kin'[c].told # "no" => /\ ~kin'[c].alive /\ kin'[c].pid # 0
                                  /\ kin'[c].pid \in mixed' \/ kin'[c].told = kin'[c].ended
        /\ kin'[c].pid = 0 => ~kin'[c].alive /\ kin'[c].told = "no" /\ kin'[c].ended = "no"
        /\ kin'[c].alive /\ c # Us => kin'[c].ended = "no"
    BY DEF TellsOf
  <1> QED BY <1>2, <1>3 DEF TellsOf

(* process_exit: the slot says how it ended, and the mutex is kept.        *)
LEMMA ProcessExitInv ==
  ASSUME LifeInv, NEW who \in LThread \cup {"signal thread"}, NEW code \in LThread \cup {"signal"},
         kin[Us].alive, process_exit(who, code), UNCHANGED <<life, sigThread>>
  PROVE  LifeInv'
  <1>0. /\ LifeTypeOK /\ Slots
        /\ ptable \in [Pid -> [status : {"NOTEXIST", "RUNNING", "ZOMBIE"}, code : Outcome]]
        /\ kin \in [Kin -> [pid : {0} \cup Pid, alive : BOOLEAN, ended : Outcome, told : Outcome]]
        /\ who # NoOne /\ code # "no"
    BY LifeAssumption DEF LifeInv, LifeTypeOK
  <1>1. /\ tableMutex = NoOne /\ tableMutex' = who
        /\ ptable' = [ptable EXCEPT ![kin[Us].pid] = Entry("ZOMBIE", code)]
        /\ kin' = [kin EXCEPT ![Us].ended = code]
        /\ UNCHANGED <<life, sigThread, lastPid, threadList, threadCount, tevents, signalsLeft, mixed, strayed>>
    BY DEF process_exit
  <1>2. kin[Us].pid = 3 /\ Us \in Kin /\ 3 \in Pid /\ Untold(Us)
    BY <1>0, NamesAre DEF Slots, Ours, Tells, TellsOf, Untold
  <1>3. /\ ptable' \in [Pid -> [status : {"NOTEXIST", "RUNNING", "ZOMBIE"}, code : Outcome]]
        /\ ptable'[3].status = "ZOMBIE" /\ ptable'[3].code = code
        /\ \A q \in Pid \ {3} : ptable'[q] = ptable[q]
    <2>1. Entry("ZOMBIE", code) \in [status : {"NOTEXIST", "RUNNING", "ZOMBIE"}, code : Outcome]
          /\ Entry("ZOMBIE", code).status = "ZOMBIE" /\ Entry("ZOMBIE", code).code = code
      BY DEF Entry, Outcome
    <2> QED BY <1>0, <1>1, <1>2, <2>1
  <1>4. /\ kin' \in [Kin -> [pid : {0} \cup Pid, alive : BOOLEAN, ended : Outcome, told : Outcome]]
        /\ kin'[Us].ended = code /\ \A c \in Kin \ {Us} : kin'[c] = kin[c]
        /\ \A c \in Kin : kin'[c].pid = kin[c].pid /\ kin'[c].alive = kin[c].alive /\ kin'[c].told = kin[c].told
    <2>1. code \in Outcome
      BY DEF Outcome
    <2> QED BY <1>0, <1>1, <1>2, <2>1
  <1>5. LifeTypeOK'
    <2>1. lastPid' = lastPid /\ life' = life /\ tableMutex' \in LThread \cup {"signal thread", NoOne}
          /\ UNCHANGED <<sigThread, threadList, threadCount, tevents, signalsLeft, mixed, strayed>>
      BY <1>1
    <2>2. LifeTypeOK
      BY <1>0
    <2> QED BY <1>3, <1>4, <2>1, <2>2 DEF LifeTypeOK
  <1>6. Slots'
    <2>1. \A w \in Others : (Holds(w)' <=> Holds(w)) /\ life'[w].pid = life[w].pid
      BY <1>1 DEF Holds
    <2>2. (MainLeft' <=> MainLeft) /\ life'[MainThread] = life[MainThread]
      BY <1>1 DEF MainLeft
    <2>3. \A c \in Kin : Untold(c)' <=> Untold(c)
      BY <1>4 DEF Untold
    <2>4. PidsDistinct'
      BY <1>0, <1>1, <2>2 DEF Slots, PidsDistinct
    <2>30. Fewer
      BY <1>1, <1>4, <2>1, <2>2, <2>3 DEF Fewer
    <2>31. \A q \in Pid : Stays(q)
      BY <1>3 DEF Stays
    <2>5. Apart'
      BY <1>0, <2>30, FewerApart DEF Slots
    <2>6. Taken'
      <3>1. \A w \in Others : Holds(w)' => Stays(life[w].pid)
        BY <1>0, <2>1, <2>31 DEF Slots, Taken
      <3>2. \A c \in Kin : Untold(c)' => Stays(kin[c].pid)
        BY <1>0, <2>3, <2>31 DEF Slots, Taken
      <3> QED BY <1>0, <2>30, <2>31, <3>1, <3>2, NamesAre, FewerTaken DEF Slots
    <2>7. NoMore'
      <3> SUFFICES ASSUME NEW q \in Pid \ ({1, 2} \cup mixed'), ptable'[q].status # "NOTEXIST"
                   PROVE  \/ \E w \in Others : Holds(w)' /\ life'[w].pid = q
                          \/ \E c \in Kin : Untold(c)' /\ kin'[c].pid = q
        BY DEF NoMore
      <3>1. CASE q = 3
        BY <1>2, <1>4, <2>3, <3>1
      <3>2. CASE q # 3
        <4>1. ptable[q].status # "NOTEXIST" /\ q \in Pid \ ({1, 2} \cup mixed)
          BY <1>1, <1>3, <3>2
        <4>2. \/ \E w \in Others : Holds(w) /\ life[w].pid = q
              \/ \E c \in Kin : Untold(c) /\ kin[c].pid = q
          BY <1>0, <4>1 DEF Slots, NoMore
        <4> QED BY <1>4, <2>1, <2>3, <4>2
      <3> QED BY <3>1, <3>2
    <2>8. Tells'
      <3>1. \A c \in Kin \ {Us} : Untold(c) /\ kin[c].pid \notin mixed => ptable'[kin[c].pid] = ptable[kin[c].pid]
        BY <1>0, <1>2, <1>3 DEF Slots, Apart, Taken
      <3>2. kin[Us].ended = "no" /\ Tells /\ mixed' = mixed
        BY <1>0, <1>1 DEF Slots, Ours
      <3>3. ASSUME NEW c \in Kin \ {Us} PROVE (Untold(c)' <=> Untold(c)) /\ kin'[c] = kin[c]
        BY <1>4, <2>3
      <3> SUFFICES ASSUME NEW c \in Kin
                   PROVE  TellsOf(c)'
        BY DEF Tells
      <3>4. CASE c = Us
        <4>1. kin'[c].pid = 3 /\ kin'[c].ended = code /\ kin'[c].told = "no"
          BY <1>2, <1>4, <3>4 DEF Untold
        <4>2. kin'[c].alive
          BY <1>4, <3>4
        <4>3. 3 # 0
          BY NamesAre
        <4> QED BY <1>0, <1>3, <3>4, <4>1, <4>2, <4>3 DEF TellsOf
      <3>5. CASE c # Us
        <4>1. TellsOf(c) /\ kin'[c] = kin[c] /\ mixed' = mixed
          BY <3>2, <3>3, <3>5 DEF Tells
        <4>2. Untold(c) /\ kin[c].pid \notin mixed => ptable'[kin[c].pid] = ptable[kin[c].pid]
          BY <3>1, <3>5
        <4> QED BY <4>1, <4>2, TellsKept
      <3> QED BY <3>4, <3>5
    <2>9. Ours'
      BY <1>0, <1>1, <1>4, <2>2, NamesAre DEF Slots, Ours
    <2> QED BY <2>4, <2>5, <2>6, <2>7, <2>8, <2>9 DEF Slots
  <1>7. Births' /\ Counts' /\ Events'
    BY <1>1, ThreadsKept
  <1> QED BY <1>5, <1>6, <1>7 DEF LifeInv

(* The end of a child for Windows: it lives no more, but it has its pid    *)
(* until it is collected.                                                  *)
Ended(c, code) ==
  /\ kin' \in [Kin -> [pid : {0} \cup Pid, alive : BOOLEAN, ended : Outcome, told : Outcome]]
  /\ kin'[c].alive = FALSE /\ kin'[c].ended = code /\ \A d \in Kin \ {c} : kin'[d] = kin[d]
  /\ \A d \in Kin : kin'[d].pid = kin[d].pid /\ kin'[d].told = kin[d].told
LEMMA EndedIs ==
  ASSUME LifeTypeOK, NEW c \in Kin, NEW code \in Outcome,
         kin' = [kin EXCEPT ![c].alive = FALSE, ![c].ended = code]
  PROVE  Ended(c, code)
  <1> DEFINE Child == [pid : {0} \cup Pid, alive : BOOLEAN, ended : Outcome, told : Outcome]
             r == [[kin[c] EXCEPT !.alive = FALSE] EXCEPT !.ended = code]
  <1>1. kin \in [Kin -> Child]
    BY DEF LifeTypeOK
  <1>2. kin[c] \in Child
    BY <1>1
  <1>3. r \in Child /\ r.alive = FALSE /\ r.ended = code /\ r.pid = kin[c].pid /\ r.told = kin[c].told
    BY <1>2
  <1>4. kin' = [kin EXCEPT ![c] = r]
    BY <1>1
  <1> HIDE DEF r, Child
  <1>5. /\ kin' \in [Kin -> Child] /\ kin'[c] = r /\ \A d \in Kin \ {c} : kin'[d] = kin[d]
    BY <1>1, <1>3, <1>4
  <1> QED BY <1>3, <1>5 DEF Ended, Child

(* ProcessGone: the slot was written before, or nothing of it will be.     *)
LEMMA ProcessGoneInv ==
  ASSUME LifeInv, NEW killed \in BOOLEAN, ProcessGone(killed)
  PROVE  LifeInv'
  <1>0. LifeTypeOK /\ Slots /\ Us \in Kin /\ 3 # 0
    BY NamesAre DEF LifeInv
  <1>1. /\ kin[Us].alive /\ tableMutex' = NoOne
        /\ kin' = [kin EXCEPT ![Us].alive = FALSE, ![Us].ended = IF @ = "no" THEN "killed" ELSE @]
        /\ UNCHANGED <<ptable, lastPid, life, threadList, threadCount, tevents, sigThread,
                       signalsLeft, mixed, strayed>>
    BY DEF ProcessGone
  <1>2. PICK code \in Outcome : code = IF kin[Us].ended = "no" THEN "killed" ELSE kin[Us].ended
    <2>1. kin[Us].ended \in Outcome
      BY <1>0 DEF LifeTypeOK
    <2> QED BY <2>1 DEF Outcome
  <1>3. Ended(Us, code)
    <2>1. kin' = [kin EXCEPT ![Us].alive = FALSE, ![Us].ended = code]
      BY <1>1, <1>2
    <2> QED BY <1>0, <2>1, EndedIs
  <1>4. LifeTypeOK'
    BY <1>0, <1>1, <1>3 DEF LifeTypeOK, Ended
  <1>5. Slots'
    <2>1. \A w \in Others : (Holds(w)' <=> Holds(w)) /\ life'[w].pid = life[w].pid
      BY <1>1 DEF Holds
    <2>2. (MainLeft' <=> MainLeft) /\ life'[MainThread] = life[MainThread]
      BY <1>1 DEF MainLeft
    <2>3. \A c \in Kin : (Untold(c)' <=> Untold(c)) /\ kin'[c].pid = kin[c].pid
      BY <1>3 DEF Untold, Ended
    <2>4. PidsDistinct'
      BY <1>0, <1>1, <2>2 DEF Slots, PidsDistinct
    <2>30. mixed' = mixed /\ ptable' = ptable
      BY <1>1
    <2>31. Fewer
      BY <2>1, <2>2, <2>3, <2>30 DEF Fewer
    <2>5. Apart'
      BY <1>0, <2>31, FewerApart DEF Slots
    <2>6. Taken'
      <3>1. \A p : Stays(p)
        BY <2>30 DEF Stays
      <3> QED BY <1>0, <2>31, <3>1, FewerTaken DEF Slots
    <2>7. NoMore'
      BY <1>0, <2>1, <2>3, <2>30 DEF Slots, NoMore
    <2>8. Tells'
      <3> SUFFICES ASSUME NEW c \in Kin PROVE TellsOf(c)'
        BY DEF Tells
      <3>1. TellsOf(c)
        BY <1>0 DEF Slots, Tells
      <3>2. CASE c # Us
        <4>1. kin'[c] = kin[c] /\ mixed' = mixed /\ ptable' = ptable
          BY <1>1, <1>3, <3>2 DEF Ended
        <4> QED BY <3>1, <4>1, TellsKept
      <3>3. CASE c = Us
        <4>1. /\ kin'[c].alive = FALSE /\ kin'[c].ended = code /\ kin'[c].pid = kin[c].pid
              /\ kin'[c].told = kin[c].told /\ kin[c].told = "no" /\ kin[c].pid # 0 /\ code # "no"
          BY <1>0, <1>1, <1>2, <1>3, <3>1, <3>3 DEF Ended, TellsOf
        <4>2. ASSUME kin[c].pid \notin mixed
              PROVE  /\ ptable'[kin[c].pid].status = "ZOMBIE" => ptable'[kin[c].pid].code = code
                     /\ ptable'[kin[c].pid].status # "ZOMBIE" => code = "killed"
          <5>1. Untold(c)
            BY <4>1 DEF Untold
          <5> QED BY <1>1, <1>2, <3>1, <3>3, <4>2, <5>1 DEF TellsOf
        <4> QED BY <1>1, <4>1, <4>2 DEF TellsOf
      <3> QED BY <3>2, <3>3
    <2>9. Ours'
      BY <1>0, <1>1, <1>3, <2>2 DEF Slots, Ours, Ended
    <2> QED BY <2>4, <2>5, <2>6, <2>7, <2>8, <2>9 DEF Slots
  <1>6. Births' /\ Counts' /\ Events'
    BY <1>1, ThreadsKept
  <1> QED BY <1>4, <1>5, <1>6 DEF LifeInv

(* StrangerGone: it writes its slot, unless it is killed.                  *)
LEMMA StrangerGoneInv ==
  ASSUME LifeInv, NEW c \in Stranger, NEW killed \in BOOLEAN, StrangerGone(c, killed)
  PROVE  LifeInv'
  <1>0. /\ LifeTypeOK /\ Slots /\ Us \in Kin /\ c \in Kin /\ c # Us /\ c # "no"
        /\ ptable \in [Pid -> [status : {"NOTEXIST", "RUNNING", "ZOMBIE"}, code : Outcome]]
    BY NamesAre, LifeAssumption DEF LifeInv, LifeTypeOK, Kin
  <1>1. /\ kin[c].alive /\ (killed \/ tableMutex = NoOne)
        /\ ptable' = IF killed THEN ptable ELSE [ptable EXCEPT ![kin[c].pid] = Entry("ZOMBIE", c)]
        /\ kin' = [kin EXCEPT ![c].alive = FALSE, ![c].ended = IF killed THEN "killed" ELSE c]
        /\ UNCHANGED <<lastPid, tableMutex, life, threadList, threadCount, tevents, sigThread,
                       signalsLeft, mixed, strayed>>
    BY DEF StrangerGone
  <1>2. PICK code \in Outcome : code = (IF killed THEN "killed" ELSE c) /\ code # "no"
    BY <1>0 DEF Outcome
  <1>3. Ended(c, code)
    BY <1>0, <1>1, <1>2, EndedIs
  <1>4. PICK p \in Pid \ {1, 2} : p = kin[c].pid /\ kin[c].ended = "no" /\ Untold(c)
    <2>1. TellsOf(c)
      BY <1>0 DEF Slots, Tells
    <2>2. Untold(c) /\ kin[c].ended = "no"
      BY <1>0, <1>1, <2>1 DEF TellsOf, Untold
    <2> QED BY <1>0, <2>2 DEF Slots, Taken
  <1>5. /\ ptable' \in [Pid -> [status : {"NOTEXIST", "RUNNING", "ZOMBIE"}, code : Outcome]]
        /\ \A q \in Pid \ {p} : ptable'[q] = ptable[q]
        /\ IF killed THEN ptable'[p] = ptable[p] ELSE ptable'[p].status = "ZOMBIE" /\ ptable'[p].code = c
    <2>1. Entry("ZOMBIE", c) \in [status : {"NOTEXIST", "RUNNING", "ZOMBIE"}, code : Outcome]
          /\ Entry("ZOMBIE", c).status = "ZOMBIE" /\ Entry("ZOMBIE", c).code = c
      BY DEF Entry, Outcome
    <2>2. CASE killed
      BY <1>0, <1>1, <2>2
    <2>3. CASE ~killed
      BY <1>0, <1>1, <1>4, <2>1, <2>3
    <2> QED BY <2>2, <2>3
  <1>6. LifeTypeOK'
    BY <1>0, <1>1, <1>3, <1>5 DEF LifeTypeOK, Ended
  <1>7. Slots'
    <2>1. \A w \in Others : (Holds(w)' <=> Holds(w)) /\ life'[w].pid = life[w].pid
      BY <1>1 DEF Holds
    <2>2. (MainLeft' <=> MainLeft) /\ life'[MainThread] = life[MainThread]
      BY <1>1 DEF MainLeft
    <2>3. \A d \in Kin : (Untold(d)' <=> Untold(d)) /\ kin'[d].pid = kin[d].pid
      BY <1>3 DEF Untold, Ended
    <2>4. PidsDistinct'
      BY <1>0, <1>1, <2>2 DEF Slots, PidsDistinct
    <2>30. Fewer
      BY <1>1, <2>1, <2>2, <2>3 DEF Fewer
    <2>31. \A q \in Pid : Stays(q)
      BY <1>5 DEF Stays
    <2>5. Apart'
      BY <1>0, <2>30, FewerApart DEF Slots
    <2>6. Taken'
      <3>1. \A w \in Others : Holds(w)' => Stays(life[w].pid)
        BY <1>0, <2>1, <2>31 DEF Slots, Taken
      <3>2. \A d \in Kin : Untold(d)' => Stays(kin[d].pid)
        BY <1>0, <2>3, <2>31 DEF Slots, Taken
      <3> QED BY <1>0, <2>30, <2>31, <3>1, <3>2, NamesAre, FewerTaken DEF Slots
    <2>7. NoMore'
      <3> SUFFICES ASSUME NEW q \in Pid \ ({1, 2} \cup mixed'), ptable'[q].status # "NOTEXIST"
                   PROVE  \/ \E w \in Others : Holds(w)' /\ life'[w].pid = q
                          \/ \E d \in Kin : Untold(d)' /\ kin'[d].pid = q
        BY DEF NoMore
      <3>1. CASE q = p
        BY <1>0, <1>4, <2>3, <3>1
      <3>2. CASE q # p
        <4>1. ptable[q].status # "NOTEXIST" /\ q \in Pid \ ({1, 2} \cup mixed)
          BY <1>1, <1>5, <3>2
        <4>2. \/ \E w \in Others : Holds(w) /\ life[w].pid = q
              \/ \E d \in Kin : Untold(d) /\ kin[d].pid = q
          BY <1>0, <4>1 DEF Slots, NoMore
        <4> QED BY <2>1, <2>3, <4>2
      <3> QED BY <3>1, <3>2
    <2>8. Tells'
      <3> SUFFICES ASSUME NEW d \in Kin PROVE TellsOf(d)'
        BY DEF Tells
      <3>1. TellsOf(d) /\ TellsOf(c)
        BY <1>0 DEF Slots, Tells
      <3>2. CASE d # c
        <4>1. kin'[d] = kin[d] /\ mixed' = mixed
          BY <1>1, <1>3, <3>2 DEF Ended
        <4>2. ASSUME Untold(d), kin[d].pid \notin mixed PROVE ptable'[kin[d].pid] = ptable[kin[d].pid]
          <5>1. kin[d].pid # p /\ kin[d].pid \in Pid
            BY <1>0, <1>4, <3>2, <4>2 DEF Slots, Apart, Taken
          <5> QED BY <1>5, <5>1
        <4> QED BY <3>1, <4>1, <4>2, TellsKept
      <3>3. CASE d = c
        <4>1. /\ kin'[d].alive = FALSE /\ kin'[d].ended = code /\ kin'[d].pid = p
              /\ kin'[d].told = "no" /\ p # 0
          BY <1>3, <1>4, <3>3 DEF Ended, Untold
        <4>2. ASSUME p \notin mixed
              PROVE  /\ ptable'[p].status = "ZOMBIE" => ptable'[p].code = code
                     /\ ptable'[p].status # "ZOMBIE" => code = "killed"
          <5>1. CASE killed
            BY <1>2, <1>4, <1>5, <3>1, <4>2, <5>1 DEF TellsOf
          <5>2. CASE ~killed
            BY <1>2, <1>5, <5>2
          <5> QED BY <5>1, <5>2
        <4> QED BY <1>1, <1>2, <4>1, <4>2 DEF TellsOf
      <3> QED BY <3>2, <3>3
    <2>9. Ours'
      BY <1>0, <1>1, <1>3, <2>2 DEF Slots, Ours, Ended
    <2> QED BY <2>4, <2>5, <2>6, <2>7, <2>8, <2>9 DEF Slots
  <1>8. Births' /\ Counts' /\ Events'
    BY <1>1, ThreadsKept
  <1> QED BY <1>6, <1>7, <1>8 DEF LifeInv

(* Reap: the child is told of as its slot has it, and the slot is free.    *)
LEMMA ReapInv ==
  ASSUME LifeInv, NEW c \in Kin, Reap(c)
  PROVE  LifeInv'
  <1> DEFINE Child == [pid : {0} \cup Pid, alive : BOOLEAN, ended : Outcome, told : Outcome]
             Slot == [status : {"NOTEXIST", "RUNNING", "ZOMBIE"}, code : Outcome]
  <1>0. LifeTypeOK /\ Slots /\ Us \in Kin /\ ptable \in [Pid -> Slot] /\ kin \in [Kin -> Child] /\ 0 \notin Pid
    BY NamesAre DEF LifeInv, LifeTypeOK
  <1>1. /\ kin[c].pid # 0 /\ ~kin[c].alive /\ kin[c].told = "no" /\ Untold(c)
        /\ kin' = [kin EXCEPT ![c].told = IF ptable[kin[c].pid].status = "ZOMBIE" THEN ptable[kin[c].pid].code
                                          ELSE "killed"]
        /\ ptable' = [ptable EXCEPT ![kin[c].pid].status = "NOTEXIST"]
        /\ UNCHANGED <<lastPid, tableMutex, life, threadList, threadCount, tevents, sigThread,
                       signalsLeft, mixed, strayed>>
    BY DEF Reap, Untold
  <1>2. PICK p \in Pid \ {1, 2} : p = kin[c].pid
    BY <1>0, <1>1 DEF Slots, Taken
  <1>3. PICK code \in Outcome : code = IF ptable[p].status = "ZOMBIE" THEN ptable[p].code ELSE "killed"
    BY <1>0, <1>2 DEF Outcome
  <1>4. /\ kin' \in [Kin -> Child] /\ kin'[c].told = code /\ \A d \in Kin \ {c} : kin'[d] = kin[d]
        /\ \A d \in Kin : kin'[d].pid = kin[d].pid /\ kin'[d].alive = kin[d].alive /\ kin'[d].ended = kin[d].ended
    <2>1. kin' = [kin EXCEPT ![c].told = code]
      BY <1>1, <1>2, <1>3
    <2> QED BY <1>0, <2>1
  <1>5. /\ ptable' \in [Pid -> Slot] /\ ptable'[p].status = "NOTEXIST"
        /\ \A q \in Pid \ {p} : ptable'[q] = ptable[q]
    BY <1>0, <1>1, <1>2
  <1>6. LifeTypeOK'
    BY <1>0, <1>1, <1>4, <1>5 DEF LifeTypeOK
  <1>7. TellsOf(c)' /\ (Untold(c)' => p \in mixed)
    <2>1. ASSUME p \notin mixed PROVE code = kin[c].ended /\ code # "no"
      <3>1. TellsOf(c)
        BY <1>0 DEF Slots, Tells
      <3> QED BY <1>1, <1>2, <1>3, <2>1, <3>1 DEF TellsOf
    <2>2. mixed' = mixed /\ p # 0 /\ kin'[c].pid = p /\ ~kin'[c].alive /\ kin'[c].told = code
          /\ kin'[c].ended = kin[c].ended
      BY <1>0, <1>1, <1>2, <1>4
    <2>3. Untold(c)' => p \in mixed
      BY <2>1, <2>2 DEF Untold
    <2> QED BY <2>1, <2>2, <2>3 DEF TellsOf
  <1>8. Slots'
    <2>1. \A w \in Others : (Holds(w)' <=> Holds(w)) /\ life'[w].pid = life[w].pid
      BY <1>1 DEF Holds
    <2>2. (MainLeft' <=> MainLeft) /\ life'[MainThread] = life[MainThread] /\ mixed' = mixed
      BY <1>1 DEF MainLeft
    <2>3. /\ \A d \in Kin \ {c} : (Untold(d)' <=> Untold(d))
          /\ \A d \in Kin : (Untold(d)' => Untold(d)) /\ kin'[d].pid = kin[d].pid
      BY <1>1, <1>4 DEF Untold
    <2>4. PidsDistinct'
      BY <1>0, <2>2 DEF Slots, PidsDistinct
    <2>30. Fewer
      BY <2>1, <2>2, <2>3 DEF Fewer
    <2>31. \A q \in Pid \ {p} : Stays(q)
      BY <1>5 DEF Stays
    <2>32. \A d \in Kin \ {c} : Untold(d) /\ kin[d].pid = p => p \in mixed
      BY <1>0, <1>1, <1>2 DEF Slots, Apart
    <2>33. \A w \in Others : Holds(w) /\ life[w].pid = p => p \in mixed
      BY <1>0, <1>1, <1>2 DEF Slots, Apart
    <2>5. Apart'
      BY <1>0, <2>30, FewerApart DEF Slots
    <2>6. Taken'
      <3>1. Stays(1) /\ Stays(2)
        BY <2>31, NamesAre
      <3>2. ASSUME NEW w \in Others, Holds(w)' PROVE Stays(life[w].pid) \/ life[w].pid \in mixed
        <4>1. Holds(w) /\ life[w].pid \in Pid
          BY <1>0, <2>1, <3>2 DEF Slots, Taken
        <4> QED BY <2>31, <2>33, <4>1
      <3>3. ASSUME NEW d \in Kin, Untold(d)' PROVE Stays(kin[d].pid) \/ kin[d].pid \in mixed
        <4>1. Untold(d) /\ kin[d].pid \in Pid
          BY <1>0, <2>3, <3>3 DEF Slots, Taken
        <4>2. CASE d = c
          BY <1>2, <1>7, <3>3, <4>2
        <4>3. CASE d # c
          BY <2>31, <2>32, <4>1, <4>3
        <4> QED BY <4>2, <4>3
      <3> QED BY <1>0, <2>30, <3>1, <3>2, <3>3, FewerTaken DEF Slots
    <2>7. NoMore'
      <3> SUFFICES ASSUME NEW q \in Pid \ ({1, 2} \cup mixed'), ptable'[q].status # "NOTEXIST"
                   PROVE  \/ \E w \in Others : Holds(w)' /\ life'[w].pid = q
                          \/ \E d \in Kin : Untold(d)' /\ kin'[d].pid = q
        BY DEF NoMore
      <3>1. q # p /\ ptable[q].status # "NOTEXIST" /\ q \in Pid \ ({1, 2} \cup mixed)
        BY <1>5, <2>2
      <3>2. \/ \E w \in Others : Holds(w) /\ life[w].pid = q
            \/ \E d \in Kin : Untold(d) /\ kin[d].pid = q
        BY <1>0, <3>1 DEF Slots, NoMore
      <3> QED BY <1>2, <2>1, <2>3, <3>1, <3>2
    <2>8. Tells'
      <3> SUFFICES ASSUME NEW d \in Kin PROVE TellsOf(d)'
        BY DEF Tells
      <3>1. CASE d = c
        BY <1>7, <3>1
      <3>2. CASE d # c
        <4>1. TellsOf(d) /\ kin'[d] = kin[d] /\ mixed' = mixed
          BY <1>0, <1>4, <2>2, <3>2 DEF Slots, Tells
        <4>2. ASSUME Untold(d), kin[d].pid \notin mixed PROVE ptable'[kin[d].pid] = ptable[kin[d].pid]
          <5>1. kin[d].pid # p /\ kin[d].pid \in Pid
            BY <1>0, <2>32, <3>2, <4>2 DEF Slots, Taken
          <5> QED BY <1>5, <5>1
        <4> QED BY <4>1, <4>2, TellsKept
      <3> QED BY <3>1, <3>2
    <2>9. Ours'
      <3>1. tableMutex' = tableMutex
        BY <1>1
      <3> QED BY <1>0, <1>4, <2>2, <3>1 DEF Slots, Ours
    <2> QED BY <2>4, <2>5, <2>6, <2>7, <2>8, <2>9 DEF Slots
  <1>9. Births' /\ Counts' /\ Events'
    BY <1>1, ThreadsKept
  <1> QED BY <1>6, <1>8, <1>9 DEF LifeInv

(* ParentForks: a pid for the new child.                                   *)
LEMMA ParentForksInv ==
  ASSUME LifeInv, NEW c \in Kin, ParentForks(c)
  PROVE  LifeInv'
  <1> DEFINE Child == [pid : {0} \cup Pid, alive : BOOLEAN, ended : Outcome, told : Outcome]
  <1>0. LifeTypeOK /\ Slots /\ Us \in Kin /\ kin \in [Kin -> Child] /\ 0 \notin Pid /\ c # Us
    BY NamesAre DEF LifeInv, LifeTypeOK, ParentForks
  <1>1. /\ kin[c].pid = 0 /\ Allocate
        /\ kin' = [kin EXCEPT ![c].pid = lastPid', ![c].alive = TRUE]
        /\ UNCHANGED <<tableMutex, life, threadList, threadCount, tevents, sigThread, signalsLeft, strayed>>
    BY DEF ParentForks
  <1>2. PICK p \in Pid : p = lastPid'
    BY <1>1, AllocatedTable
  <1>3. /\ ptable' \in [Pid -> [status : {"NOTEXIST", "RUNNING", "ZOMBIE"}, code : Outcome]]
        /\ \A q \in Pid : ptable'[q].status = (IF q = p THEN "RUNNING" ELSE ptable[q].status)
                          /\ ptable'[q].code = ptable[q].code
        /\ lastPid' \in Pid /\ mixed' \subseteq Pid
    BY <1>1, <1>2, AllocatedTable
  <1>4. /\ p \notin {1, 2} /\ mixed \subseteq mixed' /\ mixed' \subseteq {3} /\ (mixed' # {} => MainLeft)
        /\ p \notin mixed' => /\ \A w \in Others : Holds(w) => life[w].pid # p
                              /\ \A d \in Kin : Untold(d) => kin[d].pid # p
    BY <1>1, <1>2, AllocateGives
  <1>5. /\ kin' \in [Kin -> Child] /\ kin'[c].pid = p /\ kin'[c].alive = TRUE
        /\ kin'[c].ended = "no" /\ kin'[c].told = "no"
        /\ \A d \in Kin \ {c} : kin'[d] = kin[d]
    <2> DEFINE r == [[kin[c] EXCEPT !.pid = p] EXCEPT !.alive = TRUE]
    <2>1. kin[c] \in Child /\ kin[c].ended = "no" /\ kin[c].told = "no"
      BY <1>0, <1>1 DEF Slots, Tells, TellsOf
    <2>2. r \in Child /\ r.pid = p /\ r.alive = TRUE /\ r.ended = "no" /\ r.told = "no"
      BY <2>1
    <2>3. kin' = [kin EXCEPT ![c] = r]
      BY <1>0, <1>1, <1>2
    <2> HIDE DEF r, Child
    <2> QED BY <1>0, <2>2, <2>3
  <1>6. LifeTypeOK'
    BY <1>0, <1>1, <1>3, <1>5 DEF LifeTypeOK
  <1>7. Slots'
    <2>1. \A w \in Others : (Holds(w)' <=> Holds(w)) /\ life'[w].pid = life[w].pid
      BY <1>1 DEF Holds
    <2>2. (MainLeft' <=> MainLeft) /\ life'[MainThread] = life[MainThread]
      BY <1>1 DEF MainLeft
    <2>3. /\ Untold(c)' /\ ~Untold(c)
          /\ \A d \in Kin \ {c} : (Untold(d)' <=> Untold(d)) /\ kin'[d].pid = kin[d].pid
      BY <1>0, <1>1, <1>5 DEF Untold
    <2>10. Apart /\ Taken
      BY <1>0 DEF Slots
    <2>4. PidsDistinct'
      BY <1>4, <2>2 DEF PidsDistinct
    <2>5. Apart'
      <3>1. \A v, w \in Others : Holds(v)' /\ Holds(w)' /\ life'[v].pid = life'[w].pid => v = w \/ life'[v].pid \in mixed'
        BY <1>4, <2>1, <2>10 DEF Apart
      <3>2. ASSUME NEW v \in Others, NEW d \in Kin, Holds(v)', Untold(d)', life'[v].pid = kin'[d].pid
            PROVE  life'[v].pid \in mixed'
        <4>1. Holds(v) /\ life'[v].pid = life[v].pid
          BY <2>1, <3>2
        <4>2. CASE d = c
          BY <1>4, <1>5, <3>2, <4>1, <4>2
        <4>3. CASE d # c
          <5>1. Untold(d) /\ kin'[d].pid = kin[d].pid
            BY <2>3, <3>2, <4>3
          <5> QED BY <1>4, <2>10, <3>2, <4>1, <5>1 DEF Apart
        <4> QED BY <4>2, <4>3
      <3>3. \A d, e \in Kin : Untold(d)' /\ Untold(e)' /\ kin'[d].pid = kin'[e].pid => d = e \/ kin'[d].pid \in mixed'
        <4>1. ASSUME NEW d \in Kin \ {c}, Untold(d)', kin'[d].pid = p PROVE p \in mixed'
          BY <1>4, <2>3, <4>1
        <4>2. ASSUME NEW d \in Kin \ {c}, NEW e \in Kin \ {c}, Untold(d)', Untold(e)', kin'[d].pid = kin'[e].pid
              PROVE  d = e \/ kin'[d].pid \in mixed'
          <5>1. Untold(d) /\ Untold(e) /\ kin'[d].pid = kin[d].pid /\ kin'[e].pid = kin[e].pid
            BY <2>3, <4>2
          <5>2. d = e \/ kin[d].pid \in mixed
            BY <2>10, <4>2, <5>1 DEF Apart
          <5> QED BY <1>4, <5>1, <5>2
        <4> QED BY <1>5, <4>1, <4>2
      <3> QED BY <3>1, <3>2, <3>3 DEF Apart
    <2>6. Taken'
      <3>1. \A w \in Others : Holds(w)' => /\ life'[w].pid \in Pid \ {1, 2}
                                           /\ ptable'[life'[w].pid].status # "NOTEXIST" \/ life'[w].pid \in mixed'
        <4> SUFFICES ASSUME NEW w \in Others, Holds(w)'
                     PROVE  /\ life'[w].pid \in Pid \ {1, 2}
                            /\ ptable'[life'[w].pid].status # "NOTEXIST" \/ life'[w].pid \in mixed'
          OBVIOUS
        <4>1. Holds(w) /\ life'[w].pid = life[w].pid
          BY <2>1
        <4>2. life[w].pid \in Pid \ {1, 2} /\ (ptable[life[w].pid].status # "NOTEXIST" \/ life[w].pid \in mixed)
          BY <2>10, <4>1 DEF Taken
        <4> QED BY <1>3, <1>4, <4>1, <4>2
      <3>2. \A d \in Kin : Untold(d)' => /\ kin'[d].pid \in Pid \ {1, 2}
                                 /\ \/ ptable'[kin'[d].pid].status # "NOTEXIST" \/ kin'[d].pid \in mixed'
                                    \/ d = Us /\ MainLeft'
        <4>1. ptable'[p].status = "RUNNING" /\ kin'[c].pid = p /\ p \in Pid \ {1, 2}
          BY <1>3, <1>4, <1>5
        <4>2. ASSUME NEW d \in Kin \ {c}, Untold(d)'
              PROVE  /\ kin'[d].pid \in Pid \ {1, 2}
                     /\ \/ ptable'[kin'[d].pid].status # "NOTEXIST" \/ kin'[d].pid \in mixed'
                        \/ d = Us /\ MainLeft'
          <5>1. Untold(d) /\ kin'[d].pid = kin[d].pid
            BY <2>3, <4>2
          <5>2. /\ kin[d].pid \in Pid \ {1, 2}
                /\ \/ ptable[kin[d].pid].status # "NOTEXIST" \/ kin[d].pid \in mixed
                   \/ d = Us /\ MainLeft
            BY <2>10, <5>1 DEF Taken
          <5>3. ptable'[kin[d].pid].status = "RUNNING" \/ ptable'[kin[d].pid].status = ptable[kin[d].pid].status
            BY <1>3, <5>2
          <5> QED BY <1>4, <2>2, <5>1, <5>2, <5>3
        <4>3. ASSUME NEW d \in Kin, d = c
              PROVE  kin'[d].pid \in Pid \ {1, 2} /\ ptable'[kin'[d].pid].status # "NOTEXIST"
          BY <4>1, <4>3
        <4> QED BY <4>2, <4>3
      <3>3. ptable'[1].status # "NOTEXIST" /\ ptable'[2].status # "NOTEXIST"
        BY <1>0, <1>3, <1>4, NamesAre DEF Slots, Taken
      <3> QED BY <3>1, <3>2, <3>3 DEF Taken
    <2>7. NoMore'
      <3> SUFFICES ASSUME NEW q \in Pid \ ({1, 2} \cup mixed'), ptable'[q].status # "NOTEXIST"
                   PROVE  \/ \E w \in Others : Holds(w)' /\ life'[w].pid = q
                          \/ \E d \in Kin : Untold(d)' /\ kin'[d].pid = q
        BY DEF NoMore
      <3>1. CASE q = p
        BY <1>5, <2>3, <3>1
      <3>2. CASE q # p
        <4>1. ptable[q].status # "NOTEXIST" /\ q \in Pid \ ({1, 2} \cup mixed)
          BY <1>3, <1>4, <3>2
        <4>2. \/ \E w \in Others : Holds(w) /\ life[w].pid = q
              \/ \E d \in Kin : Untold(d) /\ kin[d].pid = q
          BY <1>0, <4>1 DEF Slots, NoMore
        <4> QED BY <2>1, <2>3, <4>2
      <3> QED BY <3>1, <3>2
    <2>8. Tells'
      <3> SUFFICES ASSUME NEW d \in Kin PROVE TellsOf(d)'
        BY DEF Tells
      <3>1. CASE d = c
        <4>1. ptable'[p].status = "RUNNING" /\ p # 0
          BY <1>0, <1>3
        <4> QED BY <1>0, <1>5, <3>1, <4>1 DEF TellsOf
      <3>2. CASE d # c
        <4>1. TellsOf(d) /\ kin'[d] = kin[d] /\ (Untold(d)' <=> Untold(d))
          BY <1>0, <1>5, <2>3, <3>2 DEF Slots, Tells
        <4>2. ASSUME Untold(d), kin[d].pid \notin mixed'
              PROVE  kin[d].pid \notin mixed /\ ptable'[kin[d].pid].status = ptable[kin[d].pid].status
                     /\ ptable'[kin[d].pid].code = ptable[kin[d].pid].code
          BY <1>0, <1>3, <1>4, <4>2 DEF Slots, Taken
        <4> QED BY <1>4, <4>1, <4>2 DEF TellsOf
      <3> QED BY <3>1, <3>2
    <2>9. Ours'
      <3>1. tableMutex' = tableMutex /\ kin'[Us] = kin[Us]
        BY <1>0, <1>1, <1>5
      <3> QED BY <1>0, <2>2, <3>1 DEF Slots, Ours
    <2> QED BY <2>4, <2>5, <2>6, <2>7, <2>8, <2>9 DEF Slots
  <1>8. Births' /\ Counts' /\ Events'
    BY <1>1, ThreadsKept
  <1> QED BY <1>6, <1>7, <1>8 DEF LifeInv

-----------------------------------------------------------------------------
(* The theorems. *)

(* Every step keeps the invariant.                                         *)
LEMMA LifeNextInv == LifeInv /\ [LifeNext]_lifeVars => LifeInv'
  <1> SUFFICES ASSUME LifeInv, [LifeNext]_lifeVars PROVE LifeInv'
    OBVIOUS
  <1>1. CASE UNCHANGED lifeVars
    <2>1. /\ UNCHANGED <<ptable, lastPid, tableMutex, life, threadList, threadCount>>
          /\ UNCHANGED <<tevents, sigThread, kin, signalsLeft, mixed, strayed>>
      BY <1>1 DEF lifeVars
    <2>2. LifeTypeOK'
      BY <2>1 DEF LifeInv, LifeTypeOK
    <2>3. \A t \in LThread : Holds(t)' <=> Holds(t)
      BY <2>1 DEF Holds
    <2>4. life'[MainThread].at \notin Early \cup {"ready"} /\ (MainLeft => MainLeft')
      BY <2>1 DEF LifeInv, Slots, Ours, MainLeft
    <2>5. Slots'
      BY <2>1, <2>3, <2>4, SlotsKept DEF LifeInv
    <2> QED BY <2>1, <2>2, <2>5, ThreadsKept DEF LifeInv
  <1>2. CASE \E t, u \in LThread : process_create_thread(t, u)
    BY <1>2, CreateThreadInv
  <1>3. CASE \E t \in LThread : ResumeNew(t) \/ thread_alloc(t) \/ signal_init_thread(t) \/ SetupHandler(t)
    BY <1>3, ResumeNewInv, ThreadAllocInv, SignalInitInv, SetupHandlerInv
  <1>4. CASE \E t \in LThread : sys_exit(t) \/ sys_exit_group(t)
    <2>1. PICK t \in LThread : sys_exit(t) \/ sys_exit_group(t)
      BY <1>4
    <2>2. TurnsTo(t, "close", "run") \/ TurnsTo(t, "group", "run")
      BY <2>1 DEF sys_exit, sys_exit_group, Is, TurnsTo
    <2> QED BY <2>2, WithinInv
  <1>5. CASE \E t \in LThread : signal_exit_thread(t) \/ FreeSlot(t) \/ LeaveThread(t)
    BY <1>5, SignalExitInv, FreeSlotInv, LeaveThreadInv
  <1>6. CASE \E t \in LThread : ThreadEnds(t)
    <2>1. PICK t \in LThread : ThreadEnds(t)
      BY <1>6
    <2>2. kin[Us].alive /\ process_exit(t, t) /\ UNCHANGED <<life, sigThread>>
      BY <2>1 DEF ThreadEnds, Is
    <2> QED BY <2>2, ProcessExitInv
  <1>7. CASE SignalEnds
    <2>1. kin[Us].alive /\ process_exit("signal thread", "signal") /\ UNCHANGED <<life, sigThread>>
      BY <1>7 DEF SignalEnds
    <2> QED BY <2>1, ProcessExitInv
  <1>8. CASE ChooseReceiver \/ HandOver \/ DefaultAction
    BY <1>8, ChooseReceiverInv, HandOverInv, DefaultActionInv
  <1>9. CASE \E killed \in BOOLEAN : ProcessGone(killed) \/ \E c \in Stranger : StrangerGone(c, killed)
    BY <1>9, ProcessGoneInv, StrangerGoneInv
  <1>10. CASE \E c \in Kin : ParentForks(c) \/ Reap(c)
    BY <1>10, ParentForksInv, ReapInv
  <1> QED BY <1>1, <1>2, <1>3, <1>4, <1>5, <1>6, <1>7, <1>8, <1>9, <1>10 DEF LifeNext

(* What the parts of the invariant say of the properties.                  *)
LEMMA InvIsExact == LifeInv => LivesExact
  <1> SUFFICES ASSUME LifeInv PROVE LivesExact
    OBVIOUS
  <1>1. PidsDistinct
    BY DEF LifeInv, Slots
  <1>2. SlotsTell
    <2> SUFFICES ASSUME NEW p \in Pid \ ({1, 2} \cup mixed)
                 PROVE  LET Left == {t \in LThread \ {MainThread} :
                                       ~kin[Us].alive /\ Holds(t) /\ life[t].pid = p}
                        IN  IF Tenants(p) # {} THEN ptable[p].status # "NOTEXIST" \/ (p = 3 /\ MainLeft)
                            ELSE ptable[p].status = "NOTEXIST" \/ Left # {}
      BY NamesAre DEF SlotsTell
    <2>0. p # 0
      BY NamesAre
    <2>1. CASE Tenants(p) # {}
      <3>1. PICK x : x \in Tenants(p)
        BY <2>1
      <3>2. CASE x \in {t \in LThread \ {MainThread} : kin[Us].alive /\ Holds(t) /\ life[t].pid = p}
        BY <2>1, <3>2 DEF LifeInv, Slots, Taken, Others
      <3>3. CASE x \in {c \in Kin : kin[c].pid = p /\ kin[c].told = "no"}
        <4>1. Untold(x)
          BY <2>0, <3>3 DEF Untold
        <4> QED BY <2>1, <3>3, <4>1 DEF LifeInv, Slots, Taken, Ours
      <3> QED BY <3>1, <3>2, <3>3 DEF Tenants
    <2>2. CASE Tenants(p) = {}
      <3>1. ASSUME ptable[p].status # "NOTEXIST"
            PROVE  \E t \in LThread \ {MainThread} : ~kin[Us].alive /\ Holds(t) /\ life[t].pid = p
        <4>1. CASE \E c \in Kin : Untold(c) /\ kin[c].pid = p
          BY <2>2, <4>1 DEF Tenants, Untold
        <4>2. CASE \E t \in Others : Holds(t) /\ life[t].pid = p
          BY <2>2, <4>2 DEF Tenants, Others
        <4> QED BY <3>1, <4>1, <4>2 DEF LifeInv, Slots, NoMore
      <3> QED BY <2>2, <3>1
    <2> QED BY <2>1, <2>2
  <1>3. WaitTruthful
    BY DEF LifeInv, Slots, Tells, TellsOf, WaitTruthful
  <1>4. ThreadsCounted
    BY DEF LifeInv, Counts, Begun, ThreadsCounted
  <1>5. EventsOwned
    <2>1. \A t \in LThread : EventOf(t) /\ life[t].at \in Stage
      BY DEF LifeInv, LifeTypeOK, LifeOf, Events
    <2> QED BY <2>1 DEF EventsOwned, EventOf, HasEvent
  <1> QED BY <1>1, <1>2, <1>3, <1>4, <1>5 DEF LivesExact

(***************************************************************************)
(* The table, the threads, the events and the children are what they are   *)
(* declared as: a pid is never out of the table, and the slot that is      *)
(* written when a thread or a process ends is one of it.                   *)
(***************************************************************************)
THEOREM LifeTypeCorrect == LifeSpec => []LifeTypeOK
  <1>1. LifeInv => LifeTypeOK
    BY DEF LifeInv
  <1> QED BY <1>1, LifeInitInv, LifeNextInv, PTL DEF LifeSpec

(***************************************************************************)
(* For every number of threads, of slots and of other children, and        *)
(* however their ends fall together: nobody is given a pid that somebody   *)
(* has, but for the one the first thread gives away (process.c:465); slots *)
(* are taken as long as somebody has them; wait4 reports how a child       *)
(* ended; thread_count is the number of threads that have not left, so the *)
(* last one ends the process (process.c:470); and an event is set for the  *)
(* thread that has a signal to handle (sig.c:501).                         *)
(***************************************************************************)
THEOREM LifeIsExact == LifeSpec => []LivesExact
  BY InvIsExact, LifeInitInv, LifeNextInv, PTL DEF LifeSpec
===============================================================================
