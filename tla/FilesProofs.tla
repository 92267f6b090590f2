---------------------------- MODULE FilesProofs ----------------------------
(***************************************************************************)
(* Theorems about what threads share through descriptors: Channels (poll,  *)
(* select, epoll_wait and the events of a pipe), Sockets (readiness and    *)
(* the wait for it) and FilePointer (the position of an open file), each   *)
(* for any number of threads and calls, any size of the buffers, and any   *)
(* arrays, sets and interest lists; and about the table that paths are     *)
(* looked up in (Mounts), for any processes and mount points.              *)
(*                                                                         *)
(* Channels.  The events need Agreement alone: an event is right, or known *)
(* to be out of date, or a transfer is on its way to store it (Due).  The  *)
(* answers are followed through one call.  CallOK is what holds of it      *)
(* wherever it is: where it can be, what a query has noted, that what it   *)
(* looks at has no answer yet, the count, what is pending, that its        *)
(* answers were so during the call (was), and that its array goes with the *)
(* interest list for as long as no epoll_ctl has changed that.  What was   *)
(* ready during a call only grows, so the steps of the other threads leave *)
(* CallOK as it is; a change of the list marks the calls that have begun   *)
(* with the old one.                                                       *)
(*                                                                         *)
(* FilePointer.  Only the thread with the mutex is past its lock, so the   *)
(* pointer is where it should be unless that thread's call has it away,    *)
(* and then the call has kept the place (PointerInv).                      *)
(*                                                                         *)
(* Mounts.  The list is described without walking it: its head is the      *)
(* highest entry, and after an entry comes the highest one below it        *)
(* (Descending).  One process at a time fills the table, and it has the    *)
(* right place for its entry until the entry is on the list (FillSound);   *)
(* slots are lost only to processes that died, so there is one left.  What *)
(* a walk has left behind does not match its path (WalkSound).             *)
(***************************************************************************)
EXTENDS Channels, Sockets, FilePointer, Mounts,
        FiniteSetTheorems, SequenceTheorems, WellFoundedInduction, TLAPS

Transfer == {"read", "write"}
Wait == {"poll", "select", "epoll"}
Querying == {"query", "set_r", "set_w"}
ReadyFlag == {"in", "out", "hup"}

EntryOf == [fd : End, events : SUBSET Flag]
PolledOf == [fd : End \cup {NoFd}, events : SUBSET Flag, revents : SUBSET Flag]
OutOf == [entry : Nat, events : SUBSET Flag, data : End]
CallOf ==
  [at : Querying \cup {"idle", "room", "ReadFile", "WriteFile", "return", "copy", "scan", "scanned",
                       "wait", "checked", "answer"},
   call : {"none"} \cup Transfer \cup Wait, then : {"return", "scanned", "checked"},
   end : End \cup {NoFd}, n : Nat, info : [data : Nat, up : BOOLEAN], pfds : Seq(PolledOf), i : Nat,
   handles : Seq(Nat), num : Int, done : BOOLEAN, limited : BOOLEAN, holds : SUBSET End,
   sets : (SUBSET End) \X (SUBSET End) \X (SUBSET End), out : SUBSET OutOf, moved : BOOLEAN]

ChannelsTypeOK ==
  /\ pipe \in [data : Nat, table : SUBSET End, nonblock : SUBSET End]
  /\ event \in [End -> BOOLEAN]
  /\ efds \in Seq(EntryOf)
  /\ cth \in [Poller -> CallOf]
  /\ calls \in Nat
  /\ wrong \in SUBSET End
  /\ was \in [Poller -> SUBSET (End \X ReadyFlag)]

-----------------------------------------------------------------------------
(* One call: c, with what was ready since it began and the list of the     *)
(* epoll file. *)

\* Where it can be
Placed(c) ==
  /\ c.at = "idle" <=> c.call = "none"
  /\ c.at \in {"idle", "copy"} => c.holds = {}
  /\ c.call \in Transfer =>
       /\ c.at \in Querying \cup {"room", "ReadFile", "WriteFile", "return"}
       /\ c.then = "return" /\ c.end \in End
  /\ c.call \in Wait =>
       /\ c.at \in Querying \cup {"copy", "scan", "scanned", "wait", "checked", "answer", "return"}
       /\ c.at = "copy" => c.call = "epoll"
       /\ c.at \in Querying => c.then \in {"scanned", "checked"}
  /\ c.call \notin Wait \/ c.at = "copy" => c.pfds = << >>
  /\ c.out # {} => c.call = "epoll" /\ c.at = "return"

Scanning(c) == c.call \in Wait /\ (c.at \in {"scan", "scanned"} \/ (c.at \in Querying /\ c.then = "scanned"))
Checking(c) == c.call \in Wait /\ (c.at \in {"wait", "checked"} \/ (c.at \in Querying /\ c.then = "checked"))

\* What a query found was so
Noted(c, w) ==
  c.at \in {"set_r", "set_w", "scanned", "checked"} =>
    c.end \in End /\ \A x \in Status(c.end, c.info) : <<c.end, x>> \in w

\* A query is about the descriptor that is looked at, which has no answer yet
Looking(c) ==
  c.call \in Wait /\ c.at \in Querying \cup {"scanned", "checked"} =>
    /\ c.i \in DOMAIN c.pfds /\ c.pfds[c.i].fd = c.end /\ c.end \in End
    /\ c.pfds[c.i].revents = {}

Answered(c) == {i \in DOMAIN c.pfds : c.pfds[i].revents # {}}
Counted(c) ==
  /\ Scanning(c) \/ Checking(c) => c.num = Cardinality(Answered(c))
  /\ c.call = "poll" /\ c.at \in {"answer", "return"} /\ c.num > 0 => c.num = Cardinality(Answered(c))

\* What is not scanned yet, and what is waited for, has no answer
Pending(c) ==
  /\ Scanning(c) => c.i > 0 /\ \A j \in DOMAIN c.pfds : j >= c.i => c.pfds[j].revents = {}
  /\ Scanning(c) \/ Checking(c) =>
       \A k \in DOMAIN c.handles :
         /\ c.handles[k] \in DOMAIN c.pfds /\ c.pfds[c.handles[k]].revents = {}
         /\ c.pfds[c.handles[k]].fd \in End
         /\ Scanning(c) => c.handles[k] < c.i

\* Answers are true
Truthful(c, w) ==
  /\ \A i \in DOMAIN c.pfds : \A x \in c.pfds[i].revents :
       x = "nval" \/ (x \in c.pfds[i].events /\ <<c.pfds[i].fd, x>> \in w)
  /\ c.call = "select" /\ c.at = "return" => \A fd \in c.sets[1] : <<fd, "in">> \in w

\* Unless the list was changed, the array goes with it
Epolled(c, list) ==
  c.call = "epoll" =>
    /\ c.n > 0
    /\ ~c.moved => /\ c.at = "copy" => c.i = Len(list)
                   /\ c.at # "copy" => /\ Len(c.pfds) = Len(list)
                                       /\ \A j \in DOMAIN c.pfds : c.pfds[j].fd = list[j].fd
Told(c, w) ==
  /\ c.call = "epoll" => Cardinality(c.out) <= c.n
  /\ ~c.moved => \A k \in c.out :
       /\ \A x \in k.events : x = "nval" \/ <<k.data, x>> \in w
       /\ \A j \in c.out : j.data = k.data => j = k

CallOK(c, w, list) ==
  Placed(c) /\ Noted(c, w) /\ Looking(c) /\ Counted(c) /\ Pending(c) /\ Truthful(c, w)
    /\ Epolled(c, list) /\ Told(c, w)

-----------------------------------------------------------------------------
\* An event is right, known to be out of date, or about to be stored
Due(c, e) ==
  c.then = "return" /\ c.at \in (IF e = "r" THEN {"query", "set_r"} ELSE {"query", "set_r", "set_w"})
Agreement ==
  \A e \in End : e \in wrong \/ (event[e] <=> Signalled(e, Info)) \/ \E t \in Poller : Due(cth[t], e)

Distinct == \A i, j \in DOMAIN efds : efds[i].fd = efds[j].fd => i = j

ChannelsInv ==
  /\ ChannelsTypeOK
  /\ Distinct
  /\ \A t \in Poller : CallOK(cth[t], was[t], efds)
  /\ Agreement

-----------------------------------------------------------------------------
(* Facts about the data. *)

(* The least of two numbers.                                               *)
LEMMA MinOfTwo ==
  ASSUME NEW a \in Int, NEW b \in Int
  PROVE  FX!Min({a, b}) = IF a <= b THEN a ELSE b
  BY DEF FX!Min

(* A set of numbers has a least one.                                       *)
LEMMA Lowest ==
  ASSUME NEW K \in SUBSET Nat, K # {}
  PROVE  \E k \in K : \A j \in K : k <= j
  <1> DEFINE R == {ij \in Nat \X Nat : ij[1] < ij[2]}
  <1>1. IsWellFoundedOn(R, Nat)
    BY NatLessThanWellFounded DEF OpToRel
  <1>2. \A j, k \in Nat : <<j, k>> \notin R => k <= j
    OBVIOUS
  <1> HIDE DEF R
  <1>3. PICK k \in K : \A j \in K : <<j, k>> \notin R
    BY <1>1, WFMin
  <1>4. \A j \in K : k <= j
    BY <1>2, <1>3
  <1> QED BY <1>4

(* It is the one that Min chooses.                                         *)
LEMMA LeastOne ==
  ASSUME NEW K \in SUBSET Nat, K # {}
  PROVE  FX!Min(K) \in K
  BY Lowest DEF FX!Min

(* What a query says.                                                      *)
LEMMA StatusIs ==
  ASSUME NEW e \in End, NEW info
  PROVE  Status(e, info) \subseteq ReadyFlag
  BY DEF Status, HandleFlags, ReadyFlag

(* What is ready now.                                                      *)
LEMMA ReadyIs ==
  /\ Ready \in SUBSET (End \X ReadyFlag)
  /\ \A e \in End : \A x \in Status(e, Info) : <<e, x>> \in Ready
  BY StatusIs DEF Ready, ReadyFlag

(* An answer is entered.                                                   *)
LEMMA SetAnswer ==
  ASSUME NEW p \in Seq(PolledOf), NEW i \in DOMAIN p, NEW e \in SUBSET Flag
  PROVE  LET q == [p EXCEPT ![i].revents = e] IN
         /\ q \in Seq(PolledOf) /\ DOMAIN q = DOMAIN p /\ Len(q) = Len(p)
         /\ \A j \in DOMAIN p : /\ q[j].fd = p[j].fd /\ q[j].events = p[j].events
                                /\ q[j].revents = (IF j = i THEN e ELSE p[j].revents)
  <1> DEFINE r == [p[i] EXCEPT !.revents = e]
  <1>1. p[i] \in PolledOf
    OBVIOUS
  <1>2. r \in PolledOf /\ r.fd = p[i].fd /\ r.events = p[i].events /\ r.revents = e
    BY <1>1 DEF PolledOf
  <1> HIDE DEF r
  <1>3. [p EXCEPT ![i] = r] \in Seq(PolledOf) /\ DOMAIN [p EXCEPT ![i] = r] = DOMAIN p
        /\ Len([p EXCEPT ![i] = r]) = Len(p)
        /\ \A j \in DOMAIN p : [p EXCEPT ![i] = r][j] = IF j = i THEN r ELSE p[j]
    BY <1>2, LenProperties, ExceptSeq
  <1> QED BY <1>2, <1>3 DEF r

(* It counts one more.                                                     *)
LEMMA CountAnswer ==
  ASSUME NEW c \in CallOf, NEW d \in CallOf, NEW i \in DOMAIN c.pfds, NEW e \in SUBSET Flag, e # {},
         c.pfds[i].revents = {}, DOMAIN d.pfds = DOMAIN c.pfds,
         \A j \in DOMAIN c.pfds : d.pfds[j].revents = IF j = i THEN e ELSE c.pfds[j].revents
  PROVE  Cardinality(Answered(d)) = Cardinality(Answered(c)) + 1
  <1>1. c.pfds \in Seq(PolledOf)
    BY DEF CallOf
  <1>2. IsFiniteSet(DOMAIN c.pfds)
    BY <1>1, LenProperties, FS_Interval
  <1>3. IsFiniteSet(Answered(c)) /\ i \notin Answered(c)
    BY <1>2, FS_Subset DEF Answered
  <1>4. Answered(d) = Answered(c) \cup {i}
    BY DEF Answered
  <1> QED BY <1>3, <1>4, FS_AddElement

(* Nothing is answered when a call begins.                                 *)
LEMMA CountNone ==
  ASSUME NEW c, \A i \in DOMAIN c.pfds : c.pfds[i].revents = {}
  PROVE  Cardinality(Answered(c)) = 0
  BY FS_EmptySet DEF Answered

(* Truth does not age.                                                     *)
LEMMA Grows ==
  ASSUME NEW c, NEW w, NEW v, NEW list, CallOK(c, w, list), w \subseteq v \/ c.at = "idle"
  PROVE  CallOK(c, v, list)
  <1>1. Placed(c) /\ Looking(c) /\ Counted(c) /\ Pending(c) /\ Epolled(c, list)
    BY DEF CallOK
  <1>2. CASE c.at = "idle"
    <2>1. c.call = "none" /\ c.pfds = << >> /\ c.out = {}
      BY <1>1, <1>2 DEF Placed, Wait
    <2> QED BY <1>1, <1>2, <2>1 DEF CallOK, Noted, Truthful, Told
  <1>3. CASE w \subseteq v
    <2>1. Noted(c, v)
      BY <1>3 DEF CallOK, Noted
    <2>2. Truthful(c, v)
      BY <1>3 DEF CallOK, Truthful
    <2>3. Told(c, v)
      BY <1>3 DEF CallOK, Told
    <2> QED BY <1>1, <2>1, <2>2, <2>3 DEF CallOK
  <1> QED BY <1>2, <1>3

(* A thread without a call.                                                *)
LEMMA NoCallOK ==
  ASSUME NEW w, NEW list
  PROVE  /\ NoCall \in CallOf /\ CallOK(NoCall, w, list)
         /\ NoCall.at = "idle" /\ NoCall.holds = {} /\ NoCall.out = {}
  <1> DEFINE c == NoCall
  <1>1. c \in CallOf /\ c.at = "idle" /\ c.call = "none" /\ c.holds = {} /\ c.pfds = << >> /\ c.out = {}
    <2>1. << >> \in Seq(PolledOf) /\ << >> \in Seq(Nat)
      OBVIOUS
    <2> QED BY <2>1 DEF NoCall, CallOf, Querying, Transfer, Wait
  <1> HIDE DEF c
  <1>2. Placed(c) /\ Noted(c, w) /\ Looking(c) /\ Pending(c) /\ Epolled(c, list)
    BY <1>1 DEF Placed, Noted, Looking, Pending, Epolled, Scanning, Checking, Wait, Transfer, Querying
  <1>3. Counted(c) /\ Truthful(c, w) /\ Told(c, w)
    BY <1>1 DEF Counted, Truthful, Told, Scanning, Checking, Wait
  <1>4. CallOK(c, w, list)
    BY <1>2, <1>3 DEF CallOK
  <1> QED BY <1>1, <1>4 DEF c

-----------------------------------------------------------------------------
(* What a step of one thread leaves as it was. *)

WasStep == was' = [t \in Poller |-> IF cth'[t].at = "idle" THEN {} ELSE was[t] \cup Ready \cup Ready']

(* What is ready after a step.                                             *)
LEMMA ReadyNext == Ready' \in SUBSET (End \X ReadyFlag)
  BY DEF Ready, ReadyFlag

(* What is known to have been ready only grows while a call lasts.         *)
LEMMA WasNext ==
  ASSUME ChannelsInv, WasStep
  PROVE  /\ was' \in [Poller -> SUBSET (End \X ReadyFlag)]
         /\ \A t \in Poller : cth'[t].at = "idle" \/ was[t] \cup Ready \subseteq was'[t]
  BY ReadyIs, ReadyNext DEF ChannelsInv, ChannelsTypeOK, WasStep

(* All calls are good when the one that is changed is.                     *)
LEMMA CallsKept ==
  ASSUME ChannelsInv, WasStep, NEW t \in Poller, NEW d \in CallOf,
         cth' = [cth EXCEPT ![t] = d], efds' = efds, CallOK(d, was[t] \cup Ready, efds)
  PROVE  /\ cth' \in [Poller -> CallOf] /\ \A u \in Poller : CallOK(cth'[u], was'[u], efds')
         /\ was' \in [Poller -> SUBSET (End \X ReadyFlag)]
         /\ efds' \in Seq(EntryOf) /\ Distinct'
  <1>1. cth \in [Poller -> CallOf]
    BY DEF ChannelsInv, ChannelsTypeOK
  <1>2. cth' \in [Poller -> CallOf] /\ cth'[t] = d
    BY <1>1
  <1>3. ASSUME NEW u \in Poller PROVE CallOK(cth'[u], was'[u], efds')
    <2>1. CASE u = t
      <3>1. was[t] \cup Ready \subseteq was'[u] \/ d.at = "idle"
        BY <1>2, <2>1, WasNext
      <3>2. CallOK(d, was'[u], efds)
        BY <3>1, Grows
      <3> QED BY <1>2, <2>1, <3>2
    <2>2. CASE u # t
      <3>1. cth'[u] = cth[u]
        BY <1>1, <2>2
      <3>2. was[u] \subseteq was'[u] \/ cth[u].at = "idle"
        BY <3>1, WasNext
      <3>3. CallOK(cth[u], was[u], efds)
        BY DEF ChannelsInv
      <3>4. CallOK(cth[u], was'[u], efds)
        BY <3>2, <3>3, Grows
      <3> QED BY <3>1, <3>4
    <2> QED BY <2>1, <2>2
  <1>4. efds' \in Seq(EntryOf) /\ Distinct'
    BY DEF ChannelsInv, ChannelsTypeOK, Distinct
  <1> QED BY <1>2, <1>3, <1>4, WasNext

(* The pipe is as it was, when nobody has closed an end.                   *)
LEMMA InfoKept ==
  ASSUME cth \in [Poller -> CallOf], NEW t \in Poller, NEW d, cth' = [cth EXCEPT ![t] = d],
         pipe'.data = pipe.data, pipe'.table = pipe.table,
         cth[t].holds \subseteq d.holds, d.holds \subseteq cth[t].holds \cup pipe.table
  PROVE  Info' = Info
  <1>1. cth'[t] = d /\ \A u \in Poller : u # t => cth'[u] = cth[u]
    OBVIOUS
  <1>2. Open' \subseteq Open
    BY <1>1 DEF Open
  <1>3. Open \subseteq Open'
    BY <1>1 DEF Open
  <1>4. Open' = Open
    BY <1>2, <1>3
  <1> QED BY <1>4 DEF Info

(* An event is as right as it was.                                         *)
LEMMA EventsKept ==
  ASSUME Agreement, NEW t \in Poller, NEW d, cth \in [Poller -> CallOf], cth' = [cth EXCEPT ![t] = d],
         event' = event, wrong' = wrong, Info' = Info, \A e \in End : Due(cth[t], e) => Due(d, e)
  PROVE  Agreement'
  <1> SUFFICES ASSUME NEW e \in End
               PROVE  \/ e \in wrong' \/ (event'[e] <=> Signalled(e, Info'))
                      \/ \E u \in Poller : Due(cth'[u], e)
    BY DEF Agreement
  <1>1. CASE e \in wrong \/ (event[e] <=> Signalled(e, Info))
    BY <1>1
  <1>2. CASE \E u \in Poller : Due(cth[u], e)
    <2>1. PICK u \in Poller : Due(cth[u], e)
      BY <1>2
    <2>2. Due(cth'[u], e)
      BY <2>1
    <2> QED BY <2>2
  <1> QED BY <1>1, <1>2 DEF Agreement

(* A step that leaves pipe, events and list alone.                         *)
LEMMA CalmInv ==
  ASSUME ChannelsInv, WasStep, NEW t \in Poller, NEW d \in CallOf,
         cth' = [cth EXCEPT ![t] = d], UNCHANGED <<pipe, event, efds, wrong>>, calls' \in Nat,
         CallOK(d, was[t] \cup Ready, efds),
         cth[t].holds \subseteq d.holds, d.holds \subseteq cth[t].holds \cup pipe.table,
         \A e \in End : Due(cth[t], e) => Due(d, e)
  PROVE  ChannelsInv'
  <1>1. cth \in [Poller -> CallOf] /\ Agreement
    BY DEF ChannelsInv, ChannelsTypeOK
  <1>2. Info' = Info
    BY <1>1, InfoKept
  <1>3. Agreement'
    BY <1>1, <1>2, EventsKept
  <1>4. /\ cth' \in [Poller -> CallOf] /\ \A u \in Poller : CallOK(cth'[u], was'[u], efds')
        /\ was' \in [Poller -> SUBSET (End \X ReadyFlag)]
        /\ efds' \in Seq(EntryOf) /\ Distinct'
    BY CallsKept
  <1>5. ChannelsTypeOK'
    BY <1>4 DEF ChannelsInv, ChannelsTypeOK
  <1> QED BY <1>3, <1>4, <1>5 DEF ChannelsInv

(* A call that goes on with the answers it has.                            *)
SameAnswers(c, d) ==
  /\ d.call = c.call /\ d.n = c.n /\ d.pfds = c.pfds /\ d.sets = c.sets /\ d.out = c.out
  /\ d.moved = c.moved /\ c.at # "copy" /\ d.at # "copy"
(* Its answers stay true.                                                  *)
LEMMA AnswersKept ==
  ASSUME NEW c, NEW d, NEW w, NEW list, CallOK(c, w, list), SameAnswers(c, d),
         d.at # "return" \/ d.call # "select"
  PROVE  Truthful(d, w) /\ Epolled(d, list) /\ Told(d, w)
  <1>1. Truthful(d, w)
    BY DEF CallOK, Truthful, SameAnswers
  <1>2. Epolled(d, list)
    BY DEF CallOK, Epolled, SameAnswers
  <1>3. Told(d, w)
    BY DEF CallOK, Told, SameAnswers
  <1> QED BY <1>1, <1>2, <1>3

(* The call of a thread, with what is ready now.                           *)
LEMMA CallNow ==
  ASSUME ChannelsInv, NEW t \in Poller
  PROVE  cth[t] \in CallOf /\ CallOK(cth[t], was[t] \cup Ready, efds)
         /\ cth[t].holds \subseteq End
  <1>1. CallOK(cth[t], was[t], efds) /\ cth[t] \in CallOf
    BY DEF ChannelsInv, ChannelsTypeOK
  <1>2. CallOK(cth[t], was[t] \cup Ready, efds)
    BY <1>1, Grows
  <1> QED BY <1>1, <1>2 DEF CallOf, Querying

-----------------------------------------------------------------------------
(* Transfers. *)

(* A transfer that is under way is good whatever is ready.                 *)
LEMMA TransferOK ==
  ASSUME NEW d, NEW w, NEW list, d.call \in Transfer,
         d.at \in {"room", "ReadFile", "WriteFile", "query", "return"},
         d.then = "return", d.end \in End, d.pfds = << >>, d.out = {}
  PROVE  CallOK(d, w, list)
  <1>1. d.call \notin Wait /\ d.call # "none" /\ d.call # "epoll" /\ d.call # "select" /\ d.call # "poll"
    BY DEF Transfer, Wait
  <1>2. Placed(d)
    BY <1>1 DEF Placed, Querying
  <1>3. Noted(d, w) /\ Looking(d) /\ Counted(d) /\ Pending(d)
    BY <1>1 DEF Noted, Looking, Counted, Pending, Scanning, Checking
  <1>4. Truthful(d, w) /\ Epolled(d, list) /\ Told(d, w)
    BY <1>1 DEF Truthful, Epolled, Told
  <1> QED BY <1>2, <1>3, <1>4 DEF CallOK

(* A thread that has no call holds nothing and owes no event.              *)
LEMMA IdleIs ==
  ASSUME ChannelsInv, NEW t \in Poller, cth[t].at = "idle"
  PROVE  cth[t].holds = {} /\ cth[t].call = "none" /\ \A e \in End : ~Due(cth[t], e)
  BY CallNow DEF CallOK, Placed, Due

(* A transfer begins.                                                      *)
Begun(call, e, n, at, num) ==
  [NoCall EXCEPT !.call = call, !.end = e, !.n = n, !.holds = {e}, !.at = at, !.num = num]
(* What such a call is made of.                                            *)
LEMMA TransferIs ==
  ASSUME NEW e \in End, NEW n \in Nat, NEW call \in Transfer,
         NEW at \in {"query", "room", "ReadFile", "WriteFile"}, NEW num \in Int
  PROVE  LET d == Begun(call, e, n, at, num) IN
         /\ d \in CallOf /\ d.call = call /\ d.at = at /\ d.end = e /\ d.holds = {e}
         /\ d.then = "return" /\ d.pfds = << >> /\ d.out = {}
  <1>1. NoCall \in CallOf
    BY NoCallOK
  <1>2. at \in {"idle", "room", "ReadFile", "WriteFile", "return", "copy", "scan", "scanned",
                     "wait", "checked", "answer"} \cup Querying
    BY DEF Querying
  <1>3. NoCall.then = "return" /\ NoCall.pfds = << >> /\ NoCall.out = {}
    BY DEF NoCall
  <1> QED BY <1>1, <1>2, <1>3, ZenonT(60) DEF CallOf, Begun

(* Its start keeps the invariant.                                          *)
LEMMA BeginTransfer ==
  ASSUME ChannelsInv, WasStep, NEW t \in Poller, NEW d \in CallOf, BeginCall(t, d), d.call \in Transfer,
         d.at \in {"query", "room", "ReadFile", "WriteFile"}, d.end \in pipe.table, d.holds = {d.end},
         d.then = "return", d.pfds = << >>, d.out = {}, UNCHANGED <<pipe, event, efds, wrong>>
  PROVE  ChannelsInv'
  <1>1. d.end \in End /\ calls' \in Nat
    BY DEF ChannelsInv, ChannelsTypeOK, BeginCall
  <1>2. cth' = [cth EXCEPT ![t] = d] /\ cth[t].at = "idle"
    BY DEF BeginCall
  <1>3. CallOK(d, was[t] \cup Ready, efds)
    BY <1>1, TransferOK
  <1> QED BY <1>1, <1>2, <1>3, IdleIs, CalmInv

(* pipe_read.                                                              *)
LEMMA ReadBegins ==
  ASSUME ChannelsInv, WasStep, NEW t \in Poller, NEW e \in End, NEW n \in 1 .. Quota, pipe_read(t, e, n)
  PROVE  ChannelsInv'
  <1> DEFINE b(at, num) == Begun("read", e, n, at, num)
  <1>1. NoCall.num = 0 /\ NoCall \in CallOf
    BY NoCallOK DEF NoCall
  <1>2. n \in Nat /\ e \in pipe.table /\ UNCHANGED <<pipe, event, efds, wrong>>
    BY QuotaAssumption DEF pipe_read
  <1>3. BeginCall(t, b("query", EBADF)) \/ BeginCall(t, b("query", EAGAIN)) \/ BeginCall(t, b("ReadFile", 0))
    <2>1. /\ [[NoCall EXCEPT !.call = "read", !.end = e, !.n = n, !.holds = {e}]
                EXCEPT !.at = "query", !.num = EBADF] = b("query", EBADF)
          /\ [[NoCall EXCEPT !.call = "read", !.end = e, !.n = n, !.holds = {e}]
                EXCEPT !.at = "query", !.num = EAGAIN] = b("query", EAGAIN)
      BY <1>1 DEF CallOf, Begun
    <2>2. [[NoCall EXCEPT !.call = "read", !.end = e, !.n = n, !.holds = {e}]
                EXCEPT !.at = "ReadFile"] = b("ReadFile", 0)
      BY <1>1 DEF CallOf, Begun
    <2> HIDE DEF b
    <2> QED BY <2>1, <2>2 DEF pipe_read
  <1>4. EBADF \in Int /\ EAGAIN \in Int /\ "read" \in Transfer
    BY DEF EBADF, EAGAIN, Transfer
  <1>5. PICK at \in {"query", "room", "ReadFile", "WriteFile"}, num \in Int : BeginCall(t, b(at, num))
    <2> HIDE DEF b
    <2> QED BY <1>3, <1>4
  <1>6. /\ b(at, num) \in CallOf /\ b(at, num).call = "read" /\ b(at, num).at = at /\ b(at, num).end = e
        /\ b(at, num).holds = {e} /\ b(at, num).then = "return" /\ b(at, num).pfds = << >> /\ b(at, num).out = {}
    BY <1>2, <1>4, TransferIs
  <1> HIDE DEF b
  <1> QED BY <1>2, <1>4, <1>5, <1>6, BeginTransfer

(* pipe_write.                                                             *)
LEMMA WriteBegins ==
  ASSUME ChannelsInv, WasStep, NEW t \in Poller, NEW e \in End, NEW n \in 1 .. Quota, pipe_write(t, e, n)
  PROVE  ChannelsInv'
  <1> DEFINE b(at, num) == Begun("write", e, n, at, num)
  <1>1. NoCall.num = 0 /\ NoCall \in CallOf
    BY NoCallOK DEF NoCall
  <1>2. n \in Nat /\ e \in pipe.table /\ UNCHANGED <<pipe, event, efds, wrong>>
    BY QuotaAssumption DEF pipe_write
  <1>3. BeginCall(t, b("query", EAGAIN)) \/ BeginCall(t, b("room", 0)) \/ BeginCall(t, b("WriteFile", 0))
    <2>1. [[NoCall EXCEPT !.call = "write", !.end = e, !.n = n, !.holds = {e}]
                EXCEPT !.at = "query", !.num = EAGAIN] = b("query", EAGAIN)
      BY <1>1 DEF CallOf, Begun
    <2>2. /\ [[NoCall EXCEPT !.call = "write", !.end = e, !.n = n, !.holds = {e}]
                EXCEPT !.at = "WriteFile"] = b("WriteFile", 0)
          /\ [[NoCall EXCEPT !.call = "write", !.end = e, !.n = n, !.holds = {e}]
                EXCEPT !.at = "room"] = b("room", 0)
      BY <1>1 DEF CallOf, Begun
    <2> HIDE DEF b
    <2> QED BY <2>1, <2>2 DEF pipe_write
  <1>4. EAGAIN \in Int /\ "write" \in Transfer
    BY DEF EAGAIN, Transfer
  <1>5. PICK at \in {"query", "room", "ReadFile", "WriteFile"}, num \in Int : BeginCall(t, b(at, num))
    <2> HIDE DEF b
    <2> QED BY <1>3, <1>4
  <1>6. /\ b(at, num) \in CallOf /\ b(at, num).call = "write" /\ b(at, num).at = at /\ b(at, num).end = e
        /\ b(at, num).holds = {e} /\ b(at, num).then = "return" /\ b(at, num).pfds = << >> /\ b(at, num).out = {}
    BY <1>2, <1>4, TransferIs
  <1> HIDE DEF b
  <1> QED BY <1>2, <1>4, <1>5, <1>6, BeginTransfer

(* A transfer moves on: its place, and its result.                         *)
GoesOn(c, at, num) == [c EXCEPT !.at = at, !.num = num]
(* What it is after that.                                                  *)
LEMMA TransferStep ==
  ASSUME ChannelsInv, NEW t \in Poller, cth[t].at \in {"room", "ReadFile", "WriteFile"},
         NEW at \in {"query", "WriteFile"}, NEW num \in Int
  PROVE  LET d == GoesOn(cth[t], at, num) IN
         /\ d \in CallOf /\ d.holds = cth[t].holds /\ d.at = at /\ d.then = "return"
         /\ \A w, list : CallOK(d, w, list)
         /\ \A e \in End : ~Due(cth[t], e)
  <1> DEFINE c == cth[t]
             d == GoesOn(c, at, num)
  <1>1. c \in CallOf /\ Placed(c)
    BY CallNow DEF CallOK
  <1>2. c.call \in Transfer /\ c.then = "return" /\ c.end \in End /\ c.pfds = << >> /\ c.out = {}
    BY <1>1 DEF Placed, CallOf, Querying, Wait, Transfer
  <1>3. /\ d \in CallOf /\ d.call = c.call /\ d.at = at /\ d.end = c.end /\ d.holds = c.holds
        /\ d.then = c.then /\ d.pfds = c.pfds /\ d.out = c.out
    BY <1>1 DEF CallOf, Querying, GoesOn
  <1> HIDE DEF d
  <1>4. \A w, list : CallOK(d, w, list)
    BY <1>2, <1>3, TransferOK
  <1>5. \A e \in End : ~Due(c, e)
    BY DEF Due
  <1> QED BY <1>2, <1>3, <1>4, <1>5 DEF d

(* The question for room.                                                  *)
LEMMA WriteRoomInv ==
  ASSUME ChannelsInv, WasStep, NEW t \in Poller, WriteRoom(t)
  PROVE  ChannelsInv'
  <1> DEFINE c == cth[t]
             b(at, num) == GoesOn(c, at, num)
  <1>1. c \in CallOf /\ c.at = "room" /\ c.num \in Int
    BY CallNow DEF WriteRoom, StepCall, CallOf
  <1>2. [c EXCEPT !.at = "WriteFile"] = b("WriteFile", c.num)
    BY <1>1 DEF CallOf, GoesOn
  <1>3. EPIPE \in Int /\ EAGAIN \in Int
    BY DEF EPIPE, EAGAIN
  <1>4. \E at \in {"query", "WriteFile"}, num \in Int : cth' = [cth EXCEPT ![t] = b(at, num)]
    <2>1. Update(t, EPIPE) = b("query", EPIPE) /\ Update(t, EAGAIN) = b("query", EAGAIN)
      BY DEF Update, GoesOn
    <2> HIDE DEF b
    <2>2. \/ cth' = [cth EXCEPT ![t] = b("query", EPIPE)] \/ cth' = [cth EXCEPT ![t] = b("query", EAGAIN)]
          \/ cth' = [cth EXCEPT ![t] = b("WriteFile", c.num)]
      BY <1>2, <2>1 DEF WriteRoom, StepCall
    <2> QED BY <1>1, <1>3, <2>2
  <1>5. PICK at \in {"query", "WriteFile"}, num \in Int : cth' = [cth EXCEPT ![t] = b(at, num)]
    BY <1>4
  <1> DEFINE d == b(at, num)
  <1>6. /\ d \in CallOf /\ d.holds = c.holds
        /\ \A w, list : CallOK(d, w, list)
        /\ \A e \in End : ~Due(c, e)
    BY <1>1, TransferStep
  <1>7. UNCHANGED <<pipe, event, efds, wrong>> /\ calls' \in Nat
    BY DEF WriteRoom, StepCall, ChannelsInv, ChannelsTypeOK
  <1> HIDE DEF d
  <1> QED BY <1>5, <1>6, <1>7, CalmInv DEF d

(* Once the bytes have moved the thread owes both events.                  *)
LEMMA UpdateIs ==
  ASSUME NEW t \in Poller, NEW num
  PROVE  Update(t, num) = GoesOn(cth[t], "query", num)
  BY DEF Update, GoesOn

Filled(data) == [pipe EXCEPT !.data = data]
(* A transfer of some bytes, or of none.                                   *)
LEMMA TransferInv ==
  ASSUME ChannelsInv, WasStep, NEW t \in Poller, NEW num \in Int,
         cth[t].at \in {"room", "ReadFile", "WriteFile"}, cth' = [cth EXCEPT ![t] = Update(t, num)],
         UNCHANGED <<event, efds, wrong, calls>>, NEW data \in Nat, pipe' = Filled(data)
  PROVE  ChannelsInv'
  <1> DEFINE d == Update(t, num)
  <1>1. /\ d \in CallOf /\ d.at = "query" /\ d.then = "return"
        /\ CallOK(d, was[t] \cup Ready, efds)
    BY TransferStep, UpdateIs, ZenonT(60)
  <1>2. \A e \in End : Due(d, e)
    BY <1>1 DEF Due
  <1> HIDE DEF d
  <1>3. cth \in [Poller -> CallOf] /\ cth'[t] = d
    BY DEF ChannelsInv, ChannelsTypeOK, d
  <1>4. Agreement'
    BY <1>2, <1>3 DEF Agreement
  <1>5. /\ cth' \in [Poller -> CallOf] /\ \A u \in Poller : CallOK(cth'[u], was'[u], efds')
        /\ was' \in [Poller -> SUBSET (End \X ReadyFlag)]
        /\ efds' \in Seq(EntryOf) /\ Distinct'
    BY <1>1, CallsKept DEF d
  <1>6. pipe' \in [data : Nat, table : SUBSET End, nonblock : SUBSET End]
    BY DEF ChannelsInv, ChannelsTypeOK, Filled
  <1>7. ChannelsTypeOK'
    BY <1>5, <1>6 DEF ChannelsInv, ChannelsTypeOK
  <1> QED BY <1>4, <1>5, <1>7 DEF ChannelsInv

(* ReadFile of pipe_read.                                                  *)
LEMMA ReadFileInv ==
  ASSUME ChannelsInv, WasStep, NEW t \in Poller, ReadFile(t)
  PROVE  ChannelsInv'
  <1> DEFINE k == FX!Min({cth[t].n, pipe.data})
             left == pipe.data - k
  <1>1. cth[t].n \in Nat /\ pipe.data \in Nat
    BY CallNow DEF CallOf, ChannelsInv, ChannelsTypeOK
  <1>2. k \in Nat /\ left \in Nat
    <2>1. cth[t].n \in Int /\ pipe.data \in Int
      BY <1>1
    <2>2. k = IF cth[t].n <= pipe.data THEN cth[t].n ELSE pipe.data
      BY <2>1, MinOfTwo
    <2> HIDE DEF k
    <2> QED BY <1>1, <2>2
  <1>4. k \in Int
    BY <1>2
  <1>3. /\ cth[t].at = "ReadFile" /\ cth' = [cth EXCEPT ![t] = Update(t, k)]
        /\ UNCHANGED <<event, efds, wrong, calls>> /\ pipe' = Filled(left)
    BY DEF ReadFile, StepCall, Filled
  <1> HIDE DEF k, left
  <1> QED BY <1>2, <1>3, <1>4, TransferInv

(* WriteFile of pipe_write.                                                *)
LEMMA WriteFileInv ==
  ASSUME ChannelsInv, WasStep, NEW t \in Poller, WriteFile(t)
  PROVE  ChannelsInv'
  <1>1. cth[t].n \in Nat /\ pipe.data \in Nat /\ EIO \in Int /\ EPIPE \in Int
        /\ pipe \in [data : Nat, table : SUBSET End, nonblock : SUBSET End]
    BY CallNow, SMTT(60) DEF CallOf, ChannelsInv, ChannelsTypeOK, EIO, EPIPE
  <1> DEFINE sum == pipe.data + cth[t].n
  <1>2. pipe = Filled(pipe.data)
    BY <1>1 DEF Filled
  <1>6. sum \in Nat /\ cth[t].n \in Int
    BY <1>1
  <1>3. cth[t].at = "WriteFile" /\ UNCHANGED <<event, efds, wrong, calls>>
    BY DEF WriteFile, StepCall
  <1>4. CASE \E num \in {EIO, EPIPE} : cth' = [cth EXCEPT ![t] = Update(t, num)] /\ pipe' = pipe
    BY <1>1, <1>2, <1>3, <1>4, TransferInv
  <1>5. CASE cth' = [cth EXCEPT ![t] = Update(t, cth[t].n)] /\ pipe' = Filled(sum)
    <2> HIDE DEF sum
    <2> QED BY <1>3, <1>5, <1>6, TransferInv
  <1> QED BY <1>4, <1>5 DEF WriteFile, StepCall, Filled

-----------------------------------------------------------------------------
(* Queries and stores. *)

(* What was found is noted, and told to nobody yet.                        *)
LEMMA QueryInv ==
  ASSUME ChannelsInv, WasStep, NEW t \in Poller, Query(t)
  PROVE  ChannelsInv'
  <1> DEFINE c == cth[t]
             w == was[t] \cup Ready
             d == [c EXCEPT !.at = "set_r", !.info = Info]
  <1>1. c \in CallOf /\ CallOK(c, w, efds) /\ c.at = "query"
    BY CallNow DEF Query, StepCall
  <1>2. Info \in [data : Nat, up : BOOLEAN]
    BY DEF Info, ChannelsInv, ChannelsTypeOK
  <1>3. /\ d \in CallOf /\ d.at = "set_r" /\ d.info = Info /\ SameAnswers(c, d)
        /\ d.then = c.then /\ d.end = c.end /\ d.i = c.i /\ d.handles = c.handles /\ d.num = c.num
        /\ d.holds = c.holds
    BY <1>1, <1>2 DEF CallOf, Querying, SameAnswers
  <1>4. cth' = [cth EXCEPT ![t] = d] /\ UNCHANGED <<pipe, event, efds, wrong>> /\ calls' \in Nat
    BY DEF Query, StepCall, ChannelsInv, ChannelsTypeOK
  <1> HIDE DEF d
  <1>5. Truthful(d, w) /\ Epolled(d, efds) /\ Told(d, w)
    BY <1>1, <1>3, AnswersKept
  <1>6. Placed(d)
    BY <1>1, <1>3 DEF CallOK, Placed, SameAnswers, Querying, Transfer
  <1>7. Looking(d)
    BY <1>1, <1>3 DEF CallOK, Looking, SameAnswers, Querying
  <1>8. d.end \in End
    BY <1>1, <1>3 DEF CallOK, Looking, Placed, Querying, Wait, Transfer, CallOf
  <1>9. Noted(d, w)
    BY <1>3, <1>8, ReadyIs DEF Noted
  <1>10. Counted(d) /\ Pending(d)
    <2>1. (Scanning(d) <=> Scanning(c)) /\ (Checking(d) <=> Checking(c)) /\ Answered(d) = Answered(c)
      BY <1>1, <1>3 DEF Scanning, Checking, Querying, SameAnswers, Answered
    <2>2. Counted(d)
      BY <1>1, <1>3, <2>1 DEF CallOK, Counted, SameAnswers
    <2>3. Pending(d)
      BY <1>1, <1>3, <2>1 DEF CallOK, Pending, SameAnswers
    <2> QED BY <2>2, <2>3
  <1>11. CallOK(d, w, efds)
    BY <1>5, <1>6, <1>7, <1>9, <1>10 DEF CallOK
  <1>12. \A e \in End : Due(c, e) => Due(d, e)
    BY <1>1, <1>3 DEF Due
  <1> QED BY <1>3, <1>4, <1>11, <1>12, CalmInv

(* A call goes on after a store.                                           *)
LEMMA AfterStore ==
  ASSUME NEW c \in CallOf, NEW w, NEW list, CallOK(c, w, list), c.at \in {"set_r", "set_w"},
         NEW at, c.at = "set_r" => at = "set_w", c.at = "set_w" => at = c.then
  PROVE  LET d == [c EXCEPT !.at = at] IN
         d \in CallOf /\ CallOK(d, w, list) /\ d.at = at /\ d.then = c.then /\ d.holds = c.holds
  <1> DEFINE d == [c EXCEPT !.at = at]
  <1>1. /\ c.call \in Transfer => c.then = "return"
        /\ c.call \in Wait => c.then \in {"scanned", "checked"}
        /\ c.call \in Transfer \cup Wait
    BY DEF CallOK, Placed, CallOf, Querying
  <1>2. at \in {"set_w", "return", "scanned", "checked"}
    BY <1>1
  <1>3. /\ d \in CallOf /\ d.at = at /\ d.call = c.call /\ d.then = c.then /\ d.end = c.end /\ d.info = c.info
        /\ d.i = c.i /\ d.handles = c.handles /\ d.num = c.num /\ d.holds = c.holds /\ d.pfds = c.pfds
    BY <1>2 DEF CallOf, Querying
  <1>4. SameAnswers(c, d)
    BY <1>2, <1>3 DEF CallOf, SameAnswers
  <1> HIDE DEF d
  <1>5. Truthful(d, w) /\ Epolled(d, list) /\ Told(d, w)
    <2>1. d.at # "return" \/ d.call # "select"
      BY <1>1, <1>3 DEF Wait
    <2> QED BY <1>4, <2>1, AnswersKept
  <1>6. Placed(d)
    BY <1>1, <1>2, <1>3, <1>4 DEF CallOK, Placed, SameAnswers, Querying, Transfer, Wait
  <1>7. Looking(d)
    BY <1>1, <1>2, <1>3 DEF CallOK, Looking, Querying
  <1>8. Noted(d, w)
    BY <1>3 DEF CallOK, Noted
  <1>9. Counted(d) /\ Pending(d)
    <2>1. (Scanning(d) <=> Scanning(c)) /\ (Checking(d) <=> Checking(c)) /\ Answered(d) = Answered(c)
      BY <1>1, <1>2, <1>3 DEF Scanning, Checking, Querying, Answered, Wait, Transfer
    <2>2. d.call # "poll" \/ d.at \notin {"answer", "return"}
      BY <1>1, <1>2, <1>3 DEF Wait
    <2>3. Counted(d)
      BY <1>3, <2>1, <2>2 DEF CallOK, Counted
    <2>4. Pending(d)
      BY <1>3, <2>1 DEF CallOK, Pending
    <2> QED BY <2>3, <2>4
  <1>10. CallOK(d, w, list)
    BY <1>5, <1>6, <1>7, <1>8, <1>9 DEF CallOK
  <1> QED BY <1>3, <1>10 DEF d

(* The event is right after the store, or known to be wrong.               *)
LEMMA StoreInv ==
  ASSUME ChannelsInv, WasStep, NEW t \in Poller, NEW at \in {"set_r", "set_w"}, NEW e \in End, NEW next,
         Store(t, at, e, next), e = (IF at = "set_r" THEN "r" ELSE "w"),
         next = (IF at = "set_r" THEN "set_w" ELSE cth[t].then)
  PROVE  ChannelsInv'
  <1> DEFINE c == cth[t]
             d == [c EXCEPT !.at = next]
             w == was[t] \cup Ready
  <1>1. c \in CallOf /\ CallOK(c, w, efds) /\ c.at = at
    BY CallNow DEF Store, StepCall
  <1>2. d \in CallOf /\ CallOK(d, w, efds) /\ d.at = next /\ d.then = c.then /\ d.holds = c.holds
    BY <1>1, AfterStore, SMTT(30)
  <1>3. cth' = [cth EXCEPT ![t] = d] /\ UNCHANGED <<pipe, efds, calls>>
    BY DEF Store, StepCall
  <1>4. cth \in [Poller -> CallOf] /\ Agreement /\ event \in [End -> BOOLEAN] /\ wrong \in SUBSET End
    BY DEF ChannelsInv, ChannelsTypeOK
  <1> HIDE DEF d
  <1>5. Info' = Info
    BY <1>2, <1>3, <1>4, InfoKept
  <1> DEFINE on == Signalled(e, c.info)
  <1>6. on \in BOOLEAN /\ Signalled(e, Info) \in BOOLEAN
    BY DEF Signalled
  <1>7. event' = [event EXCEPT ![e] = on] /\ wrong' = IF on = Signalled(e, Info) THEN wrong \ {e} ELSE wrong \cup {e}
    BY DEF Store
  <1>8. event' \in [End -> BOOLEAN] /\ wrong' \in SUBSET End
    BY <1>4, <1>6, <1>7
  <1>9. e \in wrong' \/ (event'[e] <=> Signalled(e, Info))
    BY <1>4, <1>6, <1>7
  <1>10. ASSUME NEW f \in End, f # e
         PROVE  f \in wrong' \/ (event'[f] <=> Signalled(f, Info)) \/ \E u \in Poller : Due(cth'[u], f)
    <2>1. event'[f] = event[f] /\ (f \in wrong => f \in wrong')
      BY <1>4, <1>7, <1>10
    <2>2. CASE f \in wrong \/ (event[f] <=> Signalled(f, Info))
      BY <2>1, <2>2
    <2>3. CASE \E u \in Poller : Due(cth[u], f)
      <3>1. PICK u \in Poller : Due(cth[u], f)
        BY <2>3
      <3>2. CASE u = t
        <4>1. at = "set_r" /\ c.then = "return" /\ f = "w"
          BY <1>1, <1>10, <3>1, <3>2 DEF Due, End
        <4>2. Due(d, f)
          BY <1>2, <4>1 DEF Due
        <4>3. cth'[t] = d
          BY <1>3, <1>4
        <4> QED BY <4>2, <4>3
      <3>3. CASE u # t
        <4>1. cth'[u] = cth[u]
          BY <1>3, <1>4, <3>3
        <4> QED BY <3>1, <4>1
      <3> QED BY <3>2, <3>3
    <2> QED BY <1>4, <2>2, <2>3 DEF Agreement
  <1>11. Agreement'
    BY <1>5, <1>9, <1>10 DEF Agreement
  <1>12. /\ cth' \in [Poller -> CallOf] /\ \A u \in Poller : CallOK(cth'[u], was'[u], efds')
         /\ was' \in [Poller -> SUBSET (End \X ReadyFlag)]
         /\ efds' \in Seq(EntryOf) /\ Distinct'
    BY <1>2, <1>3, CallsKept
  <1>13. ChannelsTypeOK'
    BY <1>3, <1>8, <1>12 DEF ChannelsInv, ChannelsTypeOK
  <1> QED BY <1>11, <1>12, <1>13 DEF ChannelsInv

-----------------------------------------------------------------------------
(* The ends of calls and what else changes the pipe. *)

(* An end is closed: the events this leaves wrong are known.               *)
LEMMA OutdatedIs ==
  ASSUME Outdated, Agreement, wrong \in SUBSET End, event' = event,
         NEW t \in Poller, NEW d, cth \in [Poller -> CallOf], cth' = [cth EXCEPT ![t] = d],
         \A e \in End : ~Due(cth[t], e)
  PROVE  wrong' \in SUBSET End /\ Agreement'
  <1>1. wrong' = wrong \cup {e \in End : Signalled(e, Info) # Signalled(e, Info')}
    BY DEF Outdated
  <1>2. \A e \in End : Signalled(e, Info) \in BOOLEAN /\ Signalled(e, Info') \in BOOLEAN
    BY DEF Signalled
  <1>3. ASSUME NEW e \in End
        PROVE  e \in wrong' \/ (event'[e] <=> Signalled(e, Info')) \/ \E u \in Poller : Due(cth'[u], e)
    <2>1. e \in wrong' \/ (Signalled(e, Info) <=> Signalled(e, Info'))
      <3> DEFINE a == Signalled(e, Info)
                 b == Signalled(e, Info')
      <3>1. a \in BOOLEAN /\ b \in BOOLEAN
        BY <1>2
      <3>2. a # b => e \in wrong'
        BY <1>1
      <3> HIDE DEF a, b
      <3>3. a # b \/ (a <=> b)
        BY <3>1
      <3> QED BY <3>2, <3>3 DEF a, b
    <2>2. CASE e \in wrong
      BY <1>1, <2>2
    <2>3. CASE event[e] <=> Signalled(e, Info)
      BY <2>1, <2>3
    <2>4. CASE \E u \in Poller : Due(cth[u], e)
      <3>1. PICK u \in Poller : Due(cth[u], e)
        BY <2>4
      <3>2. cth'[u] = cth[u]
        BY <3>1
      <3> QED BY <3>1, <3>2
    <2> QED BY <2>2, <2>3, <2>4 DEF Agreement
  <1> QED BY <1>1, <1>3 DEF Agreement

(* A call ends.                                                            *)
LEMMA EndOfCall ==
  ASSUME ChannelsInv, WasStep, NEW t \in Poller, cth' = [cth EXCEPT ![t] = NoCall], Outdated,
         UNCHANGED <<event, efds>>, calls' \in Nat, cth[t].at \in {"idle", "return"},
         pipe' \in [data : Nat, table : SUBSET End, nonblock : SUBSET End]
  PROVE  ChannelsInv'
  <1>1. NoCall \in CallOf /\ CallOK(NoCall, was[t] \cup Ready, efds)
    BY NoCallOK
  <1>2. cth \in [Poller -> CallOf] /\ Agreement /\ wrong \in SUBSET End
    BY DEF ChannelsInv, ChannelsTypeOK
  <1>3. \A e \in End : ~Due(cth[t], e)
    BY DEF Due
  <1>4. wrong' \in SUBSET End /\ Agreement'
    BY <1>2, <1>3, OutdatedIs
  <1>5. /\ cth' \in [Poller -> CallOf] /\ \A u \in Poller : CallOK(cth'[u], was'[u], efds')
        /\ was' \in [Poller -> SUBSET (End \X ReadyFlag)]
        /\ efds' \in Seq(EntryOf) /\ Distinct'
    BY <1>1, CallsKept
  <1>6. ChannelsTypeOK'
    BY <1>4, <1>5 DEF ChannelsInv, ChannelsTypeOK
  <1> QED BY <1>4, <1>5, <1>6 DEF ChannelsInv

(* The return from a call.                                                 *)
LEMMA ReturnCallInv ==
  ASSUME ChannelsInv, WasStep, NEW t \in Poller, ReturnCall(t)
  PROVE  ChannelsInv'
  BY EndOfCall DEF ReturnCall, StepCall, ChannelsInv, ChannelsTypeOK

(* close, of a descriptor of the pipe.                                     *)
LEMMA CloseInv ==
  ASSUME ChannelsInv, WasStep, NEW t \in Poller, NEW e \in End, Close(t, e)
  PROVE  ChannelsInv'
  <1>1. pipe' \in [data : Nat, table : SUBSET End, nonblock : SUBSET End] /\ calls' \in Nat
    BY DEF Close, BeginCall, ChannelsInv, ChannelsTypeOK
  <1> QED BY <1>1, EndOfCall DEF Close, BeginCall

(* fcntl(F_SETFL).                                                         *)
LEMMA SetFlagsInv ==
  ASSUME ChannelsInv, WasStep, NEW t \in Poller, NEW e \in End, F_SETFL(t, e)
  PROVE  ChannelsInv'
  <1>1. /\ pipe' \in [data : Nat, table : SUBSET End, nonblock : SUBSET End] /\ calls' \in Nat
        /\ pipe'.data = pipe.data /\ pipe'.table = pipe.table
    BY DEF F_SETFL, BeginCall, ChannelsInv, ChannelsTypeOK
  <1>2. cth[t].at = "idle" /\ cth' = [cth EXCEPT ![t] = NoCall] /\ UNCHANGED <<event, efds, wrong>>
    BY DEF F_SETFL, BeginCall
  <1>3. /\ NoCall \in CallOf /\ CallOK(NoCall, was[t] \cup Ready, efds) /\ NoCall.holds = {}
        /\ cth[t].holds = {} /\ \A e1 \in End : ~Due(cth[t], e1)
    BY <1>2, NoCallOK, IdleIs
  <1>4. cth \in [Poller -> CallOf] /\ Agreement
    BY DEF ChannelsInv, ChannelsTypeOK
  <1>5. Info' = Info
    BY <1>1, <1>2, <1>3, <1>4, InfoKept
  <1>6. Agreement'
    BY <1>2, <1>3, <1>4, <1>5, EventsKept
  <1>7. /\ cth' \in [Poller -> CallOf] /\ \A u \in Poller : CallOK(cth'[u], was'[u], efds')
        /\ was' \in [Poller -> SUBSET (End \X ReadyFlag)]
        /\ efds' \in Seq(EntryOf) /\ Distinct'
    BY <1>2, <1>3, CallsKept
  <1>8. ChannelsTypeOK'
    BY <1>1, <1>2, <1>7 DEF ChannelsInv, ChannelsTypeOK
  <1> QED BY <1>6, <1>7, <1>8 DEF ChannelsInv

-----------------------------------------------------------------------------
(* The interest list. *)

Marked(c) == [c EXCEPT !.moved = c.call = "epoll" \/ @]

(* A call whose list has changed is not compared with it any more.         *)
LEMMA MarkedOK ==
  ASSUME NEW c \in CallOf, NEW w, NEW list, NEW new, CallOK(c, w, list)
  PROVE  /\ Marked(c) \in CallOf /\ CallOK(Marked(c), w, new) /\ Marked(c).at = c.at
         /\ Marked(c).then = c.then /\ Marked(c).holds = c.holds
  <1> DEFINE d == Marked(c)
  <1>1. /\ d \in CallOf /\ d.at = c.at /\ d.call = c.call /\ d.then = c.then /\ d.end = c.end
        /\ d.n = c.n /\ d.info = c.info /\ d.pfds = c.pfds /\ d.i = c.i /\ d.handles = c.handles
        /\ d.num = c.num /\ d.holds = c.holds /\ d.sets = c.sets /\ d.out = c.out
    BY ZenonT(60) DEF CallOf, Marked
  <1>2. d.call = "epoll" => d.moved
    BY DEF CallOf, Marked
  <1>3. d.moved <=> (c.call = "epoll" \/ c.moved)
    BY DEF CallOf, Marked
  <1> HIDE DEF d
  <1>4. (Scanning(d) <=> Scanning(c)) /\ (Checking(d) <=> Checking(c)) /\ Answered(d) = Answered(c)
    BY <1>1 DEF Scanning, Checking, Answered
  <1>5. Placed(d) /\ Noted(d, w) /\ Looking(d)
    BY <1>1 DEF CallOK, Placed, Noted, Looking
  <1>6. Counted(d) /\ Pending(d)
    <2>1. Counted(d)
      BY <1>1, <1>4 DEF CallOK, Counted
    <2>2. Pending(d)
      BY <1>1, <1>4 DEF CallOK, Pending
    <2> QED BY <2>1, <2>2
  <1>7. Truthful(d, w)
    BY <1>1 DEF CallOK, Truthful
  <1>8. Epolled(d, new)
    BY <1>1, <1>2 DEF CallOK, Epolled
  <1>9. Told(d, w)
    BY <1>1, <1>3 DEF CallOK, Told
  <1>10. CallOK(d, w, new)
    BY <1>5, <1>6, <1>7, <1>8, <1>9 DEF CallOK
  <1> QED BY <1>1, <1>10 DEF d

(* The list changes, under a wait that may have begun with it.             *)
LEMMA ListInv ==
  ASSUME ChannelsInv, WasStep, NEW t \in Poller, NEW list \in Seq(EntryOf), epoll_ctl(t, list),
         \A i, j \in DOMAIN list : list[i].fd = list[j].fd => i = j
  PROVE  ChannelsInv'
  <1>1. cth \in [Poller -> CallOf] /\ Agreement
    BY DEF ChannelsInv, ChannelsTypeOK
  <1>2. cth' = [u \in Poller |-> Marked(cth[u])] /\ efds' = list /\ UNCHANGED <<pipe, event, wrong>>
        /\ calls' \in Nat
    <2>1. \A u \in Poller : Marked(cth[u]) = [cth[u] EXCEPT !.moved = cth[u].call = "epoll" \/ @]
      BY DEF Marked
    <2> QED BY <2>1 DEF epoll_ctl, ChannelsInv, ChannelsTypeOK
  <1>3. \A u \in Poller : /\ cth'[u] \in CallOf /\ cth'[u].at = cth[u].at /\ cth'[u].then = cth[u].then
                          /\ cth'[u].holds = cth[u].holds
    <2> TAKE u \in Poller
    <2>1. cth[u] \in CallOf /\ CallOK(cth[u], was[u], efds)
      BY <1>1 DEF ChannelsInv
    <2> QED BY <1>2, <2>1, MarkedOK
  <1>4. ASSUME NEW u \in Poller PROVE CallOK(cth'[u], was'[u], efds')
    <2>1. was[u] \subseteq was'[u] \/ cth[u].at = "idle"
      BY <1>3, WasNext
    <2>2. CallOK(cth[u], was[u], efds) /\ cth[u] \in CallOf
      BY <1>1 DEF ChannelsInv
    <2>3. CallOK(cth[u], was'[u], efds)
      BY <2>1, <2>2, Grows
    <2> QED BY <1>2, <2>2, <2>3, MarkedOK
  <1>5. Info' = Info
    <2>1. Open' = Open
      <3>1. {cth'[u].holds : u \in Poller} = {cth[u].holds : u \in Poller}
        BY <1>3
      <3> QED BY <1>2, <3>1 DEF Open
    <2> QED BY <1>2, <2>1 DEF Info
  <1>6. Agreement'
    <2>1. \A u \in Poller, e \in End : Due(cth[u], e) => Due(cth'[u], e)
      BY <1>3 DEF Due
    <2> QED BY <1>1, <1>2, <1>5, <2>1 DEF Agreement
  <1>7. cth' \in [Poller -> CallOf]
    BY <1>2, <1>3
  <1>8. ChannelsTypeOK' /\ Distinct'
    <2>1. was' \in [Poller -> SUBSET (End \X ReadyFlag)]
      BY WasNext
    <2> QED BY <1>2, <1>7, <2>1 DEF ChannelsInv, ChannelsTypeOK, Distinct
  <1> QED BY <1>4, <1>6, <1>8 DEF ChannelsInv

(* EPOLL_CTL_ADD: the descriptor was not in the list.                      *)
LEMMA ListAddInv ==
  ASSUME ChannelsInv, WasStep, NEW t \in Poller, NEW fd \in End, NEW ev \in EventSet,
         epollfd_ctl_add(t, fd, ev)
  PROVE  ChannelsInv'
  <1> DEFINE new == [fd |-> fd, events |-> ev]
             list == Append(efds, new)
  <1>1. efds \in Seq(EntryOf) /\ Distinct /\ new \in EntryOf
    BY ArgumentsAssumption DEF ChannelsInv, ChannelsTypeOK, EntryOf
  <1>2. epoll_ctl(t, list) /\ \A i \in DOMAIN efds : efds[i].fd # fd
    BY DEF epollfd_ctl_add, Entries
  <1>3. /\ list \in Seq(EntryOf) /\ DOMAIN list = 1 .. Len(efds) + 1 /\ DOMAIN efds = 1 .. Len(efds)
        /\ \A i \in 1 .. Len(efds) : list[i] = efds[i]
        /\ list[Len(efds) + 1] = new /\ new.fd = fd /\ Len(efds) \in Nat
    <2> HIDE DEF new
    <2>1. list \in Seq(EntryOf) /\ Len(list) = Len(efds) + 1
      BY <1>1
    <2>2. \A i \in 1 .. Len(efds) : list[i] = efds[i]
      BY <1>1
    <2>3. list[Len(efds) + 1] = new
      BY <1>1
    <2>4. DOMAIN list = 1 .. Len(efds) + 1 /\ DOMAIN efds = 1 .. Len(efds) /\ Len(efds) \in Nat
      BY <1>1, <2>1, LenProperties
    <2> QED BY <2>1, <2>2, <2>3, <2>4 DEF new
  <1> HIDE DEF list, new
  <1>4. \A i, j \in DOMAIN list : list[i].fd = list[j].fd => i = j
    BY <1>1, <1>2, <1>3 DEF Distinct
  <1> QED BY <1>2, <1>3, <1>4, ListInv

(* EPOLL_CTL_MOD.                                                          *)
LEMMA ListModInv ==
  ASSUME ChannelsInv, WasStep, NEW t \in Poller, NEW fd \in End, NEW ev \in EventSet,
         epollfd_ctl_mod(t, fd, ev)
  PROVE  ChannelsInv'
  <1>1. PICK i \in Entries(fd) : epoll_ctl(t, [efds EXCEPT ![i].events = ev])
    BY DEF epollfd_ctl_mod
  <1> DEFINE new == [efds[i] EXCEPT !.events = ev]
             list == [efds EXCEPT ![i] = new]
  <1>2. efds \in Seq(EntryOf) /\ Distinct /\ i \in DOMAIN efds /\ ev \in SUBSET Flag
    BY ArgumentsAssumption DEF ChannelsInv, ChannelsTypeOK, Entries
  <1>3. efds[i] \in EntryOf
    BY <1>2
  <1>4. new \in EntryOf /\ new.fd = efds[i].fd /\ epoll_ctl(t, list)
    BY <1>1, <1>2, <1>3 DEF EntryOf
  <1> HIDE DEF new
  <1>5. /\ list \in Seq(EntryOf) /\ DOMAIN list = DOMAIN efds
        /\ \A j \in DOMAIN efds : list[j] = IF j = i THEN new ELSE efds[j]
    BY <1>2, <1>4, LenProperties, ExceptSeq
  <1> HIDE DEF list
  <1>6. \A j, k \in DOMAIN list : list[j].fd = list[k].fd => j = k
    BY <1>2, <1>4, <1>5 DEF Distinct
  <1> QED BY <1>4, <1>5, <1>6, ListInv

(* EPOLL_CTL_DEL: the entries behind it move up.                           *)
LEMMA ListDelInv ==
  ASSUME ChannelsInv, WasStep, NEW t \in Poller, NEW fd \in End, epollfd_ctl_del(t, fd)
  PROVE  ChannelsInv'
  <1>1. PICK i \in Entries(fd) : epoll_ctl(t, SubSeq(efds, 1, i - 1) \o SubSeq(efds, i + 1, Len(efds)))
    BY DEF epollfd_ctl_del
  <1> DEFINE n == Len(efds)
             a == SubSeq(efds, 1, i - 1)
             b == SubSeq(efds, i + 1, n)
             list == a \o b
  <1>2. efds \in Seq(EntryOf) /\ Distinct /\ n \in Nat /\ DOMAIN efds = 1 .. n /\ i \in 1 .. n
    BY LenProperties DEF ChannelsInv, ChannelsTypeOK, Entries
  <1>3. a \in Seq(EntryOf) /\ Len(a) = i - 1 /\ \A j \in 1 .. i - 1 : a[j] = efds[j]
    <2>1. \A j \in 1 .. i - 1 : efds[j] \in EntryOf
      BY <1>2, ElementOfSeq
    <2> QED BY <1>2, <2>1, SubSeqProperties
  <1>4. b \in Seq(EntryOf) /\ Len(b) = n - i /\ \A j \in 1 .. n - i : b[j] = efds[i + j]
    <2>1. \A j \in i + 1 .. n : efds[j] \in EntryOf
      BY <1>2, ElementOfSeq
    <2>2. i + 1 \in Int /\ n \in Int
      BY <1>2
    <2> HIDE DEF n
    <2>3. /\ b \in Seq(EntryOf) /\ Len(b) = IF i + 1 <= n THEN n - (i + 1) + 1 ELSE 0
          /\ \A j \in 1 .. n - (i + 1) + 1 : b[j] = efds[i + 1 + j - 1]
      BY <2>1, <2>2, SubSeqProperties
    <2>4. n - (i + 1) + 1 = n - i /\ \A j \in 1 .. n - i : i + 1 + j - 1 = i + j
      BY <1>2
    <2>5. (IF i + 1 <= n THEN n - (i + 1) + 1 ELSE 0) = n - i
      BY <1>2
    <2> QED BY <2>3, <2>4, <2>5
  <1> HIDE DEF a, b, n
  <1>5. /\ list \in Seq(EntryOf) /\ Len(list) = n - 1 /\ DOMAIN list = 1 .. n - 1
        /\ \A j \in 1 .. n - 1 : list[j] = IF j < i THEN efds[j] ELSE efds[j + 1]
    <2>1. /\ list \in Seq(EntryOf) /\ Len(list) = Len(a) + Len(b)
          /\ \A j \in 1 .. Len(a) + Len(b) : list[j] = IF j <= Len(a) THEN a[j] ELSE b[j - Len(a)]
      BY <1>3, <1>4, ConcatProperties
    <2>2. Len(a) + Len(b) = n - 1
      BY <1>2, <1>3, <1>4
    <2>3. DOMAIN list = 1 .. n - 1
      BY <2>1, <2>2, LenProperties
    <2> HIDE DEF list
    <2>4. ASSUME NEW j \in 1 .. n - 1 PROVE list[j] = IF j < i THEN efds[j] ELSE efds[j + 1]
      <3>1. CASE j < i
        <4>1. j \in 1 .. i - 1 /\ j <= Len(a) /\ j \in 1 .. Len(a) + Len(b)
          BY <1>2, <1>3, <2>2, <3>1
        <4> QED BY <1>3, <2>1, <3>1, <4>1
      <3>2. CASE ~(j < i)
        <4>1. ~(j <= Len(a)) /\ j - Len(a) \in 1 .. n - i /\ i + (j - Len(a)) = j + 1 /\ j \in 1 .. Len(a) + Len(b)
          BY <1>2, <1>3, <2>2, <3>2
        <4> QED BY <1>4, <2>1, <3>2, <4>1
      <3> QED BY <3>1, <3>2
    <2> QED BY <2>1, <2>2, <2>3, <2>4
  <1>6. epoll_ctl(t, list)
    BY <1>1 DEF a, b, n
  <1> HIDE DEF list
  <1>7. \A j, k \in DOMAIN list : list[j].fd = list[k].fd => j = k
    <2> TAKE j \in DOMAIN list, k \in DOMAIN list
    <2> HAVE list[j].fd = list[k].fd
    <2> DEFINE x == IF j < i THEN j ELSE j + 1
               y == IF k < i THEN k ELSE k + 1
    <2>1. x \in 1 .. n /\ y \in 1 .. n /\ list[j] = efds[x] /\ list[k] = efds[y]
      BY <1>2, <1>5
    <2>2. x = y
      <3> HIDE DEF x, y
      <3> QED BY <1>2, <2>1 DEF Distinct
    <2> QED BY <1>2, <1>5, <2>2
  <1> QED BY <1>5, <1>6, <1>7, ListInv

(* The two stores of a query.                                              *)
LEMMA StoresInv ==
  ASSUME ChannelsInv, WasStep, NEW t \in Poller, StoreRead(t) \/ StoreWrite(t)
  PROVE  ChannelsInv'
  <1>1. "r" \in End /\ "w" \in End
    BY DEF End
  <1>2. CASE StoreRead(t)
    <2> DEFINE at == "set_r"
               e == "r"
               next == "set_w"
    <2>1. Store(t, at, e, next) /\ at \in {"set_r", "set_w"} /\ e \in End
          /\ e = (IF at = "set_r" THEN "r" ELSE "w") /\ next = (IF at = "set_r" THEN "set_w" ELSE cth[t].then)
      BY <1>1, <1>2 DEF StoreRead
    <2> HIDE DEF at, e, next
    <2> QED BY <2>1, StoreInv
  <1>3. CASE StoreWrite(t)
    <2> DEFINE at == "set_w"
               e == "w"
               next == cth[t].then
    <2>1. Store(t, at, e, next) /\ at \in {"set_r", "set_w"} /\ e \in End
          /\ e = (IF at = "set_r" THEN "r" ELSE "w") /\ next = (IF at = "set_r" THEN "set_w" ELSE cth[t].then)
      BY <1>1, <1>3 DEF StoreWrite
    <2> HIDE DEF at, e, next
    <2> QED BY <2>1, StoreInv
  <1> QED BY <1>2, <1>3

-----------------------------------------------------------------------------
(* The calls that wait begin. *)

(* A step of a thread that owes no event.                                  *)
LEMMA CalmStep ==
  ASSUME ChannelsInv, WasStep, NEW t \in Poller, NEW d \in CallOf, NEW at, at \notin Querying,
         StepCall(t, at, d), UNCHANGED <<pipe, event, efds, wrong>>,
         CallOK(d, was[t] \cup Ready, efds),
         cth[t].holds \subseteq d.holds, d.holds \subseteq cth[t].holds \cup pipe.table
  PROVE  ChannelsInv'
  <1>1. \A e \in End : ~Due(cth[t], e)
    BY DEF StepCall, Due, Querying
  <1>2. cth' = [cth EXCEPT ![t] = d] /\ calls' \in Nat
    BY DEF StepCall, ChannelsInv, ChannelsTypeOK
  <1> QED BY <1>1, <1>2, CalmInv

(* The start of a call that holds nothing yet.                             *)
LEMMA CalmBegin ==
  ASSUME ChannelsInv, WasStep, NEW t \in Poller, NEW d \in CallOf,
         BeginCall(t, d), UNCHANGED <<pipe, event, efds, wrong>>,
         CallOK(d, was[t] \cup Ready, efds), d.holds = {}
  PROVE  ChannelsInv'
  <1>1. cth' = [cth EXCEPT ![t] = d] /\ calls' \in Nat /\ cth[t].at = "idle"
    BY DEF BeginCall, ChannelsInv, ChannelsTypeOK
  <1>2. cth[t].holds = {} /\ \A e \in End : ~Due(cth[t], e)
    BY <1>1, IdleIs
  <1> QED BY <1>1, <1>2, CalmInv

(* An array of descriptors to look at.                                     *)
Blank(d) ==
  /\ d.at = "scan" /\ d.call \in Wait /\ d.i = 1 /\ d.handles = << >> /\ d.num = 0 /\ d.holds = {}
  /\ d.out = {} /\ \A j \in DOMAIN d.pfds : d.pfds[j].revents = {}
(* It has no answers, so they are all true.                                *)
LEMMA BlankOK ==
  ASSUME NEW d \in CallOf, Blank(d), NEW w, NEW list, Epolled(d, list)
  PROVE  CallOK(d, w, list)
  <1>1. Placed(d) /\ Noted(d, w) /\ Looking(d)
    BY DEF Blank, Placed, Noted, Looking, Wait, Transfer, Querying
  <1>2. Cardinality(Answered(d)) = 0
    BY CountNone DEF Blank
  <1>3. Counted(d)
    BY <1>2 DEF Counted, Blank
  <1>4. Pending(d)
    BY DEF Pending, Blank, Checking, Querying
  <1>5. Truthful(d, w)
    BY DEF Truthful, Blank
  <1>6. Told(d, w)
    <2>1. d.call = "epoll" => d.n > 0
      BY DEF Epolled
    <2>2. d.n \in Nat /\ d.out = {} /\ Cardinality(d.out) = 0
      BY FS_EmptySet DEF Blank, CallOf
    <2> QED BY <2>1, <2>2 DEF Told
  <1> QED BY <1>1, <1>3, <1>4, <1>5, <1>6 DEF CallOK

AskedFor == [fd : End \cup {NoFd}, events : SUBSET Flag]
(* What a call that starts to look is made of.                             *)
LEMMA PollCallIs ==
  ASSUME NEW call \in Wait, NEW p \in Seq(AskedFor), NEW limited \in BOOLEAN
  PROVE  LET d == PollCall(call, p, limited) IN
         /\ d \in CallOf /\ Blank(d) /\ d.call = call /\ Len(d.pfds) = Len(p) /\ ~d.moved
         /\ \A j \in DOMAIN d.pfds : d.pfds[j].fd = p[j].fd
  <1> DEFINE q == [i \in DOMAIN p |-> [fd |-> p[i].fd, events |-> p[i].events, revents |-> {}]]
             d == PollCall(call, p, limited)
  <1>1. \A i \in DOMAIN p : p[i] \in AskedFor
    OBVIOUS
  <1>2. \A i \in DOMAIN p : [fd |-> p[i].fd, events |-> p[i].events, revents |-> {}] \in PolledOf
    BY <1>1 DEF AskedFor, PolledOf
  <1>3. DOMAIN p = 1 .. Len(p) /\ Len(p) \in Nat
    BY LenProperties
  <1>4. q \in [1 .. Len(p) -> PolledOf]
    BY <1>2, <1>3
  <1>5. q \in Seq(PolledOf) /\ Len(q) = Len(p) /\ DOMAIN q = DOMAIN p
    <2>1. q \in Seq(PolledOf)
      BY <1>3, <1>4
    <2>2. DOMAIN q = DOMAIN p
      OBVIOUS
    <2> HIDE DEF q
    <2> QED BY <1>3, <2>1, <2>2, LenProperties
  <1>6. \A j \in DOMAIN p : q[j].fd = p[j].fd /\ q[j].revents = {}
    OBVIOUS
  <1>7. d = [NoCall EXCEPT !.at = "scan", !.call = call, !.limited = limited, !.pfds = q]
    BY DEF PollCall
  <1> HIDE DEF d, q
  <1>8. NoCall \in CallOf /\ NoCall.i = 1 /\ NoCall.handles = << >> /\ NoCall.num = 0 /\ NoCall.holds = {}
        /\ NoCall.out = {} /\ NoCall.moved = FALSE
    BY NoCallOK DEF NoCall
  <1>9. /\ d \in CallOf /\ d.at = "scan" /\ d.call = call /\ d.pfds = q
        /\ d.i = 1 /\ d.handles = << >> /\ d.num = 0 /\ d.holds = {} /\ d.out = {} /\ d.moved = FALSE
    BY <1>5, <1>7, <1>8, ZenonT(60) DEF CallOf, Wait
  <1>10. Blank(d)
    BY <1>5, <1>6, <1>9 DEF Blank
  <1>11. Len(d.pfds) = Len(p) /\ \A j \in DOMAIN d.pfds : d.pfds[j].fd = p[j].fd
    BY <1>5, <1>6, <1>9
  <1>12. d \in CallOf /\ Blank(d) /\ d.call = call /\ Len(d.pfds) = Len(p) /\ ~d.moved
         /\ \A j \in DOMAIN d.pfds : d.pfds[j].fd = p[j].fd
    BY <1>9, <1>10, <1>11
  <1> QED BY <1>12 DEF d

(* poll.                                                                   *)
LEMMA PollInv ==
  ASSUME ChannelsInv, WasStep, NEW t \in Poller, NEW p \in PollSet, NEW limited \in BOOLEAN, poll(t, p, limited)
  PROVE  ChannelsInv'
  <1> DEFINE call == "poll"
             d == PollCall(call, p, limited)
  <1>1. p \in Seq(AskedFor) /\ call \in Wait /\ call # "epoll"
    BY ArgumentsAssumption DEF AskedFor, Wait
  <1>2. BeginCall(t, d) /\ UNCHANGED <<pipe, event, efds, wrong>>
    BY DEF poll
  <1> HIDE DEF call
  <1>3. d \in CallOf /\ Blank(d) /\ d.call = call
    BY <1>1, PollCallIs
  <1> HIDE DEF d
  <1>4. CallOK(d, was[t] \cup Ready, efds) /\ d.holds = {}
    <2>1. Epolled(d, efds)
      BY <1>1, <1>3 DEF Epolled
    <2> QED BY <1>3, <2>1, BlankOK DEF Blank
  <1> QED BY <1>2, <1>3, <1>4, CalmBegin

(* What select asks for of a descriptor.                                   *)
LEMMA AskForIs ==
  ASSUME NEW s \in (SUBSET End) \X (SUBSET End) \X (SUBSET End), NEW fd \in End
  PROVE  AskFor(s, fd) \in Seq(AskedFor)
  <1> DEFINE x == AskedOf(s, fd)
             r == [fd |-> fd, events |-> x]
  <1>1. x \in SUBSET Flag
    BY DEF AskedOf, Flag
  <1> HIDE DEF x
  <1>2. r \in AskedFor
    BY <1>1 DEF AskedFor
  <1>3. << >> \in Seq(AskedFor) /\ <<r>> \in Seq(AskedFor)
    <2> HIDE DEF r
    <2> QED BY <1>2
  <1> QED BY <1>3 DEF AskFor, x

(* select.                                                                 *)
LEMMA SelectInv ==
  ASSUME ChannelsInv, WasStep, NEW t \in Poller, NEW s \in SelectSet, NEW limited \in BOOLEAN,
         select(t, s, limited)
  PROVE  ChannelsInv'
  <1> DEFINE call == "select"
             p == AskFor(s, "r") \o AskFor(s, "w")
             c == PollCall(call, p, limited)
             d == [c EXCEPT !.sets = s]
  <1>1. s \in (SUBSET End) \X (SUBSET End) \X (SUBSET End) /\ "r" \in End /\ "w" \in End
    BY ArgumentsAssumption DEF End
  <1>2. p \in Seq(AskedFor)
    BY <1>1, AskForIs, ConcatProperties
  <1>3. BeginCall(t, d) /\ UNCHANGED <<pipe, event, efds, wrong>>
    BY DEF select
  <1> HIDE DEF p
  <1>4. call \in Wait /\ call # "epoll"
    BY DEF Wait
  <1> HIDE DEF call
  <1>5. c \in CallOf /\ Blank(c) /\ c.call = call
    BY <1>2, <1>4, PollCallIs
  <1> HIDE DEF c
  <1>6. d \in CallOf /\ d.call = call /\ d.at = c.at /\ d.i = c.i /\ d.handles = c.handles /\ d.num = c.num
        /\ d.holds = c.holds /\ d.out = c.out /\ d.pfds = c.pfds
    BY <1>1, <1>5 DEF CallOf
  <1> HIDE DEF d
  <1>7. Blank(d)
    BY <1>5, <1>6 DEF Blank
  <1>8. CallOK(d, was[t] \cup Ready, efds) /\ d.holds = {}
    <2>1. Epolled(d, efds)
      BY <1>4, <1>6 DEF Epolled
    <2> QED BY <1>6, <1>7, <2>1, BlankOK DEF Blank
  <1> QED BY <1>3, <1>6, <1>8, CalmBegin

(* epoll_wait takes the size of the list.                                  *)
LEMMA EpollWaitInv ==
  ASSUME ChannelsInv, WasStep, NEW t \in Poller, NEW max \in 1 .. 2, NEW limited \in BOOLEAN,
         epoll_wait(t, max, limited)
  PROVE  ChannelsInv'
  <1> DEFINE d == [NoCall EXCEPT !.at = "copy", !.call = "epoll", !.limited = limited, !.n = max, !.i = Len(efds)]
             w == was[t] \cup Ready
  <1>1. BeginCall(t, d) /\ UNCHANGED <<pipe, event, efds, wrong>>
    BY DEF epoll_wait
  <1>2. Len(efds) \in Nat /\ max \in Nat /\ max > 0
    BY DEF ChannelsInv, ChannelsTypeOK
  <1>3. NoCall \in CallOf /\ NoCall.handles = << >> /\ NoCall.pfds = << >> /\ NoCall.holds = {} /\ NoCall.out = {}
    BY NoCallOK DEF NoCall
  <1>4. /\ d \in CallOf /\ d.at = "copy" /\ d.call = "epoll" /\ d.i = Len(efds) /\ d.n = max
        /\ d.pfds = << >> /\ d.holds = {} /\ d.out = {} /\ d.handles = << >>
    BY <1>2, <1>3, ZenonT(60) DEF CallOf, Wait
  <1> HIDE DEF d
  <1>5. Placed(d) /\ Noted(d, w) /\ Looking(d) /\ Counted(d) /\ Pending(d)
    BY <1>4 DEF Placed, Noted, Looking, Counted, Pending, Scanning, Checking, Wait, Transfer, Querying
  <1>6. Truthful(d, w) /\ Epolled(d, efds)
    BY <1>2, <1>4 DEF Truthful, Epolled
  <1>7. Told(d, w)
    BY <1>2, <1>4, FS_EmptySet DEF Told
  <1>8. CallOK(d, w, efds)
    BY <1>5, <1>6, <1>7 DEF CallOK
  <1> QED BY <1>1, <1>4, <1>8, CalmBegin

(* The list is copied, with what the stack held for the rest.              *)
LEMMA CopyInv ==
  ASSUME ChannelsInv, WasStep, NEW t \in Poller, epollfd_to_pollfds(t)
  PROVE  ChannelsInv'
  <1> DEFINE c == cth[t]
             n == c.i
             Junk == [fd : End \cup {NoFd}, events : {{}, {"in"}}]
             Copied(junk, i) == IF i <= Len(efds) THEN efds[i] ELSE junk
             P(junk) == [i \in 1 .. n |-> Copied(junk, i)]
             call == "epoll"
             B(junk) == PollCall(call, P(junk), c.limited)
             D(junk) == [B(junk) EXCEPT !.n = c.n, !.moved = c.moved]
  <1>1. c \in CallOf /\ CallOK(c, was[t], efds) /\ c.at = "copy" /\ n \in Nat /\ c.n \in Nat /\ c.moved \in BOOLEAN
        /\ c.limited \in BOOLEAN
    BY DEF epollfd_to_pollfds, StepCall, ChannelsInv, ChannelsTypeOK, CallOf
  <1>2. c.call = "epoll" /\ c.holds = {} /\ c.n > 0 /\ (~c.moved => n = Len(efds))
    BY <1>1 DEF CallOK, Placed, Epolled, CallOf, Transfer, Wait, Querying
  <1>3. PICK junk \in Junk : StepCall(t, "copy", D(junk)) /\ UNCHANGED <<pipe, event, efds, wrong>>
    BY DEF epollfd_to_pollfds
  <1> DEFINE p == P(junk)
  <1>4. efds \in Seq(EntryOf) /\ Len(efds) \in Nat
    BY DEF ChannelsInv, ChannelsTypeOK
  <1>5. p \in Seq(AskedFor) /\ Len(p) = n
    <2>1. ASSUME NEW i \in 1 .. n PROVE Copied(junk, i) \in AskedFor
      <3>1. junk \in AskedFor
        BY DEF AskedFor, Flag
      <3>2. i <= Len(efds) => efds[i] \in EntryOf
        BY <1>4
      <3>3. EntryOf \subseteq AskedFor
        BY DEF AskedFor, EntryOf
      <3> QED BY <3>1, <3>2, <3>3
    <2>2. p \in [1 .. n -> AskedFor]
      BY <2>1
    <2> HIDE DEF p
    <2> QED BY <1>1, <2>2
  <1>6. ~c.moved => \A j \in 1 .. n : p[j] = efds[j]
    BY <1>1, <1>2, <1>4
  <1>7. call \in Wait /\ call = "epoll"
    BY DEF Wait
  <1> DEFINE b == PollCall(call, p, c.limited)
             d == [b EXCEPT !.n = c.n, !.moved = c.moved]
  <1>8. StepCall(t, "copy", d)
    BY <1>3
  <1> HIDE DEF p, call
  <1>9. /\ b \in CallOf /\ Blank(b) /\ b.call = call /\ Len(b.pfds) = Len(p)
        /\ \A j \in DOMAIN b.pfds : b.pfds[j].fd = p[j].fd
    BY <1>1, <1>5, <1>7, PollCallIs
  <1> HIDE DEF b
  <1>10. /\ d \in CallOf /\ d.call = call /\ d.at = b.at /\ d.i = b.i /\ d.handles = b.handles /\ d.num = b.num
         /\ d.holds = b.holds /\ d.out = b.out /\ d.pfds = b.pfds /\ d.n = c.n /\ d.moved = c.moved
    BY <1>1, <1>9, ZenonT(60) DEF CallOf
  <1> HIDE DEF d
  <1>11. Blank(d) /\ d.holds = {} /\ d.at = "scan"
    BY <1>9, <1>10 DEF Blank
  <1>12. DOMAIN b.pfds = 1 .. n
    BY <1>5, <1>9, LenProperties DEF CallOf
  <1>13. Epolled(d, efds)
    BY <1>2, <1>5, <1>6, <1>9, <1>10, <1>11, <1>12 DEF Epolled
  <1>14. CallOK(d, was[t] \cup Ready, efds)
    BY <1>10, <1>11, <1>13, BlankOK
  <1>15. "copy" \notin Querying
    BY DEF Querying
  <1> QED BY <1>2, <1>3, <1>8, <1>10, <1>11, <1>14, <1>15, CalmStep

-----------------------------------------------------------------------------
(* One descriptor after the other. *)

(* A call that looks at its array.                                         *)
LEMMA AtWork ==
  ASSUME NEW c \in CallOf, Placed(c), c.at \in {"scan", "scanned", "wait", "checked", "answer"}
  PROVE  c.call \in Wait /\ c.out = {}
  BY DEF Placed, CallOf, Transfer, Wait, Querying

(* Where it may go.                                                        *)
LEMMA StillPlaced ==
  ASSUME NEW d, d.call \in Wait, d.out = {},
         \/ d.at \in {"scan", "wait", "checked", "answer"}
         \/ d.at = "query" /\ d.then \in {"scanned", "checked"}
  PROVE  Placed(d)
  BY DEF Placed, Querying, Transfer, Wait

(* An answer that was so is entered.                                       *)
Enters(c, d, i, e) ==
  /\ d.call = c.call /\ d.n = c.n /\ d.sets = c.sets /\ d.out = c.out /\ d.moved = c.moved
  /\ c.at # "copy" /\ d.at \notin {"copy", "return"}
  /\ d.pfds = [c.pfds EXCEPT ![i].revents = e]
LEMMA AnswerEntered ==
  ASSUME NEW c \in CallOf, NEW d \in CallOf, NEW w, NEW list, CallOK(c, w, list), NEW i \in DOMAIN c.pfds,
         c.pfds[i].revents = {}, NEW e \in SUBSET Flag, e # {}, Enters(c, d, i, e),
         \A x \in e : x = "nval" \/ (x \in c.pfds[i].events /\ <<c.pfds[i].fd, x>> \in w)
  PROVE  /\ Truthful(d, w) /\ Epolled(d, list) /\ Told(d, w)
         /\ Cardinality(Answered(d)) = Cardinality(Answered(c)) + 1
         /\ DOMAIN d.pfds = DOMAIN c.pfds /\ Len(d.pfds) = Len(c.pfds)
         /\ \A j \in DOMAIN c.pfds : /\ d.pfds[j].fd = c.pfds[j].fd
                                     /\ d.pfds[j].revents = IF j = i THEN e ELSE c.pfds[j].revents
  <1>1. c.pfds \in Seq(PolledOf)
    BY DEF CallOf
  <1>2. /\ DOMAIN d.pfds = DOMAIN c.pfds /\ Len(d.pfds) = Len(c.pfds)
        /\ \A j \in DOMAIN c.pfds : /\ d.pfds[j].fd = c.pfds[j].fd /\ d.pfds[j].events = c.pfds[j].events
                                    /\ d.pfds[j].revents = (IF j = i THEN e ELSE c.pfds[j].revents)
    BY <1>1, SetAnswer DEF Enters
  <1>3. Cardinality(Answered(d)) = Cardinality(Answered(c)) + 1
    <2>1. \A j \in DOMAIN c.pfds : d.pfds[j].revents = IF j = i THEN e ELSE c.pfds[j].revents
      BY <1>2
    <2> QED BY <1>2, <2>1, CountAnswer
  <1>4. Truthful(d, w)
    BY <1>2 DEF CallOK, Truthful, Enters
  <1>5. Epolled(d, list)
    BY <1>2 DEF CallOK, Epolled, Enters
  <1>6. Told(d, w)
    BY DEF CallOK, Told, Enters
  <1> QED BY <1>2, <1>3, <1>4, <1>5, <1>6

(* What a call that scans knows.                                           *)
LEMMA ScanIs ==
  ASSUME NEW c \in CallOf, NEW w, NEW list, CallOK(c, w, list), c.at \in {"scan", "scanned"},
         c.i <= Len(c.pfds)
  PROVE  /\ c.i \in DOMAIN c.pfds /\ c.pfds[c.i].revents = {} /\ c.call \in Wait /\ c.out = {}
         /\ c.num = Cardinality(Answered(c)) /\ c.pfds \in Seq(PolledOf)
         /\ \A j \in DOMAIN c.pfds : j >= c.i => c.pfds[j].revents = {}
         /\ \A k \in DOMAIN c.handles : /\ c.handles[k] \in DOMAIN c.pfds /\ c.pfds[c.handles[k]].revents = {}
                                        /\ c.pfds[c.handles[k]].fd \in End /\ c.handles[k] < c.i
  <1>1. c.call \in Wait /\ c.out = {}
    BY AtWork DEF CallOK
  <1>2. Scanning(c)
    BY <1>1 DEF Scanning
  <1>3. c.i > 0 /\ \A j \in DOMAIN c.pfds : j >= c.i => c.pfds[j].revents = {}
    BY <1>2 DEF CallOK, Pending
  <1>4. c.pfds \in Seq(PolledOf) /\ c.i \in Nat
    BY DEF CallOf
  <1>5. DOMAIN c.pfds = 1 .. Len(c.pfds) /\ Len(c.pfds) \in Nat
    BY <1>4, LenProperties
  <1>6. c.i \in DOMAIN c.pfds
    BY <1>3, <1>4, <1>5
  <1>7. c.num = Cardinality(Answered(c))
    BY <1>2 DEF CallOK, Counted
  <1>8. \A k \in DOMAIN c.handles : /\ c.handles[k] \in DOMAIN c.pfds /\ c.pfds[c.handles[k]].revents = {}
                                    /\ c.pfds[c.handles[k]].fd \in End /\ c.handles[k] < c.i
    BY <1>2 DEF CallOK, Pending
  <1>9. c.pfds[c.i].revents = {}
    <2> DEFINE i == c.i
    <2> HIDE DEF i
    <2>1. i \in DOMAIN c.pfds /\ i >= i
      BY <1>4, <1>6 DEF i
    <2>2. \A j \in DOMAIN c.pfds : j >= i => c.pfds[j].revents = {}
      BY <1>3 DEF i
    <2> QED BY <2>1, <2>2 DEF i
  <1> QED BY <1>1, <1>3, <1>4, <1>6, <1>7, <1>8, <1>9

(* A step of such a call.                                                  *)
GoodStep(at, i, num, done) == at \in {"scan", "wait", "answer"} /\ i \in Nat /\ num \in Int /\ done \in BOOLEAN
Works(c, at, i, num, pfds, handles, done) ==
  [c EXCEPT !.at = at, !.i = i, !.num = num, !.pfds = pfds, !.handles = handles, !.done = done]
(* What it leaves of the call.                                             *)
LEMMA WorksIs ==
  ASSUME NEW c \in CallOf, NEW at, NEW i, NEW num, NEW done, GoodStep(at, i, num, done),
         NEW pfds \in Seq(PolledOf), NEW handles \in Seq(Nat)
  PROVE  LET d == Works(c, at, i, num, pfds, handles, done) IN
         /\ d \in CallOf /\ d.at = at /\ d.i = i /\ d.num = num /\ d.pfds = pfds /\ d.handles = handles
         /\ d.call = c.call /\ d.n = c.n /\ d.sets = c.sets /\ d.out = c.out /\ d.moved = c.moved
         /\ d.holds = c.holds
  BY ZenonT(60) DEF CallOf, Works, GoodStep

(* The scan goes on with the next descriptor.                              *)
LEMMA ScanOn ==
  ASSUME NEW d \in CallOf, NEW w, NEW list, d.at = "scan", d.i > 0, d.call \in Wait, d.out = {},
         Truthful(d, w), Epolled(d, list), Told(d, w), d.num = Cardinality(Answered(d)),
         \A j \in DOMAIN d.pfds : j >= d.i => d.pfds[j].revents = {},
         \A k \in DOMAIN d.handles : /\ d.handles[k] \in DOMAIN d.pfds /\ d.pfds[d.handles[k]].revents = {}
                                     /\ d.pfds[d.handles[k]].fd \in End /\ d.handles[k] < d.i
  PROVE  CallOK(d, w, list)
  <1>1. Placed(d)
    BY StillPlaced
  <1>2. Noted(d, w) /\ Looking(d) /\ Counted(d)
    BY DEF Noted, Looking, Counted, Querying
  <1>3. Pending(d)
    BY DEF Pending, Checking, Querying
  <1> QED BY <1>1, <1>2, <1>3 DEF CallOK

(* The next descriptor: none, closed, or one to be asked.                  *)
LEMMA ScanInv ==
  ASSUME ChannelsInv, WasStep, NEW t \in Poller, Scan(t)
  PROVE  ChannelsInv'
  <1> DEFINE c == cth[t]
             w == was[t] \cup Ready
             fd == c.pfds[c.i].fd
             j1 == c.i + 1
             n1 == c.num + 1
             q == [c.pfds EXCEPT ![c.i].revents = {"nval"}]
             skip == Works(c, "scan", j1, c.num, c.pfds, c.handles, c.done)
             bad == Works(c, "scan", j1, n1, q, c.handles, c.done)
             ask == [c EXCEPT !.at = "query", !.then = "scanned", !.end = fd, !.holds = @ \cup {fd}]
  <1>1. c \in CallOf /\ CallOK(c, w, efds) /\ c.at = "scan" /\ c.i <= Len(c.pfds)
    BY CallNow DEF Scan
  <1>2. /\ c.i \in DOMAIN c.pfds /\ c.pfds[c.i].revents = {} /\ c.call \in Wait /\ c.out = {}
        /\ c.num = Cardinality(Answered(c)) /\ c.pfds \in Seq(PolledOf)
        /\ \A j \in DOMAIN c.pfds : j >= c.i => c.pfds[j].revents = {}
        /\ \A k \in DOMAIN c.handles : /\ c.handles[k] \in DOMAIN c.pfds /\ c.pfds[c.handles[k]].revents = {}
                                       /\ c.pfds[c.handles[k]].fd \in End /\ c.handles[k] < c.i
    BY <1>1, ScanIs
  <1>3. UNCHANGED <<pipe, event, efds, wrong>> /\ "scan" \notin Querying
    BY DEF Scan, Querying
  <1>4. c.i \in Nat /\ c.num \in Int /\ DOMAIN c.pfds \subseteq Nat /\ c.handles \in Seq(Nat) /\ c.done \in BOOLEAN
    BY <1>1, <1>2, LenProperties DEF CallOf
  <1>b. j1 \in Nat /\ n1 \in Int /\ j1 = c.i + 1 /\ n1 = c.num + 1
        /\ GoodStep("scan", j1, c.num, c.done) /\ GoodStep("scan", j1, n1, c.done)
    BY <1>4 DEF GoodStep
  <1>a. \A k \in DOMAIN c.handles : c.handles[k] \in Nat
    BY <1>4
  <1>5. CASE StepCall(t, "scan", skip)
    <2> DEFINE d == skip
    <2>1. /\ d \in CallOf /\ d.at = "scan" /\ d.i = c.i + 1 /\ d.holds = c.holds
          /\ d.num = c.num /\ d.handles = c.handles /\ SameAnswers(c, d)
      <3> HIDE DEF j1, c
      <3>1. d \in CallOf /\ d.at = "scan" /\ d.i = j1 /\ d.num = c.num /\ d.pfds = c.pfds /\ d.handles = c.handles
            /\ d.call = c.call /\ d.n = c.n /\ d.sets = c.sets /\ d.out = c.out /\ d.moved = c.moved
            /\ d.holds = c.holds
        <4>1. c \in CallOf /\ c.pfds \in Seq(PolledOf) /\ c.handles \in Seq(Nat) /\ GoodStep("scan", j1, c.num, c.done)
          BY <1>1, <1>2, <1>4, <1>b
        <4> QED BY <4>1, WorksIs
      <3> HIDE DEF d
      <3> QED BY <1>1, <1>b, <3>1 DEF SameAnswers
    <2> HIDE DEF d
    <2>2. Truthful(d, w) /\ Epolled(d, efds) /\ Told(d, w)
      BY <1>1, <2>1, AnswersKept
    <2>3. d.pfds = c.pfds /\ d.call = c.call /\ d.out = c.out /\ Answered(d) = Answered(c)
      BY <2>1 DEF SameAnswers, Answered
    <2>4. \A j \in DOMAIN d.pfds : j >= d.i => d.pfds[j].revents = {}
      BY <1>2, <1>4, <2>1, <2>3
    <2>5. \A k \in DOMAIN d.handles : /\ d.handles[k] \in DOMAIN d.pfds /\ d.pfds[d.handles[k]].revents = {}
                                      /\ d.pfds[d.handles[k]].fd \in End /\ d.handles[k] < d.i
      BY <1>2, <1>4, <1>a, <2>1, <2>3
    <2>6. d.i > 0 /\ d.call \in Wait /\ d.out = {} /\ d.num = Cardinality(Answered(d))
      BY <1>2, <1>4, <2>1, <2>3
    <2>7. CallOK(d, w, efds)
      BY <2>1, <2>2, <2>4, <2>5, <2>6, ScanOn
    <2> QED BY <1>3, <1>5, <2>1, <2>7, CalmStep DEF d
  <1>6. CASE StepCall(t, "scan", bad)
    <2> DEFINE d == bad
               e == {"nval"}
    <2>1. q \in Seq(PolledOf) /\ q = [c.pfds EXCEPT ![c.i].revents = e]
      BY <1>2, SetAnswer DEF Flag
    <2>2. /\ d \in CallOf /\ d.at = "scan" /\ d.i = c.i + 1 /\ d.holds = c.holds
          /\ d.num = c.num + 1 /\ d.handles = c.handles /\ Enters(c, d, c.i, e) /\ d.call = c.call /\ d.out = c.out
      <3> HIDE DEF j1, n1, q, e, c
      <3>1. d \in CallOf /\ d.at = "scan" /\ d.i = j1 /\ d.num = n1 /\ d.pfds = q /\ d.handles = c.handles
            /\ d.call = c.call /\ d.n = c.n /\ d.sets = c.sets /\ d.out = c.out /\ d.moved = c.moved
            /\ d.holds = c.holds
        <4>1. c \in CallOf /\ q \in Seq(PolledOf) /\ c.handles \in Seq(Nat) /\ GoodStep("scan", j1, n1, c.done)
          BY <1>1, <1>2, <1>4, <1>b, <2>1
        <4> QED BY <4>1, WorksIs
      <3> HIDE DEF d
      <3> QED BY <1>1, <1>b, <2>1, <3>1 DEF Enters
    <2> HIDE DEF d
    <2>3. e \in SUBSET Flag /\ e # {} /\ \A x \in e : x = "nval"
      BY DEF Flag
    <2> HIDE DEF e
    <2>4. /\ Truthful(d, w) /\ Epolled(d, efds) /\ Told(d, w)
          /\ Cardinality(Answered(d)) = Cardinality(Answered(c)) + 1
          /\ DOMAIN d.pfds = DOMAIN c.pfds /\ Len(d.pfds) = Len(c.pfds)
          /\ \A j \in DOMAIN c.pfds : /\ d.pfds[j].fd = c.pfds[j].fd
                                      /\ d.pfds[j].revents = IF j = c.i THEN e ELSE c.pfds[j].revents
      <3>1. c \in CallOf /\ CallOK(c, w, efds) /\ c.i \in DOMAIN c.pfds /\ c.pfds[c.i].revents = {}
        BY <1>1, <1>2
      <3>2. \A x \in e : x = "nval" \/ (x \in c.pfds[c.i].events /\ <<c.pfds[c.i].fd, x>> \in w)
        BY <2>3
      <3>3. d \in CallOf /\ Enters(c, d, c.i, e) /\ e \in SUBSET Flag /\ e # {}
        BY <2>2, <2>3
      <3> HIDE DEF c, w
      <3> QED BY <3>1, <3>2, <3>3, AnswerEntered
    <2>5. \A j \in DOMAIN d.pfds : j >= d.i => d.pfds[j].revents = {}
      <3> TAKE j \in DOMAIN d.pfds
      <3> HAVE j >= d.i
      <3>1. j \in DOMAIN c.pfds /\ j \in Nat /\ j # c.i /\ j >= c.i
        BY <1>4, <2>2, <2>4
      <3> QED BY <1>2, <2>4, <3>1
    <2>6. \A k \in DOMAIN d.handles : /\ d.handles[k] \in DOMAIN d.pfds /\ d.pfds[d.handles[k]].revents = {}
                                      /\ d.pfds[d.handles[k]].fd \in End /\ d.handles[k] < d.i
      <3> TAKE k \in DOMAIN d.handles
      <3> DEFINE h == c.handles[k]
      <3>1. h \in DOMAIN c.pfds /\ h \in Nat /\ h < c.i /\ c.pfds[h].revents = {} /\ c.pfds[h].fd \in End
            /\ d.handles[k] = h
        BY <1>2, <1>a, <2>2
      <3> HIDE DEF h
      <3>2. h # c.i /\ h < d.i
        BY <1>4, <2>2, <3>1
      <3>3. h \in DOMAIN d.pfds /\ d.pfds[h].fd = c.pfds[h].fd /\ d.pfds[h].revents = c.pfds[h].revents
        BY <2>4, <3>1, <3>2
      <3> QED BY <3>1, <3>2, <3>3
    <2>7. d.i > 0 /\ d.call \in Wait /\ d.out = {} /\ d.num = Cardinality(Answered(d))
      BY <1>2, <1>4, <2>2, <2>4
    <2>8. CallOK(d, w, efds)
      BY <2>2, <2>4, <2>5, <2>6, <2>7, ScanOn
    <2> QED BY <1>3, <1>6, <2>2, <2>8, CalmStep DEF d, e
  <1>7. CASE StepCall(t, "scan", ask) /\ fd # NoFd /\ fd \in pipe.table
    <2> DEFINE d == ask
    <2>1. fd \in End /\ pipe.table \subseteq End
      BY <1>7 DEF ChannelsInv, ChannelsTypeOK
    <2>2. /\ d \in CallOf /\ d.at = "query" /\ d.then = "scanned" /\ d.end = fd /\ d.holds = c.holds \cup {fd}
          /\ d.num = c.num /\ d.handles = c.handles /\ d.i = c.i /\ SameAnswers(c, d)
      BY <1>1, <2>1 DEF CallOf, SameAnswers, Querying
    <2> HIDE DEF d
    <2>3. Truthful(d, w) /\ Epolled(d, efds) /\ Told(d, w)
      BY <1>1, <2>2, AnswersKept
    <2>4. d.pfds = c.pfds /\ d.call = c.call /\ d.out = c.out /\ Answered(d) = Answered(c)
      BY <2>2 DEF SameAnswers, Answered
    <2>5. Placed(d)
      BY <1>2, <2>2, <2>4, StillPlaced
    <2>6. Noted(d, w) /\ Looking(d)
      BY <1>2, <2>1, <2>2, <2>4 DEF Noted, Looking
    <2>7. Scanning(d) /\ ~Checking(d) /\ Scanning(c)
      BY <1>1, <1>2, <2>2, <2>4 DEF Scanning, Checking, Querying
    <2>8. Counted(d)
      BY <1>2, <2>2, <2>4, <2>7 DEF Counted
    <2>9. Pending(d)
      BY <1>1, <2>2, <2>4, <2>7 DEF CallOK, Pending
    <2>10. CallOK(d, w, efds)
      BY <2>3, <2>5, <2>6, <2>8, <2>9 DEF CallOK
    <2>11. c.holds \subseteq d.holds /\ d.holds \subseteq c.holds \cup pipe.table
      BY <1>7, <2>2
    <2> QED BY <1>3, <1>7, <2>2, <2>10, <2>11, CalmStep DEF d
  <1>c. /\ [c EXCEPT !.i = @ + 1] = skip
        /\ [c EXCEPT !.i = @ + 1, !.num = @ + 1, !.pfds[c.i].revents = {"nval"}] = bad
    <2> DEFINE r == cth[t]
    <2>1. r \in CallOf /\ r.at = "scan"
      BY <1>1
    <2> HIDE DEF r
    <2>2. [r EXCEPT !.i = @ + 1] = Works(r, "scan", r.i + 1, r.num, r.pfds, r.handles, r.done)
      BY <2>1 DEF CallOf, Works
    <2>3. [r EXCEPT !.i = @ + 1, !.num = @ + 1, !.pfds[r.i].revents = {"nval"}]
            = Works(r, "scan", r.i + 1, r.num + 1, [r.pfds EXCEPT ![r.i].revents = {"nval"}], r.handles, r.done)
      BY <2>1 DEF CallOf, Works
    <2> QED BY <2>2, <2>3 DEF r
  <1>8. StepCall(t, "scan", skip) \/ StepCall(t, "scan", bad)
        \/ (StepCall(t, "scan", ask) /\ fd # NoFd /\ fd \in pipe.table)
    <2> HIDE DEF skip, bad
    <2> QED BY <1>c DEF Scan
  <1> QED BY <1>5, <1>6, <1>7, <1>8

(* What get_poll_status said is entered, or the handle is added.           *)
LEMMA ScannedInv ==
  ASSUME ChannelsInv, WasStep, NEW t \in Poller, Scanned(t)
  PROVE  ChannelsInv'
  <1> DEFINE c == cth[t]
             w == was[t] \cup Ready
             p == c.pfds[c.i]
             e == p.events \cap Status(c.end, c.info)
             j1 == c.i + 1
             n1 == c.num + 1
             q == [c.pfds EXCEPT ![c.i].revents = e]
             on == TRUE
             yes == Works(c, "scan", j1, n1, q, c.handles, on)
             more == IF p.events \cap HandleFlags(c.end) # {} THEN Append(c.handles, c.i) ELSE c.handles
             no == Works(c, "scan", j1, c.num, c.pfds, more, c.done)
  <1>1. c \in CallOf /\ CallOK(c, w, efds) /\ c.at = "scanned"
    BY CallNow DEF Scanned, StepCall
  <1>2. /\ c.i \in DOMAIN c.pfds /\ p.fd = c.end /\ c.end \in End /\ p.revents = {} /\ c.call \in Wait
        /\ c.out = {}
    <2>1. c.call \in Wait /\ c.out = {}
      BY <1>1, AtWork DEF CallOK
    <2> QED BY <1>1, <2>1 DEF CallOK, Looking
  <1>3. /\ c.i \in Nat /\ c.num \in Int /\ DOMAIN c.pfds \subseteq Nat /\ c.handles \in Seq(Nat) /\ c.done \in BOOLEAN
        /\ c.pfds \in Seq(PolledOf) /\ c.i <= Len(c.pfds) /\ DOMAIN c.handles = 1 .. Len(c.handles)
    BY <1>1, <1>2, LenProperties DEF CallOf
  <1>4. /\ c.num = Cardinality(Answered(c))
        /\ \A j \in DOMAIN c.pfds : j >= c.i => c.pfds[j].revents = {}
        /\ \A k \in DOMAIN c.handles : /\ c.handles[k] \in DOMAIN c.pfds /\ c.pfds[c.handles[k]].revents = {}
                                       /\ c.pfds[c.handles[k]].fd \in End /\ c.handles[k] < c.i
    BY <1>1, <1>3, ScanIs
  <1>5. \A k \in DOMAIN c.handles : c.handles[k] \in Nat
    BY <1>3
  <1>6. j1 \in Nat /\ n1 \in Int /\ j1 = c.i + 1 /\ n1 = c.num + 1 /\ j1 > 0
        /\ GoodStep("scan", j1, n1, on) /\ GoodStep("scan", j1, c.num, c.done)
    BY <1>3 DEF GoodStep
  <1>7. UNCHANGED <<pipe, event, efds, wrong>> /\ "scanned" \notin Querying
    BY DEF Scanned, Querying
  <1>8. CASE e # {} /\ StepCall(t, "scanned", yes)
    <2> DEFINE d == yes
    <2>1. e \in SUBSET Flag /\ \A x \in e : x \in p.events /\ <<p.fd, x>> \in w
      <3>1. p \in PolledOf
        BY <1>2, <1>3
      <3>2. p.events \in SUBSET Flag
        BY <3>1 DEF PolledOf
      <3>3. \A x \in Status(c.end, c.info) : <<c.end, x>> \in w
        BY <1>1 DEF CallOK, Noted
      <3> QED BY <1>2, <3>2, <3>3
    <2> HIDE DEF e
    <2>2. q \in Seq(PolledOf) /\ q = [c.pfds EXCEPT ![c.i].revents = e]
      BY <1>2, <1>3, <2>1, SetAnswer
    <2>3. /\ d \in CallOf /\ d.at = "scan" /\ d.i = c.i + 1 /\ d.holds = c.holds
          /\ d.num = c.num + 1 /\ d.handles = c.handles /\ Enters(c, d, c.i, e) /\ d.call = c.call /\ d.out = c.out
      <3> HIDE DEF j1, n1, q, c, on
      <3>1. d \in CallOf /\ d.at = "scan" /\ d.i = j1 /\ d.num = n1 /\ d.pfds = q /\ d.handles = c.handles
            /\ d.call = c.call /\ d.n = c.n /\ d.sets = c.sets /\ d.out = c.out /\ d.moved = c.moved
            /\ d.holds = c.holds
        <4>1. c \in CallOf /\ q \in Seq(PolledOf) /\ c.handles \in Seq(Nat) /\ GoodStep("scan", j1, n1, on)
          BY <1>1, <1>3, <1>6, <2>2
        <4> QED BY <4>1, WorksIs
      <3> HIDE DEF d
      <3> QED BY <1>1, <1>6, <2>2, <3>1 DEF Enters
    <2> HIDE DEF d
    <2>4. /\ Truthful(d, w) /\ Epolled(d, efds) /\ Told(d, w)
          /\ Cardinality(Answered(d)) = Cardinality(Answered(c)) + 1
          /\ DOMAIN d.pfds = DOMAIN c.pfds /\ Len(d.pfds) = Len(c.pfds)
          /\ \A j \in DOMAIN c.pfds : /\ d.pfds[j].fd = c.pfds[j].fd
                                      /\ d.pfds[j].revents = IF j = c.i THEN e ELSE c.pfds[j].revents
      <3>1. c \in CallOf /\ CallOK(c, w, efds) /\ c.i \in DOMAIN c.pfds /\ c.pfds[c.i].revents = {}
        BY <1>1, <1>2
      <3>2. \A x \in e : x = "nval" \/ (x \in c.pfds[c.i].events /\ <<c.pfds[c.i].fd, x>> \in w)
        BY <2>1
      <3>3. d \in CallOf /\ Enters(c, d, c.i, e) /\ e \in SUBSET Flag /\ e # {}
        BY <1>8, <2>1, <2>3
      <3> HIDE DEF c, w
      <3> QED BY <3>1, <3>2, <3>3, AnswerEntered
    <2>5. \A j \in DOMAIN d.pfds : j >= d.i => d.pfds[j].revents = {}
      <3> TAKE j \in DOMAIN d.pfds
      <3> HAVE j >= d.i
      <3>1. j \in DOMAIN c.pfds /\ j \in Nat /\ j # c.i /\ j >= c.i
        BY <1>3, <2>3, <2>4
      <3> QED BY <1>4, <2>4, <3>1
    <2>6. \A k \in DOMAIN d.handles : /\ d.handles[k] \in DOMAIN d.pfds /\ d.pfds[d.handles[k]].revents = {}
                                      /\ d.pfds[d.handles[k]].fd \in End /\ d.handles[k] < d.i
      <3> TAKE k \in DOMAIN d.handles
      <3> DEFINE h == c.handles[k]
      <3>1. h \in DOMAIN c.pfds /\ h \in Nat /\ h < c.i /\ c.pfds[h].revents = {} /\ c.pfds[h].fd \in End
            /\ d.handles[k] = h
        BY <1>4, <1>5, <2>3
      <3> HIDE DEF h
      <3>2. h # c.i /\ h < d.i
        BY <1>3, <2>3, <3>1
      <3>3. h \in DOMAIN d.pfds /\ d.pfds[h].fd = c.pfds[h].fd /\ d.pfds[h].revents = c.pfds[h].revents
        BY <2>4, <3>1, <3>2
      <3> QED BY <3>1, <3>2, <3>3
    <2>7. d.i > 0 /\ d.call \in Wait /\ d.out = {} /\ d.num = Cardinality(Answered(d))
      BY <1>2, <1>3, <1>4, <2>3, <2>4
    <2>8. CallOK(d, w, efds)
      BY <2>3, <2>4, <2>5, <2>6, <2>7, ScanOn
    <2> QED BY <1>7, <1>8, <2>3, <2>8, CalmStep DEF d
  <1>9. CASE StepCall(t, "scanned", no)
    <2> DEFINE d == no
    <2>1. more \in Seq(Nat) /\ \A k \in DOMAIN more : more[k] = c.i \/ \E l \in DOMAIN c.handles : more[k] = c.handles[l]
      <3> DEFINE i == c.i
                 a == Append(c.handles, i)
      <3>1. a \in Seq(Nat) /\ Len(a) = Len(c.handles) + 1
        BY <1>3
      <3>2. \A k \in DOMAIN a : a[k] = i \/ \E l \in DOMAIN c.handles : a[k] = c.handles[l]
        <4> TAKE k \in DOMAIN a
        <4>1. k \in 1 .. Len(c.handles) + 1 /\ Len(c.handles) \in Nat
          BY <1>3, <3>1, LenProperties
        <4>2. CASE k <= Len(c.handles)
          BY <1>3, <4>1, <4>2
        <4>3. CASE k = Len(c.handles) + 1
          BY <1>3, <4>3
        <4> QED BY <4>1, <4>2, <4>3
      <3> HIDE DEF a
      <3>3. more = a \/ more = c.handles
        BY DEF a
      <3> HIDE DEF more
      <3> QED BY <1>3, <3>1, <3>2, <3>3
    <2> HIDE DEF more
    <2>2. /\ d \in CallOf /\ d.at = "scan" /\ d.i = c.i + 1 /\ d.holds = c.holds
          /\ d.num = c.num /\ d.handles = more /\ SameAnswers(c, d)
      <3> HIDE DEF j1, c
      <3>1. d \in CallOf /\ d.at = "scan" /\ d.i = j1 /\ d.num = c.num /\ d.pfds = c.pfds /\ d.handles = more
            /\ d.call = c.call /\ d.n = c.n /\ d.sets = c.sets /\ d.out = c.out /\ d.moved = c.moved
            /\ d.holds = c.holds
        <4>1. c \in CallOf /\ c.pfds \in Seq(PolledOf) /\ more \in Seq(Nat) /\ GoodStep("scan", j1, c.num, c.done)
          BY <1>1, <1>3, <1>6, <2>1
        <4> QED BY <4>1, WorksIs
      <3> HIDE DEF d
      <3> QED BY <1>1, <1>6, <3>1 DEF SameAnswers
    <2> HIDE DEF d
    <2>3. Truthful(d, w) /\ Epolled(d, efds) /\ Told(d, w)
      BY <1>1, <2>2, AnswersKept
    <2>4. d.pfds = c.pfds /\ d.call = c.call /\ d.out = c.out /\ Answered(d) = Answered(c)
      BY <2>2 DEF SameAnswers, Answered
    <2>5. \A j \in DOMAIN d.pfds : j >= d.i => d.pfds[j].revents = {}
      BY <1>3, <1>4, <2>2, <2>4
    <2>6. \A k \in DOMAIN d.handles : /\ d.handles[k] \in DOMAIN d.pfds /\ d.pfds[d.handles[k]].revents = {}
                                      /\ d.pfds[d.handles[k]].fd \in End /\ d.handles[k] < d.i
      <3> TAKE k \in DOMAIN d.handles
      <3> DEFINE h == more[k]
      <3>1. h \in DOMAIN c.pfds /\ h \in Nat /\ h <= c.i /\ c.pfds[h].revents = {} /\ c.pfds[h].fd \in End
        <4>1. CASE h = c.i
          BY <1>2, <1>3, <4>1
        <4>2. CASE \E l \in DOMAIN c.handles : h = c.handles[l]
          <5>1. PICK l \in DOMAIN c.handles : h = c.handles[l]
            BY <4>2
          <5>2. h \in Nat /\ h < c.i
            BY <1>4, <1>5, <5>1
          <5>3. h <= c.i
            BY <1>3, <5>2
          <5> QED BY <1>4, <5>1, <5>2, <5>3
        <4> QED BY <2>1, <2>2, <4>1, <4>2
      <3>2. d.handles[k] = h
        BY <2>2
      <3> HIDE DEF h
      <3>3. h < d.i
        BY <1>3, <2>2, <3>1
      <3> QED BY <2>4, <3>1, <3>2, <3>3
    <2>7. d.i > 0 /\ d.call \in Wait /\ d.out = {} /\ d.num = Cardinality(Answered(d))
      BY <1>2, <1>3, <1>4, <2>2, <2>4
    <2>8. CallOK(d, w, efds)
      BY <2>2, <2>3, <2>5, <2>6, <2>7, ScanOn, SMTT(60)
    <2> QED BY <1>7, <1>9, <2>2, <2>8, CalmStep DEF d
  <1>10. (e # {} /\ StepCall(t, "scanned", yes)) \/ StepCall(t, "scanned", no)
    <2> DEFINE r == cth[t]
    <2>1. r \in CallOf
      BY <1>1
    <2> HIDE DEF r
    <2>2. ASSUME NEW f PROVE
          [r EXCEPT !.at = "scan", !.i = @ + 1, !.num = @ + 1, !.done = TRUE, !.pfds[r.i].revents = f]
            = Works(r, "scan", r.i + 1, r.num + 1, [r.pfds EXCEPT ![r.i].revents = f], r.handles, TRUE)
      BY <2>1 DEF CallOf, Works
    <2>3. ASSUME NEW b PROVE
          [r EXCEPT !.at = "scan", !.i = @ + 1, !.handles = IF b THEN Append(@, r.i) ELSE @]
            = Works(r, "scan", r.i + 1, r.num, r.pfds, IF b THEN Append(r.handles, r.i) ELSE r.handles, r.done)
      BY <2>1 DEF CallOf, Works
    <2>4. yes = [c EXCEPT !.at = "scan", !.i = @ + 1, !.num = @ + 1, !.done = TRUE, !.pfds[c.i].revents = e]
      BY <2>2 DEF r
    <2>5. no = [c EXCEPT !.at = "scan", !.i = @ + 1,
                  !.handles = IF p.events \cap HandleFlags(c.end) # {} THEN Append(@, c.i) ELSE @]
      BY <2>3 DEF r
    <2> HIDE DEF yes, no
    <2> QED BY <2>4, <2>5 DEF Scanned
  <1> QED BY <1>8, <1>9, <1>10

-----------------------------------------------------------------------------
(* Waiting, and the end of the wait. *)

(* The scan or the wait ends with the answers it has.                      *)
Rests(c, at, num) == Works(c, at, c.i, num, c.pfds, c.handles, c.done)
GoodRest(c, at, num) ==
  at \in {"wait", "answer"} /\ num \in Int /\ (num = c.num \/ (at = "answer" /\ num <= 0))
LEMMA RestsIs ==
  ASSUME NEW c \in CallOf, NEW w, NEW list, CallOK(c, w, list), c.at \in {"scan", "wait", "checked"},
         NEW at, NEW num, GoodRest(c, at, num)
  PROVE  /\ Rests(c, at, num) \in CallOf /\ CallOK(Rests(c, at, num), w, list)
         /\ Rests(c, at, num).holds = c.holds
  <1> DEFINE d == Rests(c, at, num)
  <1>1. GoodStep(at, c.i, num, c.done) /\ c.pfds \in Seq(PolledOf) /\ c.handles \in Seq(Nat)
    BY DEF GoodRest, GoodStep, CallOf
  <1>2. d \in CallOf /\ d.at = at /\ d.i = c.i /\ d.num = num /\ d.pfds = c.pfds /\ d.handles = c.handles
        /\ d.call = c.call /\ d.n = c.n /\ d.sets = c.sets /\ d.out = c.out /\ d.moved = c.moved
        /\ d.holds = c.holds
    BY <1>1, WorksIs DEF Rests
  <1> HIDE DEF d
  <1>3. c.call \in Wait /\ c.out = {}
    BY AtWork DEF CallOK
  <1>4. SameAnswers(c, d) /\ Answered(d) = Answered(c)
    BY <1>2 DEF SameAnswers, GoodRest, Answered
  <1>5. Truthful(d, w) /\ Epolled(d, list) /\ Told(d, w)
    <2>1. d.at # "return"
      BY <1>2 DEF GoodRest
    <2> QED BY <1>4, <2>1, AnswersKept
  <1>6. Placed(d)
    BY <1>2, <1>3, StillPlaced DEF GoodRest
  <1>7. Noted(d, w) /\ Looking(d)
    BY <1>2 DEF Noted, Looking, GoodRest, Querying
  <1>8. (Scanning(c) \/ Checking(c)) /\ ~Scanning(d)
    BY <1>2, <1>3 DEF Scanning, Checking, GoodRest, Querying
  <1>9. Counted(d)
    <2>1. c.num = Cardinality(Answered(c))
      BY <1>8 DEF CallOK, Counted
    <2>2. Checking(d) => num = c.num
      BY <1>2 DEF Checking, GoodRest, Querying
    <2>3. num > 0 => num = c.num
      BY DEF GoodRest
    <2> QED BY <1>2, <1>4, <1>8, <2>1, <2>2, <2>3 DEF Counted
  <1>10. Pending(d)
    BY <1>2, <1>8 DEF CallOK, Pending
  <1>11. CallOK(d, w, list)
    BY <1>5, <1>6, <1>7, <1>9, <1>10 DEF CallOK
  <1> QED BY <1>2, <1>11 DEF d

(* Such an end keeps the invariant.                                        *)
LEMMA RestInv ==
  ASSUME ChannelsInv, WasStep, NEW t \in Poller, cth[t].at \in {"scan", "wait", "checked"},
         NEW at, NEW num, GoodRest(cth[t], at, num), StepCall(t, cth[t].at, Rests(cth[t], at, num)),
         UNCHANGED <<pipe, event, efds, wrong>>
  PROVE  ChannelsInv'
  <1> DEFINE c == cth[t]
             w == was[t] \cup Ready
             d == Rests(c, at, num)
  <1>1. c \in CallOf /\ CallOK(c, w, efds)
    BY CallNow
  <1>2. d \in CallOf /\ CallOK(d, w, efds) /\ d.holds = c.holds
    BY <1>1, RestsIs
  <1>3. c.at \notin Querying
    BY DEF Querying
  <1> HIDE DEF d
  <1>4. c.holds \subseteq d.holds /\ d.holds \subseteq c.holds \cup pipe.table
    BY <1>2
  <1>5. StepCall(t, c.at, d)
    BY DEF d
  <1> QED BY <1>2, <1>3, <1>4, <1>5, CalmStep

(* How such a step is written.                                             *)
LEMMA RestsForm ==
  ASSUME NEW c \in CallOf, NEW at, NEW num
  PROVE  /\ [c EXCEPT !.at = at] = Rests(c, at, c.num)
         /\ [c EXCEPT !.at = at, !.num = num] = Rests(c, at, num)
  BY DEF CallOf, Rests, Works

(* The end of the scan.                                                    *)
LEMMA ScanEndInv ==
  ASSUME ChannelsInv, WasStep, NEW t \in Poller, ScanEnd(t)
  PROVE  ChannelsInv'
  <1> DEFINE c == cth[t]
             at == IF c.handles # <<>> /\ ~c.done THEN "wait" ELSE "answer"
  <1>1. c \in CallOf /\ c.at = "scan" /\ c.num \in Int /\ UNCHANGED <<pipe, event, efds, wrong>>
    BY CallNow DEF ScanEnd, CallOf
  <1>2. GoodRest(c, at, c.num)
    BY <1>1 DEF GoodRest
  <1>3. StepCall(t, c.at, [c EXCEPT !.at = at])
    BY <1>1 DEF ScanEnd
  <1> HIDE DEF at
  <1>4. StepCall(t, c.at, Rests(c, at, c.num))
    BY <1>1, <1>3, RestsForm
  <1> QED BY <1>1, <1>2, <1>4, RestInv

(* The end of the wait by its limit or by a signal.                        *)
LEMMA WaitEndsInv ==
  ASSUME ChannelsInv, WasStep, NEW t \in Poller, WaitTimeout(t) \/ WaitSignal(t)
  PROVE  ChannelsInv'
  <1> DEFINE c == cth[t]
             at == "answer"
  <1>1. c \in CallOf /\ c.at = "wait" /\ UNCHANGED <<pipe, event, efds, wrong>>
    BY CallNow DEF WaitTimeout, WaitSignal, StepCall
  <1>2. PICK num \in {0, EINTR} : StepCall(t, c.at, [c EXCEPT !.at = at, !.num = num])
    BY <1>1 DEF WaitTimeout, WaitSignal
  <1>3. GoodRest(c, at, num)
    BY DEF GoodRest, EINTR
  <1> HIDE DEF at
  <1>4. StepCall(t, c.at, Rests(c, at, num))
    BY <1>1, <1>2, RestsForm
  <1> QED BY <1>1, <1>3, <1>4, RestInv

(* A handle that is signalled is asked about.                              *)
LEMMA WaitObjectInv ==
  ASSUME ChannelsInv, WasStep, NEW t \in Poller, WaitObject(t)
  PROVE  ChannelsInv'
  <1> DEFINE c == cth[t]
             w == was[t] \cup Ready
             k == FX!Min(Hit(c))
             i == c.handles[k]
             fd == c.pfds[i].fd
             d == [c EXCEPT !.at = "query", !.then = "checked", !.i = i, !.end = fd]
  <1>1. c \in CallOf /\ CallOK(c, w, efds) /\ c.at = "wait" /\ Hit(c) # {} /\ StepCall(t, "wait", d)
        /\ UNCHANGED <<pipe, event, efds, wrong>>
    BY CallNow DEF WaitObject
  <1>2. c.call \in Wait /\ c.out = {} /\ Checking(c)
    <2>1. c.call \in Wait /\ c.out = {}
      BY <1>1, AtWork, SMTT(60) DEF CallOK
    <2> QED BY <1>1, <2>1 DEF Checking
  <1>3. c.num = Cardinality(Answered(c))
        /\ \A l \in DOMAIN c.handles : /\ c.handles[l] \in DOMAIN c.pfds /\ c.pfds[c.handles[l]].revents = {}
                                       /\ c.pfds[c.handles[l]].fd \in End
    BY <1>1, <1>2 DEF CallOK, Counted, Pending
  <1>4. k \in DOMAIN c.handles
    <2> DEFINE K == Hit(c)
    <2>1. c.handles \in Seq(Nat)
      BY <1>1 DEF CallOf
    <2>2. DOMAIN c.handles \subseteq Nat
      BY <2>1, LenProperties, SMTT(60)
    <2>3. K \in SUBSET Nat /\ K # {} /\ K \subseteq DOMAIN c.handles
      BY <1>1, <2>2 DEF Hit
    <2> HIDE DEF K
    <2>4. FX!Min(K) \in K
      BY <2>3, LeastOne
    <2> QED BY <2>3, <2>4 DEF K
  <1> HIDE DEF k
  <1>5. i \in DOMAIN c.pfds /\ c.pfds[i].revents = {} /\ fd \in End /\ i \in Nat
    <2>1. c.handles \in Seq(Nat)
      BY <1>1 DEF CallOf
    <2>2. i \in Nat
      BY <1>4, <2>1
    <2> QED BY <1>3, <1>4, <2>2
  <1> HIDE DEF i
  <1>6. /\ d \in CallOf /\ d.at = "query" /\ d.then = "checked" /\ d.end = fd /\ d.holds = c.holds
        /\ d.num = c.num /\ d.handles = c.handles /\ d.i = i /\ SameAnswers(c, d)
    BY <1>1, <1>5 DEF CallOf, SameAnswers, Querying
  <1> HIDE DEF d
  <1>7. Truthful(d, w) /\ Epolled(d, efds) /\ Told(d, w)
    BY <1>1, <1>6, AnswersKept
  <1>8. d.pfds = c.pfds /\ d.call = c.call /\ d.out = c.out /\ Answered(d) = Answered(c)
    BY <1>6 DEF SameAnswers, Answered
  <1>9. Placed(d)
    BY <1>2, <1>6, <1>8, StillPlaced
  <1>10. Noted(d, w) /\ Looking(d)
    BY <1>5, <1>6, <1>8 DEF Noted, Looking
  <1>11. ~Scanning(d)
    BY <1>6 DEF Scanning
  <1>12. Counted(d)
    BY <1>3, <1>6, <1>8 DEF Counted
  <1>13. Pending(d)
    BY <1>3, <1>6, <1>8, <1>11 DEF Pending
  <1>14. CallOK(d, w, efds)
    BY <1>7, <1>9, <1>10, <1>12, <1>13 DEF CallOK
  <1>15. "wait" \notin Querying /\ c.holds \subseteq d.holds /\ d.holds \subseteq c.holds \cup pipe.table
    BY <1>6 DEF Querying
  <1> QED BY <1>1, <1>6, <1>14, <1>15, CalmStep

(* The wait was for something, or for nothing.                             *)
LEMMA CheckedInv ==
  ASSUME ChannelsInv, WasStep, NEW t \in Poller, Checked(t)
  PROVE  ChannelsInv'
  <1> DEFINE c == cth[t]
             w == was[t] \cup Ready
             p == c.pfds[c.i]
             e == p.events \cap Status(c.end, c.info)
             n1 == c.num + 1
             q == [c.pfds EXCEPT ![c.i].revents = e]
             at == "answer"
             d == Works(c, at, c.i, n1, q, c.handles, c.done)
  <1>1. c \in CallOf /\ CallOK(c, w, efds) /\ c.at = "checked"
    BY CallNow DEF Checked, StepCall
  <1>2. /\ c.i \in DOMAIN c.pfds /\ p.fd = c.end /\ c.end \in End /\ p.revents = {} /\ c.call \in Wait
        /\ c.out = {}
    <2>1. c.call \in Wait /\ c.out = {}
      BY <1>1, AtWork DEF CallOK
    <2> QED BY <1>1, <2>1 DEF CallOK, Looking
  <1>3. /\ c.i \in Nat /\ c.num \in Int /\ c.handles \in Seq(Nat) /\ c.done \in BOOLEAN /\ c.pfds \in Seq(PolledOf)
    BY <1>1 DEF CallOf
  <1>4. c.num = Cardinality(Answered(c))
    <2>1. Checking(c)
      BY <1>1, <1>2 DEF Checking
    <2> QED BY <1>1, <2>1 DEF CallOK, Counted
  <1>5. UNCHANGED <<pipe, event, efds, wrong>> /\ "checked" \notin Querying
    BY DEF Checked, Querying
  <1>6. CASE \E a \in {"wait", "answer"} : StepCall(t, "checked", [c EXCEPT !.at = a])
    <2>1. PICK a \in {"wait", "answer"} : StepCall(t, c.at, [c EXCEPT !.at = a])
      BY <1>1, <1>6
    <2>2. GoodRest(c, a, c.num)
      BY <1>3 DEF GoodRest
    <2>3. StepCall(t, c.at, Rests(c, a, c.num))
      BY <1>1, <2>1, RestsForm
    <2> QED BY <1>1, <1>5, <2>2, <2>3, RestInv
  <1>7. CASE e # {} /\ StepCall(t, "checked", d)
    <2>1. e \in SUBSET Flag /\ \A x \in e : x \in p.events /\ <<p.fd, x>> \in w
      <3>1. p \in PolledOf
        BY <1>2, <1>3
      <3>2. p.events \in SUBSET Flag
        BY <3>1 DEF PolledOf
      <3>3. \A x \in Status(c.end, c.info) : <<c.end, x>> \in w
        BY <1>1 DEF CallOK, Noted
      <3> QED BY <1>2, <3>2, <3>3
    <2> HIDE DEF e
    <2>2. q \in Seq(PolledOf) /\ q = [c.pfds EXCEPT ![c.i].revents = e]
      BY <1>2, <1>3, <2>1, SetAnswer
    <2>3. /\ d \in CallOf /\ d.at = "answer" /\ d.holds = c.holds
          /\ d.num = c.num + 1 /\ Enters(c, d, c.i, e) /\ d.call = c.call /\ d.out = c.out
      <3>1. GoodStep(at, c.i, n1, c.done) /\ n1 = c.num + 1
        BY <1>3 DEF GoodStep
      <3>2. at = "answer"
        OBVIOUS
      <3> HIDE DEF n1, q, c, at
      <3>3. d \in CallOf /\ d.at = at /\ d.i = c.i /\ d.num = n1 /\ d.pfds = q /\ d.handles = c.handles
            /\ d.call = c.call /\ d.n = c.n /\ d.sets = c.sets /\ d.out = c.out /\ d.moved = c.moved
            /\ d.holds = c.holds
        <4>1. c \in CallOf /\ q \in Seq(PolledOf) /\ c.handles \in Seq(Nat)
          BY <1>1, <1>3, <2>2
        <4> QED BY <3>1, <4>1, WorksIs
      <3> HIDE DEF d
      <3> QED BY <1>1, <2>2, <3>1, <3>2, <3>3 DEF Enters
    <2> HIDE DEF d
    <2>4. /\ Truthful(d, w) /\ Epolled(d, efds) /\ Told(d, w)
          /\ Cardinality(Answered(d)) = Cardinality(Answered(c)) + 1
      <3>1. c \in CallOf /\ CallOK(c, w, efds) /\ c.i \in DOMAIN c.pfds /\ c.pfds[c.i].revents = {}
        BY <1>1, <1>2
      <3>2. \A x \in e : x = "nval" \/ (x \in c.pfds[c.i].events /\ <<c.pfds[c.i].fd, x>> \in w)
        BY <2>1
      <3>3. d \in CallOf /\ Enters(c, d, c.i, e) /\ e \in SUBSET Flag /\ e # {}
        BY <1>7, <2>1, <2>3
      <3> HIDE DEF c, w
      <3> QED BY <3>1, <3>2, <3>3, AnswerEntered
    <2>5. Placed(d)
      BY <1>2, <2>3, StillPlaced
    <2>6. Noted(d, w) /\ Looking(d)
      BY <2>3 DEF Noted, Looking, Querying
    <2>7. ~Scanning(d) /\ ~Checking(d) /\ d.num = Cardinality(Answered(d))
      BY <1>4, <2>3, <2>4 DEF Scanning, Checking, Querying
    <2>8. Counted(d) /\ Pending(d)
      BY <2>7 DEF Counted, Pending
    <2>9. CallOK(d, w, efds)
      BY <2>4, <2>5, <2>6, <2>8 DEF CallOK
    <2> QED BY <1>5, <1>7, <2>3, <2>9, CalmStep DEF d
  <1>8. \/ \E a \in {"wait", "answer"} : StepCall(t, "checked", [c EXCEPT !.at = a])
        \/ e # {} /\ StepCall(t, "checked", d)
    <2> DEFINE r == cth[t]
    <2>1. r \in CallOf
      BY <1>1
    <2> HIDE DEF r
    <2>2. ASSUME NEW f PROVE
          [r EXCEPT !.at = "answer", !.num = @ + 1, !.pfds[r.i].revents = f]
            = Works(r, "answer", r.i, r.num + 1, [r.pfds EXCEPT ![r.i].revents = f], r.handles, r.done)
      BY <2>1 DEF CallOf, Works
    <2>3. d = [c EXCEPT !.at = "answer", !.num = @ + 1, !.pfds[c.i].revents = e]
      BY <2>2 DEF r
    <2> HIDE DEF d
    <2> QED BY <2>3 DEF Checked
  <1> QED BY <1>6, <1>7, <1>8

-----------------------------------------------------------------------------
(* The answers. *)

(* A call that returns with its answers.                                   *)
LEMMA AnsweredOK ==
  ASSUME NEW c, NEW d, NEW w, NEW list, CallOK(c, w, list), c.call \in Wait, c.at = "answer",
         d.call = c.call, d.at = "return", d.pfds = c.pfds, d.n = c.n, d.moved = c.moved,
         d.out # {} => c.call = "epoll", d.call = "poll" => d.num = c.num,
         d.call = "select" => \A fd \in d.sets[1] : <<fd, "in">> \in w,
         Told(d, w)
  PROVE  CallOK(d, w, list)
  <1>1. Placed(d)
    BY DEF CallOK, Placed, Wait, Transfer, Querying
  <1>2. Noted(d, w) /\ Looking(d) /\ Pending(d)
    BY DEF Noted, Looking, Pending, Scanning, Checking, Querying
  <1>3. Counted(d)
    <2>1. ~Scanning(d) /\ ~Checking(d) /\ Answered(d) = Answered(c)
      BY DEF Scanning, Checking, Answered, Querying
    <2> QED BY <2>1 DEF CallOK, Counted
  <1>4. Truthful(d, w)
    BY DEF CallOK, Truthful
  <1>5. Epolled(d, list)
    BY DEF CallOK, Epolled
  <1> QED BY <1>1, <1>2, <1>3, <1>4, <1>5 DEF CallOK

(* The answer of poll.                                                     *)
LEMMA AnswerPollInv ==
  ASSUME ChannelsInv, WasStep, NEW t \in Poller, AnswerPoll(t)
  PROVE  ChannelsInv'
  <1> DEFINE c == cth[t]
             w == was[t] \cup Ready
             d == [c EXCEPT !.at = "return"]
  <1>1. c \in CallOf /\ CallOK(c, w, efds) /\ c.at = "answer" /\ c.call = "poll" /\ StepCall(t, "answer", d)
        /\ UNCHANGED <<pipe, event, efds, wrong>>
    BY CallNow DEF AnswerPoll, StepCall
  <1>2. c.call \in Wait /\ c.out = {} /\ "answer" \notin Querying
    BY <1>1 DEF CallOK, Placed, Wait, Querying
  <1>3. /\ d \in CallOf /\ d.call = c.call /\ d.at = "return" /\ d.pfds = c.pfds /\ d.n = c.n
        /\ d.moved = c.moved /\ d.out = c.out /\ d.num = c.num /\ d.holds = c.holds
    BY <1>1 DEF CallOf
  <1> HIDE DEF d
  <1>4. Told(d, w)
    BY <1>1, <1>2, <1>3 DEF CallOK, Told
  <1>5. CallOK(d, w, efds)
    BY <1>1, <1>2, <1>3, <1>4, AnsweredOK
  <1> QED BY <1>1, <1>2, <1>3, <1>5, CalmStep

(* The answer of select: the sets, filled from the array.                  *)
LEMMA AnswerSelectInv ==
  ASSUME ChannelsInv, WasStep, NEW t \in Poller, AnswerSelect(t)
  PROVE  ChannelsInv'
  <1> DEFINE c == cth[t]
             w == was[t] \cup Ready
             Bits(k, x) == {fd \in c.sets[k] : c.num > 0 /\ \E i \in DOMAIN c.pfds :
                                                 c.pfds[i].fd = fd /\ x \in c.pfds[i].revents}
             b1 == Bits(1, "in")
             b2 == Bits(2, "out")
             b3 == Bits(3, "err")
             d == [c EXCEPT !.at = "return", !.sets = <<b1, b2, b3>>]
  <1>1. c \in CallOf /\ CallOK(c, w, efds) /\ c.at = "answer" /\ c.call = "select" /\ StepCall(t, "answer", d)
        /\ UNCHANGED <<pipe, event, efds, wrong>>
    BY CallNow DEF AnswerSelect, StepCall
  <1>2. c.call \in Wait /\ c.out = {} /\ "answer" \notin Querying
    BY <1>1 DEF CallOK, Placed, Wait, Querying
  <1>3. b1 \in SUBSET End /\ b2 \in SUBSET End /\ b3 \in SUBSET End
    <2>1. c.sets \in (SUBSET End) \X (SUBSET End) \X (SUBSET End)
      BY <1>1 DEF CallOf
    <2> QED BY <2>1
  <1>4. \A fd \in b1 : <<fd, "in">> \in w
    <2> TAKE fd \in b1
    <2>1. PICK i \in DOMAIN c.pfds : c.pfds[i].fd = fd /\ "in" \in c.pfds[i].revents
      OBVIOUS
    <2> QED BY <1>1, <2>1 DEF CallOK, Truthful
  <1> HIDE DEF b1, b2, b3
  <1>5. /\ d \in CallOf /\ d.call = c.call /\ d.at = "return" /\ d.pfds = c.pfds /\ d.n = c.n
        /\ d.moved = c.moved /\ d.out = c.out /\ d.num = c.num /\ d.holds = c.holds /\ d.sets[1] = b1
    BY <1>1, <1>3 DEF CallOf
  <1> HIDE DEF d
  <1>6. Told(d, w)
    BY <1>1, <1>2, <1>5 DEF CallOK, Told
  <1>7. CallOK(d, w, efds)
    BY <1>1, <1>2, <1>4, <1>5, <1>6, AnsweredOK
  <1> QED BY <1>1, <1>2, <1>5, <1>7, CalmStep

(* No more than max of a set of numbers have at most max up to them.       *)
LEMMA FirstFew ==
  ASSUME NEW n \in Nat, NEW H \in SUBSET (1 .. n), NEW max \in Nat
  PROVE  LET K == {k \in H : Cardinality({j \in H : j <= k}) <= max} IN
         IsFiniteSet(K) /\ Cardinality(K) <= max
  <1> DEFINE K == {k \in H : Cardinality({j \in H : j <= k}) <= max}
  <1>1. IsFiniteSet(H)
    <2>1. IsFiniteSet(1 .. n)
      BY FS_Interval
    <2> QED BY <2>1, FS_Subset
  <1>2. IsFiniteSet(K)
    BY <1>1, FS_Subset
  <1>3. CASE K = {}
    <2>1. Cardinality(K) = 0
      BY <1>3, FS_EmptySet
    <2> HIDE DEF K
    <2>2. Cardinality(K) <= max
      BY <2>1
    <2> QED BY <1>2, <2>2 DEF K
  <1>4. CASE K # {}
    <2> DEFINE D == {x \in Nat : n - x \in K}
    <2>1. D # {}
      <3>1. PICK k \in K : TRUE
        BY <1>4
      <3>2. n - k \in Nat /\ n - (n - k) = k
        BY <3>1
      <3> QED BY <3>1, <3>2
    <2>2. PICK x \in D : \A y \in D : x <= y
      <3>1. D \in SUBSET Nat
        OBVIOUS
      <3> HIDE DEF D
      <3> QED BY <2>1, <3>1, Lowest
    <2> DEFINE m == n - x
               J == {j \in H : j <= m}
    <2>3. m \in K
      BY <2>2
    <2>4. \A k \in K : k <= m
      <3> TAKE k \in K
      <3>1. n - k \in Nat /\ n - (n - k) = k /\ x \in Nat /\ k \in Nat
        OBVIOUS
      <3>2. n - k \in D
        BY <3>1
      <3>3. x <= n - k
        BY <2>2, <3>2
      <3> QED BY <3>1, <3>3
    <2>5. K \in SUBSET J /\ J \in SUBSET H
      BY <2>4
    <2>6. Cardinality(J) <= max
      BY <2>3
    <2> HIDE DEF J, K, D, m
    <2>7. IsFiniteSet(J)
      BY <1>1, <2>5, FS_Subset
    <2>8. Cardinality(K) <= Cardinality(J)
      BY <2>5, <2>7, FS_Subset
    <2>9. Cardinality(K) \in Nat /\ Cardinality(J) \in Nat
      BY <1>2, <2>7, FS_CardinalityType
    <2>10. Cardinality(K) <= max
      BY <2>6, <2>8, <2>9
    <2> QED BY <1>2, <2>10 DEF K
  <1> QED BY <1>3, <1>4

(* What epoll_wait reports: an entry each, and not too many.               *)
LEMMA ReportedIs ==
  ASSUME NEW p \in Seq(PolledOf), efds \in Seq(EntryOf), NEW max \in Nat
  PROVE  /\ Reported(p, max) \in SUBSET OutOf
         /\ Cardinality(Reported(p, max)) \in Nat /\ Cardinality(Reported(p, max)) <= max
         /\ \A k \in Reported(p, max) : \E i \in DOMAIN p \cap DOMAIN efds :
              k = [entry |-> i, events |-> p[i].revents, data |-> efds[i].fd]
  <1> DEFINE H == {i \in DOMAIN p \cap DOMAIN efds : p[i].revents # {}}
             K == {k \in H : Cardinality({j \in H : j <= k}) <= max}
             R(i) == [entry |-> i, events |-> p[i].revents, data |-> efds[i].fd]
             n == Len(p)
             f == [i \in K |-> R(i)]
             T == Reported(p, max)
  <1>1. n \in Nat /\ H \in SUBSET (1 .. n)
    BY LenProperties
  <1>2. T = {R(i) : i \in K}
    BY DEF Reported
  <1> HIDE DEF H, n, T
  <1>3. IsFiniteSet(K) /\ Cardinality(K) <= max
    BY <1>1, FirstFew
  <1>4. K \subseteq H
    OBVIOUS
  <1> HIDE DEF K
  <1>5. f \in Surjection(K, T)
    BY <1>2 DEF Surjection
  <1>6. IsFiniteSet(T) /\ Cardinality(T) <= Cardinality(K)
    <2> HIDE DEF f
    <2> QED BY <1>3, <1>5, FS_Surjection
  <1>7. Cardinality(T) \in Nat /\ Cardinality(T) <= max
    <2>1. Cardinality(T) \in Nat /\ Cardinality(K) \in Nat
      BY <1>3, <1>6, FS_CardinalityType
    <2> QED BY <1>3, <1>6, <2>1
  <1>8. \A i \in K : i \in DOMAIN p \cap DOMAIN efds
    BY <1>4 DEF H
  <1>9. \A i \in K : R(i) \in OutOf
    <2> TAKE i \in K
    <2>1. p[i] \in PolledOf /\ efds[i] \in EntryOf /\ i \in Nat
      <3>1. i \in DOMAIN p /\ i \in DOMAIN efds
        BY <1>8
      <3> QED BY <3>1, LenProperties
    <2> QED BY <2>1 DEF PolledOf, EntryOf, OutOf
  <1>10. T \in SUBSET OutOf
    BY <1>2, <1>9
  <1>11. \A k \in T : \E i \in DOMAIN p \cap DOMAIN efds : k = R(i)
    BY <1>2, <1>8
  <1> QED BY <1>7, <1>10, <1>11 DEF T

(* The answer of epoll_wait: the list is read again without its lock.      *)
LEMMA AnswerEpollInv ==
  ASSUME ChannelsInv, WasStep, NEW t \in Poller, AnswerEpoll(t)
  PROVE  ChannelsInv'
  <1> DEFINE c == cth[t]
             w == was[t] \cup Ready
             out == Reported(c.pfds, c.n)
             size == Cardinality(out)
             none == [c EXCEPT !.at = "return"]
             some == [c EXCEPT !.at = "return", !.out = out, !.num = size]
  <1>1. c \in CallOf /\ CallOK(c, w, efds) /\ c.at = "answer" /\ c.call = "epoll"
        /\ UNCHANGED <<pipe, event, efds, wrong>>
    BY CallNow DEF AnswerEpoll, StepCall
  <1>2. c.call \in Wait /\ c.out = {} /\ "answer" \notin Querying /\ c.n \in Nat /\ c.pfds \in Seq(PolledOf)
    BY <1>1 DEF CallOK, Placed, Wait, Querying, CallOf
  <1>3. efds \in Seq(EntryOf) /\ Distinct
    BY DEF ChannelsInv, ChannelsTypeOK
  <1>4. CASE StepCall(t, "answer", none)
    <2> DEFINE d == none
    <2>1. /\ d \in CallOf /\ d.call = c.call /\ d.at = "return" /\ d.pfds = c.pfds /\ d.n = c.n
          /\ d.moved = c.moved /\ d.out = c.out /\ d.num = c.num /\ d.holds = c.holds
      BY <1>1 DEF CallOf
    <2> HIDE DEF d
    <2>2. Told(d, w)
      BY <1>1, <1>2, <2>1 DEF CallOK, Told
    <2>3. CallOK(d, w, efds)
      BY <1>1, <1>2, <2>1, <2>2, AnsweredOK
    <2> QED BY <1>1, <1>2, <1>4, <2>1, <2>3, CalmStep DEF d
  <1>5. CASE StepCall(t, "answer", some)
    <2> DEFINE d == some
    <2>1. /\ out \in SUBSET OutOf /\ size \in Nat /\ size <= c.n
          /\ \A k \in out : \E i \in DOMAIN c.pfds \cap DOMAIN efds :
               k = [entry |-> i, events |-> c.pfds[i].revents, data |-> efds[i].fd]
      BY <1>2, <1>3, ReportedIs
    <2>2. ~c.moved => \A k \in out :
            /\ \A x \in k.events : x = "nval" \/ <<k.data, x>> \in w
            /\ \A j \in out : j.data = k.data => j = k
      <3> SUFFICES ASSUME ~c.moved, NEW k \in out
                   PROVE  /\ \A x \in k.events : x = "nval" \/ <<k.data, x>> \in w
                          /\ \A j \in out : j.data = k.data => j = k
        OBVIOUS
      <3>1. PICK i \in DOMAIN c.pfds \cap DOMAIN efds :
              k = [entry |-> i, events |-> c.pfds[i].revents, data |-> efds[i].fd]
        BY <2>1
      <3> HIDE DEF out
      <3>2. c.pfds[i].fd = efds[i].fd
        BY <1>1 DEF CallOK, Epolled
      <3>3. \A x \in k.events : x = "nval" \/ <<k.data, x>> \in w
        BY <1>1, <3>1, <3>2 DEF CallOK, Truthful
      <3>4. ASSUME NEW j \in out, j.data = k.data PROVE j = k
        <4>1. PICK l \in DOMAIN c.pfds \cap DOMAIN efds :
                j = [entry |-> l, events |-> c.pfds[l].revents, data |-> efds[l].fd]
          BY <2>1
        <4>2. efds[l].fd = efds[i].fd
          BY <3>1, <3>4, <4>1
        <4>3. l = i
          BY <1>3, <4>2 DEF Distinct
        <4> QED BY <3>1, <4>1, <4>3
      <3> QED BY <3>3, <3>4
    <2>3. size = Cardinality(out)
      OBVIOUS
    <2> HIDE DEF out, size
    <2>4. /\ d \in CallOf /\ d.call = c.call /\ d.at = "return" /\ d.pfds = c.pfds /\ d.n = c.n
          /\ d.moved = c.moved /\ d.out = out /\ d.num = size /\ d.holds = c.holds
      <3>1. size \in Int /\ out \in SUBSET OutOf /\ c \in CallOf
        BY <1>1, <2>1
      <3> HIDE DEF c
      <3> QED BY <3>1 DEF CallOf
    <2> HIDE DEF d
    <2>5. Told(d, w)
      BY <2>1, <2>2, <2>3, <2>4 DEF Told
    <2>6. CallOK(d, w, efds)
      BY <1>1, <1>2, <2>4, <2>5, AnsweredOK
    <2> QED BY <1>1, <1>2, <1>5, <2>4, <2>6, CalmStep DEF d
  <1>6. StepCall(t, "answer", none) \/ StepCall(t, "answer", some)
    BY DEF AnswerEpoll
  <1> QED BY <1>4, <1>5, <1>6

-----------------------------------------------------------------------------
(* The theorems. *)

(* The invariant holds at the start.                                       *)
LEMMA ChannelsInitInv ==
  ASSUME ChannelsInit
  PROVE  ChannelsInv
  <1>1. ChannelsTypeOK
    <2>1. << >> \in Seq(EntryOf) /\ "w" \in End
      BY DEF End
    <2>2. NoCall \in CallOf
      BY NoCallOK
    <2> QED BY <2>1, <2>2, QuotaAssumption DEF ChannelsInit, ChannelsTypeOK
  <1>2. Distinct
    BY DEF ChannelsInit, Distinct
  <1>3. \A t \in Poller : CallOK(cth[t], was[t], efds)
    BY NoCallOK DEF ChannelsInit
  <1>4. Agreement
    <2>1. pipe.data = 0 /\ Info.data = 0 /\ Info.up
      BY DEF ChannelsInit, Info, Open
    <2>2. ~Signalled("r", Info)
      BY <2>1 DEF Signalled
    <2> QED BY <2>2 DEF ChannelsInit, Agreement, End
  <1> QED BY <1>1, <1>2, <1>3, <1>4 DEF ChannelsInv

(* Every step keeps it.                                                    *)
LEMMA ChannelsNextInv ==
  ASSUME ChannelsInv, [ChannelsNext]_channelVars
  PROVE  ChannelsInv'
  <1>1. CASE UNCHANGED channelVars
    BY <1>1 DEF channelVars, ChannelsInv, ChannelsTypeOK, Distinct, Agreement, Due, Signalled, Info, Open
  <1>2. CASE ChannelsNext
    <2>1. PICK t \in Poller : Thread(t)
      BY <1>2 DEF ChannelsNext
    <2>2. WasStep
      BY <1>2 DEF ChannelsNext, WasStep
    <2>3. CASE \E e \in End, n \in 1 .. Quota : pipe_read(t, e, n) \/ pipe_write(t, e, n)
      BY <2>2, <2>3, ReadBegins, WriteBegins
    <2>4. CASE \E e \in End : Close(t, e) \/ F_SETFL(t, e) \/ epollfd_ctl_del(t, e)
      BY <2>2, <2>4, CloseInv, SetFlagsInv, ListDelInv
    <2>5. CASE \E e \in End, ev \in EventSet : epollfd_ctl_add(t, e, ev) \/ epollfd_ctl_mod(t, e, ev)
      BY <2>2, <2>5, ListAddInv, ListModInv
    <2>6. CASE \E limited \in BOOLEAN :
                 \/ \E p \in PollSet : poll(t, p, limited)
                 \/ \E s \in SelectSet : select(t, s, limited)
                 \/ \E max \in 1 .. 2 : epoll_wait(t, max, limited)
      BY <2>2, <2>6, PollInv, SelectInv, EpollWaitInv
    <2>7. CASE WriteRoom(t) \/ ReadFile(t) \/ WriteFile(t)
      BY <2>2, <2>7, WriteRoomInv, ReadFileInv, WriteFileInv
    <2>8. CASE Query(t) \/ StoreRead(t) \/ StoreWrite(t) \/ ReturnCall(t)
      BY <2>2, <2>8, QueryInv, StoresInv, ReturnCallInv
    <2>9. CASE epollfd_to_pollfds(t) \/ Scan(t) \/ Scanned(t) \/ ScanEnd(t)
      BY <2>2, <2>9, CopyInv, ScanInv, ScannedInv, ScanEndInv
    <2>10. CASE WaitObject(t) \/ WaitTimeout(t) \/ WaitSignal(t) \/ Checked(t)
      BY <2>2, <2>10, WaitObjectInv, WaitEndsInv, CheckedInv
    <2>11. CASE AnswerPoll(t) \/ AnswerSelect(t) \/ AnswerEpoll(t)
      BY <2>2, <2>11, AnswerPollInv, AnswerSelectInv, AnswerEpollInv
    <2> QED BY <2>1, <2>3, <2>4, <2>5, <2>6, <2>7, <2>8, <2>9, <2>10, <2>11 DEF Thread
  <1> QED BY <1>1, <1>2

(* Every state that satisfies the invariant gives the answers promised.    *)
LEMMA InvIsExact ==
  ASSUME ChannelsInv
  PROVE  PollExact
  <1>1. EventsAgree
    <2> SUFFICES ASSUME \A t \in Poller : cth[t].at \notin {"query", "set_r", "set_w"} \/ cth[t].then # "return",
                        NEW e \in End \ wrong
                 PROVE  event[e] = Signalled(e, Info)
      BY DEF EventsAgree
    <2>1. \A t \in Poller : ~Due(cth[t], e)
      BY DEF Due
    <2>2. event[e] <=> Signalled(e, Info)
      BY <2>1 DEF ChannelsInv, Agreement
    <2>3. event[e] \in BOOLEAN
      BY DEF ChannelsInv, ChannelsTypeOK
    <2> DEFINE s == Signalled(e, Info)
    <2>4. s \in BOOLEAN
      BY DEF Signalled
    <2> HIDE DEF s
    <2>5. event[e] = s
      BY <2>2, <2>3, <2>4 DEF s
    <2> QED BY <2>5 DEF s
  <1>2. PollAnswers
    <2> SUFFICES ASSUME NEW t \in Poller, cth[t].at = "return"
                 PROVE  LET c == cth[t] IN
                        /\ \A i \in DOMAIN c.pfds : \A x \in c.pfds[i].revents :
                             x = "nval" \/ (x \in c.pfds[i].events /\ <<c.pfds[i].fd, x>> \in was[t])
                        /\ (c.call = "poll" /\ c.num > 0)
                             => c.num = Cardinality({i \in DOMAIN c.pfds : c.pfds[i].revents # {}})
                        /\ c.call = "select" => \A fd \in c.sets[1] : <<fd, "in">> \in was[t]
                        /\ c.call = "epoll" => Cardinality(c.out) <= c.n
                        /\ ~c.moved => \A k \in c.out :
                             /\ \A x \in k.events : x = "nval" \/ <<k.data, x>> \in was[t]
                             /\ \A j \in c.out : j.data = k.data => j = k
      BY DEF PollAnswers
    <2>1. CallOK(cth[t], was[t], efds)
      BY DEF ChannelsInv
    <2>2. Truthful(cth[t], was[t]) /\ Counted(cth[t]) /\ Told(cth[t], was[t])
      BY <2>1 DEF CallOK
    <2> QED BY <2>2 DEF Truthful, Counted, Told, Answered
  <1> QED BY <1>1, <1>2 DEF PollExact

(* It holds always.                                                        *)
LEMMA ChannelsAlways == ChannelsSpec => []ChannelsInv
  <1>1. ChannelsInit => ChannelsInv
    BY ChannelsInitInv
  <1>2. ChannelsInv /\ [ChannelsNext]_channelVars => ChannelsInv'
    BY ChannelsNextInv
  <1> QED BY <1>1, <1>2, PTL DEF ChannelsSpec

(***************************************************************************)
(* The pipe, its events, the interest list, the calls of the threads and   *)
(* what is noted of them are what they are declared as, whatever the       *)
(* threads do (struct pipe_file, struct epollfd, vfs_ppoll).               *)
(***************************************************************************)
THEOREM ChannelsTypeCorrect == ChannelsSpec => []ChannelsTypeOK
  <1>1. ChannelsInv => ChannelsTypeOK
    BY DEF ChannelsInv
  <1> QED BY <1>1, ChannelsAlways, PTL

(***************************************************************************)
(* The events that threads sleep on are right, or known to be out of date, *)
(* whenever no transfer is under way; what poll, select and epoll_wait     *)
(* report was asked for and was so during the call, is counted right, is   *)
(* no more than was asked for, and an entry of an interest list that did   *)
(* not change is reported once, under its own data.                        *)
(***************************************************************************)
THEOREM PollIsExact == ChannelsSpec => []PollExact
  <1>1. ChannelsInv => PollExact
    BY InvIsExact
  <1> QED BY <1>1, ChannelsAlways, PTL

-----------------------------------------------------------------------------
(* Sockets.                                                                *)

SocketsSpec == SocketsInit /\ [][SocketsNext]_socketVars

-----------------------------------------------------------------------------
(* Types. *)

Event == {"READ", "WRITE", "ACCEPT", "CLOSE", "CONNECT"}
Receiving == {"recvfrom", "recvmsg"}
Sending == {"sendto", "sendmsg"}
Op == Receiving \cup Sending \cup {"accept4"}
Active == {"connect", "enumerate", "or", "wait", "clear", "call", "unlock"}

NetType ==
  [type : {"stream", "dgram", "listening"}, conn : {"new", "trying", "up", "refused"},
   in : Nat, room : Nat, closed : BOOLEAN, news : BOOLEAN, left : Nat,
   recorded : SUBSET Event, armed : SUBSET Event]
CallType ==
  [at : Active \cup {"idle", "dead", "lock"}, op : Op \cup {"none", "connect", "poll"},
   peek : BOOLEAN, block : BOOLEAN, e : SUBSET Event, seen : BOOLEAN, robbed : BOOLEAN,
   res : {"none", "ok", "error", "EINTR", "EWOULDBLOCK", "EINPROGRESS"}]

(* Sockets has no type invariant of its own; these are the types.          *)
Types ==
  /\ net \in NetType /\ events \subseteq Event /\ lost \subseteq Event
  /\ connect_error \in BOOLEAN /\ smutex \in Caller \cup {"none"}
  /\ sth \in [Caller -> CallType] /\ scalls \in Nat

(* An event is announced: recorded and disarmed if it was armed.           *)
LEMMA AnnounceEffect ==
  ASSUME NEW n \in NetType, NEW e \in Event
  PROVE  LET m == Announce(n, e) IN
         /\ m \in NetType
         /\ m.type = n.type /\ m.conn = n.conn /\ m.in = n.in /\ m.room = n.room
         /\ m.closed = n.closed /\ m.news = n.news
         /\ m.armed = n.armed \ {e}
         /\ m.recorded = n.recorded \cup ({e} \cap n.armed)
  <1>1. CASE e \in n.armed
    BY <1>1 DEF Announce, NetType
  <1>2. CASE e \notin n.armed
    BY <1>2 DEF Announce, NetType
  <1> QED BY <1>1, <1>2

(* A receiving call arms its event, unless more is there to announce.      *)
LEMMA RearmEffect ==
  ASSUME NEW n \in NetType
  PROVE  LET m == Rearm(n)
             e == Incoming(n.type)
         IN
         /\ m \in NetType /\ e \in {"READ", "ACCEPT"}
         /\ m.type = n.type /\ m.conn = n.conn /\ m.in = n.in /\ m.room = n.room
         /\ m.closed = n.closed /\ m.news = n.news
         /\ n.in > 0 => m.armed = n.armed \ {e} /\ m.recorded = n.recorded \cup {e}
         /\ n.in = 0 => m.armed = n.armed \cup {e} /\ m.recorded = n.recorded
  <1> DEFINE e == Incoming(n.type)
             a == [n EXCEPT !.armed = @ \cup {e}]
  <1>1. e \in {"READ", "ACCEPT"} /\ e \in Event
    BY DEF Incoming, Event
  <1>2. a \in NetType /\ a.armed = n.armed \cup {e} /\ a.recorded = n.recorded
        /\ a.type = n.type /\ a.conn = n.conn /\ a.in = n.in /\ a.room = n.room
        /\ a.closed = n.closed /\ a.news = n.news
    BY <1>1 DEF NetType
  <1>3. Rearm(n) = IF n.in > 0 THEN Announce(a, e) ELSE a
    BY DEF Rearm
  <1>4. n.in \in Nat
    BY DEF NetType
  <1> HIDE DEF e, a
  <1>5. CASE n.in > 0
    <2> DEFINE m == Announce(a, e)
    <2>1. /\ m \in NetType
          /\ m.type = a.type /\ m.conn = a.conn /\ m.in = a.in /\ m.room = a.room
          /\ m.closed = a.closed /\ m.news = a.news
          /\ m.armed = a.armed \ {e}
          /\ m.recorded = a.recorded \cup ({e} \cap a.armed)
      BY <1>1, <1>2, AnnounceEffect
    <2> HIDE DEF m
    <2>2. m.armed = n.armed \ {e} /\ m.recorded = n.recorded \cup {e}
      BY <1>2, <2>1
    <2>3. Rearm(n) = m
      BY <1>3, <1>5 DEF m
    <2> QED BY <1>1, <1>2, <1>4, <1>5, <2>1, <2>2, <2>3 DEF e
  <1>6. CASE n.in = 0
    <2>1. Rearm(n) = a
      BY <1>3, <1>6
    <2> QED BY <1>1, <1>2, <1>6, <2>1 DEF e
  <1> QED BY <1>4, <1>5, <1>6

At == Active \cup {"idle", "dead", "lock"}
Res == {"none", "ok", "error", "EINTR", "EWOULDBLOCK", "EINPROGRESS"}

(* A call that goes on, that has a result, that has seen or collected.     *)
LEMMA CallAt ==
  ASSUME NEW c \in CallType, NEW a \in At
  PROVE  [c EXCEPT !.at = a] \in CallType
  BY DEF CallType, At

LEMMA CallRes ==
  ASSUME NEW c \in CallType, NEW a \in At, NEW r \in Res
  PROVE  [c EXCEPT !.at = a, !.res = r] \in CallType
  BY DEF CallType, At, Res

LEMMA CallSeen ==
  ASSUME NEW c \in CallType, NEW a \in At, NEW b \in BOOLEAN
  PROVE  [c EXCEPT !.at = a, !.seen = b] \in CallType /\ [c EXCEPT !.seen = b] \in CallType
  BY DEF CallType, At

LEMMA CallCollects ==
  ASSUME NEW c \in CallType, NEW a \in At, NEW b \in BOOLEAN, NEW E \in SUBSET Event
  PROVE  /\ [c EXCEPT !.at = a, !.e = E, !.robbed = b] \in CallType
         /\ [c EXCEPT !.robbed = b] \in CallType /\ [c EXCEPT !.e = E] \in CallType
  BY DEF CallType, At

LEMMA NoCallType ==
  /\ NoSocketCall \in CallType /\ NoSocketCall.at = "idle" /\ NoSocketCall.op = "none"
  /\ NoSocketCall.e = {} /\ NoSocketCall.res = "none" /\ ~NoSocketCall.robbed
  BY DEF NoSocketCall, CallType, Active, Op, Event

(* A thread goes on; the others are where they were.                       *)
Goes(t, c) == sth'[t] = c /\ \A u \in Caller : u # t => sth'[u] = sth[u]

LEMMA GoEffect ==
  ASSUME Types, NEW t \in Caller, NEW from, NEW c, SGo(t, from, c)
  PROVE  /\ sth[t].at = from /\ Goes(t, c)
         /\ c \in CallType => sth' \in [Caller -> CallType]
  BY DEF SGo, Types, Goes

LEMMA AfterUpdateType ==
  ASSUME NEW c \in CallType, NEW now \in SUBSET Event
  PROVE  AfterUpdate(c, now) \in CallType
  <1>1. CASE c.op = "poll"
    BY <1>1, NoCallType DEF AfterUpdate
  <1>2. CASE c.op # "poll" /\ Wanted(c.op) \cap now = {}
    <2>1. AfterUpdate(c, now) = IF c.block THEN [c EXCEPT !.at = "wait"]
                                ELSE [c EXCEPT !.at = "unlock", !.res = "EWOULDBLOCK"]
      BY <1>2 DEF AfterUpdate
    <2>2. "wait" \in At /\ "unlock" \in At /\ "EWOULDBLOCK" \in Res
      BY DEF At, Active, Res
    <2>3. [c EXCEPT !.at = "wait"] \in CallType
      BY <2>2, CallAt
    <2>4. [c EXCEPT !.at = "unlock", !.res = "EWOULDBLOCK"] \in CallType
      BY <2>2, CallRes
    <2> QED BY <2>1, <2>3, <2>4
  <1>3. CASE c.op # "poll" /\ Wanted(c.op) \cap now # {}
    <2> DEFINE a == CASE c.op = "connect" -> "unlock" [] ClearsFirst(c) -> "clear"
                      [] OTHER -> "call"
               r == IF c.op # "connect" THEN c.res ELSE IF connect_error THEN "error" ELSE "ok"
    <2>1. a \in At
      BY DEF At, Active
    <2>2. r \in Res
      BY DEF CallType, Res
    <2>3. AfterUpdate(c, now) = [c EXCEPT !.at = a, !.res = r]
      BY <1>3 DEF AfterUpdate
    <2> HIDE DEF a, r
    <2>4. [c EXCEPT !.at = a, !.res = r] \in CallType
      BY <2>1, <2>2, CallRes
    <2> QED BY <2>3, <2>4
  <1> QED BY <1>1, <1>2, <1>3

LEMMA TypeInit == SocketsInit => Types
  <1> SUFFICES ASSUME SocketsInit PROVE Types
    OBVIOUS
  <1>1. net \in NetType
    BY SocketsAssumption DEF SocketsInit, NetType, Event
  <1> QED BY <1>1, NoCallType, SocketsAssumption DEF SocketsInit, Types

(* What the network does: it announces.  Nothing else of it changes but    *)
(* what has arrived, drained, ended or been answered.                      *)
Announces(S) ==
  /\ net' \in NetType /\ net'.type = net.type
  /\ net'.armed = net.armed \ S
  /\ net'.recorded = net.recorded \cup (S \cap net.armed)
  /\ UNCHANGED <<events, connect_error, smutex, sth, scalls, lost>>

LEMMA ArriveEffect ==
  ASSUME Types, Arrive
  PROVE  /\ Announces({Incoming(net.type)})
         /\ net'.conn = net.conn /\ net'.room = net.room /\ net'.closed = net.closed
         /\ net'.news = net.news
  <1> DEFINE i == net.in + 1
             l == net.left - 1
             n == [net EXCEPT !.in = i, !.left = l]
             e == Incoming(net.type)
  <1>0. i \in Nat /\ l \in Nat
    BY DEF Types, NetType, Arrive
  <1>3. net' = Announce(n, e)
    BY DEF Arrive
  <1> HIDE DEF i, l
  <1>1. n \in NetType /\ n.type = net.type /\ n.conn = net.conn /\ n.room = net.room
        /\ n.closed = net.closed /\ n.news = net.news
        /\ n.armed = net.armed /\ n.recorded = net.recorded
    BY <1>0 DEF Types, NetType
  <1>2. e \in Event
    BY DEF Incoming, Event
  <1> HIDE DEF n
  <1> QED BY <1>1, <1>2, <1>3, AnnounceEffect DEF Arrive, Announces

LEMMA DrainEffect ==
  ASSUME Types, SendBufferDrains
  PROVE  /\ Announces({"WRITE"})
         /\ net'.conn = net.conn /\ net'.in = net.in /\ net'.closed = net.closed
         /\ net'.news = net.news /\ net.conn = "up"
  <1> DEFINE n == [net EXCEPT !.room = @ + 1]
  <1>1. n \in NetType /\ n.type = net.type /\ n.conn = net.conn /\ n.in = net.in
        /\ n.closed = net.closed /\ n.news = net.news
        /\ n.armed = net.armed /\ n.recorded = net.recorded
    BY DEF Types, NetType
  <1>2. net' = Announce(n, "WRITE") /\ net.conn = "up" /\ "WRITE" \in Event
    BY DEF SendBufferDrains, Event
  <1> HIDE DEF n
  <1> QED BY <1>1, <1>2, AnnounceEffect DEF SendBufferDrains, Announces

LEMMA CloseEffect ==
  ASSUME Types, PeerCloses
  PROVE  /\ Announces({"CLOSE"})
         /\ net'.conn = net.conn /\ net'.in = net.in /\ net'.room = net.room
         /\ net'.news = net.news /\ net.conn = "up"
  <1> DEFINE n == [net EXCEPT !.closed = TRUE]
  <1>1. n \in NetType /\ n.type = net.type /\ n.conn = net.conn /\ n.in = net.in
        /\ n.room = net.room /\ n.news = net.news
        /\ n.armed = net.armed /\ n.recorded = net.recorded
    BY DEF Types, NetType
  <1>2. net' = Announce(n, "CLOSE") /\ net.conn = "up" /\ "CLOSE" \in Event
    BY DEF PeerCloses, Event
  <1> HIDE DEF n
  <1>3. /\ net' \in NetType /\ net'.type = n.type /\ net'.conn = n.conn /\ net'.in = n.in
        /\ net'.room = n.room /\ net'.news = n.news /\ net'.armed = n.armed \ {"CLOSE"}
        /\ net'.recorded = n.recorded \cup ({"CLOSE"} \cap n.armed)
    BY <1>1, <1>2, AnnounceEffect
  <1> QED BY <1>1, <1>2, <1>3 DEF PeerCloses, Announces

LEMMA AnswerEffect ==
  ASSUME Types, PeerAnswers
  PROVE  /\ \/ Announces({"CONNECT", "WRITE"}) /\ net'.conn = "up"
            \/ Announces({"CONNECT"}) /\ net'.conn = "refused"
         /\ net.conn = "trying" /\ net'.in = net.in /\ net'.closed = net.closed
         /\ net'.room = net.room /\ net'.news
  <1>1. ASSUME NEW a \in {"up", "refused"}
        PROVE  LET n == [net EXCEPT !.conn = a, !.news = TRUE]
                   m == Announce(n, "CONNECT")
               IN  /\ m \in NetType /\ m.type = net.type /\ m.conn = a /\ m.in = net.in
                   /\ m.room = net.room /\ m.closed = net.closed /\ m.news
                   /\ m.armed = net.armed \ {"CONNECT"}
                   /\ m.recorded = net.recorded \cup ({"CONNECT"} \cap net.armed)
    <2> DEFINE n == [net EXCEPT !.conn = a, !.news = TRUE]
    <2>1. n \in NetType /\ n.type = net.type /\ n.conn = a /\ n.in = net.in
          /\ n.room = net.room /\ n.closed = net.closed /\ n.news
          /\ n.armed = net.armed /\ n.recorded = net.recorded
      BY <1>1 DEF Types, NetType
    <2> HIDE DEF n
    <2> QED BY <2>1, AnnounceEffect DEF Event, n
  <1>2. CASE net' = Announce([net EXCEPT !.conn = "refused", !.news = TRUE], "CONNECT")
    <2>1. Announces({"CONNECT"})
      BY <1>1, <1>2 DEF PeerAnswers, Announces
    <2> QED BY <1>1, <1>2, <2>1 DEF PeerAnswers
  <1>3. CASE net' = Announce(Announce([net EXCEPT !.conn = "up", !.news = TRUE], "CONNECT"), "WRITE")
    <2> DEFINE m == Announce([net EXCEPT !.conn = "up", !.news = TRUE], "CONNECT")
    <2>1. /\ m \in NetType /\ m.type = net.type /\ m.conn = "up" /\ m.in = net.in
          /\ m.room = net.room /\ m.closed = net.closed /\ m.news
          /\ m.armed = net.armed \ {"CONNECT"}
          /\ m.recorded = net.recorded \cup ({"CONNECT"} \cap net.armed)
      BY <1>1
    <2>2. net' = Announce(m, "WRITE")
      BY <1>3
    <2> HIDE DEF m
    <2>3. /\ net' \in NetType /\ net'.type = net.type /\ net'.conn = "up" /\ net'.in = net.in
          /\ net'.room = net.room /\ net'.closed = net.closed /\ net'.news
          /\ net'.armed = m.armed \ {"WRITE"}
          /\ net'.recorded = m.recorded \cup ({"WRITE"} \cap m.armed)
      BY <2>1, <2>2, AnnounceEffect DEF Event
    <2>4. net'.armed = net.armed \ {"CONNECT", "WRITE"}
          /\ net'.recorded = net.recorded \cup ({"CONNECT", "WRITE"} \cap net.armed)
      BY <2>1, <2>3
    <2> QED BY <2>3, <2>4 DEF PeerAnswers, Announces
  <1> QED BY <1>2, <1>3 DEF PeerAnswers

-----------------------------------------------------------------------------
(* Where a call is, and the mutex.  A call whose steps hold the mutex has  *)
(* it; what a thread has collected it merges next; only the calls that     *)
(* test their event after the fact clear it then.                          *)
SocketCallOK(c) ==
  /\ c.op \in Op /\ c.at # "idle" => c.op \in CallsOf(net.type)
  /\ c.at \in {"call", "clear"} => c.op \in Op
  /\ c.at = "connect" => c.op = "connect"
  /\ c.at \in {"lock", "wait", "unlock"} => c.op # "poll"
  /\ c.at \in Active \cup {"lock"} => c.op # "none"
  /\ c.at \in {"idle", "dead"} => c.op \in {"none", "connect"}
  /\ c.e # {} => c.at = "or"
  /\ c.at = "clear" /\ ~ClearsFirst(c) => c.op # "recvfrom"
CallsOK == \A t \in Caller : SocketCallOK(sth[t])

Holds(c) == c.at \in Active /\ c.op # "poll"
Exclusion == \A t \in Caller : Holds(sth[t]) => smutex = t

Shape == Types /\ CallsOK /\ Exclusion

(* A step of one thread that keeps the rest of its shape keeps the shape.  *)
LEMMA ShapeGo ==
  ASSUME Shape, NEW t \in Caller, NEW from, NEW c \in CallType, SGo(t, from, c),
         net' \in NetType, net'.type = net.type, SocketCallOK(c),
         events' \subseteq Event, lost' \subseteq Event, connect_error' \in BOOLEAN, scalls' \in Nat,
         \/ smutex' = smutex /\ (Holds(c) => smutex = t)
         \/ smutex = "none" /\ smutex' = t
         \/ smutex = t /\ smutex' = "none" /\ ~Holds(c)
  PROVE  Shape'
  <1>1. sth' \in [Caller -> CallType] /\ sth'[t] = c /\ \A u \in Caller : u # t => sth'[u] = sth[u]
    BY GoEffect DEF Shape, Goes
  <1>2. smutex' \in Caller \cup {"none"}
    BY DEF Shape, Types
  <1>3. \A u \in Caller : SocketCallOK(sth'[u])
    BY <1>1 DEF Shape, CallsOK
  <1>4. CallsOK'
    BY <1>3 DEF CallsOK, SocketCallOK, CallsOf
  <1>5. Exclusion'
    <2> SUFFICES ASSUME NEW u \in Caller, Holds(sth'[u]) PROVE smutex' = u
      BY DEF Exclusion, Holds
    <2>1. CASE u = t
      BY <1>1, <2>1, SocketsAssumption
    <2>2. CASE u # t
      <3>1. smutex = u
        BY <1>1, <2>2 DEF Shape, Exclusion
      <3> QED BY <2>2, <3>1, SocketsAssumption
    <2> QED BY <2>1, <2>2
  <1> QED BY <1>1, <1>2, <1>4, <1>5 DEF Shape, Types

(* What a call that has its answer, or none, does to the network: it may   *)
(* arm an event, and then, if there is more, it announces it at once.      *)
Serves(t) ==
  /\ sth[t].at = "call" /\ sth[t].op \in Op /\ sth[t].e = {}
  /\ sth'[t].at \in {"unlock", "enumerate", "clear"} /\ sth'[t].e = {}
  /\ \A u \in Caller : u # t => sth'[u] = sth[u]
  /\ sth'[t].op = sth[t].op /\ sth'[t].peek = sth[t].peek
  /\ net'.type = net.type /\ net'.conn = net.conn /\ net'.news = net.news
  /\ net.armed \subseteq net'.armed \cup net'.recorded /\ net.recorded \subseteq net'.recorded
  /\ "CONNECT" \in net'.armed <=> "CONNECT" \in net.armed
  /\ "CONNECT" \in net'.recorded <=> "CONNECT" \in net.recorded
  /\ "WRITE" \in net.armed => "WRITE" \in net'.armed
  /\ ClearsFirst(sth[t]) \/ sth'[t].at = "clear" =>
       Cleared(sth[t].op) \in net'.armed \cup net'.recorded
  /\ UNCHANGED <<events, connect_error, smutex, scalls, lost>>

ArmedNotPresent == \A e \in Event : Present(e) => e \notin net.armed

(* A receiving call that arms its event again.                             *)
LEMMA RearmServes ==
  ASSUME Shape, ArmedNotPresent, NEW t \in Caller, NEW n \in NetType, NEW c \in CallType,
         sth[t].op \in Op \ Sending, SGo(t, "call", c), net' = Rearm(n),
         n.type = net.type, n.conn = net.conn, n.room = net.room, n.closed = net.closed,
         n.news = net.news, n.armed = net.armed, n.recorded = net.recorded,
         c.at \in {"unlock", "enumerate", "clear"}, c.e = {}, c.op = sth[t].op, c.peek = sth[t].peek,
         c.at = "clear" => c.op # "recvfrom",
         UNCHANGED <<events, connect_error, smutex, scalls, lost>>
  PROVE  Serves(t) /\ ArmedNotPresent' /\ Shape'
  <1> DEFINE e == Incoming(net.type)
  <1>1. sth[t].at = "call" /\ sth'[t] = c /\ \A u \in Caller : u # t => sth'[u] = sth[u]
    BY GoEffect DEF Shape, Goes
  <1>2. sth[t] \in CallType /\ SocketCallOK(sth[t]) /\ Holds(sth[t]) /\ smutex = t
    BY <1>1 DEF Shape, Types, CallsOK, Exclusion, Holds, Active, Op, Receiving, Sending
  <1>3. sth[t].op \in CallsOf(net.type) /\ net.type \in {"stream", "dgram", "listening"}
    BY <1>1, <1>2 DEF SocketCallOK, Op, Shape, Types, NetType
  <1>4. Cleared(sth[t].op) = e /\ e \in {"READ", "ACCEPT"}
    BY <1>3 DEF Cleared, Incoming, CallsOf, Op, Receiving, Sending
  <1>5. /\ net' \in NetType /\ net'.type = net.type /\ net'.conn = net.conn /\ net'.in = n.in
        /\ net'.room = net.room /\ net'.closed = net.closed /\ net'.news = net.news
        /\ n.in > 0 => net'.armed = net.armed \ {e} /\ net'.recorded = net.recorded \cup {e}
        /\ n.in = 0 => net'.armed = net.armed \cup {e} /\ net'.recorded = net.recorded
    BY RearmEffect
  <1>6. n.in = 0 \/ n.in > 0
    BY DEF NetType
  <1> HIDE DEF e
  <1>7. /\ net.armed \subseteq net'.armed \cup net'.recorded /\ net.recorded \subseteq net'.recorded
        /\ e \in net'.armed \cup net'.recorded
        /\ "CONNECT" \in net'.armed <=> "CONNECT" \in net.armed
        /\ "CONNECT" \in net'.recorded <=> "CONNECT" \in net.recorded
        /\ "WRITE" \in net.armed => "WRITE" \in net'.armed
    BY <1>4, <1>5, <1>6
  <1>8. sth[t].e = {}
    BY <1>1, <1>2 DEF SocketCallOK
  <1>9. Serves(t)
    BY <1>1, <1>4, <1>5, <1>7, <1>8 DEF Serves, Op, Sending
  <1>10. ArmedNotPresent'
    <2> SUFFICES ASSUME NEW x \in Event, Present(x)', x \in net'.armed PROVE FALSE
      BY DEF ArmedNotPresent
    <2>1. CASE x = e
      <3>1. n.in = 0
        BY <1>5, <1>6, <2>1
      <3> QED BY <1>4, <1>5, <2>1, <3>1 DEF Present
    <2>2. CASE x # e
      <3>1. x \in net.armed
        BY <1>5, <1>6, <2>2
      <3>2. x # "READ" \/ net.type = "listening"
        BY <2>2 DEF e, Incoming
      <3>3. x # "ACCEPT" \/ net.type # "listening"
        BY <2>2 DEF e, Incoming
      <3>4. Present(x)
        BY <1>5, <3>2, <3>3 DEF Present, Event
      <3> QED BY <3>1, <3>4 DEF ArmedNotPresent
    <2> QED BY <2>1, <2>2
  <1>11. SocketCallOK(c)
    <2>1. ClearsFirst(c) = ClearsFirst(sth[t])
      BY DEF ClearsFirst
    <2> QED BY <1>1, <1>2, <2>1 DEF SocketCallOK, Active, Op, Receiving, Sending
  <1>12. Shape'
    BY <1>2, <1>5, <1>11, ShapeGo DEF Shape, Types
  <1> QED BY <1>9, <1>10, <1>12

(* recvfrom, recvmsg, accept and their errors do so.                       *)
LEMMA ReceiveServes ==
  ASSUME Shape, ArmedNotPresent, NEW t \in Caller, Receive(t)
  PROVE  Serves(t) /\ ArmedNotPresent' /\ Shape' /\ (sth'[t].res = "ok" => sth'[t].op # "connect")
  <1>0. sth[t] \in CallType /\ net \in NetType /\ sth[t].op \in Op \ Sending /\ sth[t].op \in Receiving
        /\ UNCHANGED <<events, connect_error, smutex, scalls, lost>>
    BY DEF Receive, Shape, Types, Op, Receiving, Sending
  <1>1. CASE net.in > 0
    <2> DEFINE i == IF sth[t].peek THEN net.in ELSE net.in - 1
               n == [net EXCEPT !.in = i]
               c == [sth[t] EXCEPT !.at = "unlock", !.res = "ok"]
    <2>1. i \in Nat
      BY <1>0, <1>1 DEF NetType
    <2>2. net' = Rearm(n) /\ SGo(t, "call", c)
      BY <1>1 DEF Receive
    <2> HIDE DEF i
    <2>3. n \in NetType /\ n.type = net.type /\ n.conn = net.conn /\ n.room = net.room
          /\ n.closed = net.closed /\ n.news = net.news /\ n.armed = net.armed
          /\ n.recorded = net.recorded
      BY <1>0, <2>1 DEF NetType
    <2>4. "unlock" \in At /\ "ok" \in Res
      BY DEF At, Active, Res
    <2>5. c \in CallType
      BY <1>0, <2>4, CallRes
    <2>6. c.at = "unlock" /\ c.op = sth[t].op /\ c.peek = sth[t].peek /\ c.e = sth[t].e
      BY <1>0 DEF CallType
    <2>7. c.e = {}
      BY <2>2, <2>6, GoEffect DEF Shape, CallsOK, SocketCallOK
    <2>8. Goes(t, c)
      BY <2>2, GoEffect DEF Shape
    <2> HIDE DEF n, c
    <2>9. Serves(t) /\ ArmedNotPresent' /\ Shape'
      BY <1>0, <2>2, <2>3, <2>5, <2>6, <2>7, RearmServes
    <2> QED BY <1>0, <2>6, <2>8, <2>9 DEF Goes, Receiving
  <1>2. CASE ~(net.in > 0)
    <2> DEFINE a == IF net.closed THEN "unlock"
                    ELSE IF sth[t].op = "recvfrom" THEN "enumerate" ELSE "clear"
               c == [sth[t] EXCEPT !.at = a]
    <2>1. net' = Rearm(net) /\ SGo(t, "call", c)
      BY <1>2 DEF Receive
    <2>2. a \in At /\ a \in {"unlock", "enumerate", "clear"} /\ (a = "clear" => sth[t].op # "recvfrom")
      BY DEF At, Active
    <2> HIDE DEF a
    <2>3. c \in CallType
      BY <1>0, <2>2, CallAt
    <2>4. c.at = a /\ c.op = sth[t].op /\ c.peek = sth[t].peek /\ c.e = sth[t].e
      BY <1>0 DEF CallType
    <2>5. c.e = {}
      BY <2>1, <2>4, GoEffect DEF Shape, CallsOK, SocketCallOK
    <2>6. Goes(t, c)
      BY <2>1, GoEffect DEF Shape
    <2> HIDE DEF c
    <2>7. Serves(t) /\ ArmedNotPresent' /\ Shape'
      BY <1>0, <2>1, <2>2, <2>3, <2>4, <2>5, RearmServes
    <2> QED BY <1>0, <2>4, <2>6, <2>7 DEF Goes, Receiving
  <1> QED BY <1>1, <1>2

LEMMA FailureServes ==
  ASSUME Shape, ArmedNotPresent, NEW t \in Caller, ReceiveFails(t)
  PROVE  Serves(t) /\ ArmedNotPresent' /\ Shape' /\ (sth'[t].res = "ok" => sth'[t].op # "connect")
  <1>0. sth[t] \in CallType /\ net \in NetType /\ sth[t].op \in Op \ Sending /\ sth[t].op \in Receiving
        /\ UNCHANGED <<events, connect_error, smutex, scalls, lost>>
    BY DEF ReceiveFails, Shape, Types, Op, Receiving, Sending
  <1> DEFINE a == IF sth[t].op = "recvmsg" THEN "clear" ELSE "unlock"
             c == [sth[t] EXCEPT !.at = a, !.res = "error"]
  <1>1. net' = Rearm(net) /\ SGo(t, "call", c)
    BY DEF ReceiveFails
  <1>2. a \in At /\ a \in {"unlock", "clear"} /\ (a = "clear" => sth[t].op # "recvfrom")
        /\ "error" \in Res
    BY DEF At, Active, Res
  <1> HIDE DEF a
  <1>3. c \in CallType
    BY <1>0, <1>2, CallRes
  <1>4. c.at = a /\ c.op = sth[t].op /\ c.peek = sth[t].peek /\ c.e = sth[t].e
    BY <1>0 DEF CallType
  <1>5. c.e = {}
    BY <1>1, <1>4, GoEffect DEF Shape, CallsOK, SocketCallOK
  <1>6. Goes(t, c)
    BY <1>1, GoEffect DEF Shape
  <1> HIDE DEF c
  <1>7. Serves(t) /\ ArmedNotPresent' /\ Shape'
    BY <1>0, <1>1, <1>2, <1>3, <1>4, <1>5, RearmServes
  <1> QED BY <1>0, <1>4, <1>6, <1>7 DEF Goes, Receiving

LEMMA AcceptServes ==
  ASSUME Shape, ArmedNotPresent, NEW t \in Caller, Accept(t)
  PROVE  Serves(t) /\ ArmedNotPresent' /\ Shape' /\ (sth'[t].res = "ok" => sth'[t].op # "connect")
  <1>0. sth[t] \in CallType /\ net \in NetType /\ sth[t].op = "accept4" /\ sth[t].op \in Op \ Sending
        /\ UNCHANGED <<events, connect_error, smutex, scalls, lost>>
    BY DEF Accept, Shape, Types, Op, Receiving, Sending
  <1>1. ASSUME NEW i \in {net.in, net.in - 1}, i \in Nat, NEW a \in {"unlock", "clear"},
               NEW r \in Res, net' = Rearm([net EXCEPT !.in = i]),
               SGo(t, "call", [sth[t] EXCEPT !.at = a, !.res = r])
        PROVE  Serves(t) /\ ArmedNotPresent' /\ Shape' /\ (sth'[t].res = "ok" => sth'[t].op # "connect")
    <2> DEFINE n == [net EXCEPT !.in = i]
               c == [sth[t] EXCEPT !.at = a, !.res = r]
    <2>1. n \in NetType /\ n.type = net.type /\ n.conn = net.conn /\ n.room = net.room
          /\ n.closed = net.closed /\ n.news = net.news /\ n.armed = net.armed
          /\ n.recorded = net.recorded
      BY <1>0, <1>1 DEF NetType
    <2>2. a \in At
      BY DEF At, Active
    <2>3. c \in CallType
      BY <1>0, <1>1, <2>2, CallRes
    <2>4. c.at = a /\ c.op = sth[t].op /\ c.peek = sth[t].peek /\ c.e = sth[t].e
      BY <1>0 DEF CallType
    <2>5. net' = Rearm(n) /\ SGo(t, "call", c)
      BY <1>1
    <2>6. c.e = {}
      BY <2>4, <2>5, GoEffect DEF Shape, CallsOK, SocketCallOK
    <2>7. Goes(t, c)
      BY <2>5, GoEffect DEF Shape
    <2> HIDE DEF n, c
    <2>8. Serves(t) /\ ArmedNotPresent' /\ Shape'
      BY <1>0, <1>1, <2>1, <2>3, <2>4, <2>5, <2>6, RearmServes
    <2> QED BY <1>0, <2>4, <2>7, <2>8 DEF Goes
  <1>2. net.in \in Nat /\ net = [net EXCEPT !.in = net.in]
    BY <1>0 DEF NetType
  <1>3. sth[t] = [sth[t] EXCEPT !.res = sth[t].res] /\ sth[t].res \in Res
    BY <1>0 DEF CallType, Res
  <1>4. CASE /\ net.in > 0 /\ net' = Rearm([net EXCEPT !.in = @ - 1])
             /\ \E r \in {"ok", "error"} : SGo(t, "call", [sth[t] EXCEPT !.at = "unlock", !.res = r])
    <2>1. PICK r \in {"ok", "error"} : SGo(t, "call", [sth[t] EXCEPT !.at = "unlock", !.res = r])
      BY <1>4
    <2>2. net.in - 1 \in Nat /\ r \in Res
      BY <1>2, <1>4 DEF Res
    <2> QED BY <1>1, <1>4, <2>1, <2>2
  <1>5. CASE /\ net' = Rearm(net)
             /\ SGo(t, "call", [sth[t] EXCEPT !.at = "unlock", !.res = "error"])
    <2>1. "error" \in Res
      BY DEF Res
    <2> QED BY <1>1, <1>2, <1>5, <2>1
  <1>6. CASE net.in = 0 /\ net' = Rearm(net) /\ SGo(t, "call", [sth[t] EXCEPT !.at = "clear"])
    <2>1. [sth[t] EXCEPT !.at = "clear"] = [sth[t] EXCEPT !.at = "clear", !.res = sth[t].res]
      BY <1>0 DEF CallType
    <2> QED BY <1>1, <1>2, <1>3, <1>6, <2>1
  <1> QED BY <1>4, <1>5, <1>6 DEF Accept

(* sendto and sendmsg.                                                     *)
LEMMA SendServes ==
  ASSUME Shape, ArmedNotPresent, NEW t \in Caller, Send(t)
  PROVE  Serves(t) /\ ArmedNotPresent' /\ Shape' /\ (sth'[t].res = "ok" => sth'[t].op # "connect")
  <1>0. sth[t] \in CallType /\ net \in NetType /\ sth[t].op \in Sending /\ sth[t].op \in Op
        /\ UNCHANGED <<events, connect_error, smutex, scalls, lost>> /\ ~ClearsFirst(sth[t])
        /\ Cleared(sth[t].op) = "WRITE"
    BY DEF Send, Shape, Types, Op, Receiving, Sending, ClearsFirst, Cleared
  <1>1. PICK a \in {"unlock", "clear"}, r \in Res :
          SGo(t, "call", [sth[t] EXCEPT !.at = a, !.res = r])
          /\ (a = "clear" => net' = [net EXCEPT !.armed = @ \cup {"WRITE"}] /\ net.room = 0)
          /\ (a = "unlock" => net' = [net EXCEPT !.room = @ - 1] /\ net.room > 0)
    <2>1. CASE net.room > 0
      <3>1. "ok" \in Res
        BY DEF Res
      <3> QED BY <2>1, <3>1 DEF Send
    <2>2. CASE ~(net.room > 0)
      <3>1. [sth[t] EXCEPT !.at = "clear"] = [sth[t] EXCEPT !.at = "clear", !.res = sth[t].res]
            /\ sth[t].res \in Res
        BY <1>0 DEF CallType, Res
      <3>2. net.room = 0
        BY <1>0, <2>2 DEF NetType
      <3> QED BY <2>2, <3>1, <3>2 DEF Send
    <2> QED BY <2>1, <2>2
  <1> DEFINE c == [sth[t] EXCEPT !.at = a, !.res = r]
  <1>2. a \in At
    BY DEF At, Active
  <1>3. c \in CallType
    BY <1>0, <1>2, CallRes
  <1>4. c.at = a /\ c.op = sth[t].op /\ c.peek = sth[t].peek /\ c.e = sth[t].e
    BY <1>0 DEF CallType
  <1>5. SGo(t, "call", c)
    BY <1>1
  <1> HIDE DEF c
  <1>6. sth[t].at = "call" /\ sth'[t] = c /\ \A u \in Caller : u # t => sth'[u] = sth[u]
    BY <1>5, GoEffect DEF Shape, Goes
  <1>7. SocketCallOK(sth[t]) /\ Holds(sth[t]) /\ smutex = t
    BY <1>0, <1>6 DEF Shape, Types, CallsOK, Exclusion, Holds, Active, Op, Receiving, Sending
  <1>8. c.e = {}
    BY <1>4, <1>6, <1>7 DEF SocketCallOK
  <1>9. net' \in NetType /\ net'.type = net.type /\ net'.conn = net.conn /\ net'.in = net.in
        /\ net'.closed = net.closed /\ net'.news = net.news /\ net'.recorded = net.recorded
        /\ net'.armed = net.armed \cup (IF a = "clear" THEN {"WRITE"} ELSE {})
        /\ net'.room \in Nat /\ (a = "clear" => net'.room = 0) /\ (net'.room > 0 => net.room > 0)
    <2>1. CASE a = "clear"
      BY <1>0, <1>1, <2>1 DEF NetType, Event
    <2>2. CASE a = "unlock"
      <3>1. net.room - 1 \in Nat
        BY <1>0, <1>1, <2>2 DEF NetType
      <3> QED BY <1>0, <1>1, <2>2, <3>1 DEF NetType
    <2> QED BY <2>1, <2>2
  <1>10. Serves(t)
    BY <1>0, <1>4, <1>6, <1>7, <1>8, <1>9 DEF Serves, SocketCallOK
  <1>11. ArmedNotPresent'
    <2> SUFFICES ASSUME NEW x \in Event, Present(x)', x \in net'.armed PROVE FALSE
      BY DEF ArmedNotPresent
    <2>1. CASE x = "WRITE" /\ a = "clear"
      BY <1>9, <2>1 DEF Present
    <2>2. CASE x # "WRITE" \/ a # "clear"
      <3>1. x \in net.armed
        BY <1>9, <2>2
      <3>2. Present(x)
        BY <1>9 DEF Present, Event
      <3> QED BY <3>1, <3>2 DEF ArmedNotPresent
    <2> QED BY <2>1, <2>2
  <1>12. SocketCallOK(c)
    <2>1. ClearsFirst(c) = ClearsFirst(sth[t])
      BY <1>4 DEF ClearsFirst
    <2> QED BY <1>0, <1>4, <1>6, <1>7, <1>8, <2>1 DEF SocketCallOK, Active, Op, Receiving, Sending
  <1>13. Shape'
    BY <1>0, <1>3, <1>5, <1>7, <1>9, <1>12, ShapeGo DEF Shape, Types
  <1> QED BY <1>0, <1>4, <1>6, <1>10, <1>11, <1>13 DEF Sending

-----------------------------------------------------------------------------
(* The steps of a thread that touch no event.                              *)
Calm(t) ==
  /\ \A u \in Caller : u # t => sth'[u] = sth[u]
  /\ sth[t].e = {} /\ sth'[t].e = {}
  /\ ~(sth[t].at = "call") /\ sth'[t].at \notin {"or", "wait", "clear", "call"}
  /\ sth'[t].op = "connect" /\ sth'[t].res = "ok" => sth[t].op = "connect" /\ sth[t].res = "ok"
  /\ net'.type = net.type /\ net'.news = net.news
  /\ net'.armed = net.armed /\ net'.recorded = net.recorded
  /\ net'.conn = net.conn \/ (net.conn = "new" /\ net'.conn = "trying")
  /\ UNCHANGED <<events, connect_error, lost>>

LEMMA CalmGo ==
  ASSUME Shape, ArmedNotPresent, NEW t \in Caller, NEW from, NEW c \in CallType, SGo(t, from, c),
         from # "call", from # "or", c.at \notin {"or", "wait", "clear", "call"}, c.e = {}, SocketCallOK(c),
         c.op = "connect" /\ c.res = "ok" => sth[t].op = "connect" /\ sth[t].res = "ok",
         \/ smutex' = smutex /\ (Holds(c) => smutex = t)
         \/ smutex = "none" /\ smutex' = t
         \/ smutex = t /\ smutex' = "none" /\ ~Holds(c),
         net' = net, scalls' \in Nat, UNCHANGED <<events, connect_error, lost>>
  PROVE  Calm(t) /\ ArmedNotPresent' /\ Shape'
  <1>1. sth[t].at = from /\ sth'[t] = c /\ \A u \in Caller : u # t => sth'[u] = sth[u]
    BY GoEffect DEF Shape, Goes
  <1>2. sth[t].e = {}
    BY <1>1 DEF Shape, CallsOK, SocketCallOK
  <1>3. Calm(t)
    BY <1>1, <1>2 DEF Calm
  <1>4. ArmedNotPresent'
    BY DEF ArmedNotPresent, Present
  <1>5. Shape'
    BY ShapeGo DEF Shape, Types
  <1> QED BY <1>3, <1>4, <1>5

LEMMA BeginCalm ==
  ASSUME Shape, ArmedNotPresent, NEW t \in Caller, NEW op \in Op \cup {"connect", "poll"},
         NEW peek \in BOOLEAN, NEW block \in BOOLEAN, BeginSocketCall(t, op, peek, block)
  PROVE  Calm(t) /\ ArmedNotPresent' /\ Shape'
  <1> DEFINE a == IF op = "poll" THEN "enumerate" ELSE "lock"
             c == [NoSocketCall EXCEPT !.at = a, !.op = op, !.peek = peek, !.block = block]
  <1>1. SGo(t, "idle", c) /\ scalls' \in Nat /\ UNCHANGED <<net, events, connect_error, smutex, lost>>
    BY DEF BeginSocketCall, Shape, Types
  <1>2. op \in Op => op \in CallsOf(net.type)
    BY DEF BeginSocketCall, Op, Receiving, Sending
  <1>3. a \in {"enumerate", "lock"} /\ (a = "lock" => op # "poll") /\ (a = "enumerate" => op = "poll")
    OBVIOUS
  <1> HIDE DEF a
  <1>4. c \in CallType /\ c.at = a /\ c.op = op /\ c.e = {} /\ c.res = "none"
    BY <1>3, NoCallType DEF CallType, Active
  <1> HIDE DEF c
  <1>5. SocketCallOK(c) /\ ~Holds(c)
    BY <1>2, <1>3, <1>4 DEF SocketCallOK, Holds, Active, Op, Receiving, Sending
  <1> QED BY <1>1, <1>3, <1>4, <1>5, CalmGo

LEMMA LockCalm ==
  ASSUME Shape, ArmedNotPresent, NEW t \in Caller, LockSocket(t)
  PROVE  Calm(t) /\ ArmedNotPresent' /\ Shape'
  <1> DEFINE a == IF sth[t].op = "connect" THEN "connect" ELSE "enumerate"
             c == [sth[t] EXCEPT !.at = a]
  <1>1. SGo(t, "lock", c) /\ smutex = "none" /\ smutex' = t
        /\ UNCHANGED <<net, events, connect_error, scalls, lost>>
    BY DEF LockSocket
  <1>2. a \in {"connect", "enumerate"} /\ a \in At /\ (a = "connect" => sth[t].op = "connect")
    BY DEF At, Active
  <1>3. sth[t] \in CallType /\ SocketCallOK(sth[t]) /\ sth[t].at = "lock" /\ scalls \in Nat
    BY <1>1, GoEffect DEF Shape, Types, CallsOK
  <1> HIDE DEF a
  <1>4. c \in CallType /\ c.at = a /\ c.op = sth[t].op /\ c.e = sth[t].e /\ c.res = sth[t].res
    BY <1>2, <1>3, CallAt DEF CallType
  <1> HIDE DEF c
  <1>5. SocketCallOK(c) /\ c.e = {}
    BY <1>2, <1>3, <1>4 DEF SocketCallOK, Active
  <1> QED BY <1>1, <1>2, <1>3, <1>4, <1>5, CalmGo

LEMMA WakeCalm ==
  ASSUME Shape, ArmedNotPresent, NEW t \in Caller, Woken(t) \/ Interrupted(t)
  PROVE  Calm(t) /\ ArmedNotPresent' /\ Shape'
  <1>1. PICK a \in {"enumerate", "unlock"}, r \in Res :
          /\ SGo(t, "wait", [sth[t] EXCEPT !.at = a, !.res = r])
          /\ r = sth[t].res \/ r # "ok"
    <2>1. CASE Woken(t)
      <3>1. sth[t].res \in Res /\ [sth[t] EXCEPT !.at = "enumerate"]
                                = [sth[t] EXCEPT !.at = "enumerate", !.res = sth[t].res]
        BY DEF Shape, Types, CallType, Res
      <3> QED BY <2>1, <3>1 DEF Woken
    <2>2. CASE Interrupted(t)
      BY <2>2 DEF Interrupted, Res
    <2> QED BY <2>1, <2>2
  <1>2. UNCHANGED <<net, events, connect_error, smutex, scalls, lost>>
    BY DEF Woken, Interrupted
  <1> DEFINE c == [sth[t] EXCEPT !.at = a, !.res = r]
  <1>3. sth[t] \in CallType /\ SocketCallOK(sth[t]) /\ sth[t].at = "wait" /\ scalls \in Nat /\ a \in At
    BY <1>1, GoEffect DEF Shape, Types, CallsOK, At, Active
  <1>4. smutex = t
    BY <1>3 DEF SocketCallOK, Shape, Exclusion, Holds, Active
  <1>5. c \in CallType /\ c.at = a /\ c.op = sth[t].op /\ c.e = sth[t].e /\ c.res = r
    BY <1>3, CallRes DEF CallType
  <1>6. SGo(t, "wait", c)
    BY <1>1
  <1> HIDE DEF c
  <1>7. SocketCallOK(c) /\ c.e = {}
    BY <1>3, <1>5 DEF SocketCallOK, Active
  <1> QED BY <1>1, <1>2, <1>3, <1>4, <1>5, <1>6, <1>7, CalmGo

LEMMA UnlockCalm ==
  ASSUME Shape, ArmedNotPresent, NEW t \in Caller, UnlockSocket(t)
  PROVE  Calm(t) /\ ArmedNotPresent' /\ Shape'
  <1> DEFINE c == IF sth[t].op = "connect" THEN [NoSocketCall EXCEPT !.op = "connect", !.res = sth[t].res]
                  ELSE NoSocketCall
  <1>1. SGo(t, "unlock", c) /\ smutex' = "none" /\ UNCHANGED <<net, events, connect_error, scalls, lost>>
    BY DEF UnlockSocket
  <1>2. sth[t] \in CallType /\ SocketCallOK(sth[t]) /\ sth[t].at = "unlock" /\ scalls \in Nat
    BY <1>1, GoEffect DEF Shape, Types, CallsOK
  <1>3. smutex = t
    BY <1>2 DEF SocketCallOK, Shape, Exclusion, Holds, Active
  <1>4. c \in CallType /\ c.at = "idle" /\ c.e = {} /\ c.op \in {"none", "connect"}
        /\ (c.op = "connect" => sth[t].op = "connect" /\ c.res = sth[t].res)
    <2>1. CASE sth[t].op = "connect"
      BY <1>2, <2>1, NoCallType DEF CallType
    <2>2. CASE sth[t].op # "connect"
      BY <2>2, NoCallType
    <2> QED BY <2>1, <2>2
  <1> HIDE DEF c
  <1>5. SocketCallOK(c) /\ ~Holds(c)
    BY <1>4 DEF SocketCallOK, Holds, Active, Op, Receiving, Sending
  <1> QED BY <1>1, <1>2, <1>3, <1>4, <1>5, CalmGo

LEMMA ConnectCalm ==
  ASSUME Shape, ArmedNotPresent, NEW t \in Caller, Connect(t)
  PROVE  Calm(t) /\ ArmedNotPresent' /\ Shape'
  <1>1. PICK a \in {"enumerate", "unlock"}, r \in Res :
          /\ SGo(t, "connect", [sth[t] EXCEPT !.at = a, !.res = r])
          /\ r = sth[t].res \/ r # "ok"
          /\ net' = net \/ (net.conn = "new" /\ net' = [net EXCEPT !.conn = "trying"])
    <2>1. sth[t].res \in Res /\ [sth[t] EXCEPT !.at = "enumerate"]
                              = [sth[t] EXCEPT !.at = "enumerate", !.res = sth[t].res]
      BY DEF Shape, Types, CallType, Res
    <2>2. "EINPROGRESS" \in Res /\ "error" \in Res
      BY DEF Res
    <2>3. CASE SGo(t, "connect", [sth[t] EXCEPT !.at = "unlock", !.res = "error"]) /\ UNCHANGED net
      BY <2>2, <2>3
    <2>4. CASE /\ net.conn = "new" /\ net' = [net EXCEPT !.conn = "trying"]
               /\ SGo(t, "connect", IF sth[t].block THEN [sth[t] EXCEPT !.at = "enumerate"]
                                    ELSE [sth[t] EXCEPT !.at = "unlock", !.res = "EINPROGRESS"])
      <3>1. CASE sth[t].block
        BY <2>1, <2>4, <3>1
      <3>2. CASE ~sth[t].block
        BY <2>2, <2>4, <3>2
      <3> QED BY <3>1, <3>2
    <2> QED BY <2>3, <2>4 DEF Connect
  <1>2. UNCHANGED <<events, connect_error, smutex, scalls, lost>>
    BY DEF Connect
  <1> DEFINE c == [sth[t] EXCEPT !.at = a, !.res = r]
  <1>3. sth[t] \in CallType /\ SocketCallOK(sth[t]) /\ sth[t].at = "connect" /\ scalls \in Nat /\ a \in At
    BY <1>1, GoEffect DEF Shape, Types, CallsOK, At, Active
  <1>4. smutex = t
    BY <1>3 DEF SocketCallOK, Shape, Exclusion, Holds, Active
  <1>5. c \in CallType /\ c.at = a /\ c.op = sth[t].op /\ c.e = sth[t].e /\ c.res = r
    BY <1>3, CallRes DEF CallType
  <1>6. SGo(t, "connect", c)
    BY <1>1
  <1> HIDE DEF c
  <1>7. SocketCallOK(c) /\ c.e = {}
    BY <1>3, <1>5 DEF SocketCallOK, Active
  <1>8. net' \in NetType /\ net'.type = net.type /\ net'.news = net.news /\ net'.in = net.in
        /\ net'.closed = net.closed /\ net'.room = net.room
        /\ net'.armed = net.armed /\ net'.recorded = net.recorded
        /\ (net'.conn = net.conn \/ (net.conn = "new" /\ net'.conn = "trying"))
    BY <1>1 DEF Shape, Types, NetType
  <1>9. Calm(t)
    <2>1. sth[t].at = "connect" /\ sth'[t] = c /\ \A u \in Caller : u # t => sth'[u] = sth[u]
      BY <1>6, GoEffect DEF Shape, Goes
    <2> QED BY <1>1, <1>2, <1>5, <1>7, <1>8, <2>1 DEF Calm
  <1>10. ArmedNotPresent'
    <2>1. \A x \in Event : Present(x)' => Present(x)
      BY <1>8 DEF Present, Event
    <2> QED BY <1>8, <2>1 DEF ArmedNotPresent
  <1>11. Shape'
    BY <1>2, <1>3, <1>4, <1>5, <1>6, <1>7, <1>8, ShapeGo DEF Shape, Types
  <1> QED BY <1>9, <1>10, <1>11

-----------------------------------------------------------------------------
(* Where readiness is.  An event that is not armed is in the word, on its  *)
(* way to it, or known to be lost: recorded by Winsock, in the hands of a  *)
(* thread, or taken out by a call that is about to receive.  Only WRITE of *)
(* a listening socket, and CONNECT once it was reported, are nowhere.      *)
Taken(e) == e = "READ" /\ \E t \in Caller : sth[t].at = "call" /\ ClearsFirst(sth[t])
InFlight(e) == e \in net.recorded \cup lost \/ (\E t \in Caller : e \in sth[t].e) \/ Taken(e)
Dull(e) == (e = "WRITE" /\ net.type = "listening") \/ (e = "CONNECT" /\ ~net.news)
Kept == \A e \in Event : e \in net.armed \cup events \/ InFlight(e) \/ Dull(e)

(* A call that will clear its event has armed it, or what was announced    *)
(* since is not in the word yet, or it will count as lost.                 *)
Clearing(c, e) == c.at = "clear" /\ ~ClearsFirst(c) /\ e = Cleared(c.op)
ClearSafe ==
  \A t \in Caller, e \in Event :
    Clearing(sth[t], e) => e \in net.armed \/ InFlight(e) \/ sth[t].seen

(* A thread that sleeps, or may soon, knows who has collected in between;  *)
(* and what it waits for is armed or recorded, if it was not robbed.       *)
RobberKnown ==
  \A t, u \in Caller :
    t # u /\ sth[t].at \in {"or", "wait"} /\ sth[u].e # {} => sth[t].robbed
SleepSafe ==
  \A t \in Caller : sth[t].at = "wait" => \A e \in Wanted(sth[t].op) :
    e \in net.armed \cup lost \/ net.recorded # {} \/ sth[t].robbed \/ Dull(e)

(* The answer to a connect is announced once and is in one place; while it *)
(* is on its way connect_error says which answer it is.                    *)
Connected == "CONNECT" \in events \/ \E t \in Caller : "CONNECT" \in sth[t].e
ConnectOnce ==
  /\ net.conn \in {"new", "trying"} => {"CONNECT", "WRITE"} \subseteq net.armed /\ ~net.news
  /\ "CONNECT" \in net.armed => "CONNECT" \notin net.recorded /\ ~Connected
  /\ "CONNECT" \in net.recorded => ~Connected
  /\ "CONNECT" \in events => \A t \in Caller : "CONNECT" \notin sth[t].e
  /\ \A t, u \in Caller : "CONNECT" \in sth[t].e \cap sth[u].e => t = u
  /\ "CONNECT" \in net.recorded \/ Connected => net.conn \in {"up", "refused"}
  /\ Connected /\ net.conn = "refused" => connect_error

SocketsReady ==
  /\ ArmedNotPresent /\ Kept /\ ClearSafe /\ RobberKnown /\ SleepSafe /\ ConnectOnce
  /\ ConnectTruthful

LEMMA WantedEvents == \A op : Wanted(op) \subseteq Event
  BY DEF Wanted, Event

(* They suffice.                                                           *)
LEMMA ReadyExact == Shape /\ SocketsReady => SocketsExact
  <1> SUFFICES ASSUME Shape, SocketsReady PROVE SocketsExact
    OBVIOUS
  <1>1. ReadinessKept
    <2> SUFFICES ASSUME NEW e \in Event, Present(e), e \notin lost
                 PROVE  \/ e \in events \cup net.recorded
                        \/ \E t \in Caller : e \in sth[t].e
                        \/ \E t \in Caller : e = "READ" /\ sth[t].at = "call" /\ ClearsFirst(sth[t])
      BY DEF ReadinessKept, Event
    <2>1. e \notin net.armed
      BY DEF SocketsReady, ArmedNotPresent
    <2>2. ~Dull(e)
      BY DEF Dull, Present
    <2>3. e \in events \/ InFlight(e)
      BY <2>1, <2>2 DEF SocketsReady, Kept
    <2> QED BY <2>3 DEF InFlight, Taken
  <1>2. SleepersWoken
    <2> SUFFICES ASSUME NEW t \in Caller, sth[t].at = "wait", NEW e \in Wanted(sth[t].op),
                        Present(e), e \notin lost
                 PROVE  net.recorded # {} \/ sth[t].robbed
      BY DEF SleepersWoken
    <2>1. e \notin net.armed
      BY WantedEvents DEF SocketsReady, ArmedNotPresent
    <2>2. ~Dull(e)
      BY DEF Dull, Present
    <2> QED BY <2>1, <2>2 DEF SocketsReady, SleepSafe
  <1> QED BY <1>1, <1>2 DEF SocketsExact, SocketsReady

LEMMA ReadyInit == SocketsInit => Shape /\ SocketsReady
  <1> SUFFICES ASSUME SocketsInit PROVE Shape /\ SocketsReady
    OBVIOUS
  <1>1. /\ \A t \in Caller : sth[t] = NoSocketCall
        /\ events = {} /\ lost = {} /\ smutex = "none"
    BY DEF SocketsInit
  <1>2. Types
    BY TypeInit
  <1>3. \A t \in Caller : SocketCallOK(sth[t]) /\ ~Holds(sth[t])
    BY <1>1, NoCallType DEF SocketCallOK, Holds, Active, Op, Receiving, Sending
  <1>4. Shape
    BY <1>2, <1>3 DEF Shape, CallsOK, Exclusion
  <1>5. PICK type \in {"stream", "dgram", "listening"}, k \in {"new", "up"} :
          /\ k = "new" => type = "stream"
          /\ net = [type |-> type, conn |-> k, in |-> 0, room |-> SendRoom, closed |-> FALSE,
                    news |-> FALSE, left |-> Arrivals,
                    recorded |-> IF k = "up" /\ type # "listening" THEN {"WRITE"} ELSE {},
                    armed |-> {"READ", "ACCEPT", "CLOSE", "CONNECT"}
                                \cup IF k = "new" THEN {"WRITE"} ELSE {}]
    BY DEF SocketsInit
  <1>6. /\ net.type = type /\ net.conn = k /\ net.in = 0 /\ ~net.closed /\ ~net.news
        /\ net.recorded = IF k = "up" /\ type # "listening" THEN {"WRITE"} ELSE {}
        /\ net.armed = {"READ", "ACCEPT", "CLOSE", "CONNECT"} \cup IF k = "new" THEN {"WRITE"} ELSE {}
    BY <1>5
  <1>7. ArmedNotPresent
    <2> SUFFICES ASSUME NEW x \in Event, Present(x), x \in net.armed PROVE FALSE
      BY DEF ArmedNotPresent
    <2>1. x \notin {"READ", "ACCEPT", "CLOSE", "CONNECT"}
      <3>1. x \in {"READ", "ACCEPT"} => net.in > 0
        BY DEF Present
      <3>2. ~(net.in > 0)
        BY <1>6
      <3>3. x = "CLOSE" => net.closed
        BY DEF Present
      <3>4. x = "CONNECT" => net.news
        BY DEF Present
      <3> QED BY <1>6, <3>1, <3>2, <3>3, <3>4
    <2>2. x = "WRITE" /\ k = "new"
      BY <1>6, <2>1 DEF Event
    <2> QED BY <1>6, <2>2 DEF Present
  <1>8. Kept
    BY <1>5, <1>6 DEF Kept, Event, InFlight, Dull
  <1>9. ClearSafe /\ RobberKnown /\ SleepSafe /\ ConnectTruthful
    BY <1>1, NoCallType DEF ClearSafe, Clearing, RobberKnown, SleepSafe, ConnectTruthful
  <1>10. ~Connected
    BY <1>1, NoCallType DEF Connected
  <1>11. ConnectOnce
    BY <1>1, <1>5, <1>6, <1>10, NoCallType DEF ConnectOnce
  <1> QED BY <1>4, <1>7, <1>8, <1>9, <1>11 DEF SocketsReady

(* Calm steps.                                                             *)
LEMMA SocketCalmStep ==
  ASSUME Shape, SocketsReady, NEW t \in Caller, Calm(t), ArmedNotPresent'
  PROVE  SocketsReady'
  <1>1. \A u \in Caller : /\ sth'[u].e = sth[u].e
                          /\ u # t => sth'[u] = sth[u]
    BY DEF Calm
  <1>2. /\ net'.armed = net.armed /\ net'.recorded = net.recorded /\ net'.type = net.type
        /\ net'.news = net.news /\ events' = events /\ lost' = lost /\ connect_error' = connect_error
        /\ sth[t].at # "call" /\ sth'[t].at \notin {"or", "wait", "clear", "call"}
    BY DEF Calm
  <1>3. \A e : Taken(e) => Taken(e)'
    BY <1>1, <1>2 DEF Taken, ClearsFirst
  <1>4. \A e : InFlight(e) => InFlight(e)'
    BY <1>1, <1>2, <1>3 DEF InFlight
  <1>5. \A e : Dull(e) => Dull(e)'
    BY <1>2 DEF Dull
  <1>6. Kept'
    BY <1>2, <1>4, <1>5 DEF SocketsReady, Kept
  <1>7. ClearSafe'
    <2> SUFFICES ASSUME NEW u \in Caller, NEW e \in Event, Clearing(sth'[u], e)
                 PROVE  e \in net'.armed \/ InFlight(e)' \/ sth'[u].seen
      BY DEF ClearSafe
    <2>1. u # t /\ sth'[u] = sth[u]
      BY <1>1, <1>2 DEF Clearing
    <2>2. e \in net.armed \/ InFlight(e) \/ sth[u].seen
      BY <2>1 DEF SocketsReady, ClearSafe
    <2> QED BY <1>2, <1>4, <2>1, <2>2
  <1>8. RobberKnown'
    BY <1>1, <1>2 DEF SocketsReady, RobberKnown
  <1>9. SleepSafe'
    <2> SUFFICES ASSUME NEW u \in Caller, sth'[u].at = "wait", NEW e \in Wanted(sth'[u].op)
                 PROVE  e \in net'.armed \cup lost' \/ net'.recorded # {} \/ sth'[u].robbed \/ Dull(e)'
      <3> HIDE DEF Wanted
      <3> QED BY DEF SleepSafe
    <2>1. u # t /\ sth'[u] = sth[u]
      BY <1>1, <1>2
    <2> QED BY <1>2, <1>5, <2>1 DEF SocketsReady, SleepSafe
  <1>10. Connected' = Connected
    BY <1>1, <1>2 DEF Connected
  <1>11. ConnectOnce'
    BY <1>1, <1>2, <1>10 DEF Calm, SocketsReady, ConnectOnce
  <1>12. ConnectTruthful'
    BY <1>1 DEF Calm, SocketsReady, ConnectTruthful
  <1> QED BY <1>6, <1>7, <1>8, <1>9, <1>11, <1>12 DEF SocketsReady

(* What the network announces was armed, and is recorded then.             *)
LEMMA AnnouncesStep ==
  ASSUME Shape, SocketsReady, NEW S, Announces(S), ArmedNotPresent', ConnectTruthful', ConnectOnce',
         net'.news => net.news \/ "CONNECT" \in net'.recorded
  PROVE  SocketsReady'
  <1>1. /\ net'.armed = net.armed \ S /\ net'.recorded = net.recorded \cup (S \cap net.armed)
        /\ net'.type = net.type /\ sth' = sth /\ events' = events /\ lost' = lost
    BY DEF Announces
  <1>2. \A e : Taken(e) => Taken(e)'
    BY <1>1 DEF Taken
  <1>3. \A e : InFlight(e) => InFlight(e)'
    BY <1>1, <1>2 DEF InFlight
  <1>4. \A e : e \in net.armed => e \in net'.armed \/ e \in net'.recorded
    BY <1>1
  <1>5. \A e : e \in net'.recorded => InFlight(e)'
    BY DEF InFlight
  <1>6. \A e : Dull(e) => Dull(e)' \/ e \in net'.recorded
    BY <1>1 DEF Dull
  <1>7. Kept'
    BY <1>1, <1>3, <1>4, <1>5, <1>6 DEF SocketsReady, Kept
  <1>8. ClearSafe'
    <2> SUFFICES ASSUME NEW u \in Caller, NEW e \in Event, Clearing(sth[u], e)
                 PROVE  e \in net'.armed \/ InFlight(e)' \/ sth[u].seen
      BY <1>1 DEF ClearSafe
    <2>1. e \in net.armed \/ InFlight(e) \/ sth[u].seen
      BY DEF SocketsReady, ClearSafe
    <2> QED BY <1>3, <1>4, <1>5, <2>1
  <1>9. RobberKnown'
    BY <1>1 DEF SocketsReady, RobberKnown
  <1>10. SleepSafe'
    <2> SUFFICES ASSUME NEW u \in Caller, sth[u].at = "wait", NEW e \in Wanted(sth[u].op)
                 PROVE  e \in net'.armed \cup lost \/ net'.recorded # {} \/ sth[u].robbed \/ Dull(e)'
      <3> HIDE DEF Wanted
      <3> QED BY <1>1 DEF SleepSafe
    <2>1. e \in net.armed \cup lost \/ net.recorded # {} \/ sth[u].robbed \/ Dull(e)
      BY DEF SocketsReady, SleepSafe
    <2> QED BY <1>1, <1>4, <1>6, <2>1
  <1> QED BY <1>7, <1>8, <1>9, <1>10 DEF SocketsReady

LEMMA AnnouncesShape ==
  ASSUME Shape, NEW S, Announces(S)
  PROVE  Shape' /\ Connected' = Connected
  BY DEF Announces, Shape, Types, CallsOK, SocketCallOK, CallsOf, Exclusion, Holds, ClearsFirst, Connected

(* News of anything but a connect.                                         *)
LEMMA NewsStep ==
  ASSUME Shape, SocketsReady, NEW S \in SUBSET Event, Announces(S), "CONNECT" \notin S,
         net'.conn = net.conn, net'.news = net.news, "WRITE" \in S => net.conn = "up",
         \A x \in Event : Present(x)' => x \in S \/ Present(x)
  PROVE  Shape' /\ SocketsReady'
  <1>1. Shape' /\ Connected' = Connected
    BY AnnouncesShape
  <1>2. /\ UNCHANGED <<events, connect_error, smutex, sth, scalls, lost>>
        /\ net'.armed = net.armed \ S /\ net'.recorded = net.recorded \cup (S \cap net.armed)
    BY DEF Announces
  <1>3. ArmedNotPresent'
    BY <1>2 DEF SocketsReady, ArmedNotPresent
  <1>4. ConnectTruthful'
    BY <1>2 DEF SocketsReady, ConnectTruthful
  <1>5. ConnectOnce'
    BY <1>1, <1>2 DEF SocketsReady, ConnectOnce
  <1> QED BY <1>1, <1>3, <1>4, <1>5, AnnouncesStep

LEMMA ArriveStep ==
  ASSUME Shape, SocketsReady, Arrive
  PROVE  Shape' /\ SocketsReady'
  <1> DEFINE e == Incoming(net.type)
  <1>1. Announces({e}) /\ net'.conn = net.conn /\ net'.room = net.room /\ net'.closed = net.closed
        /\ net'.news = net.news
    BY ArriveEffect DEF Shape
  <1>2. e \in {"READ", "ACCEPT"} /\ {e} \in SUBSET Event /\ net'.type = net.type
    BY <1>1 DEF Incoming, Event, Announces
  <1>3. ASSUME NEW x \in Event, Present(x)', x # e PROVE Present(x)
    <2>1. x \notin {"READ", "ACCEPT"}
      BY <1>2, <1>3 DEF Present, Incoming
    <2> QED BY <1>1, <1>2, <1>3, <2>1 DEF Present, Event
  <1> HIDE DEF e
  <1>4. \A x \in Event : Present(x)' => x \in {e} \/ Present(x)
    BY <1>3
  <1> QED BY <1>1, <1>2, <1>4, NewsStep

LEMMA DrainStep ==
  ASSUME Shape, SocketsReady, SendBufferDrains
  PROVE  Shape' /\ SocketsReady'
  <1>1. Announces({"WRITE"}) /\ net'.conn = net.conn /\ net'.in = net.in /\ net'.closed = net.closed
        /\ net'.news = net.news /\ net.conn = "up" /\ net'.type = net.type
    BY DrainEffect DEF Shape, Announces
  <1>2. {"WRITE"} \in SUBSET Event /\ "CONNECT" \notin {"WRITE"}
    BY DEF Event
  <1>3. \A x \in Event : Present(x)' => x \in {"WRITE"} \/ Present(x)
    BY <1>1 DEF Present, Event
  <1> QED BY <1>1, <1>2, <1>3, NewsStep

LEMMA PeerClosesStep ==
  ASSUME Shape, SocketsReady, PeerCloses
  PROVE  Shape' /\ SocketsReady'
  <1>1. Announces({"CLOSE"}) /\ net'.conn = net.conn /\ net'.in = net.in /\ net'.room = net.room
        /\ net'.news = net.news /\ net'.type = net.type
    BY CloseEffect DEF Shape, Announces
  <1>2. {"CLOSE"} \in SUBSET Event /\ "CONNECT" \notin {"CLOSE"} /\ "WRITE" \notin {"CLOSE"}
    BY DEF Event
  <1>3. \A x \in Event : Present(x)' => x \in {"CLOSE"} \/ Present(x)
    BY <1>1 DEF Present, Event
  <1> QED BY <1>1, <1>2, <1>3, NewsStep

(* The answer to a connect.                                                *)
LEMMA AnswerStep ==
  ASSUME Shape, SocketsReady, PeerAnswers
  PROVE  Shape' /\ SocketsReady'
  <1>1. PICK S \in {{"CONNECT", "WRITE"}, {"CONNECT"}} :
          /\ Announces(S) /\ net'.conn \in {"up", "refused"}
          /\ net'.conn = "up" => "WRITE" \in S
    BY AnswerEffect DEF Shape
  <1>2. net.conn = "trying" /\ net'.in = net.in /\ net'.closed = net.closed
        /\ net'.room = net.room /\ net'.news
    BY AnswerEffect DEF Shape
  <1>3. /\ UNCHANGED <<events, connect_error, smutex, sth, scalls, lost>> /\ net'.type = net.type
        /\ net'.armed = net.armed \ S /\ net'.recorded = net.recorded \cup (S \cap net.armed)
    BY <1>1 DEF Announces
  <1>4. "CONNECT" \in net.armed /\ "CONNECT" \in S
    BY <1>1, <1>2 DEF SocketsReady, ConnectOnce
  <1>5. "CONNECT" \in net'.recorded /\ "CONNECT" \notin net'.armed /\ ~Connected
    BY <1>3, <1>4 DEF SocketsReady, ConnectOnce
  <1>6. Shape' /\ Connected' = Connected
    BY <1>1, AnnouncesShape
  <1>7. ArmedNotPresent'
    <2> SUFFICES ASSUME NEW x \in Event, Present(x)', x \in net'.armed PROVE FALSE
      BY DEF ArmedNotPresent
    <2>1. x # "CONNECT" /\ x \in net.armed
      BY <1>3, <1>5
    <2>2. x # "WRITE"
      <3>1. CASE x = "WRITE"
        <4>1. net'.conn = "up"
          BY <3>1 DEF Present
        <4> QED BY <1>1, <1>3, <4>1
      <3> QED BY <3>1
    <2>3. Present(x)
      BY <1>2, <1>3, <2>1, <2>2 DEF Present, Event
    <2> QED BY <2>1, <2>3 DEF SocketsReady, ArmedNotPresent
  <1>8. ConnectTruthful'
    BY <1>2, <1>3 DEF SocketsReady, ConnectTruthful
  <1>9. ConnectOnce'
    <2>1. ~Connected'
      BY <1>5, <1>6
    <2>2. "CONNECT" \notin events' /\ \A t \in Caller : "CONNECT" \notin sth'[t].e
      BY <2>1 DEF Connected
    <2> QED BY <1>1, <1>5, <2>1, <2>2 DEF ConnectOnce
  <1> QED BY <1>1, <1>5, <1>6, <1>7, <1>8, <1>9, AnnouncesStep

(* Calls that are served.                                                  *)
LEMMA ServesStep ==
  ASSUME Shape, SocketsReady, NEW t \in Caller, Serves(t), ArmedNotPresent',
         sth'[t].res = "ok" => sth'[t].op # "connect"
  PROVE  SocketsReady'
  <1>1. \A u \in Caller : /\ sth'[u].e = sth[u].e
                          /\ u # t => sth'[u] = sth[u]
    BY DEF Serves
  <1>2. /\ net.armed \subseteq net'.armed \cup net'.recorded /\ net.recorded \subseteq net'.recorded
        /\ net'.type = net.type /\ net'.news = net.news /\ net'.conn = net.conn
        /\ events' = events /\ lost' = lost /\ connect_error' = connect_error
        /\ sth[t].at = "call" /\ sth'[t].at \in {"unlock", "enumerate", "clear"}
        /\ sth'[t].op = sth[t].op /\ sth[t].op \in Op
    BY DEF Serves
  <1>3. \A e : e \in net'.recorded => InFlight(e)'
    BY DEF InFlight
  <1>4. \A e : Taken(e) => Taken(e)' \/ e \in net'.armed \cup net'.recorded
    <2> SUFFICES ASSUME NEW e, Taken(e), e \notin net'.armed \cup net'.recorded PROVE Taken(e)'
      OBVIOUS
    <2>1. PICK u \in Caller : e = "READ" /\ sth[u].at = "call" /\ ClearsFirst(sth[u])
      BY DEF Taken
    <2>2. CASE u = t
      <3>1. Cleared(sth[t].op) = "READ"
        BY <2>1, <2>2 DEF ClearsFirst, Cleared
      <3> QED BY <2>1, <2>2, <3>1 DEF Serves
    <2>3. CASE u # t
      <3>1. sth'[u] = sth[u]
        BY <1>1, <2>3
      <3> QED BY <2>1, <3>1 DEF Taken, ClearsFirst
    <2> QED BY <2>2, <2>3
  <1>5. \A e : InFlight(e) => InFlight(e)' \/ e \in net'.armed
    BY <1>1, <1>2, <1>3, <1>4 DEF InFlight
  <1>6. \A e : Dull(e) => Dull(e)'
    BY <1>2 DEF Dull
  <1>7. Kept'
    BY <1>2, <1>3, <1>5, <1>6 DEF SocketsReady, Kept
  <1>8. ClearSafe'
    <2> SUFFICES ASSUME NEW u \in Caller, NEW e \in Event, Clearing(sth'[u], e)
                 PROVE  e \in net'.armed \/ InFlight(e)' \/ sth'[u].seen
      BY DEF ClearSafe
    <2>1. CASE u = t
      <3>1. e = Cleared(sth[t].op) /\ sth'[t].at = "clear"
        BY <1>2, <2>1 DEF Clearing
      <3>2. e \in net'.armed \cup net'.recorded
        BY <3>1 DEF Serves
      <3> QED BY <1>3, <3>2
    <2>2. CASE u # t
      <3>1. sth'[u] = sth[u]
        BY <1>1, <2>2
      <3>2. e \in net.armed \/ InFlight(e) \/ sth[u].seen
        BY <3>1 DEF SocketsReady, ClearSafe
      <3> QED BY <1>2, <1>3, <1>5, <3>1, <3>2
    <2> QED BY <2>1, <2>2
  <1>9. RobberKnown'
    BY <1>1, <1>2 DEF SocketsReady, RobberKnown
  <1>10. SleepSafe'
    <2> SUFFICES ASSUME NEW u \in Caller, sth'[u].at = "wait", NEW e \in Wanted(sth'[u].op)
                 PROVE  e \in net'.armed \cup lost' \/ net'.recorded # {} \/ sth'[u].robbed \/ Dull(e)'
      <3> HIDE DEF Wanted
      <3> QED BY DEF SleepSafe
    <2>1. sth'[u] = sth[u]
      BY <1>1, <1>2
    <2>2. e \in net.armed \cup lost \/ net.recorded # {} \/ sth[u].robbed \/ Dull(e)
      BY <2>1 DEF SocketsReady, SleepSafe
    <2> QED BY <1>2, <1>6, <2>1, <2>2
  <1>11. Connected' = Connected
    BY <1>1, <1>2 DEF Connected
  <1>12. ConnectOnce'
    BY <1>1, <1>2, <1>11 DEF Serves, SocketsReady, ConnectOnce
  <1>13. ConnectTruthful'
    BY <1>1, <1>2 DEF SocketsReady, ConnectTruthful
  <1> QED BY <1>7, <1>8, <1>9, <1>10, <1>12, <1>13 DEF SocketsReady

-----------------------------------------------------------------------------
(* A thread collects: what was recorded is in its hands, and those that    *)
(* sleep, or are about to, have been robbed of it.                         *)
Collects(t) ==
  /\ sth[t].at = "enumerate" /\ sth[t].e = {}
  /\ sth'[t].at = "or" /\ sth'[t].e = net.recorded
  /\ (\E v \in Caller : sth[v].e # {}) => sth'[t].robbed
  /\ \A u \in Caller :
       /\ sth'[u].op = sth[u].op /\ sth'[u].peek = sth[u].peek /\ sth'[u].res = sth[u].res
       /\ sth'[u].seen = sth[u].seen
       /\ u # t => /\ sth'[u].at = sth[u].at /\ sth'[u].e = sth[u].e
                   /\ sth[u].robbed => sth'[u].robbed
                   /\ sth[u].at \in {"or", "wait"} /\ net.recorded # {} => sth'[u].robbed
  /\ net' \in NetType /\ net'.recorded = {} /\ net'.armed = net.armed
  /\ net'.type = net.type /\ net'.conn = net.conn /\ net'.in = net.in /\ net'.room = net.room
  /\ net'.closed = net.closed /\ net'.news = net.news
  /\ connect_error' = IF "CONNECT" \in net.recorded THEN net.conn = "refused" ELSE connect_error
  /\ lost' = lost \ net.recorded /\ UNCHANGED <<events, smutex, scalls>>

LEMMA CollectEffect ==
  ASSUME Shape, NEW t \in Caller, Collect(t)
  PROVE  Collects(t) /\ sth' \in [Caller -> CallType]
  <1> DEFINE robbed == \E v \in Caller : sth[v].e # {}
             mine == [sth[t] EXCEPT !.at = "or", !.e = net.recorded, !.robbed = robbed]
             their(u) == IF sth[u].at \in {"or", "wait"} /\ net.recorded # {}
                         THEN [sth[u] EXCEPT !.robbed = TRUE] ELSE sth[u]
  <1>1. /\ sth[t].at = "enumerate" /\ sth' = [u \in Caller |-> IF u = t THEN mine ELSE their(u)]
        /\ net' = [net EXCEPT !.recorded = {}]
        /\ connect_error' = IF "CONNECT" \in net.recorded THEN net.conn = "refused" ELSE connect_error
        /\ lost' = lost \ net.recorded /\ UNCHANGED <<events, smutex, scalls>>
    BY DEF Collect
  <1>2. sth[t] \in CallType /\ SocketCallOK(sth[t]) /\ net \in NetType /\ net.recorded \in SUBSET Event
        /\ robbed \in BOOLEAN
    BY DEF Shape, Types, CallsOK, NetType
  <1>3. sth[t].e = {}
    BY <1>1, <1>2 DEF SocketCallOK
  <1>4. mine \in CallType
    BY <1>2, CallCollects DEF At, Active
  <1>5. /\ mine.at = "or" /\ mine.e = net.recorded /\ mine.robbed = robbed /\ mine.op = sth[t].op
        /\ mine.peek = sth[t].peek /\ mine.res = sth[t].res /\ mine.seen = sth[t].seen
    BY <1>2 DEF CallType
  <1>6. ASSUME NEW u \in Caller
        PROVE  LET d == their(u) IN
               /\ d \in CallType /\ d.op = sth[u].op /\ d.peek = sth[u].peek /\ d.res = sth[u].res
               /\ d.seen = sth[u].seen /\ d.at = sth[u].at /\ d.e = sth[u].e
               /\ sth[u].robbed => d.robbed
               /\ sth[u].at \in {"or", "wait"} /\ net.recorded # {} => d.robbed
    <2>1. sth[u] \in CallType
      BY DEF Shape, Types
    <2>2. [sth[u] EXCEPT !.robbed = TRUE] \in CallType
      BY <2>1 DEF CallType
    <2> QED BY <2>1, <2>2 DEF CallType
  <1> HIDE DEF mine, their, robbed
  <1>7. sth'[t] = mine /\ \A u \in Caller : u # t => sth'[u] = their(u)
    BY <1>1
  <1>8. sth' \in [Caller -> CallType]
    BY <1>1, <1>4, <1>6
  <1>9. /\ net' \in NetType /\ net'.recorded = {} /\ net'.armed = net.armed
        /\ net'.type = net.type /\ net'.conn = net.conn /\ net'.in = net.in /\ net'.room = net.room
        /\ net'.closed = net.closed /\ net'.news = net.news
    BY <1>1, <1>2 DEF NetType
  <1>10. (\E v \in Caller : sth[v].e # {}) => sth'[t].robbed
    BY <1>5, <1>7 DEF robbed
  <1>11. \A u \in Caller :
       /\ sth'[u].op = sth[u].op /\ sth'[u].peek = sth[u].peek /\ sth'[u].res = sth[u].res
       /\ sth'[u].seen = sth[u].seen
       /\ u # t => /\ sth'[u].at = sth[u].at /\ sth'[u].e = sth[u].e
                   /\ sth[u].robbed => sth'[u].robbed
                   /\ sth[u].at \in {"or", "wait"} /\ net.recorded # {} => sth'[u].robbed
    <2> SUFFICES ASSUME NEW u \in Caller
        PROVE  /\ sth'[u].op = sth[u].op /\ sth'[u].peek = sth[u].peek /\ sth'[u].res = sth[u].res
               /\ sth'[u].seen = sth[u].seen
               /\ u # t => /\ sth'[u].at = sth[u].at /\ sth'[u].e = sth[u].e
                           /\ sth[u].robbed => sth'[u].robbed
                           /\ sth[u].at \in {"or", "wait"} /\ net.recorded # {} => sth'[u].robbed
      OBVIOUS
    <2>1. CASE u = t
      BY <1>5, <1>7, <2>1
    <2>2. CASE u # t
      BY <1>6, <1>7, <2>2
    <2> QED BY <2>1, <2>2
  <1>12. sth'[t].at = "or" /\ sth'[t].e = net.recorded
    BY <1>5, <1>7
  <1> QED BY <1>1, <1>3, <1>8, <1>9, <1>10, <1>11, <1>12 DEF Collects

LEMMA CollectStep ==
  ASSUME Shape, SocketsReady, NEW t \in Caller, Collect(t)
  PROVE  Shape' /\ SocketsReady'
  <1>1. Collects(t) /\ sth' \in [Caller -> CallType]
    BY CollectEffect
  <1>2. \A u \in Caller : /\ sth'[u].op = sth[u].op /\ sth'[u].peek = sth[u].peek
                          /\ sth'[u].res = sth[u].res /\ sth'[u].seen = sth[u].seen
                          /\ u # t => sth'[u].at = sth[u].at /\ sth'[u].e = sth[u].e
    BY <1>1 DEF Collects
  <1>3. /\ sth[t].at = "enumerate" /\ sth[t].e = {}
        /\ sth'[t].at = "or" /\ sth'[t].e = net.recorded
        /\ net'.recorded = {} /\ net'.armed = net.armed /\ net'.type = net.type
        /\ net'.conn = net.conn /\ net'.news = net.news
        /\ lost' = lost \ net.recorded /\ events' = events /\ smutex' = smutex
    BY <1>1 DEF Collects
  <1>4. Shape'
    <2>1. Types'
      BY <1>1 DEF Collects, Shape, Types
    <2>2. ASSUME NEW u \in Caller PROVE SocketCallOK(sth[u])'
      <3>1. SocketCallOK(sth[u])
        BY DEF Shape, CallsOK
      <3>2. CASE u = t
        BY <1>2, <1>3, <3>1, <3>2 DEF SocketCallOK, CallsOf, Active, ClearsFirst
      <3>3. CASE u # t
        BY <1>2, <1>3, <3>1, <3>3 DEF SocketCallOK, CallsOf, ClearsFirst
      <3> QED BY <3>2, <3>3
    <2>3. ASSUME NEW u \in Caller, Holds(sth'[u]) PROVE smutex' = u
      <3>1. Holds(sth[u])
        BY <1>2, <1>3, <2>3 DEF Holds, Active
      <3> QED BY <1>3, <3>1 DEF Shape, Exclusion
    <2> QED BY <2>1, <2>2, <2>3 DEF Shape, CallsOK, Exclusion, Holds
  <1>5. ArmedNotPresent'
    <2>1. \A x \in Event : Present(x)' <=> Present(x)
      BY <1>1 DEF Collects, Present, Event
    <2> QED BY <1>3, <2>1 DEF SocketsReady, ArmedNotPresent
  <1>6. ConnectTruthful'
    BY <1>2, <1>3 DEF SocketsReady, ConnectTruthful
  <1>7. \A e : Taken(e) => Taken(e)'
    BY <1>2, <1>3 DEF Taken, ClearsFirst
  <1>8. \A e : InFlight(e) => InFlight(e)'
    BY <1>2, <1>3, <1>7 DEF InFlight
  <1>9. \A e : Dull(e) => Dull(e)'
    BY <1>3 DEF Dull
  <1>10. Kept'
    BY <1>3, <1>8, <1>9 DEF SocketsReady, Kept
  <1>11. ClearSafe'
    <2> SUFFICES ASSUME NEW u \in Caller, NEW e \in Event, Clearing(sth'[u], e)
                 PROVE  e \in net'.armed \/ InFlight(e)' \/ sth'[u].seen
      BY DEF ClearSafe
    <2>1. u # t /\ Clearing(sth[u], e)
      BY <1>2, <1>3 DEF Clearing, ClearsFirst
    <2>2. e \in net.armed \/ InFlight(e) \/ sth[u].seen
      BY <2>1 DEF SocketsReady, ClearSafe
    <2> QED BY <1>2, <1>3, <1>8, <2>2
  <1>12. RobberKnown'
    <2> SUFFICES ASSUME NEW x \in Caller, NEW y \in Caller, x # y, sth'[x].at \in {"or", "wait"},
                        sth'[y].e # {}
                 PROVE  sth'[x].robbed
      BY DEF RobberKnown
    <2>1. CASE x = t
      BY <1>1, <1>2, <2>1 DEF Collects
    <2>2. CASE y = t
      BY <1>1, <1>2, <1>3, <2>2 DEF Collects
    <2>3. CASE x # t /\ y # t
      <3>1. sth[x].robbed
        BY <1>2, <2>3 DEF SocketsReady, RobberKnown
      <3> QED BY <1>1, <2>3, <3>1 DEF Collects
    <2> QED BY <2>1, <2>2, <2>3
  <1>13. SleepSafe'
    <2> SUFFICES ASSUME NEW u \in Caller, sth'[u].at = "wait", NEW e \in Wanted(sth'[u].op)
                 PROVE  e \in net'.armed \cup lost' \/ net'.recorded # {} \/ sth'[u].robbed \/ Dull(e)'
      <3> HIDE DEF Wanted
      <3> QED BY DEF SleepSafe
    <2>1. u # t /\ sth[u].at = "wait" /\ e \in Wanted(sth[u].op)
      BY <1>2, <1>3
    <2>2. e \in net.armed \cup lost \/ net.recorded # {} \/ sth[u].robbed \/ Dull(e)
      BY <2>1 DEF SocketsReady, SleepSafe
    <2>3. net.recorded # {} \/ sth[u].robbed => sth'[u].robbed
      BY <1>1, <2>1 DEF Collects
    <2> QED BY <1>3, <1>9, <2>2, <2>3
  <1>14. ConnectOnce'
    <2>1. Connected' <=> Connected \/ "CONNECT" \in net.recorded
      BY <1>2, <1>3 DEF Connected
    <2>2. "CONNECT" \in net.recorded => ~Connected
      BY DEF SocketsReady, ConnectOnce
    <2>3. "CONNECT" \in events => \A u \in Caller : "CONNECT" \notin sth'[u].e
      BY <1>2, <1>3, <2>2 DEF SocketsReady, ConnectOnce, Connected
    <2>4. \A x, y \in Caller : "CONNECT" \in sth'[x].e \cap sth'[y].e => x = y
      BY <1>2, <1>3, <2>2 DEF SocketsReady, ConnectOnce, Connected
    <2>5. Connected' /\ net.conn = "refused" => connect_error'
      BY <1>1, <2>1 DEF Collects, SocketsReady, ConnectOnce
    <2>6. net.conn \in {"new", "trying"} => {"CONNECT", "WRITE"} \subseteq net.armed /\ ~net.news
      BY DEF SocketsReady, ConnectOnce
    <2>7. "CONNECT" \in net.armed => ~Connected'
      BY <2>1 DEF SocketsReady, ConnectOnce
    <2>8. Connected' => net.conn \in {"up", "refused"}
      BY <2>1 DEF SocketsReady, ConnectOnce
    <2> QED BY <1>3, <2>3, <2>4, <2>5, <2>6, <2>7, <2>8 DEF ConnectOnce
  <1> QED BY <1>4, <1>5, <1>6, <1>10, <1>11, <1>12, <1>13, <1>14 DEF SocketsReady

-----------------------------------------------------------------------------
(* A thread puts what it collected into the word.  A call that finds what  *)
(* it waits for goes on, and one that does not sleeps or returns.          *)
LEMMA AfterUpdateEffect ==
  ASSUME NEW c \in CallType, NEW now \in SUBSET Event, c.op # "poll"
  PROVE  LET d == AfterUpdate(c, now) IN
         /\ d \in CallType /\ d.op = c.op /\ d.peek = c.peek /\ d.robbed = c.robbed
         /\ d.at \in {"wait", "unlock", "clear", "call"}
         /\ d.at = "wait" => Wanted(c.op) \cap now = {}
         /\ d.at = "clear" => ClearsFirst(c)
         /\ d.at \in {"clear", "call"} => c.op # "connect"
         /\ c.op = "connect" /\ d.res = "ok" => c.res = "ok" \/ ("CONNECT" \in now /\ ~connect_error)
  <1> DEFINE d == AfterUpdate(c, now)
  <1>0. d \in CallType
    BY AfterUpdateType
  <1>1. CASE Wanted(c.op) \cap now = {}
    <2>1. d = IF c.block THEN [c EXCEPT !.at = "wait"]
              ELSE [c EXCEPT !.at = "unlock", !.res = "EWOULDBLOCK"]
      BY <1>1 DEF AfterUpdate
    <2>2. d.op = c.op /\ d.peek = c.peek /\ d.robbed = c.robbed /\ d.at \in {"wait", "unlock"}
          /\ (d.res = c.res \/ d.res = "EWOULDBLOCK")
      <3>1. CASE c.block
        BY <2>1, <3>1 DEF CallType
      <3>2. CASE ~c.block
        BY <2>1, <3>2 DEF CallType
      <3> QED BY <3>1, <3>2
    <2> HIDE DEF d
    <2>3. d.res = "ok" => c.res = "ok"
      BY <2>2
    <2>4. d.at \notin {"clear", "call"}
      BY <2>2
    <2> QED BY <1>0, <1>1, <2>2, <2>3, <2>4 DEF d
  <1>2. CASE Wanted(c.op) \cap now # {}
    <2> DEFINE a == CASE c.op = "connect" -> "unlock" [] ClearsFirst(c) -> "clear"
                      [] OTHER -> "call"
               r == IF c.op # "connect" THEN c.res ELSE IF connect_error THEN "error" ELSE "ok"
    <2>1. d = [c EXCEPT !.at = a, !.res = r]
      BY <1>2 DEF AfterUpdate
    <2>2. a \in {"unlock", "clear", "call"} /\ (a = "clear" => ClearsFirst(c))
          /\ (a \in {"clear", "call"} => c.op # "connect")
      BY DEF ClearsFirst
    <2>3. c.op = "connect" /\ r = "ok" => ~connect_error
      OBVIOUS
    <2>4. c.op = "connect" => "CONNECT" \in now
      BY <1>2 DEF Wanted
    <2> HIDE DEF a, r
    <2>5. d.op = c.op /\ d.peek = c.peek /\ d.robbed = c.robbed /\ d.at = a /\ d.res = r
      BY <2>1 DEF CallType
    <2> HIDE DEF d
    <2> QED BY <1>0, <2>2, <2>3, <2>4, <2>5 DEF d
  <1> QED BY <1>1, <1>2

Now(t) == events \cup sth[t].e
Reports(t) == sth[t].op = "connect" /\ "CONNECT" \in Now(t)

Merges(t) ==
  /\ sth[t].at = "or" /\ sth'[t].e = {}
  /\ sth'[t].at \in {"idle", "wait", "unlock", "clear", "call"}
  /\ IF sth[t].op = "poll" THEN sth'[t].at = "idle" /\ sth'[t].op = "none"
     ELSE /\ sth'[t].at # "idle" /\ sth'[t].op = sth[t].op /\ sth'[t].peek = sth[t].peek
          /\ sth'[t].robbed = sth[t].robbed
  /\ sth'[t].at = "wait" => Wanted(sth[t].op) \cap Now(t) = {}
  /\ sth'[t].at = "clear" => ClearsFirst(sth'[t])
  /\ sth'[t].at \in {"clear", "call"} => sth[t].op # "connect"
  /\ sth[t].op = "connect" /\ sth'[t].res = "ok" =>
       sth[t].res = "ok" \/ ("CONNECT" \in Now(t) /\ ~connect_error)
  /\ \A u \in Caller : u # t =>
       /\ sth'[u].at = sth[u].at /\ sth'[u].op = sth[u].op /\ sth'[u].peek = sth[u].peek
       /\ sth'[u].e = sth[u].e /\ sth'[u].robbed = sth[u].robbed /\ sth'[u].res = sth[u].res
       /\ sth[u].seen => sth'[u].seen
       /\ sth[u].at = "clear" /\ Cleared(sth[u].op) \in sth[t].e => sth'[u].seen
  /\ events' = IF Reports(t) THEN Now(t) \ {"CONNECT"} ELSE Now(t)
  /\ connect_error' = (connect_error /\ ~Reports(t))
  /\ net' \in NetType /\ net'.recorded = net.recorded /\ net'.armed = net.armed
  /\ net'.type = net.type /\ net'.conn = net.conn /\ net'.in = net.in /\ net'.room = net.room
  /\ net'.closed = net.closed /\ net'.news = (net.news /\ ~Reports(t))
  /\ UNCHANGED <<smutex, scalls, lost>>

LEMMA MergeEffect ==
  ASSUME Shape, NEW t \in Caller, MergeEvents(t)
  PROVE  Merges(t) /\ sth' \in [Caller -> CallType]
  <1> DEFINE c == sth[t]
             d == AfterUpdate(c, Now(t))
             mine == [d EXCEPT !.e = {}]
             saw(u) == sth[u].seen \/ (sth[u].at = "clear" /\ Cleared(sth[u].op) \in c.e)
             their(u) == [sth[u] EXCEPT !.seen = saw(u)]
  <1>1. /\ c.at = "or"
        /\ sth' = [u \in Caller |-> IF u = t THEN mine ELSE their(u)]
        /\ events' = IF Reports(t) THEN Now(t) \ {"CONNECT"} ELSE Now(t)
        /\ connect_error' = (connect_error /\ ~Reports(t))
        /\ net' = [net EXCEPT !.news = @ /\ ~Reports(t)]
        /\ UNCHANGED <<smutex, scalls, lost>>
    BY DEF MergeEvents, UpdateEvents, Now, Reports
  <1>2. c \in CallType /\ Now(t) \in SUBSET Event
    BY DEF Shape, Types, CallType, Now
  <1>3. d \in CallType
    BY <1>2, AfterUpdateType
  <1>4. ASSUME NEW u \in Caller
        PROVE  /\ their(u) \in CallType
               /\ their(u).at = sth[u].at /\ their(u).op = sth[u].op /\ their(u).peek = sth[u].peek
               /\ their(u).e = sth[u].e /\ their(u).robbed = sth[u].robbed
               /\ their(u).res = sth[u].res /\ their(u).seen = saw(u)
    <2>1. sth[u] \in CallType
      BY DEF Shape, Types
    <2>2. saw(u) \in BOOLEAN
      OBVIOUS
    <2> HIDE DEF saw
    <2> QED BY <2>1, <2>2 DEF CallType
  <1>5. sth'[t] = mine /\ \A u \in Caller : u # t => sth'[u] = their(u)
    BY <1>1
  <1>6. mine \in CallType /\ mine.e = {} /\ mine.at = d.at /\ mine.op = d.op /\ mine.peek = d.peek
        /\ mine.robbed = d.robbed /\ mine.res = d.res
    <2> HIDE DEF d
    <2> QED BY <1>3 DEF CallType
  <1>7. sth' \in [Caller -> CallType]
    <2> HIDE DEF mine, their
    <2> QED BY <1>1, <1>4, <1>6
  <1>8. /\ net' \in NetType /\ net'.recorded = net.recorded /\ net'.armed = net.armed
        /\ net'.type = net.type /\ net'.conn = net.conn /\ net'.in = net.in /\ net'.room = net.room
        /\ net'.closed = net.closed /\ net'.news = (net.news /\ ~Reports(t))
    BY <1>1 DEF Shape, Types, NetType
  <1>9. \A u \in Caller : u # t =>
       /\ sth'[u].at = sth[u].at /\ sth'[u].op = sth[u].op /\ sth'[u].peek = sth[u].peek
       /\ sth'[u].e = sth[u].e /\ sth'[u].robbed = sth[u].robbed /\ sth'[u].res = sth[u].res
       /\ sth[u].seen => sth'[u].seen
       /\ sth[u].at = "clear" /\ Cleared(sth[u].op) \in sth[t].e => sth'[u].seen
    <2> SUFFICES ASSUME NEW u \in Caller, u # t
        PROVE  /\ sth'[u].at = sth[u].at /\ sth'[u].op = sth[u].op /\ sth'[u].peek = sth[u].peek
               /\ sth'[u].e = sth[u].e /\ sth'[u].robbed = sth[u].robbed /\ sth'[u].res = sth[u].res
               /\ sth[u].seen => sth'[u].seen
               /\ sth[u].at = "clear" /\ Cleared(sth[u].op) \in sth[t].e => sth'[u].seen
      OBVIOUS
    <2>1. sth'[u] = their(u)
      BY <1>5
    <2>2. saw(u) = (sth[u].seen \/ (sth[u].at = "clear" /\ Cleared(sth[u].op) \in sth[t].e))
      OBVIOUS
    <2> HIDE DEF their, saw
    <2> QED BY <1>4, <2>1, <2>2
  <1> HIDE DEF mine, their
  <1>10. CASE c.op = "poll"
    <2>1. d = NoSocketCall
      BY <1>10 DEF AfterUpdate
    <2> HIDE DEF d
    <2>2. sth'[t].at = "idle" /\ sth'[t].op = "none" /\ sth'[t].e = {}
      BY <1>5, <1>6, <2>1, NoCallType
    <2> QED BY <1>1, <1>7, <1>8, <1>9, <1>10, <2>2 DEF Merges
  <1>11. CASE c.op # "poll"
    <2>1. /\ d.op = c.op /\ d.peek = c.peek /\ d.robbed = c.robbed
          /\ d.at \in {"wait", "unlock", "clear", "call"}
          /\ d.at = "wait" => Wanted(c.op) \cap Now(t) = {}
          /\ d.at = "clear" => ClearsFirst(c)
          /\ d.at \in {"clear", "call"} => c.op # "connect"
          /\ c.op = "connect" /\ d.res = "ok" =>
               c.res = "ok" \/ ("CONNECT" \in Now(t) /\ ~connect_error)
      <3> HIDE DEF c
      <3> QED BY <1>2, <1>11, AfterUpdateEffect
    <2> HIDE DEF d
    <2>2. sth'[t].at = "clear" => ClearsFirst(sth'[t])
      BY <1>5, <1>6, <2>1 DEF ClearsFirst
    <2>3. /\ sth'[t].op = sth[t].op /\ sth'[t].peek = sth[t].peek /\ sth'[t].robbed = sth[t].robbed
          /\ sth'[t].at \in {"wait", "unlock", "clear", "call"} /\ sth'[t].e = {}
          /\ sth'[t].at = "wait" => Wanted(sth[t].op) \cap Now(t) = {}
          /\ sth'[t].at \in {"clear", "call"} => sth[t].op # "connect"
          /\ sth[t].op = "connect" /\ sth'[t].res = "ok" =>
               sth[t].res = "ok" \/ ("CONNECT" \in Now(t) /\ ~connect_error)
      BY <1>5, <1>6, <2>1
    <2> QED BY <1>1, <1>7, <1>8, <1>9, <1>11, <2>2, <2>3 DEF Merges
  <1> QED BY <1>10, <1>11

LEMMA MergeStep ==
  ASSUME Shape, SocketsReady, NEW t \in Caller, MergeEvents(t)
  PROVE  Shape' /\ SocketsReady'
  <1>1. Merges(t) /\ sth' \in [Caller -> CallType]
    BY MergeEffect
  <1>2. \A u \in Caller : u # t =>
          /\ sth'[u].at = sth[u].at /\ sth'[u].op = sth[u].op /\ sth'[u].peek = sth[u].peek
          /\ sth'[u].e = sth[u].e /\ sth'[u].robbed = sth[u].robbed /\ sth'[u].res = sth[u].res
          /\ sth[u].seen => sth'[u].seen
    BY <1>1 DEF Merges
  <1>3. /\ sth[t].at = "or" /\ sth'[t].e = {}
        /\ sth'[t].at \in {"idle", "wait", "unlock", "clear", "call"}
        /\ sth'[t].at = "clear" => ClearsFirst(sth'[t])
        /\ net'.recorded = net.recorded /\ net'.armed = net.armed /\ net'.type = net.type
        /\ net'.conn = net.conn /\ net'.news = (net.news /\ ~Reports(t))
        /\ lost' = lost /\ smutex' = smutex
        /\ events' = IF Reports(t) THEN Now(t) \ {"CONNECT"} ELSE Now(t)
    BY <1>1 DEF Merges
  <1>4. IF sth[t].op = "poll" THEN sth'[t].at = "idle" /\ sth'[t].op = "none"
        ELSE /\ sth'[t].at # "idle" /\ sth'[t].op = sth[t].op /\ sth'[t].peek = sth[t].peek
             /\ sth'[t].robbed = sth[t].robbed
    BY <1>1 DEF Merges
  <1>5. Shape'
    <2>1. Types'
      BY <1>1 DEF Merges, Shape, Types, Now, CallType
    <2>2. ASSUME NEW u \in Caller PROVE SocketCallOK(sth[u])'
      <3>1. SocketCallOK(sth[u]) /\ sth[u] \in CallType
        BY DEF Shape, Types, CallsOK
      <3>2. CASE u = t
        <4>1. CASE sth[t].op = "poll"
          BY <1>3, <1>4, <3>2, <4>1 DEF SocketCallOK, Active, Op, Receiving, Sending
        <4>2. CASE sth[t].op # "poll"
          <5>1. sth[t].op \in Op \cup {"connect"}
            BY <1>3, <3>1, <3>2, <4>2 DEF SocketCallOK, Active, CallType
          <5>2. sth[t].op \in Op => sth[t].op \in CallsOf(net.type)
            BY <1>3, <3>1, <3>2 DEF SocketCallOK
          <5>3. sth'[t].at \in {"clear", "call"} => sth[t].op # "connect"
            BY <1>1 DEF Merges
          <5>4. sth'[t].op = sth[t].op /\ sth'[t].at # "idle"
            BY <1>4, <4>2
          <5>5. sth[t].op \notin {"none", "poll"}
            BY <5>1 DEF Op, Receiving, Sending
          <5>6. net'.type = net.type
            BY <1>3
          <5> QED BY <1>3, <3>2, <5>1, <5>2, <5>3, <5>4, <5>5, <5>6 DEF SocketCallOK, CallsOf
        <4> QED BY <4>1, <4>2
      <3>3. CASE u # t
        BY <1>2, <1>3, <3>1, <3>3 DEF SocketCallOK, CallsOf, ClearsFirst
      <3> QED BY <3>2, <3>3
    <2>3. ASSUME NEW u \in Caller, Holds(sth'[u]) PROVE smutex' = u
      <3>1. CASE u = t
        <4>1. sth[t].op # "poll"
          BY <1>4, <2>3, <3>1 DEF Holds, Active
        <4>2. Holds(sth[t])
          BY <1>3, <4>1 DEF Holds, Active
        <4> QED BY <1>3, <3>1, <4>2 DEF Shape, Exclusion
      <3>2. CASE u # t
        <4>1. Holds(sth[u])
          BY <1>2, <2>3, <3>2 DEF Holds
        <4> QED BY <1>3, <4>1 DEF Shape, Exclusion
      <3> QED BY <3>1, <3>2
    <2> QED BY <2>1, <2>2, <2>3 DEF Shape, CallsOK, Exclusion, Holds
  <1>6. ArmedNotPresent'
    <2>1. \A x \in Event : Present(x)' => Present(x)
      BY <1>1 DEF Merges, Present, Event
    <2> QED BY <1>3, <2>1 DEF SocketsReady, ArmedNotPresent
  <1>7. \A e : Dull(e) => Dull(e)'
    BY <1>3 DEF Dull
  <1>8. \A e \in Now(t) : e \in events' \/ Dull(e)'
    BY <1>3 DEF Dull
  <1>9. \A e : Taken(e) => Taken(e)'
    <2> SUFFICES ASSUME NEW e, Taken(e) PROVE Taken(e)'
      OBVIOUS
    <2>1. PICK u \in Caller : e = "READ" /\ sth[u].at = "call" /\ ClearsFirst(sth[u])
      BY DEF Taken
    <2>2. u # t
      BY <1>3, <2>1
    <2> QED BY <1>2, <2>1, <2>2 DEF Taken, ClearsFirst
  <1>10. \A e : InFlight(e) => InFlight(e)' \/ e \in sth[t].e
    BY <1>2, <1>3, <1>9 DEF InFlight
  <1>11. Kept'
    <2> SUFFICES ASSUME NEW e \in Event PROVE e \in net'.armed \cup events' \/ InFlight(e)' \/ Dull(e)'
      BY DEF Kept
    <2>1. e \in net.armed \cup events \/ InFlight(e) \/ Dull(e)
      BY DEF SocketsReady, Kept
    <2>2. e \in events \/ e \in sth[t].e => e \in Now(t)
      BY DEF Now
    <2> QED BY <1>3, <1>7, <1>8, <1>10, <2>1, <2>2
  <1>12. ClearSafe'
    <2> SUFFICES ASSUME NEW u \in Caller, NEW e \in Event, Clearing(sth'[u], e)
                 PROVE  e \in net'.armed \/ InFlight(e)' \/ sth'[u].seen
      BY DEF ClearSafe
    <2>1. u # t
      BY <1>3 DEF Clearing
    <2>2. Clearing(sth[u], e)
      BY <1>2, <2>1 DEF Clearing, ClearsFirst
    <2>3. e \in net.armed \/ InFlight(e) \/ sth[u].seen
      BY <2>2 DEF SocketsReady, ClearSafe
    <2>4. e \in sth[t].e => sth'[u].seen
      BY <1>1, <2>1, <2>2 DEF Merges, Clearing
    <2> QED BY <1>2, <1>3, <1>10, <2>1, <2>3, <2>4
  <1>13. RobberKnown'
    <2> SUFFICES ASSUME NEW x \in Caller, NEW y \in Caller, x # y, sth'[x].at \in {"or", "wait"},
                        sth'[y].e # {}
                 PROVE  sth'[x].robbed
      BY DEF RobberKnown
    <2>1. y # t /\ sth[y].e # {}
      BY <1>2, <1>3
    <2>2. CASE x = t
      <3>1. sth[t].robbed
        BY <1>3, <2>1, <2>2 DEF SocketsReady, RobberKnown
      <3>2. sth'[t].robbed = sth[t].robbed
        BY <1>4, <2>2
      <3> QED BY <2>2, <3>1, <3>2
    <2>3. CASE x # t
      BY <1>2, <2>1, <2>3 DEF SocketsReady, RobberKnown
    <2> QED BY <2>2, <2>3
  <1>14. SleepSafe'
    <2> SUFFICES ASSUME NEW u \in Caller, sth'[u].at = "wait", NEW e \in Wanted(sth'[u].op)
                 PROVE  e \in net'.armed \cup lost' \/ net'.recorded # {} \/ sth'[u].robbed \/ Dull(e)'
      <3> HIDE DEF Wanted
      <3> QED BY DEF SleepSafe
    <2>1. CASE u = t
      <3>1. sth[t].op # "poll" /\ sth'[t].op = sth[t].op /\ sth'[t].robbed = sth[t].robbed
        BY <1>4, <2>1
      <3>2. e \in Event
        BY WantedEvents
      <3>3. e \notin Now(t)
        BY <1>1, <2>1, <3>1 DEF Merges
      <3>4. e \in net.armed \/ InFlight(e) \/ Dull(e)
        BY <3>2, <3>3 DEF SocketsReady, Kept, Now
      <3>5. \A v \in Caller : e \in sth[v].e => sth[t].robbed
        BY <1>3, <3>3 DEF SocketsReady, RobberKnown, Now
      <3>6. ~Taken(e)
        <4> SUFFICES ASSUME NEW v \in Caller, sth[v].at = "call", ClearsFirst(sth[v]) PROVE FALSE
          BY DEF Taken
        <4>1. Holds(sth[v]) /\ Holds(sth[t])
          BY <1>3, <3>1 DEF Holds, Active, ClearsFirst
        <4>2. v = t
          BY <4>1 DEF Shape, Exclusion
        <4> QED BY <1>3, <4>2
      <3>7. InFlight(e) => e \in net.recorded \cup lost \/ sth[t].robbed
        BY <3>5, <3>6 DEF InFlight
      <3> QED BY <1>3, <1>7, <2>1, <3>1, <3>4, <3>7
    <2>2. CASE u # t
      <3>1. sth[u].at = "wait" /\ e \in Wanted(sth[u].op)
        BY <1>2, <2>2
      <3>2. e \in net.armed \cup lost \/ net.recorded # {} \/ sth[u].robbed \/ Dull(e)
        BY <3>1 DEF SocketsReady, SleepSafe
      <3> QED BY <1>2, <1>3, <1>7, <2>2, <3>2
    <2> QED BY <2>1, <2>2
  <1>15. "CONNECT" \in Now(t) => Connected
    BY DEF Now, Connected
  <1>16. ConnectOnce'
    <2>1. "CONNECT" \in events' => "CONNECT" \in Now(t) /\ ~Reports(t)
      BY <1>3
    <2>2. "CONNECT" \in Now(t) => \A u \in Caller : "CONNECT" \notin sth'[u].e
      <3>1. ASSUME "CONNECT" \in Now(t), NEW u \in Caller PROVE "CONNECT" \notin sth'[u].e
        <4>1. CASE u = t
          BY <1>3, <4>1
        <4>2. CASE u # t
          BY <1>2, <3>1, <4>2 DEF SocketsReady, ConnectOnce, Now
        <4> QED BY <4>1, <4>2
      <3> QED BY <3>1
    <2>3. Connected' => Connected /\ ~Reports(t)
      <3>1. CASE "CONNECT" \in events'
        BY <1>15, <2>1, <3>1
      <3>2. ASSUME NEW u \in Caller, "CONNECT" \in sth'[u].e PROVE Connected /\ ~Reports(t)
        BY <1>2, <1>3, <2>2, <3>2 DEF Connected, Reports
      <3> QED BY <3>1, <3>2 DEF Connected
    <2>4. \A x, y \in Caller : "CONNECT" \in sth'[x].e \cap sth'[y].e => x = y
      BY <1>2, <1>3 DEF SocketsReady, ConnectOnce
    <2>5. Connected' /\ net.conn = "refused" => connect_error'
      BY <1>1, <2>3 DEF Merges, SocketsReady, ConnectOnce
    <2>6. net.conn \in {"new", "trying"} => {"CONNECT", "WRITE"} \subseteq net.armed /\ ~net.news
      BY DEF SocketsReady, ConnectOnce
    <2>7. "CONNECT" \in net.armed => "CONNECT" \notin net.recorded /\ ~Connected'
      BY <2>3 DEF SocketsReady, ConnectOnce
    <2>8. "CONNECT" \in net.recorded => ~Connected'
      BY <2>3 DEF SocketsReady, ConnectOnce
    <2>9. "CONNECT" \in net.recorded \/ Connected' => net.conn \in {"up", "refused"}
      BY <2>3 DEF SocketsReady, ConnectOnce
    <2> QED BY <1>3, <2>1, <2>2, <2>4, <2>5, <2>6, <2>7, <2>8, <2>9 DEF ConnectOnce
  <1>17. ConnectTruthful'
    <2> SUFFICES ASSUME NEW u \in Caller, sth'[u].op = "connect", sth'[u].res = "ok"
                 PROVE  net'.conn = "up"
      BY DEF ConnectTruthful
    <2>1. CASE u = t
      <3>1. sth[t].op = "connect"
        BY <1>4, <2>1
      <3>2. sth[t].res = "ok" \/ ("CONNECT" \in Now(t) /\ ~connect_error)
        BY <1>1, <2>1, <3>1 DEF Merges
      <3>3. CASE sth[t].res = "ok"
        BY <1>3, <3>1, <3>3 DEF SocketsReady, ConnectTruthful
      <3>4. CASE "CONNECT" \in Now(t) /\ ~connect_error
        BY <1>3, <1>15, <3>4 DEF SocketsReady, ConnectOnce
      <3> QED BY <3>2, <3>3, <3>4
    <2>2. CASE u # t
      BY <1>2, <1>3, <2>2 DEF SocketsReady, ConnectTruthful
    <2> QED BY <2>1, <2>2
  <1> QED BY <1>5, <1>6, <1>11, <1>12, <1>13, <1>14, <1>16, <1>17 DEF SocketsReady

-----------------------------------------------------------------------------
(* An event is taken out of the word: it will be received, it is armed or  *)
(* under way, or it was seen and is lost.                                  *)
LEMMA ClearEffect ==
  ASSUME Shape, NEW t \in Caller, ClearEvent(t)
  PROVE  /\ Shape' /\ sth[t].at = "clear" /\ sth[t].op \in Op
         /\ sth'[t].at \in {"call", "unlock", "enumerate"}
         /\ ClearsFirst(sth[t]) => sth'[t].at = "call" /\ ClearsFirst(sth'[t])
         /\ sth'[t].op = sth[t].op /\ sth'[t].e = {} /\ sth[t].e = {}
         /\ \A u \in Caller : u # t => sth'[u] = sth[u]
         /\ events' = events \ {Cleared(sth[t].op)}
         /\ lost' = IF ~ClearsFirst(sth[t]) /\ sth[t].seen THEN lost \cup {Cleared(sth[t].op)} ELSE lost
         /\ UNCHANGED <<net, connect_error>>
  <1> DEFINE a == IF ClearsFirst(sth[t]) THEN "call"
                  ELSE IF sth[t].res = "error" THEN "unlock" ELSE "enumerate"
             c == [sth[t] EXCEPT !.at = a, !.seen = FALSE]
  <1>1. /\ SGo(t, "clear", c) /\ events' = events \ {Cleared(sth[t].op)}
        /\ lost' = IF ~ClearsFirst(sth[t]) /\ sth[t].seen THEN lost \cup {Cleared(sth[t].op)} ELSE lost
        /\ UNCHANGED <<net, connect_error, smutex, scalls>>
    BY DEF ClearEvent
  <1>2. a \in {"call", "unlock", "enumerate"} /\ a \in At /\ (ClearsFirst(sth[t]) => a = "call")
    BY DEF At, Active
  <1>3. sth[t] \in CallType /\ SocketCallOK(sth[t]) /\ sth[t].at = "clear"
    BY <1>1, GoEffect DEF Shape, Types, CallsOK
  <1>4. sth[t].op \in Op /\ sth[t].e = {}
    BY <1>3 DEF SocketCallOK
  <1>5. smutex = t
    <2>1. Holds(sth[t])
      BY <1>3, <1>4 DEF Holds, Active, Op, Receiving, Sending
    <2> QED BY <2>1 DEF Shape, Exclusion
  <1> HIDE DEF a
  <1>6. /\ c \in CallType /\ c.at = a /\ c.op = sth[t].op /\ c.e = {} /\ c.res = sth[t].res
        /\ c.peek = sth[t].peek
    <2>1. c \in CallType
      BY <1>2, <1>3, CallSeen
    <2> QED BY <1>3, <1>4, <2>1 DEF CallType
  <1> HIDE DEF c
  <1>7. SocketCallOK(c)
    BY <1>2, <1>3, <1>4, <1>6 DEF SocketCallOK, Active, Op, Receiving, Sending
  <1>8. Cleared(sth[t].op) \in Event
    BY <1>4 DEF Cleared, Event, Op, Receiving, Sending
  <1>9. events' \subseteq Event /\ lost' \subseteq Event /\ connect_error' \in BOOLEAN /\ scalls' \in Nat
        /\ net' \in NetType /\ net'.type = net.type
    BY <1>1, <1>8 DEF Shape, Types
  <1>10. Shape'
    BY <1>1, <1>5, <1>6, <1>7, <1>9, ShapeGo
  <1>11. sth'[t] = c /\ \A u \in Caller : u # t => sth'[u] = sth[u]
    BY <1>1, GoEffect DEF Shape, Goes
  <1> QED BY <1>1, <1>2, <1>3, <1>4, <1>6, <1>10, <1>11 DEF ClearsFirst

LEMMA ClearStep ==
  ASSUME Shape, SocketsReady, NEW t \in Caller, ClearEvent(t)
  PROVE  Shape' /\ SocketsReady'
  <1>0. PICK e : e = Cleared(sth[t].op)
    OBVIOUS
  <1>1. /\ Shape' /\ sth[t].at = "clear" /\ sth[t].op \in Op
        /\ sth'[t].at \in {"call", "unlock", "enumerate"}
        /\ ClearsFirst(sth[t]) => sth'[t].at = "call" /\ ClearsFirst(sth'[t])
        /\ sth'[t].op = sth[t].op /\ sth'[t].e = {} /\ sth[t].e = {}
        /\ \A u \in Caller : u # t => sth'[u] = sth[u]
        /\ events' = events \ {e}
        /\ lost' = IF ~ClearsFirst(sth[t]) /\ sth[t].seen THEN lost \cup {e} ELSE lost
        /\ UNCHANGED <<net, connect_error>>
    BY <1>0, ClearEffect
  <1>2. e \in {"READ", "WRITE", "ACCEPT"} /\ (ClearsFirst(sth[t]) => e = "READ")
    BY <1>0, <1>1 DEF Cleared, Op, Receiving, Sending, ClearsFirst
  <1>3. e \in Event /\ lost \subseteq lost'
    BY <1>1, <1>2 DEF Event
  <1>4. \A u \in Caller : sth'[u].e = sth[u].e
    BY <1>1
  <1>5. Clearing(sth[t], e) \/ ClearsFirst(sth[t])
    BY <1>0, <1>1 DEF Clearing
  <1>6. \A x : Taken(x) => Taken(x)'
    <2> SUFFICES ASSUME NEW x, Taken(x) PROVE Taken(x)'
      OBVIOUS
    <2>1. PICK u \in Caller : x = "READ" /\ sth[u].at = "call" /\ ClearsFirst(sth[u])
      BY DEF Taken
    <2>2. sth'[u] = sth[u]
      BY <1>1, <2>1
    <2> QED BY <2>1, <2>2 DEF Taken, ClearsFirst
  <1>7. \A x : InFlight(x) => InFlight(x)'
    BY <1>1, <1>3, <1>4, <1>6 DEF InFlight
  <1>8. \A x : Dull(x)' = Dull(x)
    BY <1>1 DEF Dull
  <1>9. e \in net.armed \/ InFlight(e)'
    <2>1. CASE ClearsFirst(sth[t])
      <3>1. Taken(e)'
        BY <1>1, <1>2, <2>1 DEF Taken
      <3> QED BY <3>1 DEF InFlight
    <2>2. CASE ~ClearsFirst(sth[t])
      <3>1. e \in net.armed \/ InFlight(e) \/ sth[t].seen
        BY <1>3, <1>5, <2>2 DEF SocketsReady, ClearSafe
      <3>2. sth[t].seen => e \in lost'
        BY <1>1, <2>2
      <3>3. e \in lost' => InFlight(e)'
        BY DEF InFlight
      <3> QED BY <1>7, <3>1, <3>2, <3>3
    <2> QED BY <2>1, <2>2
  <1>10. Kept'
    <2> SUFFICES ASSUME NEW x \in Event PROVE x \in net'.armed \cup events' \/ InFlight(x)' \/ Dull(x)'
      BY DEF Kept
    <2>1. x \in net.armed \cup events \/ InFlight(x) \/ Dull(x)
      BY DEF SocketsReady, Kept
    <2> QED BY <1>1, <1>7, <1>8, <1>9, <2>1
  <1>11. ArmedNotPresent'
    BY <1>1 DEF SocketsReady, ArmedNotPresent, Present
  <1>12. ClearSafe'
    <2> SUFFICES ASSUME NEW u \in Caller, NEW x \in Event, Clearing(sth'[u], x)
                 PROVE  x \in net'.armed \/ InFlight(x)' \/ sth'[u].seen
      BY DEF ClearSafe
    <2>1. sth'[u] = sth[u]
      BY <1>1 DEF Clearing
    <2>2. x \in net.armed \/ InFlight(x) \/ sth[u].seen
      BY <2>1 DEF SocketsReady, ClearSafe
    <2> QED BY <1>1, <1>7, <2>1, <2>2
  <1>13. RobberKnown'
    BY <1>1, <1>4 DEF SocketsReady, RobberKnown
  <1>14. SleepSafe'
    <2> SUFFICES ASSUME NEW u \in Caller, sth'[u].at = "wait", NEW x \in Wanted(sth'[u].op)
                 PROVE  x \in net'.armed \cup lost' \/ net'.recorded # {} \/ sth'[u].robbed \/ Dull(x)'
      <3> HIDE DEF Wanted
      <3> QED BY DEF SleepSafe
    <2>1. sth'[u] = sth[u]
      BY <1>1
    <2>2. x \in net.armed \cup lost \/ net.recorded # {} \/ sth[u].robbed \/ Dull(x)
      BY <2>1 DEF SocketsReady, SleepSafe
    <2> QED BY <1>1, <1>3, <1>8, <2>1, <2>2
  <1>15. Connected' = Connected
    BY <1>1, <1>2, <1>4 DEF Connected
  <1>16. ConnectOnce'
    BY <1>1, <1>2, <1>4, <1>15 DEF SocketsReady, ConnectOnce
  <1>17. ConnectTruthful'
    <2>1. sth[t].op # "connect"
      BY <1>1 DEF Op, Receiving, Sending
    <2> QED BY <1>1, <2>1 DEF SocketsReady, ConnectTruthful
  <1> QED BY <1>1, <1>10, <1>11, <1>12, <1>13, <1>14, <1>16, <1>17 DEF SocketsReady

(* A process is killed: what its thread had is lost, and its mutex is free. *)
LEMMA KillStep ==
  ASSUME Shape, SocketsReady, NEW t \in Caller, KillCaller(t)
  PROVE  Shape' /\ SocketsReady'
  <1> DEFINE c == [NoSocketCall EXCEPT !.at = "dead"]
             taken == sth[t].at = "call" /\ ClearsFirst(sth[t])
  <1>1. /\ sth' = [sth EXCEPT ![t] = c] /\ smutex' = (IF smutex = t THEN "none" ELSE smutex)
        /\ lost' = lost \cup sth[t].e \cup (IF taken THEN {"READ"} ELSE {})
        /\ UNCHANGED <<net, events, connect_error, scalls>>
    BY DEF KillCaller
  <1>2. c \in CallType /\ c.at = "dead" /\ c.op = "none" /\ c.e = {}
    BY NoCallType DEF CallType
  <1> HIDE DEF c
  <1>3. sth' \in [Caller -> CallType] /\ sth'[t] = c /\ \A u \in Caller : u # t => sth'[u] = sth[u]
    BY <1>1, <1>2 DEF Shape, Types
  <1>4. sth[t].e \subseteq Event
    BY DEF Shape, Types, CallType
  <1>5. Shape'
    <2>1. Types'
      BY <1>1, <1>3, <1>4 DEF Shape, Types, Event
    <2>2. ASSUME NEW u \in Caller PROVE SocketCallOK(sth[u])'
      <3>1. CASE u = t
        BY <1>2, <1>3, <3>1 DEF SocketCallOK, Active, Op, Receiving, Sending
      <3>2. CASE u # t
        BY <1>1, <1>3, <3>2 DEF Shape, CallsOK, SocketCallOK, CallsOf, ClearsFirst
      <3> QED BY <3>1, <3>2
    <2>3. ASSUME NEW u \in Caller, Holds(sth'[u]) PROVE smutex' = u
      <3>1. u # t
        BY <1>2, <1>3, <2>3 DEF Holds, Active
      <3>2. smutex = u
        BY <1>3, <2>3, <3>1 DEF Shape, Exclusion
      <3> QED BY <1>1, <3>1, <3>2
    <2> QED BY <2>1, <2>2, <2>3 DEF Shape, CallsOK, Exclusion, Holds
  <1>6. /\ \A u \in Caller : u # t => sth'[u] = sth[u]
        /\ sth'[t].at = "dead" /\ sth'[t].op = "none" /\ sth'[t].e = {}
        /\ net' = net /\ events' = events /\ connect_error' = connect_error
        /\ lost \subseteq lost' /\ sth[t].e \subseteq lost' /\ (taken => "READ" \in lost')
    BY <1>1, <1>2, <1>3
  <1>7. \A x : Taken(x) => Taken(x)' \/ x \in lost'
    <2> SUFFICES ASSUME NEW x, Taken(x), x \notin lost' PROVE Taken(x)'
      OBVIOUS
    <2>1. PICK u \in Caller : x = "READ" /\ sth[u].at = "call" /\ ClearsFirst(sth[u])
      BY DEF Taken
    <2>2. sth'[u] = sth[u]
      BY <1>6, <2>1
    <2> QED BY <2>1, <2>2 DEF Taken, ClearsFirst
  <1> HIDE DEF taken
  <1>8. \A x : x \in lost' => InFlight(x)'
    BY DEF InFlight
  <1>9. \A x : InFlight(x) => InFlight(x)'
    <2> SUFFICES ASSUME NEW x, InFlight(x), x \notin lost' PROVE InFlight(x)'
      BY <1>8
    <2>1. CASE x \in net.recorded
      BY <1>6, <2>1 DEF InFlight
    <2>2. ASSUME NEW u \in Caller, x \in sth[u].e PROVE InFlight(x)'
      <3>1. sth'[u] = sth[u]
        BY <1>6, <2>2
      <3> QED BY <2>2, <3>1 DEF InFlight
    <2>3. CASE Taken(x)
      BY <1>7, <2>3 DEF InFlight
    <2> QED BY <1>6, <2>1, <2>2, <2>3 DEF InFlight
  <1>10. \A x : Dull(x)' = Dull(x)
    BY <1>6 DEF Dull
  <1>11. Kept'
    BY <1>6, <1>9, <1>10 DEF SocketsReady, Kept
  <1>12. ArmedNotPresent'
    BY <1>6 DEF SocketsReady, ArmedNotPresent, Present
  <1>13. ClearSafe'
    <2> SUFFICES ASSUME NEW u \in Caller, NEW x \in Event, Clearing(sth'[u], x)
                 PROVE  x \in net'.armed \/ InFlight(x)' \/ sth'[u].seen
      BY DEF ClearSafe
    <2>1. sth'[u] = sth[u]
      BY <1>6 DEF Clearing
    <2>2. x \in net.armed \/ InFlight(x) \/ sth[u].seen
      BY <2>1 DEF SocketsReady, ClearSafe
    <2> QED BY <1>6, <1>9, <2>1, <2>2
  <1>14. RobberKnown'
    BY <1>6 DEF SocketsReady, RobberKnown
  <1>15. SleepSafe'
    <2> SUFFICES ASSUME NEW u \in Caller, sth'[u].at = "wait", NEW x \in Wanted(sth'[u].op)
                 PROVE  x \in net'.armed \cup lost' \/ net'.recorded # {} \/ sth'[u].robbed \/ Dull(x)'
      <3> HIDE DEF Wanted
      <3> QED BY DEF SleepSafe
    <2>1. sth'[u] = sth[u]
      BY <1>6
    <2>2. x \in net.armed \cup lost \/ net.recorded # {} \/ sth[u].robbed \/ Dull(x)
      BY <2>1 DEF SocketsReady, SleepSafe
    <2> QED BY <1>6, <1>10, <2>1, <2>2
  <1>16. Connected' => Connected
    BY <1>6 DEF Connected
  <1>17. ConnectOnce'
    BY <1>6, <1>16 DEF SocketsReady, ConnectOnce
  <1>18. ConnectTruthful'
    BY <1>6 DEF SocketsReady, ConnectTruthful
  <1> QED BY <1>5, <1>11, <1>12, <1>13, <1>14, <1>15, <1>17, <1>18 DEF SocketsReady

-----------------------------------------------------------------------------
(* Every step keeps the readiness where it can be found.                   *)
LEMMA ReadyStep == Shape /\ SocketsReady /\ [SocketsNext]_socketVars => (Shape /\ SocketsReady)'
  <1> SUFFICES ASSUME Shape, SocketsReady, [SocketsNext]_socketVars PROVE Shape' /\ SocketsReady'
    OBVIOUS
  <1>1. CASE UNCHANGED socketVars
    <2>1. Shape'
      BY <1>1 DEF socketVars, Shape, Types, CallsOK, SocketCallOK, CallsOf, Exclusion, Holds, ClearsFirst
    <2>2. ArmedNotPresent' /\ Kept' /\ ClearSafe'
      BY <1>1 DEF socketVars, SocketsReady, ArmedNotPresent, Present, Kept, InFlight, Taken, Dull,
                  ClearSafe, Clearing, ClearsFirst
    <2>3. RobberKnown' /\ SleepSafe' /\ ConnectOnce' /\ ConnectTruthful'
      BY <1>1 DEF socketVars, SocketsReady, RobberKnown, SleepSafe, Dull, ConnectOnce, Connected,
                  ConnectTruthful
    <2> QED BY <2>1, <2>2, <2>3 DEF SocketsReady
  <1>2. CASE Arrive \/ SendBufferDrains \/ PeerCloses \/ PeerAnswers
    BY <1>2, ArriveStep, DrainStep, PeerClosesStep, AnswerStep
  <1>3. ArmedNotPresent
    BY DEF SocketsReady
  <1>4. ASSUME NEW t \in Caller, NEW op \in Op \cup {"connect", "poll"}, NEW peek \in BOOLEAN,
               NEW block \in BOOLEAN, BeginSocketCall(t, op, peek, block)
        PROVE  Shape' /\ SocketsReady'
    BY <1>3, <1>4, BeginCalm, SocketCalmStep
  <1>5. ASSUME NEW t \in Caller, LockSocket(t) PROVE Shape' /\ SocketsReady'
    BY <1>3, <1>5, LockCalm, SocketCalmStep
  <1>6. ASSUME NEW t \in Caller, Woken(t) \/ Interrupted(t) PROVE Shape' /\ SocketsReady'
    BY <1>3, <1>6, WakeCalm, SocketCalmStep
  <1>7. ASSUME NEW t \in Caller, UnlockSocket(t) PROVE Shape' /\ SocketsReady'
    BY <1>3, <1>7, UnlockCalm, SocketCalmStep
  <1>8. ASSUME NEW t \in Caller, Connect(t) PROVE Shape' /\ SocketsReady'
    BY <1>3, <1>8, ConnectCalm, SocketCalmStep
  <1>9. ASSUME NEW t \in Caller, Receive(t) PROVE Shape' /\ SocketsReady'
    BY <1>3, <1>9, ReceiveServes, ServesStep
  <1>10. ASSUME NEW t \in Caller, ReceiveFails(t) PROVE Shape' /\ SocketsReady'
    BY <1>3, <1>10, FailureServes, ServesStep
  <1>11. ASSUME NEW t \in Caller, Accept(t) PROVE Shape' /\ SocketsReady'
    BY <1>3, <1>11, AcceptServes, ServesStep
  <1>12. ASSUME NEW t \in Caller, Send(t) PROVE Shape' /\ SocketsReady'
    BY <1>3, <1>12, SendServes, ServesStep
  <1>13. ASSUME NEW t \in Caller, NEW op \in {"recvfrom", "recvmsg", "sendto", "sendmsg", "accept4", "connect"},
                NEW peek \in BOOLEAN, NEW block \in BOOLEAN, BeginSocketCall(t, op, peek, block)
         PROVE  Shape' /\ SocketsReady'
    <2>1. op \in Op \cup {"connect", "poll"}
      BY DEF Op, Receiving, Sending
    <2> QED BY <1>4, <1>13, <2>1
  <1>14. ASSUME NEW t \in Caller, BeginSocketCall(t, "poll", FALSE, FALSE) PROVE Shape' /\ SocketsReady'
    BY <1>4, <1>14
  <1> QED BY <1>1, <1>2, <1>5, <1>6, <1>7, <1>8, <1>9, <1>10, <1>11, <1>12, <1>13, <1>14,
             CollectStep, MergeStep, ClearStep, KillStep DEF SocketsNext

(***************************************************************************)
(* SocketsExact holds of the sockets alone, for any number of threads and  *)
(* any limit: readiness that is there stays visible or is counted as lost, *)
(* a call sleeps through what it waits for only when another thread took   *)
(* the announcement, and a connect that returns 0 is connected.            *)
(***************************************************************************)
THEOREM ReadinessSafe == SocketsSpec => []SocketsExact
  <1>1. SocketsInit => Shape /\ SocketsReady
    BY ReadyInit
  <1>2. Shape /\ SocketsReady /\ [SocketsNext]_socketVars => (Shape /\ SocketsReady)'
    BY ReadyStep
  <1>3. Shape /\ SocketsReady => SocketsExact
    BY ReadyExact
  <1> QED BY <1>1, <1>2, <1>3, PTL DEF SocketsSpec

-----------------------------------------------------------------------------
(* The pointer of an open file.                                            *)

FPlaces == {"idle", "lock", "move", "moved", "seek", "unlock", "dead"}
FOps    == {"none", "read", "write", "append", "pread", "pwrite", "stat", "llseek"}
FCallType == [at : FPlaces, op : FOps, left : Int, off : Int, saved : Int, done : Int]

PointerTypeOK ==
  /\ ptr \in Int /\ fsize \in Int /\ logical \in Int /\ torn \in BOOLEAN
  /\ fmutex \in FThread \cup {"none"}
  /\ fth \in [FThread -> FCallType]

(* A call that has the pointer away from where it found it.                *)
Away(c) == c.op \in Saving /\ c.at \in {"move", "moved"}

(* Only the thread with the mutex is past its lock: that alone makes the   *)
(* pointer one call's business. It is where it should be unless that call  *)
(* has it away, and then the call has kept the place.                      *)
PointerInv ==
  /\ PointerTypeOK
  /\ \A t \in FThread :
       /\ fth[t].at \in {"move", "moved", "seek", "unlock"} => fmutex = t
       /\ fth[t].at = "seek" => fth[t].op = "llseek"
  /\ torn \/ /\ \A t \in FThread : Away(fth[t]) => fth[t].saved = logical
             /\ (\A t \in FThread : ~Away(fth[t])) => ptr = logical

LEMMA PointerInvInit == PointerInit => PointerInv
  <1> SUFFICES ASSUME PointerInit PROVE PointerInv
    OBVIOUS
  <1>1. FIdle \in FCallType /\ FIdle.at = "idle"
    BY DEF FIdle, FCallType, FPlaces, FOps
  <1>2. \A t \in FThread : fth[t] = FIdle
    BY DEF PointerInit
  <1>3. fsize \in Int /\ ptr \in Int /\ logical \in Int
    BY MaxFileAssumption DEF PointerInit
  <1>4. fth \in [FThread -> FCallType]
    BY <1>1 DEF PointerInit
  <1>5. PointerTypeOK
    BY <1>3, <1>4 DEF PointerInit, PointerTypeOK
  <1> QED BY <1>1, <1>2, <1>5 DEF PointerInit, PointerInv, Away

(* What is said of the pointer follows.                                    *)
LEMMA PointerInvKept == PointerInv => PointerKept
  <1> SUFFICES ASSUME PointerInv, ~torn PROVE PointerKept
    BY DEF PointerKept
  <1>1. ASSUME fmutex = "none" PROVE ptr = logical
    BY <1>1, FThreadAssumption DEF PointerInv, Away
  <1>2. ASSUME NEW t \in FThread, fth[t].at \in {"move", "seek"}, fth[t].op \notin Saving
        PROVE  ptr = logical
    BY <1>2 DEF PointerInv, Away
  <1> QED BY <1>1, <1>2 DEF PointerKept

(* One call changes.                                                       *)
LEMMA CallChanges ==
  ASSUME PointerInv, NEW t \in FThread, NEW from, NEW c \in FCallType, FGo(t, from, c)
  PROVE  /\ fth' \in [FThread -> FCallType] /\ fth[t].at = from
         /\ fth'[t] = c /\ \A u \in FThread : u # t => fth'[u] = fth[u]
  BY DEF PointerInv, PointerTypeOK, FGo

LEMMA CallFields ==
  ASSUME NEW c \in FCallType
  PROVE  /\ c.at \in FPlaces /\ c.op \in FOps /\ c.left \in Int /\ c.off \in Int
         /\ c.saved \in Int /\ c.done \in Int
  BY DEF FCallType

(* A call as it starts, goes on and reaches its end.                       *)
Started(op, n, off, d) == [FIdle EXCEPT !.at = "lock", !.op = op, !.left = n, !.off = off,
                                        !.done = d]
Onward(b, l, o)   == [b EXCEPT !.left = l, !.off = o]
MovedTo(b, a, l, o) == [b EXCEPT !.at = a, !.left = l, !.off = o]

LEMMA CallStarted ==
  ASSUME NEW op \in FOps, NEW n, n \in Int, NEW off, off \in Int, NEW d, d \in Int
  PROVE  Started(op, n, off, d) \in FCallType /\ Started(op, n, off, d).at = "lock"
  <1> DEFINE b1 == [FIdle EXCEPT !.at = "lock"]
             b2 == [b1 EXCEPT !.op = op]
             b3 == [b2 EXCEPT !.left = n]
             b4 == [b3 EXCEPT !.off = off]
             b5 == [b4 EXCEPT !.done = d]
  <1>1. b1 \in FCallType /\ b1.at = "lock"
    BY DEF FIdle, FCallType, FPlaces, FOps
  <1>2. Started(op, n, off, d) = b5
    BY DEF Started
  <1> HIDE DEF b1
  <1>3. b2 \in FCallType /\ b2.at = "lock"
    BY <1>1 DEF FCallType
  <1> HIDE DEF b2
  <1>4. b3 \in FCallType /\ b3.at = "lock"
    BY <1>3 DEF FCallType
  <1> HIDE DEF b3
  <1>5. b4 \in FCallType /\ b4.at = "lock"
    BY <1>4 DEF FCallType
  <1> HIDE DEF b4
  <1>6. b5 \in FCallType /\ b5.at = "lock"
    BY <1>5 DEF FCallType
  <1> QED BY <1>2, <1>6

LEMMA CallGoesOn ==
  ASSUME NEW b \in FCallType, NEW l, l \in Int, NEW o, o \in Int
  PROVE  /\ Onward(b, l, o) \in FCallType /\ Onward(b, l, o).at = b.at
         /\ Onward(b, l, o).op = b.op /\ Onward(b, l, o).saved = b.saved
  BY DEF FCallType, Onward

LEMMA CallMoved ==
  ASSUME NEW b \in FCallType, NEW a \in FPlaces, NEW l, l \in Int, NEW o, o \in Int
  PROVE  /\ MovedTo(b, a, l, o) \in FCallType /\ MovedTo(b, a, l, o).at = a
         /\ MovedTo(b, a, l, o).op = b.op /\ MovedTo(b, a, l, o).saved = b.saved
  BY DEF FCallType, MovedTo

LEMMA CallEnds ==
  ASSUME NEW b \in FCallType, NEW l, l \in Int,
         NEW c, c = [b EXCEPT !.at = "moved", !.left = l]
  PROVE  c \in FCallType /\ c.at = "moved" /\ c.op = b.op /\ c.saved = b.saved
  BY DEF FCallType, FPlaces

LEMMA LargerOf ==
  ASSUME NEW a \in Int, NEW b \in Int
  PROVE  FX!Max({a, b}) = IF a >= b THEN a ELSE b
  BY DEF FX!Max

LEMMA SmallerOf ==
  ASSUME NEW a \in Int, NEW b \in Int
  PROVE  FX!Min({a, b}) = IF a <= b THEN a ELSE b
  BY DEF FX!Min

(* A step of the thread with the mutex, after which it has it still or     *)
(* leaves it to nobody.                                                    *)
LEMMA HolderStep ==
  ASSUME PointerInv, NEW t \in FThread, NEW c \in FCallType,
         fth' \in [FThread -> FCallType], fth'[t] = c,
         \A u \in FThread : u # t => fth'[u] = fth[u],
         fmutex \in {t, "none"}, fmutex' \in {t, "none"},
         c.at \in {"move", "moved", "seek", "unlock"} => fmutex' = t,
         c.at = "seek" => c.op = "llseek",
         ptr' \in Int, fsize' \in Int, logical' \in Int, torn' = torn,
         torn \/ (IF Away(c) THEN c.saved = logical' ELSE ptr' = logical')
  PROVE  PointerInv'
  <1>1. \A u \in FThread : u # t => fth'[u].at \notin {"move", "moved", "seek", "unlock"}
    BY FThreadAssumption DEF PointerInv
  <1>2. \A u \in FThread : u # t => ~Away(fth'[u])
    BY <1>1 DEF Away
  <1>3. PointerTypeOK'
    BY DEF PointerInv, PointerTypeOK
  <1> QED BY <1>1, <1>2, <1>3 DEF PointerInv, Away

(* A step of a thread that has the pointer nowhere, before and after.      *)
LEMMA BystanderStep ==
  ASSUME PointerInv, NEW t \in FThread, NEW c \in FCallType,
         fth' \in [FThread -> FCallType], fth'[t] = c,
         \A u \in FThread : u # t => fth'[u] = fth[u],
         fth[t].at \notin {"move", "moved"},
         c.at \in {"idle", "lock"},
         UNCHANGED <<ptr, fsize, fmutex, logical, torn>>
  PROVE  PointerInv'
  <1>1. ~Away(fth[t]) /\ ~Away(c)
    BY DEF Away
  <1>2. PointerTypeOK'
    BY DEF PointerInv, PointerTypeOK
  <1>3. \A u \in FThread : Away(fth'[u]) <=> Away(fth[u])
    BY <1>1
  <1> QED BY <1>1, <1>2, <1>3 DEF PointerInv

(* Where the pointer is when a thread may take the mutex, or has it.       *)
LEMMA PointerFound ==
  ASSUME PointerInv, NEW t \in FThread, fmutex \in {t, "none"}, ~torn
  PROVE  IF Away(fth[t]) THEN fth[t].saved = logical ELSE ptr = logical
  <1>1. \A u \in FThread : u # t => ~Away(fth[u])
    BY FThreadAssumption DEF PointerInv, Away
  <1> QED BY <1>1 DEF PointerInv

LEMMA LockKeeps ==
  ASSUME PointerInv, NEW t \in FThread, Lock(t)
  PROVE  PointerInv'
  <1> DEFINE c == [fth[t] EXCEPT !.at = IF fth[t].op = "llseek" THEN "seek" ELSE "move",
                                 !.saved = ptr]
  <1>1. fth[t] \in FCallType /\ ptr \in Int
    BY DEF PointerInv, PointerTypeOK
  <1>2. /\ c \in FCallType /\ c.saved = ptr /\ c.op = fth[t].op
        /\ c.at \in {"move", "seek"} /\ (c.at = "seek" => c.op = "llseek")
    BY <1>1 DEF FCallType, FPlaces
  <1>3. FGo(t, "lock", c) /\ fmutex \in {t, "none"} /\ fmutex' = t
          /\ UNCHANGED <<ptr, fsize, logical, torn>>
    BY DEF Lock
  <1> HIDE DEF c
  <1>4. /\ fth' \in [FThread -> FCallType] /\ fth[t].at = "lock"
        /\ fth'[t] = c /\ \A u \in FThread : u # t => fth'[u] = fth[u]
    BY <1>2, <1>3, CallChanges
  <1>5. torn \/ ptr = logical
    BY <1>3, <1>4, PointerFound DEF Away
  <1>6. torn \/ (IF Away(c) THEN c.saved = logical' ELSE ptr' = logical')
    BY <1>2, <1>3, <1>5
  <1>7. ptr' \in Int /\ fsize' \in Int /\ logical' \in Int /\ torn' = torn
    BY <1>3 DEF PointerInv, PointerTypeOK
  <1> QED BY <1>2, <1>3, <1>4, <1>6, <1>7, HolderStep

LEMMA ReadSomeKeeps ==
  ASSUME PointerInv, NEW t \in FThread, ReadSome(t)
  PROVE  PointerInv'
  <1> DEFINE b == fth[t]
             at == IF b.op = "read" THEN ptr ELSE b.off
             k == IF at >= fsize THEN 0 ELSE FX!Min({b.left, fsize - at})
             c == IF k = 0 \/ k = b.left THEN [b EXCEPT !.at = "moved", !.left = @ - k]
                  ELSE [b EXCEPT !.left = @ - k, !.off = @ + k]
  <1>1. b \in FCallType /\ ptr \in Int /\ fsize \in Int /\ logical \in Int
    BY DEF PointerInv, PointerTypeOK
  <1>2. at \in Int
    BY <1>1, CallFields
  <1>3. k \in Int
    <2>1. FX!Min({b.left, fsize - at}) \in Int
      BY <1>1, <1>2, CallFields, SmallerOf
    <2> QED BY <2>1
  <1>4. /\ FGo(t, "move", c) /\ b.op \in {"read", "pread", "stat"}
        /\ ptr' = IF k = 0 THEN ptr ELSE at + k
        /\ logical' = IF b.op = "read" THEN logical + k ELSE logical
        /\ UNCHANGED <<fsize, fmutex, torn>>
    BY DEF ReadSome
  <1>5. b.at = "move"
    BY <1>4 DEF FGo
  <1>6. c \in FCallType /\ c.at \in {"move", "moved"} /\ c.op = b.op /\ c.saved = b.saved
    <2>1. b.left - k \in Int /\ b.off + k \in Int
      BY <1>1, <1>3, CallFields
    <2> HIDE DEF k
    <2>2. CASE k = 0 \/ k = b.left
      <3>1. c = [b EXCEPT !.at = "moved", !.left = b.left - k]
        BY <2>2
      <3> HIDE DEF c, b
      <3> QED BY <1>1, <2>1, <3>1, CallEnds
    <2>3. CASE ~(k = 0 \/ k = b.left)
      <3> DEFINE l == b.left - k
                 o == b.off + k
      <3>1. c = Onward(b, l, o) /\ l \in Int /\ o \in Int
        BY <2>1, <2>3 DEF Onward
      <3> HIDE DEF c, b, l, o
      <3>2. c \in FCallType /\ c.at = b.at /\ c.op = b.op /\ c.saved = b.saved
        BY <1>1, <3>1, CallGoesOn
      <3> QED BY <1>5, <3>2
    <2> QED BY <2>2, <2>3
  <1>7. fmutex = t
    BY <1>5 DEF PointerInv
  <1>8. torn \/ (IF Away(b) THEN b.saved = logical ELSE ptr = logical)
    BY <1>7, PointerFound
  <1>9. ptr' \in Int /\ fsize' \in Int /\ logical' \in Int /\ torn' = torn /\ fmutex' = t
    BY <1>1, <1>2, <1>3, <1>4, <1>7
  <1>10. b.op = "read" => (ptr = logical => ptr' = logical')
    <2> SUFFICES ASSUME b.op = "read", ptr = logical PROVE ptr' = logical'
      OBVIOUS
    <2>1. at = ptr
      OBVIOUS
    <2> HIDE DEF k, at
    <2> QED BY <1>1, <1>3, <1>4, <2>1
  <1>11. Away(c) <=> Away(b)
    BY <1>5, <1>6 DEF Away
  <1>12. Away(b) <=> b.op # "read"
    BY <1>4, <1>5 DEF Away, Saving
  <1> HIDE DEF b, at, k, c
  <1>13. torn \/ (IF Away(c) THEN c.saved = logical' ELSE ptr' = logical')
    BY <1>4, <1>6, <1>8, <1>10, <1>11, <1>12
  <1>14. /\ fth' \in [FThread -> FCallType]
         /\ fth'[t] = c /\ \A u \in FThread : u # t => fth'[u] = fth[u]
    BY <1>4, <1>6, CallChanges
  <1> QED BY <1>6, <1>7, <1>9, <1>13, <1>14, HolderStep

LEMMA WriteSomeKeeps ==
  ASSUME PointerInv, NEW t \in FThread, WriteSome(t)
  PROVE  PointerInv'
  <1> DEFINE b == fth[t]
             at == CASE b.op = "write" -> ptr [] b.op = "append" -> fsize [] OTHER -> b.off
  <1>1. b \in FCallType /\ ptr \in Int /\ fsize \in Int /\ logical \in Int
    BY DEF PointerInv, PointerTypeOK
  <1>2. at \in Int
    BY <1>1, CallFields
  <1>3. PICK k \in 1 .. b.left :
          /\ b.op \in {"write", "append", "pwrite"}
          /\ FGo(t, "move", [b EXCEPT !.at = IF k = b.left THEN "moved" ELSE "move",
                                      !.left = @ - k, !.off = @ + k])
          /\ ptr' = at + k /\ fsize' = FX!Max({fsize, at + k})
          /\ logical' = CASE b.op = "write" -> logical + k [] b.op = "append" -> fsize'
                          [] OTHER -> logical
          /\ UNCHANGED <<fmutex, torn>>
    BY DEF WriteSome
  <1>4. k \in Int /\ k > 0
    BY <1>1, <1>3, CallFields
  <1> DEFINE c == [b EXCEPT !.at = IF k = b.left THEN "moved" ELSE "move",
                            !.left = @ - k, !.off = @ + k]
  <1>5. b.at = "move"
    BY <1>3 DEF FGo
  <1>6. c \in FCallType /\ c.at \in {"move", "moved"} /\ c.op = b.op /\ c.saved = b.saved
    <2>1. b.left - k \in Int /\ b.off + k \in Int
      BY <1>1, <1>4, CallFields
    <2> DEFINE a == IF k = b.left THEN "moved" ELSE "move"
    <2>2. a \in FPlaces /\ a \in {"move", "moved"}
      BY DEF FPlaces
    <2> DEFINE l == b.left - k
               o == b.off + k
    <2>3. c = MovedTo(b, a, l, o) /\ l \in Int /\ o \in Int
      BY <2>1 DEF MovedTo
    <2> HIDE DEF a, b, c, l, o
    <2>4. /\ MovedTo(b, a, l, o) \in FCallType /\ MovedTo(b, a, l, o).at = a
          /\ MovedTo(b, a, l, o).op = b.op /\ MovedTo(b, a, l, o).saved = b.saved
      <3>1. b \in FCallType /\ a \in FPlaces /\ l \in Int /\ o \in Int
        BY <1>1, <2>2, <2>3
      <3> QED BY ONLY <3>1, CallMoved
    <2> QED BY <2>2, <2>3, <2>4
  <1>7. fmutex = t
    BY <1>5 DEF PointerInv
  <1>8. torn \/ (IF Away(b) THEN b.saved = logical ELSE ptr = logical)
    BY <1>7, PointerFound
  <1>9. fsize' = IF fsize >= at + k THEN fsize ELSE at + k
    BY <1>1, <1>2, <1>3, <1>4, LargerOf
  <1>10. ptr' \in Int /\ fsize' \in Int /\ logical' \in Int /\ torn' = torn /\ fmutex' = t
    <2>1. ptr' = at + k /\ torn' = torn /\ fmutex' = t
      BY <1>3, <1>7
    <2>2. logical' \in {logical + k, fsize', logical}
      BY <1>3
    <2>3. at + k \in Int /\ logical + k \in Int
      BY <1>1, <1>2, <1>4
    <2> HIDE DEF at
    <2>4. fsize' \in Int
      BY <1>1, <1>9, <2>3
    <2> QED BY <1>1, <2>1, <2>2, <2>3, <2>4
  <1>11. b.op = "write" => (ptr = logical => ptr' = logical')
    BY <1>1, <1>3
  <1>12. b.op = "append" => ptr' = logical'
    <2> SUFFICES ASSUME b.op = "append" PROVE ptr' = logical'
      OBVIOUS
    <2>1. at = fsize /\ logical' = fsize' /\ ptr' = at + k
      BY <1>3
    <2> QED BY <2>1, <1>1, <1>4, <1>9
  <1>13. b.op = "pwrite" => logical' = logical
    BY <1>3
  <1>14. Away(c) <=> Away(b)
    BY <1>5, <1>6 DEF Away
  <1>15. Away(b) <=> b.op = "pwrite"
    BY <1>3, <1>5 DEF Away, Saving
  <1>16. FGo(t, "move", c) /\ b.op \in {"write", "append", "pwrite"}
    BY <1>3
  <1> HIDE DEF b, at, c
  <1>17. torn \/ (IF Away(c) THEN c.saved = logical' ELSE ptr' = logical')
    BY <1>6, <1>8, <1>11, <1>12, <1>13, <1>14, <1>15, <1>16
  <1>18. /\ fth' \in [FThread -> FCallType]
         /\ fth'[t] = c /\ \A u \in FThread : u # t => fth'[u] = fth[u]
    BY <1>6, <1>16, CallChanges
  <1> QED BY <1>6, <1>7, <1>10, <1>17, <1>18, HolderStep

LEMMA RestoreKeeps ==
  ASSUME PointerInv, NEW t \in FThread, Restore(t)
  PROVE  PointerInv'
  <1> DEFINE b == fth[t]
             c == [b EXCEPT !.at = "unlock"]
  <1>1. b \in FCallType
    BY DEF PointerInv, PointerTypeOK
  <1>2. FGo(t, "moved", c) /\ b.op \in Saving /\ ptr' = b.saved
          /\ UNCHANGED <<fsize, fmutex, logical, torn>>
    BY DEF Restore
  <1>3. b.at = "moved"
    BY <1>2 DEF FGo
  <1>4. fmutex = t
    BY <1>3 DEF PointerInv
  <1>5. torn \/ b.saved = logical
    BY <1>2, <1>3, <1>4, PointerFound DEF Away
  <1>6. c \in FCallType /\ c.at = "unlock"
    BY <1>1 DEF FCallType, FPlaces
  <1>7. ptr' \in Int /\ fsize' \in Int /\ logical' \in Int /\ torn' = torn /\ fmutex' = t
    BY <1>1, <1>2, <1>4, CallFields DEF PointerInv, PointerTypeOK
  <1> HIDE DEF b, c
  <1>8. torn \/ (IF Away(c) THEN c.saved = logical' ELSE ptr' = logical')
    BY <1>2, <1>5, <1>6 DEF Away
  <1>9. /\ fth' \in [FThread -> FCallType]
        /\ fth'[t] = c /\ \A u \in FThread : u # t => fth'[u] = fth[u]
    BY <1>2, <1>6, CallChanges
  <1> QED BY <1>4, <1>6, <1>7, <1>8, <1>9, HolderStep

(* A call in the mutex ends, or moved the pointer for good.                *)
LEMMA SeekKeeps ==
  ASSUME PointerInv, NEW t \in FThread, Seek(t)
  PROVE  PointerInv'
  <1> DEFINE b == fth[t]
             Base(w, p) == CASE w = "SET" -> 0 [] w = "CUR" -> p [] w = "END" -> fsize
  <1>1. b \in FCallType /\ ptr \in Int /\ fsize \in Int /\ logical \in Int
    BY DEF PointerInv, PointerTypeOK
  <1>2. PICK w \in {"SET", "CUR", "END"} :
          /\ IF Base(w, ptr) + b.off < 0
             THEN FGo(t, "seek", [FIdle EXCEPT !.done = b.done]) /\ UNCHANGED <<ptr, logical>>
             ELSE /\ FGo(t, "seek", [b EXCEPT !.at = "unlock"])
                  /\ ptr' = Base(w, ptr) + b.off /\ logical' = Base(w, logical) + b.off
          /\ UNCHANGED <<fsize, fmutex, torn>>
    BY DEF Seek
  <1>3. b.at = "seek" /\ b.op = "llseek" /\ fmutex = t
    BY <1>2 DEF FGo, PointerInv
  <1>4. ~Away(b)
    BY <1>3 DEF Away
  <1>5. torn \/ ptr = logical
    BY <1>3, <1>4, PointerFound
  <1>6. CASE Base(w, ptr) + b.off < 0
    <2> DEFINE c == [FIdle EXCEPT !.done = b.done]
    <2>1. c \in FCallType /\ c.at = "idle"
      BY <1>1, CallFields DEF FIdle, FCallType, FPlaces, FOps
    <2>2. FGo(t, "seek", c) /\ UNCHANGED <<ptr, fsize, fmutex, logical, torn>>
      BY <1>2, <1>6
    <2> HIDE DEF c
    <2>3. /\ fth' \in [FThread -> FCallType]
          /\ fth'[t] = c /\ \A u \in FThread : u # t => fth'[u] = fth[u]
      BY <2>1, <2>2, CallChanges
    <2> QED BY <1>3, <2>1, <2>2, <2>3, BystanderStep
  <1>7. CASE ~(Base(w, ptr) + b.off < 0)
    <2> DEFINE c == [b EXCEPT !.at = "unlock"]
    <2>1. c \in FCallType /\ c.at = "unlock"
      BY <1>1 DEF FCallType, FPlaces
    <2>2. FGo(t, "seek", c) /\ UNCHANGED <<fsize, fmutex, torn>>
          /\ ptr' = Base(w, ptr) + b.off /\ logical' = Base(w, logical) + b.off
      BY <1>2, <1>7
    <2>3. Base(w, ptr) \in Int /\ Base(w, logical) \in Int /\ b.off \in Int
      BY <1>1, CallFields
    <2> HIDE DEF c, b, Base
    <2>4. /\ fth' \in [FThread -> FCallType]
          /\ fth'[t] = c /\ \A u \in FThread : u # t => fth'[u] = fth[u]
      BY <2>1, <2>2, CallChanges
    <2>5. torn \/ ptr' = logical'
      BY <1>5, <2>2
    <2>6. ~Away(c)
      BY <2>1 DEF Away
    <2>7. ptr' \in Int /\ fsize' \in Int /\ logical' \in Int /\ torn' = torn /\ fmutex' = t
      BY <1>1, <1>3, <2>2, <2>3
    <2> QED BY <1>3, <2>1, <2>4, <2>5, <2>6, <2>7, HolderStep
  <1> QED BY <1>6, <1>7

LEMMA UnlockKeeps ==
  ASSUME PointerInv, NEW t \in FThread, Unlock(t)
  PROVE  PointerInv'
  <1> DEFINE b == fth[t]
             c == [FIdle EXCEPT !.done = b.done]
  <1>1. b \in FCallType
    BY DEF PointerInv, PointerTypeOK
  <1>2. c \in FCallType /\ c.at = "idle"
    BY <1>1, CallFields DEF FIdle, FCallType, FPlaces, FOps
  <1>3. /\ b.at = "unlock" \/ (b.at = "moved" /\ b.op \notin Saving)
        /\ fth' = [fth EXCEPT ![t] = c]
        /\ fmutex' = IF fmutex = t THEN "none" ELSE fmutex
        /\ UNCHANGED <<ptr, fsize, logical, torn>>
    BY DEF Unlock
  <1>4. fmutex = t /\ ~Away(b)
    BY <1>3 DEF PointerInv, Away
  <1>5. torn \/ ptr = logical
    BY <1>4, PointerFound
  <1>6. /\ ptr' \in Int /\ fsize' \in Int /\ logical' \in Int /\ torn' = torn
        /\ fmutex' = "none" /\ fth \in [FThread -> FCallType]
    BY <1>3, <1>4 DEF PointerInv, PointerTypeOK
  <1> HIDE DEF b, c
  <1>7. /\ fth' \in [FThread -> FCallType]
        /\ fth'[t] = c /\ \A u \in FThread : u # t => fth'[u] = fth[u]
    BY <1>2, <1>3, <1>6
  <1>8. torn \/ (IF Away(c) THEN c.saved = logical' ELSE ptr' = logical')
    BY <1>2, <1>3, <1>5 DEF Away
  <1> QED BY <1>2, <1>4, <1>6, <1>7, <1>8, HolderStep

LEMMA KillHolderKeeps ==
  ASSUME PointerInv, NEW t \in FThread, KillHolder(t)
  PROVE  PointerInv'
  <1> DEFINE c == [FIdle EXCEPT !.at = "dead"]
  <1>1. c \in FCallType /\ c.at = "dead"
    BY DEF FIdle, FCallType, FPlaces, FOps
  <1>2. /\ fth' = [fth EXCEPT ![t] = c]
        /\ fmutex' = IF fmutex = t THEN "none" ELSE fmutex
        /\ torn' = (torn \/ Away(fth[t]))
        /\ UNCHANGED <<ptr, fsize, logical>>
    BY DEF KillHolder, Away
  <1>3. PointerTypeOK
    BY DEF PointerInv
  <1> HIDE DEF c
  <1>4. /\ fth' \in [FThread -> FCallType]
        /\ fth'[t] = c /\ \A u \in FThread : u # t => fth'[u] = fth[u]
    BY <1>1, <1>2, <1>3 DEF PointerTypeOK
  <1>5. torn' \in BOOLEAN
    BY <1>2, <1>3 DEF PointerTypeOK, Away
  <1>6. fmutex' \in FThread \cup {"none"}
    BY <1>2, <1>3 DEF PointerTypeOK
  <1>7. PointerTypeOK'
    BY <1>2, <1>3, <1>4, <1>5, <1>6 DEF PointerTypeOK
  <1>8. ~Away(c)
    BY <1>1 DEF Away
  <1>9. ASSUME NEW u \in FThread
        PROVE  /\ fth'[u].at \in {"move", "moved", "seek", "unlock"} => fmutex' = u
               /\ fth'[u].at = "seek" => fth'[u].op = "llseek"
    <2>1. CASE u = t
      BY <1>1, <1>4, <2>1
    <2>2. CASE u # t
      BY <1>2, <1>4, <2>2 DEF PointerInv
    <2> QED BY <2>1, <2>2
  <1>10. ASSUME ~torn'
         PROVE  /\ \A u \in FThread : Away(fth'[u]) => fth'[u].saved = logical'
                /\ (\A u \in FThread : ~Away(fth'[u])) => ptr' = logical'
    <2>1. ~torn /\ ~Away(fth[t])
      BY <1>2, <1>10
    <2>2. \A u \in FThread : Away(fth'[u]) => fth'[u].saved = logical'
      BY <1>2, <1>4, <1>8, <2>1 DEF PointerInv
    <2>3. (\A u \in FThread : ~Away(fth'[u])) => \A u \in FThread : ~Away(fth[u])
      BY <1>4, <2>1
    <2>4. (\A u \in FThread : ~Away(fth'[u])) => ptr' = logical'
      BY <1>2, <2>1, <2>3 DEF PointerInv
    <2> QED BY <2>2, <2>3, <2>4
  <1> QED BY <1>7, <1>9, <1>10 DEF PointerInv

LEMMA StartCallKeeps ==
  ASSUME PointerInv, NEW t \in FThread, NEW op \in FOps, NEW n, n \in Int, NEW off, off \in Int,
         StartCall(t, op, n, off)
  PROVE  PointerInv'
  <1> DEFINE c == [FIdle EXCEPT !.at = "lock", !.op = op, !.left = n, !.off = off,
                                !.done = fth[t].done + 1]
  <1>1. fth[t].done + 1 \in Int /\ fth \in [FThread -> FCallType]
    BY CallFields DEF PointerInv, PointerTypeOK
  <1>2. c \in FCallType /\ c.at = "lock"
    <2>1. c = Started(op, n, off, fth[t].done + 1)
      BY DEF Started
    <2> HIDE DEF c
    <2> QED BY <1>1, <2>1, CallStarted
  <1>3. /\ fth[t].at = "idle" /\ fth' = [fth EXCEPT ![t] = c]
        /\ UNCHANGED <<ptr, fsize, fmutex, logical, torn>>
    BY DEF StartCall
  <1> HIDE DEF c
  <1>4. /\ fth' \in [FThread -> FCallType]
        /\ fth'[t] = c /\ \A u \in FThread : u # t => fth'[u] = fth[u]
    BY <1>1, <1>2, <1>3
  <1> QED BY <1>2, <1>3, <1>4, BystanderStep

LEMMA PointerStep == PointerInv /\ [PointerNext]_pointerVars => PointerInv'
  <1> SUFFICES ASSUME PointerInv, [PointerNext]_pointerVars PROVE PointerInv'
    OBVIOUS
  <1>1. CASE UNCHANGED pointerVars
    BY <1>1 DEF pointerVars, PointerInv, PointerTypeOK, Away
  <1>2. ASSUME NEW t \in FThread, NEW op \in FOps, NEW n \in {0, 1, 2}, NEW off \in {-1, 0, 1},
               StartCall(t, op, n, off)
        PROVE  PointerInv'
    <2>1. n \in Int /\ off \in Int
      OBVIOUS
    <2> QED BY <1>2, <2>1, StartCallKeeps
  <1>3. CASE PointerNext
    <2>1. PICK t \in FThread :
            \/ \E op \in FOps, n \in {0, 1, 2}, off \in {-1, 0, 1} : StartCall(t, op, n, off)
            \/ Lock(t) \/ ReadSome(t) \/ WriteSome(t) \/ Restore(t) \/ Unlock(t) \/ Seek(t)
            \/ KillHolder(t)
      <3>1. 1 .. 2 = {1, 2} /\ 0 .. 1 = {0, 1}
        OBVIOUS
      <3> QED BY <1>3, <3>1, Zenon DEF PointerNext, FOps
    <2> QED BY <1>2, <2>1, LockKeeps, ReadSomeKeeps, WriteSomeKeeps, RestoreKeeps, UnlockKeeps,
               SeekKeeps, KillHolderKeeps
  <1> QED BY <1>1, <1>3

(***************************************************************************)
(* The pointer of a file that processes share (fs/winfs.c) is where the    *)
(* reads, writes and seeks alone have taken it, whenever no call has the   *)
(* mutex and whenever a call that moves it finds it, for any number of     *)
(* threads, calls and bytes, unless a process died before it could put the *)
(* pointer back.                                                           *)
(***************************************************************************)
THEOREM PointerIsKept == PointerInit /\ [][PointerNext]_pointerVars => []PointerKept
  BY PointerInvInit, PointerStep, PointerInvKept, PTL

-----------------------------------------------------------------------------
(* The mount table.  Its list is described without walking it: the head is *)
(* the highest entry, and after an entry comes the highest one below it.   *)

MountPoint == {MountList[k] : k \in DOMAIN MountList}
MountRef == 0 .. MAX_MOUNT_POINTS - 1
MountsType == [MountSlot -> [used : BOOLEAN, at : MountPoint, next : MountRef]]

RankOf(M) == [i \in MountSlot |-> Rank[M[i].at]]
NextIn(M) == [i \in MountSlot |-> M[i].next]

\* t is the highest of S, or 0
Highest(r, S, t) == (S = {} /\ t = 0) \/ (t \in S /\ \A j \in S : r[j] <= r[t])
Lower(r, L, i) == {j \in L : r[j] < r[i]}
Descending(r, nx, first, L) ==
  /\ L \subseteq MountSlot
  /\ \A i, j \in L : r[i] = r[j] => i = j
  /\ Highest(r, L, first)
  /\ \A i \in L : Highest(r, Lower(r, L, i), nx[i])

\* The entry after which one of rank n goes, or 0
GoesAfter(r, L, n, t) ==
  IF \A j \in L : r[j] < n THEN t = 0
  ELSE t \in L /\ r[t] > n /\ \A j \in L : r[j] > n => r[t] <= r[j]

TableOrdered == Descending(RankOf(mounts), NextIn(mounts), mp_first, Listed)

\* The list holds the first n mount points
HoldsFirst(n) ==
  /\ \A i \in Listed : \E k \in 1 .. n : mounts[i].at = MountList[k]
  /\ \A k \in 1 .. n : \E i \in Listed : mounts[i].at = MountList[k]

-----------------------------------------------------------------------------
(* The invariant.                                                          *)

MPlaces == {"start", "wait", "fill", "next", "link", "root", "mounted", "ready", "walk", "found", "dead"}
Filling == {"fill", "next", "link", "root", "mounted"}
MCallType == [at : MPlaces, n : 1 .. Len(MountList) + 1, slot : MountRef, prev : MountRef,
              path : Seq(STRING), cur : MountRef, whole : BOOLEAN]
MountsTypeOK ==
  /\ mounts \in MountsType /\ mp_first \in MountRef /\ root_id \in MountRef
  /\ mmutex \in MProc \cup {"none"} /\ mp \in [MProc -> MCallType] /\ complete \in BOOLEAN

RootSound == root_id \in Listed /\ mounts[root_id].at = <<>>

\* Slots that are taken and not on the list: each is being filled, or was when
\* its process died
Spare == {i \in MountSlot : mounts[i].used /\ i \notin Listed}
Losers == {p \in MProc : mp[p].at \in {"next", "link", "dead"}}

FillSound(p) ==
  LET c == mp[p] IN
  /\ mmutex = p /\ ~complete /\ c.n <= Len(MountList)
  /\ HoldsFirst(IF c.at \in {"root", "mounted"} THEN c.n ELSE c.n - 1)
  /\ c.at \in {"next", "link"} =>
       /\ c.slot \in Spare /\ mounts[c.slot].at = MountList[c.n]
       /\ GoesAfter(RankOf(mounts), Listed, Rank[MountList[c.n]], c.prev)
  /\ c.at = "link" => mounts[c.slot].next = NextOf(c.prev)
  /\ c.at = "root" => c.n = 1 /\ c.slot \in Listed /\ mounts[c.slot].at = <<>>
  /\ (c.n > 1 \/ c.at = "mounted") => RootSound

\* A walk has left behind what is higher than where it is, for good reason
WalkSound(p) ==
  LET c == mp[p] IN
  /\ complete /\ (c.cur # 0 => c.cur \in Listed)
  /\ \A j \in Listed : c.cur = 0 \/ RankOf(mounts)[j] > RankOf(mounts)[c.cur] => ~Matches(j, c.path)
  /\ c.at = "found" => c.cur # 0 /\ Matches(c.cur, c.path)

MountsInv ==
  /\ MountsTypeOK /\ TableOrdered
  /\ \E n \in 0 .. Len(MountList) : HoldsFirst(n)
  /\ \A i \in Listed : mounts[i].used
  /\ Cardinality(Spare) <= Cardinality(Losers)
  /\ complete => HoldsFirst(Len(MountList)) /\ RootSound
  /\ \A p \in MProc :
       /\ mp[p].at \in Filling => FillSound(p)
       /\ mp[p].at \in {"start", "wait"} => mp[p].n = 1
       /\ mp[p].at \in {"walk", "found"} /\ mp[p].whole => WalkSound(p)

-----------------------------------------------------------------------------
(* Facts about the data.                                                   *)

LEMMA MountsData ==
  /\ Len(MountList) \in Nat \ {0} /\ DOMAIN MountList = 1 .. Len(MountList)
  /\ \A k \in 1 .. Len(MountList) : MountList[k] \in Seq(STRING) /\ Rank[MountList[k]] \in Nat
  /\ 1 \in 1 .. Len(MountList) /\ MountList[1] = <<>> /\ <<>> \in MountPoint
  /\ Cardinality(MProc) \in Nat /\ IsFiniteSet(MProc)
  /\ MAX_MOUNT_POINTS \in Nat /\ MAX_MOUNT_POINTS > Len(MountList) + Cardinality(MProc)
  /\ 0 \notin MountSlot /\ MountSlot \subseteq MountRef /\ 0 \in MountRef
  /\ \A i \in MountRef : i # 0 => i \in MountSlot
  <1>1. MountList \in Seq(Seq(STRING)) /\ MountList # <<>>
    BY MountsAssumption
  <1>2. Len(MountList) \in Nat /\ DOMAIN MountList = 1 .. Len(MountList) /\ Len(MountList) # 0
    BY <1>1
  <1>3. \A k \in 1 .. Len(MountList) : MountList[k] \in Seq(STRING)
    BY <1>1, <1>2
  <1>4. IsFiniteSet(MProc) /\ Cardinality(MProc) \in Nat
    BY MountsAssumption, FS_CardinalityType
  <1>5. 0 \notin MountSlot /\ MountSlot \subseteq MountRef /\ 0 \in MountRef /\ \A i \in MountRef : i # 0 => i \in MountSlot
    BY MountsAssumption, <1>2, <1>4 DEF MountSlot, MountRef
  <1>6. 1 \in 1 .. Len(MountList)
    BY <1>2
  <1> QED BY <1>2, <1>3, <1>4, <1>5, <1>6, MountsAssumption DEF MountPoint

(* Mount points are told apart by their rank, which follows the tree.      *)
LEMMA RanksApart ==
  ASSUME NEW a \in MountPoint, NEW b \in MountPoint
  PROVE  /\ Rank[a] \in Nat /\ a \in Seq(STRING)
         /\ Rank[a] = Rank[b] => a = b
         /\ SX!IsPrefix(a, b) => a = b \/ Rank[a] < Rank[b]
  <1>1. PICK i, j \in DOMAIN MountList : a = MountList[i] /\ b = MountList[j]
    BY DEF MountPoint
  <1> QED BY <1>1, RankAssumption, MountsData

\* A set of slots has a lowest and a highest one
LEMMA LowestSlot ==
  ASSUME NEW r \in [MountSlot -> Nat], NEW A \in SUBSET MountSlot, A # {}
  PROVE  \E t \in A : \A j \in A : r[t] <= r[j]
  <1> DEFINE K == {r[j] : j \in A}
  <1>1. K \in SUBSET Nat /\ K # {}
    OBVIOUS
  <1>2. PICK k \in K : \A j \in K : k <= j
    <2> HIDE DEF K
    <2> QED BY <1>1, Lowest
  <1>3. PICK t \in A : k = r[t]
    BY <1>2
  <1> QED BY <1>2, <1>3

-----------------------------------------------------------------------------
(* Walks along the list.                                                   *)

TableStep(M, first, f, k) ==
  IF k = 1 THEN first ELSE IF f[k - 1] = 0 THEN 0 ELSE M[f[k - 1]].next
TableWalk(M, first) == CHOOSE f : f = [k \in 1 .. Len(MountList) + 1 |-> TableStep(M, first, f, k)]
EntriesOf(M, first) == {TableWalk(M, first)[k] : k \in 1 .. Len(MountList) + 1} \ {0}

(* Mounted, as any table has it.                                          *)
LEMMA MountedIsWalk == Mounted = TableWalk(mounts, mp_first) /\ Mounted' = TableWalk(mounts', mp_first')
  BY DEF Mounted, TableWalk, TableStep

(* The walk is a function: it exists for every length.                     *)
LEMMA TableWalkExists ==
  ASSUME NEW M \in MountsType, NEW first \in MountRef, NEW n \in Nat
  PROVE  \E f \in [1 .. n -> MountRef] : \A k \in 1 .. n : f[k] = TableStep(M, first, f, k)
  <1> DEFINE K == {m \in Nat : ~\E f \in [1 .. m -> MountRef] : \A k \in 1 .. m : f[k] = TableStep(M, first, f, k)}
  <1> SUFFICES ASSUME K # {} PROVE FALSE
    OBVIOUS
  <1>1. PICK m \in K : \A k \in K : m <= k
    <2>1. K \in SUBSET Nat
      OBVIOUS
    <2> HIDE DEF K
    <2> QED BY <2>1, Lowest
  <1>0. m \in Nat /\ \A k \in K : m <= k
    BY <1>1
  <1>2. m # 0
    <2> SUFFICES ASSUME m = 0 PROVE FALSE
      OBVIOUS
    <2> DEFINE f == [k \in 1 .. 0 |-> 0]
    <2>1. f \in [1 .. 0 -> MountRef] /\ \A k \in 1 .. 0 : f[k] = TableStep(M, first, f, k)
      OBVIOUS
    <2> QED BY <1>1, <2>1
  <1>3. m - 1 \in Nat /\ m - 1 \notin K
    <2> HIDE DEF K
    <2> QED BY <1>0, <1>2
  <1>4. PICK f \in [1 .. m - 1 -> MountRef] : \A k \in 1 .. m - 1 : f[k] = TableStep(M, first, f, k)
    BY <1>3
  <1> DEFINE g == [k \in 1 .. m |-> IF k = m THEN TableStep(M, first, f, m) ELSE f[k]]
  <1>5. TableStep(M, first, f, m) \in MountRef
    <2>1. CASE m = 1
      BY <2>1 DEF TableStep
    <2>2. CASE m # 1
      <3>1. m - 1 \in 1 .. m - 1
        BY <1>3, <2>2, <1>1
      <3>2. f[m - 1] \in MountRef
        BY <3>1
      <3>3. f[m - 1] # 0 => M[f[m - 1]].next \in MountRef
        BY <3>2, MountsData DEF MountsType
      <3> QED BY <2>2, <3>3, MountsData DEF TableStep
    <2> QED BY <2>1, <2>2
  <1>6. g \in [1 .. m -> MountRef]
    BY <1>1, <1>5
  <1>7. \A k \in 1 .. m : g[k] = TableStep(M, first, g, k)
    <2> SUFFICES ASSUME NEW k \in 1 .. m PROVE g[k] = TableStep(M, first, g, k)
      OBVIOUS
    <2>1. k > 1 => k - 1 \in 1 .. m /\ k - 1 # m /\ g[k - 1] = f[k - 1]
      BY <1>1
    <2>2. TableStep(M, first, g, k) = TableStep(M, first, f, k)
      <3>1. k = 1 \/ k > 1
        BY <1>0
      <3> HIDE DEF g
      <3> QED BY <2>1, <3>1 DEF TableStep
    <2>3. CASE k = m
      BY <2>2, <2>3
    <2>4. CASE k # m
      <3>1. k \in 1 .. m - 1 /\ g[k] = f[k]
        BY <1>1, <2>4
      <3> QED BY <3>1, <2>2, <1>4
    <2> QED BY <2>3, <2>4
  <1> QED BY <1>1, <1>6, <1>7

LEMMA TableWalkIs ==
  ASSUME NEW M \in MountsType, NEW first \in MountRef
  PROVE  /\ TableWalk(M, first) \in [1 .. Len(MountList) + 1 -> MountRef]
         /\ \A k \in 1 .. Len(MountList) + 1 : TableWalk(M, first)[k] = TableStep(M, first, TableWalk(M, first), k)
  <1> DEFINE N == Len(MountList) + 1
             w == TableWalk(M, first)
  <1>1. N \in Nat
    BY MountsData
  <1>2. PICK f \in [1 .. N -> MountRef] : \A k \in 1 .. N : f[k] = TableStep(M, first, f, k)
    BY <1>1, TableWalkExists
  <1>3. f = [k \in 1 .. N |-> TableStep(M, first, f, k)]
    BY <1>2
  <1>4. w = [k \in 1 .. N |-> TableStep(M, first, w, k)]
    BY <1>3 DEF TableWalk
  <1> HIDE DEF w
  <1>5. \A k \in 1 .. N : w[k] = f[k]
    <2> DEFINE K == {k \in 1 .. N : w[k] # f[k]}
    <2> SUFFICES ASSUME K # {} PROVE FALSE
      OBVIOUS
    <2>1. PICK m \in K : \A k \in K : m <= k
      <3>1. K \in SUBSET Nat
        OBVIOUS
      <3> HIDE DEF K
      <3> QED BY <3>1, Lowest
    <2>2. m \in 1 .. N /\ w[m] = TableStep(M, first, w, m) /\ f[m] = TableStep(M, first, f, m)
      BY <2>1, <1>2, <1>4
    <2>3. m # 1
      BY <2>1, <2>2 DEF TableStep
    <2>4. m - 1 \in 1 .. N /\ m - 1 \notin K
      BY <2>1, <2>2, <2>3, <1>1
    <2>5. w[m - 1] = f[m - 1]
      BY <2>4
    <2> QED BY <2>1, <2>2, <2>3, <2>5 DEF TableStep
  <1>6. w = f
    BY <1>2, <1>4, <1>5
  <1>7. w \in [1 .. N -> MountRef] /\ \A k \in 1 .. N : w[k] = TableStep(M, first, w, k)
    BY <1>2, <1>6
  <1> QED BY <1>7 DEF w

(* A walk visits the entries from the highest to the lowest.               *)
LEMMA WalkDescends ==
  ASSUME NEW M \in MountsType, NEW first \in MountRef, NEW L,
         Descending(RankOf(M), NextIn(M), first, L), Cardinality(L) <= Len(MountList)
  PROVE  /\ EntriesOf(M, first) = L
         /\ \A k \in 1 .. Len(MountList) :
              TableWalk(M, first)[k + 1] # 0 =>
                /\ TableWalk(M, first)[k] \in L /\ TableWalk(M, first)[k + 1] \in L
                /\ Rank[M[TableWalk(M, first)[k]].at] > Rank[M[TableWalk(M, first)[k + 1]].at]
  <1> DEFINE N == Len(MountList)
             w == TableWalk(M, first)
             r == RankOf(M)
             nx == NextIn(M)
             Over(i) == {j \in L : r[j] > r[i]}
  <1>1. N \in Nat \ {0} /\ 0 \notin L /\ L \subseteq MountSlot
    BY MountsData DEF Descending
  <1>2. w \in [1 .. N + 1 -> MountRef] /\ \A k \in 1 .. N + 1 : w[k] = TableStep(M, first, w, k)
    BY TableWalkIs
  <1>3. r \in [MountSlot -> Nat] /\ nx \in [MountSlot -> MountRef] /\ \A i \in MountSlot : nx[i] = M[i].next /\ r[i] = Rank[M[i].at]
    <2>1. \A i \in MountSlot : M[i].at \in MountPoint /\ M[i].next \in MountRef
      BY DEF MountsType
    <2> QED BY <2>1, RanksApart DEF RankOf, NextIn
  <1>4. IsFiniteSet(L) /\ Cardinality(L) \in Nat
    <2>1. IsFiniteSet(MountSlot)
      BY FS_Interval, MountsData DEF MountSlot
    <2> QED BY <2>1, <1>1, FS_Subset, FS_CardinalityType
  <1>5. /\ \A i, j \in L : r[i] = r[j] => i = j
        /\ Highest(r, L, first)
        /\ \A i \in L : Highest(r, Lower(r, L, i), nx[i])
    BY DEF Descending
  <1>6. ASSUME NEW i \in L
        PROVE  IsFiniteSet(Over(i)) /\ Cardinality(Over(i)) \in Nat /\ Cardinality(Over(i)) < Cardinality(L) /\ i \notin Over(i)
    <2>1. Over(i) \in SUBSET L /\ i \notin Over(i) /\ Over(i) # L
      BY <1>1, <1>3
    <2> HIDE DEF Over
    <2> QED BY <2>1, <1>4, FS_Subset, FS_CardinalityType
  <1> HIDE DEF w, r, nx, N
  <1> DEFINE P(k) == IF k <= Cardinality(L) THEN w[k] \in L /\ Cardinality(Over(w[k])) = k - 1 ELSE w[k] = 0
  <1>7. ASSUME NEW m \in 2 .. N + 1, P(m - 1), m <= Cardinality(L) + 1
        PROVE  LET i == w[m - 1] IN
               /\ i \in L /\ w[m] = nx[i]
               /\ IF m <= Cardinality(L)
                  THEN /\ w[m] \in L /\ r[w[m]] < r[i] /\ Cardinality(Over(w[m])) = m - 1
                  ELSE w[m] = 0
    <2> DEFINE i == w[m - 1]
    <2>1. m \in 1 .. N + 1 /\ m # 1 /\ m - 1 <= Cardinality(L) /\ m - 1 \in Nat
      BY <1>1, <1>4, <1>7
    <2>2. i \in L /\ Cardinality(Over(i)) = m - 2 /\ i # 0 /\ i \in MountSlot
      BY <1>7, <2>1, <1>1
    <2>3. w[m] = nx[i]
      BY <2>1, <2>2, <1>2, <1>3 DEF TableStep
    <2> HIDE DEF i
    <2>4. Cardinality(Over(i) \cup {i}) = m - 1 /\ IsFiniteSet(Over(i))
      <3>1. IsFiniteSet(Over(i)) /\ i \notin Over(i)
        BY <2>2, <1>6
      <3> HIDE DEF Over
      <3>2. Cardinality(Over(i) \cup {i}) = Cardinality(Over(i)) + 1
        BY <3>1, FS_AddElement
      <3> QED BY <3>1, <3>2, <2>2, <2>1
    <2>5. CASE Lower(r, L, i) = {}
      <3>1. L = Over(i) \cup {i}
        <4>1. \A j \in L : j = i \/ r[j] > r[i]
          BY <2>2, <2>5, <1>1, <1>3, <1>5 DEF Lower
        <4> QED BY <4>1, <2>2
      <3>2. nx[i] = 0
        BY <2>5, <2>2, <1>5 DEF Highest
      <3>3. m - 1 = Cardinality(L)
        BY <3>1, <2>4
      <3> QED BY <2>2, <2>3, <3>2, <3>3, <2>1 DEF i
    <2>6. CASE Lower(r, L, i) # {}
      <3> DEFINE j == nx[i]
      <3>1. j \in L /\ r[j] < r[i] /\ \A l \in L : r[l] < r[i] => r[l] <= r[j]
        BY <2>2, <2>6, <1>5 DEF Highest, Lower
      <3> HIDE DEF j
      <3>2. Over(j) = Over(i) \cup {i}
        <4>1. \A l \in L : r[l] > r[j] <=> l = i \/ r[l] > r[i]
          BY <3>1, <2>2, <1>1, <1>3, <1>5
        <4> QED BY <4>1, <2>2
      <3>3. Cardinality(Over(j)) = m - 1
        BY <3>2, <2>4
      <3>4. m - 1 < Cardinality(L)
        BY <3>1, <3>3, <1>6
      <3>5. m <= Cardinality(L)
        BY <3>4, <1>4, <2>1
      <3>6. w[m] = j
        BY <2>3 DEF j
      <3> QED BY <2>2, <2>3, <3>1, <3>3, <3>5, <3>6 DEF i
    <2> QED BY <2>5, <2>6
  <1>8. P(1)
    <2>1. w[1] = first
      BY <1>2, <1>1 DEF TableStep
    <2>2. CASE L = {}
      BY <2>1, <2>2, <1>5, FS_EmptySet DEF Highest
    <2>3. CASE L # {}
      <3>1. first \in L /\ Over(first) = {}
        BY <2>3, <1>1, <1>3, <1>5 DEF Highest
      <3>2. Cardinality(L) # 0 /\ Cardinality(Over(first)) = 0
        BY <3>1, <1>4, FS_EmptySet
      <3> QED BY <2>1, <3>1, <3>2, <1>4
    <2> QED BY <2>2, <2>3
  <1>9. \A k \in 1 .. N + 1 : P(k)
    <2> DEFINE K == {k \in 1 .. N + 1 : ~P(k)}
    <2> SUFFICES ASSUME K # {} PROVE FALSE
      OBVIOUS
    <2>1. PICK m \in K : \A k \in K : m <= k
      <3>1. K \in SUBSET Nat
        BY <1>1
      <3> HIDE DEF K
      <3> QED BY <3>1, Lowest
    <2> HIDE DEF P
    <2>2. m # 1 /\ m \in 1 .. N + 1 /\ ~P(m)
      BY <2>1, <1>8
    <2>3. m \in 2 .. N + 1 /\ m - 1 \in 1 .. N + 1
      BY <2>2, <1>1
    <2>4. P(m - 1)
      <3>1. m - 1 \notin K
        BY <2>1, <2>2
      <3> QED BY <3>1, <2>3
    <2>5. CASE m <= Cardinality(L) + 1
      BY <2>2, <2>3, <2>4, <2>5, <1>7 DEF P
    <2>6. CASE ~(m <= Cardinality(L) + 1)
      <3>1. w[m - 1] = 0
        BY <2>4, <2>6, <2>3, <1>4 DEF P
      <3>2. w[m] = 0
        BY <3>1, <2>2, <1>2, <2>3 DEF TableStep
      <3> QED BY <3>2, <2>2, <2>6, <1>4 DEF P
    <2> QED BY <2>5, <2>6
  <1>10. EntriesOf(M, first) = {w[k] : k \in 1 .. N + 1} \ {0}
    BY DEF EntriesOf, w, N
  <1>11. ASSUME NEW i \in L PROVE \E k \in 1 .. N + 1 : w[k] = i
    <2> DEFINE k == Cardinality(Over(i)) + 1
    <2>1. k \in 1 .. N + 1 /\ k <= Cardinality(L) /\ Cardinality(Over(i)) = k - 1
      <3>1. Cardinality(Over(i)) \in Nat /\ Cardinality(Over(i)) < Cardinality(L)
        BY <1>6
      <3>2. Cardinality(L) <= N
        BY DEF N
      <3> HIDE DEF Over
      <3> QED BY <3>1, <3>2, <1>4, <1>1
    <2> HIDE DEF k
    <2>2. w[k] \in L /\ Cardinality(Over(w[k])) = k - 1
      BY <2>1, <1>9
    <2>3. ASSUME NEW a \in L, NEW b \in L, r[a] < r[b] PROVE Cardinality(Over(b)) < Cardinality(Over(a))
      <3>1. Over(b) \in SUBSET Over(a) /\ b \in Over(a) /\ b \notin Over(b)
        BY <2>3, <1>1, <1>3
      <3>2. IsFiniteSet(Over(a)) /\ Cardinality(Over(a)) \in Nat /\ Cardinality(Over(b)) \in Nat
        BY <1>6
      <3> HIDE DEF Over
      <3> QED BY <3>1, <3>2, FS_Subset
    <2>4. ~(r[w[k]] < r[i]) /\ ~(r[i] < r[w[k]])
      <3>1. Cardinality(Over(w[k])) = Cardinality(Over(i)) /\ Cardinality(Over(i)) \in Nat
        BY <2>1, <2>2, <1>6
      <3>2. r[w[k]] < r[i] => Cardinality(Over(i)) < Cardinality(Over(w[k]))
        BY <2>2, <2>3
      <3>3. r[i] < r[w[k]] => Cardinality(Over(w[k])) < Cardinality(Over(i))
        BY <2>2, <2>3
      <3> HIDE DEF Over
      <3> QED BY <3>1, <3>2, <3>3
    <2>5. w[k] = i
      BY <2>2, <2>4, <1>1, <1>3, <1>5
    <2> QED BY <2>1, <2>5
  <1>12. EntriesOf(M, first) = L
    <2>1. \A k \in 1 .. N + 1 : w[k] \in L \/ w[k] = 0
      <3> SUFFICES ASSUME NEW k \in 1 .. N + 1 PROVE w[k] \in L \/ w[k] = 0
        OBVIOUS
      <3>1. P(k)
        BY <1>9
      <3> QED BY <3>1
    <2> QED BY <2>1, <1>10, <1>11, <1>1
  <1>13. ASSUME NEW k \in 1 .. N, w[k + 1] # 0
         PROVE  w[k] \in L /\ w[k + 1] \in L /\ r[w[k]] > r[w[k + 1]]
    <2>1. k + 1 \in 2 .. N + 1 /\ k + 1 \in 1 .. N + 1 /\ k \in 1 .. N + 1 /\ (k + 1) - 1 = k
      BY <1>1
    <2>2. k + 1 <= Cardinality(L) /\ P(k)
      BY <2>1, <1>9, <1>13
    <2> HIDE DEF P
    <2>3. k + 1 <= Cardinality(L) + 1
      BY <2>1, <2>2, <1>4
    <2> QED BY <2>1, <2>2, <2>3, <1>7
  <1> QED
    <2>1. \A k \in 1 .. N : w[k + 1] # 0 => w[k] \in L /\ w[k + 1] \in L /\ Rank[M[w[k]].at] > Rank[M[w[k + 1]].at]
      BY <1>13, <1>1, <1>3
    <2> QED BY <1>12, <2>1 DEF w, N

(* The order rests on the ranks and links of what is on the list.          *)
LEMMA SameOrder ==
  ASSUME NEW r, NEW nx, NEW first, NEW L, Descending(r, nx, first, L),
         NEW r2, NEW nx2, \A i \in L : r2[i] = r[i] /\ nx2[i] = nx[i]
  PROVE  Descending(r2, nx2, first, L)
  <1>1. \A i \in L : Lower(r2, L, i) = Lower(r, L, i)
    BY DEF Lower
  <1>2. \A i \in L : \A j \in Lower(r, L, i) : r2[j] = r[j]
    BY DEF Lower
  <1>3. ASSUME NEW S, S \subseteq L, NEW t, Highest(r, S, t) PROVE Highest(r2, S, t)
    BY <1>3 DEF Highest
  <1>4. \A i \in L : Lower(r, L, i) \subseteq L
    BY DEF Lower
  <1>5. Highest(r2, L, first)
    BY <1>3 DEF Descending
  <1>6. ASSUME NEW i \in L PROVE Highest(r2, Lower(r2, L, i), nx2[i])
    <2>1. Highest(r, Lower(r, L, i), nx[i])
      BY DEF Descending
    <2> QED BY <2>1, <1>1, <1>3, <1>4
  <1> QED BY <1>5, <1>6 DEF Descending

(* An entry is linked in where it belongs.                                 *)
LEMMA EntryAdded ==
  ASSUME NEW r \in [MountSlot -> Nat], NEW nx \in [MountSlot -> MountRef], NEW first, NEW L,
         Descending(r, nx, first, L), NEW x \in MountSlot, x \notin L,
         \A j \in L : r[j] # r[x], NEW t, GoesAfter(r, L, r[x], t),
         nx[x] = IF t = 0 THEN first ELSE nx[t],
         NEW nx2, nx2 = IF t = 0 THEN nx ELSE [nx EXCEPT ![t] = x],
         NEW first2, first2 = IF t = 0 THEN x ELSE first
  PROVE  Descending(r, nx2, first2, L \cup {x})
  <1> DEFINE K == L \cup {x}
  <1>1. /\ L \subseteq MountSlot /\ 0 \notin L /\ x # 0 /\ 0 \notin MountSlot
        /\ \A i, j \in L : r[i] = r[j] => i = j
        /\ Highest(r, L, first) /\ \A i \in L : Highest(r, Lower(r, L, i), nx[i])
        /\ \A j \in K : r[j] \in Nat
    BY MountsData DEF Descending
  <1>2. IF t = 0 THEN \A j \in L : r[j] < r[x]
        ELSE t \in L /\ r[t] > r[x] /\ \A j \in L : r[j] > r[x] => r[t] <= r[j]
    BY <1>1 DEF GoesAfter
  <1>3. \A i, j \in K : r[i] = r[j] => i = j
    BY <1>1
  <1>4. Highest(r, K, first2)
    <2>1. CASE t = 0
      <3>1. first2 = x /\ x \in K /\ \A j \in K : r[j] <= r[x]
        BY <2>1, <1>1, <1>2
      <3> QED BY <3>1 DEF Highest
    <2>2. CASE t # 0
      <3>1. first2 = first /\ first \in L /\ \A j \in L : r[j] <= r[first]
        BY <2>2, <1>1, <1>2 DEF Highest
      <3>2. r[x] <= r[first]
        BY <2>2, <3>1, <1>1, <1>2
      <3>3. first2 \in K /\ \A j \in K : r[j] <= r[first2]
        BY <3>1, <3>2
      <3> QED BY <3>3 DEF Highest
    <2> QED BY <2>1, <2>2
  <1>5. ASSUME NEW i \in K PROVE Highest(r, Lower(r, K, i), nx2[i])
    <2>1. CASE i = x
      <3>1. nx2[x] = nx[x]
        BY <1>1, <1>2
      <3>2. CASE t = 0
        <4>1. Lower(r, K, x) = L
          BY <3>2, <1>1, <1>2 DEF Lower
        <4> QED BY <4>1, <3>1, <3>2, <2>1, <1>1
      <3>3. CASE t # 0
        <4>1. t \in L /\ \A j \in L : r[j] < r[x] <=> r[j] < r[t]
          BY <3>3, <1>1, <1>2
        <4>2. Lower(r, K, x) = Lower(r, L, t)
          BY <4>1, <1>1 DEF Lower
        <4> QED BY <4>1, <4>2, <3>1, <3>3, <2>1, <1>1
      <3> QED BY <3>2, <3>3
    <2>2. CASE i # x /\ i = t
      <3>1. t \in L /\ t # 0 /\ t \in MountSlot
        BY <2>2, <1>1
      <3>2. nx2[t] = x
        BY <3>1
      <3>3. x \in Lower(r, K, t) /\ \A j \in Lower(r, K, t) : r[j] <= r[x]
        BY <3>1, <1>1, <1>2 DEF Lower
      <3> QED BY <3>2, <3>3, <2>2 DEF Highest
    <2>3. CASE i # x /\ i # t
      <3>1. i \in L /\ nx2[i] = nx[i] /\ Highest(r, Lower(r, L, i), nx[i])
        BY <2>3, <1>1
      <3>2. CASE r[i] < r[x]
        <4>1. Lower(r, K, i) = Lower(r, L, i)
          BY <3>1, <3>2, <1>1 DEF Lower
        <4> QED BY <4>1, <3>1
      <3>3. CASE r[i] > r[x]
        <4>1. t # 0 /\ t \in L /\ r[t] > r[x] /\ r[t] < r[i]
          BY <3>1, <3>3, <2>3, <1>1, <1>2
        <4>2. t \in Lower(r, L, i)
          BY <4>1 DEF Lower
        <4> DEFINE h == nx[i]
        <4>3. h \in Lower(r, L, i) /\ \A j \in Lower(r, L, i) : r[j] <= r[h]
          BY <3>1, <4>2 DEF Highest
        <4> HIDE DEF h
        <4>4. h \in L /\ r[t] <= r[h]
          BY <4>2, <4>3 DEF Lower
        <4>5. Lower(r, K, i) = Lower(r, L, i) \cup {x}
          BY <3>1, <3>3 DEF Lower
        <4>6. r[x] <= r[h]
          BY <4>1, <4>4, <1>1
        <4>7. h \in Lower(r, K, i) /\ \A j \in Lower(r, K, i) : r[j] <= r[h]
          BY <4>3, <4>5, <4>6
        <4> QED BY <4>7, <3>1 DEF Highest, h
      <3> QED BY <3>1, <3>2, <3>3, <1>1
    <2> QED BY <2>1, <2>2, <2>3
  <1>6. K \subseteq MountSlot
    BY <1>1
  <1> HIDE DEF K
  <1>7. Descending(r, nx2, first2, K)
    BY <1>3, <1>4, <1>5, <1>6 DEF Descending
  <1> QED BY <1>7 DEF K

(* There are no more entries than mount points.                            *)
LEMMA EntriesFew ==
  ASSUME NEW M \in MountsType, NEW nx, NEW first, NEW L, Descending(RankOf(M), nx, first, L),
         NEW n \in 0 .. Len(MountList), \A i \in L : \E k \in 1 .. n : M[i].at = MountList[k]
  PROVE  IsFiniteSet(L) /\ Cardinality(L) \in Nat /\ Cardinality(L) <= n
  <1>1. L \subseteq MountSlot /\ \A i, j \in L : RankOf(M)[i] = RankOf(M)[j] => i = j
    BY DEF Descending
  <1>2. \A i \in L : RankOf(M)[i] = Rank[M[i].at]
    BY <1>1 DEF RankOf
  <1> DEFINE g == [i \in L |-> CHOOSE k \in 1 .. n : M[i].at = MountList[k]]
  <1>3. \A i \in L : g[i] \in 1 .. n /\ M[i].at = MountList[g[i]]
    OBVIOUS
  <1>4. g \in [L -> 1 .. n]
    BY <1>3
  <1> HIDE DEF g
  <1>5. \A i, j \in L : g[i] = g[j] => i = j
    BY <1>1, <1>2, <1>3
  <1>6. g \in Injection(L, 1 .. n)
    <2>1. IsInjective(g)
      BY <1>4, <1>5 DEF IsInjective
    <2> QED BY <2>1, <1>4 DEF Injection
  <1>7. n \in Nat /\ IsFiniteSet(1 .. n) /\ Cardinality(1 .. n) = n
    BY FS_Interval, MountsData
  <1> QED BY <1>6, <1>7, FS_Injection, FS_CardinalityType

(* Listed, as any table has it.                                            *)
LEMMA ListedIs ==
  /\ mounts \in MountsType /\ mp_first \in MountRef => Listed = EntriesOf(mounts, mp_first)
  /\ mounts' \in MountsType /\ mp_first' \in MountRef => Listed' = EntriesOf(mounts', mp_first')
  <1>1. ASSUME mounts \in MountsType, mp_first \in MountRef PROVE Listed = EntriesOf(mounts, mp_first)
    <2>1. DOMAIN Mounted = 1 .. Len(MountList) + 1
      BY <1>1, MountedIsWalk, TableWalkIs
    <2> QED BY <2>1, MountedIsWalk DEF Listed, EntriesOf
  <1>2. ASSUME mounts' \in MountsType, mp_first' \in MountRef PROVE Listed' = EntriesOf(mounts', mp_first')
    <2>1. DOMAIN Mounted' = 1 .. Len(MountList) + 1
      BY <1>2, MountedIsWalk, TableWalkIs
    <2>2. Listed' = {Mounted'[k] : k \in DOMAIN Mounted'} \ {0}
      BY DEF Listed
    <2> QED BY <2>1, <2>2, MountedIsWalk DEF EntriesOf
  <1> QED BY <1>1, <1>2

(* What the list is after a step.                                          *)
LEMMA NewTable ==
  ASSUME mounts' \in MountsType, mp_first' \in MountRef,
         NEW L, Descending(RankOf(mounts'), NextIn(mounts'), mp_first', L),
         NEW n \in 0 .. Len(MountList), \A i \in L : \E k \in 1 .. n : mounts'[i].at = MountList[k]
  PROVE  Listed' = L /\ TableOrdered'
  <1>1. Cardinality(L) \in Nat /\ Cardinality(L) <= n
    BY EntriesFew
  <1>2. Cardinality(L) <= Len(MountList)
    BY <1>1, MountsData
  <1>3. EntriesOf(mounts', mp_first') = L
    BY <1>2, WalkDescends
  <1>4. Listed' = L
    BY <1>3, ListedIs
  <1> QED BY <1>4 DEF TableOrdered

(* A table that is left alone.                                             *)
LEMMA SameTable ==
  ASSUME UNCHANGED <<mounts, mp_first>>
  PROVE  Listed' = Listed /\ Mounted' = Mounted /\ (TableOrdered => TableOrdered')
  <1>1. Mounted' = Mounted
    BY MountedIsWalk
  <1>2. Listed' = Listed
    BY <1>1 DEF Listed
  <1> QED BY <1>1, <1>2 DEF TableOrdered

(* The empty table.                                                        *)
LEMMA MountsInvInit == MountsInit => MountsInv
  <1> SUFFICES ASSUME MountsInit PROVE MountsInv
    OBVIOUS
  <1>1. /\ mounts = [i \in MountSlot |-> [used |-> FALSE, at |-> <<>>, next |-> 0]]
        /\ mp_first = 0 /\ root_id = 0 /\ mmutex = "none" /\ complete = FALSE
        /\ mp = [p \in MProc |-> MIdle]
    BY DEF MountsInit
  <1>2. MIdle \in MCallType /\ MIdle.at = "start" /\ MIdle.n = 1
    BY MountsData DEF MIdle, MCallType, MPlaces
  <1>3. mounts \in MountsType
    BY <1>1, MountsData DEF MountsType
  <1>4. MountsTypeOK
    BY <1>1, <1>2, <1>3, MountsData DEF MountsTypeOK
  <1>5. Descending(RankOf(mounts), NextIn(mounts), mp_first, {})
    BY <1>1 DEF Descending, Highest
  <1>6. EntriesOf(mounts, mp_first) = {}
    <2>1. Cardinality({}) <= Len(MountList)
      BY FS_EmptySet, MountsData
    <2> QED BY <2>1, <1>3, <1>1, <1>5, MountsData, WalkDescends
  <1>7. Listed = {}
    BY <1>6, <1>3, <1>1, ListedIs, MountsData
  <1>8. TableOrdered
    BY <1>5, <1>7 DEF TableOrdered
  <1>9. HoldsFirst(0) /\ 0 \in 0 .. Len(MountList)
    BY <1>7, MountsData DEF HoldsFirst
  <1>10. Spare = {}
    BY <1>1 DEF Spare
  <1>11. Losers = {}
    BY <1>1, <1>2 DEF Losers
  <1>12. \A p \in MProc : mp[p].at = "start" /\ mp[p].n = 1
    BY <1>1, <1>2
  <1> QED BY <1>1, <1>4, <1>7, <1>8, <1>9, <1>10, <1>11, <1>12, FS_EmptySet DEF MountsInv, Filling

(* Who loses a slot.                                                       *)
LEMMA LosersFinite == IsFiniteSet(Losers) /\ Cardinality(Losers) \in Nat /\ IsFiniteSet(Spare) /\ Cardinality(Spare) \in Nat
  <1>1. Losers \in SUBSET MProc
    BY DEF Losers
  <1>2. IsFiniteSet(Losers)
    BY <1>1, FS_Subset, MountsData
  <1>3. IsFiniteSet(MountSlot)
    BY FS_Interval, MountsData DEF MountSlot
  <1>4. Spare \in SUBSET MountSlot
    BY DEF Spare
  <1>5. IsFiniteSet(Spare)
    BY <1>3, <1>4, FS_Subset
  <1> QED BY <1>2, <1>5, FS_CardinalityType

LEMMA LosersNow ==
  ASSUME MountsTypeOK, NEW p \in MProc, NEW c, mp' = [mp EXCEPT ![p] = c]
  PROVE  /\ mp[p].at \in {"next", "link", "dead"} /\ c.at \in {"next", "link", "dead"} => Losers' = Losers
         /\ mp[p].at \notin {"next", "link", "dead"} /\ c.at \in {"next", "link", "dead"} => Losers' = Losers \cup {p} /\ p \notin Losers
         /\ mp[p].at \notin {"next", "link", "dead"} /\ c.at \notin {"next", "link", "dead"} => Losers' = Losers
         /\ mp[p].at \in {"next", "link", "dead"} /\ c.at \notin {"next", "link", "dead"} => Losers' = Losers \ {p} /\ p \in Losers
  <1>1. mp'[p] = c /\ \A q \in MProc : q # p => mp'[q] = mp[q]
    BY DEF MountsTypeOK
  <1> QED BY <1>1 DEF Losers

LEMMA HoldsKept ==
  ASSUME Listed' = Listed, \A i \in Listed : mounts'[i].at = mounts[i].at, NEW n
  PROVE  HoldsFirst(n)' <=> HoldsFirst(n)
  BY DEF HoldsFirst

(* A step of a call that leaves the table alone.                           *)
LEMMA CallStep ==
  ASSUME MountsInv, NEW p \in MProc, NEW c \in MCallType, mp' = [mp EXCEPT ![p] = c],
         UNCHANGED <<mounts, mp_first, root_id, complete>>,
         mmutex' \in MProc \cup {"none"}, \A q \in MProc \ {p} : mmutex = q => mmutex' = q,
         mp[p].at \in {"next", "link", "dead"} => c.at \in {"next", "link", "dead"},
         c.at \in Filling => FillSound(p)',
         c.at \in {"start", "wait"} => c.n = 1,
         c.at \in {"walk", "found"} /\ c.whole => WalkSound(p)'
  PROVE  MountsInv'
  <1>1. MountsTypeOK /\ TableOrdered
    BY DEF MountsInv
  <1>2. Listed' = Listed /\ TableOrdered'
    BY <1>1, SameTable
  <1>3. mp'[p] = c /\ (\A q \in MProc : q # p => mp'[q] = mp[q]) /\ mp' \in [MProc -> MCallType]
    BY <1>1 DEF MountsTypeOK
  <1>4. MountsTypeOK'
    BY <1>1, <1>3 DEF MountsTypeOK
  <1>5. \A n : HoldsFirst(n)' <=> HoldsFirst(n)
    BY <1>2, HoldsKept
  <1>6. Spare' = Spare
    BY <1>2 DEF Spare
  <1>7. Cardinality(Spare') <= Cardinality(Losers')
    <2>1. Cardinality(Spare) <= Cardinality(Losers)
      BY DEF MountsInv
    <2>2. Losers' = Losers \/ (Losers' = Losers \cup {p} /\ p \notin Losers)
      BY <1>1, LosersNow
    <2>3. Cardinality(Losers \cup {p}) = Cardinality(Losers) + 1 \/ p \in Losers
      BY LosersFinite, FS_AddElement
    <2> QED BY <2>1, <2>2, <2>3, <1>6, LosersFinite
  <1>8. RootSound' <=> RootSound
    BY <1>2 DEF RootSound
  <1>9. RankOf(mounts)' = RankOf(mounts) /\ \A i, path : Matches(i, path)' <=> Matches(i, path)
    BY DEF RankOf, Matches
  <1>10. ASSUME NEW q \in MProc, q # p
         PROVE  /\ mp'[q].at \in Filling => FillSound(q)'
                /\ mp'[q].at \in {"start", "wait"} => mp'[q].n = 1
                /\ mp'[q].at \in {"walk", "found"} /\ mp'[q].whole => WalkSound(q)'
    <2>1. mp'[q] = mp[q]
      BY <1>3, <1>10
    <2>2. ASSUME mp[q].at \in Filling PROVE FillSound(q)'
      <3>1. FillSound(q)
        BY <2>2 DEF MountsInv
      <3>2. mmutex' = q
        BY <3>1, <1>10 DEF FillSound
      <3>3. \A x : NextOf(x)' = NextOf(x)
        BY DEF NextOf
      <3> QED BY <3>1, <3>2, <3>3, <2>1, <1>2, <1>5, <1>6, <1>8, <1>9 DEF FillSound
    <2>3. ASSUME mp[q].at \in {"walk", "found"}, mp[q].whole PROVE WalkSound(q)'
      <3>1. WalkSound(q)
        BY <2>3 DEF MountsInv
      <3> QED BY <3>1, <2>1, <1>2, <1>9 DEF WalkSound
    <2> QED BY <2>1, <2>2, <2>3 DEF MountsInv
  <1>11. \E n \in 0 .. Len(MountList) : HoldsFirst(n)'
    BY <1>5 DEF MountsInv
  <1>12. \A i \in Listed' : mounts'[i].used
    BY <1>2 DEF MountsInv
  <1>13. complete' => HoldsFirst(Len(MountList))' /\ RootSound'
    BY <1>5, <1>8 DEF MountsInv
  <1>14. \A q \in MProc : /\ mp'[q].at \in Filling => FillSound(q)'
                          /\ mp'[q].at \in {"start", "wait"} => mp'[q].n = 1
                          /\ mp'[q].at \in {"walk", "found"} /\ mp'[q].whole => WalkSound(q)'
    BY <1>3, <1>10
  <1> QED BY <1>2, <1>4, <1>7, <1>11, <1>12, <1>13, <1>14 DEF MountsInv

(* A step of the process that fills the table: the others neither fill it  *)
(* nor go by its being complete.                                           *)
LEMMA FillStep ==
  ASSUME MountsInv, NEW p \in MProc, mp[p].at \in Filling, NEW c \in MCallType, mp' = [mp EXCEPT ![p] = c],
         MountsTypeOK', TableOrdered', \E n \in 0 .. Len(MountList) : HoldsFirst(n)',
         \A i \in Listed' : mounts'[i].used, Cardinality(Spare') <= Cardinality(Losers'),
         complete' => HoldsFirst(Len(MountList))' /\ RootSound',
         c.at \in Filling => FillSound(p)', c.at \notin {"start", "wait", "walk", "found"}
  PROVE  MountsInv'
  <1>1. MountsTypeOK /\ FillSound(p)
    BY DEF MountsInv
  <1>2. mp'[p] = c /\ \A q \in MProc : q # p => mp'[q] = mp[q]
    BY <1>1 DEF MountsTypeOK
  <1>3. mmutex = p /\ ~complete
    BY <1>1 DEF FillSound
  <1>4. ASSUME NEW q \in MProc, q # p
        PROVE  /\ mp'[q].at \in Filling => FillSound(q)'
               /\ mp'[q].at \in {"start", "wait"} => mp'[q].n = 1
               /\ mp'[q].at \in {"walk", "found"} /\ mp'[q].whole => WalkSound(q)'
    <2>1. mp'[q] = mp[q]
      BY <1>2, <1>4
    <2>2. mp[q].at \notin Filling
      <3> SUFFICES ASSUME mp[q].at \in Filling PROVE FALSE
        OBVIOUS
      <3>1. FillSound(q)
        BY DEF MountsInv
      <3> QED BY <3>1, <1>3, <1>4 DEF FillSound
    <2>3. ~(mp[q].at \in {"walk", "found"} /\ mp[q].whole)
      <3> SUFFICES ASSUME mp[q].at \in {"walk", "found"}, mp[q].whole PROVE FALSE
        OBVIOUS
      <3>1. WalkSound(q)
        BY DEF MountsInv
      <3> QED BY <3>1, <1>3 DEF WalkSound
    <2>4. mp[q].at \in {"start", "wait"} => mp[q].n = 1
      BY DEF MountsInv
    <2> QED BY <2>1, <2>2, <2>3, <2>4
  <1>5. \A q \in MProc : /\ mp'[q].at \in Filling => FillSound(q)'
                         /\ mp'[q].at \in {"start", "wait"} => mp'[q].n = 1
                         /\ mp'[q].at \in {"walk", "found"} /\ mp'[q].whole => WalkSound(q)'
    BY <1>2, <1>4
  <1> QED BY <1>5 DEF MountsInv

-----------------------------------------------------------------------------
(* The steps.                                                              *)

\* d is c somewhere else
Relocated(d, c, at) ==
  /\ d \in MCallType /\ d.at = at /\ d.n = c.n /\ d.slot = c.slot /\ d.prev = c.prev
  /\ d.path = c.path /\ d.cur = c.cur /\ d.whole = c.whole

LEMMA MCallIs ==
  ASSUME MountsTypeOK, NEW p \in MProc
  PROVE  /\ mp[p] \in MCallType
         /\ \A at \in MPlaces : Relocated([mp[p] EXCEPT !.at = at], mp[p], at)
         /\ \A at \in MPlaces : Relocated([MIdle EXCEPT !.at = at], MIdle, at)
         /\ \A at \in MPlaces, n \in 1 .. Len(MountList) + 1 :
              LET d == [MIdle EXCEPT !.at = at, !.n = n]
              IN  d \in MCallType /\ d.at = at /\ d.n = n
  <1>1. mp[p] \in MCallType
    BY DEF MountsTypeOK
  <1>2. MIdle \in MCallType
    BY MountsData DEF MIdle, MCallType, MPlaces
  <1>3. \A d \in MCallType : \A at \in MPlaces : Relocated([d EXCEPT !.at = at], d, at)
    BY DEF MCallType, Relocated
  <1>4. \A d \in MCallType : \A at \in MPlaces, n \in 1 .. Len(MountList) + 1 :
          LET e == [d EXCEPT !.at = at, !.n = n] IN e \in MCallType /\ e.at = at /\ e.n = n
    BY DEF MCallType
  <1> QED BY <1>1, <1>2, <1>3, <1>4

LEMMA InitTestKeeps ==
  ASSUME MountsInv, NEW p \in MProc, InitTest(p)
  PROVE  MountsInv'
  <1> DEFINE c == [mp[p] EXCEPT !.at = IF mp_first > 0 THEN "ready" ELSE "wait"]
  <1>1. MountsTypeOK /\ mp[p].at = "start" /\ mp[p].n = 1 /\ mp' = [mp EXCEPT ![p] = c]
    BY DEF MountsInv, InitTest, MGo
  <1>2. c \in MCallType /\ c.at \in {"ready", "wait"} /\ c.n = 1
    <2>1. "ready" \in MPlaces /\ "wait" \in MPlaces
      BY DEF MPlaces
    <2> DEFINE a == IF mp_first > 0 THEN "ready" ELSE "wait"
    <2>2. a \in MPlaces /\ a \in {"ready", "wait"}
      BY <2>1
    <2> HIDE DEF a
    <2>3. c = [mp[p] EXCEPT !.at = a]
      BY DEF a
    <2> HIDE DEF c
    <2>4. Relocated(c, mp[p], a)
      BY <1>1, <2>2, <2>3, MCallIs
    <2> QED BY <1>1, <2>2, <2>4 DEF Relocated
  <1> HIDE DEF c
  <1>3. UNCHANGED <<mounts, mp_first, root_id, complete>> /\ mmutex' = mmutex /\ mmutex \in MProc \cup {"none"}
    BY <1>1 DEF InitTest, MountsTypeOK
  <1> QED BY <1>1, <1>2, <1>3, CallStep DEF Filling

LEMMA MountDieKeeps ==
  ASSUME MountsInv, NEW p \in MProc, MountDie(p)
  PROVE  MountsInv'
  <1> DEFINE c == [MIdle EXCEPT !.at = "dead"]
  <1>1. MountsTypeOK /\ mp' = [mp EXCEPT ![p] = c]
    BY DEF MountsInv, MountDie
  <1>2. c \in MCallType /\ c.at = "dead"
    <2>1. "dead" \in MPlaces
      BY DEF MPlaces
    <2> QED BY <1>1, <2>1, MCallIs DEF Relocated
  <1> HIDE DEF c
  <1>3. UNCHANGED <<mounts, mp_first, root_id, complete>> /\ mmutex' \in MProc \cup {"none"}
        /\ \A q \in MProc \ {p} : mmutex = q => mmutex' = q
    BY <1>1 DEF MountDie, MountsTypeOK
  <1> QED BY <1>1, <1>2, <1>3, CallStep DEF Filling

(* The first entry is there as soon as any is.                             *)
LEMMA FirstIsHighest ==
  ASSUME MountsInv
  PROVE  /\ Listed \subseteq MountSlot /\ 0 \notin Listed
         /\ (mp_first = 0 <=> Listed = {}) /\ (mp_first # 0 => mp_first \in Listed)
         /\ Listed = {} => HoldsFirst(0) /\ ~complete
         /\ \A n \in 1 .. Len(MountList) : HoldsFirst(n) => Listed # {}
  <1>1. Descending(RankOf(mounts), NextIn(mounts), mp_first, Listed)
    BY DEF MountsInv, TableOrdered
  <1>2. Listed \subseteq MountSlot /\ 0 \notin Listed
    BY <1>1, MountsData DEF Descending
  <1>3. (mp_first = 0 <=> Listed = {}) /\ (mp_first # 0 => mp_first \in Listed)
    BY <1>1, <1>2 DEF Descending, Highest
  <1>4. \A n \in 1 .. Len(MountList) : HoldsFirst(n) => Listed # {}
    BY MountsData DEF HoldsFirst
  <1>5. Listed = {} => HoldsFirst(0)
    BY DEF HoldsFirst
  <1>6. Listed = {} => ~complete
    BY <1>4, MountsData DEF MountsInv
  <1> QED BY <1>2, <1>3, <1>4, <1>5, <1>6

LEMMA InitLockedKeeps ==
  ASSUME MountsInv, NEW p \in MProc, InitLocked(p)
  PROVE  MountsInv'
  <1>1. MountsTypeOK /\ mp[p].at = "wait" /\ mp[p].n = 1 /\ mmutex = "none" /\ "none" \notin MProc
        /\ UNCHANGED <<mounts, mp_first, root_id, complete>>
    BY MountsAssumption DEF MountsInv, InitLocked, MGo
  <1>2. CASE mp_first > 0
    <2> DEFINE c == [mp[p] EXCEPT !.at = "ready"]
    <2>1. mp' = [mp EXCEPT ![p] = c] /\ mmutex' = mmutex
      BY <1>2 DEF InitLocked, MGo
    <2>2. c \in MCallType /\ c.at = "ready"
      <3>1. "ready" \in MPlaces
        BY DEF MPlaces
      <3> QED BY <1>1, <3>1, MCallIs DEF Relocated
    <2> HIDE DEF c
    <2> QED BY <1>1, <2>1, <2>2, CallStep DEF Filling
  <1>3. CASE ~(mp_first > 0)
    <2> DEFINE c == [mp[p] EXCEPT !.at = "fill"]
    <2>1. mp' = [mp EXCEPT ![p] = c] /\ mmutex' = p
      BY <1>3 DEF InitLocked, MGo
    <2>2. c \in MCallType /\ c.at = "fill" /\ c.n = 1
      <3>1. "fill" \in MPlaces
        BY DEF MPlaces
      <3> QED BY <1>1, <3>1, MCallIs DEF Relocated
    <2> HIDE DEF c
    <2>3. mp_first = 0
      BY <1>1, <1>3, MountsData DEF MountsTypeOK, MountRef
    <2>4. HoldsFirst(0) /\ ~complete
      BY <2>3, FirstIsHighest
    <2>5. Listed' = Listed
      BY <1>1, SameTable
    <2>6. HoldsFirst(0)'
      BY <1>1, <2>4, <2>5, HoldsKept
    <2>7. mp'[p] = c
      BY <1>1, <2>1 DEF MountsTypeOK
    <2>8. FillSound(p)'
      BY <1>1, <2>1, <2>2, <2>4, <2>6, <2>7, MountsData DEF FillSound
    <2> QED BY <1>1, <2>1, <2>2, <2>8, CallStep
  <1> QED BY <1>2, <1>3

LEMMA FindStartKeeps ==
  ASSUME MountsInv, NEW p \in MProc, NEW path \in LookupPath, FindStart(p, path)
  PROVE  MountsInv'
  <1> DEFINE c == [mp[p] EXCEPT !.at = "walk", !.path = path, !.cur = mp_first, !.whole = complete]
  <1>1. MountsTypeOK /\ mp[p].at = "ready" /\ mp' = [mp EXCEPT ![p] = c]
        /\ UNCHANGED <<mounts, mp_first, root_id, mmutex, complete>>
    BY DEF MountsInv, FindStart, MGo
  <1>2. path \in Seq(STRING) /\ mp_first \in MountRef /\ complete \in BOOLEAN /\ mp[p] \in MCallType
    BY <1>1, MountsAssumption DEF MountsTypeOK
  <1>3. c \in MCallType /\ c.at = "walk" /\ c.cur = mp_first /\ c.whole = complete /\ c.path = path
    BY <1>2 DEF MCallType, MPlaces
  <1> HIDE DEF c
  <1>4. mp'[p] = c
    BY <1>1 DEF MountsTypeOK
  <1>5. Listed' = Listed
    BY <1>1, SameTable
  <1>6. ASSUME complete PROVE WalkSound(p)'
    <2>1. Descending(RankOf(mounts), NextIn(mounts), mp_first, Listed)
      BY DEF MountsInv, TableOrdered
    <2>2. mp_first \in Listed /\ mp_first # 0
      BY <1>6, FirstIsHighest
    <2>3. \A j \in Listed : RankOf(mounts)[j] <= RankOf(mounts)[mp_first]
      BY <2>1, <2>2 DEF Descending, Highest
    <2>4. \A j \in Listed : RankOf(mounts)[j] \in Nat
      BY <1>1, FirstIsHighest, RanksApart DEF MountsTypeOK, MountsType, RankOf
    <2>5. \A j \in Listed : ~(RankOf(mounts)[j] > RankOf(mounts)[mp_first])
      BY <2>2, <2>3, <2>4
    <2>6. RankOf(mounts)' = RankOf(mounts)
      BY <1>1 DEF RankOf
    <2> QED BY <1>1, <1>3, <1>4, <1>5, <1>6, <2>2, <2>5, <2>6 DEF WalkSound
  <1>7. mmutex' \in MProc \cup {"none"}
    BY <1>1 DEF MountsTypeOK
  <1> QED BY <1>1, <1>3, <1>6, <1>7, CallStep DEF Filling

LEMMA FindEndKeeps ==
  ASSUME MountsInv, NEW p \in MProc, FindEnd(p)
  PROVE  MountsInv'
  <1> DEFINE c == [MIdle EXCEPT !.at = "ready"]
  <1>1. MountsTypeOK /\ mp[p].at = "found" /\ mp' = [mp EXCEPT ![p] = c]
        /\ UNCHANGED <<mounts, mp_first, root_id, mmutex, complete>>
    BY DEF MountsInv, FindEnd, MGo
  <1>2. c \in MCallType /\ c.at = "ready"
    <2>1. "ready" \in MPlaces
      BY DEF MPlaces
    <2> QED BY <1>1, <2>1, MCallIs DEF Relocated
  <1> HIDE DEF c
  <1>3. mmutex' \in MProc \cup {"none"}
    BY <1>1 DEF MountsTypeOK
  <1> QED BY <1>1, <1>2, <1>3, CallStep DEF Filling

LEMMA FindStepKeeps ==
  ASSUME MountsInv, NEW p \in MProc, FindStep(p)
  PROVE  MountsInv'
  <1> DEFINE b == mp[p]
             here == b.cur = 0 \/ Matches(b.cur, b.path)
             c == IF here THEN [b EXCEPT !.at = "found"] ELSE [b EXCEPT !.cur = mounts[b.cur].next]
  <1>1. MountsTypeOK /\ b.at = "walk" /\ mp' = [mp EXCEPT ![p] = c]
        /\ UNCHANGED <<mounts, mp_first, root_id, mmutex, complete>>
    BY DEF MountsInv, FindStep, MGo
  <1>2. b \in MCallType /\ (b.cur # 0 => b.cur \in MountSlot /\ mounts[b.cur].next \in MountRef)
    BY <1>1, MountsData DEF MountsTypeOK, MountsType, MCallType
  <1>3. c \in MCallType /\ c.at \in {"walk", "found"} /\ c.path = b.path /\ c.whole = b.whole
        /\ (IF here THEN c.cur = b.cur /\ c.at = "found" ELSE c.cur = mounts[b.cur].next /\ c.at = "walk")
    <2>1. "found" \in MPlaces
      BY DEF MPlaces
    <2>2. CASE here
      BY <1>2, <2>1, <2>2 DEF MCallType
    <2>3. CASE ~here
      BY <1>1, <1>2, <2>3 DEF MCallType
    <2> QED BY <2>2, <2>3
  <1> HIDE DEF c
  <1>4. mp'[p] = c
    BY <1>1 DEF MountsTypeOK
  <1>5. Listed' = Listed /\ RankOf(mounts)' = RankOf(mounts)
    BY <1>1, SameTable DEF RankOf
  <1>6. ASSUME b.whole PROVE WalkSound(p)'
    <2> DEFINE r == RankOf(mounts)
    <2>1. WalkSound(p)
      BY <1>1, <1>6 DEF MountsInv
    <2>2. /\ complete /\ (b.cur # 0 => b.cur \in Listed)
          /\ \A j \in Listed : b.cur = 0 \/ r[j] > r[b.cur] => ~Matches(j, b.path)
      BY <2>1 DEF WalkSound
    <2>3. Descending(r, NextIn(mounts), mp_first, Listed)
      BY DEF MountsInv, TableOrdered
    <2>4. Listed \subseteq MountSlot /\ \A j \in Listed : r[j] \in Nat
      BY <1>1, FirstIsHighest, RanksApart DEF MountsTypeOK, MountsType, RankOf
    <2>5. b.cur # 0
      <3>1. RootSound
        BY <2>2 DEF MountsInv
      <3>2. Matches(root_id, b.path)
        <4>1. SX!IsPrefix(<<>>, b.path)
          BY <1>2 DEF SX!IsPrefix, MCallType
        <4> QED BY <3>1, <4>1 DEF RootSound, Matches
      <3> QED BY <2>2, <3>1, <3>2 DEF RootSound
    <2>6. \A i, path : Matches(i, path)' <=> Matches(i, path)
      BY <1>1 DEF Matches
    <2>7. CASE here
      BY <2>7, <1>1, <1>3, <1>4, <1>5, <2>2, <2>5, <2>6 DEF WalkSound
    <2>8. CASE ~here
      <3> DEFINE t == mounts[b.cur].next
      <3>1. Highest(r, Lower(r, Listed, b.cur), t)
        <4>1. NextIn(mounts)[b.cur] = t
          BY <1>2, <2>5 DEF NextIn
        <4> QED BY <2>2, <2>3, <2>5, <4>1 DEF Descending
      <3>2. c.cur = t /\ c.at = "walk"
        BY <2>8, <1>3
      <3> HIDE DEF t, r
      <3>3. t # 0 => t \in Listed
        BY <3>1 DEF Highest, Lower
      <3>4. ASSUME NEW j \in Listed, t = 0 \/ r[j] > r[t] PROVE ~Matches(j, b.path)
        <4>1. b.cur \in Listed /\ ~Matches(b.cur, b.path)
          BY <2>2, <2>5, <2>8
        <4>2. CASE r[j] < r[b.cur]
          <5>1. j \in Lower(r, Listed, b.cur)
            BY <4>2 DEF Lower
          <5>2. t \in Lower(r, Listed, b.cur) /\ r[j] <= r[t]
            BY <3>1, <5>1 DEF Highest
          <5>3. t \in Listed /\ r[t] \in Nat /\ r[j] \in Nat /\ 0 \notin Listed
            BY <5>2, <2>4, FirstIsHighest DEF Lower
          <5> QED BY <5>2, <5>3, <3>4
        <4>3. CASE r[j] = r[b.cur]
          BY <4>1, <4>3, <2>3 DEF Descending
        <4>4. CASE r[j] > r[b.cur]
          BY <4>4, <2>2
        <4> QED BY <4>1, <4>2, <4>3, <4>4, <2>4
      <3> QED BY <1>1, <1>3, <1>4, <1>5, <2>2, <2>6, <3>2, <3>3, <3>4 DEF WalkSound, r
    <2> QED BY <2>7, <2>8
  <1>7. mmutex' \in MProc \cup {"none"}
    BY <1>1 DEF MountsTypeOK
  <1> QED BY <1>1, <1>3, <1>6, <1>7, CallStep DEF Filling

(* Prev finds where an entry goes.                                         *)
LEMMA PrevIs ==
  ASSUME MountsTypeOK, Listed \subseteq MountSlot, NEW at \in MountPoint,
         \A j \in Listed : RankOf(mounts)[j] # Rank[at]
  PROVE  GoesAfter(RankOf(mounts), Listed, Rank[at], Prev(at)) /\ Prev(at) \in MountRef
  <1> DEFINE r == RankOf(mounts)
  <1>1. r \in [MountSlot -> Nat] /\ Rank[at] \in Nat /\ \A i \in MountSlot : r[i] = Rank[mounts[i].at]
    BY RanksApart DEF MountsTypeOK, MountsType, RankOf
  <1>2. Above(at) = {i \in Listed : r[i] > Rank[at]}
    BY <1>1 DEF Above
  <1>3. CASE Above(at) = {}
    <2>1. Prev(at) = 0
      BY <1>3 DEF Prev
    <2>2. \A j \in Listed : r[j] < Rank[at]
      BY <1>1, <1>2, <1>3
    <2> QED BY <2>1, <2>2, MountsData DEF GoesAfter
  <1>4. CASE Above(at) # {}
    <2>1. Above(at) \subseteq MountSlot
      BY <1>2
    <2> HIDE DEF r
    <2>2. \E i \in Above(at) : \A j \in Above(at) : r[i] <= r[j]
      BY <1>1, <1>4, <2>1, LowestSlot
    <2>3. \E i \in Above(at) : \A j \in Above(at) : Rank[mounts[i].at] <= Rank[mounts[j].at]
      BY <1>1, <2>1, <2>2
    <2>4. Prev(at) \in Above(at) /\ \A j \in Above(at) : Rank[mounts[Prev(at)].at] <= Rank[mounts[j].at]
      BY <1>4, <2>3 DEF Prev
    <2> DEFINE t == Prev(at)
    <2> HIDE DEF t
    <2>5. t \in Above(at) /\ \A j \in Above(at) : r[t] <= r[j]
      BY <1>1, <2>1, <2>4 DEF t
    <2>6. t \in Listed /\ r[t] > Rank[at] /\ \A j \in Listed : r[j] > Rank[at] => r[t] <= r[j]
      BY <1>2, <2>5
    <2>7. ~(\A j \in Listed : r[j] < Rank[at])
      BY <1>1, <2>6
    <2> QED BY <2>6, <2>7, MountsData DEF GoesAfter, r, t
  <1> QED BY <1>3, <1>4

(* There is a slot left.                                                   *)
LEMMA SlotLeft ==
  ASSUME MountsInv, NEW p \in MProc, mp[p].at = "fill"
  PROVE  FX!Min({s \in MountSlot : ~mounts[s].used}) \in {s \in MountSlot : ~mounts[s].used}
  <1> DEFINE used == {s \in MountSlot : mounts[s].used}
  <1>1. MountsTypeOK /\ FillSound(p) /\ (\A i \in Listed : mounts[i].used) /\ Cardinality(Spare) <= Cardinality(Losers)
    BY DEF MountsInv, Filling
  <1>2. mp[p].n \in 1 .. Len(MountList) /\ HoldsFirst(mp[p].n - 1)
    BY <1>1, MountsData DEF FillSound, MountsTypeOK, MCallType
  <1>3. mp[p].n - 1 \in 0 .. Len(MountList)
    BY <1>2, MountsData
  <1>4. IsFiniteSet(Listed) /\ Cardinality(Listed) \in Nat /\ Cardinality(Listed) <= mp[p].n - 1
    <2>1. mounts \in MountsType /\ Descending(RankOf(mounts), NextIn(mounts), mp_first, Listed)
      BY <1>1 DEF MountsTypeOK, MountsInv, TableOrdered
    <2>2. \A i \in Listed : \E k \in 1 .. mp[p].n - 1 : mounts[i].at = MountList[k]
      BY <1>2 DEF HoldsFirst
    <2> QED BY <2>1, <2>2, <1>3, EntriesFew
  <1>5. used = Listed \cup Spare /\ Listed \cap Spare = {}
    BY <1>1, FirstIsHighest DEF Spare
  <1>6. Cardinality(Losers) <= Cardinality(MProc)
    <2>1. Losers \in SUBSET MProc
      BY DEF Losers
    <2> QED BY <2>1, FS_Subset, MountsData
  <1>7. Cardinality(used) = Cardinality(Listed) + Cardinality(Spare)
    <2>1. Cardinality(Listed \cup Spare) = Cardinality(Listed) + Cardinality(Spare) - Cardinality(Listed \cap Spare)
      BY <1>4, LosersFinite, FS_Union
    <2>2. Cardinality(Listed \cap Spare) = 0
      BY <1>5, FS_EmptySet
    <2> HIDE DEF used
    <2> QED BY <2>1, <2>2, <1>4, <1>5, LosersFinite
  <1>8. Cardinality(MountSlot) = MAX_MOUNT_POINTS - 1
    BY FS_Interval, MountsData DEF MountSlot
  <1>9. used # MountSlot
    <2> HIDE DEF used
    <2> QED BY <1>1, <1>2, <1>4, <1>6, <1>7, <1>8, LosersFinite, MountsData
  <1> DEFINE F == {s \in MountSlot : ~mounts[s].used}
  <1>10. F # {} /\ F \in SUBSET Nat
    <2>1. MountSlot \subseteq Nat
      BY MountsData DEF MountSlot
    <2> QED BY <1>9, <2>1
  <1> HIDE DEF F
  <1>11. FX!Min(F) \in F
    BY <1>10, LeastOne
  <1> QED BY <1>11 DEF F

LEMMA FillKeeps ==
  ASSUME MountsInv, NEW p \in MProc, Fill(p)
  PROVE  MountsInv'
  <1>0. PICK n, i, t, c :
          /\ n = mp[p].n /\ i = FX!Min({s \in MountSlot : ~mounts[s].used}) /\ t = Prev(MountList[n])
          /\ c = [mp[p] EXCEPT !.at = "next", !.slot = i, !.prev = t]
    OBVIOUS
  <1> DEFINE at == MountList[n]
             e == [used |-> TRUE, at |-> at, next |-> 0]
  <1>1. MountsTypeOK /\ mp[p].at = "fill" /\ mp' = [mp EXCEPT ![p] = c]
        /\ mounts' = [mounts EXCEPT ![i] = e] /\ UNCHANGED <<mp_first, root_id, mmutex, complete>>
    BY <1>0 DEF MountsInv, Fill, MGo
  <1>2. i \in MountSlot /\ ~mounts[i].used
    BY <1>0, <1>1, SlotLeft
  <1>3. FillSound(p) /\ (\A j \in Listed : mounts[j].used) /\ TableOrdered
    BY <1>1 DEF MountsInv, Filling
  <1>4. n \in 1 .. Len(MountList) /\ HoldsFirst(n - 1) /\ mmutex = p /\ ~complete /\ (n > 1 => RootSound)
    BY <1>0, <1>1, <1>3, MountsData DEF FillSound, MountsTypeOK, MCallType
  <1>5. at \in MountPoint /\ at \in Seq(STRING) /\ Rank[at] \in Nat
    BY <1>4, MountsData DEF MountPoint
  <1>6. i \notin Listed /\ i \notin Spare /\ Listed \subseteq MountSlot
    BY <1>2, <1>3, FirstIsHighest DEF Spare
  <1>7. e \in [used : BOOLEAN, at : MountPoint, next : MountRef]
    BY <1>5, MountsData
  <1>8. mounts' \in MountsType /\ mounts'[i] = e /\ \A j \in MountSlot : j # i => mounts'[j] = mounts[j]
    BY <1>1, <1>2, <1>7 DEF MountsTypeOK, MountsType
  <1>9. e.used /\ e.at = at
    OBVIOUS
  <1> HIDE DEF e
  <1>10. \A j \in Listed : RankOf(mounts)[j] # Rank[at] /\ mounts[j].at # at
    <2> SUFFICES ASSUME NEW j \in Listed PROVE RankOf(mounts)[j] # Rank[at] /\ mounts[j].at # at
      OBVIOUS
    <2>1. PICK k \in 1 .. n - 1 : mounts[j].at = MountList[k]
      BY <1>4 DEF HoldsFirst
    <2>2. k # n /\ k \in DOMAIN MountList /\ n \in DOMAIN MountList
      BY <1>4, <2>1, MountsData
    <2>3. Rank[MountList[k]] # Rank[at]
      BY <2>2, RankAssumption
    <2> QED BY <2>1, <2>3, <1>6 DEF RankOf
  <1>11. GoesAfter(RankOf(mounts), Listed, Rank[at], t) /\ t \in MountRef
    <2> HIDE DEF at
    <2>1. t = Prev(at)
      BY <1>0 DEF at
    <2> QED BY <1>1, <1>5, <1>6, <1>10, <2>1, PrevIs
  <1>12. c \in MCallType /\ c.at = "next" /\ c.n = n /\ c.slot = i /\ c.prev = t
    <2>1. mp[p] \in MCallType /\ "next" \in MPlaces /\ i \in MountRef
      BY <1>1, <1>2, MountsData DEF MountsTypeOK, MPlaces
    <2> QED BY <2>1, <1>0, <1>11 DEF MCallType
  <1>13. mp'[p] = c /\ mp' \in [MProc -> MCallType]
    BY <1>1, <1>12 DEF MountsTypeOK
  <1>14. MountsTypeOK'
    BY <1>1, <1>8, <1>13 DEF MountsTypeOK
  <1>15. \A j \in Listed : mounts'[j] = mounts[j]
    BY <1>6, <1>8
  <1>16. Listed' = Listed /\ TableOrdered'
    <2> DEFINE r2 == RankOf(mounts')
               nx2 == NextIn(mounts')
    <2>1. Descending(RankOf(mounts), NextIn(mounts), mp_first, Listed)
      BY <1>3 DEF TableOrdered
    <2>2. \A j \in Listed : r2[j] = RankOf(mounts)[j] /\ nx2[j] = NextIn(mounts)[j]
      BY <1>6, <1>15 DEF RankOf, NextIn
    <2> HIDE DEF r2, nx2
    <2>3. Descending(r2, nx2, mp_first, Listed)
      BY <2>1, <2>2, SameOrder
    <2>4. mp_first' = mp_first
      BY <1>1
    <2>5. Descending(RankOf(mounts'), NextIn(mounts'), mp_first', Listed)
      BY <2>3, <2>4 DEF r2, nx2
    <2>6. n - 1 \in 0 .. Len(MountList) /\ \A j \in Listed : \E k \in 1 .. n - 1 : mounts'[j].at = MountList[k]
      <3>1. n - 1 \in 0 .. Len(MountList)
        BY <1>4, MountsData
      <3>2. \A j \in Listed : \E k \in 1 .. n - 1 : mounts[j].at = MountList[k]
        BY <1>4 DEF HoldsFirst
      <3> QED BY <3>1, <3>2, <1>15
    <2>7. mp_first' \in MountRef /\ mounts' \in MountsType
      BY <1>14 DEF MountsTypeOK
    <2> QED BY <2>5, <2>6, <2>7, NewTable
  <1>17. HoldsFirst(n - 1)' /\ n - 1 \in 0 .. Len(MountList)
    <2>1. \A j \in Listed : mounts'[j].at = mounts[j].at
      BY <1>15
    <2>2. HoldsFirst(n - 1)' <=> HoldsFirst(n - 1)
      BY <2>1, <1>16, HoldsKept
    <2> QED BY <1>4, <2>2, MountsData
  <1>18. \A j \in Listed' : mounts'[j].used
    BY <1>3, <1>15, <1>16
  <1>19. Spare' = Spare \cup {i}
    <2>1. \A j \in MountSlot : mounts'[j].used <=> mounts[j].used \/ j = i
      BY <1>8, <1>9
    <2> QED BY <2>1, <1>2, <1>6, <1>16 DEF Spare
  <1>20. Cardinality(Spare') <= Cardinality(Losers')
    <2>1. Losers' = Losers \cup {p} /\ p \notin Losers
      BY <1>1, <1>12, LosersNow
    <2>2. Cardinality(Losers') = Cardinality(Losers) + 1
      BY <2>1, LosersFinite, FS_AddElement
    <2>3. Cardinality(Spare') = Cardinality(Spare) + 1
      BY <1>6, <1>19, LosersFinite, FS_AddElement
    <2>4. Cardinality(Spare) <= Cardinality(Losers)
      BY DEF MountsInv
    <2> QED BY <2>2, <2>3, <2>4, LosersFinite
  <1>21. RootSound => RootSound'
    BY <1>1, <1>15, <1>16 DEF RootSound
  <1>22. GoesAfter(RankOf(mounts'), Listed', Rank[at], t)
    <2>1. \A j \in Listed : RankOf(mounts')[j] = RankOf(mounts)[j]
      BY <1>6, <1>15 DEF RankOf
    <2> QED BY <2>1, <1>11, <1>16 DEF GoesAfter
  <1>23. FillSound(p)'
    <2>1. mmutex' = p /\ ~complete' /\ c.n <= Len(MountList)
      BY <1>1, <1>4, <1>12, MountsData
    <2>2. HoldsFirst(c.n - 1)' /\ c.at \notin {"root", "mounted", "link"} /\ (c.n > 1 => RootSound')
      BY <1>4, <1>12, <1>17, <1>21
    <2>3. c.slot \in Spare' /\ mounts'[c.slot].at = MountList[c.n]
      BY <1>8, <1>9, <1>12, <1>19
    <2>4. GoesAfter(RankOf(mounts'), Listed', Rank[MountList[c.n]], c.prev)
      BY <1>12, <1>22
    <2> QED BY <1>13, <2>1, <2>2, <2>3, <2>4 DEF FillSound
  <1>24. mp[p].at \in Filling /\ c.at \notin {"start", "wait", "walk", "found"} /\ ~complete'
    BY <1>1, <1>4, <1>12 DEF Filling
  <1>25. \E m \in 0 .. Len(MountList) : HoldsFirst(m)'
    BY <1>17
  <1>26. MountsTypeOK' /\ TableOrdered'
    BY <1>14, <1>16
  <1>27. mp' = [mp EXCEPT ![p] = c] /\ c \in MCallType
    BY <1>1, <1>12
  <1> QED BY <1>18, <1>20, <1>23, <1>24, <1>25, <1>26, <1>27, FillStep

(* The entry being filled is not on the list yet.                          *)
LEMMA FillFacts ==
  ASSUME MountsInv, NEW p \in MProc, mp[p].at \in {"next", "link"}
  PROVE  /\ MountsTypeOK /\ FillSound(p) /\ TableOrdered /\ mmutex = p /\ ~complete
         /\ mp[p].n \in 1 .. Len(MountList) /\ HoldsFirst(mp[p].n - 1) /\ (mp[p].n > 1 => RootSound)
         /\ mp[p].slot \in MountSlot /\ mp[p].slot \in Spare /\ mp[p].slot \notin Listed
         /\ mounts[mp[p].slot].used /\ mounts[mp[p].slot].at = MountList[mp[p].n]
         /\ mp[p].prev \in Listed \cup {0} /\ mp[p].prev \in MountRef
         /\ GoesAfter(RankOf(mounts), Listed, Rank[MountList[mp[p].n]], mp[p].prev)
         /\ Listed \subseteq MountSlot /\ (\A j \in Listed : mounts[j].used)
  <1>1. MountsTypeOK /\ FillSound(p) /\ TableOrdered /\ \A j \in Listed : mounts[j].used
    BY DEF MountsInv, Filling
  <1>2. mp[p] \in MCallType /\ mp[p].n \in 1 .. Len(MountList) /\ mp[p].prev \in MountRef
    BY <1>1, MountsData DEF FillSound, MountsTypeOK, MCallType
  <1>3. mp[p].slot \in Spare /\ mp[p].slot \in MountSlot /\ mp[p].slot \notin Listed /\ mounts[mp[p].slot].used
    BY <1>1 DEF FillSound, Spare
  <1>4. GoesAfter(RankOf(mounts), Listed, Rank[MountList[mp[p].n]], mp[p].prev)
    BY <1>1 DEF FillSound
  <1>5. mp[p].prev \in Listed \cup {0}
    BY <1>4 DEF GoesAfter
  <1>6. Listed \subseteq MountSlot
    BY FirstIsHighest
  <1> QED BY <1>1, <1>2, <1>3, <1>4, <1>5, <1>6 DEF FillSound

LEMMA SetNextKeeps ==
  ASSUME MountsInv, NEW p \in MProc, SetNext(p)
  PROVE  MountsInv'
  <1>0. PICK n, i, t, x, c :
          /\ n = mp[p].n /\ i = mp[p].slot /\ t = mp[p].prev /\ x = NextOf(t)
          /\ c = [mp[p] EXCEPT !.at = "link"]
    OBVIOUS
  <1>1. mp[p].at = "next" /\ mp' = [mp EXCEPT ![p] = c] /\ mounts' = [mounts EXCEPT ![i].next = x]
        /\ UNCHANGED <<mp_first, root_id, mmutex, complete>>
    BY <1>0 DEF SetNext, MGo
  <1>2. /\ MountsTypeOK /\ FillSound(p) /\ TableOrdered /\ mmutex = p /\ ~complete
        /\ n \in 1 .. Len(MountList) /\ HoldsFirst(n - 1) /\ (n > 1 => RootSound)
        /\ i \in MountSlot /\ i \in Spare /\ i \notin Listed /\ mounts[i].used /\ mounts[i].at = MountList[n]
        /\ t \in Listed \cup {0} /\ GoesAfter(RankOf(mounts), Listed, Rank[MountList[n]], t)
        /\ Listed \subseteq MountSlot /\ \A j \in Listed : mounts[j].used
    BY <1>0, <1>1, FillFacts
  <1>3. x \in MountRef
    <2>1. t \in MountSlot => mounts[t].next \in MountRef
      BY <1>2 DEF MountsTypeOK, MountsType
    <2> QED BY <2>1, <1>0, <1>2 DEF NextOf, MountsTypeOK
  <1>4. /\ mounts' \in MountsType
        /\ \A j \in MountSlot : /\ mounts'[j].used = mounts[j].used /\ mounts'[j].at = mounts[j].at
                                /\ mounts'[j].next = IF j = i THEN x ELSE mounts[j].next
    BY <1>1, <1>2, <1>3 DEF MountsTypeOK, MountsType
  <1>5. c \in MCallType /\ c.at = "link" /\ c.n = n /\ c.slot = i /\ c.prev = t
    <2>1. "link" \in MPlaces
      BY DEF MPlaces
    <2>2. Relocated(c, mp[p], "link")
      BY <2>1, <1>0, <1>2, MCallIs
    <2> QED BY <2>2, <1>0 DEF Relocated
  <1>6. mp'[p] = c /\ mp' \in [MProc -> MCallType]
    BY <1>1, <1>2, <1>5 DEF MountsTypeOK
  <1>7. MountsTypeOK'
    BY <1>1, <1>2, <1>4, <1>6 DEF MountsTypeOK
  <1>8. \A j \in Listed : mounts'[j].at = mounts[j].at /\ mounts'[j].next = mounts[j].next /\ mounts'[j].used
    BY <1>2, <1>4
  <1>9. Listed' = Listed /\ TableOrdered'
    <2> DEFINE r2 == RankOf(mounts')
               nx2 == NextIn(mounts')
    <2>1. Descending(RankOf(mounts), NextIn(mounts), mp_first, Listed)
      BY <1>2 DEF TableOrdered
    <2>2. \A j \in Listed : r2[j] = RankOf(mounts)[j] /\ nx2[j] = NextIn(mounts)[j]
      BY <1>2, <1>8 DEF RankOf, NextIn
    <2> HIDE DEF r2, nx2
    <2>3. Descending(r2, nx2, mp_first, Listed)
      BY <2>1, <2>2, SameOrder
    <2>4. mp_first' = mp_first
      BY <1>1
    <2>5. Descending(RankOf(mounts'), NextIn(mounts'), mp_first', Listed)
      BY <2>3, <2>4 DEF r2, nx2
    <2>6. n - 1 \in 0 .. Len(MountList) /\ \A j \in Listed : \E k \in 1 .. n - 1 : mounts'[j].at = MountList[k]
      <3>1. n - 1 \in 0 .. Len(MountList)
        BY <1>2, MountsData
      <3>2. \A j \in Listed : \E k \in 1 .. n - 1 : mounts[j].at = MountList[k]
        BY <1>2 DEF HoldsFirst
      <3> QED BY <3>1, <3>2, <1>8
    <2>7. mp_first' \in MountRef /\ mounts' \in MountsType
      BY <1>7 DEF MountsTypeOK
    <2> QED BY <2>5, <2>6, <2>7, NewTable
  <1>10. HoldsFirst(n - 1)' /\ n - 1 \in 0 .. Len(MountList)
    <2>1. HoldsFirst(n - 1)' <=> HoldsFirst(n - 1)
      BY <1>8, <1>9, HoldsKept
    <2> QED BY <1>2, <2>1, MountsData
  <1>11. Spare' = Spare
    BY <1>4, <1>9 DEF Spare
  <1>12. Cardinality(Spare') <= Cardinality(Losers')
    <2>1. Losers' = Losers
      BY <1>1, <1>2, <1>5, LosersNow
    <2> QED BY <2>1, <1>11 DEF MountsInv
  <1>13. RootSound => RootSound'
    BY <1>1, <1>8, <1>9 DEF RootSound
  <1>14. FillSound(p)'
    <2>1. mmutex' = p /\ ~complete' /\ c.n <= Len(MountList)
      BY <1>1, <1>2, <1>5, MountsData
    <2>2. HoldsFirst(c.n - 1)' /\ c.at \notin {"root", "mounted"} /\ (c.n > 1 => RootSound')
      BY <1>2, <1>5, <1>10, <1>13
    <2>3. c.slot \in Spare' /\ mounts'[c.slot].at = MountList[c.n]
      BY <1>2, <1>4, <1>5, <1>11
    <2>4. GoesAfter(RankOf(mounts'), Listed', Rank[MountList[c.n]], c.prev)
      <3>1. \A j \in Listed : RankOf(mounts')[j] = RankOf(mounts)[j]
        BY <1>2, <1>8 DEF RankOf
      <3> QED BY <3>1, <1>2, <1>5, <1>9 DEF GoesAfter
    <2>5. NextOf(t)' = x
      <3>1. t # 0 => mounts'[t].next = mounts[t].next
        BY <1>2, <1>8
      <3> QED BY <3>1, <1>0, <1>1 DEF NextOf
    <2>6. mounts'[c.slot].next = NextOf(t)'
      BY <2>5, <1>2, <1>4, <1>5
    <2> QED BY <1>5, <1>6, <2>1, <2>2, <2>3, <2>4, <2>6 DEF FillSound
  <1>15. mp[p].at \in Filling /\ c.at \notin {"start", "wait", "walk", "found"} /\ ~complete'
    BY <1>1, <1>2, <1>5 DEF Filling
  <1>16. (\E m \in 0 .. Len(MountList) : HoldsFirst(m)') /\ \A j \in Listed' : mounts'[j].used
    BY <1>8, <1>9, <1>10
  <1>17. MountsTypeOK' /\ TableOrdered' /\ mp' = [mp EXCEPT ![p] = c] /\ c \in MCallType
    BY <1>1, <1>5, <1>7, <1>9
  <1> QED BY <1>12, <1>14, <1>15, <1>16, <1>17, FillStep

LEMMA LinkKeeps ==
  ASSUME MountsInv, NEW p \in MProc, Link(p)
  PROVE  MountsInv'
  <1>0. PICK n, i, t, c :
          /\ n = mp[p].n /\ i = mp[p].slot /\ t = mp[p].prev
          /\ c = [mp[p] EXCEPT !.at = IF mp[p].n = 1 THEN "root" ELSE "mounted"]
    OBVIOUS
  <1>1. mp[p].at = "link" /\ mp' = [mp EXCEPT ![p] = c] /\ UNCHANGED <<root_id, mmutex, complete>>
        /\ mp_first' = (IF t = 0 THEN i ELSE mp_first)
        /\ mounts' = IF t = 0 THEN mounts ELSE [mounts EXCEPT ![t].next = i]
    BY <1>0 DEF Link, MGo
  <1>2. /\ MountsTypeOK /\ FillSound(p) /\ TableOrdered /\ mmutex = p /\ ~complete
        /\ n \in 1 .. Len(MountList) /\ HoldsFirst(n - 1) /\ (n > 1 => RootSound)
        /\ i \in MountSlot /\ i \in Spare /\ i \notin Listed /\ mounts[i].used /\ mounts[i].at = MountList[n]
        /\ t \in Listed \cup {0} /\ GoesAfter(RankOf(mounts), Listed, Rank[MountList[n]], t)
        /\ Listed \subseteq MountSlot /\ \A j \in Listed : mounts[j].used
    BY <1>0, <1>1, FillFacts
  <1>3. mounts[i].next = NextOf(t)
    BY <1>0, <1>1, <1>2 DEF FillSound
  <1>4. i \in MountRef /\ 0 \notin MountSlot /\ t \notin {i}
    BY <1>2, MountsData
  <1>5. /\ mounts' \in MountsType
        /\ \A j \in MountSlot : /\ mounts'[j].used = mounts[j].used /\ mounts'[j].at = mounts[j].at
                                /\ mounts'[j].next = IF j = t THEN i ELSE mounts[j].next
    BY <1>1, <1>2, <1>4 DEF MountsTypeOK, MountsType
  <1>6. c \in MCallType /\ c.at = (IF n = 1 THEN "root" ELSE "mounted") /\ c.n = n /\ c.slot = i
    <2>1. "root" \in MPlaces /\ "mounted" \in MPlaces
      BY DEF MPlaces
    <2>2. PICK a \in MPlaces : a = IF n = 1 THEN "root" ELSE "mounted"
      BY <2>1
    <2>3. Relocated(c, mp[p], a)
      BY <2>2, <1>0, <1>2, MCallIs
    <2> QED BY <2>2, <2>3, <1>0 DEF Relocated
  <1>7. mp'[p] = c /\ mp' \in [MProc -> MCallType]
    BY <1>1, <1>2, <1>6 DEF MountsTypeOK
  <1>8. MountsTypeOK'
    BY <1>1, <1>2, <1>4, <1>5, <1>7 DEF MountsTypeOK
  <1>9. \A k \in 1 .. n - 1 : MountList[k] # MountList[n] /\ Rank[MountList[k]] # Rank[MountList[n]]
    <2> SUFFICES ASSUME NEW k \in 1 .. n - 1 PROVE MountList[k] # MountList[n] /\ Rank[MountList[k]] # Rank[MountList[n]]
      OBVIOUS
    <2>1. k # n /\ k \in DOMAIN MountList /\ n \in DOMAIN MountList
      BY <1>2, MountsData
    <2> QED BY <2>1, RankAssumption
  <1>10. n \in 0 .. Len(MountList) /\ \A j \in Listed \cup {i} : \E k \in 1 .. n : mounts'[j].at = MountList[k]
    <2>1. n \in 0 .. Len(MountList) /\ n \in 1 .. n /\ \A k \in 1 .. n - 1 : k \in 1 .. n
      BY <1>2, MountsData
    <2>2. \A j \in Listed : \E k \in 1 .. n : mounts'[j].at = MountList[k]
      BY <2>1, <1>2, <1>5 DEF HoldsFirst
    <2>3. mounts'[i].at = MountList[n]
      BY <1>2, <1>5
    <2> QED BY <2>1, <2>2, <2>3
  <1>11. Listed' = Listed \cup {i} /\ TableOrdered'
    <2> DEFINE r == RankOf(mounts)
               nx == NextIn(mounts)
               nx2 == IF t = 0 THEN nx ELSE [nx EXCEPT ![t] = i]
               first2 == IF t = 0 THEN i ELSE mp_first
    <2>1. Descending(r, nx, mp_first, Listed)
      BY <1>2 DEF TableOrdered
    <2>2. r \in [MountSlot -> Nat] /\ nx \in [MountSlot -> MountRef] /\ r[i] = Rank[MountList[n]]
          /\ nx[i] = (IF t = 0 THEN mp_first ELSE nx[t])
      <3>1. \A j \in MountSlot : Rank[mounts[j].at] \in Nat /\ mounts[j].next \in MountRef
        BY <1>2, RanksApart DEF MountsTypeOK, MountsType
      <3> QED BY <3>1, <1>2, <1>3 DEF RankOf, NextIn, NextOf
    <2>3. \A j \in Listed : r[j] # r[i]
      <3> SUFFICES ASSUME NEW j \in Listed PROVE r[j] # r[i]
        OBVIOUS
      <3>1. PICK k \in 1 .. n - 1 : mounts[j].at = MountList[k]
        BY <1>2 DEF HoldsFirst
      <3>2. r[j] = Rank[MountList[k]]
        BY <3>1, <1>2 DEF RankOf
      <3> QED BY <3>2, <2>2, <1>9
    <2>4. RankOf(mounts') = r
      BY <1>5 DEF RankOf
    <2>5. NextIn(mounts') = nx2
      BY <1>5, <1>2, <1>4 DEF NextIn
    <2>6. GoesAfter(r, Listed, r[i], t)
      BY <1>2, <2>2
    <2>7. mp_first' = first2
      BY <1>1
    <2> HIDE DEF r, nx
    <2>8. Descending(r, nx2, first2, Listed \cup {i})
      BY <2>1, <2>2, <2>3, <2>6, <1>2, EntryAdded
    <2> HIDE DEF nx2, first2
    <2>9. Descending(RankOf(mounts'), NextIn(mounts'), mp_first', Listed \cup {i})
      BY <2>4, <2>5, <2>7, <2>8
    <2>10. mp_first' \in MountRef /\ mounts' \in MountsType
      BY <1>8 DEF MountsTypeOK
    <2> QED BY <2>9, <2>10, <1>10, NewTable
  <1>12. HoldsFirst(n)'
    <2>1. \A j \in Listed' : \E k \in 1 .. n : mounts'[j].at = MountList[k]
      BY <1>10, <1>11
    <2>2. ASSUME NEW k \in 1 .. n PROVE \E j \in Listed' : mounts'[j].at = MountList[k]
      <3>1. CASE k = n
        <4>1. i \in Listed' /\ mounts'[i].at = MountList[n]
          BY <1>2, <1>5, <1>11
        <4> QED BY <3>1, <4>1
      <3>2. CASE k # n
        <4>1. k \in 1 .. n - 1
          BY <3>2, <1>2
        <4>2. PICK j \in Listed : mounts[j].at = MountList[k]
          BY <4>1, <1>2 DEF HoldsFirst
        <4>3. j \in Listed' /\ mounts'[j].at = MountList[k]
          BY <4>2, <1>2, <1>5, <1>11
        <4> QED BY <4>3
      <3> QED BY <3>1, <3>2
    <2> QED BY <2>1, <2>2 DEF HoldsFirst
  <1>13. Spare' = Spare \ {i}
    BY <1>5, <1>11 DEF Spare
  <1>14. Cardinality(Spare') <= Cardinality(Losers')
    <2>1. Losers' = Losers \ {p} /\ p \in Losers
      BY <1>1, <1>2, <1>6, LosersNow
    <2>2. Cardinality(Losers') = Cardinality(Losers) - 1
      BY <2>1, LosersFinite, FS_RemoveElement
    <2>3. Cardinality(Spare') = Cardinality(Spare) - 1
      BY <1>2, <1>13, LosersFinite, FS_RemoveElement
    <2>4. Cardinality(Spare) <= Cardinality(Losers)
      BY DEF MountsInv
    <2> QED BY <2>2, <2>3, <2>4, LosersFinite
  <1>15. RootSound => RootSound'
    BY <1>1, <1>2, <1>5, <1>11 DEF RootSound
  <1>16. FillSound(p)'
    <2>1. mmutex' = p /\ ~complete' /\ c.n <= Len(MountList)
      BY <1>1, <1>2, <1>6, MountsData
    <2>2. HoldsFirst(c.n)' /\ c.at \in {"root", "mounted"}
      BY <1>6, <1>12
    <2>3. c.n > 1 \/ c.at = "mounted" => RootSound'
      BY <1>2, <1>6, <1>15
    <2>4. c.at = "root" => c.n = 1 /\ c.slot \in Listed' /\ mounts'[c.slot].at = <<>>
      BY <1>2, <1>5, <1>6, <1>11, MountsData
    <2> QED BY <1>7, <2>1, <2>2, <2>3, <2>4 DEF FillSound
  <1>17. mp[p].at \in Filling /\ c.at \notin {"start", "wait", "walk", "found"} /\ ~complete'
    BY <1>1, <1>2, <1>6 DEF Filling
  <1>18. (\E m \in 0 .. Len(MountList) : HoldsFirst(m)') /\ \A j \in Listed' : mounts'[j].used
    BY <1>2, <1>5, <1>10, <1>11, <1>12
  <1>19. MountsTypeOK' /\ TableOrdered' /\ mp' = [mp EXCEPT ![p] = c] /\ c \in MCallType
    BY <1>1, <1>6, <1>8, <1>11
  <1> QED BY <1>14, <1>16, <1>17, <1>18, <1>19, FillStep

LEMMA SetRootKeeps ==
  ASSUME MountsInv, NEW p \in MProc, SetRoot(p)
  PROVE  MountsInv'
  <1>0. PICK c : c = [mp[p] EXCEPT !.at = "mounted"]
    OBVIOUS
  <1>1. mp[p].at = "root" /\ mp' = [mp EXCEPT ![p] = c] /\ root_id' = mp[p].slot
        /\ UNCHANGED <<mounts, mp_first, mmutex, complete>>
    BY <1>0 DEF SetRoot, MGo
  <1>2. MountsTypeOK /\ FillSound(p) /\ TableOrdered /\ Listed \subseteq MountSlot /\ \A j \in Listed : mounts[j].used
    BY <1>1, FirstIsHighest DEF MountsInv, Filling
  <1>3. mmutex = p /\ ~complete /\ mp[p].n = 1 /\ HoldsFirst(1) /\ mp[p].slot \in Listed /\ mounts[mp[p].slot].at = <<>>
    BY <1>1, <1>2 DEF FillSound
  <1>4. c \in MCallType /\ c.at = "mounted" /\ c.n = 1
    <2>1. "mounted" \in MPlaces
      BY DEF MPlaces
    <2> QED BY <2>1, <1>0, <1>2, <1>3, MCallIs DEF Relocated
  <1>5. mp'[p] = c /\ mp' \in [MProc -> MCallType]
    BY <1>1, <1>2, <1>4 DEF MountsTypeOK
  <1>6. MountsTypeOK'
    BY <1>1, <1>2, <1>3, <1>5, MountsData DEF MountsTypeOK
  <1>7. Listed' = Listed /\ TableOrdered'
    BY <1>1, <1>2, SameTable
  <1>8. HoldsFirst(1)'
    <2>1. \A j \in Listed : mounts'[j].at = mounts[j].at
      BY <1>1
    <2> QED BY <2>1, <1>3, <1>7, HoldsKept
  <1>9. Cardinality(Spare') <= Cardinality(Losers')
    <2>1. Losers' = Losers
      BY <1>1, <1>2, <1>4, LosersNow
    <2>2. Spare' = Spare
      BY <1>1, <1>7 DEF Spare
    <2> QED BY <2>1, <2>2 DEF MountsInv
  <1>10. RootSound'
    BY <1>1, <1>3, <1>7 DEF RootSound
  <1>11. FillSound(p)'
    <2>1. mmutex' = p /\ ~complete' /\ c.n <= Len(MountList)
      BY <1>1, <1>3, <1>4, MountsData
    <2> QED BY <1>4, <1>5, <1>8, <1>10, <2>1 DEF FillSound
  <1>12. mp[p].at \in Filling /\ c.at \notin {"start", "wait", "walk", "found"} /\ ~complete'
    BY <1>1, <1>3, <1>4 DEF Filling
  <1>13. (\E m \in 0 .. Len(MountList) : HoldsFirst(m)') /\ \A j \in Listed' : mounts'[j].used
    <2>1. 1 \in 0 .. Len(MountList)
      BY MountsData
    <2> QED BY <2>1, <1>1, <1>2, <1>7, <1>8
  <1>14. MountsTypeOK' /\ TableOrdered' /\ mp' = [mp EXCEPT ![p] = c] /\ c \in MCallType
    BY <1>1, <1>4, <1>6, <1>7
  <1> QED BY <1>9, <1>11, <1>12, <1>13, <1>14, FillStep

LEMMA ProceedKeeps ==
  ASSUME MountsInv, NEW p \in MProc, Proceed(p)
  PROVE  MountsInv'
  <1>0. PICK n, c :
          /\ n = mp[p].n
          /\ c = [MIdle EXCEPT !.at = IF n < Len(MountList) THEN "fill" ELSE "ready", !.n = n + 1]
    OBVIOUS
  <1> DEFINE more == n < Len(MountList)
  <1>1. mp[p].at = "mounted" /\ mp' = [mp EXCEPT ![p] = c]
        /\ mmutex' = (IF more THEN mmutex ELSE "none") /\ complete' = (complete \/ ~more)
        /\ UNCHANGED <<mounts, mp_first, root_id>>
    BY <1>0 DEF Proceed, MGo
  <1>2. MountsTypeOK /\ FillSound(p) /\ TableOrdered /\ Listed \subseteq MountSlot /\ \A j \in Listed : mounts[j].used
    BY <1>1, FirstIsHighest DEF MountsInv, Filling
  <1>3. mmutex = p /\ ~complete /\ n \in 1 .. Len(MountList) /\ HoldsFirst(n) /\ RootSound
    BY <1>0, <1>1, <1>2, MountsData DEF FillSound, MountsTypeOK, MCallType
  <1>4. (complete' => ~more) /\ (more => ~complete' /\ mmutex' = p)
    <2> HIDE DEF more
    <2>1. complete' = (complete \/ ~more) /\ ~complete
      BY <1>1, <1>3
    <2>2. (complete' => ~more) /\ (more => ~complete')
      BY <2>1, Zenon
    <2> QED BY <2>2, <1>1, <1>3
  <1>5. c \in MCallType /\ c.at = (IF more THEN "fill" ELSE "ready") /\ c.n = n + 1
    <2>1. "fill" \in MPlaces /\ "ready" \in MPlaces /\ n + 1 \in 1 .. Len(MountList) + 1
      <3>1. n + 1 \in 1 .. Len(MountList) + 1
        <4>1. n \in 1 .. Len(MountList)
          BY <1>3
        <4>2. Len(MountList) \in Nat
          BY MountsData
        <4> QED BY <4>1, <4>2
      <3> QED BY <3>1 DEF MPlaces
    <2> DEFINE a == IF more THEN "fill" ELSE "ready"
    <2>2. a \in MPlaces
      BY <2>1
    <2>3. c = [MIdle EXCEPT !.at = a, !.n = n + 1]
      BY <1>0
    <2> HIDE DEF a
    <2>4. c \in MCallType /\ c.at = a /\ c.n = n + 1
      BY <2>1, <2>2, <2>3, <1>2, MCallIs
    <2> QED BY <2>4 DEF a
  <1>6. mp'[p] = c /\ mp' \in [MProc -> MCallType]
    BY <1>1, <1>2, <1>5 DEF MountsTypeOK
  <1>7. MountsTypeOK'
    BY <1>1, <1>2, <1>0, <1>6 DEF MountsTypeOK
  <1>8. Listed' = Listed /\ TableOrdered'
    BY <1>1, <1>2, SameTable
  <1>9. HoldsFirst(n)'
    <2>1. \A j \in Listed : mounts'[j].at = mounts[j].at
      BY <1>1
    <2> QED BY <2>1, <1>3, <1>8, HoldsKept
  <1>10. Cardinality(Spare') <= Cardinality(Losers')
    <2>1. Losers' = Losers
      BY <1>1, <1>2, <1>5, LosersNow
    <2>2. Spare' = Spare
      BY <1>1, <1>8 DEF Spare
    <2> QED BY <2>1, <2>2 DEF MountsInv
  <1>11. RootSound'
    BY <1>1, <1>3, <1>8 DEF RootSound
  <1>12. ASSUME c.at \in Filling PROVE FillSound(p)'
    <2>1. more /\ c.at = "fill"
      BY <1>12, <1>5 DEF Filling
    <2>2. mmutex' = p /\ ~complete' /\ c.n <= Len(MountList) /\ c.n - 1 = n
      <3>1. mmutex' = p /\ ~complete'
        BY <2>1, <1>4
      <3>2. n \in 1 .. Len(MountList) /\ c.n = n + 1
        BY <1>3, <1>5
      <3>3. Len(MountList) \in Nat
        BY MountsData
      <3>4. c.n <= Len(MountList) /\ c.n - 1 = n
        BY <2>1, <3>2, <3>3
      <3> QED BY <3>1, <3>4
    <2>3. HoldsFirst(c.n - 1)'
      BY <2>2, <1>9
    <2> QED BY <2>1, <2>2, <2>3, <1>6, <1>11 DEF FillSound
  <1>13. complete' => HoldsFirst(Len(MountList))' /\ RootSound'
    <2>1. n < Len(MountList) \/ n = Len(MountList)
      <3>1. n \in 1 .. Len(MountList)
        BY <1>3
      <3>2. Len(MountList) \in Nat
        BY MountsData
      <3> QED BY <3>1, <3>2
    <2>2. complete' => n = Len(MountList)
      BY <2>1, <1>4, Zenon
    <2> QED BY <2>2, <1>9, <1>11
  <1>14. mp[p].at \in Filling /\ c.at \notin {"start", "wait", "walk", "found"}
    BY <1>1, <1>5 DEF Filling
  <1>15. (\E m \in 0 .. Len(MountList) : HoldsFirst(m)') /\ \A j \in Listed' : mounts'[j].used
    <2>1. n \in 0 .. Len(MountList)
      BY <1>3, MountsData
    <2> QED BY <2>1, <1>1, <1>2, <1>8, <1>9
  <1>16. MountsTypeOK' /\ TableOrdered' /\ mp' = [mp EXCEPT ![p] = c] /\ c \in MCallType
    BY <1>1, <1>5, <1>7, <1>8
  <1> QED BY <1>10, <1>12, <1>13, <1>14, <1>15, <1>16, FillStep

LEMMA MountsStep == MountsInv /\ [MountsNext]_mountVars => MountsInv'
  <1> SUFFICES ASSUME MountsInv, [MountsNext]_mountVars PROVE MountsInv'
    OBVIOUS
  <1>1. CASE MountsNext
    BY <1>1, InitTestKeeps, InitLockedKeeps, FillKeeps, SetNextKeeps, LinkKeeps, SetRootKeeps, ProceedKeeps,
       MountDieKeeps, FindStepKeeps, FindEndKeeps, FindStartKeeps DEF MountsNext
  <1>2. CASE UNCHANGED mountVars
    <2>1. UNCHANGED <<mounts, mp_first, root_id, mmutex, mp, complete>>
      BY <1>2 DEF mountVars
    <2>2. Listed' = Listed /\ (TableOrdered => TableOrdered')
      BY <2>1, SameTable
    <2>3. \A n : HoldsFirst(n)' <=> HoldsFirst(n)
      BY <2>1, <2>2, HoldsKept
    <2>4. Spare' = Spare /\ Losers' = Losers /\ (RootSound' <=> RootSound) /\ RankOf(mounts)' = RankOf(mounts)
          /\ \A x : NextOf(x)' = NextOf(x)
      BY <2>1, <2>2 DEF Spare, Losers, RootSound, RankOf, NextOf
    <2>5. \A i, path : Matches(i, path)' <=> Matches(i, path)
      BY <2>1 DEF Matches
    <2>6. MountsTypeOK' <=> MountsTypeOK
      BY <2>1 DEF MountsTypeOK
    <2>7. \A p \in MProc : (FillSound(p) => FillSound(p)') /\ (WalkSound(p) => WalkSound(p)')
      BY <2>1, <2>2, <2>3, <2>4, <2>5 DEF FillSound, WalkSound
    <2> QED BY <2>1, <2>2, <2>3, <2>4, <2>6, <2>7 DEF MountsInv
  <1> QED BY <1>1, <1>2

(* Two prefixes of a path, the shorter of which begins the longer.         *)
LEMMA PrefixIs ==
  ASSUME NEW s \in Seq(STRING), NEW t \in Seq(STRING), SX!IsPrefix(s, t)
  PROVE  Len(s) <= Len(t) /\ \A k \in 1 .. Len(s) : s[k] = t[k]
  <1>1. Len(s) <= Len(t) /\ s = SubSeq(t, 1, Len(s))
    BY DEF SX!IsPrefix
  <1>2. \A k \in 1 .. Len(s) : SubSeq(t, 1, Len(s))[k] = t[k]
    BY <1>1
  <1> QED BY <1>1, <1>2

LEMMA PrefixChain ==
  ASSUME NEW s \in Seq(STRING), NEW t \in Seq(STRING), NEW u \in Seq(STRING),
         SX!IsPrefix(s, u), SX!IsPrefix(t, u), Len(s) <= Len(t)
  PROVE  SX!IsPrefix(s, t)
  <1>1. (\A k \in 1 .. Len(s) : s[k] = u[k]) /\ (\A k \in 1 .. Len(t) : t[k] = u[k])
    BY PrefixIs
  <1>2. \A k \in 1 .. Len(s) : s[k] = t[k]
    BY <1>1
  <1>3. SubSeq(t, 1, Len(s)) \in Seq(STRING) /\ Len(SubSeq(t, 1, Len(s))) = Len(s)
        /\ \A k \in 1 .. Len(s) : SubSeq(t, 1, Len(s))[k] = t[k]
    OBVIOUS
  <1>4. s = SubSeq(t, 1, Len(s))
    BY <1>2, <1>3
  <1> QED BY <1>4 DEF SX!IsPrefix

(* What the invariant is for.                                              *)
LEMMA MountsInvSound == MountsInv => MountsSound
  <1> SUFFICES ASSUME MountsInv PROVE MountsSound
    OBVIOUS
  <1>1. mounts \in MountsType /\ mp_first \in MountRef /\ MountsTypeOK
    BY DEF MountsInv, MountsTypeOK
  <1>2. Descending(RankOf(mounts), NextIn(mounts), mp_first, Listed) /\ Listed \subseteq MountSlot
    BY FirstIsHighest DEF MountsInv, TableOrdered
  <1>3. PICK n \in 0 .. Len(MountList) : HoldsFirst(n)
    BY DEF MountsInv
  <1>4. Cardinality(Listed) <= Len(MountList)
    <2>1. \A i \in Listed : \E k \in 1 .. n : mounts[i].at = MountList[k]
      BY <1>3 DEF HoldsFirst
    <2>2. Cardinality(Listed) \in Nat /\ Cardinality(Listed) <= n
      BY <1>1, <1>2, <2>1, EntriesFew
    <2> QED BY <2>2, MountsData
  <1>5. \A k \in 1 .. Len(MountList) :
          Mounted[k + 1] # 0 => Rank[mounts[Mounted[k]].at] > Rank[mounts[Mounted[k + 1]].at]
    BY <1>1, <1>2, <1>4, WalkDescends, MountedIsWalk
  <1>6. mp_first # 0 => \E i \in Listed : mounts[i].at = MountList[1]
    <2> SUFFICES ASSUME mp_first # 0 PROVE \E i \in Listed : mounts[i].at = MountList[1]
      OBVIOUS
    <2>1. mp_first \in Listed
      BY FirstIsHighest
    <2>2. n # 0
      BY <1>3, <2>1 DEF HoldsFirst
    <2>3. 1 \in 1 .. n
      BY <2>2
    <2> QED BY <1>3, <2>3 DEF HoldsFirst
  <1>7. ASSUME NEW p \in MProc, mp[p].at = "found", mp[p].whole
        PROVE  /\ mp[p].cur # 0
               /\ \A at \in SX!Range(MountList) :
                    SX!IsPrefix(at, mp[p].path) => Len(at) <= Len(mounts[mp[p].cur].at)
    <2>1. WalkSound(p)
      BY <1>7 DEF MountsInv
    <2> DEFINE i == mp[p].cur
               path == mp[p].path
               best == mounts[i].at
    <2>2. complete /\ i # 0 /\ i \in Listed /\ SX!IsPrefix(best, path)
          /\ \A j \in Listed : RankOf(mounts)[j] > RankOf(mounts)[i] => ~Matches(j, path)
      BY <1>7, <2>1 DEF WalkSound, Matches
    <2>3. HoldsFirst(Len(MountList)) /\ RootSound
      BY <2>2 DEF MountsInv
    <2>4. path \in Seq(STRING) /\ best \in MountPoint
      BY <1>1, <1>2, <2>2 DEF MountsTypeOK, MCallType, MountsType
    <2>5. ASSUME NEW at \in SX!Range(MountList), SX!IsPrefix(at, path) PROVE Len(at) <= Len(best)
      <3>1. PICK k \in 1 .. Len(MountList) : at = MountList[k]
        BY MountsData DEF SX!Range
      <3>2. at \in MountPoint /\ at \in Seq(STRING) /\ best \in Seq(STRING)
        BY <3>1, <2>4, MountsData, RanksApart DEF MountPoint
      <3> HIDE DEF best, path, i
      <3> SUFFICES ASSUME Len(best) < Len(at) PROVE FALSE
        BY <3>2
      <3>3. SX!IsPrefix(best, at)
        BY <2>2, <2>4, <2>5, <3>2, PrefixChain
      <3>4. Rank[best] < Rank[at]
        BY <2>4, <3>2, <3>3, RanksApart
      <3>5. PICK j \in Listed : mounts[j].at = at
        BY <2>3, <3>1 DEF HoldsFirst
      <3>6. RankOf(mounts)[j] > RankOf(mounts)[i]
        <4>1. RankOf(mounts)[j] = Rank[at] /\ RankOf(mounts)[i] = Rank[best]
          BY <1>2, <2>2, <3>5 DEF RankOf, best
        <4>2. Rank[at] \in Nat /\ Rank[best] \in Nat
          BY <2>4, <3>2, RanksApart
        <4> QED BY <3>4, <4>1, <4>2
      <3>7. ~Matches(j, path)
        BY <2>2, <3>6
      <3>8. at # <<>>
        BY <3>2
      <3> QED BY <2>5, <3>5, <3>7, <3>8 DEF Matches
    <2> QED BY <2>2, <2>5
  <1> QED BY <1>5, <1>6, <1>7 DEF MountsSound

(***************************************************************************)
(* The mount table of a session (vfs_mount_unsafe, vfs_shared_init and     *)
(* find_mountpoint, syscall/vfs.c), for any number of processes, any of    *)
(* them killed anywhere, and any mount points: its list is in descending   *)
(* order and ends with "/" whenever a process looks, and a walk that       *)
(* starts when the table is complete ends at the longest mount point above *)
(* the path.                                                               *)
(***************************************************************************)
THEOREM MountTableIsSound == MountsInit /\ [][MountsNext]_mountVars => []MountsSound
  <1>1. MountsInit => MountsInv
    BY MountsInvInit
  <1>2. MountsInv /\ [MountsNext]_mountVars => MountsInv'
    BY MountsStep
  <1>3. MountsInv => MountsSound
    BY MountsInvSound
  <1> QED BY <1>1, <1>2, <1>3, PTL

=============================================================================
