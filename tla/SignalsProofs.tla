--------------------------- MODULE SignalsProofs ----------------------------
(***************************************************************************)
(* What sig.c promises of delivery, for any threads, signals, programs,    *)
(* pipe sizes and bounds that Signals allows. PlaceOK adds to the types    *)
(* what a thread is doing at each place of signal_setup_handler and of the *)
(* calls; from it StepEffect says once what any step can do to one thread, *)
(* and each theorem after it reads its inductive invariant off those       *)
(* effects.                                                                *)
(***************************************************************************)
EXTENDS Signals, SequenceTheorems, WellFoundedInduction, TLAPS

-----------------------------------------------------------------------------

(* A non-empty set of numbers has a least one.                             *)
LEMMA LeastNat ==
  ASSUME NEW K \in SUBSET Nat, K # {}
  PROVE  \E k \in K : \A j \in K : k <= j
  <1> DEFINE R == {ij \in Nat \X Nat : ij[1] < ij[2]}
  <1>1. IsWellFoundedOn(R, Nat)
    BY NatLessThanWellFounded DEF OpToRel
  <1>2. \A j, k \in Nat : <<j, k>> \notin R => k <= j
    OBVIOUS
  <1> HIDE DEF R
  <1>3. PICK k \in K : \A j \in K : <<j, k>> \notin R
    BY <1>1, WFMin
  <1> QED BY <1>2, <1>3

(* A receiver signal_thread found is a thread that accepts the signal.     *)
LEMMA ReceiverAccepts ==
  ASSUME NEW s \in Sig, Receiver(s) # None
  PROVE  Receiver(s) \in Thread /\ Accepts(Receiver(s), s)
  <1> DEFINE K == {i \in DOMAIN ThreadList : Accepts(ThreadList[i], s)}
  <1>1. DOMAIN ThreadList = 1 .. Len(ThreadList) /\ Len(ThreadList) \in Nat
    BY SignalsAssumption, LenProperties
  <1>2. \A i \in DOMAIN ThreadList : ThreadList[i] \in Thread
    BY SignalsAssumption
  <1>3. ~ \A t \in Thread : ~Accepts(t, s)
    BY DEF Receiver
  <1>4. K # {} /\ K \in SUBSET Nat
    BY <1>1, <1>3, SignalsAssumption
  <1>5. PICK k \in K : \A j \in K : k <= j
    BY <1>4, LeastNat
  <1>6. \A j \in 1 .. k - 1 : ~Accepts(ThreadList[j], s)
    BY <1>1, <1>5
  <1> DEFINE First(i) == /\ Accepts(ThreadList[i], s)
                         /\ \A j \in 1 .. i - 1 : ~Accepts(ThreadList[j], s)
             c == CHOOSE i \in DOMAIN ThreadList : First(i)
  <1>7. c \in DOMAIN ThreadList /\ First(c)
    <2>1. k \in DOMAIN ThreadList /\ First(k)
      BY <1>5, <1>6
    <2> HIDE DEF First
    <2> QED BY <2>1
  <1>8. Receiver(s) = ThreadList[c]
    BY <1>3 DEF Receiver
  <1> QED BY <1>2, <1>7, <1>8
-----------------------------------------------------------------------------
Frame == [sig : Sig, mask : Mask]

(* Where a thread is, and what follows about its call, its frames and the  *)
(* signal it has been given.                                               *)
PlaceOK ==
  \A t \in Thread :
    /\ pc[t] = "user" => accept[t]
    /\ pc[t] = "setup" => ~accept[t]
    /\ ~accept[t] => siginfo[t] \in Sig
    /\ pc[t] = "sigreturn" => frames[t] # <<>>
    /\ call[t].op = "wait" \/ call[t] \in prog.calls[t]
    /\ pc[t] = "sigsuspend_wait" => call[t].op = "sigsuspend"
    /\ pc[t] \in {"ppoll_wait", "stuck_ppoll"} => call[t].op = "ppoll"

TypeInv == TypeOK /\ PlaceOK

(* What a program has.                                                     *)
LEMMA ProgramFacts ==
  ASSUME prog \in Programs
  PROVE  /\ prog.calls \in [Thread -> SUBSET Call]
         /\ prog.mask \in [Thread -> Mask]
         /\ prog.actions \in [Sig -> Action]
  BY SignalsAssumption

(* The arguments a call has.                                               *)
LEMMA CallFields ==
  ASSUME NEW c \in Call
  PROVE  /\ c.op = "kill" => c.sig \in Sig
         /\ c.op = "sigaction" => c.sig \in Sig /\ c.act \in Action
         /\ c.op \in {"sigprocmask", "sigsuspend", "ppoll"} => c.set \in Mask
  BY DEF Call

(* Signals the signal thread gets from packets.                            *)
LEMMA PacketFields ==
  /\ \A p \in Packet : p.type = "kill" => p.sig \in Sig
  /\ [type |-> "deliver"] \in Packet
  /\ \A s \in Sig : [type |-> "kill", sig |-> s] \in Packet
  BY DEF Packet

(* The pipe after a packet is written, and after one is read.              *)
LEMMA PipeType ==
  ASSUME pipe \in Seq(Packet), Len(pipe) <= PipeRoom
  PROVE  /\ \A p \in Packet : Len(pipe) < PipeRoom =>
               Append(pipe, p) \in Seq(Packet) /\ Len(Append(pipe, p)) <= PipeRoom
         /\ pipe # <<>> => /\ Head(pipe) \in Packet /\ Tail(pipe) \in Seq(Packet)
                          /\ Len(Tail(pipe)) <= PipeRoom
  <1>1. ASSUME NEW p \in Packet, Len(pipe) < PipeRoom
        PROVE  Append(pipe, p) \in Seq(Packet) /\ Len(Append(pipe, p)) <= PipeRoom
    BY <1>1, AppendProperties, LenProperties, SignalsAssumption
  <1>2. ASSUME pipe # <<>>
        PROVE  /\ Head(pipe) \in Packet /\ Tail(pipe) \in Seq(Packet)
               /\ Len(Tail(pipe)) <= PipeRoom
    BY <1>2, HeadTailProperties, LenProperties, SignalsAssumption
  <1> QED BY <1>1, <1>2

(* A stack of frames with one more, and without its last.                  *)
LEMMA FramesType ==
  ASSUME NEW fs \in Seq(Frame)
  PROVE  /\ Len(fs) \in Nat /\ DOMAIN fs = 1 .. Len(fs)
         /\ \A i \in 1 .. Len(fs) : fs[i] \in Frame
         /\ \A f \in Frame :
              /\ Append(fs, f) \in Seq(Frame)
              /\ Len(Append(fs, f)) = Len(fs) + 1
              /\ \A i \in 1 .. Len(fs) : Append(fs, f)[i] = fs[i]
              /\ Append(fs, f)[Len(fs) + 1] = f
         /\ fs # <<>> =>
              /\ Len(fs) > 0
              /\ SubSeq(fs, 1, Len(fs) - 1) \in Seq(Frame)
              /\ Len(SubSeq(fs, 1, Len(fs) - 1)) = Len(fs) - 1
              /\ \A i \in 1 .. Len(fs) - 1 : SubSeq(fs, 1, Len(fs) - 1)[i] = fs[i]
  <1>1. Len(fs) \in Nat /\ DOMAIN fs = 1 .. Len(fs) /\ \A i \in 1 .. Len(fs) : fs[i] \in Frame
    BY LenProperties, ElementOfSeq
  <1>2. ASSUME fs # <<>>
        PROVE  /\ Len(fs) > 0
               /\ SubSeq(fs, 1, Len(fs) - 1) \in Seq(Frame)
               /\ Len(SubSeq(fs, 1, Len(fs) - 1)) = Len(fs) - 1
               /\ \A i \in 1 .. Len(fs) - 1 : SubSeq(fs, 1, Len(fs) - 1)[i] = fs[i]
    <2>1. Len(fs) > 0
      BY <1>1, <1>2, EmptySeq
    <2>2. \A i \in 1 .. Len(fs) - 1 : fs[i] \in Frame
      BY <1>1
    <2> QED BY <1>1, <2>1, <2>2, SubSeqProperties
  <1> QED BY <1>1, <1>2, AppendProperties

(* Init satisfies the type invariant.                                      *)
LEMMA InitType == Init => TypeInv
  <1> SUFFICES ASSUME Init PROVE TypeInv
    OBVIOUS
  <1>1. [op |-> "wait"] \in Call
    BY DEF Call
  <1>2. TypeOK
    BY <1>1, ProgramFacts, SignalsAssumption, EmptySeq
    DEF Init, TypeOK, Mask, PC
  <1>3. PlaceOK
    BY DEF Init, PlaceOK
  <1> QED BY <1>2, <1>3 DEF TypeInv

(* What send_pending_signal may change: t goes on to p, or is stuck.       *)
SentOK(t, p) ==
  /\ pc' \in [Thread -> PC]
  /\ \A u \in Thread \ {t} : pc'[u] = pc[u] /\ sigevent'[u] = sigevent[u]
  /\ pc'[t] = p \/ pc'[t] = IF p = "ppoll_wait" THEN "stuck_ppoll" ELSE "stuck"
  /\ sigevent' \in [Thread -> BOOLEAN]
  /\ sigevent'[t] = sigevent[t] \/ (p = "ppoll_wait" /\ sigevent'[t] = FALSE)
  /\ mutex' \in {t, mutex}
  /\ pipe' \in Seq(Packet) /\ Len(pipe') <= PipeRoom

(* send_pending_signal does no more than that.                             *)
LEMMA SendPendingFacts ==
  ASSUME TypeOK, NEW t \in Thread, NEW m \in Mask, NEW p \in PC, SendPending(t, m, p)
  PROVE  SentOK(t, p)
  <1>1. pipe' \in Seq(Packet) /\ Len(pipe') <= PipeRoom
    BY PacketFields, PipeType DEF SendPending, TypeOK
  <1>2. mutex' \in {t, mutex}
    BY DEF SendPending
  <1>3. pc' = [pc EXCEPT ![t] = p] \/ pc' = [pc EXCEPT ![t] = IF p = "ppoll_wait" THEN "stuck_ppoll" ELSE "stuck"]
    BY DEF SendPending
  <1>4. sigevent' = sigevent \/ (p = "ppoll_wait" /\ sigevent' = [sigevent EXCEPT ![t] = FALSE])
    BY DEF SendPending, ResetBefore
  <1> QED BY <1>1, <1>2, <1>3, <1>4 DEF SentOK, TypeOK, PC

(* What giving a signal away does: every thread keeps what it has, or gets *)
(* the signal (no other being under way), or all threads end.              *)
DeliveryOK ==
  \/ UNCHANGED <<accept, siginfo, sigevent, pc>>
  \/ pc' = [t \in Thread |-> "exited"] /\ UNCHANGED <<accept, siginfo, sigevent>>
  \/ \E t \in Thread, s \in Sig : accept[t] /\ s \notin sigmask[t] /\ Deliver(t, s)

(* The signal thread gives a signal to one thread that accepts it, ends    *)
(* the process or ignores it.                                              *)
LEMMA DeliverSignalFacts ==
  ASSUME NEW s \in Sig, DeliverSignal(s)
  PROVE  DeliveryOK
  <1>1. CASE actions[s] = "handler" /\ Receiver(s) # None /\ Deliver(Receiver(s), s)
    BY <1>1, ReceiverAccepts DEF Accepts, DeliveryOK
  <1> QED BY <1>1 DEF DeliverSignal, DeliveryOK

(* The same thread by thread.                                              *)
DeliveryTyped ==
  /\ accept' \in [Thread -> BOOLEAN] /\ sigevent' \in [Thread -> BOOLEAN]
  /\ siginfo' \in [Thread -> Sig \cup {None}] /\ pc' \in [Thread -> PC]
  /\ \A t \in Thread :
       \/ /\ pc'[t] \in {pc[t], "exited"} /\ accept'[t] = accept[t]
          /\ siginfo'[t] = siginfo[t] /\ sigevent'[t] = sigevent[t]
       \/ /\ accept[t] /\ ~accept'[t] /\ siginfo'[t] \in Sig \ sigmask[t]
          /\ pc'[t] = (IF pc[t] = "user" THEN "setup" ELSE pc[t]) /\ sigevent'[t]

(* DeliveryOK, thread by thread, keeps the types.                          *)
LEMMA DeliveryType ==
  ASSUME TypeOK, DeliveryOK
  PROVE  DeliveryTyped
  <1>1. CASE UNCHANGED <<accept, siginfo, sigevent, pc>>
    BY <1>1 DEF DeliveryTyped, TypeOK
  <1>2. CASE pc' = [t \in Thread |-> "exited"] /\ UNCHANGED <<accept, siginfo, sigevent>>
    BY <1>2 DEF DeliveryTyped, TypeOK, PC
  <1>3. ASSUME NEW t \in Thread, NEW s \in Sig, accept[t], s \notin sigmask[t], Deliver(t, s)
        PROVE  DeliveryTyped
    <2>1. /\ accept' = [accept EXCEPT ![t] = FALSE]
          /\ siginfo' = [siginfo EXCEPT ![t] = s]
          /\ sigevent' = [sigevent EXCEPT ![t] = TRUE]
          /\ pc' = [pc EXCEPT ![t] = IF pc[t] = "user" THEN "setup" ELSE pc[t]]
      BY <1>3 DEF Deliver
    <2> QED BY <1>3, <2>1 DEF DeliveryTyped, TypeOK, PC
  <1> QED BY <1>1, <1>2, <1>3 DEF DeliveryOK

(* Every step keeps the type invariant.                                    *)
LEMMA TypeStep == TypeInv /\ [Next]_vars => TypeInv'
  <1> SUFFICES ASSUME TypeInv, [Next]_vars PROVE TypeInv'
    OBVIOUS
  <1> USE DEF TypeInv
  <1>0. \A t \in Thread : call[t] \in Call /\ Exit(t) \in PC
    BY DEF TypeOK, Exit, PC
  <1>Kill. ASSUME NEW t \in Thread, Kill(t) PROVE TypeInv'
    <2>1. TypeOK'
      BY <1>0, <1>Kill, CallFields, PacketFields, PipeType
      DEF Kill, Return, Goto, TypeOK, PC, rest, thread
    <2>2. PlaceOK'
      BY <1>Kill DEF Kill, Return, Exit, Goto, TypeOK, PlaceOK, rest, thread
    <2> QED BY <2>1, <2>2
  <1>Sigaction. ASSUME NEW t \in Thread, Sigaction(t) PROVE TypeInv'
    <2>1. TypeOK'
      BY <1>0, <1>Sigaction, CallFields, PacketFields, PipeType
      DEF Sigaction, Return, Goto, TypeOK, PC, rest, thread
    <2>2. PlaceOK'
      BY <1>Sigaction DEF Sigaction, Return, Exit, Goto, TypeOK, PlaceOK, rest, thread
    <2> QED BY <2>1, <2>2
  <1>SigsuspendBegin. ASSUME NEW t \in Thread, SigsuspendBegin(t) PROVE TypeInv'
    <2>1. TypeOK'
      BY <1>0, <1>SigsuspendBegin, CallFields, PacketFields, PipeType
      DEF SigsuspendBegin, Return, Goto, TypeOK, PC, rest, thread
    <2>2. PlaceOK'
      BY <1>SigsuspendBegin DEF SigsuspendBegin, Return, Exit, Goto, TypeOK, PlaceOK, rest, thread
    <2> QED BY <2>1, <2>2
  <1>SigsuspendEnd. ASSUME NEW t \in Thread, SigsuspendEnd(t) PROVE TypeInv'
    <2>1. TypeOK'
      BY <1>0, <1>SigsuspendEnd, CallFields, PacketFields, PipeType
      DEF SigsuspendEnd, Return, Goto, TypeOK, PC, rest, thread
    <2>2. PlaceOK'
      BY <1>SigsuspendEnd DEF SigsuspendEnd, Return, Exit, Goto, TypeOK, PlaceOK, rest, thread
    <2> QED BY <2>1, <2>2
  <1>PpollAtOnce. ASSUME NEW t \in Thread, PpollAtOnce(t) PROVE TypeInv'
    <2>1. TypeOK'
      BY <1>0, <1>PpollAtOnce, CallFields, PacketFields, PipeType
      DEF PpollAtOnce, Return, Goto, TypeOK, PC, rest, thread
    <2>2. PlaceOK'
      BY <1>PpollAtOnce DEF PpollAtOnce, Return, Exit, Goto, TypeOK, PlaceOK, rest, thread
    <2> QED BY <2>1, <2>2
  <1>PpollInterrupted. ASSUME NEW t \in Thread, PpollInterrupted(t) PROVE TypeInv'
    <2>1. TypeOK'
      BY <1>0, <1>PpollInterrupted, CallFields, PacketFields, PipeType
      DEF PpollInterrupted, Return, Goto, TypeOK, PC, rest, thread
    <2>2. PlaceOK'
      BY <1>PpollInterrupted DEF PpollInterrupted, Return, Exit, Goto, TypeOK, PlaceOK, rest, thread
    <2> QED BY <2>1, <2>2
  <1>WaitBegin. ASSUME NEW t \in Thread, WaitBegin(t) PROVE TypeInv'
    <2>1. TypeOK'
      BY <1>0, <1>WaitBegin, CallFields, PacketFields, PipeType
      DEF WaitBegin, Return, Goto, TypeOK, PC, rest, thread
    <2>2. PlaceOK'
      BY <1>WaitBegin DEF WaitBegin, Return, Exit, Goto, TypeOK, PlaceOK, rest, thread
    <2> QED BY <2>1, <2>2
  <1>WaitInterrupted. ASSUME NEW t \in Thread, WaitInterrupted(t) PROVE TypeInv'
    <2>1. TypeOK'
      BY <1>0, <1>WaitInterrupted, CallFields, PacketFields, PipeType
      DEF WaitInterrupted, Return, Goto, TypeOK, PC, rest, thread
    <2>2. PlaceOK'
      BY <1>WaitInterrupted DEF WaitInterrupted, Return, Exit, Goto, TypeOK, PlaceOK, rest, thread
    <2> QED BY <2>1, <2>2
  <1>HandlerReturns. ASSUME NEW t \in Thread, HandlerReturns(t) PROVE TypeInv'
    <2>1. TypeOK'
      BY <1>0, <1>HandlerReturns, CallFields, PacketFields, PipeType
      DEF HandlerReturns, Return, Goto, TypeOK, PC, rest, thread
    <2>2. PlaceOK'
      BY <1>HandlerReturns DEF HandlerReturns, Return, Exit, Goto, TypeOK, PlaceOK, rest, thread
    <2> QED BY <2>1, <2>2
  <1>PpollTimeout. ASSUME NEW t \in Thread, PpollTimeout(t) PROVE TypeInv'
    <2>1. TypeOK'
      BY <1>0, <1>PpollTimeout, CallFields, PacketFields, PipeType
      DEF PpollTimeout, Return, Goto, TypeOK, PC, rest, thread
    <2>2. PlaceOK'
      BY <1>PpollTimeout DEF PpollTimeout, Return, Exit, Goto, TypeOK, PlaceOK, rest, thread
    <2> QED BY <2>1, <2>2
  <1>WaitDone. ASSUME NEW t \in Thread, WaitDone(t) PROVE TypeInv'
    <2>1. TypeOK'
      BY <1>0, <1>WaitDone, CallFields, PacketFields, PipeType
      DEF WaitDone, Return, Goto, TypeOK, PC, rest, thread
    <2>2. PlaceOK'
      BY <1>WaitDone DEF WaitDone, Return, Exit, Goto, TypeOK, PlaceOK, rest, thread
    <2> QED BY <2>1, <2>2
  <1>Unstuck. ASSUME NEW t \in Thread, Unstuck(t) PROVE TypeInv'
    <2>1. TypeOK'
      <3>1. pipe' \in Seq(Packet) /\ Len(pipe') <= PipeRoom
        BY <1>Unstuck, PacketFields, PipeType DEF Unstuck, TypeOK
      <3> QED BY <3>1, <1>0, <1>Unstuck DEF Unstuck, ResetBefore, TypeOK, PC, rest
    <2>2. PlaceOK'
      BY <1>Unstuck DEF Unstuck, ResetBefore, Exit, TypeOK, PlaceOK, rest
    <2> QED BY <2>1, <2>2
  <1>Sigprocmask. ASSUME NEW t \in Thread, Sigprocmask(t) PROVE TypeInv'
    <2>1. call[t].set \in Mask /\ Exit(t) \in PC /\ SendPending(t, call[t].set, Exit(t))
      BY <1>0, <1>Sigprocmask, CallFields DEF Sigprocmask, TypeOK, PC
    <2>2. SentOK(t, Exit(t))
      BY <2>1, SendPendingFacts
    <2>3. TypeOK'
      BY <2>1, <2>2, <1>Sigprocmask DEF Sigprocmask, SentOK, TypeOK, rest
    <2>4. PlaceOK'
      BY <2>2, <1>Sigprocmask DEF Sigprocmask, SentOK, Exit, TypeOK, PlaceOK, rest
    <2> QED BY <2>3, <2>4
  <1>PpollBegin. ASSUME NEW t \in Thread, PpollBegin(t) PROVE TypeInv'
    <2>1. call[t].set \in Mask /\ "ppoll_wait" \in PC /\ SendPending(t, call[t].set, "ppoll_wait")
      BY <1>0, <1>PpollBegin, CallFields DEF PpollBegin, TypeOK, PC
    <2>2. SentOK(t, "ppoll_wait")
      BY <2>1, SendPendingFacts
    <2>3. TypeOK'
      BY <2>1, <2>2, <1>PpollBegin DEF PpollBegin, SentOK, TypeOK, rest
    <2>4. PlaceOK'
      BY <2>2, <1>PpollBegin DEF PpollBegin, SentOK, Exit, TypeOK, PlaceOK, rest
    <2> QED BY <2>3, <2>4
  <1>PpollReady. ASSUME NEW t \in Thread, PpollReady(t) PROVE TypeInv'
    <2>1. oldmask[t] \in Mask /\ Exit(t) \in PC /\ SendPending(t, oldmask[t], Exit(t))
      BY <1>0, <1>PpollReady, CallFields DEF PpollReady, TypeOK, PC
    <2>2. SentOK(t, Exit(t))
      BY <2>1, SendPendingFacts
    <2>3. TypeOK'
      BY <2>1, <2>2, <1>PpollReady DEF PpollReady, SentOK, TypeOK, rest
    <2>4. PlaceOK'
      BY <2>2, <1>PpollReady DEF PpollReady, SentOK, Exit, TypeOK, PlaceOK, rest
    <2> QED BY <2>3, <2>4
  <1>SetupHandler. ASSUME NEW t \in Thread, SetupHandler(t) PROVE TypeInv'
    <2> DEFINE f == [sig |-> siginfo[t], mask |-> sigmask[t]]
    <2>1. frames[t] \in Seq(Frame) /\ f \in Frame /\ siginfo[t] \in Sig
      BY <1>SetupHandler DEF SetupHandler, Goto, TypeOK, PlaceOK, Frame
    <2>2. Append(frames[t], f) \in Seq(Frame)
      BY <2>1, FramesType
    <2>3. frames' = [frames EXCEPT ![t] = Append(frames[t], f)]
      BY <1>SetupHandler DEF SetupHandler
    <2>4. frames' \in [Thread -> Seq([sig : Sig, mask : Mask])]
      BY <2>2, <2>3 DEF TypeOK, Frame
    <2>5. TypeOK'
      BY <2>1, <2>4, <1>SetupHandler DEF SetupHandler, Goto, TypeOK, PC, rest, Mask
    <2>6. PlaceOK'
      BY <2>3, <1>SetupHandler DEF SetupHandler, Goto, TypeOK, PlaceOK, rest
    <2> QED BY <2>5, <2>6
  <1>Sigreturn. ASSUME NEW t \in Thread, Sigreturn(t) PROVE TypeInv'
    <2> DEFINE m == frames[t][Len(frames[t])].mask
    <2>1. frames[t] \in Seq(Frame) /\ frames[t] # <<>>
      BY <1>Sigreturn DEF Sigreturn, TypeOK, PlaceOK, Frame
    <2>2. m \in Mask /\ SubSeq(frames[t], 1, Len(frames[t]) - 1) \in Seq(Frame)
      <3>1. frames[t][Len(frames[t])] \in Frame /\ SubSeq(frames[t], 1, Len(frames[t]) - 1) \in Seq(Frame)
        BY <2>1, FramesType
      <3> QED BY <3>1 DEF Frame
    <2>3. frames' = [frames EXCEPT ![t] = SubSeq(frames[t], 1, Len(frames[t]) - 1)]
      BY <1>Sigreturn DEF Sigreturn
    <2>4. frames' \in [Thread -> Seq([sig : Sig, mask : Mask])]
      BY <2>2, <2>3 DEF TypeOK, Frame
    <2>5. SendPending(t, m, Exit(t)) /\ sigmask' = [sigmask EXCEPT ![t] = m]
      BY <1>Sigreturn DEF Sigreturn
    <2> HIDE DEF m
    <2>6. SentOK(t, Exit(t))
      BY <1>0, <2>2, <2>5, SendPendingFacts
    <2>7. TypeOK'
      <3>1. UNCHANGED <<actions, pending, packet, accept, siginfo, oldmask, call, prog, left>>
        BY <1>Sigreturn DEF Sigreturn, rest
      <3>2. sigmask' \in [Thread -> Mask] /\ mutex' \in Thread \cup {None, "signal_thread"}
        BY <2>2, <2>5, <2>6 DEF SentOK, TypeOK
      <3> HIDE DEF Mask
      <3> QED BY <2>4, <2>6, <3>1, <3>2 DEF SentOK, TypeOK
    <2>8. PlaceOK'
      BY <2>3, <2>6, <1>Sigreturn DEF Sigreturn, SentOK, Exit, TypeOK, PlaceOK, rest
    <2> QED BY <2>7, <2>8
  <1>Enter. ASSUME NEW t \in Thread, NEW c \in prog.calls[t], Enter(t, c) PROVE TypeInv'
    <2>1. c \in Call
      BY ProgramFacts DEF TypeOK
    <2>2. TypeOK'
      <3>1. left' \in [Thread -> 0 .. MaxCalls]
        <4>1. left \in [Thread -> 0 .. MaxCalls] /\ left[t] > 0 /\ left' = [left EXCEPT ![t] = left[t] - 1]
          BY <1>Enter DEF Enter, TypeOK
        <4>2. left[t] - 1 \in 0 .. MaxCalls
          BY <4>1, SignalsAssumption
        <4> QED BY <4>1, <4>2
      <3>2. call' \in [Thread -> Call] /\ pc' \in [Thread -> PC]
        BY <2>1, <1>Enter DEF Enter, Goto, TypeOK, PC
      <3> QED BY <3>1, <3>2, <1>Enter DEF Enter, TypeOK, thread
    <2>3. PlaceOK'
      BY <1>Enter DEF Enter, Goto, TypeOK, PlaceOK, thread
    <2> QED BY <2>2, <2>3
  <1>ReadPacket. ASSUME ReadPacket PROVE TypeInv'
    <2>1. TypeOK'
      BY <1>ReadPacket, PipeType DEF ReadPacket, TypeOK, rest, thread
    <2>2. PlaceOK'
      BY <1>ReadPacket DEF ReadPacket, PlaceOK, rest, thread
    <2> QED BY <2>1, <2>2
  <1>HandleKill. ASSUME HandleKill PROVE TypeInv'
    <2>1. packet \in Packet /\ packet.sig \in Sig
      BY <1>HandleKill, PacketFields DEF HandleKill, TypeOK
    <2>2. DeliverSignal(packet.sig) \/ UNCHANGED <<accept, siginfo, sigevent, pc>>
      BY <1>HandleKill DEF HandleKill
    <2>3. DeliveryOK
      BY <2>1, <2>2, DeliverSignalFacts DEF DeliveryOK, TypeOK
    <2>4. TypeOK'
      BY <2>1, <2>3, <1>HandleKill, DeliveryType DEF HandleKill, DeliveryTyped, TypeOK, rest
    <2>5. PlaceOK'
      BY <2>3, <1>HandleKill, DeliveryType DEF HandleKill, DeliveryTyped, PlaceOK, rest
    <2> QED BY <2>4, <2>5
  <1>DeliverBegin. ASSUME DeliverBegin PROVE TypeInv'
    <2>1. TypeOK'
      BY <1>DeliverBegin DEF DeliverBegin, TypeOK, rest, thread
    <2>2. PlaceOK'
      BY <1>DeliverBegin DEF DeliverBegin, PlaceOK, rest, thread
    <2> QED BY <2>1, <2>2
  <1>DeliverOne. ASSUME DeliverOne PROVE TypeInv'
    <2>1. PICK s \in pending : DeliverSignal(s) /\ pending' = pending \ {s}
      BY <1>DeliverOne DEF DeliverOne
    <2>2. DeliveryOK
      BY <2>1, DeliverSignalFacts DEF TypeOK
    <2>3. TypeOK'
      BY <2>1, <2>2, <1>DeliverOne, DeliveryType DEF DeliverOne, DeliveryTyped, TypeOK, rest
    <2>4. PlaceOK'
      BY <2>2, <1>DeliverOne, DeliveryType DEF DeliverOne, DeliveryTyped, PlaceOK, rest
    <2> QED BY <2>3, <2>4
  <1>DeliverDone. ASSUME DeliverDone PROVE TypeInv'
    <2>1. TypeOK'
      BY <1>DeliverDone DEF DeliverDone, TypeOK, rest, thread
    <2>2. PlaceOK'
      BY <1>DeliverDone DEF DeliverDone, PlaceOK, rest, thread
    <2> QED BY <2>1, <2>2
  <1>Stutter. ASSUME UNCHANGED vars PROVE TypeInv'
    <2>1. TypeOK'
      BY <1>Stutter DEF vars, TypeOK, rest, thread
    <2>2. PlaceOK'
      BY <1>Stutter DEF vars, PlaceOK, rest, thread
    <2> QED BY <2>1, <2>2
  <1> QED
    BY <1>Kill, <1>Sigaction, <1>SigsuspendBegin, <1>SigsuspendEnd, <1>PpollAtOnce, <1>PpollInterrupted, <1>WaitBegin, <1>WaitInterrupted, <1>HandlerReturns, <1>PpollTimeout, <1>WaitDone, <1>Unstuck, <1>Sigprocmask, <1>PpollBegin, <1>PpollReady, <1>SetupHandler, <1>Sigreturn, <1>Enter, <1>ReadPacket, <1>HandleKill, <1>DeliverBegin, <1>DeliverOne, <1>DeliverDone, <1>Stutter
    DEF Next, SignalThread, Run

-----------------------------------------------------------------------------
(* What a step does to the signals of one thread.                          *)
Suspended(t)  == pc[t] = "sigsuspend_wait"
KeepsSlot(t)  == accept'[t] = accept[t] /\ siginfo'[t] = siginfo[t]
KeepsEvent(t) == \/ sigevent'[t] = sigevent[t]
                 \/ Makes(t, {"ppoll"}) /\ ~sigevent'[t]

(* Nothing, a ppoll apart; the thread enters or leaves no sigsuspend.      *)
Idles(t) ==
  /\ KeepsSlot(t) /\ KeepsEvent(t) /\ UNCHANGED <<sigmask[t], frames[t]>>
  /\ UNCHANGED oldmask[t] \/ Makes(t, {"ppoll"})
  /\ UNCHANGED Suspended(t) \/ pc'[t] = "exited"

(* It gives the thread a signal.                                           *)
Gives(t) ==
  /\ accept[t] /\ ~accept'[t] /\ sigevent'[t] /\ siginfo'[t] \in Sig \ sigmask[t]
  /\ UNCHANGED <<sigmask[t], frames[t], oldmask[t], Suspended(t)>>
(* The handler starts, and returns.                                        *)
Starts(t) ==
  /\ ~accept[t] /\ accept'[t] /\ ~sigevent'[t] /\ ~Suspended(t) /\ ~Suspended(t)'
  /\ frames'[t] = Append(frames[t], [sig |-> siginfo[t], mask |-> sigmask[t]])
  /\ sigmask'[t] = sigmask[t] \cup {siginfo[t]}
Returns(t) ==
  /\ KeepsSlot(t) /\ KeepsEvent(t) /\ ~Suspended(t)'
  /\ frames[t] # <<>> /\ frames'[t] = SubSeq(frames[t], 1, Len(frames[t]) - 1)
  /\ sigmask'[t] = frames[t][Len(frames[t])].mask
(* sigprocmask and ppoll change the mask; sigsuspend changes it and puts   *)
(* the old one back.                                                       *)
Masks(t) ==
  /\ KeepsSlot(t) /\ KeepsEvent(t) /\ UNCHANGED frames[t]
  /\ Makes(t, {"sigprocmask", "ppoll"})
Suspends(t) ==
  /\ KeepsSlot(t) /\ KeepsEvent(t) /\ UNCHANGED frames[t]
  /\ Makes(t, {"sigsuspend"})
  /\ ~Suspended(t) /\ Suspended(t)' /\ oldmask'[t] = sigmask[t]
Resumes(t) ==
  /\ KeepsSlot(t) /\ KeepsEvent(t) /\ UNCHANGED frames[t]
  /\ Makes(t, {"sigsuspend"})
  /\ Suspended(t) /\ ~Suspended(t)' /\ sigmask'[t] = oldmask[t]

Effect(t) ==
  /\ pc[t] = "exited" => pc'[t] = "exited"
  /\ Idles(t) \/ Gives(t) \/ Starts(t) \/ Returns(t) \/ Masks(t) \/ Suspends(t) \/ Resumes(t)

(* A call a thread is making is one its program makes.                     *)
LEMMA MakesIt ==
  ASSUME TypeInv, NEW t \in Thread, NEW ops, call[t].op \in ops, call[t].op # "wait"
  PROVE  Makes(t, ops)
  BY DEF TypeInv, PlaceOK, Makes

(* Every step has one of these effects on each thread.                     *)
LEMMA StepEffect ==
  TypeInv /\ [Next]_vars => prog' = prog /\ \A t \in Thread : Effect(t)
  <1> SUFFICES ASSUME TypeInv, [Next]_vars
               PROVE  prog' = prog /\ \A t \in Thread : Effect(t)
    OBVIOUS
  <1>T. /\ pc \in [Thread -> PC] /\ accept \in [Thread -> BOOLEAN]
        /\ sigmask \in [Thread -> Mask] /\ oldmask \in [Thread -> Mask]
        /\ sigevent \in [Thread -> BOOLEAN] /\ DOMAIN siginfo = Thread /\ DOMAIN frames = Thread
    BY DEF TypeInv, TypeOK
  <1> DEFINE Goal == prog' = prog /\ \A t \in Thread : Effect(t)
  <1>Kill. ASSUME NEW t \in Thread, Kill(t) PROVE Goal
    BY <1>T, <1>Kill DEF Kill, Return, Exit, Goto, Effect, Idles, KeepsSlot, KeepsEvent, Suspended, rest, thread
  <1>Sigaction. ASSUME NEW t \in Thread, Sigaction(t) PROVE Goal
    BY <1>T, <1>Sigaction DEF Sigaction, Return, Exit, Goto, Effect, Idles, KeepsSlot, KeepsEvent, Suspended, rest, thread
  <1>PpollAtOnce. ASSUME NEW t \in Thread, PpollAtOnce(t) PROVE Goal
    BY <1>T, <1>PpollAtOnce DEF PpollAtOnce, Return, Exit, Goto, Effect, Idles, KeepsSlot, KeepsEvent, Suspended, rest, thread
  <1>PpollInterrupted. ASSUME NEW t \in Thread, PpollInterrupted(t) PROVE Goal
    BY <1>T, <1>PpollInterrupted DEF PpollInterrupted, Return, Exit, Goto, Effect, Idles, KeepsSlot, KeepsEvent, Suspended, rest, thread
  <1>WaitBegin. ASSUME NEW t \in Thread, WaitBegin(t) PROVE Goal
    BY <1>T, <1>WaitBegin DEF WaitBegin, Return, Exit, Goto, Effect, Idles, KeepsSlot, KeepsEvent, Suspended, rest, thread
  <1>WaitInterrupted. ASSUME NEW t \in Thread, WaitInterrupted(t) PROVE Goal
    BY <1>T, <1>WaitInterrupted DEF WaitInterrupted, Return, Exit, Goto, Effect, Idles, KeepsSlot, KeepsEvent, Suspended, rest, thread
  <1>HandlerReturns. ASSUME NEW t \in Thread, HandlerReturns(t) PROVE Goal
    BY <1>T, <1>HandlerReturns DEF HandlerReturns, Return, Exit, Goto, Effect, Idles, KeepsSlot, KeepsEvent, Suspended, rest, thread
  <1>PpollTimeout. ASSUME NEW t \in Thread, PpollTimeout(t) PROVE Goal
    BY <1>T, <1>PpollTimeout DEF PpollTimeout, Return, Exit, Goto, Effect, Idles, KeepsSlot, KeepsEvent, Suspended, rest, thread
  <1>WaitDone. ASSUME NEW t \in Thread, WaitDone(t) PROVE Goal
    BY <1>T, <1>WaitDone DEF WaitDone, Return, Exit, Goto, Effect, Idles, KeepsSlot, KeepsEvent, Suspended, rest, thread
  <1>Unstuck. ASSUME NEW t \in Thread, Unstuck(t) PROVE Goal
    <2>1. pc[t] = "stuck_ppoll" => Makes(t, {"ppoll"})
      BY MakesIt DEF TypeInv, PlaceOK
    <2> QED BY <1>T, <2>1, <1>Unstuck DEF Unstuck, ResetBefore, Exit, Effect, Idles, KeepsSlot, KeepsEvent, Suspended, rest
  <1>Sigprocmask. ASSUME NEW t \in Thread, Sigprocmask(t) PROVE Goal
    <2>0. call[t].set \in Mask /\ Exit(t) \in PC
      BY <1>Sigprocmask, CallFields DEF Sigprocmask, TypeInv, TypeOK, Exit, PC
    <2>1. Makes(t, {"sigprocmask", "ppoll"})
      BY <1>Sigprocmask, MakesIt DEF Sigprocmask
    <2>2. SentOK(t, Exit(t))
      BY <2>0, <1>Sigprocmask, SendPendingFacts DEF Sigprocmask, TypeInv
    <2> QED BY <1>T, <2>1, <2>2, <1>Sigprocmask DEF Sigprocmask, SentOK, Exit, Masks, Effect, Idles, KeepsSlot, KeepsEvent, Suspended, rest
  <1>SigsuspendBegin. ASSUME NEW t \in Thread, SigsuspendBegin(t) PROVE Goal
    <2>1. Makes(t, {"sigsuspend"})
      BY <1>SigsuspendBegin, MakesIt DEF SigsuspendBegin
    <2> QED BY <1>T, <2>1, <1>SigsuspendBegin DEF SigsuspendBegin, Goto, Suspends, Effect, Idles, KeepsSlot, KeepsEvent, Suspended, rest
  <1>SigsuspendEnd. ASSUME NEW t \in Thread, SigsuspendEnd(t) PROVE Goal
    <2>1. Makes(t, {"sigsuspend"})
      BY <1>SigsuspendEnd, MakesIt DEF SigsuspendEnd, TypeInv, PlaceOK
    <2>2. /\ UNCHANGED <<sigevent, accept, siginfo, frames, oldmask, prog>> /\ sigmask'[t] = oldmask[t]
          /\ \A u \in Thread : u # t => UNCHANGED <<pc[u], sigmask[u]>>
          /\ Suspended(t) /\ ~Suspended(t)' /\ pc[t] # "exited"
      BY <1>T, <1>SigsuspendEnd DEF SigsuspendEnd, Return, Exit, Suspended, rest
    <2>3. Resumes(t)
      BY <2>1, <2>2 DEF Resumes, KeepsSlot, KeepsEvent
    <2>4. \A u \in Thread : u # t => Idles(u)
      BY <2>2 DEF Idles, KeepsSlot, KeepsEvent, Suspended
    <2> QED BY <2>2, <2>3, <2>4 DEF Effect
  <1>PpollBegin. ASSUME NEW t \in Thread, PpollBegin(t) PROVE Goal
    <2>1. Makes(t, {"sigprocmask", "ppoll"}) /\ Makes(t, {"ppoll"}) /\ call[t].set \in Mask
      <3>1. call[t].op = "ppoll" /\ call[t] \in Call
        BY <1>PpollBegin DEF PpollBegin, TypeInv, TypeOK
      <3>2. call[t].set \in Mask
        BY <3>1, CallFields
      <3> QED BY <3>1, <3>2, MakesIt
    <2>2. SentOK(t, "ppoll_wait")
      BY <2>1, <1>PpollBegin, SendPendingFacts DEF PpollBegin, TypeInv, PC
    <2> QED BY <1>T, <2>1, <2>2, <1>PpollBegin DEF PpollBegin, SentOK, Masks, Effect, Idles, KeepsSlot, KeepsEvent, Suspended, rest
  <1>PpollReady. ASSUME NEW t \in Thread, PpollReady(t) PROVE Goal
    <2>1. Makes(t, {"sigprocmask", "ppoll"}) /\ Exit(t) \in PC
      BY <1>PpollReady, MakesIt DEF PpollReady, TypeInv, PlaceOK, Exit, PC
    <2>2. SentOK(t, Exit(t))
      BY <1>T, <2>1, <1>PpollReady, SendPendingFacts DEF PpollReady, TypeInv
    <2> QED BY <1>T, <2>1, <2>2, <1>PpollReady DEF PpollReady, SentOK, Exit, Masks, Effect, Idles, KeepsSlot, KeepsEvent, Suspended, rest
  <1>SetupHandler. ASSUME NEW t \in Thread, SetupHandler(t) PROVE Goal
    <2>1. ~accept[t]
      BY <1>SetupHandler DEF SetupHandler, Goto, TypeInv, PlaceOK
    <2> QED BY <1>T, <2>1, <1>SetupHandler DEF SetupHandler, Goto, Starts, Effect, Idles, KeepsSlot, KeepsEvent, Suspended, rest
  <1>Sigreturn. ASSUME NEW t \in Thread, Sigreturn(t) PROVE Goal
    <2>1. frames[t] \in Seq(Frame) /\ frames[t] # <<>> /\ Exit(t) \in PC
      BY <1>Sigreturn DEF Sigreturn, TypeInv, TypeOK, PlaceOK, Frame, Exit, PC
    <2>2. frames[t][Len(frames[t])] \in Frame
      BY <2>1, FramesType
    <2>3. SentOK(t, Exit(t))
      <3>1. frames[t][Len(frames[t])].mask \in Mask
        BY <2>2 DEF Frame
      <3> QED BY <2>1, <3>1, <1>Sigreturn, SendPendingFacts DEF Sigreturn, TypeInv
    <2> QED BY <1>T, <2>1, <2>3, <1>Sigreturn DEF Sigreturn, SentOK, Exit, Returns, Effect, Idles, KeepsSlot, KeepsEvent, Suspended, rest
  <1>Enter. ASSUME NEW t \in Thread, NEW c \in prog.calls[t], Enter(t, c) PROVE Goal
    BY <1>T, <1>Enter DEF Enter, Goto, Effect, Idles, KeepsSlot, KeepsEvent, Suspended, thread
  <1>ReadPacket. ASSUME ReadPacket PROVE Goal
    BY <1>ReadPacket DEF ReadPacket, Effect, Idles, KeepsSlot, KeepsEvent, Suspended, rest, thread
  <1>DeliverBegin. ASSUME DeliverBegin PROVE Goal
    BY <1>DeliverBegin DEF DeliverBegin, Effect, Idles, KeepsSlot, KeepsEvent, Suspended, rest, thread
  <1>DeliverDone. ASSUME DeliverDone PROVE Goal
    BY <1>DeliverDone DEF DeliverDone, Effect, Idles, KeepsSlot, KeepsEvent, Suspended, rest, thread
  <1>HandleKill. ASSUME HandleKill PROVE Goal
    <2>1. packet \in Packet /\ packet.sig \in Sig
      BY <1>HandleKill, PacketFields DEF HandleKill, TypeInv, TypeOK
    <2>2. DeliveryTyped
      BY <2>1, <1>HandleKill, DeliverSignalFacts, DeliveryType DEF HandleKill, DeliveryOK, TypeInv
    <2> QED BY <2>2, <1>HandleKill DEF HandleKill, DeliveryTyped, Gives, Effect, Idles, KeepsSlot, KeepsEvent, Suspended, rest
  <1>DeliverOne. ASSUME DeliverOne PROVE Goal
    <2>1. DeliveryTyped
      BY <1>DeliverOne, DeliverSignalFacts, DeliveryType DEF DeliverOne, TypeInv, TypeOK
    <2> QED BY <2>1, <1>DeliverOne DEF DeliverOne, DeliveryTyped, Gives, Effect, Idles, KeepsSlot, KeepsEvent, Suspended, rest
  <1>Stutter. ASSUME UNCHANGED vars PROVE Goal
    BY <1>Stutter DEF vars, Effect, Idles, KeepsSlot, KeepsEvent, Suspended, rest, thread
  <1> QED
    BY <1>Kill, <1>Sigaction, <1>PpollAtOnce, <1>PpollInterrupted, <1>WaitBegin, <1>WaitInterrupted, <1>HandlerReturns, <1>PpollTimeout, <1>WaitDone, <1>Unstuck, <1>Sigprocmask, <1>SigsuspendBegin, <1>SigsuspendEnd, <1>PpollBegin, <1>PpollReady, <1>SetupHandler, <1>Sigreturn, <1>Enter, <1>ReadPacket, <1>DeliverBegin, <1>DeliverDone, <1>HandleKill, <1>DeliverOne, <1>Stutter
    DEF Next, SignalThread, Run

-----------------------------------------------------------------------------
(* The type invariant holds of every behaviour, and with it that a thread  *)
(* in translated code has no handler due.                                  *)
THEOREM TypeCorrect == Spec => []TypeInv
  <1> QED BY InitType, TypeStep, PTL DEF Spec

(* Translated code never runs ahead of a handler.                          *)
THEOREM HandlersGoFirst == Spec => []HandlerFirst
  <1>1. TypeInv => HandlerFirst
    BY DEF TypeInv, PlaceOK, HandlerFirst
  <1> QED BY <1>1, TypeCorrect, PTL

(* The signal of a handler that is due is not replaced by another.         *)
THEOREM SignalsAreKept == Spec => NoSignalLost
  <1>1. TypeInv /\ [Next]_vars =>
          [\A t \in Thread : ~accept[t] /\ ~accept'[t] => siginfo'[t] = siginfo[t]]_vars
    BY StepEffect DEF Effect, Idles, Gives, Starts, Returns, Masks, Suspends, Resumes, KeepsSlot
  <1> QED BY <1>1, TypeCorrect, PTL DEF Spec, NoSignalLost

(* sigevent, also after the process has ended.                             *)
EventInv ==
  \A t \in Thread :
    /\ sigevent[t] => ~accept[t]
    /\ ~accept[t] /\ ~Makes(t, {"ppoll"}) => sigevent[t]

(* signal_setup_handler resets sigevent with every signal it takes, and    *)
(* outside ppoll nothing else does: a thread about to wait finds the event *)
(* set while its handler has not started.                                  *)
THEOREM EventsMatch == Spec => []EventMatches
  <1>1. Init => EventInv
    BY DEF Init, EventInv
  <1>2. TypeInv /\ EventInv /\ [Next]_vars => EventInv'
    <2> SUFFICES ASSUME TypeInv, EventInv, [Next]_vars, NEW t \in Thread
                 PROVE  /\ sigevent'[t] => ~accept'[t]
                        /\ ~accept'[t] /\ ~Makes(t, {"ppoll"})' => sigevent'[t]
      BY DEF EventInv
    <2>1. Effect(t) /\ Makes(t, {"ppoll"})' = Makes(t, {"ppoll"})
      BY StepEffect DEF Makes
    <2> QED BY <2>1 DEF EventInv, Effect, Idles, Gives, Starts, Returns, Masks, Suspends,
                        Resumes, KeepsSlot, KeepsEvent
  <1>3. EventInv => EventMatches
    BY DEF EventInv, EventMatches
  <1> QED BY <1>1, <1>2, <1>3, TypeCorrect, PTL DEF Spec

-----------------------------------------------------------------------------
(* The mask below all handlers is the thread's own.                        *)
Base(t) == IF frames[t] # <<>> THEN frames[t][1].mask
           ELSE IF Suspended(t) THEN oldmask[t] ELSE sigmask[t]
BaseInv ==
  \A t \in Thread :
    pc[t] # "exited" /\ ~Makes(t, {"sigprocmask", "ppoll"}) => Base(t) = prog.mask[t]

(* sigreturn and sigsuspend put back what they replaced, at any depth of   *)
(* handlers: back in its program a thread has the mask it began with,      *)
(* unless it changes the mask by sigprocmask or ppoll.                     *)
THEOREM MasksAreRestored == Spec => []MaskRestored
  <1>1. Init => BaseInv
    BY DEF Init, BaseInv, Base, Suspended
  <1>2. TypeInv /\ BaseInv /\ [Next]_vars => BaseInv'
    <2> SUFFICES ASSUME TypeInv, BaseInv, [Next]_vars, NEW t \in Thread,
                        pc'[t] # "exited", ~Makes(t, {"sigprocmask", "ppoll"})'
                 PROVE  Base(t)' = prog.mask[t]
      BY StepEffect DEF BaseInv
    <2>1. Effect(t) /\ ~Makes(t, {"sigprocmask", "ppoll"}) /\ ~Makes(t, {"ppoll"})
      BY StepEffect DEF Makes
    <2>2. Base(t) = prog.mask[t]
      BY <2>1 DEF BaseInv, Effect
    <2>3. frames[t] \in Seq(Frame)
      BY DEF TypeInv, TypeOK, Frame
    <2>4. CASE Idles(t)
      BY <2>1, <2>2, <2>4 DEF Idles, Base
    <2>5. CASE Gives(t)
      BY <2>2, <2>5 DEF Gives, Base
    <2>6. CASE Starts(t)
      <3> DEFINE f == [sig |-> siginfo[t], mask |-> sigmask[t]]
      <3>1. f \in Frame
        BY <2>6 DEF Starts, TypeInv, TypeOK, PlaceOK, Frame
      <3>2. frames'[t] = Append(frames[t], f) /\ ~Suspended(t)
        BY <2>6 DEF Starts
      <3>3. frames'[t] # <<>>
        BY <2>3, <3>1, <3>2, AppendProperties
      <3>4. CASE frames[t] = <<>>
        <4>1. frames'[t][1] = f
          BY <2>3, <3>1, <3>2, <3>4, AppendProperties
        <4> QED BY <2>2, <3>2, <3>3, <3>4, <4>1 DEF Base
      <3>5. CASE frames[t] # <<>>
        <4>1. frames'[t][1] = frames[t][1]
          BY <2>3, <3>1, <3>2, <3>5, FramesType
        <4> QED BY <2>2, <3>3, <3>5, <4>1 DEF Base
      <3> QED BY <3>4, <3>5
    <2>7. CASE Returns(t)
      <3> DEFINE n == Len(frames[t]) - 1
      <3>1. /\ frames'[t] = SubSeq(frames[t], 1, n) /\ frames[t] # <<>> /\ ~Suspended(t)'
            /\ sigmask'[t] = frames[t][n + 1].mask
        <4>1. Len(frames[t]) \in Nat
          BY <2>3, FramesType
        <4> QED BY <2>7, <4>1 DEF Returns
      <3>2. /\ n \in Nat /\ frames'[t] \in Seq(Frame) /\ Len(frames'[t]) = n
            /\ \A i \in 1 .. n : frames'[t][i] = frames[t][i]
        BY <2>3, <3>1, FramesType
      <3> HIDE DEF n
      <3>3. CASE n = 0
        <4>1. frames'[t] = <<>>
          BY <3>2, <3>3, EmptySeq
        <4> QED BY <2>2, <3>1, <3>3, <4>1 DEF Base
      <3>4. CASE n > 0
        <4>1. frames'[t] # <<>> /\ frames'[t][1] = frames[t][1]
          BY <3>2, <3>4, EmptySeq
        <4> QED BY <2>2, <3>1, <4>1 DEF Base
      <3>5. n = 0 \/ n > 0
        BY <3>2
      <3> QED BY <3>3, <3>4, <3>5
    <2>8. CASE Suspends(t)
      BY <2>2, <2>8 DEF Suspends, Base
    <2>9. CASE Resumes(t)
      BY <2>2, <2>9 DEF Resumes, Base
    <2> QED BY <2>1, <2>4, <2>5, <2>6, <2>7, <2>8, <2>9 DEF Effect, Masks
  <1>3. BaseInv => MaskRestored
    <2> SUFFICES ASSUME BaseInv, NEW t \in Thread, pc[t] = "user", frames[t] = <<>>,
                        ~Makes(t, {"sigprocmask", "ppoll"})
                 PROVE  sigmask[t] = prog.mask[t]
      BY DEF MaskRestored
    <2> QED BY DEF BaseInv, Base, Suspended
  <1> QED BY <1>1, <1>2, <1>3, TypeCorrect, PTL DEF Spec

-----------------------------------------------------------------------------
(* In a thread that leaves its mask alone, every frame's signal is masked  *)
(* in the frames above it and in the thread, and was not when its handler  *)
(* started; and the handler that is due is for a signal not masked.        *)
Calm(t) == ~Makes(t, {"sigprocmask", "sigsuspend", "ppoll"})
NestingInv ==
  \A t \in Thread : Calm(t) =>
    /\ ~accept[t] => siginfo[t] \notin sigmask[t]
    /\ \A i \in DOMAIN frames[t] :
         /\ frames[t][i].sig \notin frames[t][i].mask
         /\ frames[t][i].mask \cup {frames[t][i].sig} \subseteq sigmask[t]
         /\ \A j \in DOMAIN frames[t] : i < j =>
              frames[t][i].mask \cup {frames[t][i].sig} \subseteq frames[t][j].mask

(* A handler is not entered again before it has returned, in a thread that *)
(* leaves its mask to the handlers.                                        *)
THEOREM HandlersDoNotReenter == Spec => []NoReentry
  <1>1. Init => NestingInv
    BY DEF Init, NestingInv
  <1>2. TypeInv /\ NestingInv /\ [Next]_vars => NestingInv'
    <2> SUFFICES ASSUME TypeInv, NestingInv, [Next]_vars, NEW t \in Thread, Calm(t)'
                 PROVE
          /\ ~accept'[t] => siginfo'[t] \notin sigmask'[t]
          /\ \A i \in DOMAIN frames'[t] :
               /\ frames'[t][i].sig \notin frames'[t][i].mask
               /\ frames'[t][i].mask \cup {frames'[t][i].sig} \subseteq sigmask'[t]
               /\ \A j \in DOMAIN frames'[t] : i < j =>
                    frames'[t][i].mask \cup {frames'[t][i].sig} \subseteq frames'[t][j].mask
      BY DEF NestingInv
    <2>1. /\ Effect(t) /\ Calm(t)
          /\ ~Makes(t, {"sigprocmask", "ppoll"}) /\ ~Makes(t, {"sigsuspend"})
      BY StepEffect DEF Calm, Makes
    <2>2. /\ ~accept[t] => siginfo[t] \notin sigmask[t]
          /\ \A i \in DOMAIN frames[t] :
               /\ frames[t][i].sig \notin frames[t][i].mask
               /\ frames[t][i].mask \cup {frames[t][i].sig} \subseteq sigmask[t]
               /\ \A j \in DOMAIN frames[t] : i < j =>
                    frames[t][i].mask \cup {frames[t][i].sig} \subseteq frames[t][j].mask
      BY <2>1 DEF NestingInv
    <2>3. frames[t] \in Seq(Frame)
      BY DEF TypeInv, TypeOK, Frame
    <2>4. CASE Idles(t)
      BY <2>2, <2>4 DEF Idles, KeepsSlot
    <2>5. CASE Gives(t)
      BY <2>2, <2>5 DEF Gives
    <2>6. CASE Starts(t)
      <3> DEFINE f == [sig |-> siginfo[t], mask |-> sigmask[t]]
                 n == Len(frames[t])
      <3>1. f \in Frame
        BY <2>6 DEF Starts, TypeInv, TypeOK, PlaceOK, Frame
      <3>2. /\ frames'[t] = Append(frames[t], f) /\ ~accept[t] /\ accept'[t]
            /\ sigmask'[t] = f.mask \cup {f.sig} /\ f.mask = sigmask[t] /\ f.sig \notin f.mask
        BY <2>2, <2>6 DEF Starts
      <3> HIDE DEF f
      <3>3. /\ n \in Nat /\ DOMAIN frames[t] = 1 .. n /\ DOMAIN frames'[t] = 1 .. n + 1
            /\ \A i \in 1 .. n : frames'[t][i] = frames[t][i]
            /\ frames'[t][n + 1] = f
        BY <2>3, <3>1, <3>2, FramesType
      <3>4. \A i \in 1 .. n : frames[t][i].mask \cup {frames[t][i].sig} \subseteq f.mask
        BY <2>2, <3>2, <3>3
      <3> HIDE DEF n
      <3>5. ASSUME NEW i \in 1 .. n + 1
            PROVE  /\ frames'[t][i].sig \notin frames'[t][i].mask
                   /\ frames'[t][i].mask \cup {frames'[t][i].sig} \subseteq sigmask'[t]
                   /\ \A j \in 1 .. n + 1 : i < j =>
                        frames'[t][i].mask \cup {frames'[t][i].sig} \subseteq frames'[t][j].mask
        <4>1. CASE i = n + 1
          BY <3>2, <3>3, <4>1
        <4>2. CASE i \in 1 .. n
          <5>1. frames'[t][i] = frames[t][i]
            BY <3>3, <4>2
          <5>2. ASSUME NEW j \in 1 .. n + 1, i < j
                PROVE  frames[t][i].mask \cup {frames[t][i].sig} \subseteq frames'[t][j].mask
            <6>1. CASE j = n + 1
              BY <3>3, <3>4, <4>2, <6>1
            <6>2. CASE j \in 1 .. n
              BY <2>2, <3>3, <4>2, <5>2, <6>2
            <6> QED BY <3>3, <6>1, <6>2
          <5>3. frames[t][i].sig \notin frames[t][i].mask
            BY <2>2, <3>3, <4>2
          <5>4. frames[t][i].mask \cup {frames[t][i].sig} \subseteq sigmask'[t]
            <6>1. frames[t][i].mask \cup {frames[t][i].sig} \subseteq f.mask
              BY <3>4, <4>2
            <6> QED BY <3>2, <6>1
          <5> QED BY <5>1, <5>2, <5>3, <5>4
        <4>3. i = n + 1 \/ i \in 1 .. n
          BY <3>3
        <4> QED BY <4>1, <4>2, <4>3
      <3>6. accept'[t]
        BY <3>2
      <3>7. DOMAIN frames'[t] = 1 .. n + 1
        BY <3>3
      <3> QED BY ONLY <3>5, <3>6, <3>7
    <2>7. CASE Returns(t)
      <3> DEFINE n == Len(frames[t]) - 1
      <3>1. n + 1 = Len(frames[t]) /\ n + 1 \in DOMAIN frames[t] /\ frames[t] # <<>>
        BY <2>3, <2>7, FramesType DEF Returns
      <3>2. /\ frames'[t] = SubSeq(frames[t], 1, n)
            /\ sigmask'[t] = frames[t][n + 1].mask /\ KeepsSlot(t)
        BY <2>7, <3>1 DEF Returns
      <3>3. /\ n \in Nat /\ DOMAIN frames[t] = 1 .. n + 1 /\ DOMAIN frames'[t] = 1 .. n
            /\ \A i \in 1 .. n : frames'[t][i] = frames[t][i]
        BY <2>3, <3>1, <3>2, FramesType
      <3> HIDE DEF n
      <3>4. sigmask'[t] \subseteq sigmask[t]
        BY <2>2, <3>1, <3>2
      <3>5. ASSUME NEW i \in DOMAIN frames'[t]
            PROVE  /\ frames'[t][i].sig \notin frames'[t][i].mask
                   /\ frames'[t][i].mask \cup {frames'[t][i].sig} \subseteq sigmask'[t]
                   /\ \A j \in DOMAIN frames'[t] : i < j =>
                        frames'[t][i].mask \cup {frames'[t][i].sig} \subseteq frames'[t][j].mask
        <4>1. /\ frames'[t][i] = frames[t][i]
              /\ \A j \in DOMAIN frames'[t] : frames'[t][j] = frames[t][j] /\ j \in DOMAIN frames[t]
              /\ i \in DOMAIN frames[t] /\ i < n + 1
          BY <3>3
        <4> QED BY <2>2, <3>1, <3>2, <4>1
      <3>6. ~accept'[t] => siginfo'[t] \notin sigmask'[t]
        BY <2>2, <3>2, <3>4 DEF KeepsSlot
      <3> QED BY <3>5, <3>6
    <2> QED BY <2>1, <2>4, <2>5, <2>6, <2>7 DEF Effect, Masks, Suspends, Resumes
  <1>3. TypeInv /\ NestingInv => NoReentry
    <2> SUFFICES ASSUME TypeInv, NestingInv, NEW t \in Thread, Calm(t),
                        NEW i \in DOMAIN frames[t], NEW j \in DOMAIN frames[t],
                        frames[t][i].sig = frames[t][j].sig
                 PROVE  i = j
      BY DEF NoReentry, Calm
    <2>1. frames[t] \in Seq(Frame)
      BY DEF TypeInv, TypeOK, Frame
    <2>2. i \in Nat /\ j \in Nat
      BY <2>1, FramesType
    <2>3. ~(i < j) /\ ~(j < i)
      BY DEF NestingInv
    <2> QED BY <2>2, <2>3
  <1> QED BY <1>1, <1>2, <1>3, TypeCorrect, PTL DEF Spec
=============================================================================
