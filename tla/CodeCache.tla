------------------------------- MODULE CodeCache ----------------------------
(***************************************************************************)
(* dbt/x86.c, the code cache of a thread: blocks found or translated on    *)
(* demand, jumps patched when their destination becomes known, the sieve   *)
(* of indirect destinations, the return cache, the flush of a full cache   *)
(* or of replaced code, and signals that arrive in translated code, in the *)
(* translator or in a system call.                                         *)
(*                                                                         *)
(* The cache is an array of slots: blocks grow from the bottom (out), stubs*)
(* and sieve entries from the top (end).  A flush blanks the slots, which  *)
(* nothing may run or patch before they are written anew.  An instruction  *)
(* is one slot or two, a stub is one.                                      *)
(***************************************************************************)
EXTENDS Integers, Sequences, FiniteSets, Collections

CONSTANTS Prog, Handler, MaxStack,
          Lost,        \* the first address and the length of the code a call may replace
          CacheSizes,  \* values of DBT_CACHE_SIZE, in slots
          MaxSize,     \* DBT_BLOCK_MAXSIZE, in slots
          MaxBlocks,   \* MAX_DBT_BLOCKS
          MaxSieves    \* bound on sieve entries between two flushes

\* An instruction emits at most two slots and two stubs, and sieve entries
\* are made without looking at the room that is left
ASSUME RoomAssumption == MaxSize >= 4 + MaxSieves /\ \A n \in CacheSizes : n >= MaxSize

VARIABLES dbt,     \* struct dbt_data
          cpu,     \* where the thread is
          tls,     \* fs:[eip], fs:[return_addr]
          stack,   \* the guest's return addresses
          saved,   \* the interrupted guest address while its handler runs
          ver      \* the version of the guest's code

cacheVars == <<dbt, cpu, tls, stack, saved, ver>>

None == -1      \* dbt_sieve_fallback in the sieve, return_fallback_trampoline in the return cache
SignalTrampoline == -2
HASH(p) == p % 2    \* SIEVE_HASH, RETURN_CACHE_HASH

Slot(t, pc, dst, first) == [t |-> t, pc |-> pc, dst |-> dst, next |-> None, first |-> first]
Blank == Slot("blank", None, None, FALSE)

-----------------------------------------------------------------------------
gen_tables(d) ==
  [d EXCEPT !.mem = [s \in DOMAIN @ |-> Blank], !.blocks = {}, !.out = 0, !.end = Cardinality(DOMAIN d.mem), !.sieves = 0,
            !.sieve = [h \in {0, 1} |-> None], !.return_cache = [h \in {0, 1} |-> None]]
flush(d) == [gen_tables(d) EXCEPT !.flushed = TRUE]

find_block(d, p) == {b.start : b \in {c \in d.blocks : c.pc = p}}
TheOnly(S) == CHOOSE x \in S : TRUE

Emit(d, t, p, dst, first) == [d EXCEPT !.mem[d.out] = Slot(t, p, dst, first), !.out = @ + 1]
Stub(d, t, p, dst) == [d EXCEPT !.mem[d.end - 1] = Slot(t, p, dst, FALSE), !.end = @ - 1]

\* A jump to target at the end of the code: to its block, or to a stub that
\* will look for the block and patch the jump at slot patch
Linked(d, target, patch) ==
  IF find_block(d, target) # {} THEN [d |-> d, dst |-> TheOnly(find_block(d, target))]
  ELSE [d |-> Stub(d, "direct", target, patch), dst |-> d.end - 1]

Jump(d, t, p, target, first) ==
  LET x == Linked(d, target, d.out) IN Emit(x.d, t, p, x.dst, first)

Call(d, p, target) ==
  LET s == d.end - 1
      x == Linked(Stub(d, "callstub", target, None), target, s)
  IN  Emit(Emit([x.d EXCEPT !.mem[s].dst = x.dst], "call", p, s, TRUE), "post", p + 1, None, FALSE)

\* The loop of dbt_translate: one instruction after another until one that
\* leaves the block, or until the room is short
RECURSIVE Body(_, _)
Body(d, p) ==
  LET i == Prog[ver][p]
      to == TheOnly(i.to)
  IN
  CASE d.end - d.out < MaxSize -> Jump(d, "goto", p, p, TRUE)
    [] OTHER ->
       CASE i.k = "op"   -> Body(Emit(d, "op", p, None, TRUE), p + 1)
         [] i.k = "call" -> Body(Call(d, p, to), p + 1)
         [] i.k = "jmp"  -> Jump(d, "goto", p, to, TRUE)
         [] i.k = "jcc"  -> Jump(Jump(d, "jcc", p, to, TRUE), "goto", p, p + 1, FALSE)
         [] OTHER        -> Emit(d, i.k, p, None, TRUE)

alloc_block_Fails(d) == Cardinality(d.blocks) = MaxBlocks \/ d.end - d.out < MaxSize

translate(d, p) ==
  LET room == IF alloc_block_Fails(d) THEN flush(d) ELSE d
  IN  Body([room EXCEPT !.blocks = @ \cup {[pc |-> p, start |-> room.out]}], p)

find(d, p) == IF find_block(d, p) # {} THEN d ELSE translate(d, p)

-----------------------------------------------------------------------------
\* Where the thread is: at a slot (want: the destination on the stack, for the
\* code that compares it), in the sieve's dispatch code, in the emulator
AtSlot(s, want) == [at |-> "code", slot |-> s, pc |-> want, fn |-> ""]
Dispatch(want) == [at |-> "dispatch", slot |-> None, pc |-> want, fn |-> ""]
Kernel(fn, p, s) == [at |-> "kernel", slot |-> s, pc |-> p, fn |-> fn]
Found(p, dst) == [at |-> "found", slot |-> dst, pc |-> p, fn |-> ""]

CacheInit ==
  /\ \E n \in CacheSizes :
     dbt = [mem |-> [s \in 0 .. n - 1 |-> Blank], out |-> 0, end |-> n, blocks |-> {},
            sieve |-> [h \in {0, 1} |-> None], return_cache |-> [h \in {0, 1} |-> None], sieves |-> 0,
            flushed |-> FALSE, pending |-> FALSE, fixup |-> FALSE, accepts |-> TRUE]
  /\ cpu = Kernel("next", 0, None)              \* dbt_run
  /\ tls = [eip |-> None, return_addr |-> None]
  /\ stack = << >> /\ saved = << >> /\ ver \in DOMAIN Prog

Here == dbt.mem[cpu.slot]
In(t) == cpu.at = "code" /\ Here.t = t
Go(c) == cpu' = c
Inner == UNCHANGED <<dbt, tls, stack, saved, ver>>

\* The translated instructions
Op == In("op") /\ Go(AtSlot(cpu.slot + 1, None)) /\ Inner

Jmp == In("goto") /\ Go(AtSlot(Here.dst, None)) /\ Inner

Branch ==
  /\ In("jcc")
  /\ \/ Go(AtSlot(Here.dst, None))
     \/ Go(AtSlot(cpu.slot + 1, None))
  /\ Inner

Calls ==
  /\ In("call") /\ Len(stack) < MaxStack
  /\ dbt' = [dbt EXCEPT !.return_cache[HASH(Here.pc + 1)] = cpu.slot + 1]
  /\ stack' = <<Here.pc + 1>> \o stack
  /\ Go(AtSlot(Here.dst, None)) /\ UNCHANGED <<tls, saved, ver>>

CallStub == In("callstub") /\ Go(AtSlot(Here.dst, None)) /\ Inner

Ret ==
  /\ In("ret") /\ stack # << >> /\ stack' = Tail(stack)
  /\ LET slot == dbt.return_cache[HASH(Head(stack))]
     IN  Go(IF slot = None THEN Dispatch(Head(stack)) ELSE AtSlot(slot, Head(stack)))
  /\ UNCHANGED <<dbt, tls, saved, ver>>

\* The code after a call compares the address it was entered with
gen_call_postamble ==
  /\ In("post")
  /\ Go(IF cpu.pc = Here.pc THEN AtSlot(cpu.slot + 1, None)
        ELSE Kernel("sieve", cpu.pc, None))
  /\ Inner

JmpI == In("jmpi") /\ \E p \in Prog[ver][Here.pc].to : Go(Dispatch(p)) /\ Inner

gen_sieve_dispatch ==
  /\ cpu.at = "dispatch"
  /\ LET slot == dbt.sieve[HASH(cpu.pc)]
     IN  Go(IF slot = None THEN Kernel("sieve", cpu.pc, None) ELSE AtSlot(slot, cpu.pc))
  /\ Inner

Sieve ==
  /\ In("sieve")
  /\ Go(IF Here.pc = cpu.pc THEN AtSlot(Here.dst, None)
        ELSE IF Here.next = None THEN Kernel("sieve", cpu.pc, None)
        ELSE AtSlot(Here.next, cpu.pc))
  /\ Inner

DirectStub == In("direct") /\ Go(Kernel("direct", Here.pc, Here.dst)) /\ Inner

Syscall == In("sys") /\ Go(Kernel("syscall", Here.pc, None)) /\ Inner

sigreturn ==
  /\ In("sigreturn") /\ saved # << >>
  /\ Go(Kernel("next", Head(saved), None)) /\ saved' = << >>
  /\ UNCHANGED <<dbt, tls, stack, ver>>

-----------------------------------------------------------------------------
\* The translator, entered from the code above
find_direct ==
  /\ cpu.at = "kernel" /\ cpu.fn = "direct"
  /\ LET d == find([dbt EXCEPT !.flushed = FALSE], cpu.pc)
         start == TheOnly(find_block(d, cpu.pc))
     IN  /\ dbt' = IF d.flushed THEN d ELSE [d EXCEPT !.mem[cpu.slot].dst = start]
         /\ Go(Found(cpu.pc, start))
  /\ UNCHANGED <<tls, stack, saved, ver>>

find_next ==
  /\ cpu.at = "kernel" /\ cpu.fn = "next"
  /\ dbt' = find(dbt, cpu.pc)
  /\ Go(Found(cpu.pc, TheOnly(find_block(dbt', cpu.pc))))
  /\ UNCHANGED <<tls, stack, saved, ver>>

\* The last entry of a chain
Last(d, s) == CHOOSE l \in DOMAIN d.mem :
                /\ d.mem[l].t = "sieve" /\ d.mem[l].next = None
                /\ l >= d.end /\ HASH(d.mem[l].pc) = HASH(d.mem[s].pc)

find_next_sieve ==
  /\ cpu.at = "kernel" /\ cpu.fn = "sieve"
  /\ LET d == find(dbt, cpu.pc)
         start == TheOnly(find_block(d, cpu.pc))
         h == HASH(cpu.pc)
         e == Stub(d, "sieve", cpu.pc, start)
     IN  /\ d.sieves < MaxSieves
         /\ dbt' = [(IF d.sieve[h] = None THEN [e EXCEPT !.sieve[h] = e.end]
                     ELSE [e EXCEPT !.mem[Last(d, d.sieve[h])].next = e.end])
                    EXCEPT !.sieves = @ + 1]
         /\ Go(Found(cpu.pc, start))
  /\ UNCHANGED <<tls, stack, saved, ver>>

\* dbt_set_return_addr, then the jump through fs:[return_addr]
set_return_addr ==
  /\ cpu.at = "found" /\ tls' = [eip |-> cpu.pc, return_addr |-> cpu.slot]
  /\ Go([cpu EXCEPT !.at = "test"]) /\ UNCHANGED <<dbt, stack, saved, ver>>
TestPending ==
  /\ cpu.at = "test" /\ Go([cpu EXCEPT !.at = "return"])
  /\ tls' = IF dbt.pending THEN [tls EXCEPT !.return_addr = SignalTrampoline] ELSE tls
  /\ UNCHANGED <<dbt, stack, saved, ver>>
gen_return_trampoline ==
  /\ cpu.at = "return"
  /\ Go(IF tls.return_addr = SignalTrampoline THEN [cpu EXCEPT !.at = "signal"]
        ELSE AtSlot(tls.return_addr, None))
  /\ Inner

\* A block that starts inside the replaced code; when it is there, all go
code_changed(d) ==
  LET after == {b.pc : b \in {c \in d.blocks : c.pc >= Lost[1]}}
  IN  IF after # {} /\ FX!Min(after) <= Lost[1] + Lost[2] THEN flush(d) ELSE d

\* A system call, which may replace the code of its caller's address space
SyscallDone ==
  /\ cpu.at = "kernel" /\ cpu.fn = "syscall"
  /\ \E v \in DOMAIN Prog : ver' = v /\ dbt' = IF v = ver THEN dbt ELSE code_changed(dbt)
  /\ Go(Kernel("next", cpu.pc + 1, None))
  /\ UNCHANGED <<tls, stack, saved>>

-----------------------------------------------------------------------------
\* The guest address the walk of dbt_translate finds for a place in the cache
Owner(d, s) == TheOnly({b \in d.blocks : /\ b.start <= s
                                         /\ \A c \in d.blocks : c.start <= s => c.start <= b.start})
\* The walk meets the test for room again: it must not stop before the place
WalkStops(d, c) ==
  /\ c.at = "code" /\ c.slot < d.end
  /\ \E u \in Owner(d, c.slot).start .. c.slot - 1 : d.mem[u].first /\ d.end - u < MaxSize
\* The stub of a direct call rolls the call back, after its push was dropped
Known(d, c) == ~WalkStops(d, c) /\ ~(c.at = "code" /\ d.mem[c.slot].t = "callstub")

Fixup(d, c) ==
  CASE ~Known(d, [c EXCEPT !.at = c.fn]) -> None
    [] Known(d, [c EXCEPT !.at = c.fn]) /\ c.pc # None -> c.pc
    [] OTHER -> d.mem[c.slot].pc

\* dbt_deliver_signal, by the signal thread, with this one suspended.  The
\* places where the fix-up fails are left out (see the README).
deliver_signal ==
  /\ dbt.accepts /\ saved = << >>
  /\ IF cpu.at \in {"code", "dispatch"}
     THEN /\ Known(dbt, cpu)
          /\ dbt' = [dbt EXCEPT !.fixup = TRUE, !.accepts = FALSE]
          /\ Go([at |-> "signal", slot |-> cpu.slot, pc |-> cpu.pc, fn |-> cpu.at])
          /\ UNCHANGED tls
     ELSE /\ dbt' = [dbt EXCEPT !.fixup = FALSE, !.pending = TRUE, !.accepts = FALSE]
          /\ tls' = [tls EXCEPT !.return_addr = SignalTrampoline]
          /\ UNCHANGED cpu
  /\ UNCHANGED <<stack, saved, ver>>

\* setup_signal_handler that takes the last address the translator was left at
setup_signal_handler_NoFixup ==
  /\ cpu.at = "signal" /\ saved' = <<tls.eip>>
  /\ dbt' = [dbt EXCEPT !.pending = FALSE, !.accepts = TRUE]
  /\ Go(Kernel("next", Handler, None)) /\ UNCHANGED <<tls, stack, ver>>

setup_signal_handler ==
  /\ cpu.at = "signal"
  /\ saved' = <<IF dbt.fixup THEN Fixup(dbt, cpu) ELSE tls.eip>>
  /\ dbt' = [dbt EXCEPT !.pending = FALSE, !.accepts = TRUE]
  /\ Go(Kernel("next", Handler, None)) /\ UNCHANGED <<tls, stack, ver>>

CacheNext ==
  \/ Op \/ Jmp \/ Branch \/ Calls \/ CallStub \/ Ret \/ gen_call_postamble \/ JmpI
  \/ gen_sieve_dispatch \/ Sieve \/ DirectStub \/ Syscall \/ sigreturn
  \/ find_direct \/ find_next \/ find_next_sieve
  \/ set_return_addr \/ TestPending \/ gen_return_trampoline \/ SyscallDone
  \/ deliver_signal \/ setup_signal_handler

-----------------------------------------------------------------------------
\* The guest's program counter
GuestPc ==
  CASE cpu.at = "signal" -> IF dbt.fixup THEN Fixup(dbt, cpu) ELSE tls.eip
    [] cpu.at = "code" /\ cpu.pc = None -> Here.pc
    [] OTHER -> cpu.pc

Guest_ == INSTANCE GuestCpu WITH pc <- GuestPc

(***************************************************************************)
(* The thread runs the guest program, one guest instruction at a time, and *)
(* nothing else: through patched and unpatched jumps, a flush in the       *)
(* middle of a link, return addresses that share an entry of the return    *)
(* cache, chains of the sieve, code replaced by a system call, and a       *)
(* signal that comes at any moment, whose handler returns to the           *)
(* instruction the guest was at.                                           *)
(***************************************************************************)
Executes == Guest_!Spec
=============================================================================
