------------------------------- MODULE CodeRun ------------------------------
(***************************************************************************)
(* The processor running the code of CodeGen, the fix-up of an interrupted *)
(* thread, and what the guest instruction should have done.                *)
(***************************************************************************)
EXTENDS CodeGen, Collections

VARIABLES ins,     \* the guest instruction under translation
          m,       \* the machine
          pre      \* the machine before the first emitted instruction

codeVars == <<ins, m, pre>>

\* The emitted code that is at lab
Code(x, lab) ==
  CASE lab = "block"          -> dbt_translate(ins)
    [] lab = "call_stub"      -> dbt_get_direct_call_trampoline(ins.dest)
    [] lab = "direct_stub"    -> dbt_get_direct_trampoline(x.pc)
    [] lab = "post"           -> dbt_gen_call_postamble(x.pc)
    [] lab = "sieve"          -> dbt_gen_sieve(x.chain[x.k])
    [] lab = "sieve_dispatch" -> dbt_gen_sieve_dispatch
    [] lab = "icall_dispatch" -> IndirectCallDispatch
    [] lab = "fallback"       -> dbt_sieve_fallback
    [] lab = "find_direct"    -> dbt_find_direct_internal
    [] lab = "find_indirect"  -> dbt_find_indirect_internal
    [] lab = "syscall"        -> syscall_handler
    [] lab = "signal"         -> dbt_gen_signal_trampoline
    [] lab = "sigreturn"      -> dbt_gen_sigreturn_trampoline
    [] lab = "fork"           -> dbt_gen_restore_fork_trampoline
    [] lab = "run"            -> dbt_gen_run_trampoline

\* The first real instruction at or after position i
Norm(code, i) ==
  FX!Min({j \in i .. Len(code) + 1 : j = Len(code) + 1 \/ code[j].op # "check"})

EA(x, rm) == (IF rm.base = "none" THEN 0 ELSE x.reg[rm.base]) + rm.disp
Val(x, rm) == IF rm.pure THEN x.reg[rm.base] ELSE x.mem[EA(x, rm)]
Put(x, r, v) == [x EXCEPT !.reg[r] = v]
Push(x, v) == [x EXCEPT !.reg["esp"] = @ - 4, !.mem[x.reg["esp"] - 4] = v]
Pop(x) == [x EXCEPT !.reg["esp"] = @ + 4]
Top(x) == x.mem[x.reg["esp"]]
Goto(x, lab) == [x EXCEPT !.lab = lab, !.i = 1]
Exit(x, pc) == [x EXCEPT !.lab = "exit", !.pc = pc]
Scratched(x) == [x EXCEPT !.reg = [r \in Reg |-> IF r \in {"eax", "ecx", "edx", "eflags"}
                                                 THEN Wild ELSE @[r]]]

\* What a called C function does, as far as its caller can tell
Called(x, f) ==
  LET y == Scratched(x) IN
  CASE f = "find"    -> [y EXCEPT !.fs["return_addr"] = Top(x)]
    [] f = "tls"     -> [y EXCEPT !.reg["eax"] = Top(x)]
    [] f = "syscall" -> [y EXCEPT !.reg["eax"] = 99,
                           !.seen = [n \in 1 .. 8 |-> x.mem[x.reg["esp"] + 4 * (n - 1)]]]
    [] f = "cpuid"   -> LET buf == x.mem[x.reg["esp"] + 8]
                        IN  [y EXCEPT !.mem = [a \in DOMAIN @ |->
                               IF a \in {buf, buf + 4, buf + 8, buf + 12}
                               THEN 50 + (a - buf) ELSE @[a]]]
    [] f = "setup"   -> [y EXCEPT !.seen = [n \in DOMAIN Context |-> x.mem[Top(x) + 4 * (n - 1)]],
                           !.mem[Top(x) + At("eip")] = 900,
                           !.mem[Top(x) + At("esp")] = @ - 8,
                           !.mem[Top(x) + At("eax")] = 10]

\* The processor's step on instruction o; y has the position already advanced
Exec(x, y, o) ==
  CASE o.op = "load"    -> Put(y, o.r, Val(x, o.rm))
    [] o.op = "store"   -> IF o.rm.pure THEN Put(y, o.rm.base, x.reg[o.r])
                           ELSE [y EXCEPT !.mem[EA(x, o.rm)] = x.reg[o.r]]
    [] o.op = "fsload"  -> Put(y, o.r, x.fs[o.f])
    [] o.op = "fsstore" -> [y EXCEPT !.fs[o.f] = x.reg[o.r]]
    [] o.op = "fspush"  -> Push(y, x.fs[o.f])
    [] o.op = "movzx"   -> Put(y, o.r, SIEVE_HASH(Val(x, o.rm)))
    [] o.op = "shr"     -> Put(Put(y, o.r, x.reg[o.r] \div 2 ^ o.n), "eflags", Wild)
    [] o.op = "clear"   -> Put(Put(y, o.r, 0), "eflags", Wild)
    [] o.op = "lea"     -> Put(y, o.r, EA(x, o.rm))
    [] o.op = "index"   -> Put(y, o.r, x.reg[o.r] + x.reg[o.by])
    [] o.op = "push"    -> Push(y, Val(x, o.rm))
    [] o.op = "pushi"   -> Push(y, o.v)
    [] o.op = "pop"     -> IF o.rm.pure THEN Put(Pop(y), o.rm.base, Top(x))
                           ELSE [Pop(y) EXCEPT !.mem[EA(Pop(x), o.rm)] = Top(x)]
    [] o.op = "user"    -> LET v == x.reg[o.r] + Val(x, o.rm)
                           IN  Put(Put(y, o.r, v), "eflags", v % 2)
    [] o.op = "call"    -> Goto(Push(y, NativeDummy), o.lab)
    [] o.op = "jmp"     -> Goto(y, o.lab)
    [] o.op = "return"  -> Exit(y, x.fs["return_addr"])
    [] o.op = "exit"    -> Exit(y, o.pc)
    [] o.op = "jecxz"   -> IF x.reg["ecx"] = 0 THEN [y EXCEPT !.i = @ + 1] ELSE y
    [] o.op = "direct"  -> IF x.linked THEN Exit(y, o.pc)
                           ELSE [Goto(y, "direct_stub") EXCEPT !.pc = o.pc]
    [] o.op = "jcc"     -> IF x.reg["eflags"] % 2 = 0 THEN y
                           ELSE IF x.linked THEN Exit(y, o.pc)
                           ELSE [Goto(y, "direct_stub") EXCEPT !.pc = o.pc]
    [] o.op = "loop"    -> LET z == Put(y, "ecx", x.reg["ecx"] - 1)
                           IN  IF z.reg["ecx"] # 0 THEN [z EXCEPT !.i = o.i] ELSE z
    [] o.op = "jecxz8"  -> IF x.reg["ecx"] = 0 THEN [y EXCEPT !.i = o.i] ELSE y
    [] o.op = "other"   -> [y EXCEPT !.i = @ + 2]
    [] o.op = "cache"   -> [y EXCEPT !.rc[SIEVE_HASH(o.pc)] = NativePost(o.pc)]
    [] o.op = "pushcache" -> Push(y, x.rc[x.reg["ecx"]])
    [] o.op = "ret"     -> IF Top(x) = NativeFallback
                           THEN [Goto(Pop(y), "sieve_dispatch") EXCEPT !.i = 3]
                           ELSE [Goto(Pop(y), "post") EXCEPT !.pc = Top(x) - 1000]
    [] o.op = "table"   -> LET chain == x.sieve[x.reg["ecx"]]
                           IN  IF chain = << >> THEN Goto(y, "fallback")
                               ELSE [Goto(y, "sieve") EXCEPT !.chain = chain, !.k = 1]
    [] o.op = "nextsieve" -> IF x.k = Len(x.chain) THEN Goto(y, "fallback")
                             ELSE [Goto(y, "sieve") EXCEPT !.k = @ + 1]
    [] o.op = "tlsbase" -> Put(y, o.r, TlsBase(x.reg["eax"]))
    [] o.op = "ccall"   -> Called(y, o.f)

Running == m.lab \notin {"exit", "signalled"}

Step ==
  /\ Running
  /\ LET code == Code(m, m.lab)
         i == Norm(code, m.i)
     IN  m' = IF i > Len(code) THEN Exit(m, IF m.lab = "block" THEN ins.next ELSE m.pc)
              ELSE Exec(m, [m EXCEPT !.i = i + 1], code[i])
  /\ UNCHANGED <<ins, pre>>

\* Stopped inside the code cache: the tests are tried in the order of emission
Fixed(x) ==
  LET code == Code(x, x.lab)
      at == Norm(code, x.i)
      tests == {j \in DOMAIN code : /\ code[j].op = "check"
                                    /\ \/ at = Norm(code, j)
                                       \/ code[j].cmp = "le" /\ at < Norm(code, j)}
      c == code[FX!Min(tests)]
      esp == x.reg["esp"]
      reg == [r \in Reg |-> CASE r = "esp" -> esp + c.add
                              [] r = "ecx" /\ c.c # -1 -> x.mem[esp + c.c]
                              [] r = find_unused_register(ins) /\ c.t -> x.fs["scratch"]
                              [] OTHER -> x.reg[r]]
  IN  IF tests = {} THEN [x EXCEPT !.lab = "signalled", !.pc = -1]
      ELSE [x EXCEPT !.lab = "signalled", !.reg = reg,
              !.pc = CASE c.pc = "cur" -> ins.pc
                       [] c.pc = "next" -> ins.next
                       [] c.pc = "stk" -> x.mem[esp + c.off]
                       [] c.pc = "dest" -> x.pc
                       [] c.pc = "lost" -> -1]

InCache == {"block", "call_stub", "direct_stub", "post", "sieve", "sieve_dispatch",
            "icall_dispatch"}

\* dbt_deliver_signal with the thread in the code cache, then dbt_translate
\* with a context; past the end of the code the next instruction begins
Signal ==
  /\ m.lab \in InCache
  /\ Norm(Code(m, m.lab), m.i) <= Len(Code(m, m.lab))
  /\ m' = [Fixed(m) EXCEPT !.from = <<m.lab, m.i>>]
  /\ UNCHANGED <<ins, pre>>

CodeInit ==
  \E i \in Instr, top \in UserPc, linked \in BOOLEAN,
     rc \in {NativeFallback} \cup {NativePost(p) : p \in UserPc},
     chain \in {s \in {<< >>} \cup [1 .. 1 -> UserPc] \cup [1 .. 2 -> UserPc] :
                  \A j, k \in DOMAIN s : (j # k => s[j] # s[k])
                                         /\ SIEVE_HASH(s[j]) = SIEVE_HASH(s[k])} :
    /\ ins = i
    /\ pre = [reg |-> InitReg, mem |-> [InitMem EXCEPT ![InitReg["esp"]] = top],
              fs |-> [gs |-> 8, gs_addr |-> TlsBase(1), scratch |-> Wild, return_addr |-> top,
                      esp |-> 0, eip |-> i.pc, kernel_esp |-> 100],
              lab |-> IF i.k \in {"signal", "sigreturn", "fork", "run"} THEN i.k ELSE "block",
              i |-> 1, pc |-> i.pc, k |-> 0, chain |-> << >>, linked |-> linked,
              rc |-> [h \in {0, 1} |-> IF h = SIEVE_HASH(rc) THEN rc ELSE NativeFallback],
              sieve |-> [h \in {0, 1} |-> IF chain # << >> /\ SIEVE_HASH(chain[1]) = h
                                          THEN chain ELSE << >>],
              seen |-> << >>, from |-> <<"", 0>>]
    /\ m = pre

CodeNext == Step \/ Signal

-----------------------------------------------------------------------------
\* What the guest can see: its registers, its segment, the memory at and
\* above the top of its stack, and where it goes on.  A system call and CPUID
\* may leave any flags: the code does not save them.
View(x) ==
  [reg |-> [r \in Reg |-> IF r = "eflags" /\ ins.k \in {"syscall", "cpuid", "signal", "fork", "run"}
                          THEN 0 ELSE x.reg[r]],
   gs |-> <<x.fs["gs"], x.fs["gs_addr"]>>,
   mem |-> [a \in {b \in DOMAIN x.mem : b >= x.reg["esp"] /\ b > 100} |-> x.mem[a]],
   pc |-> x.pc]

\* The architectural effect of the instruction on the machine before it
Effect ==
  LET lin(rm) == IF OnGs(ins) THEN [rm EXCEPT !.disp = @ + pre.fs["gs_addr"]] ELSE rm
      v == IF ins.k \in {"op", "moffs", "calli", "jmpi", "movts"} THEN Val(pre, lin(ins.rm)) ELSE 0
      esp == pre.reg["esp"]
      to(x, pc) == [x EXCEPT !.pc = pc]
      cx == pre.reg["ecx"]
      ctx(n) == pre.mem[pre.mem[esp + 4] + At(n)]
      regs == {"ecx", "edx", "ebx", "esp", "ebp", "esi", "edi"}
  IN
  CASE ins.k \in {"op", "moffs"} ->
         to(Put(Put(pre, ins.r, pre.reg[ins.r] + v), "eflags", (pre.reg[ins.r] + v) % 2), ins.next)
    [] ins.k = "call"    -> to(Push(pre, ins.next), ins.dest)
    [] ins.k = "calli"   -> to(Push(pre, ins.next), v)
    [] ins.k = "ret"     -> to(Pop(pre), Top(pre))
    [] ins.k = "retn"    -> to(Put(pre, "esp", esp + 4 + ins.n), Top(pre))
    [] ins.k = "jmp"     -> to(pre, ins.dest)
    [] ins.k = "jmpi"    -> to(pre, v)
    [] ins.k = "jcc"     -> to(pre, IF pre.reg["eflags"] % 2 = 1 THEN ins.dest ELSE ins.next)
    [] ins.k = "loop"    -> to(Put(pre, "ecx", cx - 1), IF cx # 1 THEN ins.dest ELSE ins.next)
    [] ins.k = "jecxz8"  -> to(pre, IF cx = 0 THEN ins.dest ELSE ins.next)
    [] ins.k = "syscall" -> to(Put(pre, "eax", 99), ins.next)
    [] ins.k = "movfs"   -> to(IF ins.rm.pure THEN Put(pre, ins.rm.base, pre.fs["gs"])
                               ELSE [pre EXCEPT !.mem[EA(pre, ins.rm)] = pre.fs["gs"]], ins.next)
    [] ins.k = "movts"   -> to([pre EXCEPT !.fs["gs"] = v, !.fs["gs_addr"] = TlsBase(v \div 8)], ins.next)
    [] ins.k = "cpuid"   -> to([pre EXCEPT !.reg = [r \in Reg |->
                                 CASE r = "eax" -> 50 [] r = "ebx" -> 54 [] r = "ecx" -> 58
                                   [] r = "edx" -> 62 [] OTHER -> @[r]]], ins.next)
    [] ins.k = "signal"  -> to(Put(Put(pre, "eax", 10), "esp", esp - 8), 900)
    [] ins.k = "run"     -> to([pre EXCEPT !.reg = [r \in Reg |->
                                 IF r = "esp" THEN pre.mem[esp + 4] ELSE 0]], pre.fs["return_addr"])
    [] ins.k = "fork"    -> to([pre EXCEPT !.reg = [r \in Reg |->
                                 IF r \in regs THEN ctx(r) ELSE 0]], ctx("eip"))
    [] ins.k = "sigreturn" -> to([pre EXCEPT !.reg = [r \in Reg |-> ctx(r)]], ctx("eip"))

\* What C code sees in passing: the arguments and the context of a system
\* call, the interrupted registers
Seen ==
  LET r == pre.reg IN
  CASE ins.k = "syscall" -> <<r["ebx"], r["ecx"], r["edx"], r["esi"], r["edi"], r["ebp"],
                              r["esp"], ins.next>>
    [] ins.k = "signal"  -> <<r["ebx"], r["ecx"], r["edx"], r["esi"], r["edi"], r["ebp"],
                              r["esp"], ins.pc, r["eax"], r["eflags"]>>
    [] OTHER -> << >>

(***************************************************************************)
(* The emitted code does to the guest exactly what the instruction does:   *)
(* whatever is in the return cache and the sieve (an entry of another      *)
(* call, a bucket of two addresses, nothing), whether a direct jump is     *)
(* patched or still a stub, and for each register allocation of the        *)
(* temporary.  The system call gets its six arguments and the context fork *)
(* copies; the signal trampoline hands over the interrupted registers.     *)
(***************************************************************************)
Transparent ==
  m.lab = "exit" => View(m) = View(Effect) /\ m.seen = Seen

\* Places where the fix-up is wrong or "TODO": see the README
Imprecise ==
  \/ m.from[1] \in {"call_stub", "direct_stub"}
  \/ m.from[1] = "sieve" /\ m.from[2] > 6
  \/ m.from[1] = "block" /\ ins.k \in {"ret", "retn", "loop", "movts", "cpuid"} /\ m.from[2] > 1

(***************************************************************************)
(* A signal that stops the thread between two emitted instructions finds   *)
(* the guest as it is before or after one of its own instructions, never   *)
(* in between: no register lost to the temporary, no stack word left over, *)
(* no memory operand read or written twice.                                *)
(***************************************************************************)
SignalsPrecise ==
  m.lab = "signalled" /\ ~Imprecise => View(m) \in {View(pre), View(Effect)}
(***************************************************************************)
(* Translated code (x86.c) stands for the instruction it was made from:    *)
(* run to its end, or interrupted by a signal on the way.                  *)
(***************************************************************************)
Faithful == Transparent /\ SignalsPrecise
=============================================================================
