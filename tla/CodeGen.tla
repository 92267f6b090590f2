------------------------------- MODULE CodeGen ------------------------------
(***************************************************************************)
(* dbt/x86.c, the code generator: what dbt_translate emits for each class  *)
(* of instruction, the trampolines the emitted code runs through, and the  *)
(* assembly glue around the C functions of the translator.  One guest      *)
(* instruction at a time is run, one emitted machine instruction per step, *)
(* and a signal may stop the thread between any two of them: the code then *)
(* rebuilds the guest's registers from the place it stopped at.            *)
(*                                                                         *)
(* An emitted instruction is a record, code is a sequence of them.  The    *)
(* tests of the form "if (context && context->eip <= (DWORD)out)" that the *)
(* generator interleaves with emission are kept in the sequence as items   *)
(* of their own, skipped by execution: they are the fix-up's.              *)
(***************************************************************************)
EXTENDS Integers, Sequences, FiniteSets, Collections

CONSTANTS Instr,       \* guest instructions to run
          InitReg,     \* the guest's registers
          InitMem,     \* guest memory and stacks: [0, 4, 8, ... -> Int]
          UserPc       \* addresses of guest code an indirect jump may go to

Reg == {"eax", "ecx", "edx", "ebx", "esp", "ebp", "esi", "edi", "eflags"}
Wild == 77             \* what a called C function leaves in a scratch register

\* Addresses of emitted code, as they appear on the stack
NativePost(pc) == 1000 + pc     \* after the call instruction that returns to pc
NativeFallback == 2000          \* return_fallback_trampoline
NativeDummy == 3000             \* pushed by an emitted call, never returned to

SIEVE_HASH(pc) == pc % 2        \* the low bits of an address
TlsBase(sel) == 300 + 4 * sel   \* the base address the entry of selector sel holds

-----------------------------------------------------------------------------
\* ModR/M operands and emitted instructions, named as the functions that emit them
modrm_rm_reg(r) == [base |-> r, disp |-> 0, pure |-> TRUE]
modrm_rm_disp(d) == [base |-> "none", disp |-> d, pure |-> FALSE]
modrm_rm_mreg(b, d) == [base |-> b, disp |-> d, pure |-> FALSE]

gen_mov_r_rm_32(r, rm) == [op |-> "load", r |-> r, rm |-> rm]
gen_mov_rm_r_32(rm, r) == [op |-> "store", rm |-> rm, r |-> r]
FsLoad(r, f) == [op |-> "fsload", r |-> r, f |-> f]      \* gen_fs_prefix, mov r, [f]
FsStore(f, r) == [op |-> "fsstore", f |-> f, r |-> r]
FsPush(f) == [op |-> "fspush", f |-> f]
gen_movzx_r32_rm16(r, rm) == [op |-> "movzx", r |-> r, rm |-> rm]
gen_shr_rm_32(r, n) == [op |-> "shr", r |-> r, n |-> n]
gen_xor_r_rm_32(r) == [op |-> "clear", r |-> r]
gen_lea(r, rm) == [op |-> "lea", r |-> r, rm |-> rm]
gen_popfd == [op |-> "pop", rm |-> modrm_rm_reg("eflags")]
gen_pop_rm(rm) == [op |-> "pop", rm |-> rm]
gen_pushfd == [op |-> "push", rm |-> modrm_rm_reg("eflags")]
gen_push_rm(rm) == [op |-> "push", rm |-> rm]
gen_push_imm32(v) == [op |-> "pushi", v |-> v]
gen_call(lab) == [op |-> "call", lab |-> lab]
gen_jmp(lab) == [op |-> "jmp", lab |-> lab]
gen_jmp_rm == [op |-> "return"]                           \* jmp fs:[return_addr]
gen_jcc(pc) == [op |-> "jcc", pc |-> pc]
gen_jecxz_rel(i) == [op |-> "jecxz", i |-> i]
JmpDirect(pc) == [op |-> "direct", pc |-> pc]             \* jmp to a block or its stub
JmpTable == [op |-> "table"]                              \* jmp [ecx*4+sieve_table]
PushCached == [op |-> "pushcache"]                        \* push [ecx*4+return_cache]
SetCached(pc) == [op |-> "cache", pc |-> pc]              \* return_cache[hash] = out + 5
CallC(f) == [op |-> "ccall", f |-> f]
Other == [op |-> "other"]                                 \* jmp $+5 of LOOP

PushReg(r) == gen_push_rm(modrm_rm_reg(r))
PopReg(r) == gen_pop_rm(modrm_rm_reg(r))
Drop(n) == gen_lea("esp", modrm_rm_mreg("esp", n))
Stack(n) == modrm_rm_mreg("esp", n)

\* A test of the fix-up: on a match the guest's eip becomes the start of the
\* instruction ("cur"), the next one ("next"), a word of the stack ("stk") or
\* something else; then esp grows by add; t: the temporary register comes back
\* from fs:[scratch]; c: ecx comes back from that word of the stack.
Check(cmp, pc, off, add, t, c) ==
  [op |-> "check", cmp |-> cmp, pc |-> pc, off |-> off, add |-> add, t |-> t, c |-> c]
Begin == Check("eq", "cur", 0, 0, FALSE, -1)

-----------------------------------------------------------------------------
\* Registers an instruction uses: its operands and the implicit ones
UsedBy(ins) ==
  {ins.r, ins.rm.base} \cup (IF ins.k \in {"moffs", "syscall"} THEN {"eax"} ELSE {})
                       \cup (IF ins.k = "loop" THEN {"ecx"} ELSE {})

find_unused_register(ins) ==
  LET order == <<"eax", "ecx", "edx", "ebx", "esi", "edi">>
  IN  order[FX!Min({i \in DOMAIN order : order[i] \notin UsedBy(ins)})]

OnGs(ins) == ins.gs /\ ~ins.rm.pure

\* fs:[scratch] holds the temporary register t, which becomes the linear base
\* of the gs-relative operand
GsBase(t, rm) ==
  <<FsStore("scratch", t), FsLoad(t, "gs_addr")>>
    \o (IF rm.base = "none" THEN << >>
        ELSE <<[op |-> "index", r |-> t, by |-> rm.base]>>)

dbt_gen_push_gs_rm(ins, rm, extra) ==
  LET t == find_unused_register(ins) IN
  <<Check("eq", "cur", 0, extra, FALSE, -1)>> \o GsBase(t, rm)
    \o <<Check("le", "cur", 0, extra, TRUE, -1),
         gen_push_rm([rm EXCEPT !.base = t]), FsLoad(t, "scratch"),
         Check("le", "cur", 0, extra + 4, TRUE, -1)>>

dbt_copy_instruction(ins, rm) == [op |-> "user", r |-> ins.r, rm |-> rm]

\* Normal that forgets to bring the temporary register back
Normal_NoRestore(ins) ==
  IF ~OnGs(ins) THEN <<Begin, dbt_copy_instruction(ins, ins.rm)>>
  ELSE LET t == find_unused_register(ins) IN
       <<Begin>> \o GsBase(t, ins.rm)
         \o <<Check("le", "cur", 0, 0, TRUE, -1),
              dbt_copy_instruction(ins, [ins.rm EXCEPT !.base = t]),
              Check("eq", "next", 0, 0, TRUE, -1)>>

\* HANDLER_NORMAL and HANDLER_MOV_MOFFSET
Normal(ins) ==
  IF ~OnGs(ins) THEN <<Begin, dbt_copy_instruction(ins, ins.rm)>>
  ELSE LET t == find_unused_register(ins) IN
       <<Begin>> \o GsBase(t, ins.rm)
         \o <<Check("le", "cur", 0, 0, TRUE, -1),
              dbt_copy_instruction(ins, [ins.rm EXCEPT !.base = t]),
              Check("eq", "next", 0, 0, TRUE, -1), FsLoad(t, "scratch")>>

CallDirect(ins) ==
  <<Begin, gen_push_imm32(ins.next), SetCached(ins.next),
    Check("le", "cur", 0, 4, FALSE, -1), gen_call("call_stub")>>

\* An esp-relative operand is read after the return address was pushed
CallIndirect(ins) ==
  LET rm == IF ins.rm.base = "esp" THEN [ins.rm EXCEPT !.disp = @ + 4] ELSE ins.rm IN
  <<Begin, gen_push_imm32(ins.next), Check("eq", "cur", 0, 4, FALSE, -1)>>
    \o (IF OnGs(ins) THEN dbt_gen_push_gs_rm(ins, rm, 4) ELSE <<gen_push_rm(rm)>>)
    \o <<SetCached(ins.next), Check("le", "cur", 0, 8, FALSE, -1), gen_call("icall_dispatch")>>

dbt_gen_call_postamble(pc) ==
  <<gen_mov_r_rm_32("ecx", Stack(4)), gen_lea("ecx", modrm_rm_mreg("ecx", -pc)),
    gen_jecxz_rel(5), gen_jmp("fallback"),
    Check("le", "stk", 4, 8, FALSE, 0), PopReg("ecx"),
    Check("eq", "stk", 0, 4, FALSE, -1), Drop(4)>>

dbt_gen_ret_trampoline ==
  <<Check("eq", "stk", 0, 4, FALSE, -1), PushReg("ecx"), gen_movzx_r32_rm16("ecx", Stack(4)),
    Check("le", "stk", 4, 8, FALSE, -1), PushCached,
    Check("le", "stk", 8, 12, FALSE, -1), [op |-> "ret"]>>

\* The return address moves to the last of the n bytes the callee releases
RetN(ins) ==
  <<Begin, gen_pop_rm(Stack(ins.n - 4)), Check("eq", "stk", -4, ins.n - 4, FALSE, -1),
    gen_lea("esp", Stack(ins.n - 4))>> \o dbt_gen_ret_trampoline

JmpIndirect(ins) ==
  <<Begin>> \o (IF OnGs(ins) THEN dbt_gen_push_gs_rm(ins, ins.rm, 0) ELSE <<gen_push_rm(ins.rm)>>)
    \o <<Check("eq", "cur", 0, 4, FALSE, -1), gen_jmp("sieve_dispatch")>>

Jcc(ins) == <<Begin, gen_jcc(ins.dest), Check("eq", "cur", 0, 0, FALSE, -1), JmpDirect(ins.next)>>

\* LOOP and JECXZ reach two bytes only: they select one of two jumps
JccRel8(ins) ==
  <<Begin, [op |-> ins.k, i |-> 4], Other, JmpDirect(ins.dest),
    Check("le", "cur", 0, 0, FALSE, -1), JmpDirect(ins.next)>>

Int80(ins) ==
  <<Begin, gen_push_imm32(ins.next), Check("eq", "cur", 0, 4, FALSE, -1), gen_jmp("syscall")>>

MovFromSeg(ins) ==
  LET t == find_unused_register(ins) IN
  <<Begin, FsStore("scratch", t), FsLoad(t, "gs"), Check("le", "cur", 0, 0, TRUE, -1),
    gen_mov_rm_r_32(ins.rm, t), Check("eq", "next", 0, 0, TRUE, -1), FsLoad(t, "scratch")>>

\* tls_user_entry_to_offset turns the selector into the place of its base
MovToSeg(ins) ==
  LET t == find_unused_register(ins) IN
  <<Begin, FsStore("scratch", t), gen_mov_r_rm_32(t, ins.rm), gen_pushfd, FsStore("gs", t),
    gen_shr_rm_32(t, 3), PushReg("eax"), PushReg("ecx"), PushReg("edx"), PushReg(t),
    CallC("tls"), [op |-> "tlsbase", r |-> t], FsStore("gs_addr", t),
    Drop(4), PopReg("edx"), PopReg("ecx"), PopReg("eax"), gen_popfd, FsLoad(t, "scratch")>>

\* dbt_cpuid_internal: a buffer of four words and three arguments
Cpuid == <<Begin, Drop(-4 * 4 - 4), PushReg("esp"), PushReg("ecx"), PushReg("eax"),
           CallC("cpuid"), gen_mov_r_rm_32("eax", Stack(12)),
           gen_mov_r_rm_32("ebx", Stack(16)), gen_mov_r_rm_32("ecx", Stack(20)),
           gen_mov_r_rm_32("edx", Stack(24)), Drop(4 * 7 + 4)>>

dbt_translate(ins) ==
  CASE ins.k \in {"op", "moffs"} -> Normal(ins)
    [] ins.k = "call"   -> CallDirect(ins)
    [] ins.k = "calli"  -> CallIndirect(ins)
    [] ins.k = "ret"    -> <<Begin>> \o dbt_gen_ret_trampoline
    [] ins.k = "retn"   -> RetN(ins)
    [] ins.k = "jmp"    -> <<Begin, JmpDirect(ins.dest)>>
    [] ins.k = "jmpi"   -> JmpIndirect(ins)
    [] ins.k = "jcc"    -> Jcc(ins)
    [] ins.k \in {"loop", "jecxz8"} -> JccRel8(ins)
    [] ins.k = "syscall" -> Int80(ins)
    [] ins.k = "movfs"  -> MovFromSeg(ins)
    [] ins.k = "movts"  -> MovToSeg(ins)
    [] ins.k = "cpuid"  -> Cpuid

-----------------------------------------------------------------------------
\* The trampolines and the assembly glue

\* Both start at "the destination address is on the stack"; the return
\* fallback enters the first one after its push
dbt_gen_sieve_dispatch ==
  <<Check("eq", "stk", 0, 4, FALSE, -1), PushReg("ecx"), gen_movzx_r32_rm16("ecx", Stack(4)),
    Check("le", "stk", 4, 8, FALSE, 0), JmpTable>>
IndirectCallDispatch ==
  <<Check("eq", "stk", 4, 8, FALSE, -1), gen_mov_rm_r_32(Stack(0), "ecx"),
    gen_movzx_r32_rm16("ecx", Stack(4)), Check("le", "stk", 4, 8, FALSE, 0), JmpTable>>

\* One entry of a bucket; the failing jump goes to the next one of the chain
dbt_gen_sieve(pc) ==
  <<gen_mov_r_rm_32("ecx", Stack(4)), gen_lea("ecx", modrm_rm_mreg("ecx", -pc)),
    gen_jecxz_rel(5), [op |-> "nextsieve"],
    Check("le", "stk", 4, 8, FALSE, 0), PopReg("ecx"),
    Check("eq", "lost", 0, 4, FALSE, -1), Drop(4),
    Check("eq", "lost", 0, 0, FALSE, -1), [op |-> "exit", pc |-> pc]>>

dbt_get_direct_trampoline(pc) ==
  <<Check("eq", "dest", 0, 0, FALSE, -1), gen_push_imm32(0),
    Check("eq", "lost", 0, 4, FALSE, -1), gen_push_imm32(pc),
    Check("eq", "lost", 0, 0, FALSE, -1), gen_jmp("find_direct")>>

\* The address of the emitted call is dropped, the guest's stays
dbt_get_direct_call_trampoline(pc) ==
  <<Check("eq", "stk", 4, 8, FALSE, -1), Drop(4),
    Check("eq", "stk", 0, 4, FALSE, -1), JmpDirect(pc)>>

dbt_find_direct_internal ==
  <<PushReg("eax"), PushReg("ecx"), PushReg("edx"), gen_pushfd,
    gen_mov_r_rm_32("ecx", Stack(20)), gen_mov_r_rm_32("edx", Stack(16)),
    PushReg("ecx"), PushReg("edx"), CallC("find"), Drop(8),
    gen_popfd, PopReg("edx"), PopReg("ecx"), PopReg("eax"), Drop(8), gen_jmp_rm>>

dbt_find_indirect_internal ==
  <<PushReg("eax"), PushReg("ecx"), PushReg("edx"), gen_pushfd,
    gen_mov_r_rm_32("ecx", Stack(16)), PushReg("ecx"), CallC("find"), Drop(4),
    gen_popfd, PopReg("edx"), PopReg("ecx"), PopReg("eax"), Drop(4), gen_jmp_rm>>

dbt_sieve_fallback ==
  <<PushReg("eax"), PushReg("edx"), gen_pushfd,
    gen_mov_r_rm_32("ecx", Stack(4 * 4)), PushReg("ecx"), CallC("find"), Drop(4),
    gen_popfd, PopReg("edx"), PopReg("eax"), PopReg("ecx"), Drop(4), gen_jmp_rm>>

\* The arguments are also the registers of struct syscall_context, for fork
syscall_handler ==
  <<PushReg("ecx"), PushReg("edx"), gen_push_rm(Stack(8)),
    gen_lea("edx", Stack(16)), PushReg("edx"), gen_mov_r_rm_32("edx", Stack(8)),
    PushReg("ebp"), PushReg("edi"), PushReg("esi"), PushReg("edx"), PushReg("ecx"),
    PushReg("ebx"), CallC("syscall"), Drop(32), PopReg("edx"), PopReg("ecx"),
    gen_jmp("find_indirect")>>

Context == <<"ebx", "ecx", "edx", "esi", "edi", "ebp", "esp", "eip", "eax", "eflags">>
At(name) == 4 * ((CHOOSE i \in DOMAIN Context : Context[i] = name) - 1)

\* Saves the interrupted registers as a struct syscall_context on the kernel
\* stack, lets signal_setup_handler edit them and goes on from there
dbt_gen_signal_trampoline ==
  LET field(n) == Stack(At(n)) IN
  <<FsStore("esp", "esp"), FsLoad("esp", "kernel_esp"), gen_pushfd, PushReg("eax"),
    FsPush("eip"), FsPush("esp"), PushReg("ebp"), PushReg("edi"), PushReg("esi"),
    PushReg("edx"), PushReg("ecx"), PushReg("ebx"), gen_lea("ebp", Stack(40)),
    PushReg("esp"), CallC("setup"), Drop(4),
    gen_mov_r_rm_32("eax", field("eip")), FsStore("scratch", "eax")>>
  \o [i \in 1 .. 8 |->
        LET r == <<"eax", "ecx", "edx", "ebx", "ebp", "esi", "edi", "esp">>[i]
        IN  gen_mov_r_rm_32(r, field(r))]
  \o <<FsPush("scratch"), gen_jmp("find_indirect")>>

\* Loads the registers of a context eax points to; restore_fork returns 0
dbt_gen_restore_fork_trampoline ==
  LET field(n) == modrm_rm_mreg("eax", At(n)) IN
  <<PushReg("ebp"), gen_mov_r_rm_32("eax", Stack(8)), FsStore("kernel_esp", "esp")>>
  \o [i \in 1 .. 7 |->
        LET r == <<"ecx", "edx", "ebx", "esp", "ebp", "esi", "edi">>[i]
        IN  gen_mov_r_rm_32(r, field(r))]
  \o <<gen_push_rm(field("eip")), gen_xor_r_rm_32("eax"), gen_jmp("find_indirect")>>

dbt_gen_sigreturn_trampoline ==
  LET field(n) == modrm_rm_mreg("eax", At(n)) IN
  <<gen_mov_r_rm_32("eax", Stack(4)), gen_push_rm(field("eflags")), gen_popfd>>
  \o [i \in 1 .. 7 |->
        LET r == <<"ecx", "edx", "ebx", "esp", "ebp", "esi", "edi">>[i]
        IN  gen_mov_r_rm_32(r, field(r))]
  \o <<gen_push_rm(field("eip")), gen_mov_r_rm_32("eax", field("eax")), gen_jmp("find_indirect")>>

\* Enters the guest at fs:[return_addr] with its stack and clear registers
dbt_gen_run_trampoline ==
  <<PushReg("ebp"), gen_mov_r_rm_32("esp", Stack(8)), FsStore("kernel_esp", "esp")>>
  \o [i \in 1 .. 7 |-> gen_xor_r_rm_32(<<"eax", "ecx", "edx", "ebx", "ebp", "esi", "edi">>[i])]
  \o <<gen_jmp_rm>>
=============================================================================
