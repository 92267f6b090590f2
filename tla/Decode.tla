-------------------------------- MODULE Decode ------------------------------
(***************************************************************************)
(* The instruction decoder at the head of dbt_translate's loop (dbt/x86.c, *)
(* dbt/x86_inst.c) and the table it goes by: prefixes in any order, opcode *)
(* maps, ModR/M operands read and written again, immediates, and the       *)
(* choice of a temporary register for a gs-relative operand.  An           *)
(* instruction is its prefix bytes, map, opcode and ModR/M fields.         *)
(***************************************************************************)
EXTENDS Integers, Sequences, FiniteSets, Collections

CONSTANT Insn     \* instructions to decode: [pre, map, op, enc]

VARIABLES text,   \* what is left of the prefixes, and the rest
          inst     \* struct instruction_t

decodeVars == <<text, inst>>

-----------------------------------------------------------------------------
(* dbt/x86_inst_table.c for 32-bit code: what each opcode's row tells the  *)
(* decoder.  A row says whether an operand comes from the ModR/M byte, how *)
(* many immediate bytes follow, which registers the instruction uses       *)
(* without naming them, and which handler translates it; rows that differ  *)
(* in mnemonics or operand widths only are the same here.  Unknown,        *)
(* unsupported, invalid and prefix rows all stop the decoder.              *)
\* Immediates: "b" one byte, "w" two, "v" two or four, "m" a memory offset
Row(h, modrm, imm, regs) == [t |-> "row", h |-> h, modrm |-> modrm, imm |-> imm, regs |-> regs]
Bad == [t |-> "bad"]
RM == Row("normal", TRUE, "", {})              \* NORMAL with ModR/M operands
RMb == Row("normal", TRUE, "b", {})
RMv == Row("normal", TRUE, "v", {})
RMuses(regs) == Row("normal", TRUE, "", regs)
Plain(imm, regs) == Row("normal", FALSE, imm, regs)
PRIVILEGED(imm, regs) == Row("privileged", FALSE, imm, regs)
SPECIAL(h, imm) == Row(h, FALSE, imm, {})
MANDATORY(none, x66, xF3, xF2) == [t |-> "mandatory", tab |-> <<none, x66, xF3, xF2>>]
EXTENSION(f) == [t |-> "extension", tab |-> f]
MODRM_MOD(r, m) == [t |-> "mod", reg |-> r, mem |-> m]
AX == {"eax"}
AX_DX == {"eax", "edx"}
AllRegs == {"eax", "ecx", "edx", "ebx", "esp", "ebp", "esi", "edi"}

-----------------------------------------------------------------------------
\* The group opcodes of the one-byte map
extension(op) ==
  EXTENSION([n \in 0 .. 7 |->
    CASE op \in {\hC6, \hC7} -> IF n # 0 THEN Bad ELSE IF op = \hC6 THEN RMb ELSE RMv
      [] op \in {\hF6, \hF7} -> IF n <= 1 THEN (IF op = \hF6 THEN RMb ELSE RMv)
                                ELSE IF n <= 3 THEN RM
                                ELSE RMuses(IF op = \hF6 THEN AX ELSE AX_DX)
      [] op = \hFE -> IF n <= 1 THEN RM ELSE Bad
      [] op = \hFF -> CASE n \in {0, 1, 6} -> RM
                        [] n = 2 -> Row("call_indirect", TRUE, "", {})
                        [] n = 4 -> Row("jmp_indirect", TRUE, "", {})
                        [] OTHER -> Bad])

\* Arithmetic in columns of eight; segment pushes, prefixes and the escape
one_byte_arith(op) ==
  LET col == op % 8 IN
  CASE col <= 3 -> RM
    [] col = 4 -> Plain("b", AX)
    [] col = 5 -> Plain("v", AX)
    [] op \in {\h27, \h2F, \h37, \h3F} -> Plain("", AX)
    [] OTHER -> Bad

\* Registers in the opcode, pushes, string input and output
one_byte_40_6F(op) ==
  CASE op \in \h40 .. \h5F -> Plain("", {})
    [] op \in {\h60, \h61} -> Plain("", AllRegs)
    [] op \in {\h62, \h63} -> RM
    [] op = \h68 -> Plain("v", {})
    [] op = \h69 -> RMv
    [] op = \h6A -> Plain("b", {})
    [] op = \h6B -> RMb
    [] op \in {\h6C, \h6D} -> PRIVILEGED("", {"edi", "edx"})
    [] op \in {\h6E, \h6F} -> PRIVILEGED("", {"esi", "edx"})
    [] OTHER -> Bad

one_byte_70_9F(op) ==
  CASE op \in \h70 .. \h7F -> SPECIAL("jcc", "b")
    [] op = \h81 -> RMv
    [] op \in {\h80, \h82, \h83} -> RMb
    [] op = \h8C -> Row("mov_from_seg", TRUE, "", {})
    [] op = \h8E -> Row("mov_to_seg", TRUE, "", {})
    [] op \in \h84 .. \h8F -> RM
    [] op \in \h91 .. \h97 -> Plain("", AX)
    [] op \in (\h90 .. \h9F) \ {\h9A} -> Plain("", {})
    [] OTHER -> Bad

one_byte_high(op) ==
  CASE op \in \hA0 .. \hA3 -> Row("mov_moffset", FALSE, "m", AX)
    [] op \in \hA4 .. \hA7 -> Plain("", {"edi", "esi"})
    [] op \in {\hA8, \hD4, \hD5} -> Plain("b", AX)
    [] op = \hA9 -> Plain("v", AX)
    [] op \in {\hAA, \hAB, \hAE, \hAF} -> Plain("", {"edi", "eax"})
    [] op \in {\hAC, \hAD} -> Plain("", {"esi", "eax"})
    [] op \in \hB0 .. \hB7 -> Plain("b", {})
    [] op \in \hB8 .. \hBF -> Plain("v", {})
    [] op \in {\hC0, \hC1} -> RMb
    [] op = \hC2 -> SPECIAL("retn", "w")
    [] op = \hC3 -> SPECIAL("ret", "w")
    [] op \in {\hC6, \hC7, \hF6, \hF7, \hFE, \hFF} -> extension(op)
    [] op = \hC9 -> Plain("", {"ebp"})
    [] op = \hCD -> SPECIAL("int", "b")
    [] op \in {\hD0, \hD1} -> RM
    [] op \in {\hD2, \hD3} -> RMuses({"ecx"})
    [] op = \hD6 -> Plain("", AX)
    [] op \in \hD8 .. \hDF -> SPECIAL("x87", "")
    [] op \in \hE0 .. \hE3 -> SPECIAL("jcc_rel8", "b")
    [] op \in \hE4 .. \hE7 -> PRIVILEGED("b", AX)
    [] op = \hE8 -> SPECIAL("call_direct", "v")
    [] op = \hE9 -> SPECIAL("jmp_direct", "v")
    [] op = \hEB -> SPECIAL("jmp_direct", "b")
    [] op \in \hEC .. \hEF -> PRIVILEGED("", AX_DX)
    [] op = \hF4 -> PRIVILEGED("", {})
    [] op \in {\hCC, \hCE, \hF1, \hF5} \cup \hF8 .. \hFD -> Plain("", {})
    [] OTHER -> Bad

one_byte_inst(op) ==
  IF op < \h40 THEN one_byte_arith(op) ELSE IF op < \h70 THEN one_byte_40_6F(op)
  ELSE IF op < \hA0 THEN one_byte_70_9F(op) ELSE one_byte_high(op)

-----------------------------------------------------------------------------
\* Rows that depend on the mandatory prefix, by the prefixes that are defined
mandatory_0F10_2F(op) ==
  CASE op \in {\h10, \h11, \h12, \h2A, \h2C, \h2D} -> MANDATORY(RM, RM, RM, RM)
    [] op = \h16 -> MANDATORY(RM, RM, RM, Bad)
    [] OTHER -> MANDATORY(RM, RM, Bad, Bad)

mandatory_0F50_5F(op) ==
  CASE op \in {\h51, \h58, \h59, \h5A} \cup \h5C .. \h5F -> MANDATORY(RM, RM, RM, RM)
    [] op \in {\h50} \cup \h54 .. \h57 -> MANDATORY(RM, RM, Bad, Bad)
    [] op = \h5B -> MANDATORY(RM, RM, RM, Bad)
    [] op \in {\h52, \h53} -> MANDATORY(RM, Bad, RM, Bad)

mandatory_0F60_7F(op) ==
  CASE op \in {\h60, \h61, \h62} -> MANDATORY(RM, RM, Bad, Bad)
    [] op \in {\h6F, \h7E, \h7F} -> MANDATORY(RM, RM, RM, Bad)
    [] op = \h70 -> MANDATORY(RMb, RMb, RMb, RMb)
    [] op \in {\h7C, \h7D} -> MANDATORY(Bad, RM, Bad, RM)

mandatory_0FB8_FF(op) ==
  CASE op \in {\hE7, \hF7} -> MANDATORY(RM, RM, Bad, Bad)
    [] op = \hC2 -> MANDATORY(RMb, RMb, RMb, RMb)
    [] op = \hD0 -> MANDATORY(Bad, RM, Bad, RM)
    [] op = \hB8 -> MANDATORY(Bad, Bad, RM, Bad)
    [] op = \hC6 -> MANDATORY(RMb, RMb, Bad, Bad)
    [] op \in {\hD6, \hE6} -> MANDATORY(Bad, RM, RM, RM)
    [] op = \hF0 -> MANDATORY(Bad, Bad, Bad, RM)

extension_0F(op) ==
  EXTENSION([n \in 0 .. 7 |->
    CASE op \in {\h0D, \h18} -> RM
      [] op \in {\h71, \h72} -> IF n \in {2, 4, 6} THEN RMb ELSE Bad
      [] op = \h73 -> IF n \in {2, 3, 6, 7} THEN RMb ELSE Bad
      [] op = \hBA -> IF n >= 4 THEN RMb ELSE Bad
      [] op = \hC7 -> IF n = 1 THEN RMuses({"eax", "ecx", "edx", "ebx"}) ELSE Bad
      [] op = \hAE -> CASE n <= 3 -> RM
                        [] n = 4 -> RMuses(AX_DX)
                        [] n \in {5, 6} -> MODRM_MOD(Plain("", {}), RMuses(AX_DX))
                        [] n = 7 -> MODRM_MOD(Plain("", {}), RM)])

two_byte_low(op) ==
  CASE op \in {\h06, \h08, \h09, \h0B} -> PRIVILEGED("", {})
    [] op \in {\h0D, \h18} -> extension_0F(op)
    [] op \in \h10 .. \h17 \cup \h28 .. \h2F -> mandatory_0F10_2F(op)
    [] op \in \h50 .. \h5F -> mandatory_0F50_5F(op)
    [] op \in \h1F .. \h23 \cup \h40 .. \h4F -> RM
    [] op = \h31 -> Plain("", AX_DX)
    [] op = \h33 -> Plain("", {"eax", "ecx", "edx"})
    [] op \in {\h60, \h61, \h62, \h6F, \h70} \cup \h7C .. \h7F -> mandatory_0F60_7F(op)
    [] op \in \h63 .. \h6E \cup \h74 .. \h76 -> RM
    [] op \in {\h71, \h72, \h73} -> extension_0F(op)
    [] op = \h77 -> Plain("", {})
    [] OTHER -> Bad

two_byte_high(op) ==
  CASE op \in \h80 .. \h8F -> SPECIAL("jcc", "v")
    [] op = \hA2 -> SPECIAL("cpuid", "")
    [] op \in {\hA4, \hAC, \hC4, \hC5} -> RMb
    [] op \in {\hA5, \hAD} -> RMuses({"ecx"})
    [] op \in {\hAA, \hB9} -> PRIVILEGED("", {})
    [] op \in {\hAE, \hBA, \hC7} -> extension_0F(op)
    [] op \in {\hB0, \hB1} -> RMuses(AX)
    [] op \in {\hB8, \hC2, \hC6, \hD0, \hD6, \hE6, \hE7, \hF0, \hF7} -> mandatory_0FB8_FF(op)
    [] op \in \hC8 .. \hCF -> Plain("", {})
    [] op \in {\hA0, \hA1, \hB2, \hB4, \hB5, \hFF} \cup \hA6 .. \hA9 -> Bad
    [] OTHER -> RM

two_byte_inst(op) == IF op < \h80 THEN two_byte_low(op) ELSE two_byte_high(op)

\* The 0F 38 map: MMX and SSE4 in the lower half, moves with swapped bytes above
three_byte_0x38_low(op) ==
  IF op \in {\h10, \h14, \h15, \h17, \h1C, \h1D, \h1E} \cup \h00 .. \h0B \cup \h20 .. \h25
           \cup \h28 .. \h2B \cup \h30 .. \h35 \cup \h37 .. \h41
  THEN RM ELSE Bad
three_byte_0x38_high(op) == IF op \in {\hF0, \hF1} THEN MANDATORY(RM, RM, Bad, RM) ELSE Bad
three_byte_inst_0x38(op) == IF op < \h80 THEN three_byte_0x38_low(op) ELSE three_byte_0x38_high(op)

\* The 0F 3A map, empty in its upper half
three_byte_0x3A_low(op) ==
  IF op \in \h08 .. \h0F \cup \h14 .. \h17 \cup \h20 .. \h22 \cup \h40 .. \h42 \cup \h60 .. \h63
  THEN RMb ELSE Bad
three_byte_inst_0x3A(op) == IF op < \h80 THEN three_byte_0x3A_low(op) ELSE Bad

-----------------------------------------------------------------------------
(* The decoder.                                                            *)
RegName == [n \in 0 .. 7 |-> <<"eax", "ecx", "edx", "ebx", "esp", "ebp", "esi", "edi">>[n + 1]]
PREFIX_GS == \h65

-----------------------------------------------------------------------------
\* ModR/M.  An encoding: mod, r, rm, sib = <<scale, index, base>>, disp

IsDisp8(d) == d \in -128 .. 127
SignExtended8(d) == ((d + 128) % 256) - 128

parse_modrm(e) ==
  IF e.mod = 3 THEN [pure |-> TRUE, base |-> e.rm, index |-> -1, scale |-> 0, disp |-> 0]
  ELSE LET nobase == e.mod = 0 /\ (IF e.rm = 4 THEN e.sib[3] = 5 ELSE e.rm = 5)
           index == IF e.rm = 4 /\ e.sib[2] # 4 THEN e.sib[2] ELSE -1
       IN  [pure |-> FALSE,
            base |-> IF nobase THEN -1 ELSE IF e.rm = 4 THEN e.sib[3] ELSE e.rm,
            index |-> index, scale |-> IF e.rm = 4 THEN e.sib[1] ELSE 0,
            disp |-> IF e.mod = 0 /\ ~nobase THEN 0 ELSE e.disp]

\* What an operand denotes: without an index the scale is nothing
Denotes(rm) == [rm EXCEPT !.scale = IF rm.index = -1 THEN 0 ELSE @]

NoCode == [mod |-> -1]         \* nothing emitted

gen_modrm_sib(r, rm) ==
  LET enc(k, m, sib, disp) == [mod |-> k, r |-> r, rm |-> m, sib |-> sib,
                                 disp |-> IF k = 1 THEN SignExtended8(disp) ELSE disp]
      mod == IF IsDisp8(rm.disp) THEN 1 ELSE 2
      idx == IF rm.index = -1 THEN 4 ELSE rm.index
  IN
  CASE rm.pure                           -> enc(3, rm.base, <<0, 0, 0>>, 0)
    [] ~rm.pure /\ rm.index = 4          -> NoCode
    [] ~rm.pure /\ rm.index # 4 /\ rm.base = -1 ->
         IF rm.index = -1 THEN enc(0, 5, <<0, 0, 0>>, rm.disp)
         ELSE enc(0, 4, <<rm.scale, rm.index, 5>>, rm.disp)
    [] OTHER ->
         IF rm.base = 4 \/ rm.index # -1
         THEN enc(mod, 4, <<rm.scale, idx, rm.base>>, rm.disp)
         ELSE enc(mod, rm.base, <<0, 0, 0>>, rm.disp)

-----------------------------------------------------------------------------
\* Prefixes: the last of a kind wins, a gs override is remembered only
NoPrefix == [rep |-> 0, seg |-> 0, opsize |-> FALSE, lock |-> FALSE]

Prefixed(p, b) ==
  CASE b = \hF0 -> [p EXCEPT !.lock = TRUE]
    [] b \in {\hF2, \hF3} -> [p EXCEPT !.rep = b]
    [] b \in {\h2E, \h36, \h3E, \h26, PREFIX_GS} -> [p EXCEPT !.seg = b]
    [] b = \h66 -> [p EXCEPT !.opsize = TRUE]

Prefix ==
  /\ text.pre # << >>
  /\ inst' = Prefixed(inst, Head(text.pre))
  /\ text' = [text EXCEPT !.pre = Tail(@)]

Desc(map, op) ==
  CASE map = "1" -> one_byte_inst(op)
    [] map = "0F" -> two_byte_inst(op)
    [] map = "0F38" -> three_byte_inst_0x38(op)
    [] map = "0F3A" -> three_byte_inst_0x3A(op)

\* One step along the extension tables; a table of ModR/M fields reads the byte
Extended(d, p, x) ==
  CASE d.t = "mandatory" -> IF x.map = "1" THEN Bad
                            ELSE d.tab[IF p.opsize THEN 2 ELSE IF p.rep = \hF3 THEN 3
                                       ELSE IF p.rep = \hF2 THEN 4 ELSE 1]
    [] d.t = "extension" -> d.tab[x.enc.r]
    [] d.t = "mod" -> IF x.enc.mod = 3 THEN d.reg ELSE d.mem
    [] OTHER -> d
Resolved(p, x) == Extended(Extended(Desc(x.map, x.op), p, x), p, x)

get_imm_bytes(imm, opsize) ==
  CASE imm = "" -> 0
    [] imm = "b" -> 1
    [] imm = "w" -> 2
    [] imm = "v" -> IF opsize THEN 2 ELSE 4
    [] imm = "m" -> 4            \* no address size prefix gets this far

\* struct instruction_t for the opcode; an x87 opcode with an operand is the
\* only one whose ModR/M byte its handler reads
Decoded(p, x) ==
  LET d == Resolved(p, x)
      modrm == \/ d.modrm
               \/ Desc(x.map, x.op).t \in {"extension", "mod"}
               \/ d.h = "x87" /\ x.enc.mod # 3
  IN  [pre |-> p, map |-> x.map, op |-> x.op, h |-> d.h, regs |-> d.regs, modrm |-> modrm,
       r |-> x.enc.r, rm |-> parse_modrm(x.enc), imm |-> get_imm_bytes(d.imm, p.opsize),
       escape2 |-> d.h = "x87" /\ x.enc.mod = 3]

Opcode ==
  /\ text.pre = << >> /\ "h" \notin DOMAIN inst
  /\ Resolved(inst, text) # Bad
  /\ inst' = Decoded(inst, text)
  /\ UNCHANGED text

\* Bytes after the opcode that the handler takes from the code
Consumed(i) ==
  CASE i.h \in {"ret", "cpuid", "mov_from_seg", "mov_to_seg", "call_indirect", "jmp_indirect"} -> 0
    [] i.h = "retn" -> 2
    [] i.h = "int" -> 1
    [] i.h = "x87" -> IF i.escape2 THEN 1 ELSE 0
    [] OTHER -> i.imm

\* UsedRegs that forgets the registers of the table's row
UsedRegs_NoImplicit(i) ==
  (IF i.modrm THEN {RegName[n] : n \in {i.r, i.rm.base, i.rm.index} \ {-1}} ELSE {})
    \cup (IF i.pre.rep # 0 THEN {"ecx"} ELSE {})

\* get_implicit_register_usage and what find_unused_register adds to it; a
\* register in the opcode is masked with 8 and never counts
UsedRegs(i) ==
  i.regs \cup (IF i.modrm THEN {RegName[n] : n \in {i.r, i.rm.base, i.rm.index} \ {-1}} ELSE {})
         \cup (IF i.pre.rep # 0 THEN {"ecx"} ELSE {})

find_unused(i) ==
  LET order == <<0, 1, 2, 3, 6, 7>>
      free == {k \in DOMAIN order : RegName[order[k]] \notin UsedRegs(i)}
  IN  IF free = {} THEN -1 ELSE order[FX!Min(free)]

\* The operand made relative to a temporary register that holds its base
UsesTemp(i) ==
  /\ i.pre.seg = PREFIX_GS
  /\ \/ i.h \in {"normal", "x87", "call_indirect", "jmp_indirect"} /\ i.modrm /\ ~i.rm.pure
        /\ ~(i.map = "1" /\ i.op = \h8D)
     \/ i.h = "mov_moffset"
Rebased(i) == [i.rm EXCEPT !.base = find_unused(i)]

\* The lea that adds the operand's own base to the temporary
LeaBase(i) == gen_modrm_sib(find_unused(i),
                [pure |-> FALSE, base |-> find_unused(i), index |-> i.rm.base, scale |-> 0, disp |-> 0])

DecodeInit == text \in Insn /\ inst = NoPrefix
DecodeNext == Prefix \/ Opcode

-----------------------------------------------------------------------------
(***************************************************************************)
(* The processor's reference, independent of the tables: which opcodes     *)
(* have a ModR/M byte, how long their immediates are, and the general      *)
(* registers an instruction with a memory operand uses without naming them *)
(***************************************************************************)
ArchModRM(x) ==
  CASE x.map = "1" -> \/ x.op < \h40 /\ x.op % 8 < 4
                      \/ x.op \in {\h62, \h63, \h69, \h6B, \hC0, \hC1, \hC6, \hC7, \hF6, \hF7, \hFE, \hFF}
                      \/ x.op \in \h80 .. \h8F \cup \hD0 .. \hD3 \cup \hD8 .. \hDF
    [] x.map = "0F" -> x.op \notin {\h06, \h08, \h09, \h0B, \h31, \h33, \h77, \hA2, \hAA, \hB9}
                                   \cup \h80 .. \h8F \cup \hC8 .. \hCF
    [] OTHER -> TRUE

ArchImm(x, opsize) ==
  LET v == IF opsize THEN 2 ELSE 4 IN
  CASE x.map = "1" ->
         CASE x.op < \h40 /\ x.op % 8 = 4 -> 1
           [] x.op < \h40 /\ x.op % 8 = 5 -> v
           [] x.op \in {\h68, \h69, \h81, \hA9, \hC7, \hE8, \hE9} \cup \hB8 .. \hBF -> v
           [] x.op \in {\h6A, \h6B, \h80, \h82, \h83, \hA8, \hC0, \hC1, \hC6, \hCD, \hD4, \hD5, \hEB}
                       \cup \h70 .. \h7F \cup \hB0 .. \hB7 \cup \hE0 .. \hE7 -> 1
           [] x.op \in \hA0 .. \hA3 -> 4
           [] x.op = \hC2 -> 2
           [] x.op = \hF6 /\ x.enc.r < 2 -> 1
           [] x.op = \hF7 /\ x.enc.r < 2 -> v
           [] OTHER -> 0
    [] x.map = "0F" ->
         CASE x.op \in {\hA4, \hAC, \hBA, \hC2, \hC4, \hC5, \hC6} \cup \h70 .. \h73 -> 1
           [] x.op \in \h80 .. \h8F -> v
           [] OTHER -> 0
    [] x.map = "0F38" -> 0
    [] x.map = "0F3A" -> 1

ArchImplicit(x) ==
  CASE x.map = "1" /\ x.op \in \hA0 .. \hA3 -> {"eax"}
    [] x.map = "1" /\ x.op \in {\hD2, \hD3} -> {"ecx"}
    [] x.map = "1" /\ x.op = \hF6 /\ x.enc.r > 3 -> {"eax"}
    [] x.map = "1" /\ x.op = \hF7 /\ x.enc.r > 3 -> {"eax", "edx"}
    [] x.map = "0F" /\ x.op \in {\hA5, \hAD} -> {"ecx"}
    [] x.map = "0F" /\ x.op \in {\hB0, \hB1} -> {"eax"}
    [] x.map = "0F" /\ x.op = \hC7 -> {"eax", "ecx", "edx", "ebx"}
    [] x.map = "0F" /\ x.op = \hAE /\ x.enc.r \in 4 .. 6 -> {"eax", "edx"}
    [] x.map = "0F3A" /\ x.op \in \h60 .. \h63 -> {"eax", "ecx", "edx"}
    [] OTHER -> {}

Done == "h" \in DOMAIN inst

(***************************************************************************)
(* The translator finds the end of every instruction it accepts where the  *)
(* processor does, whatever prefixes stand before it, and a memory operand *)
(* written again with gen_modrm_sib is the operand that was read (the      *)
(* displacement may change its size), also when the temporary replaces its *)
(* base.  A base of esp cannot be added by the lea: nothing is emitted.    *)
(***************************************************************************)
OperandsExact ==
  Done =>
    /\ (inst.modrm \/ inst.escape2) = ArchModRM(text)
    /\ inst.h # "ret" /\ ~inst.escape2 => Consumed(inst) = ArchImm(text, inst.pre.opsize)
    /\ inst.modrm => Denotes(parse_modrm(gen_modrm_sib(inst.r, inst.rm))) = Denotes(inst.rm)
    /\ UsesTemp(inst) /\ inst.modrm /\ find_unused(inst) # -1 =>
         /\ Denotes(parse_modrm(gen_modrm_sib(inst.r, Rebased(inst)))) = Denotes(Rebased(inst))
         /\ inst.rm.base \notin {-1, 4} => parse_modrm(LeaBase(inst)).index = inst.rm.base

\* Rows that do not list the registers of the string compare instructions, and
\* the one instruction that can leave no register free
KnownGaps ==
  \/ text.map = "0F3A" /\ text.op \in \h60 .. \h63
  \/ text.map = "0F" /\ text.op = \hC7 /\ {inst.rm.base, inst.rm.index} = {6, 7}

(***************************************************************************)
(* The temporary register of a gs-relative operand is always found, and it *)
(* is none the instruction reads or writes, named or implied (KnownGaps    *)
(* aside): otherwise the instruction computes with the linear address.     *)
(***************************************************************************)
TemporaryFree ==
  Done /\ UsesTemp(inst) /\ ~KnownGaps =>
    /\ find_unused(inst) # -1
    /\ find_unused(inst) \notin {inst.r, inst.rm.base, inst.rm.index} \/ ~inst.modrm
    /\ RegName[find_unused(inst)] \notin ArchImplicit(text)
(***************************************************************************)
(* What dbt_translate takes from an instruction (x86_inst.c and its table) *)
(* is right: its length, its operand and the register it leaves free.      *)
(***************************************************************************)
DecodesExactly == OperandsExact /\ TemporaryFree
=============================================================================
