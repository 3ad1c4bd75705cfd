--------------------------- MODULE Tms9995Codec ---------------------------
(***************************************************************************)
(* The instruction words of the TMS9995 in the four programs that write or *)
(* read them:                                                              *)
(*   the assembler (tms9995_encode.ts)             Encode                  *)
(*   its Rust port (tms9995_encoder.rs)            RsEncode                *)
(*   the CPU (execute.ts)                          Executed                *)
(*   its Rust port (cpu_core/core.rs)              RsExecuted              *)
(* An instruction is [op, m, r, d, q, x]: source mode and register,        *)
(* destination mode (format 1 only), destination register, shift count,    *)
(* CRU bit count or XOP number, and the byte of a jump or of SBO, SBZ, TB. *)
(* A field its format does not have is 0. Modes: 0 Rn, 1 (Rn), 2 a word of *)
(* address follows, 3 (Rn)+.                                               *)
(***************************************************************************)
EXTENDS Integers, Sequences

CONSTANTS Sources,       \* instructions assembled
          OnOriginal,    \* those among them the TypeScript CPU carries out as assembled
          OnPort         \* those the Rust CPU does

VARIABLES insn,          \* the source instruction
          code,          \* what the assembler emitted: the word, and what the words after it are for
          done,          \* what the TypeScript CPU does with it: the instruction, and what it takes them for
          rsDone         \* what the Rust CPU does with it

vars == <<insn, code, done, rsDone>>

Fields(op, m, r, d, q, x) == [op |-> op, m |-> m, r |-> r, d |-> d, q |-> q, x |-> x]
\* resolveEa: mode 2 takes the next word of the program, for operand o.
Extra(m, o) == IF m = 2 THEN <<o>> ELSE <<>>

(***************************************************************************)
(* The assembler                                                           *)
(***************************************************************************)
FMT1 == [SZC |-> \h4000, SZCB |-> \h5000, S |-> \h6000, SB |-> \h7000, C |-> \h8000, CB |-> \h9000,
         A |-> \hA000, AB |-> \hB000, MOV |-> \hC000, MOVB |-> \hD000, SOC |-> \hE000, SOCB |-> \hF000]
FMT2_JUMP == [JMP |-> \h1000, JLT |-> \h1100, JLE |-> \h1200, JEQ |-> \h1300, JHE |-> \h1400, JGT |-> \h1500,
              JNE |-> \h1600, JNC |-> \h1700, JOC |-> \h1800, JNO |-> \h1900, JL |-> \h1A00, JH |-> \h1B00,
              JOP |-> \h1C00]
FMT6 == [BLWP |-> \h0400, B |-> \h0440, X |-> \h0480, CLR |-> \h04C0, NEG |-> \h0500, INV |-> \h0540,
         INC |-> \h0580, INCT |-> \h05C0, DEC |-> \h0600, DECT |-> \h0640, BL |-> \h0680, SWPB |-> \h06C0,
         SETO |-> \h0700, ABS |-> \h0740, DIVS |-> \h0180, MPYS |-> \h01C0]
FMT2_CRU == [SBO |-> \h1D00, SBZ |-> \h1E00, TB |-> \h1F00]
FMT3 == [COC |-> \h2000, CZC |-> \h2400, XOR |-> \h2800]
FMT4 == [LDCR |-> \h3000, STCR |-> \h3400]
FMT5 == [SRA |-> \h0800, SRL |-> \h0900, SLA |-> \h0A00, SRC |-> \h0B00]
FMT8_REG_IMM == [LI |-> \h0200, AI |-> \h0220, ANDI |-> \h0240, ORI |-> \h0260, CI |-> \h0280]
FMT9 == [XOP |-> \h2C00, MPY |-> \h3800, DIV |-> \h3C00]
FMT7_FIXED == [IDLE |-> \h0340, RSET |-> \h0360, RTWP |-> \h0380, CKON |-> \h03A0, CKOF |-> \h03C0, LREX |-> \h03E0]
WorkspaceImm == [LWPI |-> \h02E0, LIMI |-> \h0300]
WorkspaceReg == [STWP |-> \h02A0, STST |-> \h02C0, LST |-> \h0080, LWP |-> \h0090]

\* packAddr: mode and register in six bits; every register has every mode (R0 of mode 2 is the direct address).
Field6(m, r) == 16 * m + r
Reg == 0 .. 15
Instructions ==
  [op : DOMAIN FMT1, m : 0 .. 3, r : Reg, d : 0 .. 3, q : Reg, x : {0}] \cup
  [op : DOMAIN FMT2_JUMP \cup DOMAIN FMT2_CRU, m : {0}, r : {0}, d : {0}, q : {0}, x : 0 .. 255] \cup
  [op : DOMAIN FMT6, m : 0 .. 3, r : Reg, d : {0}, q : {0}, x : {0}] \cup
  [op : DOMAIN FMT3 \cup DOMAIN FMT9, m : 0 .. 3, r : Reg, d : {0}, q : Reg, x : {0}] \cup
  [op : DOMAIN FMT4, m : 0 .. 3, r : Reg, d : {0}, q : 1 .. 16, x : {0}] \cup      \* #0 means #16
  [op : DOMAIN FMT5, m : {0}, r : Reg, d : {0}, q : Reg, x : {0}] \cup
  [op : DOMAIN FMT8_REG_IMM \cup DOMAIN WorkspaceReg, m : {0}, r : Reg, d : {0}, q : {0}, x : {0}] \cup
  [op : DOMAIN FMT7_FIXED \cup DOMAIN WorkspaceImm, m : {0}, r : {0}, d : {0}, q : {0}, x : {0}]

Emit(word, after) == [word |-> word, after |-> after]
EncodeWorkspace(i) ==         \* formats 7 and 8
  CASE i.op \in DOMAIN FMT7_FIXED -> Emit(FMT7_FIXED[i.op], <<>>)
    [] i.op \in DOMAIN WorkspaceImm -> Emit(WorkspaceImm[i.op], <<"imm">>)
    [] i.op \in DOMAIN WorkspaceReg -> Emit(WorkspaceReg[i.op] + i.r, <<>>)
    [] OTHER -> Emit(FMT8_REG_IMM[i.op] + i.r, <<"imm">>)
EncodeDisplaced(i) ==         \* formats 2 and 5
  CASE i.op \in DOMAIN FMT2_CRU -> Emit(FMT2_CRU[i.op] + i.x, <<>>)
    [] i.op \in DOMAIN FMT2_JUMP -> Emit(FMT2_JUMP[i.op] + i.x, <<>>)
    [] OTHER -> Emit(FMT5[i.op] + 16 * i.q + i.r, <<>>)
EncodeSource(i) ==            \* formats 3, 4, 6 and 9
  LET base == CASE i.op \in DOMAIN FMT3 -> FMT3[i.op] + 64 * i.q
                [] i.op \in DOMAIN FMT4 -> FMT4[i.op] + 64 * (i.q % 16)
                [] i.op \in DOMAIN FMT9 -> FMT9[i.op] + 64 * i.q
                [] OTHER -> FMT6[i.op]
  IN Emit(base + Field6(i.m, i.r), Extra(i.m, "src"))
EncodeFormat1(i) ==
  Emit(FMT1[i.op] + 1024 * i.d + 64 * i.q + Field6(i.m, i.r), Extra(i.m, "src") \o Extra(i.d, "dst"))
Encode(i) ==
  CASE i.op \in DOMAIN FMT1 -> EncodeFormat1(i)
    [] i.op \in DOMAIN FMT2_CRU \cup DOMAIN FMT2_JUMP \cup DOMAIN FMT5 -> EncodeDisplaced(i)
    [] i.op \in DOMAIN FMT3 \cup DOMAIN FMT4 \cup DOMAIN FMT6 \cup DOMAIN FMT9 -> EncodeSource(i)
    [] OTHER -> EncodeWorkspace(i)

(***************************************************************************)
(* The assembler's port: tables by position, the same order of extra words *)
(***************************************************************************)
Position(s, op) == CHOOSE k \in DOMAIN s : s[k] = op
RsFmt1 == <<"SZC", "SZCB", "S", "SB", "C", "CB", "A", "AB", "MOV", "MOVB", "SOC", "SOCB">>
RsFmt2 == <<"JMP", "JLT", "JLE", "JEQ", "JHE", "JGT", "JNE", "JNC", "JOC", "JNO", "JL", "JH", "JOP">>
RsFmt2Cru == <<"SBO", "SBZ", "TB">>
RsFmt3 == <<"COC", "CZC", "XOR">>
RsFmt4 == <<"LDCR", "STCR">>
RsFmt5 == <<"SRA", "SRL", "SLA", "SRC">>
RsFmt6 == <<"BLWP", "B", "X", "CLR", "NEG", "INV", "INC", "INCT", "DEC", "DECT", "BL", "SWPB", "SETO", "ABS">>
RsFmt6Signed == <<"DIVS", "MPYS">>
RsFmt7Fixed == <<"IDLE", "RSET", "RTWP", "CKON", "CKOF", "LREX">>
RsFmt8RegImm == <<"LI", "AI", "ANDI", "ORI", "CI">>
RsFmt9 == [XOP |-> \h2C00, MPY |-> \h3800, DIV |-> \h3C00]
RsWorkspaceReg == [STWP |-> \h02A0, STST |-> \h02C0, LST |-> \h0080, LWP |-> \h0090]

RsPackAddr(m, r) == 16 * (m % 4) + (r % 16)
\* fmt1_op .. fmt7_fixed_op: from base, one operation every step.
RsOp(base, step, s, op) == base + step * (Position(s, op) - 1)
In(s, op) == \E k \in DOMAIN s : s[k] = op

RsExtras(i) == Extra(i.m, "src") \o Extra(i.d, "dst")
RsGeneral(i, base) == Emit(base + RsPackAddr(i.m, i.r), RsExtras(i))
RsEncodeWorkspace(i) ==
  CASE In(RsFmt7Fixed, i.op) -> Emit(RsOp(\h0340, 32, RsFmt7Fixed, i.op), <<>>)
    [] i.op \in {"LWPI", "LIMI"} -> Emit(IF i.op = "LWPI" THEN \h02E0 ELSE \h0300, <<"imm">>)
    [] i.op \in DOMAIN RsWorkspaceReg -> Emit(RsWorkspaceReg[i.op] + i.r, <<>>)
    [] OTHER -> Emit(RsOp(\h0200, 32, RsFmt8RegImm, i.op) + i.r, <<"imm">>)
RsEncodeDisplaced(i) ==
  CASE In(RsFmt2Cru, i.op) -> Emit(RsOp(\h1D00, 256, RsFmt2Cru, i.op) + i.x, <<>>)
    [] In(RsFmt2, i.op) -> Emit(RsOp(\h1000, 256, RsFmt2, i.op) + i.x, <<>>)
    [] OTHER -> Emit(RsOp(\h0800, 256, RsFmt5, i.op) + 16 * i.q + i.r, <<>>)
RsEncodeSource(i) ==
  CASE In(RsFmt3, i.op) -> RsGeneral(i, RsOp(\h2000, 1024, RsFmt3, i.op) + 64 * i.q)
    [] In(RsFmt4, i.op) -> RsGeneral(i, RsOp(\h3000, 1024, RsFmt4, i.op) + 64 * (i.q % 16))
    [] i.op \in DOMAIN RsFmt9 -> RsGeneral(i, RsFmt9[i.op] + 64 * i.q)
    [] In(RsFmt6, i.op) -> RsGeneral(i, RsOp(\h0400, 64, RsFmt6, i.op))
    [] OTHER -> RsGeneral(i, RsOp(\h0180, 64, RsFmt6Signed, i.op))
RsEncodeFormat1(i) == RsGeneral(i, RsOp(\h4000, 4096, RsFmt1, i.op) + 1024 * i.d + 64 * i.q)
RsEncode(i) ==
  CASE In(RsFmt7Fixed \o RsFmt8RegImm \o <<"LWPI", "LIMI">>, i.op) \/ i.op \in DOMAIN RsWorkspaceReg -> RsEncodeWorkspace(i)
    [] In(RsFmt2Cru \o RsFmt2 \o RsFmt5, i.op) -> RsEncodeDisplaced(i)
    [] In(RsFmt1, i.op) -> RsEncodeFormat1(i)
    [] OTHER -> RsEncodeSource(i)

(***************************************************************************)
(* The CPU (execute.ts). Does(i, after): it carries out i, having taken    *)
(* the words behind the instruction word for after, in that order.         *)
(***************************************************************************)
Does(i, after) == [insn |-> i, after |-> after]
Illegal == Does(Fields("illegal", 0, 0, 0, 0, 0), <<>>)
Ts(w) == (w \div 16) % 4
S(w) == w % 16
D(w) == (w \div 64) % 16
OneOperand(w, op, q) == Does(Fields(op, Ts(w), S(w), 0, q, 0), Extra(Ts(w), "src"))

\* 02xx: the next word is fetched before the operation is known, for STWP and STST too.
ImmediateOps == <<"LI", "AI", "ANDI", "ORI", "CI", "STWP", "STST", "LWPI">>
ExecImmediate(w) ==
  IF (w \div 16) % 2 = 1 THEN [Illegal EXCEPT !.after = <<"imm">>]
  ELSE LET op == ImmediateOps[1 + ((w \div 32) % 8)]
       IN Does(Fields(op, 0, IF op = "LWPI" THEN 0 ELSE S(w), 0, 0, 0), <<"imm">>)

\* testCondition takes bits 7-4 of a value whose bits 7-0 are masked away: the code is 0, JMP, always.
TestCondition(w) == "JMP"
ExecFormat2(w) ==
  LET sub == (w \div 256) % 16
  IN Does(Fields(CASE sub = 13 -> "SBO" [] sub = 14 -> "SBZ" [] sub = 15 -> "TB" [] OTHER -> TestCondition(w),
                 0, 0, 0, 0, w % 256), <<>>)

\* 2xxx: the destination's mode and register are read two fields off. Both tests of bit 11 compute COC.
ExecFormat3(w) ==
  LET d == D(w) % 4
  IN Does(Fields(IF (w \div 1024) % 4 = 2 THEN "XOR" ELSE "COC", Ts(w), S(w), d, (w \div 1024) % 16, 0),
          Extra(d, "dst") \o Extra(Ts(w), "src"))

\* cruTransfer: 1 to 8 bits, or 16.
CruBits(w) == IF D(w) \in 1 .. 8 THEN D(w) ELSE 16

\* 0800-0BFF: the kind is read from bits 11-10, which are 10 for all four.
ExecShift(w) == Does(Fields(<<"SRA", "SRL", "SLA", "SRC">>[1 + ((w \div 1024) % 4)], 0, S(w), 0, (w \div 16) % 16, 0), <<>>)

\* Format 1: the destination is resolved before the source.
Format1Ops == <<"SZC", "SZCB", "S", "SB", "C", "CB", "A", "AB", "MOV", "MOVB", "SOC", "SOCB">>
Format1(w) ==
  LET d == (w \div 1024) % 4
  IN Does(Fields(Format1Ops[w \div 4096 - 3], Ts(w), S(w), d, D(w), 0), Extra(d, "dst") \o Extra(Ts(w), "src"))
\* Format 1 is recognised by all of the upper byte, so only with a destination of R0 to R3.
ExecFormat1(w) == IF (w \div 256) % 16 = 0 THEN Format1(w) ELSE Illegal

Format6Ops == <<"BLWP", "B", "X", "CLR", "NEG", "INV", "INC", "INCT", "DEC", "DECT", "BL", "SWPB", "SETO", "ABS">>
ExecFormat6(w) ==
  LET k == (w - \h0400) \div 64 + 1
  IN IF k \in DOMAIN Format6Ops THEN OneOperand(w, Format6Ops[k], 0)
     ELSE [Illegal EXCEPT !.after = Extra(Ts(w), "src")]

\* The tests of hi for 0080, 0090, 0180 and 01C0 hold of no word: LST, LWP, DIVS and MPYS fall through.
Executed(w) ==
  LET hi == w \div 256
  IN CASE hi = 2 -> ExecImmediate(w)
       [] w = \h0300 -> Does(Fields("LIMI", 0, 0, 0, 0, 0), <<"imm">>)
       [] w = \h0340 -> Does(Fields("IDLE", 0, 0, 0, 0, 0), <<>>)
       [] w = \h0360 -> Does(Fields("RSET", 0, 0, 0, 0, 0), <<>>)
       [] w = \h0380 -> Does(Fields("RTWP", 0, 0, 0, 0, 0), <<>>)
       [] hi \in 4 .. 7 -> ExecFormat6(w)
       [] hi \in 8 .. 11 -> ExecShift(w)
       [] hi \in 16 .. 31 -> ExecFormat2(w)
       [] hi \in 32 .. 47 -> ExecFormat3(w)
       [] hi \in 48 .. 55 -> OneOperand(w, IF hi < 52 THEN "LDCR" ELSE "STCR", CruBits(w))
       [] hi \in 56 .. 63 -> OneOperand(w, IF hi < 60 THEN "MPY" ELSE "DIV", 0)     \* always R0 and R1
       [] hi >= 64 -> ExecFormat1(w)
       [] OTHER -> Illegal

(***************************************************************************)
(* The CPU's port (cpu_core/core.rs)                                       *)
(***************************************************************************)
RsResolve(mode, o) == IF mode = 2 THEN <<o>> ELSE <<>>
RsSource(w, op, d, q) == Does(Fields(op, Ts(w), S(w), d, q, 0), RsResolve(Ts(w), "src"))

RsImmediate(w) ==
  LET op == <<"LI", "AI", "ANDI", "ORI", "CI", "STWP", "STST", "LWPI">>[1 + ((w \div 32) % 8)]
  IN Does(Fields(op, 0, IF op = "LWPI" THEN 0 ELSE S(w), 0, 0, 0), <<"imm">>)
RsConditions == <<"JMP", "JLT", "JLE", "JEQ", "JHE", "JGT", "JNE", "JNC", "JOC", "JNO", "JL", "JH", "JOP">>
RsTestCondition(w) == RsConditions[1 + ((w \div 256) % 16)]
RsFormat2(w) ==
  LET sub == (w \div 256) % 16
  IN Does(Fields(IF sub >= 13 THEN <<"SBO", "SBZ", "TB">>[sub - 12] ELSE RsTestCondition(w), 0, 0, 0, 0, w % 256), <<>>)
\* Here too both tests of bit 11 compute COC, and 2Cxx is taken before the test for XOP.
RsFormat3(w) == RsSource(w, IF (w \div 1024) % 4 = 2 THEN "XOR" ELSE "COC", 0, D(w))
RsCruBits(w) == IF D(w) \in 1 .. 8 THEN D(w) ELSE 16
RsShiftKind(w) == (w \div 256) % 4
RsShift(w) ==
  Does(Fields(CASE RsShiftKind(w) = 0 -> "SRA" [] RsShiftKind(w) = 1 -> "SRL" [] RsShiftKind(w) = 2 -> "SLA" [] OTHER -> "SRC",
              0, S(w), 0, (w \div 16) % 16, 0), <<>>)
RsFormat1(w) ==
  LET d == (w \div 1024) % 4
      op == <<"SZC", "SZCB", "S", "SB", "C", "CB", "A", "AB", "MOV", "MOVB", "SOC", "SOCB">>[w \div 4096 - 3]
  IN Does(Fields(op, Ts(w), S(w), d, D(w), 0), RsResolve(d, "dst") \o RsResolve(Ts(w), "src"))
RsFormat6(w) ==
  LET k == (w \div 64) % 16
      ops == <<"BLWP", "B", "X", "CLR", "NEG", "INV", "INC", "INCT", "DEC", "DECT", "BL", "SWPB", "SETO", "ABS">>
  IN IF k < 14 THEN RsSource(w, ops[k + 1], 0, 0) ELSE [Illegal EXCEPT !.after = RsResolve(Ts(w), "src")]

RsExecuted(w) ==
  LET hi == w \div 256
  IN CASE hi = 2 /\ (w \div 16) % 2 = 0 -> RsImmediate(w)
       [] w = \h0300 -> Does(Fields("LIMI", 0, 0, 0, 0, 0), <<"imm">>)
       [] w \in {\h0340, \h0360, \h0380} -> Does(Fields(<<"IDLE", "RSET", "RTWP">>[(w - \h0320) \div 32], 0, 0, 0, 0, 0), <<>>)
       [] hi \in 4 .. 7 -> RsFormat6(w)
       [] hi \in 8 .. 11 -> RsShift(w)
       [] hi \in 16 .. 31 -> RsFormat2(w)
       [] hi \in 32 .. 47 -> RsFormat3(w)
       [] hi \in 48 .. 51 -> RsSource(w, "LDCR", 0, RsCruBits(w))
       [] hi \in 52 .. 55 -> RsSource(w, "STCR", 0, RsCruBits(w))
       [] hi \in 56 .. 59 -> RsSource(w, "MPY", 0, 0)
       [] hi \in 60 .. 63 -> RsSource(w, "DIV", 0, 0)
       [] hi >= 64 -> RsFormat1(w)
       [] OTHER -> Illegal

(***************************************************************************)
(* An instruction is assembled and then run by the two CPUs.               *)
(***************************************************************************)
Idle == Does(Fields("none", 0, 0, 0, 0, 0), <<>>)
Init ==
  /\ insn \in Sources
  /\ code = Emit(0, <<>>)
  /\ done = Idle /\ rsDone = Idle

Assembled == code.word # 0
Assemble ==
  /\ ~Assembled
  /\ code' = Encode(insn)
  /\ UNCHANGED <<insn, done, rsDone>>
Execute ==
  /\ Assembled /\ done = Idle
  /\ done' = Executed(code.word)
  /\ UNCHANGED <<insn, code, rsDone>>
ExecutePort ==
  /\ Assembled /\ done # Idle /\ rsDone = Idle
  /\ rsDone' = RsExecuted(code.word)
  /\ UNCHANGED <<insn, code, done>>
Next == Assemble \/ Execute \/ ExecutePort
Spec == Init /\ [][Next]_vars

(***************************************************************************)
(* Properties                                                              *)
(***************************************************************************)
AsAssembled(d) == d.insn = insn /\ d.after = code.after

\* The port of the assembler writes the words the original writes, in the same order
\* (tms9995_encoder.rs against tms9995_encode.ts).
PortAssemblesAlike == Assembled => RsEncode(insn) = code

\* The TypeScript CPU carries out what was assembled: operation, operand fields, and every word after
\* the instruction taken for what the assembler meant it for, for the part of the set it gets right
\* (execute.ts, executeInstruction against tms9995_encode.ts, encodeTms9995Instruction).
RunsAsAssembled == done # Idle /\ insn \in OnOriginal => AsAssembled(done)

\* The Rust CPU does, for its part (core.rs, execute_ir).
PortRunsAsAssembled == rsDone # Idle /\ insn \in OnPort => AsAssembled(rsDone)

=============================================================================
