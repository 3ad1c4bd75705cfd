---------------------------- MODULE Mn1613Port ----------------------------
(***************************************************************************)
(* The Rust port of the assembler (retrocpu_asm_rs) and of the CPU         *)
(* (retrocpu_emu_rs), which promise the words and the decoding of the      *)
(* TypeScript programs of Mn1613Codec. The port writes an instruction as   *)
(* one expression per match arm where the original has a base per          *)
(* mnemonic, and executes it in one function per group of opcodes.         *)
(***************************************************************************)
EXTENDS Mn1613Codec

(***************************************************************************)
(* encode_instruction, one definition per group of match arms              *)
(***************************************************************************)
RsOp5(op, ddd, skip, tail) == 2048 * op + 256 * ddd + 16 * skip + tail
RsMem(bit1, i, rrr) == 32768 + 16384 * bit1 + 2048 * i.m + 256 * rrr + i.x

RsMemoryArm(i) ==
  RsMem(IF i.op \in {"L", "B", "IMS"} THEN 1 ELSE 0, i,
        CASE i.op \in {"L", "ST"} -> i.r [] i.op \in {"B", "BAL"} -> 7 [] OTHER -> 6)

RsRegisterOps == [A |-> <<11, 8>>, S |-> <<11, 0>>, C |-> <<10, 8>>, CB |-> <<10, 0>>, MV |-> <<15, 8>>,
  MVB |-> <<15, 0>>, BSWP |-> <<14, 8>>, DSWP |-> <<14, 0>>, LAD |-> <<13, 0>>, AND |-> <<13, 8>>,
  OR |-> <<12, 8>>, EOR |-> <<12, 0>>]
RsRegisterArm(i) == RsOp5(RsRegisterOps[i.op][1], i.r, i.k, RsRegisterOps[i.op][2] + i.x)

RsShiftBitArm(i) ==
  CASE i.op = "SR" -> RsOp5(4, i.r, i.k, 8 + i.x)
    [] i.op = "SL" -> RsOp5(4, i.r, i.k, 12 + i.x)
    [] i.op = "TBIT" -> RsOp5(5, i.r, i.k, i.x)
    [] i.op = "RBIT" -> RsOp5(6, i.r, i.k, i.x)
    [] i.op = "SBIT" -> RsOp5(7, i.r, i.k, i.x)
    [] i.op = "AI" -> RsOp5(9, i.r, i.k, i.x)
    [] i.op = "SI" -> RsOp5(8, i.r, i.k, i.x)

RsPlainArm(i) ==
  CASE i.op = "LPSW" -> 2048 * 4 + 4 + i.x
    [] i.op = "H" -> \h2000
    [] i.op \in {"PUSH", "POP", "RET"} ->
         2048 * 4 + 256 * i.r + (CASE i.op = "PUSH" -> 1 [] i.op = "POP" -> 2 [] i.op = "RET" -> 3)
    [] i.op \in {"RD", "WT", "MVI"} ->
         2048 * (CASE i.op = "RD" -> 3 [] i.op = "WT" -> 2 [] i.op = "MVI" -> 1) + 256 * i.r + i.x
    [] i.op \in {"LD", "STD"} -> \h2700 + (IF i.op = "STD" THEN 64 ELSE 0) + 16 * i.k + 8 + i.x
    [] i.op = "PSHM" -> \h170F
    [] i.op = "POPM" -> \h1707

RsLrStr(i) == 2048 * 4 + 256 * i.r + 16 * i.k + (IF i.op = "STR" THEN 4 ELSE 0) + i.x   \* k = 4 mm + bb

RsIndirectOps == [MVWR |-> <<15, 8>>, MVBR |-> <<15, 0>>, BSWR |-> <<14, 8>>, DSWR |-> <<14, 0>>,
  AWR |-> <<11, 8>>, SWR |-> <<11, 0>>, CWR |-> <<10, 8>>, CBR |-> <<10, 0>>, LADR |-> <<13, 0>>,
  ANDR |-> <<13, 8>>, ORR |-> <<12, 8>>, EORR |-> <<12, 0>>, FA |-> <<13, 12>>, FS |-> <<13, 4>>,
  FM |-> <<12, 12>>, FD |-> <<12, 4>>]
RsIndirectArm(i) == RsOp5(RsIndirectOps[i.op][1], 7, i.k, RsIndirectOps[i.op][2] + i.x)

RsImmediateOps == [MVWI |-> <<15, 7>>, AWI |-> <<11, 15>>, SWI |-> <<11, 7>>, CWI |-> <<10, 15>>,
  CBI |-> <<10, 7>>, LADI |-> <<13, 7>>, ANDI |-> <<13, 15>>, ORI |-> <<12, 15>>, EORI |-> <<12, 7>>]
RsImmediateArm(i) == RsOp5(RsImmediateOps[i.op][1], i.r, i.k, RsImmediateOps[i.op][2])

RsDoubleArm(i) ==      \* x = 8 c + ii; M and D have no carry
  CASE i.op = "NEG" -> RsOp5(3, 7, i.k, i.x)
    [] i.op = "AD" -> RsOp5(9, 7, i.k, i.x + 4)
    [] i.op = "SD" -> RsOp5(8, 7, i.k, i.x + 4)
    [] i.op = "DAA" -> RsOp5(11, 7, i.k, i.x + 4)
    [] i.op = "DAS" -> RsOp5(10, 7, i.k, i.x + 4)
    [] i.op = "M" -> RsOp5(15, 7, i.k, 12 + i.x)
    [] i.op = "D" -> RsOp5(14, 7, i.k, 12 + i.x)
    [] i.op \in {"FIX", "FLT"} -> RsOp5(3, 7, i.k, IF i.op = "FIX" THEN 4 ELSE 12)

RsBranchArm(i) ==
  CASE i.op = "BD" -> \h2607 [] i.op = "BL" -> \h270F [] i.op = "BALD" -> \h2617 [] i.op = "BALL" -> \h271F
    [] i.op \in {"BR", "BALR"} -> 2048 * 4 + 256 * 7 + (IF i.op = "BR" THEN 4 ELSE 20) + i.x
    [] i.op = "RETL" -> \h3F07
    [] i.op \in {"TSET", "TRST"} -> RsOp5(2, 7, i.k, (IF i.op = "TSET" THEN 8 ELSE 0) + i.x)
    [] i.op = "SRBT" -> \h3F70 + i.x
    [] i.op = "DEBP" -> \h3FF0 + i.x
    [] i.op = "BLK" -> \h3F17
    [] i.op \in {"RDR", "WTR"} -> 2048 * 4 + 256 * i.r + (IF i.op = "RDR" THEN 20 ELSE 16) + i.x

RsSpecialArm(i) ==
  (IF i.op \in {"CPYH", "SETH"} THEN \h3F00 ELSE \h0F00) + 16 * i.k +
  (IF i.op \in {"STB", "STS", "CPYB", "CPYS", "CPYH"} THEN 128 ELSE 0) +
  (IF i.op \in {"LS", "STS", "CPYS", "SETS"} THEN 8 ELSE 0) +
  (IF i.op \in {"LB", "LS", "STB", "STS"} THEN 7 ELSE i.x)

RsEncode(i) ==
  CASE i.op \in {"L", "ST", "B", "BAL", "IMS", "DMS"} -> RsMemoryArm(i)
    [] i.op \in DOMAIN RsRegisterOps -> RsRegisterArm(i)
    [] i.op \in {"SR", "SL", "TBIT", "RBIT", "SBIT", "AI", "SI"} -> RsShiftBitArm(i)
    [] i.op \in {"LPSW", "H", "PUSH", "POP", "RET", "RD", "WT", "MVI", "LD", "STD", "PSHM", "POPM"} -> RsPlainArm(i)
    [] i.op \in {"LR", "STR"} -> RsLrStr(i)
    [] i.op \in DOMAIN RsIndirectOps -> RsIndirectArm(i)
    [] i.op \in DOMAIN RsImmediateOps -> RsImmediateArm(i)
    [] i.op \in {"NEG", "AD", "SD", "DAA", "DAS", "M", "D", "FIX", "FLT"} -> RsDoubleArm(i)
    [] i.op \in DOMAIN SpecialForms -> RsSpecialArm(i)
    [] OTHER -> RsBranchArm(i)

\* split_ai_si_imm4_chunks: the loop takes 15 at a time from what remains.
RsChunks(n) ==
  LET take[rest \in 0 .. n] == IF rest = 0 THEN << >>
                               ELSE LET s == IF rest < 15 THEN rest ELSE 15 IN <<s>> \o take[rest - s]
  IN  IF n <= 15 THEN <<n>> ELSE take[n]

RsEmitted(i) ==
  IF i.op \in {"AI", "SI"} /\ i.k = 0
  THEN [j \in DOMAIN RsChunks(i.x) |-> RsEncode([i EXCEPT !.x = RsChunks(i.x)[j]])]
  ELSE <<RsEncode(i)>>

(***************************************************************************)
(* execute_one, exec_01 .. exec_0f: the instruction and the words fetched  *)
(***************************************************************************)
RsExecMemory(w) ==
  LET is_hi == (w \div 16384) % 2 = 1
      mmm == Op5(w) % 8
      name(hi, lo) == IF is_hi THEN hi ELSE lo
  IN  IF Rrr(w) = 7 THEN Insn(name("B", "BAL"), mmm, 0, 0, Lo(w), 1)
      ELSE IF mmm = 7 THEN Insn(name("IMS", "DMS"), mmm, 0, 0, Lo(w), 1)
      ELSE Insn(name("L", "ST"), mmm, Rrr(w), 0, Lo(w), 1)

RsExec01(w) ==
  LET pick(b, s) == IF Bit3(w) = 0 THEN b ELSE s
  IN  IF Rrr(w) # 7 THEN Insn("MVI", 0, Rrr(w), 0, Lo(w), 1)
      ELSE IF Low3(w) = 7
      THEN Insn(IF Bit7(w) = 0 THEN pick("LB", "LS") ELSE pick("STB", "STS"), 0, 0, High3(w), 0, 2)
      ELSE Insn(IF Bit7(w) = 1 THEN pick("CPYB", "CPYS") ELSE pick("SETB", "SETS"), 0, 0, High3(w), Low3(w), 1)

RsExec02(w) ==
  CASE Rrr(w) # 7 -> Insn("WT", 0, Rrr(w), 0, Lo(w), 1)
    [] Rrr(w) = 7 /\ Lo(w) \in {\h0F, \h07} -> Bare(IF Lo(w) = \h0F THEN "PSHM" ELSE "POPM")
    [] OTHER -> Insn(IF Bit3(w) = 1 THEN "TSET" ELSE "TRST", 0, 0, Kkkk(w), Low3(w), 2)

RsExec03(w) ==
  CASE Rrr(w) # 7 -> Insn("RD", 0, Rrr(w), 0, Lo(w), 1)
    [] Rrr(w) = 7 /\ Bit2(w) = 0 -> Insn("NEG", 0, 0, Kkkk(w), Low4(w), 1)
    [] OTHER -> Insn(IF Bit3(w) = 1 THEN "FLT" ELSE "FIX", 0, 0, Kkkk(w), 0, 1)

RsExec04Rrr7(w) ==
  LET bb == B54(w)
  IN  CASE Lo(w) \div 4 = 1 -> Insn("BR", 0, 0, 0, Low2(w), 1)
        [] Lo(w) \div 4 = 5 -> Insn("BALR", 0, 0, 0, Low2(w), 1)
        [] OTHER -> IF (w \div 64) % 2 = 1 THEN Insn("STD", 0, 0, bb, Low3(w), 2)
                    ELSE IF Low3(w) = 7 THEN Insn(IF bb = 1 THEN "BALL" ELSE "BL", 0, 0, 0, 0, 2)
                    ELSE Insn("LD", 0, 0, bb, Low3(w), 2)

RsExec04Any(w) ==
  LET plain(op) == Insn(op, 0, Rrr(w), 0, 0, 1)
      with(op, k) == Insn(op, 0, Rrr(w), k, Low2(w), 1)
  IN  CASE Lo(w) \in {1, 2} -> plain(IF Lo(w) = 1 THEN "PUSH" ELSE "POP")
        [] B76(w) # 0 /\ B32(w) \in {0, 1} -> with(IF B32(w) = 0 THEN "LR" ELSE "STR", Kkkk(w))
        [] B32(w) \in {2, 3} -> with(IF B32(w) = 2 THEN "SR" ELSE "SL", Kkkk(w))
        [] Kkkk(w) = 1 /\ B32(w) = 1 /\ Rrr(w) # 7 -> with("RDR", 0)
        [] Kkkk(w) = 1 /\ B32(w) = 0 -> with("WTR", 0)
        [] OTHER -> Unknown
RsExec04(w) ==
  CASE Rrr(w) = 0 /\ Lo(w) \in {0, 3} -> Bare(IF Lo(w) = 0 THEN "H" ELSE "RET")
    [] Rrr(w) = 0 /\ Lo(w) \div 4 = 1 -> Insn("LPSW", 0, 0, 0, Low2(w), 1)
    [] Rrr(w) = 6 /\ Lo(w) = \h07 -> Insn("BD", 0, 0, 0, 0, 2)
    [] Rrr(w) = 6 /\ Lo(w) = \h17 -> Insn("BALD", 0, 0, 0, 0, 2)
    [] Rrr(w) = 7 /\ (Lo(w) \div 4 \in {1, 5} \/ Bit3(w) = 1) -> RsExec04Rrr7(w)
    [] OTHER -> RsExec04Any(w)

RsExec07(w) ==
  LET hi4 == Kkkk(w)
  IN  CASE Rrr(w) # 7 -> ViaI4("SBIT", w)
        [] Rrr(w) = 7 /\ Lo(w) \in {\h07, \h17} -> Bare(IF Lo(w) = \h07 THEN "RETL" ELSE "BLK")
        [] Rrr(w) = 7 /\ hi4 \in {7, 15} /\ Bit3(w) = 0 ->
             Insn(IF hi4 = 7 THEN "SRBT" ELSE "DEBP", 0, 0, 0, Low3(w), 1)
        [] OTHER -> Insn(IF Bit7(w) # 0 THEN "CPYH" ELSE "SETH", 0, 0, hi4 % 8, Low3(w), 1)

RsExec0809(w, dword, imm) == IF Rrr(w) = 7 /\ Bit2(w) = 1 THEN ViaRiC(dword, w) ELSE ViaI4(imm, w)

\* exec_0a .. exec_0f: the tests in their order; b32 picks among by32 when rrr = 7, imm = <<with bit 3, without>>
RsExecPair(w, carry, by32, imm, rs) ==
  CASE Rrr(w) = 7 -> IF carry # "" /\ Bit2(w) = 1 THEN ViaRiC(carry, w) ELSE ViaRi(by32[B32(w) + 1], w)
    [] Rrr(w) # 7 /\ imm # << >> /\ Low3(w) = 7 -> ViaI16(imm[2 - Bit3(w)], w)
    [] OTHER -> ViaRs(rs[2 - Bit3(w)], w)
RsExec0A(w) == RsExecPair(w, "DAS", <<"CBR", "", "CWR", "">>, <<"CWI", "CBI">>, <<"C", "CB">>)
RsExec0B(w) == RsExecPair(w, "DAA", <<"SWR", "", "AWR", "">>, <<"AWI", "SWI">>, <<"A", "S">>)
RsExec0C(w) == RsExecPair(w, "", <<"EORR", "FD", "ORR", "FM">>, <<"ORI", "EORI">>, <<"OR", "EOR">>)
RsExec0D(w) == RsExecPair(w, "", <<"LADR", "FS", "ANDR", "FA">>, <<"ANDI", "LADI">>, <<"AND", "LAD">>)
RsExec0E(w) == RsExecPair(w, "", <<"DSWR", "DSWR", "BSWR", "D">>, << >>, <<"BSWP", "DSWP">>)
\* Mutant: bit 3 is not looked at before the immediate word is fetched.
RsExec0FAnyC(w) ==
  IF Low3(w) = 7 THEN IF Rrr(w) = 7 THEN Insn("MVWI", 0, 7, 0, 0, 2) ELSE ViaI16("MVWI", w)
  ELSE RsExecPair(w, "", <<"MVBR", "MVBR", "MVWR", "M">>, << >>, <<"MV", "MVB">>)

RsExec0F(w) ==
  IF Low4(w) = 7 THEN IF Rrr(w) = 7 THEN Insn("MVWI", 0, 7, 0, 0, 2) ELSE ViaI16("MVWI", w)
  ELSE RsExecPair(w, "", <<"MVBR", "MVBR", "MVWR", "M">>, << >>, <<"MV", "MVB">>)

RsPerformed(w) ==
  CASE Op5(w) >= 16 -> RsExecMemory(w)
    [] Op5(w) = 0 -> Unknown
    [] Op5(w) = 1 -> RsExec01(w) [] Op5(w) = 2 -> RsExec02(w)
    [] Op5(w) = 3 -> RsExec03(w) [] Op5(w) = 4 -> RsExec04(w)
    [] Op5(w) = 5 -> ViaI4("TBIT", w) [] Op5(w) = 6 -> ViaI4("RBIT", w)
    [] Op5(w) = 7 -> RsExec07(w)
    [] Op5(w) = 8 -> RsExec0809(w, "SD", "SI") [] Op5(w) = 9 -> RsExec0809(w, "AD", "AI")
    [] Op5(w) = 10 -> RsExec0A(w) [] Op5(w) = 11 -> RsExec0B(w) [] Op5(w) = 12 -> RsExec0C(w)
    [] Op5(w) = 13 -> RsExec0D(w) [] Op5(w) = 14 -> RsExec0E(w) [] Op5(w) = 15 -> RsExec0F(w)

RsIs2Word(w) ==
  LET op == Op5(w)
  IN  CASE op = 1 -> Rrr(w) = 7 /\ Low3(w) = 7
        [] op = 2 -> Rrr(w) = 7 /\ Lo(w) # \h0F /\ Lo(w) # \h07
        [] op = 4 -> \/ Rrr(w) = 7 /\ Bit3(w) = 1
                     \/ Rrr(w) = 6 /\ Lo(w) \in {\h07, \h17}
        [] op \in {8, 9} -> Rrr(w) = 7 /\ Bit2(w) = 1
        [] op \in 10 .. 13 -> Rrr(w) # 7 /\ Low4(w) \in {15, 7}
        [] op = 15 -> Low4(w) = 7
        [] OTHER -> FALSE

\* The port assembles a source line to the words of the original (the table of expected words both
\* test suites share, mn1613_encoder.rs against mn1613_encoder.ts, with every operand).
PortAssemblesAlike == insn # NoInsn /\ words # << >> => RsEmitted(insn) = words

\* The port carries out the same instruction, fetches as many words and skips over as many
\* (core.rs against mn1613.ts, for every word of memory).
PortExecutesAlike ==
  performed # << >> =>
    \A j \in DOMAIN words :
      RsPerformed(words[j]) = performed[j] /\ (RsIs2Word(words[j]) <=> Is2Word(words[j]))

==========================================================================
