--------------------------- MODULE Mn1613Codec ---------------------------
(***************************************************************************)
(* The instruction words of the MN1613 as four programs of the repository *)
(* read or write them, each translated on its own:                        *)
(*   the assembler (mn1613_encoder.ts)            Forms, Encode           *)
(*   the disassembler (decode.ts)                 Listed                  *)
(*   the CPU (_executeOne, _exec04 of mn1613.ts)  Performed               *)
(*   the CPU's skip (_is2Word of mn1613.ts)       Is2Word                 *)
(* An instruction is [op, m, r, k, x]: mnemonic, addressing mode, register *)
(* field, the field of bits 7-4 (skip condition, base or special register, *)
(* indirection mode) and the low field. A field that its program does not  *)
(* read is 0. The second word carries no information here. Every list of   *)
(* names (skip conditions, registers) is the same in encoder and           *)
(* disassembler, so a name is its number.                                  *)
(***************************************************************************)
EXTENDS Integers, Sequences

CONSTANTS Sources,    \* the instructions assembled
          RawWords    \* memory words listed and executed that need not come from the assembler

VARIABLES insn,       \* the source instruction, or NoInsn for a raw word
          words,      \* what the assembler emitted for it (its first words), << >> before
          listed,     \* what the disassembler shows, one entry per emitted instruction
          performed   \* what the CPU does with it, likewise

vars == <<insn, words, listed, performed>>

NoInsn == [op |-> "none", m |-> 0, r |-> 0, k |-> 0, x |-> 0]

(***************************************************************************)
(* The assembler: word = base + 2048 m + 256 r + 16 k + x, with the values *)
(* its parsers let through.                                                *)
(***************************************************************************)
G == 0 .. 6           \* parseReg(.., true): R0-R4, SP, STR
GnoStr == 0 .. 5      \* parseReg(.., false)
Skips == 0 .. 15
Carry(X) == {8 * c + i : c \in 0 .. 1, i \in X}

Form(base, M, R, K, X, n) == [base |-> base, m |-> M, r |-> R, k |-> K, x |-> X, words |-> n]
Memory(base, R)   == Form(base, 0 .. 7, R, {0}, 0 .. 255, 1)
RegReg(base)      == Form(base, {0}, G, Skips, G, 1)
RegImm4(base)     == Form(base, {0}, G, Skips, Skips, 1)
RegImm16(base)    == Form(base, {0}, G, Skips, {0}, 2)
RegIo(base)       == Form(base, {0}, G, {0}, 0 .. 255, 1)
Indirect(base)    == Form(base, {0}, {0}, Skips, 0 .. 3, 1)
IndirectC(base)   == Form(base, {0}, {0}, Skips, Carry(0 .. 3), 1)
Plain(base, R, X) == Form(base, {0}, R, {0}, X, 1)
Addr16(base, K, X) == Form(base, {0}, {0}, K, X, 2)
Special(base, K, X) == Form(base, {0}, {0}, K, X, 1)

MemoryForms == [L |-> Memory(\hC000, GnoStr), ST |-> Memory(\h8000, GnoStr),
  B |-> Memory(\hC700, {0}), BAL |-> Memory(\h8700, {0}),
  IMS |-> Memory(\hC600, {0}), DMS |-> Memory(\h8600, {0})]

RegisterForms == [A |-> RegReg(\h5808), S |-> RegReg(\h5800), C |-> RegReg(\h5008), CB |-> RegReg(\h5000),
  MV |-> RegReg(\h7808), MVB |-> RegReg(\h7800), BSWP |-> RegReg(\h7008), DSWP |-> RegReg(\h7000),
  LAD |-> RegReg(\h6800), AND |-> RegReg(\h6808), OR |-> RegReg(\h6008), EOR |-> RegReg(\h6000),
  SR |-> Form(\h2008, {0}, G, Skips, 0 .. 3, 1), SL |-> Form(\h200C, {0}, G, Skips, 0 .. 3, 1),
  TBIT |-> RegImm4(\h2800), RBIT |-> RegImm4(\h3000), SBIT |-> RegImm4(\h3800),
  AI |-> RegImm4(\h4800), SI |-> RegImm4(\h4000)]

ControlForms == [LPSW |-> Plain(\h2004, {0}, 0 .. 3), H |-> Plain(\h2000, {0}, {0}),
  PUSH |-> Plain(\h2001, G, {0}), POP |-> Plain(\h2002, G, {0}), RET |-> Plain(\h2003, {0}, {0}),
  RD |-> RegIo(\h1800), WT |-> RegIo(\h1000), MVI |-> RegIo(\h0800)]

TransferForms == [LD |-> Addr16(\h2708, 0 .. 3, GnoStr), STD |-> Addr16(\h2748, 0 .. 3, GnoStr),
  LR |-> Form(\h2000, {0}, G, 4 .. 15, 0 .. 3, 1), STR |-> Form(\h2004, {0}, G, 4 .. 15, 0 .. 3, 1),
  MVWR |-> Indirect(\h7F08), MVWI |-> RegImm16(\h7807), MVBR |-> Indirect(\h7F00),
  BSWR |-> Indirect(\h7708), DSWR |-> Indirect(\h7700),
  PSHM |-> Plain(\h170F, {0}, {0}), POPM |-> Plain(\h1707, {0}, {0})]

ArithmeticForms == [AWR |-> Indirect(\h5F08), AWI |-> RegImm16(\h580F), SWR |-> Indirect(\h5F00),
  SWI |-> RegImm16(\h5807), CWR |-> Indirect(\h5708), CWI |-> RegImm16(\h500F),
  CBR |-> Indirect(\h5700), CBI |-> RegImm16(\h5007),
  NEG |-> Form(\h1F00, {0}, {0}, Skips, Carry(G), 1),
  AD |-> IndirectC(\h4F04), SD |-> IndirectC(\h4704), M |-> Indirect(\h7F0C), D |-> Indirect(\h770C),
  DAA |-> IndirectC(\h5F04), DAS |-> IndirectC(\h5704), LADR |-> Indirect(\h6F00), LADI |-> RegImm16(\h6807)]

LogicForms == [ANDR |-> Indirect(\h6F08), ANDI |-> RegImm16(\h680F), ORR |-> Indirect(\h6708),
  ORI |-> RegImm16(\h600F), EORR |-> Indirect(\h6700), EORI |-> RegImm16(\h6007),
  FA |-> Indirect(\h6F0C), FS |-> Indirect(\h6F04), FM |-> Indirect(\h670C), FD |-> Indirect(\h6704),
  FIX |-> Special(\h1F04, Skips, {0}), FLT |-> Special(\h1F0C, Skips, {0})]

BranchForms == [BD |-> Addr16(\h2607, {0}, {0}), BL |-> Addr16(\h270F, {0}, {0}),
  BR |-> Special(\h2704, {0}, 0 .. 3), BALD |-> Addr16(\h2617, {0}, {0}), BALL |-> Addr16(\h271F, {0}, {0}),
  BALR |-> Special(\h2714, {0}, 0 .. 3), RETL |-> Special(\h3F07, {0}, {0}),
  TSET |-> Addr16(\h1708, Skips, G), TRST |-> Addr16(\h1700, Skips, G),
  SRBT |-> Special(\h3F70, {0}, G), DEBP |-> Special(\h3FF0, {0}, G),
  BLK |-> Special(\h3F17, {0}, {0}), RDR |-> Plain(\h2014, G, 0 .. 3), WTR |-> Plain(\h2010, G, 0 .. 3)]

\* parseBBB(.., forWrite) refuses CSBR for STB and SETB, and lets it through for LB.
SpecialForms == [LB |-> Addr16(\h0F07, 0 .. 7, {0}), LS |-> Addr16(\h0F0F, 0 .. 2, {0}),
  STB |-> Addr16(\h0F87, 1 .. 7, {0}), STS |-> Addr16(\h0F8F, 0 .. 2, {0}),
  CPYB |-> Special(\h0F80, 0 .. 7, G), CPYS |-> Special(\h0F88, 0 .. 2, G), CPYH |-> Special(\h3F80, 0 .. 6, G),
  SETB |-> Special(\h0F00, 1 .. 7, G), SETS |-> Special(\h0F08, 0 .. 2, G), SETH |-> Special(\h3F00, 0 .. 6, G)]

Merge(f, g) == [op \in DOMAIN f \cup DOMAIN g |-> IF op \in DOMAIN f THEN f[op] ELSE g[op]]
Forms == Merge(MemoryForms, Merge(RegisterForms, Merge(ControlForms, Merge(TransferForms,
           Merge(ArithmeticForms, Merge(LogicForms, Merge(BranchForms, SpecialForms)))))))

Instructions(ops) ==
  UNION {[op : {op}, m : Forms[op].m, r : Forms[op].r, k : Forms[op].k, x : Forms[op].x] : op \in ops}

Encode(i) == Forms[i.op].base + 2048 * i.m + 256 * i.r + 16 * i.k + i.x

\* AI and SI without a skip condition take any constant: 15 at a time, one instruction each.
Chunks(n) ==
  IF n = 0 THEN <<0>>
  ELSE [j \in 1 .. ((n + 14) \div 15) |-> IF n - 15 * (j - 1) > 15 THEN 15 ELSE n - 15 * (j - 1)]

Emitted(i) ==
  IF i.op \in {"AI", "SI"} /\ i.k = 0
  THEN [j \in 1 .. Len(Chunks(i.x)) |-> Encode([i EXCEPT !.x = Chunks(i.x)[j]])]
  ELSE <<Encode(i)>>

(***************************************************************************)
(* Fields of a word                                                        *)
(***************************************************************************)
Op5(w)  == w \div 2048
Rrr(w)  == (w \div 256) % 8
Lo(w)   == w % 256
Kkkk(w) == (w \div 16) % 16
Low4(w) == w % 16
B76(w)  == (w \div 64) % 4
B54(w)  == (w \div 16) % 4
B32(w)  == (w \div 4) % 4
Bit3(w) == (w \div 8) % 2
Bit2(w) == (w \div 4) % 2
Low3(w) == w % 8
Low2(w) == w % 4
High3(w) == (w \div 16) % 8     \* bbb, ppp, hhh
Bit7(w) == (w \div 128) % 2

Insn(op, m, r, k, x, n) == [op |-> op, m |-> m, r |-> r, k |-> k, x |-> x, words |-> n]
Unknown == Insn(".word", 0, 0, 0, 0, 1)
Bare(op) == Insn(op, 0, 0, 0, 0, 1)
\* The second-operand forms the register groups 0A-0F share: (Ri), Rs, and an immediate word.
ViaRi(op, w)  == Insn(op, 0, 0, Kkkk(w), Low2(w), 1)
ViaRiC(op, w) == Insn(op, 0, 0, Kkkk(w), 8 * Bit3(w) + Low2(w), 1)
ViaRs(op, w)  == Insn(op, 0, Rrr(w), Kkkk(w), Low3(w), 1)
ViaI4(op, w)  == Insn(op, 0, Rrr(w), Kkkk(w), Low4(w), 1)
ViaI16(op, w) == Insn(op, 0, Rrr(w), Kkkk(w), 0, 2)

(***************************************************************************)
(* The disassembler                                                        *)
(***************************************************************************)
\* Mutant: the disassembler takes IMS and DMS by the mode, as the CPU does.
ListedMemoryByMode(w) ==
  LET op == IF Op5(w) >= 24
            THEN CASE Rrr(w) = 7 -> "B" [] Rrr(w) # 7 /\ Op5(w) % 8 = 7 -> "IMS" [] OTHER -> "L"
            ELSE CASE Rrr(w) = 7 -> "BAL" [] Rrr(w) # 7 /\ Op5(w) % 8 = 7 -> "DMS" [] OTHER -> "ST"
  IN  Insn(op, Op5(w) % 8, IF Rrr(w) = 7 THEN 0 ELSE Rrr(w), 0, Lo(w), 1)

ListedMemory(w) ==
  LET op == IF Op5(w) >= 24
            THEN CASE Rrr(w) = 7 -> "B" [] Rrr(w) = 6 -> "IMS" [] OTHER -> "L"
            ELSE CASE Rrr(w) = 7 -> "BAL" [] Rrr(w) = 6 -> "DMS" [] OTHER -> "ST"
  IN  Insn(op, Op5(w) % 8, IF Rrr(w) >= 6 THEN 0 ELSE Rrr(w), 0, Lo(w), 1)

Listed01(w) ==
  LET write == Bit7(w) = 1
      special == Bit3(w) = 1
  IN  CASE Rrr(w) # 7 -> Insn("MVI", 0, Rrr(w), 0, Lo(w), 1)
        [] OTHER ->
           IF special /\ High3(w) > 2 THEN Unknown
           ELSE IF Low3(w) = 7
           THEN Insn(IF special THEN IF write THEN "STS" ELSE "LS" ELSE IF write THEN "STB" ELSE "LB",
                     0, 0, High3(w), 0, 2)
           ELSE Insn(IF special THEN IF write THEN "CPYS" ELSE "SETS" ELSE IF write THEN "CPYB" ELSE "SETB",
                     0, 0, High3(w), Low3(w), 1)

Listed02(w) ==
  CASE Rrr(w) # 7 -> Insn("WT", 0, Rrr(w), 0, Lo(w), 1)
    [] Rrr(w) = 7 /\ Lo(w) = 15 -> Bare("PSHM")
    [] Rrr(w) = 7 /\ Lo(w) = 7 -> Bare("POPM")
    [] OTHER -> Insn(IF Bit3(w) = 1 THEN "TSET" ELSE "TRST", 0, 0, Kkkk(w), Low3(w), 2)

Listed03(w) ==
  CASE Rrr(w) # 7 -> Insn("RD", 0, Rrr(w), 0, Lo(w), 1)
    [] Rrr(w) = 7 /\ Bit2(w) = 1 -> Insn(IF Bit3(w) = 0 THEN "FIX" ELSE "FLT", 0, 0, Kkkk(w), 0, 1)
    [] OTHER -> Insn("NEG", 0, 0, Kkkk(w), Low4(w), 1)

Listed04(w) ==
  CASE Rrr(w) = 0 /\ Lo(w) = 0 -> Bare("H")
    [] Rrr(w) = 0 /\ Lo(w) = 3 -> Bare("RET")
    [] Rrr(w) = 0 /\ Lo(w) \in 4 .. 7 -> Insn("LPSW", 0, 0, 0, Low2(w), 1)
    [] Rrr(w) = 6 /\ Lo(w) = 7 -> Insn("BD", 0, 0, 0, 0, 2)
    [] Rrr(w) = 6 /\ Lo(w) = 23 -> Insn("BALD", 0, 0, 0, 0, 2)
    [] Rrr(w) = 7 /\ Lo(w) \in 4 .. 7 -> Insn("BR", 0, 0, 0, Low2(w), 1)
    [] Rrr(w) = 7 /\ Lo(w) \in 20 .. 23 -> Insn("BALR", 0, 0, 0, Low2(w), 1)
    [] Rrr(w) = 7 /\ Bit3(w) = 1 ->
         CASE B76(w) % 2 = 1 -> Insn("STD", 0, 0, B54(w), Low3(w), 2)
           [] B76(w) % 2 = 0 /\ Low3(w) # 7 -> Insn("LD", 0, 0, B54(w), Low3(w), 2)
           [] OTHER -> Insn(IF B54(w) = 1 THEN "BALL" ELSE "BL", 0, 0, 0, 0, 2)
    [] OTHER ->
         CASE Lo(w) = 1 -> Insn("PUSH", 0, Rrr(w), 0, 0, 1)
           [] Lo(w) = 2 -> Insn("POP", 0, Rrr(w), 0, 0, 1)
           [] B32(w) \in {0, 1} /\ B76(w) # 0 ->
                Insn(IF B32(w) = 0 THEN "LR" ELSE "STR", 0, Rrr(w), Kkkk(w), Low2(w), 1)
           [] B32(w) = 2 -> Insn("SR", 0, Rrr(w), Kkkk(w), Low2(w), 1)
           [] B32(w) = 3 -> Insn("SL", 0, Rrr(w), Kkkk(w), Low2(w), 1)
           [] Kkkk(w) = 1 /\ B32(w) = 1 /\ Rrr(w) # 7 -> Insn("RDR", 0, Rrr(w), 0, Low2(w), 1)
           [] Kkkk(w) = 1 /\ B32(w) = 0 -> Insn("WTR", 0, Rrr(w), 0, Low2(w), 1)
           [] OTHER -> Unknown

Listed07(w) ==
  CASE Rrr(w) # 7 -> ViaI4("SBIT", w)
    [] Rrr(w) = 7 /\ Lo(w) = 7 -> Bare("RETL")
    [] Rrr(w) = 7 /\ Lo(w) = 23 -> Bare("BLK")
    [] Rrr(w) = 7 /\ Lo(w) \in 112 .. 119 -> Insn("SRBT", 0, 0, 0, Low3(w), 1)
    [] Rrr(w) = 7 /\ Lo(w) \in 240 .. 247 -> Insn("DEBP", 0, 0, 0, Low3(w), 1)
    [] OTHER -> IF Bit3(w) = 1 THEN Unknown
                ELSE Insn(IF Bit7(w) = 1 THEN "CPYH" ELSE "SETH", 0, 0, High3(w), Low3(w), 1)

Listed0809(w, dword, imm) ==
  IF Rrr(w) = 7 /\ Bit2(w) = 1 THEN ViaRiC(dword, w) ELSE ViaI4(imm, w)

\* decodeRegFamily: when7 by bits 3-2, "" for none; the immediate forms; Rs by bit 3
ListedFamily(w, when7, immHi, immLo, bit1, bit0) ==
  CASE Rrr(w) = 7 -> IF when7[B32(w) + 1] = "" THEN Unknown ELSE ViaRi(when7[B32(w) + 1], w)
    [] Rrr(w) # 7 /\ Low4(w) = 15 -> ViaI16(immHi, w)
    [] Rrr(w) # 7 /\ Low4(w) = 7 -> ViaI16(immLo, w)
    [] OTHER -> ViaRs(IF Bit3(w) = 1 THEN bit1 ELSE bit0, w)

Listed0A(w) ==
  IF Rrr(w) = 7 /\ Bit2(w) = 1 THEN ViaRiC("DAS", w)
  ELSE ListedFamily(w, <<"CBR", "", "CWR", "">>, "CWI", "CBI", "C", "CB")
Listed0B(w) ==
  IF Rrr(w) = 7 /\ Bit2(w) = 1 THEN ViaRiC("DAA", w)
  ELSE ListedFamily(w, <<"SWR", "", "AWR", "">>, "AWI", "SWI", "A", "S")
Listed0C(w) == ListedFamily(w, <<"EORR", "FD", "ORR", "FM">>, "ORI", "EORI", "OR", "EOR")
Listed0D(w) == ListedFamily(w, <<"LADR", "FS", "ANDR", "FA">>, "ANDI", "LADI", "AND", "LAD")

Listed0E(w) ==
  CASE Rrr(w) = 7 -> CASE B32(w) = 3 -> ViaRi("D", w)
                       [] B32(w) = 2 -> ViaRi("BSWR", w)
                       [] B32(w) = 0 -> ViaRi("DSWR", w)
                       [] OTHER -> Unknown
    [] OTHER -> IF Low3(w) = 7 THEN Unknown
                ELSE ViaRs(IF Bit3(w) = 1 THEN "BSWP" ELSE "DSWP", w)

Listed0F(w) ==
  CASE Rrr(w) # 7 /\ Low4(w) = 7 -> ViaI16("MVWI", w)
    [] Rrr(w) = 7 -> CASE B32(w) = 3 -> ViaRi("M", w)
                       [] B32(w) = 2 -> ViaRi("MVWR", w)
                       [] B32(w) = 0 -> ViaRi("MVBR", w)
                       [] OTHER -> Unknown
    [] OTHER -> ViaRs(IF Bit3(w) = 1 THEN "MV" ELSE "MVB", w)

Listed(w) ==
  CASE Op5(w) >= 16 -> ListedMemory(w)
    [] Op5(w) = 0 -> Unknown
    [] Op5(w) = 1 -> Listed01(w)
    [] Op5(w) = 2 -> Listed02(w)
    [] Op5(w) = 3 -> Listed03(w)
    [] Op5(w) = 4 -> Listed04(w)
    [] Op5(w) = 5 -> ViaI4("TBIT", w)
    [] Op5(w) = 6 -> ViaI4("RBIT", w)
    [] Op5(w) = 7 -> Listed07(w)
    [] Op5(w) = 8 -> Listed0809(w, "SD", "SI")
    [] Op5(w) = 9 -> Listed0809(w, "AD", "AI")
    [] Op5(w) = 10 -> Listed0A(w)
    [] Op5(w) = 11 -> Listed0B(w)
    [] Op5(w) = 12 -> Listed0C(w)
    [] Op5(w) = 13 -> Listed0D(w)
    [] Op5(w) = 14 -> Listed0E(w)
    [] Op5(w) = 15 -> Listed0F(w)

(***************************************************************************)
(* The CPU: which instruction _executeOne carries out and how many words  *)
(* it fetches                                                              *)
(***************************************************************************)
PerformedMemory(w) ==
  LET load == Op5(w) >= 24
      mode == Op5(w) % 8
  IN  CASE Rrr(w) = 7 -> Insn(IF load THEN "B" ELSE "BAL", mode, 0, 0, Lo(w), 1)
        [] Rrr(w) # 7 /\ mode = 7 -> Insn(IF load THEN "IMS" ELSE "DMS", mode, 0, 0, Lo(w), 1)
        [] OTHER -> Insn(IF load THEN "L" ELSE "ST", mode, Rrr(w), 0, Lo(w), 1)

Performed01(w) ==
  LET two == Low3(w) = 7
      names == IF two THEN <<"LB", "LS", "STB", "STS">> ELSE <<"SETB", "SETS", "CPYB", "CPYS">>
  IN  IF Rrr(w) # 7 THEN Insn("MVI", 0, Rrr(w), 0, Lo(w), 1)
      ELSE Insn(names[1 + 2 * Bit7(w) + Bit3(w)], 0, 0, High3(w),
                IF two THEN 0 ELSE Low3(w), IF two THEN 2 ELSE 1)

Performed02(w) ==
  CASE Rrr(w) # 7 -> Insn("WT", 0, Rrr(w), 0, Lo(w), 1)
    [] Rrr(w) = 7 /\ Lo(w) = 15 -> Bare("PSHM")
    [] Rrr(w) = 7 /\ Lo(w) = 7 -> Bare("POPM")
    [] OTHER -> Insn(IF Bit3(w) = 1 THEN "TSET" ELSE "TRST", 0, 0, Kkkk(w), Low3(w), 2)

Performed03(w) ==
  CASE Rrr(w) # 7 -> Insn("RD", 0, Rrr(w), 0, Lo(w), 1)
    [] Rrr(w) = 7 /\ Bit2(w) = 1 -> Insn(IF Bit3(w) = 0 THEN "FIX" ELSE "FLT", 0, 0, Kkkk(w), 0, 1)
    [] OTHER -> Insn("NEG", 0, 0, Kkkk(w), Low4(w), 1)

\* _exec04 returns from the first test that holds.
Performed04Seg(w) ==
  CASE Lo(w) \in 4 .. 7 -> Insn("BR", 0, 0, 0, Low2(w), 1)
    [] Lo(w) \in 20 .. 23 -> Insn("BALR", 0, 0, 0, Low2(w), 1)
    [] OTHER -> IF B76(w) % 2 = 1 THEN Insn("STD", 0, 0, B54(w), Low3(w), 2)
                ELSE IF Low3(w) # 7 THEN Insn("LD", 0, 0, B54(w), Low3(w), 2)
                ELSE Insn(IF B54(w) = 1 THEN "BALL" ELSE "BL", 0, 0, 0, 0, 2)

Performed04Common(w) ==
  LET with(op, k) == Insn(op, 0, Rrr(w), k, Low2(w), 1)
  IN  CASE Lo(w) = 1 -> Insn("PUSH", 0, Rrr(w), 0, 0, 1)
        [] Lo(w) = 2 -> Insn("POP", 0, Rrr(w), 0, 0, 1)
        [] B32(w) = 0 /\ B76(w) # 0 -> with("LR", Kkkk(w))
        [] B32(w) = 1 /\ B76(w) # 0 -> with("STR", Kkkk(w))
        [] B32(w) = 2 -> with("SR", Kkkk(w))
        [] B32(w) = 3 -> with("SL", Kkkk(w))
        [] Kkkk(w) = 1 /\ B32(w) = 1 /\ Rrr(w) # 7 -> with("RDR", 0)
        [] Kkkk(w) = 1 /\ B32(w) = 0 -> with("WTR", 0)
        [] OTHER -> Unknown

Performed04(w) ==
  CASE Rrr(w) = 0 /\ Lo(w) = 0 -> Bare("H")
    [] Rrr(w) = 0 /\ Lo(w) = 3 -> Bare("RET")
    [] Rrr(w) = 0 /\ Lo(w) \in 4 .. 7 -> Insn("LPSW", 0, 0, 0, Low2(w), 1)
    [] Rrr(w) = 6 /\ Lo(w) \in {7, 23} -> Insn(IF Lo(w) = 7 THEN "BD" ELSE "BALD", 0, 0, 0, 0, 2)
    [] Rrr(w) = 7 /\ (Bit3(w) = 1 \/ Lo(w) \in 4 .. 7 \/ Lo(w) \in 20 .. 23) -> Performed04Seg(w)
    [] OTHER -> Performed04Common(w)

\* Mutant: DEBP falls through to CPYH.
Performed07NoDebp(w) ==
  CASE Rrr(w) # 7 -> ViaI4("SBIT", w)
    [] Rrr(w) = 7 /\ Lo(w) = 7 -> Bare("RETL")
    [] Rrr(w) = 7 /\ Lo(w) = 23 -> Bare("BLK")
    [] Rrr(w) = 7 /\ Lo(w) \in 112 .. 119 -> Insn("SRBT", 0, 0, 0, Low3(w), 1)
    [] OTHER -> Insn(IF Bit7(w) = 1 THEN "CPYH" ELSE "SETH", 0, 0, High3(w), Low3(w), 1)

Performed07(w) ==
  CASE Rrr(w) # 7 -> ViaI4("SBIT", w)
    [] Rrr(w) = 7 /\ Lo(w) = 7 -> Bare("RETL")
    [] Rrr(w) = 7 /\ Lo(w) = 23 -> Bare("BLK")
    [] Rrr(w) = 7 /\ Lo(w) \in 112 .. 119 -> Insn("SRBT", 0, 0, 0, Low3(w), 1)
    [] Rrr(w) = 7 /\ Lo(w) \in 240 .. 247 -> Insn("DEBP", 0, 0, 0, Low3(w), 1)
    [] OTHER -> Insn(IF Bit7(w) = 1 THEN "CPYH" ELSE "SETH", 0, 0, High3(w), Low3(w), 1)

\* 08-0D with register field 7: operands (Ri); otherwise a 4-bit constant, an immediate word or Rs.
PerformedRi(w) ==
  LET odd == Bit2(w) = 1
      hi == Bit3(w) = 1
  IN  CASE Op5(w) = 8 -> IF odd THEN ViaRiC("SD", w) ELSE ViaI4("SI", w)
        [] Op5(w) = 9 -> IF odd THEN ViaRiC("AD", w) ELSE ViaI4("AI", w)
        [] Op5(w) = 10 -> IF odd THEN ViaRiC("DAS", w) ELSE ViaRi(IF hi THEN "CWR" ELSE "CBR", w)
        [] Op5(w) = 11 -> IF odd THEN ViaRiC("DAA", w) ELSE ViaRi(IF hi THEN "AWR" ELSE "SWR", w)
        [] Op5(w) = 12 -> ViaRi(IF odd THEN IF hi THEN "FM" ELSE "FD" ELSE IF hi THEN "ORR" ELSE "EORR", w)
        [] Op5(w) = 13 -> ViaRi(IF odd THEN IF hi THEN "FA" ELSE "FS" ELSE IF hi THEN "ANDR" ELSE "LADR", w)
        [] Op5(w) = 14 -> ViaRi(IF ~hi THEN "DSWR" ELSE IF odd THEN "D" ELSE "BSWR", w)
        [] Op5(w) = 15 -> IF Low4(w) = 7 THEN Insn("MVWI", 0, 7, 0, 0, 2)    \* IC <- imm, no skip
                          ELSE ViaRi(IF ~hi THEN "MVBR" ELSE IF odd THEN "M" ELSE "MVWR", w)

RsNames == [o \in 10 .. 15 |-> CASE o = 10 -> <<"CB", "C", "CBI", "CWI">> [] o = 11 -> <<"S", "A", "SWI", "AWI">>
  [] o = 12 -> <<"EOR", "OR", "EORI", "ORI">> [] o = 13 -> <<"LAD", "AND", "LADI", "ANDI">>
  [] o = 14 -> <<"DSWP", "BSWP", "DSWP", "BSWP">> [] o = 15 -> <<"MVB", "MV", "MVWI", "MV">>]
PerformedRs(w) ==
  LET immediate == Low3(w) = 7 /\ Op5(w) # 14 /\ ~(Op5(w) = 15 /\ Bit3(w) = 1)
      name == RsNames[Op5(w)][1 + Bit3(w) + (IF Low3(w) = 7 THEN 2 ELSE 0)]
  IN  IF immediate THEN ViaI16(name, w) ELSE ViaRs(name, w)

Performed(w) ==
  CASE Op5(w) >= 16 -> PerformedMemory(w)
    [] Op5(w) = 0 -> Unknown
    [] Op5(w) = 1 -> Performed01(w)
    [] Op5(w) = 2 -> Performed02(w)
    [] Op5(w) = 3 -> Performed03(w)
    [] Op5(w) = 4 -> Performed04(w)
    [] Op5(w) = 5 -> ViaI4("TBIT", w)
    [] Op5(w) = 6 -> ViaI4("RBIT", w)
    [] Op5(w) = 7 -> Performed07(w)
    [] Op5(w) \in 8 .. 9 /\ Rrr(w) # 7 -> ViaI4(IF Op5(w) = 8 THEN "SI" ELSE "AI", w)
    [] Op5(w) \in 8 .. 15 /\ Rrr(w) = 7 -> PerformedRi(w)
    [] Op5(w) \in 10 .. 15 /\ Rrr(w) # 7 -> PerformedRs(w)

(***************************************************************************)
(* _skipNext reads the next word and asks _is2Word, a third decoder        *)
(***************************************************************************)
\* Mutant: the immediate group is taken to end before AND, LAD and their relatives.
Is2WordShort(w) ==
  \/ Op5(w) = 1 /\ Rrr(w) = 7 /\ Low3(w) = 7
  \/ Op5(w) = 2 /\ Rrr(w) = 7 /\ Lo(w) \notin {15, 7}
  \/ Op5(w) = 4 /\ Rrr(w) = 7 /\ Bit3(w) = 1
  \/ Op5(w) = 4 /\ Rrr(w) = 6 /\ Lo(w) \in {7, 23}
  \/ Op5(w) \in {8, 9} /\ Rrr(w) = 7 /\ Bit2(w) = 1
  \/ Op5(w) \in 10 .. 12 /\ Rrr(w) # 7 /\ Low3(w) = 7
  \/ Op5(w) = 15 /\ Low4(w) = 7

Is2Word(w) ==
  \/ Op5(w) = 1 /\ Rrr(w) = 7 /\ Low3(w) = 7
  \/ Op5(w) = 2 /\ Rrr(w) = 7 /\ Lo(w) \notin {15, 7}
  \/ Op5(w) = 4 /\ Rrr(w) = 7 /\ Bit3(w) = 1
  \/ Op5(w) = 4 /\ Rrr(w) = 6 /\ Lo(w) \in {7, 23}
  \/ Op5(w) \in {8, 9} /\ Rrr(w) = 7 /\ Bit2(w) = 1
  \/ Op5(w) \in 10 .. 13 /\ Rrr(w) # 7 /\ Low3(w) = 7
  \/ Op5(w) = 15 /\ Low4(w) = 7
Skipped(w) == IF Is2Word(w) THEN 2 ELSE 1

(***************************************************************************)
(* A source line is assembled; its words are listed by the debugger and   *)
(* met by the CPU, in either order.                                        *)
(***************************************************************************)
Init ==
  /\ \/ insn \in Sources /\ words = << >>
     \/ insn = NoInsn /\ words \in {<<w>> : w \in RawWords}
  /\ listed = << >>
  /\ performed = << >>

Assemble ==
  /\ words = << >>
  /\ words' = Emitted(insn)
  /\ UNCHANGED <<insn, listed, performed>>

List ==
  /\ words # << >> /\ listed = << >>
  /\ listed' = [j \in DOMAIN words |-> Listed(words[j])]
  /\ UNCHANGED <<insn, words, performed>>

Perform ==
  /\ words # << >> /\ performed = << >>
  /\ performed' = [j \in DOMAIN words |-> Performed(words[j])]
  /\ UNCHANGED <<insn, words, listed>>

Next == Assemble \/ List \/ Perform
Spec == Init /\ [][Next]_vars

\* The instruction a program `shown` makes of the words of a source line: the chunks of AI and SI add up.
TotalX(shown) == LET total[j \in 0 .. Len(shown)] == IF j = 0 THEN 0 ELSE total[j - 1] + shown[j].x
                 IN  total[Len(shown)]
IsSource(shown) ==
  /\ \A j \in DOMAIN shown :
       /\ shown[j].op = insn.op /\ shown[j].words = Forms[insn.op].words
       /\ shown[j].m = insn.m /\ shown[j].r = insn.r /\ shown[j].k = insn.k
  /\ TotalX(shown) = insn.x

\* The disassembler gives back the line that was assembled: mnemonic, registers, mode, skip
\* condition and size (decode.ts against mn1613_encoder.ts).
ListingRoundTrip == insn # NoInsn /\ listed # << >> => IsSource(listed)

\* The CPU carries out the line that was assembled, with its operands (mn1613.ts against the encoder).
ExecutesAsAssembled == insn # NoInsn /\ performed # << >> => IsSource(performed)

\* Where the listing shows an instruction the CPU takes as many words, so the listing of a program
\* that runs straight on never falls out of step with it (decode.ts against mn1613.ts, for any word).
ListingInStep ==
  listed # << >> /\ performed # << >> =>
    \A j \in DOMAIN words : listed[j].op # ".word" => listed[j].words = performed[j].words

\* A skip never lands on the second word of an instruction, which would be executed as if it were one
\* (_skipNext and _is2Word against what _executeOne fetches, for any word).
SkipNeverSplits ==
  performed # << >> => \A j \in DOMAIN words : Skipped(words[j]) >= performed[j].words

==========================================================================
