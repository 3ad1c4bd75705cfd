------------------------- MODULE MCInstructionSets -------------------------
(* Every instruction both assemblers accept and every word of the MN1613. *)
EXTENDS InstructionSets

\* The tables and the operands; the sources are what is chosen below.
MnCodec == INSTANCE Mn1613Port WITH Sources <- {}, RawWords <- {}
TmsCodec == INSTANCE Tms9995Codec WITH
              Sources <- {}, OnOriginal <- {}, OnPort <- {}, insn <- tmsInsn

AllWords == 0 .. 65535

\* AI and SI up to three chunks; the rest with every operand.
BigImmediates == [op : {"AI", "SI"}, m : {0}, r : MnCodec!G, k : {0}, x : 16 .. 45]
Everything == MnCodec!Instructions(DOMAIN MnCodec!Forms) \cup BigImmediates

\* Words two mnemonics share: NEG of R4, SP and STR reads as FIX or FLT, RDR STR,(R4) as BALD.
Shared(i) == \/ i.op = "NEG" /\ i.x % 8 > 3
             \/ i.op = "RDR" /\ i.r = 6 /\ i.x = 3
\* What the CPU takes by the mode instead of the register field.
ModeSeven(i) == i.op \in {"L", "ST"} /\ i.m = 7
IncDec(i) == i.op \in {"IMS", "DMS"} /\ i.m # 7
Unambiguous == {i \in Everything : ~Shared(i) /\ ~ModeSeven(i) /\ ~IncDec(i)}

\* The TMS9995 with the registers and bytes at the edges of their fields.
EdgeSources ==
  {i \in TmsCodec!Instructions :
     /\ i.r \in {0, 1, 3, 8, 15}
     /\ i.q \in (IF i.op \in DOMAIN TmsCodec!FMT1 THEN {0, 3, 4, 11, 15} ELSE 0 .. 16)
     /\ i.x \in {0, 1, 127, 128, 255}}
RightOnBoth ==
  DOMAIN TmsCodec!FMT8_REG_IMM \cup DOMAIN TmsCodec!WorkspaceImm \cup {"IDLE", "RSET", "RTWP", "JMP", "SLA"}
    \cup DOMAIN TmsCodec!FMT2_CRU \cup (DOMAIN TmsCodec!FMT6 \ {"DIVS", "MPYS"})
ShortOrWord == {i \in EdgeSources : i.op \in DOMAIN TmsCodec!FMT4 /\ i.q \in 1 .. 8 \cup {16}}
ByR0 == {i \in EdgeSources : i.op \in {"MPY", "DIV"} /\ i.q = 0}
Right == {i \in EdgeSources : i.op \in RightOnBoth} \cup ShortOrWord \cup ByR0
RightOnOriginal ==
  Right \cup {i \in EdgeSources : i.op \in DOMAIN TmsCodec!FMT1 /\ i.d = 0 /\ i.q < 4}
        \cup {i \in EdgeSources : i.op = "COC" /\ i.q = 8}
\* Not where both operands of format 1 have a word of address: the CPU takes them in the other order.
RightOnPort ==
  Right \cup {i \in EdgeSources : i.op \in DOMAIN TmsCodec!FMT1 /\ ~(i.m = 2 /\ i.d = 2)}
    \cup {i \in EdgeSources : i.op \in DOMAIN TmsCodec!FMT2_JUMP \cup DOMAIN TmsCodec!FMT5 \cup {"COC", "XOR"}}
==========================================================================
