-------------------------- MODULE Mn1613Cpu_proofs --------------------------
(***************************************************************************)
(* Proofs about Mn1613Cpu, for every program, every result of the floating *)
(* point unit and any number of interrupts and resets.                     *)
(***************************************************************************)
EXTENDS Mn1613Cpu, WellFoundedInduction, TLAPS

-----------------------------------------------------------------------------
(* Words *)

LEMMA WordRange == \A x : x \in Words <=> x \in Int /\ 0 <= x /\ x < 65536
<1>1. \A x : x \in Words <=> x \in Int /\ 0 <= x /\ x <= MaxWord BY DEF Words
<1>2. MaxWord = 65535 BY DEF MaxWord
<1> QED BY <1>1, <1>2

\* What is kept of a number is a word.
LEMMA WordIsWord == \A x \in Int : Word(x) \in Words /\ Word(x) \in Int
BY WordRange DEF Word

\* Setting a flag changes no other.
LEMMA FlagBits ==
  ASSUME NEW w \in Words, NEW on \in BOOLEAN
  PROVE  /\ WithBit(w, E, on) \in Words /\ WithBit(w, OVF, on) \in Words
         /\ HasBit(WithBit(w, E, on), E) = on
         /\ HasBit(WithBit(w, OVF, on), OVF) = on
         /\ HasBit(WithBit(w, OVF, on), E) = HasBit(w, E)
         /\ HasBit(WithBit(w, E, on), OVF) = HasBit(w, OVF)
BY WordRange DEF WithBit, HasBit, E, OVF

LEMMA BitIsPower ==
  \A n \in 0 .. 15 : Bit(n) \in {1, 2, 4, 8, 16, 32, 64, 128, 256, 512, 1024, 2048, 4096, 8192, 16384, 32768}
BY DEF Bit

LEMMA WithBitWord ==
  ASSUME NEW w \in Words, NEW n \in 0 .. 15, NEW on \in BOOLEAN
  PROVE  WithBit(w, Bit(n), on) \in Words
<1>1. CASE Bit(n) \in {1, 2, 4} BY <1>1, WordRange DEF WithBit, HasBit
<1>2. CASE Bit(n) \in {8, 16, 32} BY <1>2, WordRange DEF WithBit, HasBit
<1>3. CASE Bit(n) \in {64, 128, 256} BY <1>3, WordRange DEF WithBit, HasBit
<1>4. CASE Bit(n) \in {512, 1024, 2048} BY <1>4, WordRange DEF WithBit, HasBit
<1>5. CASE Bit(n) \in {4096, 8192} BY <1>5, WordRange DEF WithBit, HasBit
<1>6. CASE Bit(n) \in {16384, 32768} BY <1>6, WordRange DEF WithBit, HasBit
<1> QED BY <1>1, <1>2, <1>3, <1>4, <1>5, <1>6, BitIsPower

LEMMA OfBitsWord == \A S : OfBits(S) \in Words
BY WordRange DEF OfBits, Bit

LEMMA LogicWord ==
  \A a, b : And(a, b) \in Words /\ Or(a, b) \in Words /\ Eor(a, b) \in Words
BY OfBitsWord DEF And, Or, Eor

\* A word is the sum of its bits.
LEMMA BitsMakeWord == ASSUME NEW w \in Words PROVE OfBits(Ones(w)) = w
<1>1. w \in Int /\ 0 <= w /\ w < 65536 BY WordRange
<1>2. (IF 0 \in Ones(w) THEN Bit(0) ELSE 0) = 32768 * (w \div 32768) - 65536 * (w \div 65536)
  BY <1>1 DEF Ones, HasBit, Bit
<1>3. (IF 1 \in Ones(w) THEN Bit(1) ELSE 0) = 16384 * (w \div 16384) - 32768 * (w \div 32768)
  BY <1>1 DEF Ones, HasBit, Bit
<1>4. (IF 2 \in Ones(w) THEN Bit(2) ELSE 0) = 8192 * (w \div 8192) - 16384 * (w \div 16384)
  BY <1>1 DEF Ones, HasBit, Bit
<1>5. (IF 3 \in Ones(w) THEN Bit(3) ELSE 0) = 4096 * (w \div 4096) - 8192 * (w \div 8192)
  BY <1>1 DEF Ones, HasBit, Bit
<1>6. (IF 4 \in Ones(w) THEN Bit(4) ELSE 0) = 2048 * (w \div 2048) - 4096 * (w \div 4096)
  BY <1>1 DEF Ones, HasBit, Bit
<1>7. (IF 5 \in Ones(w) THEN Bit(5) ELSE 0) = 1024 * (w \div 1024) - 2048 * (w \div 2048)
  BY <1>1 DEF Ones, HasBit, Bit
<1>8. (IF 6 \in Ones(w) THEN Bit(6) ELSE 0) = 512 * (w \div 512) - 1024 * (w \div 1024)
  BY <1>1 DEF Ones, HasBit, Bit
<1>9. (IF 7 \in Ones(w) THEN Bit(7) ELSE 0) = 256 * (w \div 256) - 512 * (w \div 512)
  BY <1>1 DEF Ones, HasBit, Bit
<1>10. (IF 8 \in Ones(w) THEN Bit(8) ELSE 0) = 128 * (w \div 128) - 256 * (w \div 256)
  BY <1>1 DEF Ones, HasBit, Bit
<1>11. (IF 9 \in Ones(w) THEN Bit(9) ELSE 0) = 64 * (w \div 64) - 128 * (w \div 128)
  BY <1>1 DEF Ones, HasBit, Bit
<1>12. (IF 10 \in Ones(w) THEN Bit(10) ELSE 0) = 32 * (w \div 32) - 64 * (w \div 64)
  BY <1>1 DEF Ones, HasBit, Bit
<1>13. (IF 11 \in Ones(w) THEN Bit(11) ELSE 0) = 16 * (w \div 16) - 32 * (w \div 32)
  BY <1>1 DEF Ones, HasBit, Bit
<1>14. (IF 12 \in Ones(w) THEN Bit(12) ELSE 0) = 8 * (w \div 8) - 16 * (w \div 16)
  BY <1>1 DEF Ones, HasBit, Bit
<1>15. (IF 13 \in Ones(w) THEN Bit(13) ELSE 0) = 4 * (w \div 4) - 8 * (w \div 8)
  BY <1>1 DEF Ones, HasBit, Bit
<1>16. (IF 14 \in Ones(w) THEN Bit(14) ELSE 0) = 2 * (w \div 2) - 4 * (w \div 4)
  BY <1>1 DEF Ones, HasBit, Bit
<1>17. (IF 15 \in Ones(w) THEN Bit(15) ELSE 0) = 1 * (w \div 1) - 2 * (w \div 2)
  BY <1>1 DEF Ones, HasBit, Bit
<1>18. w \div 65536 = 0 /\ w \div 1 = w BY <1>1
<1> QED BY <1>1, <1>2, <1>3, <1>4, <1>5, <1>6, <1>7, <1>8, <1>9, <1>10, <1>11, <1>12, <1>13, <1>14, <1>15, <1>16, <1>17, <1>18 DEF OfBits

LEMMA FewerBits == ASSUME NEW S, NEW T, S \subseteq T PROVE OfBits(S) <= OfBits(T)
<1> DEFINE b(U, n) == IF n \in U THEN Bit(n) ELSE 0
           q1(U) == b(U, 0) + b(U, 1) + b(U, 2) + b(U, 3)
           q2(U) == q1(U) + b(U, 4) + b(U, 5) + b(U, 6) + b(U, 7)
           q3(U) == q2(U) + b(U, 8) + b(U, 9) + b(U, 10) + b(U, 11)
           q4(U) == q3(U) + b(U, 12) + b(U, 13) + b(U, 14) + b(U, 15)
<1>1. q1(S) \in Int /\ q1(T) \in Int /\ q1(S) <= q1(T) BY DEF Bit
<1>2. q2(S) \in Int /\ q2(T) \in Int /\ q2(S) <= q2(T)
  <2> HIDE DEF q1
  <2> QED BY <1>1 DEF Bit
<1>3. q3(S) \in Int /\ q3(T) \in Int /\ q3(S) <= q3(T)
  <2> HIDE DEF q2
  <2> QED BY <1>2 DEF Bit
<1>4. q4(S) <= q4(T)
  <2> HIDE DEF q3
  <2> QED BY <1>3 DEF Bit
<1> QED BY <1>4 DEF OfBits
LEMMA AndAtMost == ASSUME NEW a \in Words, NEW b PROVE And(a, b) <= a
<1>1. Ones(a) \cap Ones(b) \subseteq Ones(a) OBVIOUS
<1>2. OfBits(Ones(a) \cap Ones(b)) <= OfBits(Ones(a)) BY <1>1, FewerBits
<1> QED BY <1>2, BitsMakeWord DEF And
LEMMA SomeBit == ASSUME NEW w \in Words, w # 0 PROVE Ones(w) # {}
<1>1. OfBits({}) = 0 BY DEF OfBits
<1> QED BY <1>1, BitsMakeWord
\* The leftmost bit that is set.
LEMMA LeftmostBit ==
  ASSUME NEW S, S \subseteq 0 .. 15, S # {}
  PROVE  (CHOOSE n \in S : \A o \in S : n <= o) \in S
<1>1. \E n \in S : \A o \in S : n <= o
  <2>1. CASE S \cap 0 .. 3 # {} BY <2>1
  <2>2. CASE S \cap 0 .. 3 = {} /\ S \cap 4 .. 7 # {} BY <2>2
  <2>3. CASE S \cap 0 .. 7 = {} /\ S \cap 8 .. 11 # {} BY <2>3
  <2>4. CASE S \cap 0 .. 11 = {} /\ S \cap 12 .. 15 # {} BY <2>4
  <2>5. \/ S \cap 0 .. 3 # {} \/ S \cap 4 .. 7 # {} \/ S \cap 8 .. 11 # {} \/ S \cap 12 .. 15 # {}
    <3>1. PICK x \in S : x \in 0 .. 15 OBVIOUS
    <3> QED BY <3>1
  <2>6. S \cap 0 .. 7 # {} => S \cap 0 .. 3 # {} \/ S \cap 4 .. 7 # {} OBVIOUS
  <2>7. S \cap 0 .. 11 # {} => S \cap 0 .. 7 # {} \/ S \cap 8 .. 11 # {} OBVIOUS
  <2> QED BY <2>1, <2>2, <2>3, <2>4, <2>5, <2>6, <2>7
<1> QED BY <1>1

-----------------------------------------------------------------------------
(* Instructions *)

\* The low field of these is a register R1-R4 or a flag code, of those a register, of the others four bits.
Low2Ops == ByMemory \cup {"M", "D", "FA", "FS", "FM", "FD", "LPSW", "BR", "BALR", "LR", "STR", "SR", "SL", "RDR", "WTR"}
Low3Ops == {"A", "S", "C", "CB", "OR", "EOR", "AND", "LAD", "MV", "MVB", "BSWP", "DSWP", "CPYB", "CPYS", "CPYH",
            "SETB", "SETS", "SETH", "TSET", "TRST", "SRBT", "DEBP", "LD", "STD"}
Low4Ops == {"TBIT", "RBIT", "SBIT", "AI", "SI", "NEG", "AD", "SD", "DAA", "DAS"}
High3Ops == {"LB", "LS", "STB", "STS", "CPYB", "CPYS", "CPYH", "SETB", "SETS", "SETH"}
OtherOps == ByWord \cup {"L", "ST", "B", "BAL", "IMS", "DMS", "MVI", "LB", "LS", "STB", "STS", "PUSH", "POP", "PSHM", "POPM",
             "RET", "BD", "BALD", "BL", "BALL", "RETL", "FLT", "FIX", "BLK", "RD", "WT", "H"}
Ops == Low2Ops \cup Low3Ops \cup Low4Ops \cup OtherOps

IsInsn(i) ==
  /\ i.op \in Ops \cup {".word"}
  /\ i.m \in 0 .. 7 /\ i.r \in 0 .. 7 /\ i.k \in 0 .. 15 /\ i.x \in 0 .. 255 /\ i.words \in 1 .. 2
  /\ i.op \in Low2Ops => i.x \in 0 .. 3
  /\ i.op \in Low3Ops => i.x \in 0 .. 7
  /\ i.op \in Low4Ops => i.x \in 0 .. 15
  /\ i.op \in High3Ops => i.k \in 0 .. 7
  /\ i.op \in {"LD", "STD"} => i.k \in 0 .. 3

LEMMA Fields ==
  ASSUME NEW w \in Words
  PROVE  /\ ISA!Op5(w) \in 0 .. 31 /\ ISA!Rrr(w) \in 0 .. 7 /\ ISA!Lo(w) \in 0 .. 255
         /\ ISA!Kkkk(w) \in 0 .. 15 /\ ISA!Low4(w) \in 0 .. 15 /\ ISA!Low3(w) \in 0 .. 7 /\ ISA!Low2(w) \in 0 .. 3
         /\ ISA!B76(w) \in 0 .. 3 /\ ISA!B54(w) \in 0 .. 3 /\ ISA!B32(w) \in 0 .. 3
         /\ ISA!Bit3(w) \in 0 .. 1 /\ ISA!Bit2(w) \in 0 .. 1 /\ ISA!Bit7(w) \in 0 .. 1 /\ ISA!High3(w) \in 0 .. 7
<1>1. w \in Int /\ 0 <= w /\ w < 65536 BY WordRange
<1>2. ISA!Op5(w) \in 0 .. 31 /\ ISA!Rrr(w) \in 0 .. 7 /\ ISA!Lo(w) \in 0 .. 255
  BY <1>1 DEF ISA!Op5, ISA!Rrr, ISA!Lo
<1>3. ISA!Kkkk(w) \in 0 .. 15 /\ ISA!Low4(w) \in 0 .. 15 /\ ISA!Low3(w) \in 0 .. 7 /\ ISA!Low2(w) \in 0 .. 3
  BY <1>1 DEF ISA!Kkkk, ISA!Low4, ISA!Low3, ISA!Low2
<1>4. ISA!B76(w) \in 0 .. 3 /\ ISA!B54(w) \in 0 .. 3 /\ ISA!B32(w) \in 0 .. 3
  BY <1>1 DEF ISA!B76, ISA!B54, ISA!B32
<1>5. ISA!Bit3(w) \in 0 .. 1 /\ ISA!Bit2(w) \in 0 .. 1 /\ ISA!Bit7(w) \in 0 .. 1 /\ ISA!High3(w) \in 0 .. 7
  BY <1>1 DEF ISA!Bit3, ISA!Bit2, ISA!Bit7, ISA!High3
<1> QED BY <1>2, <1>3, <1>4, <1>5

LEMMA KindsApart ==
  /\ \A op \in Low2Ops : op \notin Low3Ops /\ op \notin Low4Ops /\ op \notin High3Ops /\ op \notin {"LD", "STD"}
  /\ \A op \in Low3Ops : op \notin Low2Ops /\ op \notin Low4Ops
  /\ \A op \in Low4Ops : op \notin Low2Ops /\ op \notin Low3Ops /\ op \notin High3Ops /\ op \notin {"LD", "STD"}
  /\ \A op \in OtherOps : op \notin Low2Ops /\ op \notin Low3Ops /\ op \notin Low4Ops /\ op \notin {"LD", "STD"}
BY DEF Low2Ops, Low3Ops, Low4Ops, High3Ops, OtherOps, ByMemory, ByWord

LEMMA UnknownInsn == IsInsn(ISA!Unknown)
BY DEF IsInsn, ISA!Unknown, ISA!Insn, Low2Ops, Low3Ops, Low4Ops, High3Ops, ByMemory

LEMMA DecodedMemory == \A w \in Words : IsInsn(ISA!PerformedMemory(w))
<1> SUFFICES ASSUME NEW w \in Words PROVE IsInsn(ISA!PerformedMemory(w)) OBVIOUS
<1>1. {"L", "ST", "B", "BAL", "IMS", "DMS"} \subseteq OtherOps BY DEF OtherOps
<1>2. \A op \in {"L", "ST", "B", "BAL", "IMS", "DMS"} : op \notin High3Ops BY DEF High3Ops
<1>3. \A op \in {"L", "ST", "B", "BAL", "IMS", "DMS"} : \A r \in {0, ISA!Rrr(w)} :
        IsInsn(ISA!Insn(op, ISA!Op5(w) % 8, r, 0, ISA!Lo(w), 1))
  BY <1>1, <1>2, Fields, KindsApart DEF IsInsn, ISA!Insn, Ops
<1> QED BY <1>3, Fields DEF ISA!PerformedMemory

LEMMA Decoded01 == \A w \in Words : IsInsn(ISA!Performed01(w))
<1> SUFFICES ASSUME NEW w \in Words PROVE IsInsn(ISA!Performed01(w)) OBVIOUS
<1>1. "MVI" \in OtherOps /\ "MVI" \notin High3Ops BY DEF OtherOps, High3Ops
<1>2. {"LB", "LS", "STB", "STS"} \subseteq OtherOps BY DEF OtherOps
<1>3. {"SETB", "SETS", "CPYB", "CPYS"} \subseteq Low3Ops BY DEF Low3Ops
<1>4. CASE ISA!Rrr(w) # 7
  <2>1. IsInsn(ISA!Insn("MVI", 0, ISA!Rrr(w), 0, ISA!Lo(w), 1))
    BY <1>1, Fields, KindsApart DEF IsInsn, ISA!Insn, Ops
  <2> QED BY <1>4, <2>1 DEF ISA!Performed01
<1>5. CASE ISA!Rrr(w) = 7 /\ ISA!Low3(w) = 7
  <2>1. \A op \in {"LB", "LS", "STB", "STS"} : IsInsn(ISA!Insn(op, 0, 0, ISA!High3(w), 0, 2))
    BY <1>2, Fields, KindsApart DEF IsInsn, ISA!Insn, Ops
  <2> QED BY <1>5, <2>1, Fields DEF ISA!Performed01
<1>6. CASE ISA!Rrr(w) = 7 /\ ISA!Low3(w) # 7
  <2>1. \A op \in {"SETB", "SETS", "CPYB", "CPYS"} : IsInsn(ISA!Insn(op, 0, 0, ISA!High3(w), ISA!Low3(w), 1))
    BY <1>3, Fields, KindsApart DEF IsInsn, ISA!Insn, Ops
  <2> QED BY <1>6, <2>1, Fields DEF ISA!Performed01
<1> QED BY <1>4, <1>5, <1>6

LEMMA Decoded02 == \A w \in Words : IsInsn(ISA!Performed02(w))
<1> SUFFICES ASSUME NEW w \in Words PROVE IsInsn(ISA!Performed02(w)) OBVIOUS
<1>1. {"WT", "PSHM", "POPM"} \subseteq OtherOps /\ \A op \in {"WT", "PSHM", "POPM"} : op \notin High3Ops
  BY DEF OtherOps, High3Ops
<1>2. {"TSET", "TRST"} \subseteq Low3Ops /\ \A op \in {"TSET", "TRST"} : op \notin High3Ops /\ op \notin {"LD", "STD"}
  BY DEF Low3Ops, High3Ops
<1>3. IsInsn(ISA!Insn("WT", 0, ISA!Rrr(w), 0, ISA!Lo(w), 1))
  BY <1>1, Fields, KindsApart DEF IsInsn, ISA!Insn, Ops
<1>4. \A op \in {"PSHM", "POPM"} : IsInsn(ISA!Bare(op))
  BY <1>1, KindsApart DEF IsInsn, ISA!Insn, ISA!Bare, Ops
<1>5. \A op \in {"TSET", "TRST"} : IsInsn(ISA!Insn(op, 0, 0, ISA!Kkkk(w), ISA!Low3(w), 2))
  BY <1>2, Fields, KindsApart DEF IsInsn, ISA!Insn, Ops
<1> QED BY <1>3, <1>4, <1>5 DEF ISA!Performed02

LEMMA Decoded03 == \A w \in Words : IsInsn(ISA!Performed03(w))
<1> SUFFICES ASSUME NEW w \in Words PROVE IsInsn(ISA!Performed03(w)) OBVIOUS
<1>1. {"RD", "FIX", "FLT"} \subseteq OtherOps /\ \A op \in {"RD", "FIX", "FLT"} : op \notin High3Ops
  BY DEF OtherOps, High3Ops
<1>2. "NEG" \in Low4Ops BY DEF Low4Ops
<1>3. IsInsn(ISA!Insn("RD", 0, ISA!Rrr(w), 0, ISA!Lo(w), 1))
  BY <1>1, Fields, KindsApart DEF IsInsn, ISA!Insn, Ops
<1>4. \A op \in {"FIX", "FLT"} : IsInsn(ISA!Insn(op, 0, 0, ISA!Kkkk(w), 0, 1))
  BY <1>1, Fields, KindsApart DEF IsInsn, ISA!Insn, Ops
<1>5. IsInsn(ISA!Insn("NEG", 0, 0, ISA!Kkkk(w), ISA!Low4(w), 1))
  BY <1>2, Fields, KindsApart DEF IsInsn, ISA!Insn, Ops
<1> QED BY <1>3, <1>4, <1>5 DEF ISA!Performed03

LEMMA Decoded04 == \A w \in Words : IsInsn(ISA!Performed04(w))
<1> SUFFICES ASSUME NEW w \in Words PROVE IsInsn(ISA!Performed04(w)) OBVIOUS
<1> DEFINE alone == {"H", "RET", "BD", "BALD", "BALL", "BL", "PUSH", "POP"}
           two == {"LPSW", "BR", "BALR", "LR", "STR", "SR", "SL", "RDR", "WTR"}
<1>1. alone \subseteq OtherOps /\ \A op \in alone : op \notin High3Ops BY DEF OtherOps, High3Ops
<1>2. two \subseteq Low2Ops BY DEF Low2Ops
<1>3. {"LD", "STD"} \subseteq Low3Ops /\ \A op \in {"LD", "STD"} : op \notin High3Ops BY DEF Low3Ops, High3Ops
<1>4. \A op \in alone : \A r \in {0, ISA!Rrr(w)} : \A n \in 1 .. 2 : IsInsn(ISA!Insn(op, 0, r, 0, 0, n))
  BY <1>1, Fields, KindsApart DEF IsInsn, ISA!Insn, Ops
<1>5. \A op \in two : \A r \in {0, ISA!Rrr(w)} : \A k \in {0, ISA!Kkkk(w)} : IsInsn(ISA!Insn(op, 0, r, k, ISA!Low2(w), 1))
  BY <1>2, Fields, KindsApart DEF IsInsn, ISA!Insn, Ops
<1>6. \A op \in {"LD", "STD"} : IsInsn(ISA!Insn(op, 0, 0, ISA!B54(w), ISA!Low3(w), 2))
  BY <1>3, Fields, KindsApart DEF IsInsn, ISA!Insn, Ops
<1>7. IsInsn(ISA!Performed04Seg(w))
  BY <1>4, <1>5, <1>6 DEF ISA!Performed04Seg
<1>8. IsInsn(ISA!Performed04Common(w))
  BY <1>4, <1>5, UnknownInsn DEF ISA!Performed04Common
<1>9. IsInsn(ISA!Bare("H")) /\ IsInsn(ISA!Bare("RET")) BY <1>4 DEF ISA!Bare
<1> QED BY <1>4, <1>5, <1>7, <1>8, <1>9 DEF ISA!Performed04

LEMMA Decoded07 == \A w \in Words : IsInsn(ISA!Performed07(w))
<1> SUFFICES ASSUME NEW w \in Words PROVE IsInsn(ISA!Performed07(w)) OBVIOUS
<1>1. {"RETL", "BLK"} \subseteq OtherOps /\ \A op \in {"RETL", "BLK"} : op \notin High3Ops BY DEF OtherOps, High3Ops
<1>2. {"SRBT", "DEBP"} \subseteq Low3Ops /\ \A op \in {"SRBT", "DEBP"} : op \notin High3Ops /\ op \notin {"LD", "STD"}
  BY DEF Low3Ops, High3Ops
<1>3. {"CPYH", "SETH"} \subseteq Low3Ops /\ \A op \in {"CPYH", "SETH"} : op \notin {"LD", "STD"} BY DEF Low3Ops
<1>4. "SBIT" \in Low4Ops BY DEF Low4Ops
<1>5. IsInsn(ISA!ViaI4("SBIT", w)) BY <1>4, Fields, KindsApart DEF IsInsn, ISA!Insn, ISA!ViaI4, Ops
<1>6. \A op \in {"RETL", "BLK"} : IsInsn(ISA!Bare(op)) BY <1>1, KindsApart DEF IsInsn, ISA!Insn, ISA!Bare, Ops
<1>7. \A op \in {"SRBT", "DEBP"} : IsInsn(ISA!Insn(op, 0, 0, 0, ISA!Low3(w), 1))
  BY <1>2, Fields, KindsApart DEF IsInsn, ISA!Insn, Ops
<1>8. \A op \in {"CPYH", "SETH"} : IsInsn(ISA!Insn(op, 0, 0, ISA!High3(w), ISA!Low3(w), 1))
  BY <1>3, Fields, KindsApart DEF IsInsn, ISA!Insn, Ops
<1> QED BY <1>5, <1>6, <1>7, <1>8 DEF ISA!Performed07

LEMMA DecodedRi == \A w \in Words : ISA!Op5(w) \in 8 .. 15 => IsInsn(ISA!PerformedRi(w))
<1> SUFFICES ASSUME NEW w \in Words, ISA!Op5(w) \in 8 .. 15 PROVE IsInsn(ISA!PerformedRi(w)) OBVIOUS
<1> DEFINE four == {"SD", "SI", "AD", "AI", "DAS", "DAA"}
           two == {"CWR", "CBR", "AWR", "SWR", "FM", "FD", "ORR", "EORR", "FA", "FS", "ANDR", "LADR",
                   "DSWR", "D", "BSWR", "MVBR", "M", "MVWR"}
<1>1. four \subseteq Low4Ops BY DEF Low4Ops
<1>2. two \subseteq Low2Ops BY DEF Low2Ops, ByMemory
<1>3. "MVWI" \in OtherOps /\ "MVWI" \notin High3Ops BY DEF OtherOps, ByWord, High3Ops
<1>4. \A op \in four : IsInsn(ISA!ViaRiC(op, w)) /\ IsInsn(ISA!ViaI4(op, w))
  BY <1>1, Fields, KindsApart DEF IsInsn, ISA!Insn, ISA!ViaRiC, ISA!ViaI4, Ops
<1>5. \A op \in two : IsInsn(ISA!ViaRi(op, w))
  BY <1>2, Fields, KindsApart DEF IsInsn, ISA!Insn, ISA!ViaRi, Ops
<1>6. IsInsn(ISA!Insn("MVWI", 0, 7, 0, 0, 2))
  BY <1>3, KindsApart DEF IsInsn, ISA!Insn, Ops
<1>7. CASE ISA!Op5(w) \in 8 .. 11 BY <1>4, <1>5, <1>7 DEF ISA!PerformedRi
<1>8. CASE ISA!Op5(w) \in 12 .. 15 BY <1>5, <1>6, <1>8 DEF ISA!PerformedRi
<1> QED BY <1>7, <1>8

LEMMA DecodedRs == \A w \in Words : ISA!Op5(w) \in 10 .. 15 => IsInsn(ISA!PerformedRs(w))
<1> SUFFICES ASSUME NEW w \in Words, ISA!Op5(w) \in 10 .. 15 PROVE IsInsn(ISA!PerformedRs(w)) OBVIOUS
<1> DEFINE immediate == ISA!Low3(w) = 7 /\ ISA!Op5(w) # 14 /\ ~(ISA!Op5(w) = 15 /\ ISA!Bit3(w) = 1)
           name == ISA!RsNames[ISA!Op5(w)][1 + ISA!Bit3(w) + (IF ISA!Low3(w) = 7 THEN 2 ELSE 0)]
           direct == {"A", "S", "C", "CB", "OR", "EOR", "AND", "LAD", "MV", "MVB", "BSWP", "DSWP"}
<1>1. direct \subseteq Low3Ops /\ \A op \in direct : op \notin High3Ops /\ op \notin {"LD", "STD"} BY DEF Low3Ops, High3Ops
<1>2. ByWord \subseteq OtherOps /\ \A op \in ByWord : op \notin High3Ops BY DEF OtherOps, ByWord, High3Ops
<1>3. \A op \in direct : IsInsn(ISA!ViaRs(op, w))
  BY <1>1, Fields, KindsApart DEF IsInsn, ISA!Insn, ISA!ViaRs, Ops
<1>4. \A op \in ByWord : IsInsn(ISA!ViaI16(op, w))
  BY <1>2, Fields, KindsApart DEF IsInsn, ISA!Insn, ISA!ViaI16, Ops

<1>5. ISA!RsNames[10] = <<"CB", "C", "CBI", "CWI">> /\ ISA!RsNames[11] = <<"S", "A", "SWI", "AWI">>
      /\ ISA!RsNames[12] = <<"EOR", "OR", "EORI", "ORI">> /\ ISA!RsNames[13] = <<"LAD", "AND", "LADI", "ANDI">>
      /\ ISA!RsNames[14] = <<"DSWP", "BSWP", "DSWP", "BSWP">> /\ ISA!RsNames[15] = <<"MVB", "MV", "MVWI", "MV">>
  BY DEF ISA!RsNames
<1>6. ISA!Bit3(w) \in {0, 1} /\ ISA!Op5(w) \in {10, 11, 12, 13, 14, 15} BY Fields
<1>7. CASE immediate
  <2>1. name \in ByWord
    <3>1. ISA!Low3(w) = 7 BY <1>7
    <3>2. name \in {"CBI", "CWI", "SWI", "AWI", "EORI", "ORI", "LADI", "ANDI", "MVWI"}
      BY <1>5, <1>6, <1>7, <3>1
    <3> QED BY <3>2 DEF ByWord
  <2> QED BY <1>4, <1>7, <2>1 DEF ISA!PerformedRs
<1>8. CASE ~immediate
  <2>1. name \in direct BY <1>5, <1>6, <1>8
  <2> QED BY <1>3, <1>8, <2>1 DEF ISA!PerformedRs
<1> QED BY <1>7, <1>8

LEMMA Decoded == \A w \in Words : IsInsn(ISA!Performed(w))
<1> SUFFICES ASSUME NEW w \in Words PROVE IsInsn(ISA!Performed(w)) OBVIOUS
<1>1. {"TBIT", "RBIT", "SI", "AI"} \subseteq Low4Ops BY DEF Low4Ops
<1>2. \A op \in {"TBIT", "RBIT", "SI", "AI"} : IsInsn(ISA!ViaI4(op, w))
  BY <1>1, Fields, KindsApart DEF IsInsn, ISA!Insn, ISA!ViaI4, Ops
<1>3. CASE ISA!Op5(w) >= 16 BY <1>3, DecodedMemory DEF ISA!Performed
<1>4. CASE ISA!Op5(w) \in 0 .. 3 BY <1>4, UnknownInsn, Decoded01, Decoded02, Decoded03 DEF ISA!Performed
<1>5. CASE ISA!Op5(w) \in 4 .. 7 BY <1>2, <1>5, Decoded04, Decoded07 DEF ISA!Performed
<1>6. CASE ISA!Op5(w) \in 8 .. 15 /\ ISA!Rrr(w) = 7 BY <1>6, DecodedRi DEF ISA!Performed
<1>7. CASE ISA!Op5(w) \in 8 .. 9 /\ ISA!Rrr(w) # 7 BY <1>2, <1>7 DEF ISA!Performed
<1>8. CASE ISA!Op5(w) \in 10 .. 15 /\ ISA!Rrr(w) # 7 BY <1>8, DecodedRs DEF ISA!Performed
<1> QED BY <1>3, <1>4, <1>5, <1>6, <1>7, <1>8, Fields

-----------------------------------------------------------------------------
(* Machines *)

LEMMA MachineFields ==
  ASSUME NEW c, IsMachine(c)
  PROVE  /\ c.r \in [0 .. 4 -> Words] /\ c.sp \in Words /\ c.str \in Words /\ c.ic \in Words
         /\ c.seg \in [0 .. 7 -> 0 .. 15] /\ c.spec \in [0 .. 2 -> Words] /\ c.iisr \in Words
         /\ c.pend \subseteq 0 .. 2
         /\ IsImage(c.mem) /\ IsImage(c.io)
BY DEF IsMachine

LEMMA SetR == ASSUME NEW c, IsMachine(c), NEW f \in [0 .. 4 -> Words] PROVE IsMachine([c EXCEPT !.r = f])
BY DEF IsMachine
LEMMA SetSp == ASSUME NEW c, IsMachine(c), NEW v \in Words PROVE IsMachine([c EXCEPT !.sp = v])
BY DEF IsMachine
LEMMA SetStr == ASSUME NEW c, IsMachine(c), NEW v \in Words PROVE IsMachine([c EXCEPT !.str = v])
BY DEF IsMachine
LEMMA SetIc == ASSUME NEW c, IsMachine(c), NEW v \in Words PROVE IsMachine([c EXCEPT !.ic = v])
BY DEF IsMachine
LEMMA SetMem == ASSUME NEW c, IsMachine(c), NEW f, IsImage(f) PROVE IsMachine([c EXCEPT !.mem = f])
BY DEF IsMachine
LEMMA SetIo == ASSUME NEW c, IsMachine(c), NEW f, IsImage(f) PROVE IsMachine([c EXCEPT !.io = f])
BY DEF IsMachine
LEMMA SetRn == ASSUME NEW c, IsMachine(c), NEW n \in 0 .. 4, NEW v \in Words PROVE IsMachine([c EXCEPT !.r[n] = v])
BY DEF IsMachine

LEMMA RdWord == ASSUME NEW c, IsMachine(c), NEW p PROVE Rd(c, p) \in Words
BY MachineFields, WordRange DEF Rd, IsImage
LEMMA RdCWord == ASSUME NEW c, IsMachine(c), NEW la PROVE RdC(c, la) \in Words
BY RdWord DEF RdC, RdB
LEMMA GrWord == ASSUME NEW c, IsMachine(c), NEW n \in 0 .. 7 PROVE Gr(c, n) \in Words
BY MachineFields DEF Gr
LEMMA SwMachine == ASSUME NEW c, IsMachine(c), NEW n \in 0 .. 7, NEW v \in Words PROVE IsMachine(Sw(c, n, v))
BY SetRn, SetSp, SetStr, SetIc DEF Sw
LEMMA WrMachine == ASSUME NEW c, IsMachine(c), NEW p, NEW v \in Words PROVE IsMachine(Wr(c, p, v))
<1>1. IsImage([q \in DOMAIN c.mem \cup {p} |-> IF q = p THEN v ELSE c.mem[q]])
  BY MachineFields DEF IsImage
<1> QED BY <1>1, SetMem DEF Wr
LEMMA WrBMachine == ASSUME NEW c, IsMachine(c), NEW la, NEW s, NEW v \in Words PROVE IsMachine(WrB(c, la, s, v))
BY WrMachine DEF WrB

LEMMA PushMachine == ASSUME NEW c, IsMachine(c), NEW v \in Words PROVE IsMachine(Push(c, v))
<1> DEFINE b == WrB(c, c.sp, 1, v)
<1>1. IsMachine(b) BY WrBMachine
<1>2. Word(b.sp - 1) \in Words BY <1>1, MachineFields, WordRange, WordIsWord
<1> HIDE DEF b
<1>3. IsMachine([b EXCEPT !.sp = Word(@ - 1)]) BY <1>1, <1>2, SetSp
<1> QED BY <1>3 DEF Push, b
LEMMA PoppedWord == ASSUME NEW c, IsMachine(c) PROVE Popped(c) \in Words
BY RdWord DEF Popped, RdB
LEMMA PopMachine == ASSUME NEW c, IsMachine(c) PROVE IsMachine(Pop(c))
<1>1. Word(c.sp + 1) \in Words BY MachineFields, WordRange, WordIsWord
<1> QED BY <1>1, SetSp DEF Pop
LEMMA PopToMachine == ASSUME NEW c, IsMachine(c), NEW n \in 0 .. 7 PROVE IsMachine(PopTo(c, n))
BY PopMachine, PoppedWord, SwMachine DEF PopTo
LEMMA FlagsMachine == ASSUME NEW c, IsMachine(c), NEW e \in BOOLEAN, NEW v \in BOOLEAN PROVE IsMachine(Flags(c, e, v))
<1>1. WithBit(c.str, E, e) \in Words BY MachineFields, FlagBits
<1>2. WithBit(WithBit(c.str, E, e), OVF, v) \in Words BY <1>1, FlagBits
<1> QED BY <1>2, SetStr DEF Flags
LEMMA CarryMachine == ASSUME NEW c, IsMachine(c), NEW e \in BOOLEAN PROVE IsMachine([c EXCEPT !.str = WithBit(@, E, e)])
<1>1. WithBit(c.str, E, e) \in Words BY MachineFields, FlagBits
<1> QED BY <1>1, SetStr
LEMMA SkipIfMachine == ASSUME NEW c, IsMachine(c), NEW cond, NEW w PROVE IsMachine(SkipIf(c, cond, w))
<1>1. ISA!Skipped(RdC(c, c.ic)) \in {1, 2} BY DEF ISA!Skipped
<1>2. Word(c.ic + ISA!Skipped(RdC(c, c.ic))) \in Words BY <1>1, MachineFields, WordRange, WordIsWord
<1> QED BY <1>2, SetIc DEF SkipIf
LEMMA ResultMachine ==
  ASSUME NEW c, IsMachine(c), NEW n \in 0 .. 7, NEW cond, NEW w \in Words PROVE IsMachine(Result(c, n, cond, w))
BY SwMachine, SkipIfMachine DEF Result
LEMMA PairMachine ==
  ASSUME NEW c, IsMachine(c), NEW a \in Words, NEW b \in Words PROVE IsMachine([c EXCEPT !.r[0] = a, !.r[1] = b])
BY DEF IsMachine
LEMMA Result32Machine ==
  ASSUME NEW c, IsMachine(c), NEW cond, NEW a \in Words, NEW b \in Words PROVE IsMachine(Result32(c, cond, a, b))
BY PairMachine, SkipIfMachine DEF Result32
LEMMA SetSegMachine ==
  ASSUME NEW c, IsMachine(c), NEW b \in 0 .. 7, NEW v \in Words PROVE IsMachine(SetSeg(c, b, v))
<1>1. v % 16 \in 0 .. 15 BY WordRange
<1>2. IsMachine([c EXCEPT !.seg[b] = v % 16]) BY <1>1 DEF IsMachine
<1> QED BY <1>2 DEF SetSeg
LEMMA SetSpecMachine ==
  ASSUME NEW c, IsMachine(c), NEW p \in Nat, NEW v \in Words PROVE IsMachine(SetSpec(c, p, v))
<1>1. v % 256 \in Words BY WordRange
<1>2. ASSUME p <= 2, NEW w \in Words PROVE IsMachine([c EXCEPT !.spec[p] = w])
  <2>1. p \in 0 .. 2 BY <1>2
  <2> QED BY <1>2, <2>1 DEF IsMachine
<1> QED BY <1>1, <1>2 DEF SetSpec
LEMMA EaWord ==
  ASSUME NEW c, IsMachine(c), NEW mode \in 0 .. 7, NEW d \in 0 .. 255 PROVE Ea(c, mode, d) \in Words
<1> DEFINE here == Word(c.ic - 1 + (IF d < 128 THEN d ELSE d - 256))
<1>1. here \in Words BY MachineFields, WordRange, WordIsWord
<1>2. d \in Words BY WordRange
<1>3. RdC(c, d) \in Words /\ RdC(c, here) \in Words BY RdCWord
<1>4. ASSUME NEW n \in 0 .. 4, NEW v \in Words PROVE Word(c.r[n] + v) \in Words
  BY MachineFields, WordRange, WordIsWord
<1> HIDE DEF here
<1>5. CASE mode \in 0 .. 3 BY <1>1, <1>2, <1>3, <1>5 DEF Ea, here
<1>6. CASE mode \in 4 .. 5
  <2>1. Word(c.r[mode - 1] + d) \in Words BY <1>2, <1>4, <1>6
  <2> QED BY <1>6, <2>1 DEF Ea
<1>7. CASE mode \in 6 .. 7
  <2>1. ASSUME NEW n, n = mode - 3, NEW v, v = RdC(c, d) PROVE Word(c.r[n] + v) \in Words
    <3>1. n \in 0 .. 4 /\ v \in Words BY <1>3, <1>7, <2>1
    <3> QED BY <1>4, <3>1
  <2> QED BY <1>7, <2>1 DEF Ea
<1> QED BY <1>5, <1>6, <1>7

-----------------------------------------------------------------------------
(* Every instruction keeps a machine a machine. *)

LEMMA MemoryMachine ==
  ASSUME NEW c, IsMachine(c), NEW i, IsInsn(i), i.op \in {"L", "ST", "B", "BAL", "IMS", "DMS"}
  PROVE  IsMachine(Memory(c, i))
<1> DEFINE at == Ea(c, i.m, i.x)
           count == Word(RdC(c, at) + (IF i.op = "IMS" THEN 1 ELSE -1))
<1>1. i.m \in 0 .. 7 /\ i.x \in 0 .. 255 /\ i.r \in 0 .. 7 BY DEF IsInsn
<1>2. at \in Words BY <1>1, EaWord
<1>3. RdC(c, at) \in Words BY RdCWord
<1>4. Gr(c, i.r) \in Words BY <1>1, GrWord
<1>5. count \in Words BY <1>3, WordRange, WordIsWord
<1> HIDE DEF at, count
<1>6. IsMachine(Sw(c, i.r, RdC(c, at))) BY <1>1, <1>3, SwMachine
<1>7. IsMachine(WrC(c, at, Gr(c, i.r))) BY <1>4, WrBMachine DEF WrC
<1>8. IsMachine([c EXCEPT !.ic = at]) BY <1>2, SetIc
<1>9. IsMachine([Push(c, c.ic) EXCEPT !.ic = at]) BY <1>2, MachineFields, PushMachine, SetIc
<1>10. IsMachine(SkipIf(WrC(c, at, count), 4, count)) BY <1>5, WrBMachine, SkipIfMachine DEF WrC
<1> QED BY <1>6, <1>7, <1>8, <1>9, <1>10 DEF Memory, at, count

LEMMA SmallConstantMachine ==
  ASSUME NEW c, IsMachine(c), NEW i, IsInsn(i), i.op \in {"AI", "SI"}
  PROVE  IsMachine(SmallConstant(c, i))
<1>1. i.x \in 0 .. 255 /\ i.r \in 0 .. 7 BY DEF IsInsn
<1>2. Gr(c, i.r) \in Words BY <1>1, GrWord
<1>3. Word(Gr(c, i.r) + (IF i.op = "AI" THEN i.x ELSE -i.x)) \in Words BY <1>1, <1>2, WordRange, WordIsWord
<1> QED BY <1>1, <1>3, ResultMachine DEF SmallConstant

LEMMA ByteMachine ==
  ASSUME NEW c, IsMachine(c), NEW i, IsInsn(i)
  PROVE  IsMachine(Sw(c, i.r, 256 * (Gr(c, i.r) \div 256) + i.x))
<1>1. i.x \in 0 .. 255 /\ i.r \in 0 .. 7 BY DEF IsInsn
<1>2. Gr(c, i.r) \in Words BY <1>1, GrWord
<1>3. 256 * (Gr(c, i.r) \div 256) + i.x \in Words BY <1>1, <1>2, WordRange
<1> QED BY <1>1, <1>3, SwMachine

LEMMA SegmentsMachine ==
  ASSUME NEW c, IsMachine(c), NEW i, IsInsn(i), NEW imm \in Words, i.op \in High3Ops
  PROVE  IsMachine(Segments(c, i, imm))
<1>1. i.k \in 0 .. 7 BY DEF IsInsn
<1>2. RdC(c, imm) \in Words BY RdCWord
<1>3. c.seg[i.k] \in Words BY <1>1, MachineFields, WordRange
<1>4. (IF i.k > 2 THEN 0 ELSE c.spec[i.k]) \in Words BY <1>1, MachineFields, WordRange
<1>5. (IF i.k = 6 THEN c.iisr ELSE 0) \in Words BY MachineFields, WordRange
<1>6. CASE i.op \in {"LB", "LS", "STB", "STS"}
  <2>1. IsMachine(SetSeg(c, i.k, RdC(c, imm))) BY <1>1, <1>2, SetSegMachine
  <2>2. IsMachine(SetSpec(c, i.k, RdC(c, imm))) BY <1>1, <1>2, SetSpecMachine
  <2>3. IsMachine(WrC(c, imm, c.seg[i.k])) BY <1>3, WrBMachine DEF WrC
  <2>4. IsMachine(WrC(c, imm, IF i.k > 2 THEN 0 ELSE c.spec[i.k])) BY <1>4, WrBMachine DEF WrC
  <2> QED BY <1>6, <2>1, <2>2, <2>3, <2>4 DEF Segments
<1>7. CASE i.op \in High3Ops \ {"LB", "LS", "STB", "STS"}
  <2>1. i.op \in Low3Ops BY <1>7 DEF High3Ops, Low3Ops
  <2>2. i.x \in 0 .. 7 BY <2>1 DEF IsInsn
  <2>3. Gr(c, i.x) \in Words BY <2>2, GrWord
  <2>4. IsMachine(Sw(c, i.x, c.seg[i.k])) BY <1>3, <2>2, SwMachine
  <2>5. IsMachine(Sw(c, i.x, IF i.k > 2 THEN 0 ELSE c.spec[i.k])) BY <1>4, <2>2, SwMachine
  <2>6. IsMachine(SetSeg(c, i.k, Gr(c, i.x))) BY <1>1, <2>3, SetSegMachine
  <2>7. IsMachine(SetSpec(c, i.k, Gr(c, i.x))) BY <1>1, <2>3, SetSpecMachine
  <2>8. IsMachine(Sw(c, i.x, IF i.k = 6 THEN c.iisr ELSE 0)) BY <1>5, <2>2, SwMachine
  <2>9. IsMachine([c EXCEPT !.iisr = Gr(c, i.x)]) BY <2>3 DEF IsMachine
  <2> QED BY <1>7, <2>4, <2>5, <2>6, <2>7, <2>8, <2>9 DEF Segments, High3Ops
<1> QED BY <1>6, <1>7

LEMMA StackMachine ==
  ASSUME NEW c, IsMachine(c), NEW i, IsInsn(i), i.op \in {"PUSH", "POP", "PSHM", "POPM"}
  PROVE  IsMachine(Stack(c, i))
<1>1. i.r \in 0 .. 7 BY DEF IsInsn
<1>2. IsMachine(Push(c, Gr(c, i.r))) /\ IsMachine(PopTo(c, i.r)) BY <1>1, GrWord, PushMachine, PopToMachine
<1>3. IsMachine(Push(Push(Push(Push(Push(c, c.r[0]), c.r[1]), c.r[2]), c.r[3]), c.r[4]))
  <2>1. c.r[0] \in Words /\ c.r[1] \in Words /\ c.r[2] \in Words /\ c.r[3] \in Words /\ c.r[4] \in Words
    BY MachineFields
  <2> QED BY <2>1, PushMachine
<1>4. IsMachine(PopTo(PopTo(PopTo(PopTo(PopTo(c, 4), 3), 2), 1), 0)) BY PopToMachine
<1> QED BY <1>2, <1>3, <1>4 DEF Stack

LEMMA FarMachine == ASSUME NEW c, IsMachine(c), NEW at PROVE IsMachine(Far(c, at))
<1> DEFINE b == RdC(c, at) % 16
           to == RdC(c, Word(at + 1))
<1>1. b \in 0 .. 15 BY RdCWord, WordRange
<1>2. to \in Words BY RdCWord
<1> HIDE DEF b, to
<1>3. IsMachine([c EXCEPT !.seg[0] = b, !.ic = to]) BY <1>1, <1>2 DEF IsMachine
<1> QED BY <1>3 DEF Far, b, to
LEMMA PushFarMachine == ASSUME NEW c, IsMachine(c) PROVE IsMachine(PushFar(c))
<1>1. c.ic \in Words /\ c.seg[0] \in Words BY MachineFields, WordRange
<1> QED BY <1>1, PushMachine DEF PushFar

LEMMA BranchMachine ==
  ASSUME NEW c, IsMachine(c), NEW i, IsInsn(i), NEW imm \in Words,
         i.op \in {"RET", "BD", "BALD", "BL", "BALL", "BR", "BALR", "RETL", "LPSW"}
  PROVE  IsMachine(Branch(c, i, imm))
<1>1. IsMachine([Pop(c) EXCEPT !.ic = Popped(c)]) BY PopMachine, PoppedWord, SetIc
<1>2. IsMachine([c EXCEPT !.ic = imm]) BY SetIc
<1>3. IsMachine([Push(c, c.ic) EXCEPT !.ic = imm]) BY MachineFields, PushMachine, SetIc
<1>4. \A at : IsMachine(Far(c, at)) /\ IsMachine(Far(PushFar(c), at)) BY FarMachine, PushFarMachine
<1>5. IsMachine([Pop(Pop(c)) EXCEPT !.seg[0] = Popped(c) % 16, !.ic = Popped(Pop(c))])
  <2> DEFINE ret == Pop(Pop(c))
             b == Popped(c) % 16
             to == Popped(Pop(c))
  <2>1. IsMachine(ret) /\ to \in Words BY PopMachine, PoppedWord
  <2>2. b \in 0 .. 15 BY PoppedWord, WordRange
  <2> HIDE DEF ret, b, to
  <2>3. IsMachine([ret EXCEPT !.seg[0] = b, !.ic = to]) BY <2>1, <2>2 DEF IsMachine
  <2> QED BY <2>3 DEF ret, b, to
<1>6. CASE i.op = "LPSW"
  <2> DEFINE str == Rd(c, 2 * i.x)
             to == Rd(c, 2 * i.x + 1)
  <2>1. i.op \in Low2Ops BY <1>6 DEF Low2Ops
  <2>2. i.x \in 0 .. 3 BY <2>1 DEF IsInsn
  <2>3. 4 + i.x \in 0 .. 7 BY <2>2
  <2>4. c.seg[4 + i.x] \in 0 .. 15 BY <2>3, MachineFields
  <2>5. str \in Words /\ to \in Words BY RdWord
  <2> HIDE DEF str, to
  <2>6. ASSUME NEW b, b = c.seg[4 + i.x] PROVE IsMachine([c EXCEPT !.str = str, !.ic = to, !.seg[0] = b])
    <3>1. b \in 0 .. 15 BY <2>4, <2>6
    <3> QED BY <2>5, <3>1 DEF IsMachine
  <2> QED BY <1>6, <2>6 DEF Branch, str, to
<1> QED BY <1>1, <1>2, <1>3, <1>4, <1>5, <1>6 DEF Branch

LEMMA TransferMachine ==
  ASSUME NEW c, IsMachine(c), NEW i, IsInsn(i), NEW imm \in Words, i.op \in {"LD", "STD", "LR", "STR"}
  PROVE  IsMachine(Transfer(c, i, imm))
<1>1. CASE i.op \in {"LD", "STD"}
  <2>1. i.op \in Low3Ops BY <1>1 DEF Low3Ops
  <2>2. i.x \in 0 .. 7 BY <2>1 DEF IsInsn
  <2>3. IsMachine(Sw(c, i.x, RdB(c, imm, i.k))) BY <2>2, RdWord, SwMachine DEF RdB
  <2>4. IsMachine(WrB(c, imm, i.k, Gr(c, i.x))) BY <2>2, GrWord, WrBMachine
  <2> QED BY <1>1, <2>3, <2>4 DEF Transfer
<1>2. CASE i.op \in {"LR", "STR"}
  <2> DEFINE n == i.x + 1
             at == IF i.k \div 4 = 2 THEN Word(c.r[n] - 1) ELSE c.r[n]
             moved == CASE i.k \div 4 = 2 -> [c EXCEPT !.r[n] = at]
                        [] i.k \div 4 = 3 -> [c EXCEPT !.r[n] = Word(@ + 1)]
                        [] OTHER -> c
  <2>1. i.op \in Low2Ops BY <1>2 DEF Low2Ops
  <2>2. n \in 0 .. 4 /\ i.r \in 0 .. 7 BY <2>1 DEF IsInsn
  <2>3. c.r[n] \in Words BY <2>2, MachineFields
  <2>4. at \in Words /\ Word(c.r[n] + 1) \in Words BY <2>3, WordRange, WordIsWord
  <2> HIDE DEF n
  <2>5. IsMachine(moved)
    <3> HIDE DEF at
    <3>1. IsMachine([c EXCEPT !.r[n] = at]) BY <2>2, <2>4, SetRn
    <3>2. IsMachine([c EXCEPT !.r[n] = Word(@ + 1)]) BY <2>2, <2>4, SetRn
    <3> QED BY <3>1, <3>2
  <2> HIDE DEF moved, at
  <2>6. IsMachine(Sw(moved, i.r, RdB(c, at, i.k % 4))) BY <2>2, <2>5, RdWord, SwMachine DEF RdB
  <2>7. IsMachine(WrB(moved, at, i.k % 4, Gr(moved, i.r))) BY <2>2, <2>5, GrWord, WrBMachine
  <2> QED BY <1>2, <2>6, <2>7 DEF Transfer, moved, at, n
<1> QED BY <1>1, <1>2

LEMMA ShiftMachine ==
  ASSUME NEW c, IsMachine(c), NEW i, IsInsn(i), i.op \in {"SR", "SL"}
  PROVE  IsMachine(Shift(c, i))
<1> DEFINE in == IF ExtendIn(c, i.x) THEN 1 ELSE 0
           b == [c EXCEPT !.str = WithBit(@, E, in = 1)]
           a == Gr(b, i.r)
<1>1. i.r \in 0 .. 7 BY DEF IsInsn
<1>2. in \in {0, 1} OBVIOUS
<1> HIDE DEF in
<1>3. IsMachine(b) BY CarryMachine
<1> HIDE DEF b
<1>4. a \in Words BY <1>1, <1>3, GrWord
<1> HIDE DEF a
<1>5. ASSUME NEW out \in BOOLEAN, NEW w \in Words
      PROVE  IsMachine(Result([c EXCEPT !.str = WithBit(@, E, out)], i.r, i.k, w))
  BY <1>1, CarryMachine, ResultMachine
<1>6. (a \div 2) + 32768 * in \in Words BY <1>2, <1>4, WordRange
<1>7. Word(2 * a + in) \in Words BY <1>2, <1>4, WordRange, WordIsWord
<1> DEFINE odd == a % 2 = 1
<1>8. odd \in BOOLEAN /\ Negative(a) \in BOOLEAN BY DEF Negative
<1> HIDE DEF odd
<1>9. IsMachine(Result([c EXCEPT !.str = WithBit(@, E, odd)], i.r, i.k, (a \div 2) + 32768 * in))
  BY <1>5, <1>6, <1>8
<1>10. IsMachine(Result([c EXCEPT !.str = WithBit(@, E, Negative(a))], i.r, i.k, Word(2 * a + in)))
  BY <1>5, <1>7, <1>8
<1> QED BY <1>9, <1>10 DEF Shift, in, b, a, odd


LEMMA BitsMachine ==
  ASSUME NEW c, IsMachine(c), NEW i, IsInsn(i), NEW imm \in Words,
         i.op \in {"TBIT", "RBIT", "SBIT", "TSET", "TRST", "SRBT", "DEBP"}
  PROVE  IsMachine(Bits(c, i, imm))
<1>1. i.r \in 0 .. 7 BY DEF IsInsn
<1>2. CASE i.op \in {"TBIT", "RBIT", "SBIT"}
  <2>1. i.op \in Low4Ops BY <1>2 DEF Low4Ops
  <2>2. i.x \in 0 .. 15 BY <2>1 DEF IsInsn
  <2>3. WithBit(Gr(c, i.r), Bit(i.x), TRUE) \in Words /\ WithBit(Gr(c, i.r), Bit(i.x), FALSE) \in Words
    BY <1>1, <2>2, GrWord, WithBitWord
  <2>4. IsMachine(Result(c, i.r, i.k, WithBit(Gr(c, i.r), Bit(i.x), TRUE)))
        /\ IsMachine(Result(c, i.r, i.k, WithBit(Gr(c, i.r), Bit(i.x), FALSE)))
    BY <1>1, <2>3, ResultMachine
  <2>5. IsMachine(SkipIf(c, i.k, And(Gr(c, i.r), Bit(i.x)))) BY SkipIfMachine
  <2> QED BY <1>2, <2>4, <2>5 DEF Bits
<1>3. CASE i.op \in {"TSET", "TRST", "SRBT", "DEBP"}
  <2> DEFINE word == RdC(c, imm)
             mask == Gr(c, i.x)
             top == CHOOSE n \in Ones(mask) : \A o \in Ones(mask) : n <= o
  <2>1. i.op \in Low3Ops BY <1>3 DEF Low3Ops
  <2>2. i.x \in 0 .. 7 BY <2>1 DEF IsInsn
  <2>3. word \in Words /\ mask \in Words BY <2>2, GrWord, RdCWord
  <2>4. CASE i.op = "TSET"
    <3>1. IsMachine(SkipIf(WrC(c, imm, Or(word, mask)), i.k, And(word, mask)))
      BY LogicWord, WrBMachine, SkipIfMachine DEF WrC
    <3> QED BY <2>4, <3>1 DEF Bits
  <2>5. CASE i.op = "TRST"
    <3>1. word - And(word, mask) \in Words BY <2>3, AndAtMost, LogicWord, WordRange
    <3>2. IsMachine(SkipIf(WrC(c, imm, word - And(word, mask)), i.k, And(word, mask)))
      BY <3>1, WrBMachine, SkipIfMachine DEF WrC
    <3> QED BY <2>5, <3>2 DEF Bits
  <2>6. CASE i.op = "SRBT" /\ mask = 0
    <3>1. 16 \in Words /\ 0 \in Words BY WordRange
    <3>2. IsMachine([c EXCEPT !.r[0] = 16]) BY <3>1, SetRn
    <3>3. IsMachine(Sw([c EXCEPT !.r[0] = 16], i.x, 0)) BY <2>2, <3>1, <3>2, SwMachine
    <3> QED BY <2>6, <3>3 DEF Bits
  <2>7. CASE i.op = "SRBT" /\ mask # 0
    <3>1. Ones(mask) # {} /\ Ones(mask) \subseteq 0 .. 15 BY <2>3, <2>7, SomeBit DEF Ones
    <3>2. top \in 0 .. 15 BY <3>1, LeftmostBit
    <3> HIDE DEF top
    <3>3. top \in Words BY <3>2, WordRange
    <3>4. WithBit(mask, Bit(top), FALSE) \in Words BY <2>3, <3>2, WithBitWord
    <3>5. IsMachine([c EXCEPT !.r[0] = top]) BY <3>3, SetRn
    <3>6. IsMachine(Sw([c EXCEPT !.r[0] = top], i.x, WithBit(mask, Bit(top), FALSE)))
      BY <2>2, <3>4, <3>5, SwMachine
    <3> QED BY <2>7, <3>6 DEF Bits, top
  <2>8. CASE i.op = "DEBP"
    <3>1. c.r[0] % 16 \in 0 .. 15 BY MachineFields, WordRange
    <3>2. WithBit(mask, Bit(c.r[0] % 16), TRUE) \in Words BY <2>3, <3>1, WithBitWord
    <3>3. IsMachine(Sw(c, i.x, WithBit(mask, Bit(c.r[0] % 16), TRUE))) BY <2>2, <3>2, SwMachine
    <3> QED BY <2>8, <3>3 DEF Bits
  <2> QED BY <1>3, <2>4, <2>5, <2>6, <2>7, <2>8
<1> QED BY <1>2, <1>3

LEMMA AluOps ==
  /\ DOMAIN Meaning \subseteq ByMemory \cup ByWord \cup Low3Ops
  /\ \A op \in DOMAIN Meaning :
       Meaning[op] \in {"add", "sub", "cmp", "cmpb", "or", "eor", "and", "lad", "mv", "mvb", "bswp", "dswp"}
<1>1. DOMAIN Meaning = {"A", "AWI", "AWR", "S", "SWI", "SWR", "C", "CWI", "CWR", "CB", "CBI", "CBR",
                        "OR", "ORI", "ORR", "EOR", "EORI", "EORR", "AND", "ANDI", "ANDR", "LAD", "LADI", "LADR",
                        "MV", "MVWI", "MVWR", "MVB", "MVBR", "BSWP", "BSWR", "DSWP", "DSWR"}
  BY DEF Meaning
<1>2. DOMAIN Meaning \subseteq ByMemory \cup ByWord \cup Low3Ops BY <1>1 DEF ByMemory, ByWord, Low3Ops
<1>3. \A op \in DOMAIN Meaning :
        Meaning[op] \in {"add", "sub", "cmp", "cmpb", "or", "eor", "and", "lad", "mv", "mvb", "bswp", "dswp"}
  BY <1>1 DEF Meaning
<1> QED BY <1>2, <1>3

LEMMA OperandWord ==
  ASSUME NEW c, IsMachine(c), NEW i, IsInsn(i), NEW imm \in Words, i.op \in DOMAIN Meaning
  PROVE  Operand(c, i, imm) \in Words
<1>1. CASE i.op \in ByMemory BY <1>1, RdCWord DEF Operand
<1>2. CASE i.op \notin ByMemory /\ i.op \in ByWord BY <1>2 DEF Operand
<1>3. CASE i.op \notin ByMemory /\ i.op \notin ByWord
  <2>1. i.op \in Low3Ops BY <1>3, AluOps
  <2>2. i.x \in 0 .. 7 BY <2>1 DEF IsInsn
  <2> QED BY <1>3, <2>2, GrWord DEF Operand
<1> QED BY <1>1, <1>2, <1>3

LEMMA AddedMachine ==
  ASSUME NEW c, IsMachine(c), NEW a, NEW b PROVE IsMachine(Added(c, a, b)) /\ IsMachine(Subtracted(c, a, b))
<1> DEFINE e == a + b > 65535
           v == Negative(a) = Negative(b) /\ Negative(a) # Negative(Word(a + b))
           e2 == a < b
           v2 == Negative(a) # Negative(b) /\ Negative(a) # Negative(Word(a - b))
<1>1. e \in BOOLEAN /\ v \in BOOLEAN /\ e2 \in BOOLEAN /\ v2 \in BOOLEAN OBVIOUS
<1> HIDE DEF e, v, e2, v2
<1>2. IsMachine(Flags(c, e, v)) /\ IsMachine(Flags(c, e2, v2)) BY <1>1, FlagsMachine
<1> QED BY <1>2 DEF Added, Subtracted, e, v, e2, v2

LEMMA NibbleRange == ASSUME NEW w \in Words, NEW s \in 0 .. 3 PROVE Nibble(w, s) \in 0 .. 15
BY WordRange DEF Nibble, Hex
LEMMA SixesWord == ASSUME NEW a, NEW b PROVE Sixes(a, b) \in Words
BY WordRange DEF Sixes, Hex
LEMMA SwappedWord == ASSUME NEW w \in Words PROVE Swapped(w) \in Words /\ MiddleSwapped(w) \in Words
<1>1. Swapped(w) \in Words BY WordRange DEF Swapped
<1>2. PICK n0 \in 0 .. 15, n1 \in 0 .. 15, n2 \in 0 .. 15, n3 \in 0 .. 15 :
        Nibble(w, 0) = n0 /\ Nibble(w, 1) = n1 /\ Nibble(w, 2) = n2 /\ Nibble(w, 3) = n3
  <2>1. Nibble(w, 0) \in 0 .. 15 /\ Nibble(w, 1) \in 0 .. 15 BY NibbleRange
  <2>2. Nibble(w, 2) \in 0 .. 15 /\ Nibble(w, 3) \in 0 .. 15 BY NibbleRange
  <2> QED BY <2>1, <2>2
<1>3. 4096 * n3 + 256 * n1 + 16 * n2 + n0 \in Words BY WordRange
<1>4. MiddleSwapped(w) \in Words BY <1>2, <1>3 DEF MiddleSwapped
<1> QED BY <1>1, <1>4

LEMMA AluMachine ==
  ASSUME NEW c, IsMachine(c), NEW i, IsInsn(i), NEW imm \in Words, i.op \in DOMAIN Meaning
  PROVE  IsMachine(Alu(c, i, imm))
<1> DEFINE a == Gr(c, i.r)
           b == Operand(c, i, imm)
<1>1. i.r \in 0 .. 7 BY DEF IsInsn
<1>2. a \in Words /\ b \in Words BY <1>1, GrWord, OperandWord
<1> HIDE DEF a, b
<1>3. Word(a + b) \in Words /\ Word(a - b) \in Words BY <1>2, WordRange, WordIsWord
<1>4. 256 * (a \div 256) + (b % 256) \in Words BY <1>2, WordRange
<1>5. IsMachine(Result(Added(c, a, b), i.r, i.k, Word(a + b)))
      /\ IsMachine(Result(Subtracted(c, a, b), i.r, i.k, Word(a - b)))
  BY <1>1, <1>3, AddedMachine, ResultMachine
<1>6. IsMachine(SkipIf(Subtracted(c, a, b), i.k, Word(a - b))) BY AddedMachine, SkipIfMachine
<1>7. IsMachine(SkipIf(Subtracted(c, a % 256, b % 256), i.k, Word((a % 256) - (b % 256))))
  BY AddedMachine, SkipIfMachine
<1>8. \A w \in {Or(a, b), Eor(a, b), And(a, b), Sixes(a, b), b, Swapped(b), MiddleSwapped(b), 256 * (a \div 256) + (b % 256)} :
        w \in Words
  BY <1>2, <1>4, LogicWord, SixesWord, SwappedWord
<1>9. \A w \in {Or(a, b), Eor(a, b), And(a, b), Sixes(a, b), b, Swapped(b), MiddleSwapped(b), 256 * (a \div 256) + (b % 256)} :
        IsMachine(Result(c, i.r, i.k, w))
  BY <1>1, <1>8, ResultMachine
<1>10. CASE Meaning[i.op] \in {"add", "sub", "cmp", "cmpb"} BY <1>5, <1>6, <1>7, <1>10 DEF Alu, a, b
<1>11. CASE Meaning[i.op] \in {"or", "eor", "and", "lad", "mv", "mvb", "bswp", "dswp"} BY <1>9, <1>11 DEF Alu, a, b
<1> QED BY <1>10, <1>11, AluOps

-----------------------------------------------------------------------------
(* Words of two: products, quotients, floating point *)

LEMMA Bytes ==
  ASSUME NEW w \in Words
  PROVE  /\ w \div 256 \in Int /\ 0 <= w \div 256 /\ w \div 256 < 256
         /\ w % 256 \in Int /\ 0 <= w % 256 /\ w % 256 < 256
         /\ w = 256 * (w \div 256) + (w % 256)
<1>1. w \in Int /\ 0 <= w /\ w < 65536 BY WordRange
<1>2. w \div 256 \in Int /\ 0 <= w \div 256 /\ w \div 256 < 256 BY <1>1
<1>3. w % 256 \in Int /\ 0 <= w % 256 /\ w % 256 < 256 BY <1>1
<1>4. w = 256 * (w \div 256) + (w % 256) BY <1>1
<1> QED BY <1>2, <1>3, <1>4

\* A product of two words is exact: the two words of it are the number.
LEMMA ProductIsExact ==
  ASSUME NEW a \in Words, NEW b \in Words
  PROVE  /\ Product(a, b)[1] \in Words /\ Product(a, b)[2] \in Words
         /\ 65536 * Product(a, b)[1] + Product(a, b)[2] = a * b
<1>1. a \in Int /\ 0 <= a /\ a < 65536 /\ b \in Int /\ 0 <= b /\ b < 65536 BY WordRange
<1>2. PICK x \in Int, y \in Int :
        x = a \div 256 /\ y = a % 256 /\ a = 256 * x + y /\ 0 <= x /\ x < 256 /\ 0 <= y /\ y < 256
  BY Bytes
<1>3. PICK u \in Int, v \in Int : u = x * b /\ v = y * b BY <1>1
<1>4. 0 <= u /\ u <= 255 * b /\ 0 <= v /\ v <= 255 * b BY <1>1, <1>2, <1>3
<1>5. a * b = 256 * u + v BY <1>1, <1>2, <1>3
<1> DEFINE low == v + 256 * (u % 256)
<1>6. Product(a, b)[1] = (u \div 256) + (low \div 65536) /\ Product(a, b)[2] = low % 65536
  BY <1>2, <1>3 DEF Product, Word
<1>7. 65536 * ((u \div 256) + (low \div 65536)) + (low % 65536) = 256 * u + v BY <1>4
<1>8. (u \div 256) + (low \div 65536) \in Int /\ 0 <= (u \div 256) + (low \div 65536)
      /\ (u \div 256) + (low \div 65536) < 65536
  BY <1>1, <1>4
<1>9. low % 65536 \in Int /\ 0 <= low % 65536 /\ low % 65536 < 65536 BY <1>4
<1> HIDE DEF low
<1> QED BY <1>5, <1>6, <1>7, <1>8, <1>9, WordRange

LEMMA Division == \A a \in Nat, d \in Nat : d > 0 => /\ a \div d \in Nat /\ a % d \in Nat /\ a % d < d
                                                     /\ a = d * (a \div d) + (a % d)
OBVIOUS

\* A quotient that fits is exact: divisor and quotient and remainder make up the number.
LEMMA QuotientIsExact ==
  ASSUME NEW hi \in Words, NEW lo \in Words, NEW d \in Words, hi < d
  PROVE  /\ Quotient(hi, lo, d)[1] \in Words /\ Quotient(hi, lo, d)[2] \in Words
         /\ Quotient(hi, lo, d)[2] < d
         /\ d * Quotient(hi, lo, d)[1] + Quotient(hi, lo, d)[2] = 65536 * hi + lo
<1>1. /\ hi \in Nat /\ hi < 65536 /\ lo \in Nat /\ lo < 65536 /\ d \in Nat /\ d < 65536 /\ d > 0
  BY WordRange
<1>2. PICK x \in Int, y \in Int :
        x = lo \div 256 /\ y = lo % 256 /\ lo = 256 * x + y /\ 0 <= x /\ x < 256 /\ 0 <= y /\ y < 256
  BY Bytes
<1>3. PICK top \in Nat : top = 256 * hi + x BY <1>1, <1>2
<1>4. PICK q1 \in Nat, r1 \in Nat : q1 = top \div d /\ r1 = top % d /\ r1 < d /\ top = d * q1 + r1
  BY <1>1, <1>3, Division
<1>5. PICK low \in Nat : low = 256 * r1 + y BY <1>2, <1>4
<1>6. PICK q2 \in Nat, r2 \in Nat : q2 = low \div d /\ r2 = low % d /\ r2 < d /\ low = d * q2 + r2
  BY <1>1, <1>5, Division
<1>7. Quotient(hi, lo, d)[1] = 256 * q1 + q2 /\ Quotient(hi, lo, d)[2] = r2
  <2>1. 256 * hi + (lo \div 256) = top /\ 256 * (top % d) + (lo % 256) = low BY <1>2, <1>3, <1>4, <1>5
  <2>2. Quotient(hi, lo, d) = <<256 * (top \div d) + (low \div d), low % d>> BY <2>1 DEF Quotient
  <2> QED BY <1>4, <1>6, <2>2
<1>8. q1 < 256
  <2>1. top < 256 * d BY <1>1, <1>2, <1>3
  <2>2. d * q1 < d * 256 BY <1>1, <1>4, <2>1
  <2> QED BY <1>1, <1>4, <2>2
<1>9. q2 < 256
  <2>1. low < 256 * d BY <1>1, <1>2, <1>4, <1>5
  <2>2. d * q2 < d * 256 BY <1>1, <1>6, <2>1
  <2> QED BY <1>1, <1>6, <2>2
<1>10. d * (256 * q1 + q2) = 256 * (d * q1) + d * q2 BY <1>1
<1>11. PICK e1 \in Int, e2 \in Int : e1 = d * q1 /\ e2 = d * q2 BY <1>1
<1>12. 256 * e1 + e2 + r2 = 65536 * hi + lo BY <1>1, <1>2, <1>3, <1>4, <1>5, <1>6, <1>11
<1>13. d * Quotient(hi, lo, d)[1] + Quotient(hi, lo, d)[2] = 65536 * hi + lo BY <1>7, <1>10, <1>11, <1>12
<1>14. Quotient(hi, lo, d)[1] \in Words BY <1>7, <1>8, <1>9, WordRange
<1>15. Quotient(hi, lo, d)[2] \in Words BY <1>1, <1>6, <1>7, WordRange
<1>16. Quotient(hi, lo, d)[2] < d BY <1>6, <1>7
<1> QED BY <1>13, <1>14, <1>15, <1>16

LEMMA MultiplyMachine == ASSUME NEW c, IsMachine(c), NEW i PROVE IsMachine(Multiply(c, i))
<1> DEFINE b == RdC(c, c.r[i.x + 1])
           p == Product(c.r[0], b)
<1>1. c.r[0] \in Words /\ b \in Words BY MachineFields, RdCWord
<1> HIDE DEF b
<1>2. p[1] \in Words /\ p[2] \in Words BY <1>1, ProductIsExact
<1> HIDE DEF p
<1>3. IsMachine(Flags(c, FALSE, FALSE)) BY FlagsMachine
<1>4. IsMachine(Result32(Flags(c, FALSE, FALSE), i.k, p[1], p[2])) BY <1>2, <1>3, Result32Machine
<1> QED BY <1>4 DEF Multiply, p, b

LEMMA DivideMachine == ASSUME NEW c, IsMachine(c), NEW i PROVE IsMachine(Divide(c, i))
<1> DEFINE d == RdC(c, c.r[i.x + 1])
           q == Quotient(c.r[0], c.r[1], d)
           over == d <= c.r[0]
<1>1. c.r[0] \in Words /\ c.r[1] \in Words /\ d \in Words BY MachineFields, RdCWord
<1> HIDE DEF d
<1>2. IsMachine(Flags(c, FALSE, FALSE)) /\ IsMachine(Flags(c, FALSE, TRUE)) BY FlagsMachine
<1>3. CASE over BY <1>2, <1>3 DEF Divide, d
<1>4. CASE ~over
  <2>1. c.r[0] < d BY <1>1, <1>4, WordRange
  <2>2. q[1] \in Words /\ q[2] \in Words BY <1>1, <2>1, QuotientIsExact
  <2> HIDE DEF q
  <2>3. IsMachine([Flags(c, FALSE, FALSE) EXCEPT !.r[0] = q[1], !.r[1] = q[2]]) BY <1>2, <2>2, PairMachine
  <2>4. IsMachine(SkipIf([Flags(c, FALSE, FALSE) EXCEPT !.r[0] = q[1], !.r[1] = q[2]], i.k, q[1]))
    BY <2>3, SkipIfMachine
  <2> QED BY <1>4, <2>4 DEF Divide, q, d
<1> QED BY <1>3, <1>4

LEMMA NegateMachine ==
  ASSUME NEW c, IsMachine(c), NEW i, IsInsn(i), i.op = "NEG" PROVE IsMachine(Negate(c, i))
<1> DEFINE n == i.x % 8
           e == IF i.x < 8 THEN CarryIn(c) ELSE 0
           w == Word(-Gr(c, n))
<1>1. i.op \in Low4Ops BY DEF Low4Ops
<1>2. i.x \in 0 .. 15 BY <1>1 DEF IsInsn
<1>3. n \in 0 .. 7 BY <1>2
<1>4. e \in {0, 1} BY DEF CarryIn
<1> HIDE DEF n, e
<1>5. w \in Words BY <1>3, GrWord, WordRange, WordIsWord
<1> HIDE DEF w
<1>6. Word(w - e) \in Words BY <1>4, <1>5, WordRange, WordIsWord
<1>7. IsMachine(Result(Subtracted(c, w, e), n, i.k, Word(w - e))) BY <1>3, <1>6, AddedMachine, ResultMachine
<1> QED BY <1>7 DEF Negate, n, e, w

LEMMA FloatingMachine ==
  ASSUME NEW c, IsMachine(c), NEW i, NEW t \in Words \X Words \X BOOLEAN PROVE IsMachine(Floating(c, i, t))
<1>1. t[1] \in Words /\ t[2] \in Words /\ t[3] \in BOOLEAN OBVIOUS
<1>2. c.r[0] \in Words /\ c.r[1] \in Words BY MachineFields
<1>3. IsMachine(Flags(c, FALSE, TRUE)) BY FlagsMachine
<1>4. IsMachine(Flags(c, FALSE, t[3])) BY <1>1, FlagsMachine
<1>5. IsMachine(Result32(Flags(c, FALSE, TRUE), i.k, c.r[0], c.r[1])) BY <1>2, <1>3, Result32Machine
<1>6. IsMachine(Result32(Flags(c, FALSE, t[3]), i.k, t[1], t[2])) BY <1>1, <1>4, Result32Machine
<1> QED BY <1>5, <1>6 DEF Floating

LEMMA PortMachine ==
  ASSUME NEW c, IsMachine(c), NEW i, IsInsn(i) PROVE IsMachine(Port(c, i))
<1> DEFINE at == IF i.op \in {"RD", "WT"} THEN i.x ELSE c.r[i.x + 1]
           old == IF at \in DOMAIN c.io THEN c.io[at] ELSE 0
           out == [p \in DOMAIN c.io \cup {at} |-> IF p = at THEN Gr(c, i.r) ELSE c.io[p]]
<1>1. i.r \in 0 .. 7 BY DEF IsInsn
<1> HIDE DEF at
<1>2. old \in Words BY MachineFields, WordRange DEF IsImage
<1>3. IsImage(out) BY <1>1, GrWord, MachineFields DEF IsImage
<1> HIDE DEF old, out
<1>4. IsMachine(Sw(c, i.r, old)) BY <1>1, <1>2, SwMachine
<1>5. IsMachine([c EXCEPT !.io = out]) BY <1>3, SetIo
<1> QED BY <1>4, <1>5 DEF Port, at, old, out

LEMMA DoubleMachine ==
  ASSUME NEW c, IsMachine(c), NEW i PROVE IsMachine(Double(c, i))
<1> DEFINE at == c.r[(i.x % 4) + 1]
           hi == RdC(c, at)
           lo == RdC(c, Word(at + 1))
           e == IF i.x < 4 THEN CarryIn(c) ELSE 0
           sum == c.r[1] + lo + e
           dif == c.r[1] - lo - e
           top == IF i.op = "AD" THEN c.r[0] + hi + (sum \div 65536)
                  ELSE c.r[0] - hi - (IF dif < 0 THEN 1 ELSE 0)
           over == top < 0 \/ top > 65535
           low == IF i.op = "AD" THEN sum ELSE dif
<1>1. hi \in Int /\ lo \in Int /\ c.r[0] \in Int /\ c.r[1] \in Int BY MachineFields, RdCWord, WordRange
<1>2. e \in Int BY DEF CarryIn
<1> HIDE DEF at, hi, lo, e
<1>3. sum \in Int /\ dif \in Int BY <1>1, <1>2
<1> HIDE DEF sum, dif
<1>4. top \in Int /\ low \in Int BY <1>1, <1>3
<1>5. over \in BOOLEAN OBVIOUS
<1> HIDE DEF top, over, low
<1>6. IsMachine(Flags(c, over, FALSE)) BY <1>5, FlagsMachine
<1>7. Word(top) \in Words /\ Word(low) \in Words BY <1>4, WordIsWord
<1>8. IsMachine(Result32(Flags(c, over, FALSE), i.k, Word(top), Word(low))) BY <1>6, <1>7, Result32Machine
<1>9. Double(c, i) = Result32(Flags(c, over, FALSE), i.k, Word(top), Word(low))
  BY DEF Double, at, hi, lo, e, sum, dif, top, over, low
<1> QED BY <1>8, <1>9

LEMMA DecimalMachine ==
  ASSUME NEW c, IsMachine(c), NEW i PROVE IsMachine(Decimal(c, i))
<1> DEFINE b == RdC(c, c.r[(i.x % 4) + 1])
           a == c.r[0]
           e == IF i.x < 4 THEN CarryIn(c) ELSE 0
           sum == a + b + e + (IF (a % 16) + (b % 16) + e > 9 THEN 6 ELSE 0)
           diff == a - b - e - (IF (a % 16) - (b % 16) - e < 0 THEN 6 ELSE 0)
           up == sum + (IF (sum \div 256) % 256 > 153 THEN 1536 ELSE 0)
           down == diff - (IF Nibble(a, 1) < Nibble(b, 1) THEN 96 ELSE 0)
           over == a + b + e > 65535
           under == a - b - e < 0
<1>1. a \in Int /\ b \in Int /\ e \in Int BY MachineFields, RdCWord, WordRange DEF CarryIn
<1> HIDE DEF a, b, e
<1>2. sum \in Int /\ diff \in Int BY <1>1
<1> HIDE DEF sum, diff
<1>3. up \in Int /\ down \in Int BY <1>2
<1>4. over \in BOOLEAN /\ under \in BOOLEAN OBVIOUS
<1> HIDE DEF up, down, over, under
<1>5. Word(up) \in Words /\ Word(down) \in Words BY <1>3, WordIsWord
<1>6. \A o \in {over, under} : IsMachine([c EXCEPT !.str = WithBit(@, E, o)]) BY <1>4, CarryMachine
<1>7. IsMachine(Result([c EXCEPT !.str = WithBit(@, E, over)], 0, i.k, Word(up)))
      /\ IsMachine(Result([c EXCEPT !.str = WithBit(@, E, under)], 0, i.k, Word(down)))
  BY <1>5, <1>6, ResultMachine
<1>8. Decimal(c, i) = IF i.op = "DAA" THEN Result([c EXCEPT !.str = WithBit(@, E, over)], 0, i.k, Word(up))
                      ELSE Result([c EXCEPT !.str = WithBit(@, E, under)], 0, i.k, Word(down))
  BY DEF Decimal, a, b, e, sum, diff, up, down, over, under
<1> QED BY <1>7, <1>8

\* The number of hexadecimal digits of an integer of a word.
LEMMA DigitsExist ==
  ASSUME NEW n \in Nat, n <= 32768
  PROVE  /\ Digits(n) \in 0 .. 4 /\ n < Hex[Digits(n) + 1]
         /\ Digits(n) > 0 => n >= Hex[Digits(n)]
<1> DEFINE Good(d) == n < Hex[d + 1] /\ (d > 0 => n >= Hex[d])
<1>1. \E d \in 0 .. 4 : Good(d)
  <2>1. n < 1 => Good(0) BY DEF Hex
  <2>2. 1 <= n /\ n < 16 => Good(1) BY DEF Hex
  <2>3. 16 <= n /\ n < 256 => Good(2) BY DEF Hex
  <2>4. 256 <= n /\ n < 4096 => Good(3) BY DEF Hex
  <2>5. 4096 <= n => Good(4) BY DEF Hex
  <2> HIDE DEF Good
  <2>6. Good(0) \/ Good(1) \/ Good(2) \/ Good(3) \/ Good(4) BY <2>1, <2>2, <2>3, <2>4, <2>5
  <2> QED BY <2>6
<1>2. Digits(n) = CHOOSE d \in 0 .. 4 : Good(d) BY DEF Digits
<1> HIDE DEF Good
<1>3. Digits(n) \in 0 .. 4 /\ Good(Digits(n)) BY <1>1, <1>2
<1> QED BY <1>3 DEF Good

\* The mantissa has six digits.
LEMMA MantissaFits ==
  ASSUME NEW n \in Nat, n <= 32768
  PROVE  n * Hex[7 - Digits(n)] \in Nat /\ n * Hex[7 - Digits(n)] < 16777216
<1> DEFINE d == Digits(n)
<1>1. d \in {0, 1, 2, 3, 4} /\ n < Hex[d + 1] BY DigitsExist
<1> HIDE DEF d
<1>2. CASE d \in {0, 1} BY <1>1, <1>2 DEF Hex, d
<1>3. CASE d \in {2, 3} BY <1>1, <1>3 DEF Hex, d
<1>4. CASE d = 4 BY <1>1, <1>4 DEF Hex, d
<1> QED BY <1>1, <1>2, <1>3, <1>4

LEMMA SignedRange == \A w \in Words : Signed(w) \in Int /\ -32768 <= Signed(w) /\ Signed(w) < 32768
BY WordRange DEF Signed, Negative

LEMMA FloatMachine ==
  ASSUME NEW c, IsMachine(c), NEW i PROVE IsMachine(Float(c, i))
<1> DEFINE n == Signed(c.r[0])
           size == IF n < 0 THEN -n ELSE n
           digits == Digits(size)
           mantissa == size * Hex[7 - digits]
           head == (IF n < 0 THEN 32768 ELSE 0) + 256 * (64 + digits) + (mantissa \div 65536)
<1>1. n \in Int /\ -32768 <= n /\ n < 32768 BY MachineFields, SignedRange
<1> HIDE DEF n
<1>2. size \in Nat /\ size <= 32768 BY <1>1
<1> HIDE DEF size
<1>3. digits \in 0 .. 4 /\ mantissa \in Nat /\ mantissa < 16777216 BY <1>2, DigitsExist, MantissaFits
<1> HIDE DEF digits, mantissa
<1>4. head \in Words /\ Word(mantissa) \in Words BY <1>3, WordRange, WordIsWord
<1> HIDE DEF head
<1>5. 0 \in Words BY WordRange
<1> DEFINE b == Flags(c, FALSE, FALSE)
<1>6. IsMachine(b) BY FlagsMachine
<1> HIDE DEF b
<1>7. IsMachine(Result32(b, i.k, 0, 0)) BY <1>5, <1>6, Result32Machine
<1>8. IsMachine(Result32(b, i.k, head, Word(mantissa))) BY <1>4, <1>6, Result32Machine
<1>9. Float(c, i) = IF n = 0 THEN Result32(b, i.k, 0, 0) ELSE Result32(b, i.k, head, Word(mantissa))
  BY DEF Float, n, size, digits, mantissa, head, b
<1> QED BY <1>7, <1>8, <1>9

LEMMA HexIsPower == \A k \in 1 .. 7 : Hex[k] \in Nat /\ Hex[k] > 0
BY DEF Hex

LEMMA FixMachine ==
  ASSUME NEW c, IsMachine(c), NEW i PROVE IsMachine(Fix(c, i))
<1> DEFINE exp == (c.r[0] \div 256) % 128
           mantissa == 65536 * (c.r[0] % 256) + c.r[1]
           size == IF exp < 64 THEN 0
                   ELSE IF exp <= 70 THEN mantissa \div Hex[71 - exp]
                   ELSE IF mantissa > 4096 \/ (exp > 74 /\ mantissa > 0) THEN 65536
                   ELSE IF mantissa = 0 THEN 0 ELSE mantissa * Hex[exp - 69]
           n == IF Negative(c.r[0]) THEN -size ELSE size
           over == n < -32768 \/ n > 32767
<1> DEFINE w == IF over THEN 0 ELSE Word(n)
<1>1. over \in BOOLEAN OBVIOUS
<1>2. w \in Words
  <2>1. 0 \in Words BY WordRange
  <2>2. c.r[0] \in Int /\ 0 <= c.r[0] /\ c.r[1] \in Int /\ 0 <= c.r[1] BY MachineFields, WordRange
  <2>3. exp \in Int /\ 0 <= exp /\ exp < 128 /\ mantissa \in Int /\ 0 <= mantissa
    <3>1. \A r \in Int : 0 <= r => (r \div 256) % 128 \in Int /\ 0 <= (r \div 256) % 128 /\ (r \div 256) % 128 < 128
      OBVIOUS
    <3>2. \A r, s \in Int : 0 <= r /\ 0 <= s => 65536 * (r % 256) + s \in Int /\ 0 <= 65536 * (r % 256) + s OBVIOUS
    <3>3. exp \in Int /\ 0 <= exp /\ exp < 128 BY <2>2, <3>1
    <3>4. mantissa \in Int /\ 0 <= mantissa BY <2>2, <3>2
    <3> QED BY <3>3, <3>4
  <2>4. size \in Int
    <3> HIDE DEF exp, mantissa
    <3>1. CASE exp < 64 BY <3>1
    <3>2. CASE 64 <= exp /\ exp <= 70
      <4>1. mantissa \div Hex[71 - exp] \in Int BY <2>3, <3>2, HexIsPower
      <4> QED BY <3>2, <4>1
    <3>3. CASE 70 < exp /\ exp <= 74
      <4>1. mantissa * Hex[exp - 69] \in Int BY <2>3, <3>3, HexIsPower
      <4> QED BY <2>3, <3>3, <4>1
    <3>4. CASE 74 < exp BY <2>3, <3>4
    <3> QED BY <2>3, <3>1, <3>2, <3>3, <3>4
  <2> HIDE DEF size
  <2>5. n \in Int BY <2>4
  <2> HIDE DEF n, over
  <2> QED BY <2>1, <2>5, WordIsWord
<1> HIDE DEF w
<1> DEFINE b == Flags(c, FALSE, over)
<1>3. Fix(c, i) = Result(b, 0, i.k, w) BY DEF Fix, exp, mantissa, size, n, over, w
<1> HIDE DEF over
<1>4. IsMachine(b) BY <1>1, FlagsMachine
<1> HIDE DEF b
<1>5. IsMachine(Result(b, 0, i.k, w)) BY <1>2, <1>4, ResultMachine
<1> QED BY <1>3, <1>5

-----------------------------------------------------------------------------
(* BLK: as many words as R0 says *)

LEMMA Least ==
  ASSUME NEW S, S \subseteq Nat, S # {}
  PROVE  \E x \in S : \A y \in S : x <= y
<1> DEFINE R == OpToRel(<, Nat)
<1>1. IsWellFoundedOn(R, Nat) BY NatLessThanWellFounded
<1>2. \A x, y \in Nat : x < y => <<x, y>> \in R BY DEF OpToRel
<1> HIDE DEF R
<1>3. PICK x \in S : \A y \in S : <<y, x>> \notin R BY <1>1, WFMin
<1>4. \A y \in S : x <= y
  <2>1. \A y, z \in Nat : z <= y \/ y < z OBVIOUS
  <2> QED BY <1>2, <1>3, <2>1
<1> QED BY <1>4

LEMMA CopyWordMachine ==
  ASSUME NEW b, IsMachine(b), b.r[0] > 0
  PROVE  IsMachine(CopyWord(b)) /\ CopyWord(b).r[0] = b.r[0] - 1
<1> DEFINE v == RdB(b, b.r[1], 2)
           d == WrB(b, b.r[2], 3, v)
           f == [d.r EXCEPT ![1] = Word(@ + 1), ![2] = Word(@ + 1), ![0] = @ - 1]
<1>1. v \in Words BY RdWord DEF RdB
<1>2. d.r = b.r /\ IsMachine(d)
  <2>1. IsMachine(d) BY <1>1, WrBMachine
  <2>2. d.r = b.r BY DEF WrB, Wr, IsMachine
  <2> QED BY <2>1, <2>2
<1> HIDE DEF d
<1>3. d.r \in [0 .. 4 -> Words] BY <1>2, MachineFields
<1>4. d.r[0] - 1 \in Words /\ Word(d.r[1] + 1) \in Words /\ Word(d.r[2] + 1) \in Words
  BY <1>2, <1>3, WordRange, WordIsWord
<1>5. f \in [0 .. 4 -> Words] /\ f[0] = d.r[0] - 1 BY <1>3, <1>4
<1> HIDE DEF f
<1>6. IsMachine([d EXCEPT !.r = f]) BY <1>2, <1>5, SetR
<1>7. CopyWord(b) = [d EXCEPT !.r = f] BY <1>2 DEF CopyWord, d, f, IsMachine
<1>8. CopyWord(b).r = f BY <1>2, <1>7 DEF IsMachine
<1> QED BY <1>2, <1>5, <1>6, <1>7, <1>8

LEMMA BlockMachine == ASSUME NEW c, IsMachine(c) PROVE IsMachine(Block(c))
<1> DEFINE N == c.r[0]
           Copies(f, n) == f = [k \in 0 .. n |-> IF k = 0 THEN c ELSE CopyWord(f[k - 1])]
<1>1. N \in Nat BY MachineFields, WordRange
<1>2. \A n \in Nat : \E f : Copies(f, n)
  <2> DEFINE S == {n \in Nat : ~ \E f : Copies(f, n)}
  <2> SUFFICES ASSUME S # {} PROVE FALSE OBVIOUS
  <2>1. PICK n \in S : \A y \in S : n <= y
    <3>1. S \subseteq Nat OBVIOUS
    <3> HIDE DEF S
    <3> QED BY <3>1, Least
  <2>2. CASE n = 0
    <3>1. Copies([k \in 0 .. 0 |-> c], 0) OBVIOUS
    <3> QED BY <2>2, <3>1
  <2>3. CASE n > 0
    <3>1. n - 1 \in Nat /\ n - 1 \notin S BY <2>1, <2>3
    <3>2. PICK f : Copies(f, n - 1) BY <3>1
    <3> DEFINE g == [k \in 0 .. n |-> IF k = n THEN CopyWord(f[n - 1]) ELSE f[k]]
    <3>3. \A k \in 0 .. n - 1 : g[k] = f[k] BY <2>3
    <3>4. \A k \in 0 .. n : g[k] = IF k = 0 THEN c ELSE CopyWord(g[k - 1])
      <4>1. ASSUME NEW k \in 0 .. n - 1 PROVE g[k] = IF k = 0 THEN c ELSE CopyWord(g[k - 1])
        <5>1. f[k] = IF k = 0 THEN c ELSE CopyWord(f[k - 1]) BY <3>2
        <5>2. k # 0 => g[k - 1] = f[k - 1] BY <3>3
        <5> QED BY <3>3, <5>1, <5>2
      <4>2. g[n] = CopyWord(g[n - 1]) BY <2>3, <3>3
      <4>3. \A k \in 0 .. n : k \in 0 .. n - 1 \/ k = n BY <2>3
      <4>4. n # 0 BY <2>3
      <4> HIDE DEF g
      <4> QED BY <4>1, <4>2, <4>3, <4>4
    <3>5. g = [k \in 0 .. n |-> g[k]] OBVIOUS
    <3> HIDE DEF g
    <3>6. Copies(g, n) BY <3>4, <3>5
    <3> QED BY <3>6
  <2> QED BY <2>1, <2>2, <2>3
<1> DEFINE after == CHOOSE f : Copies(f, N)
<1>3. Copies(after, N) BY <1>1, <1>2
<1>4. Block(c) = after[N] BY DEF Block
<1> HIDE DEF after
<1>5. after[0] = c /\ \A k \in 0 .. N : k > 0 => after[k] = CopyWord(after[k - 1]) BY <1>1, <1>3
<1> DEFINE Good(k) == IsMachine(after[k]) /\ after[k].r[0] = N - k
           S == {k \in Nat : k <= N /\ ~Good(k)}
<1>6. S = {}
  <2> SUFFICES ASSUME S # {} PROVE FALSE OBVIOUS
  <2>1. PICK k \in S : \A y \in S : k <= y
    <3>1. S \subseteq Nat OBVIOUS
    <3> HIDE DEF S
    <3> QED BY <3>1, Least
  <2>2. k # 0
    <3>1. Good(0) BY <1>1, <1>5
    <3> QED BY <2>1, <3>1
  <2>3. k - 1 \in Nat /\ k - 1 <= N /\ Good(k - 1) BY <1>1, <2>1, <2>2
  <2>4. after[k - 1].r[0] > 0 BY <1>1, <2>1, <2>3
  <2>5. after[k] = CopyWord(after[k - 1]) BY <1>1, <1>5, <2>1, <2>2
  <2>6. IsMachine(after[k]) /\ after[k].r[0] = after[k - 1].r[0] - 1 BY <2>3, <2>4, <2>5, CopyWordMachine
  <2>7. Good(k) BY <1>1, <2>1, <2>3, <2>6
  <2> QED BY <2>1, <2>7
<1>7. Good(N) BY <1>1, <1>6
<1> QED BY <1>4, <1>7

-----------------------------------------------------------------------------
(* Every step keeps a machine a machine. *)

FirstOps == {"L", "ST", "B", "BAL", "IMS", "DMS", "MVI", "AI", "SI"}
SecondOps == {"LB", "LS", "STB", "STS", "CPYB", "CPYS", "SETB", "SETS", "CPYH", "SETH", "PUSH", "POP", "PSHM", "POPM"}
ThirdOps == {"RET", "BD", "BALD", "BL", "BALL", "BR", "BALR", "RETL", "LPSW", "LD", "STD", "LR", "STR", "SR", "SL"}
FourthOps == {"TBIT", "RBIT", "SBIT", "TSET", "TRST", "SRBT", "DEBP", "AD", "SD", "DAA", "DAS", "M", "D", "NEG"}
FifthOps == {"FLT", "FIX", "FA", "FS", "FM", "FD", "BLK", "RD", "WT", "RDR", "WTR", "H"}

\* No instruction is carried out in two ways.
LEMMA AluApart ==
  ASSUME NEW op \in DOMAIN Meaning
  PROVE  /\ op \notin FirstOps /\ op \notin SecondOps /\ op \notin ThirdOps /\ op \notin FourthOps /\ op \notin FifthOps
         /\ op # ".word"
<1>1. DOMAIN Meaning = {"A", "AWI", "AWR", "S", "SWI", "SWR", "C", "CWI", "CWR", "CB", "CBI", "CBR",
                    "OR", "ORI", "ORR", "EOR", "EORI", "EORR", "AND", "ANDI", "ANDR", "LAD", "LADI", "LADR",
                    "MV", "MVWI", "MVWR", "MVB", "MVBR", "BSWP", "BSWR", "DSWP", "DSWR"}
  BY DEF Meaning
<1>2. op \notin FirstOps /\ op \notin SecondOps BY <1>1 DEF FirstOps, SecondOps
<1>3. op \notin ThirdOps /\ op \notin FourthOps BY <1>1 DEF ThirdOps, FourthOps
<1>4. op \notin FifthOps /\ op # ".word" BY <1>1 DEF FifthOps
<1> QED BY <1>2, <1>3, <1>4

LEMMA PerformAlu ==
  ASSUME NEW c, NEW i, i.op \in DOMAIN Meaning, NEW imm, NEW t
  PROVE  Perform(c, i, imm, t) = Alu(c, i, imm)
BY AluApart DEF Perform, FirstOps, SecondOps, ThirdOps, FourthOps, FifthOps

LEMMA OpsCovered == Ops \subseteq DOMAIN Meaning \cup FirstOps \cup SecondOps \cup ThirdOps \cup FourthOps \cup FifthOps
<1>1. DOMAIN Meaning = {"A", "AWI", "AWR", "S", "SWI", "SWR", "C", "CWI", "CWR", "CB", "CBI", "CBR",
                    "OR", "ORI", "ORR", "EOR", "EORI", "EORR", "AND", "ANDI", "ANDR", "LAD", "LADI", "LADR",
                    "MV", "MVWI", "MVWR", "MVB", "MVBR", "BSWP", "BSWR", "DSWP", "DSWR"}
  BY DEF Meaning
<1> QED BY <1>1 DEF Ops, Low2Ops, Low3Ops, Low4Ops, OtherOps, ByMemory, ByWord, FirstOps, SecondOps, ThirdOps, FourthOps, FifthOps

LEMMA PerformMachine ==
  ASSUME NEW c, IsMachine(c), NEW i, IsInsn(i), i.op # ".word", NEW imm \in Words, NEW t \in FloatResults
  PROVE  IsMachine(Perform(c, i, imm, t))
<1>1. i.op \in Ops BY DEF IsInsn
<1>2. i.op \in {"L", "ST", "B", "BAL", "IMS", "DMS"} => IsMachine(Memory(c, i)) BY MemoryMachine
<1>3. i.op \in DOMAIN Meaning => IsMachine(Alu(c, i, imm)) BY AluMachine
<1>4. IsMachine(Sw(c, i.r, 256 * (Gr(c, i.r) \div 256) + i.x)) BY ByteMachine
<1>5. i.op \in {"AI", "SI"} => IsMachine(SmallConstant(c, i)) BY SmallConstantMachine
<1>6. i.op \in {"LB", "LS", "STB", "STS", "CPYB", "CPYS", "SETB", "SETS", "CPYH", "SETH"} => IsMachine(Segments(c, i, imm))
  <2>1. i.op \in {"LB", "LS", "STB", "STS", "CPYB", "CPYS", "SETB", "SETS", "CPYH", "SETH"} => i.op \in High3Ops
    BY DEF High3Ops
  <2> QED BY <2>1, SegmentsMachine
<1>7. i.op \in {"PUSH", "POP", "PSHM", "POPM"} => IsMachine(Stack(c, i)) BY StackMachine
<1>8. i.op \in {"RET", "BD", "BALD", "BL", "BALL", "BR", "BALR", "RETL", "LPSW"} => IsMachine(Branch(c, i, imm))
  BY BranchMachine
<1>9. i.op \in {"LD", "STD", "LR", "STR"} => IsMachine(Transfer(c, i, imm)) BY TransferMachine
<1>10. i.op \in {"SR", "SL"} => IsMachine(Shift(c, i)) BY ShiftMachine
<1>11. i.op \in {"TBIT", "RBIT", "SBIT", "TSET", "TRST", "SRBT", "DEBP"} => IsMachine(Bits(c, i, imm)) BY BitsMachine
<1>12. IsMachine(Double(c, i)) /\ IsMachine(Decimal(c, i)) BY DoubleMachine, DecimalMachine
<1>13. IsMachine(Multiply(c, i)) /\ IsMachine(Divide(c, i)) BY MultiplyMachine, DivideMachine
<1>14. i.op = "NEG" => IsMachine(Negate(c, i)) BY NegateMachine
<1>15. IsMachine(Float(c, i)) /\ IsMachine(Fix(c, i)) BY FloatMachine, FixMachine
<1>16. IsMachine(Floating(c, i, t))
  <2>1. t \in Words \X Words \X BOOLEAN BY CpuAssumption
  <2> QED BY <2>1, FloatingMachine
<1>17. IsMachine(Block(c)) /\ IsMachine(Port(c, i)) BY BlockMachine, PortMachine

<1>18. CASE i.op \in DOMAIN Meaning BY <1>3, <1>18, PerformAlu
<1>19. CASE i.op \in FirstOps
  <2>1. i.op \notin DOMAIN Meaning BY <1>19, AluApart
  <2> QED BY <1>2, <1>4, <1>5, <1>19, <2>1 DEF Perform, FirstOps
<1>20. CASE i.op \in SecondOps
  <2>1. i.op \notin DOMAIN Meaning BY <1>20, AluApart
  <2> QED BY <1>6, <1>7, <1>20, <2>1 DEF Perform, SecondOps
<1>21. CASE i.op \in ThirdOps
  <2>1. i.op \notin DOMAIN Meaning BY <1>21, AluApart
  <2> QED BY <1>8, <1>9, <1>10, <1>21, <2>1 DEF Perform, ThirdOps
<1>22. CASE i.op \in FourthOps
  <2>1. i.op \notin DOMAIN Meaning BY <1>22, AluApart
  <2> QED BY <1>11, <1>12, <1>13, <1>14, <1>22, <2>1 DEF Perform, FourthOps
<1>23. CASE i.op \in FifthOps
  <2>1. i.op \notin DOMAIN Meaning BY <1>23, AluApart
  <2> QED BY <1>15, <1>16, <1>17, <1>23, <2>1 DEF Perform, FifthOps
<1> QED BY <1>1, <1>18, <1>19, <1>20, <1>21, <1>22, <1>23, OpsCovered

LEMMA AcceptMachine == ASSUME NEW c, IsMachine(c), NEW lv \in 0 .. 2 PROVE IsMachine(Accept(c, lv))
<1> DEFINE away == [c EXCEPT !.pend = @ \ {lv}, !.seg[0] = 0, !.seg[4 + lv] = c.seg[0]]
           once == Wr(away, 2 * lv, c.str)
           saved == Wr(once, 2 * lv + 1, c.ic)
           npsw == 256 * c.spec[2] + 2 * lv
           str == Rd(saved, npsw)
           to == Rd(saved, npsw + 1)
<1>1. IsMachine(away)
  <2> DEFINE n == 4 + lv
             pend == c.pend \ {lv}
             seg == [c.seg EXCEPT ![0] = 0, ![n] = c.seg[0]]
  <2>1. n \in 0 .. 7 /\ c.seg \in [0 .. 7 -> 0 .. 15] /\ pend \subseteq 0 .. 2 BY MachineFields
  <2> HIDE DEF n, pend
  <2>2. seg \in [0 .. 7 -> 0 .. 15] BY <2>1
  <2> HIDE DEF seg
  <2>3. IsMachine([c EXCEPT !.pend = pend, !.seg = seg]) BY <2>1, <2>2 DEF IsMachine
  <2>4. away = [c EXCEPT !.pend = pend, !.seg = seg] BY DEF IsMachine, pend, seg, n
  <2> QED BY <2>3, <2>4
<1> HIDE DEF away
<1>2. IsMachine(once) BY <1>1, MachineFields, WrMachine
<1> HIDE DEF once
<1>3. IsMachine(saved) BY <1>2, MachineFields, WrMachine
<1> HIDE DEF saved, npsw
<1>4. str \in Words /\ to \in Words BY <1>3, RdWord
<1> HIDE DEF str, to
<1>5. IsMachine([saved EXCEPT !.str = str, !.ic = to]) BY <1>3, <1>4 DEF IsMachine
<1> QED BY <1>5 DEF Accept, str, to, npsw, saved, once, away

LEMMA ExecutedMachine ==
  ASSUME NEW c, IsMachine(c), NEW t \in FloatResults
  PROVE  IsMachine(Executed(c, t)) /\ IsMachine(Uninterrupted(c, t))
<1> DEFINE i == Fetched(c)
           next == [c EXCEPT !.ic = Word(@ + i.words)]
           imm == RdC(c, Word(c.ic + 1))
<1>1. IsInsn(i) BY RdCWord, Decoded DEF Fetched
<1>2. imm \in Words BY RdCWord
<1> HIDE DEF i, imm
<1>3. Word(c.ic + i.words) \in Words BY <1>1, MachineFields, WordRange, WordIsWord DEF IsInsn
<1>4. IsMachine(next) BY <1>3, SetIc
<1> HIDE DEF next
<1>5. i.op # ".word" => IsMachine(Perform(next, i, imm, t)) BY <1>1, <1>2, <1>4, PerformMachine
<1>6. \A b : IsMachine(b) => IsMachine([b EXCEPT !.iisr = Or(@, 1)])
  <2> SUFFICES ASSUME NEW b, IsMachine(b) PROVE IsMachine([b EXCEPT !.iisr = Or(@, 1)]) OBVIOUS
  <2>1. Or(b.iisr, 1) \in Words BY LogicWord
  <2> QED BY <2>1 DEF IsMachine
<1>7. IsMachine(Accept([next EXCEPT !.iisr = Or(@, 1)], 0)) BY <1>4, <1>6, AcceptMachine
<1>8. IsMachine(Executed(c, t)) BY <1>5, <1>7 DEF Executed, i, next, imm
<1>9. IsMachine([c EXCEPT !.ic = Word(@ + 1), !.iisr = Or(@, 1)])
  <2>1. Or(c.iisr, 1) \in Words /\ Word(c.ic + 1) \in Words BY LogicWord, MachineFields, WordRange, WordIsWord
  <2> QED BY <2>1 DEF IsMachine
<1>10. IsMachine(Uninterrupted(c, t)) BY <1>8, <1>9 DEF Uninterrupted
<1> QED BY <1>8, <1>10

-----------------------------------------------------------------------------
(* The type invariant *)

TypeOk ==
  /\ IsMachine(m) /\ IsMachine(start) /\ IsMachine(ref)
  /\ status \in {"idle", "running", "halted", "break", "step"} /\ hlt \in BOOLEAN
  /\ nest \in Seq(0 .. 2) /\ edges \in 0 .. MaxEdges

LEMMA AcceptableLevels == \A c : IsMachine(c) => Acceptable(c) \subseteq 0 .. 2
BY MachineFields DEF Acceptable

LEMMA ExecuteOneTyped ==
  ASSUME TypeOk, NEW after \in {"running", "step"}, ExecuteOne(after)
  PROVE  TypeOk'
<1> DEFINE open == Acceptable(m)
           lv == CHOOSE l \in open : \A o \in open : l <= o
           c == IF open = {} THEN m ELSE Accept(m, lv)
           levels == IF open = {} THEN nest ELSE Append(nest, lv)
           op == Fetched(c).op
<1>1. IsMachine(m) /\ IsMachine(ref) /\ nest \in Seq(0 .. 2) BY DEF TypeOk
<1>2. open # {} => lv \in 0 .. 2
  <2>1. open \subseteq 0 .. 2 /\ open \subseteq 0 .. 15 BY <1>1, AcceptableLevels
  <2> HIDE DEF open
  <2> QED BY <2>1, LeftmostBit
<1> HIDE DEF open, lv
<1>3. IsMachine(c) /\ levels \in Seq(0 .. 2)
  <2>1. CASE open = {} BY <1>1, <2>1
  <2>2. CASE open # {}
    <3>1. IsMachine(Accept(m, lv)) BY <1>1, <1>2, <2>2, AcceptMachine
    <3>2. Append(nest, lv) \in Seq(0 .. 2) BY <1>1, <1>2, <2>2
    <3> QED BY <2>2, <3>1, <3>2
  <2> QED BY <2>1, <2>2
<1> HIDE DEF c, levels, op
<1>4. PICK t \in FloatResults :
        /\ m' = Executed(c, t)
        /\ ref' = IF levels = << >> THEN Uninterrupted(ref, t) ELSE ref
  BY DEF ExecuteOne, c, levels, lv, open
<1>5. /\ status' = IF op = "H" THEN "halted" ELSE after
      /\ nest' = CASE op = ".word" -> Append(levels, 0)
                   [] op = "LPSW" /\ levels # << >> -> SubSeq(levels, 1, Len(levels) - 1)
                   [] OTHER -> levels
      /\ hlt' = hlt /\ start' = start /\ edges' = edges
  BY DEF ExecuteOne, op, c, levels, lv, open
<1>6. IsMachine(m') /\ IsMachine(ref') BY <1>1, <1>3, <1>4, ExecutedMachine
<1>7. nest' \in Seq(0 .. 2)
  <2>1. Append(levels, 0) \in Seq(0 .. 2) BY <1>3
  <2>2. levels # << >> => SubSeq(levels, 1, Len(levels) - 1) \in Seq(0 .. 2) BY <1>3
  <2> QED BY <1>3, <1>5, <2>1, <2>2
<1> QED BY <1>5, <1>6, <1>7 DEF TypeOk


LEMMA ResetTyped == ASSUME TypeOk, Reset PROVE TypeOk'
<1> DEFINE vec == IF 0 \in DOMAIN m.io THEN m.io[0] ELSE 0
           str == Rd(m, vec + 2)
           to == Rd(m, vec + 3)
           r == [n \in 0 .. 4 |-> 0]
           seg == [b \in 0 .. 7 |-> 0]
           spec == [p \in 0 .. 2 |-> IF p = 2 THEN 1 ELSE 0]
           clear == [m EXCEPT !.r = r, !.sp = 0, !.seg = seg, !.spec = spec, !.iisr = 0, !.pend = {},
                      !.str = str, !.ic = to, !.keeps = {}]
<1>1. IsMachine(m) BY DEF TypeOk
<1> HIDE DEF vec
<1>2. str \in Words /\ to \in Words BY <1>1, RdWord
<1> HIDE DEF str, to
<1>3. 0 \in Words /\ 1 \in Words BY WordRange
<1>4. r \in [0 .. 4 -> Words] /\ seg \in [0 .. 7 -> 0 .. 15] /\ spec \in [0 .. 2 -> Words] BY <1>3
<1> HIDE DEF r, seg, spec
<1>5. IsMachine(clear) BY <1>1, <1>2, <1>3, <1>4 DEF IsMachine
<1>6. m' = clear /\ start' = clear /\ ref' = clear /\ nest' = << >>
  BY DEF Reset, clear, str, to, vec, r, seg, spec
<1> HIDE DEF clear
<1>7. edges' \in 0 .. MaxEdges /\ status' \in {"halted", "running"} /\ hlt' = hlt
  BY CpuAssumption DEF Reset, TypeOk
<1>8. << >> \in Seq(0 .. 2) OBVIOUS
<1> QED BY <1>5, <1>6, <1>7, <1>8 DEF TypeOk

LEMMA RaiseTyped == ASSUME TypeOk, NEW lv \in 0 .. 2, RaiseIrq(lv) PROVE TypeOk'
<1> DEFINE pend == m.pend \cup {lv}
<1>1. IsMachine(m) BY DEF TypeOk
<1>2. pend \subseteq 0 .. 2 BY <1>1, MachineFields
<1> HIDE DEF pend
<1>3. IsMachine([m EXCEPT !.pend = pend]) BY <1>1, <1>2 DEF IsMachine
<1>4. m' = [m EXCEPT !.pend = pend] BY DEF RaiseIrq, pend
<1>5. edges' \in 0 .. MaxEdges BY CpuAssumption DEF RaiseIrq, TypeOk
<1> QED BY <1>3, <1>4, <1>5 DEF RaiseIrq, TypeOk

LEMMA TypedInitially == Init => TypeOk
<1>1. ASSUME Init PROVE IsMachine(m) BY <1>1, CpuAssumption DEF Init
<1>2. << >> \in Seq(0 .. 2) OBVIOUS
<1> QED BY <1>1, <1>2 DEF Init, TypeOk

LEMMA TypedNext == TypeOk /\ [Next]_vars => TypeOk'
<1> SUFFICES ASSUME TypeOk, [Next]_vars PROVE TypeOk' OBVIOUS
<1>1. CASE Tick
  <2>1. CASE m.ic \in Breakpoints BY <1>1, <2>1 DEF Tick, TypeOk
  <2>2. CASE m.ic \notin Breakpoints BY <1>1, <2>2, ExecuteOneTyped DEF Tick
  <2> QED BY <2>1, <2>2
<1>2. CASE Step BY <1>2, ExecuteOneTyped DEF Step
<1>3. CASE StartRun BY <1>3 DEF StartRun, Control, TypeOk
<1>4. CASE RequestHalt BY <1>4 DEF RequestHalt, Control, TypeOk
<1>5. CASE SetStepMode BY <1>5 DEF SetStepMode, Control, TypeOk
<1>6. CASE SetHlt BY <1>6 DEF SetHlt, Control, TypeOk
<1>7. CASE ReleaseHlt BY <1>7 DEF ReleaseHlt, Control, TypeOk
<1>8. CASE Reset BY <1>8, ResetTyped
<1>9. ASSUME NEW lv \in 0 .. 2, RaiseIrq(lv) PROVE TypeOk' BY <1>9, RaiseTyped
<1>10. CASE UNCHANGED vars BY <1>10 DEF vars, TypeOk
<1> QED BY <1>1, <1>2, <1>3, <1>4, <1>5, <1>6, <1>7, <1>8, <1>9, <1>10 DEF Next

\* Whatever the memory holds and whatever is executed, registers, flags, segments, memory and ports
\* stay words of their width (every handler of _executeOne, _acceptIrq, _trapUndefinedInsn, reset).
THEOREM TypeCorrect == Spec => []TypeOk
<1>1. Init => TypeOk BY TypedInitially
<1>2. TypeOk /\ [Next]_vars => TypeOk' BY TypedNext
<1> QED BY <1>1, <1>2, PTL DEF Spec


-----------------------------------------------------------------------------
(* The flags of additions, subtractions and comparisons *)

LEMMA FlagsShow ==
  ASSUME NEW c, IsMachine(c), NEW e \in BOOLEAN, NEW v \in BOOLEAN
  PROVE  (HasBit(Flags(c, e, v).str, E) <=> e) /\ (HasBit(Flags(c, e, v).str, OVF) <=> v)
<1> DEFINE s == WithBit(c.str, E, e)
           u == WithBit(s, OVF, v)
<1>1. c.str \in Words BY MachineFields
<1>2. s \in Words /\ HasBit(s, E) = e BY <1>1, FlagBits
<1> HIDE DEF s
<1>3. HasBit(u, OVF) = v /\ HasBit(u, E) = HasBit(s, E) BY <1>2, FlagBits
<1>4. Flags(c, e, v).str = u BY DEF Flags, IsMachine, u, s
<1> HIDE DEF u
<1> QED BY <1>2, <1>3, <1>4

LEMMA SumFlags ==
  ASSUME NEW a \in Words, NEW b \in Words
  PROVE  /\ a + b > 65535 <=> a + b \notin Words
         /\ (Negative(a) = Negative(b) /\ Negative(a) # Negative(Word(a + b)))
            <=> (Signed(a) + Signed(b) < -32768 \/ Signed(a) + Signed(b) > 32767)
BY WordRange DEF Negative, Signed, Word

LEMMA DifferenceFlags ==
  ASSUME NEW a \in Words, NEW b \in Words
  PROVE  /\ a < b <=> a - b \notin Words
         /\ (Negative(a) # Negative(b) /\ Negative(a) # Negative(Word(a - b)))
            <=> (Signed(a) - Signed(b) < -32768 \/ Signed(a) - Signed(b) > 32767)
BY WordRange DEF Negative, Signed, Word

\* A skip and a result in a register other than STR leave the flags alone.
LEMMA ResultKeepsFlags ==
  ASSUME NEW c, IsMachine(c), NEW n \in 0 .. 5, NEW cond, NEW w
  PROVE  SkipIf(c, cond, w).str = c.str /\ Result(c, n, cond, w).str = c.str
<1>1. \A b, k, v : IsMachine(b) => SkipIf(b, k, v).str = b.str BY DEF SkipIf, IsMachine
<1>2. Sw(c, n, w).str = c.str BY DEF Sw, IsMachine
<1>3. Result(c, n, cond, w).str = Sw(c, n, w).str
  BY DEF Result, SkipIf, Sw, IsMachine
<1> QED BY <1>1, <1>2, <1>3


LEMMA AddedFlags ==
  ASSUME NEW c, IsMachine(c), NEW a \in Words, NEW b \in Words
  PROVE  /\ HasBit(Added(c, a, b).str, E) <=> a + b \notin Words
         /\ HasBit(Added(c, a, b).str, OVF) <=> (Signed(a) + Signed(b) < -32768 \/ Signed(a) + Signed(b) > 32767)
<1> DEFINE e == a + b > 65535
           v == Negative(a) = Negative(b) /\ Negative(a) # Negative(Word(a + b))
<1>1. e \in BOOLEAN /\ v \in BOOLEAN OBVIOUS
<1>2. (e <=> a + b \notin Words)
      /\ (v <=> (Signed(a) + Signed(b) < -32768 \/ Signed(a) + Signed(b) > 32767))
  BY SumFlags
<1>3. Added(c, a, b) = Flags(c, e, v) BY DEF Added
<1> HIDE DEF e, v
<1>4. (HasBit(Flags(c, e, v).str, E) <=> e) /\ (HasBit(Flags(c, e, v).str, OVF) <=> v) BY <1>1, FlagsShow
<1> QED BY <1>2, <1>3, <1>4

LEMMA SubtractedFlags ==
  ASSUME NEW c, IsMachine(c), NEW a \in Words, NEW b \in Words
  PROVE  /\ HasBit(Subtracted(c, a, b).str, E) <=> a - b \notin Words
         /\ HasBit(Subtracted(c, a, b).str, OVF) <=> (Signed(a) - Signed(b) < -32768 \/ Signed(a) - Signed(b) > 32767)
<1> DEFINE e == a < b
           v == Negative(a) # Negative(b) /\ Negative(a) # Negative(Word(a - b))
<1>1. e \in BOOLEAN /\ v \in BOOLEAN OBVIOUS
<1>2. (e <=> a - b \notin Words)
      /\ (v <=> (Signed(a) - Signed(b) < -32768 \/ Signed(a) - Signed(b) > 32767))
  BY DifferenceFlags
<1>3. Subtracted(c, a, b) = Flags(c, e, v) BY DEF Subtracted
<1> HIDE DEF e, v
<1>4. (HasBit(Flags(c, e, v).str, E) <=> e) /\ (HasBit(Flags(c, e, v).str, OVF) <=> v) BY <1>1, FlagsShow
<1> QED BY <1>2, <1>3, <1>4

LEMMA AluFlags ==
  ASSUME NEW c, IsMachine(c), NEW i, IsInsn(i), NEW imm \in Words, i.op \in DOMAIN Meaning, i.r < 6,
         NEW a, a = Gr(c, i.r), NEW b, b = Operand(c, i, imm), NEW n, n = Alu(c, i, imm).str
  PROVE  /\ Meaning[i.op] = "add" =>
              /\ HasBit(n, E) <=> a + b \notin Words
              /\ HasBit(n, OVF) <=> (Signed(a) + Signed(b) < -32768 \/ Signed(a) + Signed(b) > 32767)
         /\ Meaning[i.op] \in {"sub", "cmp"} =>
              /\ HasBit(n, E) <=> a - b \notin Words
              /\ HasBit(n, OVF) <=> (Signed(a) - Signed(b) < -32768 \/ Signed(a) - Signed(b) > 32767)
<1>1. i.r \in 0 .. 5 /\ i.r \in 0 .. 7 BY DEF IsInsn
<1>2. a \in Words /\ b \in Words BY <1>1, GrWord, OperandWord
<1>3. CASE Meaning[i.op] = "add"
  <2>1. Alu(c, i, imm) = Result(Added(c, a, b), i.r, i.k, Word(a + b)) BY <1>3 DEF Alu
  <2>2. n = Added(c, a, b).str BY <1>1, <2>1, AddedMachine, ResultKeepsFlags
  <2> QED BY <1>2, <1>3, <2>2, AddedFlags
<1>4. CASE Meaning[i.op] \in {"sub", "cmp"}
  <2>1. \/ Alu(c, i, imm) = Result(Subtracted(c, a, b), i.r, i.k, Word(a - b))
        \/ Alu(c, i, imm) = SkipIf(Subtracted(c, a, b), i.k, Word(a - b))
    BY <1>4 DEF Alu
  <2>2. n = Subtracted(c, a, b).str BY <1>1, <2>1, AddedMachine, ResultKeepsFlags
  <2> QED BY <1>2, <1>4, <2>2, SubtractedFlags
<1> QED BY <1>3, <1>4

\* An instruction is carried out on a machine whose IC is behind it.
LEMMA ExecutedFlags ==
  ASSUME TypeOk, NEW t \in FloatResults, m' = Executed(m, t)
  PROVE  ExactFlags
<1> DEFINE i == Fetched(m)
           c == [m EXCEPT !.ic = Word(@ + i.words)]
           imm == RdC(m, Word(m.ic + 1))
<1> SUFFICES ASSUME i.op \in DOMAIN Meaning, i.r < 6 PROVE ExactFlags BY DEF ExactFlags
<1>1. IsMachine(m) BY DEF TypeOk
<1>2. IsInsn(i) /\ imm \in Words BY <1>1, RdCWord, Decoded DEF Fetched
<1> HIDE DEF i, imm
<1>3. Word(m.ic + i.words) \in Words BY <1>1, <1>2, MachineFields, WordRange, WordIsWord DEF IsInsn
<1>4. IsMachine(c) BY <1>1, <1>3, SetIc
<1>5. Gr(c, i.r) = Gr(m, i.r) BY <1>1, <1>2 DEF Gr, IsMachine, IsInsn
<1> HIDE DEF c
<1>6. m' = Alu(c, i, imm) BY AluApart, PerformAlu DEF Executed, i, c, imm
<1> DEFINE a == Gr(m, i.r)
           b == Operand(c, i, imm)
           n == m'.str
<1>7. /\ Meaning[i.op] = "add" =>
           /\ HasBit(n, E) <=> a + b \notin Words
           /\ HasBit(n, OVF) <=> (Signed(a) + Signed(b) < -32768 \/ Signed(a) + Signed(b) > 32767)
      /\ Meaning[i.op] \in {"sub", "cmp"} =>
           /\ HasBit(n, E) <=> a - b \notin Words
           /\ HasBit(n, OVF) <=> (Signed(a) - Signed(b) < -32768 \/ Signed(a) - Signed(b) > 32767)
  BY <1>2, <1>4, <1>5, <1>6, AluFlags
<1> HIDE DEF a, b, n
<1>8. HasBit(n, E) \in BOOLEAN /\ HasBit(n, OVF) \in BOOLEAN BY DEF HasBit
<1>9. CASE Meaning[i.op] = "add" BY <1>7, <1>8, <1>9 DEF ExactFlags, i, c, imm, a, b, n
<1>10. CASE Meaning[i.op] \in {"sub", "cmp"} BY <1>7, <1>8, <1>10 DEF ExactFlags, i, c, imm, a, b, n
<1>11. CASE Meaning[i.op] \notin {"add", "sub", "cmp"} BY <1>11 DEF ExactFlags, i
<1> QED BY <1>9, <1>10, <1>11

LEMMA ExactNext == TypeOk /\ [Next]_vars => ExactFlags
<1> SUFFICES ASSUME TypeOk, [Next]_vars PROVE ExactFlags OBVIOUS
<1>1. ASSUME m' = m PROVE ExactFlags BY <1>1 DEF ExactFlags
<1>2. ASSUME NEW after, ExecuteOne(after) PROVE ExactFlags
  <2>1. CASE Acceptable(m) = {}
    <3>1. PICK t \in FloatResults : m' = Executed(m, t) BY <1>2, <2>1 DEF ExecuteOne
    <3> QED BY <3>1, ExecutedFlags
  <2>2. CASE Acceptable(m) # {} BY <2>2 DEF ExactFlags
  <2> QED BY <2>1, <2>2
<1>3. CASE Tick BY <1>1, <1>2, <1>3 DEF Tick
<1>4. CASE Step BY <1>2, <1>4 DEF Step
<1>5. CASE StartRun \/ RequestHalt \/ SetStepMode \/ SetHlt \/ ReleaseHlt
  BY <1>1, <1>5 DEF StartRun, RequestHalt, SetStepMode, SetHlt, ReleaseHlt, Control
<1>6. CASE Reset
  <2>1. edges' # edges BY <1>6, CpuAssumption DEF Reset, TypeOk
  <2> QED BY <2>1 DEF ExactFlags
<1>7. ASSUME NEW lv \in 0 .. 2, RaiseIrq(lv) PROVE ExactFlags
  <2>1. m'.ic = m.ic BY <1>7 DEF RaiseIrq, TypeOk, IsMachine
  <2> QED BY <2>1 DEF ExactFlags
<1>8. CASE UNCHANGED vars BY <1>1, <1>8 DEF vars
<1> QED BY <1>3, <1>4, <1>5, <1>6, <1>7, <1>8 DEF Next

\* Of every program, wherever interrupts and resets come: an addition sets E to the carry out of the
\* words, a subtraction or comparison to the borrow, and OVF exactly where the signed result does not fit
\* (_add, _sub for register, immediate and memory operands).
THEOREM FlagsAlwaysExact == Spec => FlagsAreExact
<1>1. Init => TypeOk BY TypedInitially
<1>2. TypeOk /\ [Next]_vars => TypeOk' BY TypedNext
<1>3. TypeOk /\ [Next]_vars => ExactFlags BY ExactNext
<1> QED BY <1>1, <1>2, <1>3, PTL DEF Spec, FlagsAreExact

-----------------------------------------------------------------------------
(* Interrupts return, inverse instructions undo each other *)

\* LPSW of a level gives back status word, address and code segment of the program its interrupt came
\* to, whatever the handler did beside leaving the saved words and the OSR of its level alone
\* (_acceptIrq and LPSW).
THEOREM InterruptReturns ==
  ASSUME NEW c, IsMachine(c), NEW lv \in 0 .. 2, NEW d, IsMachine(d), NEW i, IsInsn(i), NEW imm,
         i.op = "LPSW", i.x = lv,
         Rd(d, 2 * lv) = Rd(Accept(c, lv), 2 * lv),
         Rd(d, 2 * lv + 1) = Rd(Accept(c, lv), 2 * lv + 1),
         d.seg[4 + lv] = Accept(c, lv).seg[4 + lv]
  PROVE  /\ Branch(d, i, imm).str = c.str
         /\ Branch(d, i, imm).ic = c.ic
         /\ Branch(d, i, imm).seg[0] = c.seg[0]
         /\ Branch(d, i, imm) = [d EXCEPT !.str = c.str, !.ic = c.ic, !.seg[0] = c.seg[0]]
<1> DEFINE b == [c EXCEPT !.pend = @ \ {lv}, !.seg[0] = 0, !.seg[4 + lv] = c.seg[0]]
           first == Wr(b, 2 * lv, c.str)
           saved == Wr(first, 2 * lv + 1, c.ic)
           npsw == 256 * c.spec[2] + 2 * lv
<1>1. Accept(c, lv) = [saved EXCEPT !.str = Rd(saved, npsw), !.ic = Rd(saved, npsw + 1)]
  BY DEF Accept
<1>2. b.seg[4 + lv] = c.seg[0] /\ b.mem = c.mem
  <2>1. c.seg \in [0 .. 7 -> 0 .. 15] BY MachineFields
  <2> QED BY <2>1 DEF IsMachine
<1>3. first.mem = [q \in DOMAIN c.mem \cup {2 * lv} |-> IF q = 2 * lv THEN c.str ELSE c.mem[q]]
      /\ first.seg = b.seg
  BY <1>2 DEF Wr, IsMachine
<1> HIDE DEF b
<1>4. saved.mem = [q \in DOMAIN first.mem \cup {2 * lv + 1} |-> IF q = 2 * lv + 1 THEN c.ic ELSE first.mem[q]]
      /\ saved.seg = first.seg
  BY DEF Wr
<1> HIDE DEF first
<1>5. Rd(saved, 2 * lv) = c.str /\ Rd(saved, 2 * lv + 1) = c.ic /\ saved.seg[4 + lv] = c.seg[0]
  <2>1. 2 * lv # 2 * lv + 1 OBVIOUS
  <2>2. 2 * lv \in DOMAIN first.mem /\ first.mem[2 * lv] = c.str BY <1>3
  <2>3. 2 * lv \in DOMAIN saved.mem /\ saved.mem[2 * lv] = c.str BY <1>4, <2>1, <2>2
  <2>4. 2 * lv + 1 \in DOMAIN saved.mem /\ saved.mem[2 * lv + 1] = c.ic BY <1>4
  <2>5. saved.seg[4 + lv] = c.seg[0] BY <1>2, <1>3, <1>4
  <2> HIDE DEF saved
  <2> QED BY <2>3, <2>4, <2>5 DEF Rd
<1>6. \A x, y : [saved EXCEPT !.str = x, !.ic = y].mem = saved.mem /\ [saved EXCEPT !.str = x, !.ic = y].seg = saved.seg
  BY DEF Wr
<1> HIDE DEF saved, npsw
<1>7. Rd(d, 2 * lv) = c.str /\ Rd(d, 2 * lv + 1) = c.ic /\ d.seg[4 + lv] = c.seg[0]
  BY <1>1, <1>5, <1>6 DEF Rd
<1>8. Branch(d, i, imm) = [d EXCEPT !.str = Rd(d, 2 * lv), !.ic = Rd(d, 2 * lv + 1), !.seg[0] = d.seg[4 + lv]]
  BY DEF Branch
<1>9. Branch(d, i, imm) = [d EXCEPT !.str = c.str, !.ic = c.ic, !.seg[0] = c.seg[0]]
  BY <1>7, <1>8
<1>10. d.seg \in [0 .. 7 -> 0 .. 15] BY MachineFields
<1> QED BY <1>9, <1>10 DEF IsMachine

LEMMA PerformGroups ==
  ASSUME NEW c, NEW i, NEW imm, NEW t
  PROVE  /\ i.op \in {"AD", "SD"} => Perform(c, i, imm, t) = Double(c, i)
         /\ i.op = "M" => Perform(c, i, imm, t) = Multiply(c, i)
         /\ i.op = "D" => Perform(c, i, imm, t) = Divide(c, i)
         /\ i.op = "FLT" => Perform(c, i, imm, t) = Float(c, i)
         /\ i.op = "FIX" => Perform(c, i, imm, t) = Fix(c, i)
         /\ i.op \in {"PSHM", "POPM"} => Perform(c, i, imm, t) = Stack(c, i)
         /\ i.op \in {"SRBT", "DEBP"} => Perform(c, i, imm, t) = Bits(c, i, imm)
<1>1. \A op \in {"AD", "SD", "M", "D", "SRBT", "DEBP"} : op \in FourthOps BY DEF FourthOps
<1>2. \A op \in {"FLT", "FIX"} : op \in FifthOps BY DEF FifthOps
<1>3. \A op \in {"PSHM", "POPM"} : op \in SecondOps BY DEF SecondOps
<1>4. \A op \in {"AD", "SD", "M", "D", "SRBT", "DEBP", "FLT", "FIX", "PSHM", "POPM"} : op \notin DOMAIN Meaning
  BY <1>1, <1>2, <1>3, AluApart
<1>5. i.op \in {"AD", "SD"} => Perform(c, i, imm, t) = Double(c, i) BY <1>4 DEF Perform
<1>6. i.op = "M" => Perform(c, i, imm, t) = Multiply(c, i) BY <1>4 DEF Perform
<1>7. i.op = "D" => Perform(c, i, imm, t) = Divide(c, i) BY <1>4 DEF Perform
<1>8. i.op = "FLT" => Perform(c, i, imm, t) = Float(c, i) BY <1>4 DEF Perform
<1>9. i.op = "FIX" => Perform(c, i, imm, t) = Fix(c, i) BY <1>4 DEF Perform
<1>10. i.op \in {"PSHM", "POPM"} => Perform(c, i, imm, t) = Stack(c, i) BY <1>4 DEF Perform
<1>11. i.op \in {"SRBT", "DEBP"} => Perform(c, i, imm, t) = Bits(c, i, imm) BY <1>4 DEF Perform
<1> QED BY <1>5, <1>6, <1>7, <1>8, <1>9, <1>10, <1>11

\* What a result leaves alone.
LEMMA FlagsKeep ==
  ASSUME NEW c, IsMachine(c), NEW e, NEW v
  PROVE  Flags(c, e, v).r = c.r /\ Flags(c, e, v).sp = c.sp /\ Flags(c, e, v).mem = c.mem /\ Flags(c, e, v).seg = c.seg
BY DEF Flags, IsMachine
LEMMA SkipIfKeeps ==
  ASSUME NEW c, IsMachine(c), NEW cond, NEW w
  PROVE  /\ SkipIf(c, cond, w).r = c.r /\ SkipIf(c, cond, w).sp = c.sp
         /\ SkipIf(c, cond, w).mem = c.mem /\ SkipIf(c, cond, w).seg = c.seg
BY DEF SkipIf, IsMachine
LEMMA ResultKeeps ==
  ASSUME NEW c, IsMachine(c), NEW n \in 0 .. 5, NEW cond, NEW w \in Words
  PROVE  /\ Gr(Result(c, n, cond, w), n) = w
         /\ \A k \in 0 .. 5 : k # n => Gr(Result(c, n, cond, w), k) = Gr(c, k)
         /\ Result(c, n, cond, w).mem = c.mem /\ Result(c, n, cond, w).seg = c.seg
<1> DEFINE b == Sw(c, n, w)
<1>1. IsMachine(b)
  <2>1. n \in 0 .. 7 OBVIOUS
  <2> QED BY <2>1, SwMachine
<1>2. c.r \in [0 .. 4 -> Words] BY MachineFields
<1>3. Gr(b, n) = w /\ b.mem = c.mem /\ b.seg = c.seg BY <1>2 DEF Sw, Gr, IsMachine
<1>4. \A k \in 0 .. 5 : k # n => Gr(b, k) = Gr(c, k) BY <1>2 DEF Sw, Gr, IsMachine
<1> HIDE DEF b
<1>5. \A k \in 0 .. 5 : Gr(SkipIf(b, cond, w), k) = Gr(b, k) BY <1>1, SkipIfKeeps DEF Gr
<1>6. Result(c, n, cond, w) = SkipIf(b, cond, w) BY DEF Result, b
<1> QED BY <1>1, <1>3, <1>4, <1>5, <1>6, SkipIfKeeps
LEMMA Result32Keeps ==
  ASSUME NEW c, IsMachine(c), NEW cond, NEW a \in Words, NEW b \in Words
  PROVE  /\ Result32(c, cond, a, b).r = [c.r EXCEPT ![0] = a, ![1] = b]
         /\ Result32(c, cond, a, b).sp = c.sp
         /\ Result32(c, cond, a, b).mem = c.mem /\ Result32(c, cond, a, b).seg = c.seg
<1> DEFINE d == [c EXCEPT !.r[0] = a, !.r[1] = b]
<1>1. IsMachine(d) BY PairMachine
<1>2. d.r = [c.r EXCEPT ![0] = a, ![1] = b] /\ d.sp = c.sp /\ d.mem = c.mem /\ d.seg = c.seg BY DEF IsMachine
<1>3. Result32(c, cond, a, b) = SkipIf(d, cond, Or(a, b)) BY DEF Result32
<1> HIDE DEF d
<1> QED BY <1>1, <1>2, <1>3, SkipIfKeeps

LEMMA WordsUndo ==
  ASSUME NEW a \in Words, NEW b \in Words
  PROVE  Word(Word(a + b) - b) = a /\ Word(Word(a - b) + b) = a
BY WordRange DEF Word

\* Register, immediate and memory forms with the same operand, which the target is not part of.
SameOperand(i, j, imm, jmm) ==
  \/ i.op \in {"A", "S"} /\ j.op \in {"A", "S"} /\ i.x = j.x /\ i.x \in 0 .. 5 /\ i.x # i.r
  \/ i.op \in {"AWI", "SWI"} /\ j.op \in {"AWI", "SWI"} /\ imm = jmm
  \/ i.op \in {"AWR", "SWR"} /\ j.op \in {"AWR", "SWR"} /\ i.x = j.x /\ i.x + 1 # i.r

LEMMA SumOrDifference ==
  ASSUME NEW c, IsMachine(c), NEW i, IsInsn(i), NEW imm \in Words,
         i.op \in {"A", "AWI", "AWR", "S", "SWI", "SWR"}, i.r \in 0 .. 5
  PROVE  LET d == Alu(c, i, imm)
             a == Gr(c, i.r)
             b == Operand(c, i, imm)
         IN  /\ IsMachine(d) /\ a \in Words /\ b \in Words
             /\ Gr(d, i.r) = Word(IF i.op \in {"A", "AWI", "AWR"} THEN a + b ELSE a - b)
             /\ \A k \in 0 .. 5 : k # i.r => Gr(d, k) = Gr(c, k)
             /\ d.mem = c.mem /\ d.seg = c.seg
<1> DEFINE d == Alu(c, i, imm)
           a == Gr(c, i.r)
           b == Operand(c, i, imm)
           add == i.op \in {"A", "AWI", "AWR"}
           flagged == IF add THEN Added(c, a, b) ELSE Subtracted(c, a, b)
           w == Word(IF add THEN a + b ELSE a - b)
<1>1. i.op \in DOMAIN Meaning /\ Meaning[i.op] = (IF add THEN "add" ELSE "sub") BY DEF Meaning
<1>2. a \in Words /\ b \in Words BY <1>1, GrWord, OperandWord
<1>3. IsMachine(d) BY <1>1, AluMachine
<1>4. d = Result(flagged, i.r, i.k, w) BY <1>1 DEF Alu
<1>5. IsMachine(flagged) /\ flagged.mem = c.mem /\ flagged.seg = c.seg /\ flagged.r = c.r /\ flagged.sp = c.sp
  BY <1>2, AddedMachine, FlagsKeep DEF Added, Subtracted
<1>6. w \in Words BY <1>2, WordRange, WordIsWord
<1> HIDE DEF d, a, b, flagged, w
<1>7. \A k \in 0 .. 5 : Gr(flagged, k) = Gr(c, k) BY <1>5 DEF Gr
<1>8. /\ Gr(d, i.r) = w
      /\ \A k \in 0 .. 5 : k # i.r => Gr(d, k) = Gr(flagged, k)
      /\ d.mem = flagged.mem /\ d.seg = flagged.seg
  BY <1>4, <1>5, <1>6, ResultKeeps
<1>9. \A k \in 0 .. 5 : k # i.r => Gr(d, k) = Gr(c, k) BY <1>7, <1>8
<1> QED BY <1>2, <1>3, <1>5, <1>8, <1>9 DEF d, a, b, w

\* A subtraction takes back an addition of the same operand and the other way round, in whichever
\* form either is written (_add and _sub).
THEOREM SubtractionUndoes ==
  ASSUME NEW c, IsMachine(c), NEW i, IsInsn(i), NEW imm \in Words, NEW t,
         NEW j, IsInsn(j), NEW jmm \in Words, NEW u,
         i.r \in 0 .. 5, j.r = i.r, SameOperand(i, j, imm, jmm),
         i.op \in {"A", "AWI", "AWR"} <=> j.op \notin {"A", "AWI", "AWR"}
  PROVE  \A k \in 0 .. 5 : Gr(Perform(Perform(c, i, imm, t), j, jmm, u), k) = Gr(c, k)
<1> DEFINE sums == {"A", "AWI", "AWR"}
           all == {"A", "AWI", "AWR", "S", "SWI", "SWR"}
           d == Alu(c, i, imm)
           f == Alu(d, j, jmm)
           a == Gr(c, i.r)
           b == Operand(c, i, imm)
<1>1. i.op \in all /\ j.op \in all BY DEF SameOperand
<1>2. i.op \in DOMAIN Meaning /\ j.op \in DOMAIN Meaning BY <1>1 DEF Meaning
<1>3. Perform(Perform(c, i, imm, t), j, jmm, u) = f BY <1>2, PerformAlu
<1>4. /\ IsMachine(d) /\ a \in Words /\ b \in Words
      /\ Gr(d, i.r) = Word(IF i.op \in sums THEN a + b ELSE a - b)
      /\ \A k \in 0 .. 5 : k # i.r => Gr(d, k) = Gr(c, k)
      /\ d.mem = c.mem /\ d.seg = c.seg
  BY <1>1, SumOrDifference
<1> HIDE DEF d
<1>5. Operand(d, j, jmm) = b
  <2>1. CASE i.op \in {"A", "S"} /\ j.op \in {"A", "S"} /\ i.x = j.x /\ i.x \in 0 .. 5 /\ i.x # i.r
    <3>1. i.op \notin ByMemory /\ i.op \notin ByWord /\ j.op \notin ByMemory /\ j.op \notin ByWord
      BY <2>1 DEF ByMemory, ByWord
    <3>2. Operand(d, j, jmm) = Gr(d, j.x) /\ b = Gr(c, i.x) BY <3>1 DEF Operand
    <3> QED BY <1>4, <2>1, <3>2
  <2>2. CASE i.op \in {"AWI", "SWI"} /\ j.op \in {"AWI", "SWI"} /\ imm = jmm
    <3>1. i.op \notin ByMemory /\ i.op \in ByWord /\ j.op \notin ByMemory /\ j.op \in ByWord
      BY <2>2 DEF ByMemory, ByWord
    <3> QED BY <2>2, <3>1 DEF Operand
  <2>3. CASE i.op \in {"AWR", "SWR"} /\ j.op \in {"AWR", "SWR"} /\ i.x = j.x /\ i.x + 1 # i.r
    <3>1. i.op \in ByMemory /\ j.op \in ByMemory BY <2>3 DEF ByMemory
    <3>2. i.x \in 0 .. 3 BY <2>3, <3>1 DEF IsInsn, Low2Ops
    <3>3. Gr(d, i.x + 1) = Gr(c, i.x + 1) BY <1>4, <2>3, <3>2
    <3>4. d.r[i.x + 1] = c.r[i.x + 1] BY <3>2, <3>3 DEF Gr
    <3>5. RdC(d, c.r[i.x + 1]) = RdC(c, c.r[i.x + 1]) BY <1>4 DEF RdC, RdB, Rd
    <3> QED BY <2>3, <3>1, <3>4, <3>5 DEF Operand
  <2> QED BY <2>1, <2>2, <2>3 DEF SameOperand
<1> HIDE DEF a, b
<1>6. /\ Gr(f, j.r) = Word(IF j.op \in sums THEN Gr(d, j.r) + b ELSE Gr(d, j.r) - b)
      /\ \A k \in 0 .. 5 : k # j.r => Gr(f, k) = Gr(d, k)
  BY <1>1, <1>4, <1>5, SumOrDifference
<1> HIDE DEF f
<1>7. Gr(f, i.r) = a BY <1>4, <1>6, WordsUndo
<1>8. \A k \in 0 .. 5 : k # i.r => Gr(f, k) = Gr(c, k) BY <1>4, <1>6
<1> QED BY <1>3, <1>7, <1>8 DEF a

LEMMA ExactQuotient ==
  ASSUME NEW a \in Nat, NEW b \in Nat, NEW q \in Nat, NEW s \in Nat, s < b, b * q + s = a * b
  PROVE  q = a /\ s = 0
<1>1. CASE q = a BY <1>1
<1>2. CASE q < a
  <2>1. b * q <= b * (a - 1) BY <1>2
  <2>2. b * (a - 1) = a * b - b OBVIOUS
  <2> QED BY <2>1, <2>2
<1>3. CASE q > a
  <2>1. b * q >= b * (a + 1) BY <1>3
  <2>2. b * (a + 1) = a * b + b OBVIOUS
  <2> QED BY <2>1, <2>2
<1> QED BY <1>1, <1>2, <1>3

\* A division gives back the factor of every product of two words: it never overflows then and its
\* remainder is 0 (M and D; the pointer is not R1, which takes the product, and a product with 0 is
\* not divided).
THEOREM DivisionUndoes ==
  ASSUME NEW c, IsMachine(c), NEW i, IsInsn(i), NEW imm, NEW t, NEW j, IsInsn(j), NEW jmm, NEW u,
         i.op = "M", j.op = "D", j.x = i.x, i.x # 0, RdC(c, c.r[i.x + 1]) # 0
  PROVE  /\ Perform(Perform(c, i, imm, t), j, jmm, u).r = [c.r EXCEPT ![1] = 0]
         /\ ~HasBit(Perform(Perform(c, i, imm, t), j, jmm, u).str, OVF)
<1> DEFINE a == c.r[0]
           b == RdC(c, c.r[i.x + 1])
           p == Product(a, b)
           d == Multiply(c, i)
           q == Quotient(d.r[0], d.r[1], b)
           clear == Flags(d, FALSE, FALSE)
           f == Divide(d, j)
<1>1. Perform(Perform(c, i, imm, t), j, jmm, u) = f BY PerformGroups
<1>2. a \in Words /\ b \in Words /\ a \in Nat /\ b \in Nat /\ b > 0 /\ a < 65536
  <2>1. a \in Words /\ b \in Words BY MachineFields, RdCWord
  <2> QED BY <2>1, WordRange
<1>3. c.r \in [0 .. 4 -> Words] BY MachineFields
<1>4. i.x \in 1 .. 3 BY DEF IsInsn, Low2Ops
<1> HIDE DEF a, b
<1>5. p[1] \in Words /\ p[2] \in Words /\ 65536 * p[1] + p[2] = a * b BY <1>2, ProductIsExact
<1> HIDE DEF p
<1>6. d = Result32(Flags(c, FALSE, FALSE), i.k, p[1], p[2]) BY DEF Multiply, p, a, b
<1>7. IsMachine(d) BY MultiplyMachine
<1>8. d.r = [c.r EXCEPT ![0] = p[1], ![1] = p[2]] /\ d.mem = c.mem /\ d.seg = c.seg
  <2> DEFINE e == Flags(c, FALSE, FALSE)
  <2>0. IsMachine(e) BY FlagsMachine
  <2>1. e.r = c.r /\ e.mem = c.mem /\ e.seg = c.seg BY DEF Flags, IsMachine
  <2>2. d = Result32(e, i.k, p[1], p[2]) BY <1>6
  <2> HIDE DEF e, d
  <2>3. d.r = [e.r EXCEPT ![0] = p[1], ![1] = p[2]] /\ d.mem = e.mem /\ d.seg = e.seg
    BY <1>5, <2>0, <2>2, Result32Keeps
  <2> QED BY <2>1, <2>3
<1> HIDE DEF d
<1>9. d.r[0] = p[1] /\ d.r[1] = p[2] /\ d.r[i.x + 1] = c.r[i.x + 1] BY <1>3, <1>4, <1>8
<1>10. RdC(d, d.r[i.x + 1]) = b BY <1>8, <1>9 DEF RdC, RdB, Rd, b
<1>11. p[1] < b
  <2>1. p[1] \in Int /\ p[2] \in Int /\ p[2] >= 0 BY <1>5, WordRange
  <2>2. a * b < 65536 * b BY <1>2
  <2> QED BY <1>2, <1>5, <2>1, <2>2
<1>12. q[1] \in Words /\ q[2] \in Words /\ q[2] < b /\ b * q[1] + q[2] = a * b
  <2>1. d.r[0] \in Words /\ d.r[1] \in Words /\ d.r[0] < b BY <1>5, <1>9, <1>11
  <2>2. 65536 * d.r[0] + d.r[1] = a * b BY <1>5, <1>9
  <2>3. PICK h \in Words, l \in Words : h = d.r[0] /\ l = d.r[1] /\ h < b BY <2>1
  <2>4. /\ Quotient(h, l, b)[1] \in Words /\ Quotient(h, l, b)[2] \in Words
        /\ Quotient(h, l, b)[2] < b
        /\ b * Quotient(h, l, b)[1] + Quotient(h, l, b)[2] = 65536 * h + l
    BY <1>2, <2>3, QuotientIsExact, SMTT(30)
  <2> QED BY <2>2, <2>3, <2>4
<1> HIDE DEF q
<1>13. q[1] = a /\ q[2] = 0
  <2>1. PICK x \in Nat, y \in Nat : x = q[1] /\ y = q[2] BY <1>12, WordRange
  <2>2. y < b /\ b * x + y = a * b BY <1>12, <2>1
  <2>3. x = a /\ y = 0
    <3>1. \A aa \in Nat, bb \in Nat, qq \in Nat, ss \in Nat : ss < bb /\ bb * qq + ss = aa * bb => qq = aa /\ ss = 0
      BY ExactQuotient
    <3> QED BY <1>2, <2>2, <3>1
  <2> QED BY <2>1, <2>3
<1>14. f = SkipIf([clear EXCEPT !.r[0] = q[1], !.r[1] = q[2]], j.k, q[1])
  <2>1. ~(b <= d.r[0]) BY <1>2, <1>5, <1>9, <1>11, WordRange
  <2> QED BY <1>10, <2>1 DEF Divide, q, clear
<1>15. IsMachine(clear) /\ clear.r = d.r /\ ~HasBit(clear.str, OVF) BY <1>7, FlagsMachine, FlagsKeep, FlagsShow
<1> HIDE DEF f, clear
<1> DEFINE g == [clear EXCEPT !.r[0] = q[1], !.r[1] = q[2]]
<1>16. IsMachine(g) BY <1>12, <1>15, PairMachine
<1>17. g.r = [d.r EXCEPT ![0] = q[1], ![1] = q[2]] /\ g.str = clear.str BY <1>15 DEF IsMachine
<1> HIDE DEF g
<1>18. f.r = g.r /\ f.str = g.str
  <2>1. f = SkipIf(g, j.k, q[1]) BY <1>14 DEF g
  <2>2. SkipIf(g, j.k, q[1]).str = g.str BY <1>16 DEF SkipIf, IsMachine
  <2> QED BY <1>16, <2>1, <2>2, SkipIfKeeps
<1>19. f.r = [c.r EXCEPT ![1] = 0]
  <2>1. f.r = [[c.r EXCEPT ![0] = p[1], ![1] = p[2]] EXCEPT ![0] = a, ![1] = 0] BY <1>8, <1>13, <1>17, <1>18
  <2> QED BY <1>3, <2>1 DEF a
<1> QED BY <1>1, <1>15, <1>17, <1>18, <1>19

LEMMA CarryReturns ==
  ASSUME NEW a \in Words, NEW b \in Words, NEW x \in Words, NEW y \in Words
  PROVE  /\ Word(Word(b + y) - y) = b /\ Word(Word(b - y) + y) = b
         /\ Word(Word(a + x + ((b + y) \div 65536)) - x - (IF Word(b + y) - y < 0 THEN 1 ELSE 0)) = a
         /\ Word(Word(a - x - (IF b - y < 0 THEN 1 ELSE 0)) + x + ((Word(b - y) + y) \div 65536)) = a
<1>1. /\ a \in Int /\ 0 <= a /\ a < 65536 /\ b \in Int /\ 0 <= b /\ b < 65536
      /\ x \in Int /\ 0 <= x /\ x < 65536 /\ y \in Int /\ 0 <= y /\ y < 65536
  BY WordRange
<1>2. \A n \in Int : 0 <= n /\ n < 65536 => Word(n) = n /\ n \div 65536 = 0 BY DEF Word
<1>3. \A n \in Int : 65536 <= n /\ n < 131072 => Word(n) = n - 65536 /\ n \div 65536 = 1 BY DEF Word
<1>4. \A n \in Int : -65536 <= n /\ n < 0 => Word(n) = n + 65536 BY DEF Word
<1>7. Word(Word(b + y) - y) = b /\ Word(Word(b - y) + y) = b BY WordsUndo
<1>8. Word(Word(a + x + ((b + y) \div 65536)) - x - (IF Word(b + y) - y < 0 THEN 1 ELSE 0)) = a
  <2>1. CASE b + y < 65536
    <3>1. Word(b + y) = b + y /\ (b + y) \div 65536 = 0 BY <1>1, <1>2, <2>1
    <3>2. Word(Word(a + x) - x) = a BY WordsUndo
    <3>3. a + x + ((b + y) \div 65536) = a + x /\ ~(Word(b + y) - y < 0) BY <1>1, <3>1
    <3>4. Word(a + x) \in Int /\ Word(a + x) - x - 0 = Word(a + x) - x BY <1>1, WordIsWord
    <3> QED BY <3>2, <3>3, <3>4
  <2>2. CASE 65536 <= b + y
    <3>1. Word(b + y) = b + y - 65536 /\ (b + y) \div 65536 = 1 BY <1>1, <1>3, <2>2
    <3>2. Word(b + y) - y < 0 BY <1>1, <3>1
    <3>3. Word(Word(a + x + 1) - x - 1) = a BY <1>1, <1>2, <1>3, <1>4
    <3> QED BY <1>1, <3>1, <3>2, <3>3
  <2> QED BY <1>1, <2>1, <2>2
<1>9. Word(Word(a - x - (IF b - y < 0 THEN 1 ELSE 0)) + x + ((Word(b - y) + y) \div 65536)) = a
  <2>1. CASE b - y < 0
    <3>1. Word(b - y) = b - y + 65536 /\ (Word(b - y) + y) \div 65536 = 1 BY <1>1, <1>3, <1>4, <2>1
    <3>2. Word(Word(a - x - 1) + x + 1) = a BY <1>1, <1>2, <1>3, <1>4
    <3> QED BY <1>1, <2>1, <3>1, <3>2
  <2>2. CASE 0 <= b - y
    <3>1. Word(b - y) = b - y /\ (Word(b - y) + y) \div 65536 = 0 BY <1>1, <1>2, <2>2
    <3>2. Word(Word(a - x) + x) = a BY WordsUndo
    <3>3. a - x - 0 = a - x /\ ~(b - y < 0) BY <1>1, <2>2
    <3>4. Word(a - x) \in Int /\ Word(a - x) + x + 0 = Word(a - x) + x BY <1>1, WordIsWord
    <3> QED BY <3>1, <3>2, <3>3, <3>4
  <2> QED BY <1>1, <2>1, <2>2
<1> QED BY <1>7, <1>8, <1>9

\* A number of two words plus or minus another one.
SumPair(a, b, x, y) == <<Word(a + x + ((b + y) \div 65536)), Word(b + y)>>
DifferencePair(a, b, x, y) == <<Word(a - x - (IF b - y < 0 THEN 1 ELSE 0)), Word(b - y)>>
PairOf(op, a, b, x, y) == IF op = "AD" THEN SumPair(a, b, x, y) ELSE DifferencePair(a, b, x, y)

\* x and y are the two words the pointer of i points to.
PointsTo(c, i, x, y) == x = RdC(c, c.r[(i.x % 4) + 1]) /\ y = RdC(c, Word(c.r[(i.x % 4) + 1] + 1))

LEMMA DoubleStep ==
  ASSUME NEW c, IsMachine(c), NEW i, i.x \in 9 .. 11, NEW x, NEW y, PointsTo(c, i, x, y)
  PROVE  /\ IsMachine(Double(c, i)) /\ Double(c, i).mem = c.mem /\ Double(c, i).seg = c.seg
         /\ PairOf(i.op, c.r[0], c.r[1], x, y) \in Words \X Words
         /\ Double(c, i).r = [c.r EXCEPT ![0] = PairOf(i.op, c.r[0], c.r[1], x, y)[1],
                                         ![1] = PairOf(i.op, c.r[0], c.r[1], x, y)[2]]
<1> USE DEF PointsTo
<1> PICK a, b : a = c.r[0] /\ b = c.r[1] OBVIOUS
<1> DEFINE top == IF i.op = "AD" THEN a + x + ((b + y) \div 65536) ELSE a - x - (IF b - y < 0 THEN 1 ELSE 0)
           low == IF i.op = "AD" THEN b + y ELSE b - y
           over == top < 0 \/ top > 65535
           g == Flags(c, over, FALSE)
<1>1. x \in Int /\ y \in Int /\ a \in Int /\ b \in Int BY MachineFields, RdCWord, WordRange
<1>2. b + y + 0 = b + y /\ b - y - 0 = b - y BY <1>1
<1>3. ~(i.x < 4) OBVIOUS
<1>4. Double(c, i) = Result32(g, i.k, Word(top), Word(low))
  <2> DEFINE at == c.r[(i.x % 4) + 1]
             e == IF i.x < 4 THEN CarryIn(c) ELSE 0
             sum == c.r[1] + RdC(c, Word(at + 1)) + e
             dif == c.r[1] - RdC(c, Word(at + 1)) - e
             full == IF i.op = "AD" THEN c.r[0] + RdC(c, at) + (sum \div 65536) ELSE c.r[0] - RdC(c, at) - (IF dif < 0 THEN 1 ELSE 0)
             part == IF i.op = "AD" THEN sum ELSE dif
  <2>1. Double(c, i) = Result32(Flags(c, full < 0 \/ full > 65535, FALSE), i.k, Word(full), Word(part))
    BY DEF Double
  <2>2. e = 0 BY <1>3
  <2> HIDE DEF e
  <2>3. sum = b + y /\ dif = b - y BY <1>2, <2>2
  <2> HIDE DEF sum, dif
  <2>4. full = top /\ part = low BY <2>3
  <2> HIDE DEF full, part, top, low
  <2> QED BY <2>1, <2>4
<1>5. b + y \in Int /\ b - y \in Int BY <1>1
<1>6. top \in Int /\ low \in Int BY <1>1, <1>5
<1> HIDE DEF top, low
<1>7. Word(top) \in Words /\ Word(low) \in Words BY <1>6, WordIsWord
<1>8. over \in BOOLEAN OBVIOUS
<1> HIDE DEF over
<1>9. IsMachine(g) BY <1>8, FlagsMachine
<1>10. g.r = c.r /\ g.mem = c.mem /\ g.seg = c.seg BY FlagsKeep
<1> HIDE DEF g
<1> DEFINE d == Result32(g, i.k, Word(top), Word(low))
<1>11. d.r = [g.r EXCEPT ![0] = Word(top), ![1] = Word(low)] /\ d.mem = g.mem /\ d.seg = g.seg
  BY <1>7, <1>9, Result32Keeps
<1> HIDE DEF d
<1>12. Double(c, i) = d BY <1>4 DEF d
<1>13. PairOf(i.op, a, b, x, y) = <<Word(top), Word(low)>> BY DEF PairOf, SumPair, DifferencePair, top, low
<1>14. IsMachine(Double(c, i)) BY DoubleMachine
<1>15. PairOf(i.op, a, b, x, y)[1] = Word(top) /\ PairOf(i.op, a, b, x, y)[2] = Word(low)
       /\ PairOf(i.op, a, b, x, y) \in Words \X Words
  BY <1>7, <1>13
<1> QED BY <1>10, <1>11, <1>12, <1>14, <1>15

\* SD takes back AD and AD takes back SD, carry and borrow between the words included (without a carry
\* in; the pointer is not R1, which is part of the number).
THEOREM DoubleUndoes ==
  ASSUME NEW c, IsMachine(c), NEW i, IsInsn(i), NEW imm, NEW t, NEW j, IsInsn(j), NEW jmm, NEW u,
         i.op \in {"AD", "SD"}, j.op \in {"AD", "SD"}, i.op # j.op, i.x \in 9 .. 11, j.x = i.x
  PROVE  Perform(Perform(c, i, imm, t), j, jmm, u).r = c.r
<1> DEFINE n == (i.x % 4) + 1
           d == Double(c, i)
           f == Double(d, j)
<1>1. Perform(Perform(c, i, imm, t), j, jmm, u) = f BY PerformGroups
<1>2. PICK x \in Words, y \in Words : x = RdC(c, c.r[n]) /\ y = RdC(c, Word(c.r[n] + 1)) BY RdCWord
<1>3. c.r \in [0 .. 4 -> Words] /\ n \in 2 .. 4 BY MachineFields
<1>4. PICK a \in Words, b \in Words : a = c.r[0] /\ b = c.r[1] BY <1>3
<1> DEFINE p == PairOf(i.op, a, b, x, y)
<1>5. /\ IsMachine(d) /\ d.mem = c.mem /\ d.seg = c.seg
      /\ p \in Words \X Words /\ d.r = [c.r EXCEPT ![0] = p[1], ![1] = p[2]]
  <2>1. PointsTo(c, i, x, y) BY <1>2 DEF PointsTo
  <2>2. p = PairOf(i.op, c.r[0], c.r[1], x, y) BY <1>4
  <2> HIDE DEF p
  <2> QED BY <2>1, <2>2, DoubleStep
<1> HIDE DEF d, p
<1>6. d.r[0] = p[1] /\ d.r[1] = p[2] /\ DOMAIN d.r = 0 .. 4 /\ \A k \in 2 .. 4 : d.r[k] = c.r[k] BY <1>3, <1>5
<1>7. x = RdC(d, d.r[(j.x % 4) + 1]) /\ y = RdC(d, Word(d.r[(j.x % 4) + 1] + 1))
  <2>1. \A la : RdC(d, la) = RdC(c, la) BY <1>5 DEF RdC, RdB, Rd
  <2> QED BY <1>2, <1>3, <1>6, <2>1
<1> DEFINE q == PairOf(j.op, p[1], p[2], x, y)
<1>8. j.x \in 9 .. 11 OBVIOUS
<1>9. f.r = [d.r EXCEPT ![0] = q[1], ![1] = q[2]]
  <2>1. q = PairOf(j.op, d.r[0], d.r[1], x, y) BY <1>6
  <2> HIDE DEF q
  <2>2. PointsTo(d, j, x, y) BY <1>7 DEF PointsTo
  <2>3. Double(d, j).r = [d.r EXCEPT ![0] = PairOf(j.op, d.r[0], d.r[1], x, y)[1],
                                     ![1] = PairOf(j.op, d.r[0], d.r[1], x, y)[2]]
    <3>1. IsMachine(d) BY <1>5
    <3> HIDE DEF p, q
    <3> QED BY <1>8, <2>2, <3>1, DoubleStep
  <2> QED BY <2>1, <2>3
<1> HIDE DEF f
<1>10. q[1] = a /\ q[2] = b
  <2>1. CASE i.op = "AD"
    <3>1. j.op = "SD" BY <2>1
    <3> QED BY <2>1, <3>1, CarryReturns DEF p, PairOf, SumPair, DifferencePair
  <2>2. CASE i.op = "SD"
    <3>1. j.op = "AD" BY <2>2
    <3> QED BY <2>2, <3>1, CarryReturns DEF p, PairOf, SumPair, DifferencePair
  <2> QED BY <2>1, <2>2
<1> HIDE DEF q
<1>11. f.r = [d.r EXCEPT ![0] = a, ![1] = b] BY <1>9, <1>10
<1>12. \A k \in 0 .. 4 : [d.r EXCEPT ![0] = a, ![1] = b][k] = c.r[k] BY <1>4, <1>6
<1> QED BY <1>1, <1>3, <1>6, <1>11, <1>12

\* The head word of a number that is not 0: sign, exponent and the first two digits.
HeadWord(sign, digits, x) == 32768 * sign + 256 * (64 + digits) + x
LEMMA HeadParts ==
  ASSUME NEW sign \in {0, 1}, NEW digits \in 0 .. 4, NEW x \in Int, 0 <= x, x < 256
  PROVE  /\ HeadWord(sign, digits, x) \in Words /\ (Negative(HeadWord(sign, digits, x)) <=> sign = 1)
         /\ (HeadWord(sign, digits, x) \div 256) % 128 = 64 + digits /\ HeadWord(sign, digits, x) % 256 = x
<1> DEFINE head == HeadWord(sign, digits, x)
<1>0. head = 32768 * sign + 256 * (64 + digits) + x BY DEF HeadWord
<1> HIDE DEF head
<1>1. head \in Int /\ 0 <= head /\ head < 65536 BY <1>0
<1>2. head % 256 = x
  <2>1. head = 256 * (128 * sign + 64 + digits) + x BY <1>0
  <2>2. \A n \in Int : (256 * n + x) % 256 = x OBVIOUS
  <2> QED BY <2>1, <2>2
<1>3. head \div 256 = 128 * sign + 64 + digits
  <2>1. head = 256 * (128 * sign + 64 + digits) + x BY <1>0
  <2>2. \A n \in Int : (256 * n + x) \div 256 = n OBVIOUS
  <2> QED BY <2>1, <2>2
<1>4. (128 * sign + 64 + digits) % 128 = 64 + digits OBVIOUS
<1>5. Negative(head) <=> sign = 1 BY <1>0 DEF Negative
<1>6. head \in Words BY <1>1, WordRange
<1> QED BY <1>2, <1>3, <1>4, <1>5, <1>6 DEF head

\* The words of a whole number: 0, or sign, exponent and mantissa.
IsFloat(head, low, n) ==
  IF n = 0 THEN head = 0 /\ low = 0
  ELSE \E size \in Nat, digits \in 1 .. 4 :
         /\ size = (IF n < 0 THEN -n ELSE n)
         /\ Negative(head) <=> n < 0
         /\ (head \div 256) % 128 = 64 + digits
         /\ 65536 * (head % 256) + low = size * Hex[7 - digits]

LEMMA FloatStep ==
  ASSUME NEW c, IsMachine(c), NEW i
  PROVE  \E head \in Words, low \in Words :
           /\ Float(c, i).r = [c.r EXCEPT ![0] = head, ![1] = low]
           /\ IsFloat(head, low, Signed(c.r[0]))
<1> DEFINE n == Signed(c.r[0])
           size == IF n < 0 THEN -n ELSE n
           digits == Digits(size)
           mantissa == size * Hex[7 - digits]
           head == (IF n < 0 THEN 32768 ELSE 0) + 256 * (64 + digits) + (mantissa \div 65536)
           b == Flags(c, FALSE, FALSE)
<1>1. n \in Int /\ -32768 <= n /\ n < 32768 BY MachineFields, SignedRange
<1>2. IsMachine(b) /\ b.r = c.r BY FlagsMachine, FlagsKeep
<1>3. Float(c, i) = IF n = 0 THEN Result32(b, i.k, 0, 0) ELSE Result32(b, i.k, head, Word(mantissa))
  BY DEF Float
<1> HIDE DEF n, b
<1>4. 0 \in Words BY WordRange
<1>5. CASE n = 0
  <2>1. Float(c, i).r = [b.r EXCEPT ![0] = 0, ![1] = 0] BY <1>2, <1>3, <1>4, <1>5, Result32Keeps
  <2>2. IsFloat(0, 0, Signed(c.r[0])) BY <1>5 DEF n, IsFloat
  <2> QED BY <1>2, <1>4, <2>1, <2>2
<1>6. CASE n # 0
  <2>1. size \in Nat /\ size <= 32768 /\ size > 0 BY <1>1, <1>6
  <2>2. size = (IF n < 0 THEN -n ELSE n) OBVIOUS
  <2> HIDE DEF size
  <2>3. digits \in 1 .. 4
    <3>1. digits \in 0 .. 4 /\ size < Hex[digits + 1] BY <2>1, DigitsExist
    <3>2. digits # 0 BY <2>1, <3>1 DEF Hex
    <3> QED BY <3>1, <3>2
  <2>4. mantissa \in Nat /\ mantissa < 16777216 BY <2>1, MantissaFits
  <2> HIDE DEF digits, mantissa
  <2> DEFINE sign == IF n < 0 THEN 1 ELSE 0
             x == mantissa \div 65536
  <2>5. x \in Int /\ 0 <= x /\ x < 256 /\ mantissa = 65536 * x + Word(mantissa) BY <2>4 DEF Word
  <2> HIDE DEF x
  <2>6. head = HeadWord(sign, digits, x) BY <2>3, <2>5 DEF x, HeadWord
  <2>7. sign \in {0, 1} /\ (sign = 1 <=> n < 0) BY <1>1
  <2> HIDE DEF sign, head
  <2>8. head \in Words /\ (Negative(head) <=> sign = 1) /\ (head \div 256) % 128 = 64 + digits /\ head % 256 = x
    <3>1. digits \in 0 .. 4 BY <2>3
    <3> QED BY <2>5, <2>6, <2>7, <3>1, HeadParts
  <2>9. Word(mantissa) \in Words BY <2>4, WordIsWord
  <2> DEFINE low == Word(mantissa)
  <2>10. Float(c, i).r = [b.r EXCEPT ![0] = head, ![1] = low] BY <1>2, <1>3, <1>6, <2>8, <2>9, Result32Keeps
  <2>11. 65536 * (head % 256) + low = mantissa BY <2>5, <2>8
  <2> HIDE DEF low
  <2>12. low \in Words BY <2>9 DEF low
  <2>13. 65536 * (head % 256) + low = size * Hex[7 - digits] BY <2>11 DEF mantissa
  <2>14. IsFloat(head, low, n) BY <1>6, <2>1, <2>2, <2>3, <2>7, <2>8, <2>13 DEF IsFloat
  <2>15. IsFloat(head, low, Signed(c.r[0])) BY <2>14 DEF n
  <2> QED BY <1>2, <2>8, <2>10, <2>12, <2>15
<1> QED BY <1>5, <1>6


LEMMA FixOfFloat ==
  ASSUME NEW c, IsMachine(c), NEW i, NEW n \in Int, -32768 <= n, n < 32768, IsFloat(c.r[0], c.r[1], n)
  PROVE  \E b : IsMachine(b) /\ b.r = c.r /\ ~HasBit(b.str, OVF) /\ Fix(c, i) = Result(b, 0, i.k, Word(n))
<1> DEFINE exp == (c.r[0] \div 256) % 128
           mantissa == 65536 * (c.r[0] % 256) + c.r[1]
           size == IF exp < 64 THEN 0
                   ELSE IF exp <= 70 THEN mantissa \div Hex[71 - exp]
                   ELSE IF mantissa > 4096 \/ (exp > 74 /\ mantissa > 0) THEN 65536
                   ELSE IF mantissa = 0 THEN 0 ELSE mantissa * Hex[exp - 69]
           value == IF Negative(c.r[0]) THEN -size ELSE size
           over == value < -32768 \/ value > 32767
<1>1. Fix(c, i) = Result(Flags(c, FALSE, over), 0, i.k, IF over THEN 0 ELSE Word(value)) BY DEF Fix
<1>2. value = n
  <2>1. CASE n = 0
    <3>1. c.r[0] = 0 /\ c.r[1] = 0 BY <2>1 DEF IsFloat
    <3>2. exp = 0 BY <3>1
    <3> HIDE DEF exp, mantissa
    <3>3. size = 0 BY <3>2
    <3> HIDE DEF size
    <3>4. size \in Int /\ -size \in Int /\ -size <= 0 /\ -size >= 0 BY <3>3
    <3>5. value = -size \/ value = size OBVIOUS
    <3> HIDE DEF value
    <3> QED BY <2>1, <3>3, <3>4, <3>5
  <2>2. CASE n # 0
    <3>1. PICK whole \in Nat, digits \in 1 .. 4 :
            /\ whole = (IF n < 0 THEN -n ELSE n)
            /\ Negative(c.r[0]) <=> n < 0
            /\ exp = 64 + digits
            /\ mantissa = whole * Hex[7 - digits]
      BY <2>2 DEF IsFloat
    <3> HIDE DEF exp, mantissa
    <3>2. 71 - exp = 7 - digits /\ ~(exp < 64) /\ exp <= 70 BY <3>1
    <3>3. 7 - digits \in 1 .. 7 /\ Hex[7 - digits] \in Nat /\ Hex[7 - digits] > 0 BY <3>1 DEF Hex
    <3>4. (whole * Hex[7 - digits]) \div Hex[7 - digits] = whole BY <3>3, ExactQuotient
    <3>5. size = whole BY <3>1, <3>2, <3>4
    <3> HIDE DEF size
    <3> QED BY <3>1, <3>5
  <2> QED BY <2>1, <2>2
<1> HIDE DEF value
<1>3. ~over BY <1>2
<1> HIDE DEF over
<1> DEFINE w == IF over THEN 0 ELSE Word(value)
<1>4. w = Word(n) BY <1>2, <1>3
<1>5. Fix(c, i) = Result(Flags(c, FALSE, over), 0, i.k, w) BY <1>1
<1> HIDE DEF w
<1> HIDE DEF exp, mantissa, size
<1>6. over \in BOOLEAN BY DEF over
<1> DEFINE e == FALSE
           b == Flags(c, e, over)
<1>7. e \in BOOLEAN OBVIOUS
<1>8. Fix(c, i) = Result(b, 0, i.k, w) BY <1>5
<1> HIDE DEF e
<1>9. IsMachine(b) /\ b.r = c.r BY <1>6, <1>7, FlagsMachine, FlagsKeep
<1>10. ~HasBit(b.str, OVF) BY <1>3, <1>6, <1>7, FlagsShow
<1> HIDE DEF b
<1>11. Fix(c, i) = Result(b, 0, i.k, Word(n)) BY <1>4, <1>8
<1> QED BY <1>9, <1>10, <1>11

LEMMA WordOfSigned ==
  ASSUME NEW w \in Words PROVE Word(Signed(w)) = w
<1>1. w \in Int /\ 0 <= w /\ w < 65536 BY WordRange
<1> QED BY <1>1 DEF Word, Signed, Negative

\* FLT, then FIX, is the word that was there: the other general registers but R1 as before,
\* no overflow (mn1613.ts, FLT and FIX).
THEOREM FixUndoes ==
  ASSUME NEW c, IsMachine(c), NEW i, NEW imm, NEW t, NEW j, NEW jmm, NEW u, i.op = "FLT", j.op = "FIX"
  PROVE  LET after == Perform(Perform(c, i, imm, t), j, jmm, u)
         IN  /\ Gr(after, 0) = Gr(c, 0)
             /\ \A k \in 2 .. 4 : after.r[k] = c.r[k]
             /\ ~HasBit(after.str, OVF)
<1> DEFINE d == Float(c, i)
           n == Signed(c.r[0])
           after == Perform(Perform(c, i, imm, t), j, jmm, u)
<1>1. after = Fix(d, j) BY PerformGroups
<1>2. IsMachine(d) BY FloatMachine
<1>3. c.r \in [0 .. 4 -> Words] /\ c.r[0] \in Words BY MachineFields
<1>4. n \in Int /\ -32768 <= n /\ n < 32768 BY <1>3, SignedRange
<1>5. PICK head \in Words, low \in Words : d.r = [c.r EXCEPT ![0] = head, ![1] = low] /\ IsFloat(head, low, n)
  BY FloatStep
<1>6. IsFloat(d.r[0], d.r[1], n) /\ \A k \in 2 .. 4 : d.r[k] = c.r[k] BY <1>3, <1>5
<1>7. Word(n) = c.r[0] BY <1>3, WordOfSigned
<1> HIDE DEF d, n
<1>8. PICK b : IsMachine(b) /\ b.r = d.r /\ ~HasBit(b.str, OVF) /\ Fix(d, j) = Result(b, 0, j.k, Word(n))
  BY <1>2, <1>4, <1>6, FixOfFloat
<1> HIDE DEF after
<1>11. Gr(after, 0) = c.r[0] /\ (\A k \in 1 .. 5 : Gr(after, k) = Gr(b, k)) /\ after.str = b.str
  <2>1. 0 \in 0 .. 5 OBVIOUS
  <2>2. after = Result(b, 0, j.k, c.r[0]) BY <1>1, <1>7, <1>8
  <2>3. Gr(after, 0) = c.r[0] /\ (\A k \in 0 .. 5 : k # 0 => Gr(after, k) = Gr(b, k))
    BY <1>3, <1>8, <2>1, <2>2, ResultKeeps
  <2>4. after.str = b.str BY <1>8, <2>1, <2>2, ResultKeepsFlags
  <2> QED BY <2>3, <2>4
<1>12. Gr(c, 0) = c.r[0] BY DEF Gr
<1>13. \A k \in 2 .. 4 : after.r[k] = c.r[k]
  <2> SUFFICES ASSUME NEW k \in 2 .. 4 PROVE after.r[k] = c.r[k] OBVIOUS
  <2>1. Gr(after, k) = Gr(b, k) BY <1>11
  <2>2. after.r[k] = b.r[k] BY <2>1 DEF Gr
  <2> QED BY <1>6, <1>8, <2>2
<1> QED BY <1>8, <1>11, <1>12, <1>13 DEF after
=============================================================================
