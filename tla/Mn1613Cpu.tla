----------------------------- MODULE Mn1613Cpu -----------------------------
(***************************************************************************)
(* The MN1613 core of mn1613.ts: what an instruction does to registers,   *)
(* flags and memory, how interrupts are accepted and returned from, and   *)
(* the ways the core is started, stopped and stepped. Mn1613Codec says    *)
(* which instruction a word is.                                            *)
(*                                                                         *)
(* A machine is a record: r R0-R4, sp, str, ic, seg the segment registers *)
(* in the order of their field (CSBR SSBR TSR0 TSR1 OSR0-OSR3), spec SBRB *)
(* ICB NPP, iisr, pend the levels of _pendingIRQ, mem and io as functions *)
(* over the words that are not 0; keeps names the registers the program   *)
(* restores. Of the sums, products and quotients of floating point any      *)
(* result is possible; the clock and the comparators are left out.         *)
(***************************************************************************)
EXTENDS Integers, Sequences

CONSTANTS Machines,        \* the machines that are started: memory image and registers
          Breakpoints,     \* _breakpoints
          FloatResults,    \* what _fpToWords may make of a sum, product or quotient: two words, overflow
          MaxEdges         \* bound: rising edges of the interrupt and reset pins

VARIABLES m,         \* the machine
          status,    \* _execStatus
          hlt,       \* the HLT pin
          start,     \* history: the machine as it was started
          ref,       \* history: where the program would be had there been no interrupts
          nest,      \* history: levels accepted and not returned from
          edges      \* history: rising edges so far

vars == <<m, status, hlt, start, ref, nest, edges>>

ISA == INSTANCE Mn1613Codec
         WITH Sources <- {}, RawWords <- {}, insn <- 0, words <- 0, listed <- 0, performed <- 0

-----------------------------------------------------------------------------
(* Words, flags, memory *)

MaxWord == 65535
Words == 0 .. MaxWord
IsImage(f) == \A p \in DOMAIN f : f[p] \in Words
IsMachine(c) ==
  /\ c \in [r : [0 .. 4 -> Words], sp : Words, str : Words, ic : Words, seg : [0 .. 7 -> 0 .. 15],
            spec : [0 .. 2 -> Words], iisr : Words, pend : SUBSET (0 .. 2), mem : {c.mem}, io : {c.io},
            keeps : SUBSET (0 .. 6)]
  /\ IsImage(c.mem) /\ IsImage(c.io)

ASSUME CpuAssumption ==
  /\ \A c \in Machines : IsMachine(c)
  /\ FloatResults # {} /\ FloatResults \subseteq Words \X Words \X BOOLEAN
  /\ MaxEdges \in Nat

Word(x) == x % 65536
Negative(w) == w >= 32768
Signed(w) == IF Negative(w) THEN w - 65536 ELSE w
HasBit(w, b) == (w \div b) % 2 = 1
WithBit(w, b, on) == IF HasBit(w, b) = on THEN w ELSE IF on THEN w + b ELSE w - b
E == 32768
OVF == 8192
Flags(c, e, v) == [c EXCEPT !.str = WithBit(WithBit(@, E, e), OVF, v)]
CarryIn(c) == IF HasBit(c.str, E) THEN 1 ELSE 0

\* Bit 0 is the highest one.
Bit(n) == <<32768, 16384, 8192, 4096, 2048, 1024, 512, 256, 128, 64, 32, 16, 8, 4, 2, 1>>[n + 1]
Mask == [lv \in 0 .. 2 |-> Bit(5 + lv)]     \* M0 M1 M2
Ones(w) == {n \in 0 .. 15 : HasBit(w, Bit(n))}
OfBits(S) ==
  LET b(n) == IF n \in S THEN Bit(n) ELSE 0
  IN  b(0) + b(1) + b(2) + b(3) + b(4) + b(5) + b(6) + b(7)
        + b(8) + b(9) + b(10) + b(11) + b(12) + b(13) + b(14) + b(15)
And(a, b) == OfBits(Ones(a) \cap Ones(b))
Or(a, b) == OfBits(Ones(a) \cup Ones(b))
Eor(a, b) == OfBits((Ones(a) \ Ones(b)) \cup (Ones(b) \ Ones(a)))
Hex == <<1, 16, 256, 4096, 65536, 1048576, 16777216>>     \* powers of 16

Phys(la, s) == (16384 * s + la) % 262144
Rd(c, p) == IF p \in DOMAIN c.mem THEN c.mem[p] ELSE 0
Wr(c, p, v) == [c EXCEPT !.mem = [q \in DOMAIN c.mem \cup {p} |-> IF q = p THEN v ELSE c.mem[q]]]
RdB(c, la, s) == Rd(c, Phys(la, c.seg[s]))
WrB(c, la, s, v) == Wr(c, Phys(la, c.seg[s]), v)
RdC(c, la) == RdB(c, la, 0)
WrC(c, la, v) == WrB(c, la, 0, v)

Push(c, v) == [WrB(c, c.sp, 1, v) EXCEPT !.sp = Word(@ - 1)]
Popped(c) == RdB(c, Word(c.sp + 1), 1)
Pop(c) == [c EXCEPT !.sp = Word(@ + 1)]

Gr(c, n) == CASE n \in 0 .. 4 -> c.r[n] [] n = 5 -> c.sp [] n = 6 -> c.str [] n = 7 -> c.ic
Sw(c, n, v) == CASE n \in 0 .. 4 -> [c EXCEPT !.r[n] = v] [] n = 5 -> [c EXCEPT !.sp = v]
                 [] n = 6 -> [c EXCEPT !.str = v] [] n = 7 -> [c EXCEPT !.ic = v]
SetSeg(c, b, v) == IF b = 0 THEN c ELSE [c EXCEPT !.seg[b] = v % 16]
SetSpec(c, p, v) == IF p > 2 THEN c ELSE [c EXCEPT !.spec[p] = IF p = 1 THEN v ELSE v % 256]

\* The displacement is relative to the instruction itself: its word has been fetched.
Ea(c, mode, d) ==
  LET here == Word(c.ic - 1 + (IF d < 128 THEN d ELSE d - 256))
  IN  CASE mode = 0 -> d
        [] mode = 1 -> here
        [] mode = 2 -> RdC(c, d)
        [] mode = 3 -> RdC(c, here)
        [] mode \in {4, 5} -> Word(c.r[mode - 1] + d)
        [] mode \in {6, 7} -> Word(c.r[mode - 3] + RdC(c, d))

Holds(cond, w, str) ==
  LET n == Negative(w)
      z == w = 0
      e == HasBit(str, E)
      v == HasBit(str, OVF)
  IN  <<FALSE, TRUE, n, ~n, z, ~z, n \/ z, ~n /\ ~z, ~e, e, ~v, v, e \/ z, ~e /\ ~z, ~e, e /\ ~z>>[cond + 1]

\* A skip passes the next instruction, whatever its length.
SkipIf(c, cond, w) ==
  IF Holds(cond, w, c.str) THEN [c EXCEPT !.ic = Word(@ + ISA!Skipped(RdC(c, c.ic)))] ELSE c
\* The result goes to a register and decides the skip.
Result(c, n, cond, w) == SkipIf(Sw(c, n, w), cond, w)
\* The same with a 32-bit result in R0, R1.
Result32(c, cond, hi, lo) == SkipIf([c EXCEPT !.r[0] = hi, !.r[1] = lo], cond, Or(hi, lo))

-----------------------------------------------------------------------------
(* Arithmetic and logic: register, immediate and memory forms of one       *)
(* operation differ in the operand only.                                   *)

Meaning == [A |-> "add", AWI |-> "add", AWR |-> "add", S |-> "sub", SWI |-> "sub", SWR |-> "sub",
  C |-> "cmp", CWI |-> "cmp", CWR |-> "cmp", CB |-> "cmpb", CBI |-> "cmpb", CBR |-> "cmpb",
  OR |-> "or", ORI |-> "or", ORR |-> "or", EOR |-> "eor", EORI |-> "eor", EORR |-> "eor",
  AND |-> "and", ANDI |-> "and", ANDR |-> "and", LAD |-> "lad", LADI |-> "lad", LADR |-> "lad",
  MV |-> "mv", MVWI |-> "mv", MVWR |-> "mv", MVB |-> "mvb", MVBR |-> "mvb",
  BSWP |-> "bswp", BSWR |-> "bswp", DSWP |-> "dswp", DSWR |-> "dswp"]
ByMemory == {"AWR", "SWR", "CWR", "CBR", "ORR", "EORR", "ANDR", "LADR", "MVWR", "MVBR", "BSWR", "DSWR"}
ByWord == {"AWI", "SWI", "CWI", "CBI", "ORI", "EORI", "ANDI", "LADI", "MVWI"}

Nibble(w, s) == (w \div Hex[s + 1]) % 16
Sixes(a, b) == LET six(s) == IF Nibble(a, s) + Nibble(b, s) > 9 THEN 6 * Hex[s + 1] ELSE 0
               IN  six(0) + six(1) + six(2) + six(3)
Swapped(w) == 256 * (w % 256) + (w \div 256)
MiddleSwapped(w) == 4096 * Nibble(w, 3) + 256 * Nibble(w, 1) + 16 * Nibble(w, 2) + Nibble(w, 0)

Added(c, a, b) == Flags(c, a + b > 65535, Negative(a) = Negative(b) /\ Negative(a) # Negative(Word(a + b)))
\* Mutant: E is the carry of adding the complement, not a borrow.
SubtractedCarry(c, a, b) ==
  Flags(c, a >= b, Negative(a) # Negative(b) /\ Negative(a) # Negative(Word(a - b)))
Subtracted(c, a, b) ==
  Flags(c, a < b, Negative(a) # Negative(b) /\ Negative(a) # Negative(Word(a - b)))

Operand(c, i, imm) == IF i.op \in ByMemory THEN RdC(c, c.r[i.x + 1]) ELSE IF i.op \in ByWord THEN imm ELSE Gr(c, i.x)

Alu(c, i, imm) ==
  LET a == Gr(c, i.r)
      b == Operand(c, i, imm)
      put(w) == Result(c, i.r, i.k, w)
  IN  CASE Meaning[i.op] = "add" -> Result(Added(c, a, b), i.r, i.k, Word(a + b))
        [] Meaning[i.op] = "sub" -> Result(Subtracted(c, a, b), i.r, i.k, Word(a - b))
        [] Meaning[i.op] = "cmp" -> SkipIf(Subtracted(c, a, b), i.k, Word(a - b))
        [] Meaning[i.op] = "cmpb" -> SkipIf(Subtracted(c, a % 256, b % 256), i.k, Word((a % 256) - (b % 256)))
        [] Meaning[i.op] = "or" -> put(Or(a, b))
        [] Meaning[i.op] = "eor" -> put(Eor(a, b))
        [] Meaning[i.op] = "and" -> put(And(a, b))
        [] Meaning[i.op] = "lad" -> put(Sixes(a, b))
        [] Meaning[i.op] = "mv" -> put(b)
        [] Meaning[i.op] = "mvb" -> put(256 * (a \div 256) + (b % 256))
        [] Meaning[i.op] = "bswp" -> put(Swapped(b))
        [] Meaning[i.op] = "dswp" -> put(MiddleSwapped(b))

\* A carry is taken in unless the C of the operand says otherwise.
Decimal(c, i) ==
  LET b == RdC(c, c.r[(i.x % 4) + 1])
      a == c.r[0]
      e == IF i.x < 4 THEN CarryIn(c) ELSE 0
      set(over, w) == Result([c EXCEPT !.str = WithBit(@, E, over)], 0, i.k, Word(w))
      sum == a + b + e + (IF (a % 16) + (b % 16) + e > 9 THEN 6 ELSE 0)
      diff == a - b - e - (IF (a % 16) - (b % 16) - e < 0 THEN 6 ELSE 0)
  IN  IF i.op = "DAA"
      THEN set(a + b + e > 65535, sum + (IF (sum \div 256) % 256 > 153 THEN 1536 ELSE 0))
      ELSE set(a - b - e < 0, diff - (IF Nibble(a, 1) < Nibble(b, 1) THEN 96 ELSE 0))

\* Mutant: the carry between the words is lost.
DoubleNoCarry(c, i) ==
  LET at == c.r[(i.x % 4) + 1]
      hi == RdC(c, at)
      lo == RdC(c, Word(at + 1))
      e == IF i.x < 4 THEN CarryIn(c) ELSE 0
      sum == c.r[1] + lo + e
      dif == c.r[1] - lo - e
  IN  IF i.op = "AD"
      THEN Result32(Flags(c, c.r[0] + hi > 65535, FALSE), i.k, Word(c.r[0] + hi), Word(sum))
      ELSE LET top == c.r[0] - hi - (IF dif < 0 THEN 1 ELSE 0)
           IN  Result32(Flags(c, top < 0, FALSE), i.k, Word(top), Word(dif))

\* AD and SD work on R0, R1 and two words; neither reports an overflow.
Double(c, i) ==
  LET at == c.r[(i.x % 4) + 1]
      hi == RdC(c, at)
      lo == RdC(c, Word(at + 1))
      e == IF i.x < 4 THEN CarryIn(c) ELSE 0
      sum == c.r[1] + lo + e
      dif == c.r[1] - lo - e
      top == IF i.op = "AD" THEN c.r[0] + hi + (sum \div 65536)
             ELSE c.r[0] - hi - (IF dif < 0 THEN 1 ELSE 0)
  IN  Result32(Flags(c, top < 0 \/ top > 65535, FALSE), i.k, Word(top), Word(IF i.op = "AD" THEN sum ELSE dif))

Product(a, b) ==
  LET high == (a \div 256) * b
      low == (a % 256) * b + 256 * (high % 256)
  IN  <<(high \div 256) + (low \div 65536), Word(low)>>
Multiply(c, i) ==
  LET p == Product(c.r[0], RdC(c, c.r[i.x + 1])) IN Result32(Flags(c, FALSE, FALSE), i.k, p[1], p[2])

\* <<quotient, remainder>> of a 32-bit number whose quotient fits a word, a byte at a time.
Quotient(hi, lo, d) ==
  LET top == 256 * hi + (lo \div 256)
      low == 256 * (top % d) + (lo % 256)
  IN  <<256 * (top \div d) + (low \div d), low % d>>

\* A division by 0, or one whose quotient does not fit, leaves R0 and R1 and does not look at the skip.
Divide(c, i) ==
  LET d == RdC(c, c.r[i.x + 1])
      q == Quotient(c.r[0], c.r[1], d)
  IN  IF d <= c.r[0] THEN Flags(c, FALSE, TRUE)
      ELSE SkipIf([Flags(c, FALSE, FALSE) EXCEPT !.r[0] = q[1], !.r[1] = q[2]], i.k, q[1])

\* Two subtractions: the flags are those of the second, the borrow of 0 - Rd is lost.
Negate(c, i) ==
  LET n == i.x % 8
      e == IF i.x < 8 THEN CarryIn(c) ELSE 0
      w == Word(-Gr(c, n))
  IN  Result(Subtracted(c, w, e), n, i.k, Word(w - e))

\* Base 16, exponent 64 for 16^0; an integer of a word has at most four digits.
Digits(n) == CHOOSE d \in 0 .. 4 : n < Hex[d + 1] /\ (d > 0 => n >= Hex[d])
Float(c, i) ==
  LET n == Signed(c.r[0])
      size == IF n < 0 THEN -n ELSE n
      digits == Digits(size)
      mantissa == size * Hex[7 - digits]
      head == (IF n < 0 THEN 32768 ELSE 0) + 256 * (64 + digits) + (mantissa \div 65536)
  IN  IF n = 0 THEN Result32(Flags(c, FALSE, FALSE), i.k, 0, 0)
      ELSE Result32(Flags(c, FALSE, FALSE), i.k, head, Word(mantissa))
Fix(c, i) ==
  LET exp == (c.r[0] \div 256) % 128
      mantissa == 65536 * (c.r[0] % 256) + c.r[1]
      size == IF exp < 64 THEN 0
              ELSE IF exp <= 70 THEN mantissa \div Hex[71 - exp]
              ELSE IF mantissa > 4096 \/ (exp > 74 /\ mantissa > 0) THEN 65536    \* too big for any word
              ELSE IF mantissa = 0 THEN 0 ELSE mantissa * Hex[exp - 69]
      n == IF Negative(c.r[0]) THEN -size ELSE size
      over == n < -32768 \/ n > 32767
  IN  Result(Flags(c, FALSE, over), 0, i.k, IF over THEN 0 ELSE Word(n))

\* A division by 0 keeps R0 and R1; unlike D it looks at the skip.
Floating(c, i, t) ==
  LET at == c.r[i.x + 1]
      zero == RdC(c, at) % 256 = 0 /\ RdC(c, Word(at + 1)) = 0
  IN  IF i.op = "FD" /\ zero THEN Result32(Flags(c, FALSE, TRUE), i.k, c.r[0], c.r[1])
      ELSE Result32(Flags(c, FALSE, t[3]), i.k, t[1], t[2])

-----------------------------------------------------------------------------
(* The other instructions *)

Memory(c, i) ==
  LET at == Ea(c, i.m, i.x)
      count == Word(RdC(c, at) + (IF i.op = "IMS" THEN 1 ELSE -1))
  IN  CASE i.op = "L" -> Sw(c, i.r, RdC(c, at))
        [] i.op = "ST" -> WrC(c, at, Gr(c, i.r))
        [] i.op = "B" -> [c EXCEPT !.ic = at]
        [] i.op = "BAL" -> [Push(c, c.ic) EXCEPT !.ic = at]
        [] i.op \in {"IMS", "DMS"} -> SkipIf(WrC(c, at, count), 4, count)

\* Segment and special registers: to and from memory, to and from a register.
Segments(c, i, imm) ==
  CASE i.op = "LB" -> SetSeg(c, i.k, RdC(c, imm))
    [] i.op = "LS" -> SetSpec(c, i.k, RdC(c, imm))
    [] i.op = "STB" -> WrC(c, imm, c.seg[i.k])
    [] i.op = "STS" -> WrC(c, imm, IF i.k > 2 THEN 0 ELSE c.spec[i.k])
    [] i.op = "CPYB" -> Sw(c, i.x, c.seg[i.k])
    [] i.op = "CPYS" -> Sw(c, i.x, IF i.k > 2 THEN 0 ELSE c.spec[i.k])
    [] i.op = "SETB" -> SetSeg(c, i.k, Gr(c, i.x))
    [] i.op = "SETS" -> SetSpec(c, i.k, Gr(c, i.x))
    [] i.op = "CPYH" -> Sw(c, i.x, IF i.k = 6 THEN c.iisr ELSE 0)
    [] i.op = "SETH" -> IF i.k = 6 THEN [c EXCEPT !.iisr = Gr(c, i.x)] ELSE c

PopTo(c, n) == Sw(Pop(c), n, Popped(c))
Stack(c, i) ==
  CASE i.op = "PUSH" -> Push(c, Gr(c, i.r))
    [] i.op = "POP" -> PopTo(c, i.r)
    [] i.op = "PSHM" -> Push(Push(Push(Push(Push(c, c.r[0]), c.r[1]), c.r[2]), c.r[3]), c.r[4])
    [] i.op = "POPM" -> PopTo(PopTo(PopTo(PopTo(PopTo(c, 4), 3), 2), 1), 0)

\* CSBR and IC come from two words of the current code segment, after a push that may change them.
Far(c, at) == [c EXCEPT !.seg[0] = RdC(c, at) % 16, !.ic = RdC(c, Word(at + 1))]
PushFar(c) == Push(Push(c, c.ic), c.seg[0])

Branch(c, i, imm) ==
  CASE i.op = "RET" -> [Pop(c) EXCEPT !.ic = Popped(c)]
    [] i.op = "BD" -> [c EXCEPT !.ic = imm]
    [] i.op = "BALD" -> [Push(c, c.ic) EXCEPT !.ic = imm]
    [] i.op = "BL" -> Far(c, imm)
    [] i.op = "BALL" -> Far(PushFar(c), imm)
    [] i.op = "BR" -> Far(c, c.r[i.x + 1])
    [] i.op = "BALR" -> Far(PushFar(c), c.r[i.x + 1])
    [] i.op = "RETL" -> LET ret == Pop(c)
                        IN  [Pop(ret) EXCEPT !.seg[0] = Popped(c) % 16, !.ic = Popped(ret)]
    [] i.op = "LPSW" -> [c EXCEPT !.str = Rd(c, 2 * i.x), !.ic = Rd(c, 2 * i.x + 1), !.seg[0] = c.seg[4 + i.x]]

\* LD, STD with a segment; LR, STR through R1-R4, before or after a step of 1.
Transfer(c, i, imm) ==
  LET n == i.x + 1
      at == IF i.k \div 4 = 2 THEN Word(c.r[n] - 1) ELSE c.r[n]
      moved == CASE i.k \div 4 = 2 -> [c EXCEPT !.r[n] = at]
                 [] i.k \div 4 = 3 -> [c EXCEPT !.r[n] = Word(@ + 1)]
                 [] OTHER -> c
  IN  CASE i.op = "LD" -> Sw(c, i.x, RdB(c, imm, i.k))
        [] i.op = "STD" -> WrB(c, imm, i.k, Gr(c, i.x))
        [] i.op = "LR" -> Sw(moved, i.r, RdB(c, at, i.k % 4))
        [] i.op = "STR" -> WrB(moved, at, i.k % 4, Gr(moved, i.r))

\* RE, SE and CE set the flag the shift then takes in.
ExtendIn(c, ee) == CASE ee = 0 -> HasBit(c.str, E) [] ee = 1 -> FALSE [] ee = 2 -> TRUE [] ee = 3 -> ~HasBit(c.str, E)
Shift(c, i) ==
  LET in == IF ExtendIn(c, i.x) THEN 1 ELSE 0
      a == Gr([c EXCEPT !.str = WithBit(@, E, in = 1)], i.r)
      set(out, w) == Result([c EXCEPT !.str = WithBit(@, E, out)], i.r, i.k, w)
  IN  IF i.op = "SR" THEN set(a % 2 = 1, (a \div 2) + 32768 * in) ELSE set(Negative(a), Word(2 * a + in))

Bits(c, i, imm) ==
  LET bit == Bit(i.x)
      a == Gr(c, i.r)
      word == RdC(c, imm)
      mask == Gr(c, i.x)
      top == CHOOSE n \in Ones(mask) : \A o \in Ones(mask) : n <= o
  IN  CASE i.op = "TBIT" -> SkipIf(c, i.k, And(a, bit))
        [] i.op = "RBIT" -> Result(c, i.r, i.k, WithBit(a, bit, FALSE))
        [] i.op = "SBIT" -> Result(c, i.r, i.k, WithBit(a, bit, TRUE))
        [] i.op = "TSET" -> SkipIf(WrC(c, imm, Or(word, mask)), i.k, And(word, mask))
        [] i.op = "TRST" -> SkipIf(WrC(c, imm, word - And(word, mask)), i.k, And(word, mask))
        [] i.op = "SRBT" -> IF mask = 0 THEN Sw([c EXCEPT !.r[0] = 16], i.x, 0)
                            ELSE Sw([c EXCEPT !.r[0] = top], i.x, WithBit(mask, Bit(top), FALSE))
        [] i.op = "DEBP" -> Sw(c, i.x, WithBit(mask, Bit(c.r[0] % 16), TRUE))

\* Word by word upwards, so a copy that overlaps upwards repeats what it has written.
CopyWord(b) ==
  [WrB(b, b.r[2], 3, RdB(b, b.r[1], 2)) EXCEPT !.r[1] = Word(@ + 1), !.r[2] = Word(@ + 1), !.r[0] = @ - 1]
Block(c) ==
  LET after[n \in 0 .. c.r[0]] == IF n = 0 THEN c ELSE CopyWord(after[n - 1])
  IN  after[c.r[0]]

Port(c, i) ==
  LET at == IF i.op \in {"RD", "WT"} THEN i.x ELSE c.r[i.x + 1]
      old == IF at \in DOMAIN c.io THEN c.io[at] ELSE 0
  IN  IF i.op \in {"RD", "RDR"} THEN Sw(c, i.r, old)
      ELSE [c EXCEPT !.io = [p \in DOMAIN c.io \cup {at} |-> IF p = at THEN Gr(c, i.r) ELSE c.io[p]]]

SmallConstant(c, i) ==
  LET w == Word(Gr(c, i.r) + (IF i.op = "AI" THEN i.x ELSE -i.x)) IN Result(c, i.r, i.k, w)

\* H stops the core; the status is the caller's.
Perform(c, i, imm, t) ==
  CASE i.op \in {"L", "ST", "B", "BAL", "IMS", "DMS"} -> Memory(c, i)
    [] i.op \in DOMAIN Meaning -> Alu(c, i, imm)
    [] i.op = "MVI" -> Sw(c, i.r, 256 * (Gr(c, i.r) \div 256) + i.x)
    [] i.op \in {"AI", "SI"} -> SmallConstant(c, i)
    [] i.op \in {"LB", "LS", "STB", "STS", "CPYB", "CPYS", "SETB", "SETS", "CPYH", "SETH"} -> Segments(c, i, imm)
    [] i.op \in {"PUSH", "POP", "PSHM", "POPM"} -> Stack(c, i)
    [] i.op \in {"RET", "BD", "BALD", "BL", "BALL", "BR", "BALR", "RETL", "LPSW"} -> Branch(c, i, imm)
    [] i.op \in {"LD", "STD", "LR", "STR"} -> Transfer(c, i, imm)
    [] i.op \in {"SR", "SL"} -> Shift(c, i)
    [] i.op \in {"TBIT", "RBIT", "SBIT", "TSET", "TRST", "SRBT", "DEBP"} -> Bits(c, i, imm)
    [] i.op \in {"AD", "SD"} -> Double(c, i)
    [] i.op \in {"DAA", "DAS"} -> Decimal(c, i)
    [] i.op = "M" -> Multiply(c, i)
    [] i.op = "D" -> Divide(c, i)
    [] i.op = "NEG" -> Negate(c, i)
    [] i.op = "FLT" -> Float(c, i)
    [] i.op = "FIX" -> Fix(c, i)
    [] i.op \in {"FA", "FS", "FM", "FD"} -> Floating(c, i, t)
    [] i.op = "BLK" -> Block(c)
    [] i.op \in {"RD", "WT", "RDR", "WTR"} -> Port(c, i)
    [] i.op = "H" -> c

-----------------------------------------------------------------------------
(* Interrupts *)

Fetched(c) == ISA!Performed(RdC(c, c.ic))

\* Mutant: CSBR is not kept for LPSW.
AcceptNoOsr(c, lv) ==
  LET saved == Wr(Wr([c EXCEPT !.pend = @ \ {lv}, !.seg[0] = 0], 2 * lv, c.str), 2 * lv + 1, c.ic)
      npsw == 256 * c.spec[2] + 2 * lv
  IN  [saved EXCEPT !.str = Rd(saved, npsw), !.ic = Rd(saved, npsw + 1)]

\* OPSW to the first words of memory, CSBR to the OSR of the level, NPSW from where NPP points.
Accept(c, lv) ==
  LET saved == Wr(Wr([c EXCEPT !.pend = @ \ {lv}, !.seg[0] = 0, !.seg[4 + lv] = c.seg[0]], 2 * lv, c.str),
                  2 * lv + 1, c.ic)
      npsw == 256 * c.spec[2] + 2 * lv
  IN  [saved EXCEPT !.str = Rd(saved, npsw), !.ic = Rd(saved, npsw + 1)]

Acceptable(c) == {lv \in c.pend : HasBit(c.str, Mask[lv])}

\* An undefined word raises level 0 whatever its mask, behind the word.
Executed(c, t) ==
  LET i == Fetched(c)
      next == [c EXCEPT !.ic = Word(@ + i.words)]
  IN  IF i.op = ".word" THEN Accept([next EXCEPT !.iisr = Or(@, 1)], 0)
      ELSE Perform(next, i, RdC(c, Word(c.ic + 1)), t)

\* The program by itself: an undefined word does nothing but leave its mark in IISR.
Uninterrupted(c, t) ==
  IF Fetched(c).op = ".word" THEN [c EXCEPT !.ic = Word(@ + 1), !.iisr = Or(@, 1)] ELSE Executed(c, t)

\* _executeOne: at most one interrupt, the lowest level first, and the instruction it leads to.
ExecuteOne(after) ==
  LET open == Acceptable(m)
      lv == CHOOSE l \in open : \A o \in open : l <= o
      c == IF open = {} THEN m ELSE Accept(m, lv)
      levels == IF open = {} THEN nest ELSE Append(nest, lv)
      op == Fetched(c).op
  IN  /\ \E t \in FloatResults :
           /\ m' = Executed(c, t)
           /\ ref' = IF levels = << >> THEN Uninterrupted(ref, t) ELSE ref
      /\ status' = IF op = "H" THEN "halted" ELSE after
      /\ nest' = CASE op = ".word" -> Append(levels, 0)
                   [] op = "LPSW" /\ levels # << >> -> SubSeq(levels, 1, Len(levels) - 1)
                   [] OTHER -> levels
      /\ UNCHANGED <<hlt, start, edges>>

-----------------------------------------------------------------------------
(* Running, stopping, stepping *)

Init ==
  /\ m \in Machines
  /\ status = "idle" /\ hlt = FALSE
  /\ start = m /\ ref = m
  /\ nest = << >> /\ edges \in 0 .. MaxEdges

Awake == status = "running" \/ (status = "halted" /\ Acceptable(m) # {})

\* tickCpu: a breakpoint is looked at before the interrupts are.
Tick ==
  /\ ~hlt /\ Awake
  /\ IF m.ic \in Breakpoints
     THEN status' = "break" /\ UNCHANGED <<m, hlt, start, ref, nest, edges>>
     ELSE ExecuteOne("running")

\* step(): from any status, except that a halted core waits for an interrupt; no breakpoints.
Step ==
  /\ ~hlt /\ (status # "halted" \/ Acceptable(m) # {})
  /\ ExecuteOne("step")

Control(next) ==
  /\ status' = next
  /\ UNCHANGED <<m, start, ref, nest, edges>>
StartRun == ~hlt /\ Control("running") /\ UNCHANGED hlt
RequestHalt == status = "running" /\ Control("halted") /\ UNCHANGED hlt
SetStepMode == status = "running" /\ Control("step") /\ UNCHANGED hlt
SetHlt == ~hlt /\ hlt' = TRUE /\ Control(IF status = "running" THEN "halted" ELSE status)
ReleaseHlt == hlt /\ hlt' = FALSE /\ Control(status)

\* setPins with a rising edge; a level that is pending already is not counted twice.
RaiseIrq(lv) ==
  /\ edges < MaxEdges
  /\ edges' = edges + 1
  /\ m' = [m EXCEPT !.pend = @ \cup {lv}]
  /\ UNCHANGED <<status, hlt, start, ref, nest>>

Reset ==
  LET vec == IF 0 \in DOMAIN m.io THEN m.io[0] ELSE 0
      clear == [m EXCEPT !.r = [n \in 0 .. 4 |-> 0], !.sp = 0, !.seg = [b \in 0 .. 7 |-> 0],
                 !.spec = [p \in 0 .. 2 |-> IF p = 2 THEN 1 ELSE 0], !.iisr = 0, !.pend = {},
                 !.str = Rd(m, vec + 2), !.ic = Rd(m, vec + 3), !.keeps = {}]
  IN  /\ edges < MaxEdges
      /\ edges' = edges + 1
      /\ m' = clear /\ start' = clear /\ ref' = clear /\ nest' = << >>
      /\ status' = IF hlt THEN "halted" ELSE "running"
      /\ UNCHANGED hlt

Next ==
  \/ Tick \/ Step \/ StartRun \/ RequestHalt \/ SetStepMode \/ SetHlt \/ ReleaseHlt \/ Reset
  \/ \E lv \in 0 .. 2 : RaiseIrq(lv)
Spec == Init /\ [][Next]_vars

-----------------------------------------------------------------------------
\* Words nothing reads any more: the saved status words and the stack above its pointer.
Dead(c) == 0 .. 5 \cup {Phys(Word(c.sp - n), c.seg[1]) : n \in 0 .. 47}

\* Interrupts are invisible to the program: whenever no handler is active, registers, flags,
\* segments, ports and memory are what the program by itself would have made them, wherever the
\* interrupts came, between a skip and what it skips, inside a far routine or in another handler
\* (_acceptIrq, _trapUndefinedInsn and LPSW, with handlers that use PSHM, POPM, BALL and RETL).
InterruptsInvisible ==
  nest = << >> =>
    /\ \A n \in 0 .. 7 : Gr(m, n) = Gr(ref, n)
    /\ \A b \in 0 .. 3 : m.seg[b] = ref.seg[b]
    /\ m.spec = ref.spec /\ m.iisr = ref.iisr /\ m.io = ref.io
    /\ \A p \in (DOMAIN m.mem \cup DOMAIN ref.mem) \ Dead(m) : Rd(m, p) = Rd(ref, p)

\* Instructions that are each other's inverse undo each other: a program of such a pair that has come
\* to its H has the registers it keeps as they were (_add and _sub, shifts with E, M and D, AD and SD,
\* FLT and FIX, SRBT and DEBP, PSHM and POPM, the auto-step of STR and LR, BALL and RETL, the segment
\* and special registers with their loads and stores; a division by a floating 0 keeps its operand).
PairsUndo ==
  status = "halted" /\ nest = << >> /\ Rd(m, Phys(Word(m.ic - 1), m.seg[0])) = ISA!Forms["H"].base =>
    \A n \in start.keeps : Gr(m, n) = Gr(start, n)

\* E is the carry or borrow of the unsigned words and OVF tells that the signed result does not fit,
\* for every form of addition, subtraction and comparison (_add, _sub).
ExactFlags ==
  LET i == Fetched(m)
      a == Gr(m, i.r)
      b == Operand([m EXCEPT !.ic = Word(@ + i.words)], i, RdC(m, Word(m.ic + 1)))
      exact(x, y) == HasBit(m'.str, E) = (x \notin Words) /\ HasBit(m'.str, OVF) = (y < -32768 \/ y > 32767)
  IN  m'.ic # m.ic /\ Acceptable(m) = {} /\ edges' = edges /\ i.op \in DOMAIN Meaning /\ i.r < 6 =>
        CASE Meaning[i.op] = "add" -> exact(a + b, Signed(a) + Signed(b))
          [] Meaning[i.op] \in {"sub", "cmp"} -> exact(a - b, Signed(a) - Signed(b))
          [] OTHER -> TRUE
FlagsAreExact == [][ExactFlags]_vars

=============================================================================
