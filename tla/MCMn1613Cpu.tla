---------------------------- MODULE MCMn1613Cpu ----------------------------
(* A program with handlers for the three levels, and pairs of instructions that undo each other. *)
EXTENDS Mn1613Cpu, TLC

I(op, r, k, x) == ISA!Encode([op |-> op, m |-> 0, r |-> r, k |-> k, x |-> x])
At(a, code) == [p \in a .. a + Len(code) - 1 |-> code[p - a + 1]]
Machine(image, ic, str, regs, keeps) ==
  [r |-> [n \in 0 .. 4 |-> regs[n + 1]], sp |-> 900, str |-> str, ic |-> ic, seg |-> [b \in 0 .. 7 |-> 0],
   spec |-> [p \in 0 .. 2 |-> IF p = 2 THEN 1 ELSE 0], iisr |-> 0, pend |-> {}, mem |-> image,
   io |-> 0 :> 384, keeps |-> keeps]

Here == 53248 - 256       \* B * with mode 1 and displacement 0: stays where it is
AllLevels == Mask[0] + Mask[1] + Mask[2]

\* Level 2 lets the others in and works in segment 1; each spoils registers, flags and STR.
Handlers ==
     At(256, <<0, 300, Mask[0], 320, Mask[0] + Mask[1], 340>>)
  @@ At(300, <<I("PSHM", 0, 0, 0), I("EOR", 0, 1, 0), I("H", 0, 0, 0), I("POPM", 0, 0, 0), I("LPSW", 0, 0, 0)>>)
  @@ At(320, <<I("PSHM", 0, 0, 0), I("AWI", 2, 0, 0), 65535, I("POPM", 0, 0, 0), I("LPSW", 0, 0, 1)>>)
  @@ At(340, <<I("PSHM", 0, 0, 0), I("BALL", 0, 0, 0), 360, I("POPM", 0, 0, 0), I("LPSW", 0, 0, 2)>>)
  @@ At(360, <<1, 16>>)                                 \* segment 1, 16
  @@ At(16384 + 16, <<I("SL", 1, 0, 2), I("RETL", 0, 0, 0)>>)

\* The far routine at segment 2; an undefined word; a skip over two words; H as a wait for an interrupt.
Main ==
     At(384, <<0, 0, 0, 400>>)                          \* the vector of a reset: interrupts masked
  @@ At(400, <<I("MVWI", 0, 0, 0), 32767, I("MVWI", 5, 0, 0), 900, I("MVWI", 6, 0, 0), AllLevels,
               I("AWI", 0, 11, 0), 1, I("MVWI", 1, 0, 0), 7,
               I("PUSH", 0, 0, 0), I("BALL", 0, 0, 0), 430, 0, I("POP", 1, 0, 0), I("SETB", 0, 2, 1),
               I("WT", 1, 0, 9), I("H", 0, 0, 0), Here>>)
  @@ At(430, <<2, 8>>)
  @@ At(32768 + 8, <<I("SL", 0, 0, 3), I("SR", 2, 9, 0), I("STD", 0, 1, 0), 950, I("RETL", 0, 0, 0)>>)

Program == Machine(Handlers @@ Main, 400, 0, <<0, 0, 0, 0, 0>>, {})

Values == {0, 1, 32767, 32768, 43981, 65535}
Pair(code, keeps) == [code |-> code, keeps |-> keeps]
Pairs == {
  Pair(<<I("A", 0, 0, 1), I("S", 0, 0, 1)>>, 0 .. 5),
  Pair(<<I("AWR", 0, 0, 1), I("SWR", 0, 0, 1)>>, 0 .. 5),
  Pair(<<I("C", 0, 0, 1), I("EOR", 0, 0, 1), I("EOR", 0, 0, 1)>>, 0 .. 5),
  Pair(<<I("BSWP", 0, 0, 0), I("BSWP", 0, 0, 0)>>, 0 .. 5),
  Pair(<<I("DSWP", 0, 0, 0), I("DSWP", 0, 0, 0)>>, 0 .. 5),
  Pair(<<I("SL", 0, 0, 0), I("SR", 0, 0, 0)>>, 0 .. 6),
  Pair(<<I("SR", 0, 0, 3), I("SL", 0, 0, 0)>>, 0 .. 5),
  Pair(<<I("NEG", 0, 0, 8), I("NEG", 0, 0, 8)>>, 0 .. 5),
  Pair(<<I("M", 0, 0, 1), I("D", 0, 0, 1)>>, {0, 2, 3, 4, 5}),
  Pair(<<I("FLT", 0, 0, 0), I("FIX", 0, 0, 0)>>, {0, 2, 3, 4, 5}),
  Pair(<<I("AD", 0, 0, 9), I("SD", 0, 0, 9)>>, 0 .. 5),
  Pair(<<I("PSHM", 0, 0, 0), I("MV", 0, 0, 1), I("POPM", 0, 0, 0)>>, 0 .. 5),
  Pair(<<I("STR", 0, 8, 1), I("MVI", 0, 0, 17), I("LR", 0, 12, 1)>>, 0 .. 5),
  Pair(<<I("BALL", 0, 0, 0), 430>>, 0 .. 5),
  Pair(<<I("SETS", 0, 1, 0), I("MVI", 0, 0, 17), I("CPYS", 0, 1, 0)>>, 0 .. 5),
  Pair(<<I("SETH", 0, 6, 0), I("MVI", 0, 0, 17), I("CPYH", 0, 6, 0)>>, 0 .. 5),
  Pair(<<I("LS", 0, 1, 0), 601, I("STS", 0, 1, 0), 603, I("MV", 0, 0, 1), I("CWR", 0, 0, 1)>>, 1 .. 5),
  Pair(<<I("FA", 0, 0, 1), I("FM", 0, 0, 1)>>, {2, 3, 4, 5}),
  Pair(<<I("FD", 0, 0, 3)>>, 0 .. 5)}
\* SRBT finds nothing in 0.
BitPair == Pair(<<I("SRBT", 0, 0, 1), I("DEBP", 0, 0, 1)>>, 1 .. 5)

Alone(p, a, b, d, str) ==
  Machine(At(600, <<d, 43981>>) @@ At(700, p.code \o <<I("H", 0, 0, 0), Here>>)
            @@ At(430, <<2, 8>>) @@ At(32768 + 8, <<I("RETL", 0, 0, 0)>>),
          700, str, <<a, b, 600, 601, 602>>, p.keeps)
PairMachines ==
  {Alone(p, a, b, d, str) : p \in Pairs, a \in Values, b \in Values, d \in {1, 43981, 65535}, str \in {0, E}}
  \cup {Alone(BitPair, a, b, 1, str) : a \in {0}, b \in Values \ {0}, str \in {0, E}}
AllMachines == {Program} \cup PairMachines
Stops == {406}
\* A sum that fits and one that overflows.
Sums == {<<16912, 1, FALSE>>, <<0, 0, TRUE>>}

\* The pairs run with interrupts masked: their edges are spent.
MCInit == Init /\ edges = IF m = Program THEN 0 ELSE MaxEdges
MCSpec == MCInit /\ [][Next]_vars
=============================================================================
