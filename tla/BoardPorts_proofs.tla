-------------------------- MODULE BoardPorts_proofs --------------------------
(***************************************************************************)
(* Proofs about BoardPorts, for all lines, comparators, watches, accesses  *)
(* and delays: the CPU's lines on the bus and in the CRU, the watches in   *)
(* the comparators, and the step.                                          *)
(***************************************************************************)
EXTENDS BoardPorts, TLAPS

-----------------------------------------------------------------------------
(* The lines.                                                              *)

IsBus(b) == b = [l \in BusWords |-> b[l]]
IsCru(c) == c = [l \in CruWords |-> c[l]]

\* A function that is the copy of another has the other's lines of the CPU.
HasLines(f, d) == \A l \in CpuLines : f[l] = d[l]

\* The bus shows what the CPU drives, and so does the CRU as long as it is the
\* CPU's; a copy of one to the other changes neither.
LinesInv ==
  /\ IsBus(bus) /\ IsCru(cru) /\ driven = [l \in Lines |-> driven[l]]
  /\ mode \in {"mn1613", "tms9995"}
  /\ HasLines(bus, driven)
  /\ mode = "tms9995" => HasLines(cru, driven)

\* The set of wires w shows the lines d.
Shows(w, d) ==
  /\ w = [cru |-> w.cru, bus |-> w.bus, irq |-> w.irq]
  /\ IsBus(w.bus) /\ IsCru(w.cru)
  /\ HasLines(w.bus, d) /\ (mode = "tms9995" => HasLines(w.cru, d))

\* The names of the lines are not those of the other words.
LEMMA Names ==
  ASSUME NEW l \in CpuLines
  PROVE  /\ l \in Lines /\ l \in BusWords /\ l \in CruWords
         /\ l # "cause" /\ l # "int1" /\ l # "int2"
BY BoardPortsAssumption DEF Lines, BusWords, CruWords

\* The causes are no lines (applyPackedCauseToTmsCru).
LEMMA CauseKeepsLines ==
  ASSUME NEW c, IsCru(c), NEW cause
  PROVE  /\ IsCru(applyPackedCauseToTmsCru(c, cause))
         /\ \A l \in CpuLines : applyPackedCauseToTmsCru(c, cause)[l] = c[l]
<1>. DEFINE n1 == IF (cause \div 2) % 4 = 1 THEN 1 ELSE 0
            n2 == IF cause = STEP THEN 1 ELSE 0
<1>1. applyPackedCauseToTmsCru(c, cause) = [c EXCEPT !.int1 = n1, !.int2 = n2]
  BY DEF applyPackedCauseToTmsCru
<1>. HIDE DEF n1, n2
<1>. QED
  BY <1>1, Names DEF IsCru

\* The copy of the CRU to the bus shows what the CRU shows.
LEMMA CopyShows ==
  ASSUME NEW w, NEW d, w = [cru |-> w.cru, bus |-> w.bus, irq |-> w.irq],
         IsCru(w.cru), HasLines(w.cru, d)
  PROVE  Shows(syncTmsCruToBus(w), d)
<1>. DEFINE folded == [l \in BusWords |-> IF l \in Lines THEN w.cru[l] ELSE Fold(w.cru)]
            noted == applyPackedCauseToTmsCru(w.cru, Fold(w.cru))
            irqs == w.irq \cup {<<"tms9995", 1>>}
<1>1. IsBus(folded) /\ HasLines(folded, d)
  BY Names DEF IsBus, HasLines
<1>2. IsCru(noted) /\ HasLines(noted, d)
  BY CauseKeepsLines DEF HasLines
<1>3. \/ syncTmsCruToBus(w) = [cru |-> noted, bus |-> folded, irq |-> irqs]
      \/ syncTmsCruToBus(w) = [w EXCEPT !.bus = folded]
  BY DEF syncTmsCruToBus
<1>. HIDE DEF folded, noted, irqs
<1>4. [w EXCEPT !.bus = folded] = [cru |-> w.cru, bus |-> folded, irq |-> w.irq]
  OBVIOUS
<1>. QED
  BY <1>1, <1>2, <1>3, <1>4 DEF Shows

\* A cause of the IO board shows the same lines.
LEMMA SetCauseShows ==
  ASSUME NEW w, NEW d, Shows(w, d), NEW cause
  PROVE  Shows(setIntCause(w, cause), d)
<1>1. ASSUME NEW v, Shows(v, d)
      PROVE  Shows([v EXCEPT !.bus.cause = cause], d)
  <2>1. [v EXCEPT !.bus.cause = cause]
          = [cru |-> v.cru, bus |-> [v.bus EXCEPT !.cause = cause], irq |-> v.irq]
    BY <1>1 DEF Shows
  <2>2. IsBus([v.bus EXCEPT !.cause = cause])
        /\ \A l \in CpuLines : [v.bus EXCEPT !.cause = cause][l] = v.bus[l]
    BY <1>1, Names DEF Shows, IsBus
  <2>. QED
    BY <1>1, <2>1, <2>2 DEF Shows, HasLines
<1>2. CASE mode = "tms9995"
  <2>. DEFINE c == applyPackedCauseToTmsCru(w.cru, cause)
              v == [w EXCEPT !.cru = c]
  <2>1. IsCru(c) /\ HasLines(c, d)
    BY <1>2, CauseKeepsLines DEF Shows, HasLines
  <2>2. v = [cru |-> c, bus |-> w.bus, irq |-> w.irq]
    BY DEF Shows
  <2>. HIDE DEF c
  <2>3. Shows(syncTmsCruToBus(v), d)
    BY <2>1, <2>2, CopyShows
  <2>. QED
    BY <1>1, <1>2, <2>3 DEF setIntCause, c
<1>3. CASE mode # "tms9995"
  BY <1>1, <1>3 DEF setIntCause
<1>. QED
  BY <1>2, <1>3

\* So does a break (raiseAddrBreakIrq, raiseStepBreakIrq).
LEMMA RaiseShows ==
  ASSUME NEW w, NEW d, Shows(w, d), NEW hit, NEW int2
  PROVE  Shows(RaiseIf(hit, w, int2), d)
<1>1. ASSUME NEW v, Shows(v, d), NEW more
      PROVE  Shows([v EXCEPT !.irq = more], d)
  <2>1. [v EXCEPT !.irq = more] = [cru |-> v.cru, bus |-> v.bus, irq |-> more]
    BY <1>1 DEF Shows
  <2>. QED
    BY <1>1, <2>1 DEF Shows
<1>2. CASE mode = "tms9995"
  <2>. DEFINE c == [w.cru EXCEPT !.int2 = int2]
              v == [w EXCEPT !.cru.int2 = int2]
  <2>1. v = [cru |-> c, bus |-> w.bus, irq |-> w.irq]
    BY DEF Shows
  <2>2. IsCru(c) /\ HasLines(c, d)
    BY <1>2, Names DEF Shows, IsCru, HasLines
  <2>. HIDE DEF c, v
  <2>3. Shows(syncTmsCruToBus(v), d)
    BY <2>1, <2>2, CopyShows
  <2>4. raiseBreak(w, int2)
          = [syncTmsCruToBus(v) EXCEPT !.irq = @ \cup {<<"mn1613", 2>>}]
    BY <1>2 DEF raiseBreak, v
  <2>. QED
    BY <1>1, <2>3, <2>4 DEF RaiseIf
<1>3. CASE mode # "tms9995"
  <2>1. raiseBreak(w, int2)
          = [setIntCause(w, int2) EXCEPT !.irq = @ \cup {<<"mn1613", 1>>}]
    BY <1>3 DEF raiseBreak
  <2>2. Shows(setIntCause(w, int2), d)
    BY SetCauseShows
  <2>. QED
    BY <1>1, <2>1, <2>2 DEF RaiseIf
<1>. QED
  BY <1>2, <1>3

\* The wires as they are show what the CPU drives.
LEMMA WiresShow == ASSUME LinesInv PROVE Shows(Wires, driven)
BY DEF LinesInv, Shows, Wires

\* Wires that show the CPU's lines leave the invariant.
LEMMA WiresSet ==
  ASSUME LinesInv, NEW w, NEW d, Shows(w, d), SetWires(w),
         driven' = d, d = [l \in Lines |-> d[l]], mode' = mode
  PROVE  LinesInv'
BY DEF LinesInv, Shows, SetWires

\* The CPU's own accesses (io_port_bridge.ts, cru_handshake.ts).
LEMMA LinesOfCpu ==
  ASSUME LinesInv, CpuNext
  PROVE  LinesInv'
<1>1. ASSUME NEW l, NEW v, CpuDrives(l, v)
      PROVE  LinesInv'
  <2>0. l \in CpuLines /\ l \in Lines /\ mode' = mode /\ driven' = [driven EXCEPT ![l] = v]
    BY <1>1, Names DEF CpuDrives
  <2>1. CASE mode = "mn1613" /\ bus' = [bus EXCEPT ![l] = v] /\ UNCHANGED <<cru, irq>>
    BY <2>0, <2>1, Names DEF LinesInv, IsBus, IsCru, HasLines
  <2>2. CASE mode = "tms9995" /\ SetWires(syncTmsCruToBus([Wires EXCEPT !.cru[l] = v]))
    <3>. DEFINE c == [cru EXCEPT ![l] = v]
                w == [Wires EXCEPT !.cru[l] = v]
                d == [driven EXCEPT ![l] = v]
    <3>1. w = [cru |-> c, bus |-> bus, irq |-> irq]
      BY DEF Wires
    <3>2. IsCru(c) /\ HasLines(c, d)
      BY <2>0, <2>2, Names DEF LinesInv, IsCru, HasLines, Lines
    <3>3. d = [k \in Lines |-> d[k]]
      BY DEF LinesInv
    <3>4. driven' = d /\ SetWires(syncTmsCruToBus(w))
      BY <2>0, <2>2
    <3>. HIDE DEF c, w, d
    <3>5. Shows(syncTmsCruToBus(w), d)
      BY <3>1, <3>2, CopyShows
    <3>. QED
      BY <2>0, <3>3, <3>4, <3>5, WiresSet
  <2>. QED
    BY <1>1, <2>1, <2>2 DEF CpuDrives
<1>2. CASE CpuReads
  <2>1. mode = "tms9995" /\ SetWires(syncTmsCruToBus(Wires)) /\ UNCHANGED <<mode, driven>>
    BY <1>2 DEF CpuReads
  <2>2. Shows(syncTmsCruToBus(Wires), driven)
    BY <2>1, WiresShow, CopyShows DEF Shows
  <2>. QED
    BY <2>1, <2>2, WiresSet DEF LinesInv
<1>3. CASE \E out \in [ControlLines -> {0, 1}] : CpuWritesControl(out)
  <2>1. PICK out \in [ControlLines -> {0, 1}] : CpuWritesControl(out)
    BY <1>3
  <2>2. /\ mode = "mn1613" /\ UNCHANGED <<mode, cru>>
        /\ bus' = [l \in DOMAIN bus |-> IF l \in ControlLines THEN out[l] ELSE bus[l]]
        /\ driven' = [l \in DOMAIN driven |-> IF l \in ControlLines THEN out[l] ELSE driven[l]]
    BY <2>1 DEF CpuWritesControl, Over
  <2>3. DOMAIN bus = BusWords /\ DOMAIN driven = Lines
    BY DEF LinesInv, IsBus
  <2>. QED
    BY <2>2, <2>3, Names DEF LinesInv, IsBus, IsCru, HasLines
<1>. QED
  BY <1>1, <1>2, <1>3 DEF CpuNext, CpuDrivesBit

\* The IO board's requests and lines, and a change of the board (board.ts,
\* io_ports.ts).
LEMMA LinesOfIo ==
  ASSUME LinesInv, IoNext
  PROVE  LinesInv'
<1>1. CASE \E quiet \in BOOLEAN : IoRaisesRequest(quiet)
  <2>1. PICK quiet \in BOOLEAN : IoRaisesRequest(quiet)
    BY <1>1
  <2>. DEFINE b == Over(Requesting, [bus EXCEPT !.cause = HANDSHAKE])
              d == Over(Requesting, driven)
              w == [Wires EXCEPT !.bus = Over(Requesting, [@ EXCEPT !.cause = HANDSHAKE])]
              level == IF mode = "tms9995" THEN 1 ELSE 2
              more == setIntCause(w, HANDSHAKE).irq \cup {<<mode, level>>}
  <2>2. /\ driven' = d /\ mode' = mode
        /\ SetWires(w) \/ SetWires([setIntCause(w, HANDSHAKE) EXCEPT !.irq = more])
    BY <2>1 DEF IoRaisesRequest
  <2>3. w = [cru |-> cru, bus |-> b, irq |-> irq]
    BY DEF Wires
  <2>4. /\ \A l \in CpuLines : l \notin DOMAIN Requesting
        /\ DOMAIN bus = BusWords /\ DOMAIN driven = Lines
    BY BoardPortsAssumption DEF Requesting, LinesInv, IsBus
  <2>5. IsBus(b) /\ HasLines(b, d) /\ d = [l \in Lines |-> d[l]]
        /\ \A l \in CpuLines : d[l] = driven[l]
    BY <2>4, Names DEF Over, LinesInv, IsBus, HasLines
  <2>. HIDE DEF b, d, w, more
  <2>6. Shows(w, d)
    BY <2>3, <2>5 DEF Shows, LinesInv, HasLines
  <2>7. Shows(setIntCause(w, HANDSHAKE), d)
    BY <2>6, SetCauseShows
  <2>8. ASSUME NEW v, Shows(v, d)
        PROVE  Shows([v EXCEPT !.irq = more], d)
    <3>1. [v EXCEPT !.irq = more] = [cru |-> v.cru, bus |-> v.bus, irq |-> more]
      BY <2>8 DEF Shows
    <3>. QED
      BY <2>8, <3>1 DEF Shows
  <2>. QED
    BY <2>2, <2>5, <2>6, <2>7, <2>8, WiresSet
<1>2. CASE \E l \in IoLines, v \in 0..3 : IoDrives(l, v)
  <2>1. PICK l \in IoLines, v \in 0..3 : IoDrives(l, v)
    BY <1>2
  <2>2. l \notin CpuLines /\ l \in Lines
    BY BoardPortsAssumption DEF Lines
  <2>. QED
    BY <2>1, <2>2, Names DEF IoDrives, LinesInv, IsBus, IsCru, HasLines
<1>3. CASE \E m \in {"mn1613", "tms9995"} : Reset(m)
  <2>1. PICK m \in {"mn1613", "tms9995"} : Reset(m)
    BY <1>3
  <2>. DEFINE c == syncBusToTmsCru(bus, cru)
  <2>2. IsCru(c) /\ HasLines(c, driven)
    BY Names DEF syncBusToTmsCru, IsCru, HasLines, LinesInv
  <2>3. /\ mode' = m /\ UNCHANGED <<bus, driven>>
        /\ cru' = IF m = "tms9995" THEN c ELSE cru
    BY <2>1 DEF Reset
  <2>. HIDE DEF c
  <2>. QED
    BY <2>2, <2>3 DEF LinesInv, HasLines, IsBus, IsCru
<1>. QED
  BY <1>1, <1>2, <1>3 DEF IoNext

\* The accesses of the monitor and its program touch the lines only through
\* the breaks they raise (io_mmap.ts, board.ts).
LEMMA LinesOfProgram ==
  ASSUME LinesInv, ProgramNext
  PROVE  LinesInv'
<1>0. ASSUME UNCHANGED <<busVars, driven>>
      PROVE  LinesInv'
  BY <1>0 DEF busVars, LinesInv, IsBus, IsCru, HasLines
<1>1. ASSUME NEW hit, NEW int2, SetWires(RaiseIf(hit, Wires, int2)), UNCHANGED <<mode, driven>>
      PROVE  LinesInv'
  BY <1>1, WiresShow, RaiseShows, WiresSet DEF LinesInv
<1>2. CASE MonitorStores
  BY <1>1, <1>2 DEF MonitorStores
<1>3. ASSUME NEW x, ProgramReads(x) PROVE LinesInv'
  BY <1>1, <1>3 DEF ProgramReads
<1>4. ASSUME NEW x, NEW old, ProgramWrites(x, old) PROVE LinesInv'
  BY <1>1, <1>4 DEF ProgramWrites
<1>5. ASSUME NEW x, ProgramFetches(x) PROVE LinesInv'
  <2>. DEFINE a == Access("RD", FALSE, x, 0)
              b == Access("RD", FALSE, x + 1, 0)
              hit0 == Hits(bank, a) \cup Hits(bank, b) # {}
              w0 == RaiseIf(hit0, Wires, ADDR_BREAK)
              hit1 == StepHits(step)
              w1 == RaiseIf(hit1, w0, STEP)
              hit2 == Hits(bank, a) # {}
  <2>1. SetWires(RaiseIf(hit2, w1, ADDR_BREAK)) /\ UNCHANGED <<mode, driven>>
    BY <1>5 DEF ProgramFetches
  <2>. HIDE DEF hit0, hit1, hit2
  <2>2. Shows(w0, driven)
    BY WiresShow, RaiseShows
  <2>. HIDE DEF w0
  <2>3. Shows(w1, driven)
    BY <2>2, RaiseShows
  <2>. HIDE DEF w1
  <2>4. Shows(RaiseIf(hit2, w1, ADDR_BREAK), driven)
    BY <2>3, RaiseShows
  <2>. QED
    BY <2>1, <2>4, WiresSet DEF LinesInv
<1>. QED
  BY <1>0, <1>2, <1>3, <1>4, <1>5
     DEF ProgramNext, g_hshk_addr_break_set, g_hshk_addr_break_clr, ProgramReadsHit,
         ProgramSetsStep

\* An MN1613 writes lines of its own only (io_port_bridge.ts).
LEMMA IoLinesKept ==
  ASSUME LinesInv, mode = "mn1613", CpuNext \/ ProgramNext, NEW k \in IoLines
  PROVE  bus'[k] = bus[k]
<1>0. k \in BusWords /\ k \notin CpuLines /\ k \notin ControlLines
  BY BoardPortsAssumption DEF BusWords, Lines, ControlLines
<1>1. ASSUME NEW l, NEW v, CpuDrives(l, v) PROVE bus'[k] = bus[k]
  <2>1. bus' = [bus EXCEPT ![l] = v] /\ l \in CpuLines
    BY <1>1 DEF CpuDrives
  <2>. QED
    BY <1>0, <2>1 DEF LinesInv, IsBus
<1>2. ASSUME NEW out \in [ControlLines -> {0, 1}], CpuWritesControl(out)
      PROVE  bus'[k] = bus[k]
  BY <1>0, <1>2 DEF CpuWritesControl, Over, LinesInv, IsBus
<1>3. ASSUME ProgramNext PROVE FALSE
  BY <1>3 DEF ProgramNext, g_hshk_addr_break_set, g_hshk_addr_break_clr, MonitorStores,
              ProgramReads, ProgramFetches, ProgramWrites, ProgramReadsHit, ProgramSetsStep,
              ProgramRuns
<1>4. ~CpuReads /\ \A l, v : ~CpuDrivesBit(l, v)
  BY DEF CpuReads, CpuDrivesBit
<1>. QED
  BY <1>1, <1>2, <1>3, <1>4 DEF CpuNext

\* The IO board sees what the CPU drives, on either board and over every change
\* of it, and no access of an MN1613 disturbs a line of the IO board
\* (io_ports.ts, io_port_bridge.ts): the two copies of the CPU's lines are alike
\* whenever the CPU is the one that has the CRU.
THEOREM LinesOwned == Spec => EachDrivesItsOwn
<1>. DEFINE Seen == /\ \A l \in CpuLines : bus[l] = driven[l]
                    /\ getInterruptBusy = driven["INTERRUPT_BUSY"]
            Kept == mode = "mn1613" /\ (CpuNext \/ ProgramNext)
                      => \A l \in IoLines : bus'[l] = bus[l]
<1>1. Init => LinesInv
  BY Names DEF Init, LinesInv, IsBus, IsCru, HasLines
<1>2. LinesInv /\ [Next]_vars => LinesInv'
  <2>1. LinesInv /\ UNCHANGED vars => LinesInv'
    BY DEF LinesInv, IsBus, IsCru, HasLines, vars, busVars
  <2>. QED
    BY <2>1, LinesOfCpu, LinesOfIo, LinesOfProgram DEF Next
<1>3. LinesInv => Seen
  BY BoardPortsAssumption DEF LinesInv, HasLines, getInterruptBusy
<1>4. LinesInv /\ [Next]_vars => [Kept]_vars
  BY IoLinesKept
<1>. HIDE DEF Seen, Kept
<1>5. Spec => []Seen /\ [][Kept]_vars
  BY <1>1, <1>2, <1>3, <1>4, PTL DEF Spec
<1>. QED
  BY <1>5 DEF EachDrivesItsOwn, Seen, Kept

-----------------------------------------------------------------------------
(* The step.                                                               *)

\* Every delay fits the counter of the step with one to spare: it counts one
\* more than its delay, in a byte.
ShortDelays == \A d \in Delays : d \in Nat /\ d + 1 \in 0..DelayMask

\* While the step is enabled, the fetches so far and those it still counts add
\* up to its delay and two.
StepInv ==
  /\ step \in [ena : {0, 1}, delay : Nat, remaining : Nat, skip : BOOLEAN]
  /\ stepped \in [at : Nat, delay : Nat] /\ fetches \in Nat
  /\ step.ena = 1 =>
       /\ stepped.at = 0
       /\ step.skip => fetches = 0 /\ step.remaining = stepped.delay + 1
       /\ ~step.skip => /\ fetches > 0 /\ step.remaining > 0
                        /\ step.remaining + fetches = stepped.delay + 2
  /\ StepsAfterItsDelay

\* FE87 and FE86 start it anew (step_break.ts).
LEMMA StepSet ==
  ASSUME ShortDelays, StepInv, NEW d \in Delays, NEW e \in {0, 1}, ProgramSetsStep(d, e)
  PROVE  StepInv'
<1>1. d \in Nat /\ d + 1 \in 0..DelayMask /\ DelayMask \in Nat
  BY ComparatorsAssumption DEF ShortDelays
<1>2. (d + 1) % (DelayMask + 1) = d + 1
  BY <1>1, Z3
<1>. DEFINE r == IF e = 1 THEN (d + 1) % (DelayMask + 1) ELSE 0
            st == [step EXCEPT !.delay = d]
<1>3. /\ step' \in [ena : {0, 1}, delay : Nat, remaining : Nat, skip : BOOLEAN]
      /\ step'.ena = e /\ (e = 1 => step'.remaining = d + 1 /\ step'.skip)
  <2>1. step' = [st EXCEPT !.ena = e, !.remaining = r, !.skip = (e = 1)]
    BY DEF ProgramSetsStep, WriteEna, WriteDelay
  <2>2. r \in Nat /\ (e = 1 => r = d + 1)
    BY <1>1, <1>2
  <2>. HIDE DEF r
  <2>. QED
    BY <1>1, <2>1, <2>2 DEF StepInv
<1>4. fetches' = 0 /\ stepped' = [at |-> 0, delay |-> d]
  BY DEF ProgramSetsStep
<1>. QED
  BY <1>1, <1>3, <1>4 DEF StepInv, StepsAfterItsDelay

\* A fetch is skipped, counted or the one it hits on (step_break.ts).
LEMMA StepFetch ==
  ASSUME StepInv, NEW x, ProgramFetches(x)
  PROVE  StepInv'
<1>1. /\ step' = onInstructionFetch(step)
      /\ fetches' = IF step.ena = 1 THEN fetches + 1 ELSE fetches
      /\ stepped' = IF StepHits(step) THEN [at |-> fetches + 1, delay |-> stepped.delay]
                                      ELSE stepped
  BY DEF ProgramFetches
<1>2. CASE step.ena = 0
  <2>1. step' = step /\ fetches' = fetches /\ stepped' = stepped
    BY <1>1, <1>2 DEF onInstructionFetch, StepHits
  <2>. QED
    BY <2>1 DEF StepInv, StepsAfterItsDelay
<1>3. CASE step.ena = 1 /\ step.skip
  <2>1. /\ step' = [step EXCEPT !.skip = FALSE]
        /\ fetches' = fetches + 1 /\ stepped' = stepped
    BY <1>1, <1>3 DEF onInstructionFetch, StepHits
  <2>2. /\ step' \in [ena : {0, 1}, delay : Nat, remaining : Nat, skip : BOOLEAN]
        /\ step'.remaining = step.remaining /\ step'.ena = 1 /\ ~step'.skip
    BY <1>3, <2>1 DEF StepInv
  <2>. QED
    BY <1>3, <2>1, <2>2 DEF StepInv, StepsAfterItsDelay
<1>4. CASE step.ena = 1 /\ ~step.skip
  <2>0. step.remaining \in Nat \ {0}
    BY <1>4 DEF StepInv
  <2>1. Counted(step) = step.remaining - 1
    BY <2>0 DEF Counted
  <2>2. step' = [step EXCEPT !.remaining = Counted(step),
                             !.ena = IF Counted(step) = 0 THEN 0 ELSE 1]
    BY <1>1, <1>4 DEF onInstructionFetch
  <2>3. /\ step' \in [ena : {0, 1}, delay : Nat, remaining : Nat, skip : BOOLEAN]
        /\ step'.remaining = step.remaining - 1 /\ ~step'.skip
        /\ step'.ena = IF step.remaining = 1 THEN 0 ELSE 1
    <3>. DEFINE n == step.remaining - 1
                m == IF step.remaining = 1 THEN 0 ELSE 1
    <3>1. n \in Nat /\ m \in {0, 1}
      BY <2>0
    <3>2. step' = [step EXCEPT !.remaining = n, !.ena = m]
      BY <2>0, <2>1, <2>2
    <3>. HIDE DEF n, m
    <3>3. step' \in [ena : {0, 1}, delay : Nat, remaining : Nat, skip : BOOLEAN]
          /\ step'.remaining = n /\ step'.ena = m /\ step'.skip = step.skip
      BY <3>1, <3>2 DEF StepInv
    <3>. QED
      BY <1>4, <3>3 DEF n, m
  <2>4. /\ fetches' = fetches + 1
        /\ stepped' = IF step.remaining = 1
                        THEN [at |-> fetches + 1, delay |-> stepped.delay] ELSE stepped
    BY <1>1, <1>4, <2>0, <2>1 DEF StepHits
  <2>5. /\ stepped.at = 0 /\ stepped \in [at : Nat, delay : Nat] /\ fetches \in Nat
        /\ step.remaining + fetches = stepped.delay + 2
    BY <1>4 DEF StepInv
  <2>6. CASE step.remaining = 1
    BY <2>3, <2>4, <2>5, <2>6 DEF StepInv, StepsAfterItsDelay
  <2>7. CASE step.remaining # 1
    <3>1. stepped' = stepped /\ fetches' = fetches + 1 /\ step'.ena = 1 /\ ~step'.skip
          /\ step'.remaining = step.remaining - 1
      BY <2>3, <2>4, <2>7
    <3>2. step'.remaining > 0 /\ fetches' \in Nat /\ fetches' > 0
          /\ step'.remaining + fetches' = stepped'.delay + 2
      BY <2>0, <2>5, <2>7, <3>1
    <3>. QED
      BY <2>3, <2>5, <3>1, <3>2 DEF StepInv, StepsAfterItsDelay
  <2>. QED
    BY <2>6, <2>7
<1>. QED
  BY <1>2, <1>3, <1>4 DEF StepInv

\* The step hits on the fetch its delay stands for, when the delay fits the
\* counter (step_break.ts:66): the fetch that follows the enabling is not
\* counted, and a delay set anew while it counts starts it anew.
THEOREM StepExact == ASSUME ShortDelays PROVE Spec => []StepsAfterItsDelay
<1>1. Init => StepInv
  BY DEF Init, StepInv, StepsAfterItsDelay, ResetStep, NotStepped
<1>2. StepInv /\ [Next]_vars => StepInv'
  <2>. SUFFICES ASSUME StepInv, [Next]_vars PROVE StepInv'
    OBVIOUS
  <2>1. UNCHANGED stepVars => StepInv'
    BY DEF stepVars, StepInv, StepsAfterItsDelay
  <2>2. CpuNext => UNCHANGED stepVars
    BY DEF CpuNext, CpuDrives, CpuDrivesBit, CpuReads, CpuWritesControl
  <2>3. IoNext => UNCHANGED stepVars
    BY DEF IoNext, IoRaisesRequest, IoDrives, Reset
  <2>4. ProgramNext => StepInv'
    BY <2>1, StepSet, StepFetch
       DEF ProgramNext, g_hshk_addr_break_set, g_hshk_addr_break_clr, MonitorStores,
           ProgramReads, ProgramWrites, ProgramReadsHit
  <2>. QED
    BY <2>1, <2>2, <2>3, <2>4 DEF Next, vars
<1>3. StepInv => StepsAfterItsDelay
  BY DEF StepInv
<1>. QED
  BY <1>1, <1>2, <1>3, PTL DEF Spec

-----------------------------------------------------------------------------
(* The watches.                                                            *)

BankFields == {"slots", "ctrl", "lo", "hi", "lastHit", "prevWrite", "prevLatch"}
IsBank(b) == DOMAIN b = BankFields /\ DOMAIN b.slots = Slots

\* What 10h stores into FE81.
Control(wt) == [enabled |-> TRUE, io |-> wt.io, rdwr |-> wt.rdwr, addr |-> 0]
Watched(wt) == [enabled |-> TRUE, io |-> wt.io, rdwr |-> wt.rdwr, addr |-> wt.addr]

\* The stores that are left, and what the registers have of those before them.
SetLeft(s, wt) ==
  LET c == Control(wt) IN
  \/ mon = <<Store(SLOT, s), Store(CTRL, c), Store(ADDR_HI, wt.addr \div 256),
             Store(ADDR_LO, wt.addr % 256)>>
  \/ /\ mon = <<Store(CTRL, c), Store(ADDR_HI, wt.addr \div 256),
                Store(ADDR_LO, wt.addr % 256)>>
     /\ prog.phase = "slot" /\ prog.slot = s
  \/ /\ mon = <<Store(ADDR_HI, wt.addr \div 256), Store(ADDR_LO, wt.addr % 256)>>
     /\ prog.phase = "ctrl" /\ prog.slot = s /\ prog.ctrl = c
  \/ /\ mon = <<Store(ADDR_LO, wt.addr % 256)>>
     /\ prog.phase = "addr_hi" /\ prog.slot = s /\ prog.ctrl = c
     /\ prog.hi = wt.addr \div 256

ClearLeft(s) ==
  \/ mon = <<Store(SLOT, s), Store(CTRL, Off)>>
  \/ mon = <<Store(CTRL, Off)>>

ArmedInv ==
  /\ IsBank(bank)
  /\ DOMAIN prog = {"phase", "slot", "ctrl", "hi"} /\ DOMAIN asked = Slots
  /\ \/ mon = <<>>
     \/ \E s \in Slots : ClearLeft(s) \/ \E wt \in Watches : SetLeft(s, wt)
  /\ ArmedAsAsked

\* Looking at the bus leaves the comparators' watches (addr_comparator.ts).
LEMMA ProbeKeeps ==
  ASSUME NEW b, IsBank(b), NEW a
  PROVE  IsBank(probe(b, a)) /\ probe(b, a).slots = b.slots
<1>. DEFINE s == Min(Hits(b, a))
            l == IF a.kind = "WR" THEN a.prev ELSE 0
            w == IF a.kind = "WR" THEN a.prev ELSE b.prevWrite[s]
<1>1. probe(b, a) = b \/ probe(b, a) = [b EXCEPT !.lastHit = s, !.prevLatch = l,
                                                  !.prevWrite[s] = w]
  BY DEF probe
<1>. HIDE DEF s, l, w
<1>. QED
  BY <1>1 DEF IsBank, BankFields

LEMMA ReadHitKeeps ==
  ASSUME NEW b, IsBank(b)
  PROVE  IsBank(ReadHit(b)) /\ ReadHit(b).slots = b.slots
<1>. DEFINE l == IF b.lastHit = NoHit THEN 0 ELSE b.prevWrite[b.lastHit]
<1>1. ReadHit(b) = [b EXCEPT !.prevLatch = l]
  BY DEF ReadHit
<1>. HIDE DEF l
<1>. QED
  BY <1>1 DEF IsBank, BankFields

\* An address in two bytes.
LEMMA Bytes ==
  ASSUME NEW n \in Nat
  PROVE  (n \div 256) * 256 + (n % 256) = n /\ (0 % 4) % 4 = 0
<1>. DEFINE q == n \div 256
            r == n % 256
<1>1. n = 256 * q + r
  BY SMT
<1>2. q \in Nat /\ r \in Nat
  BY SMT
<1>3. (0 % 4) % 4 = 0
  BY SMT
<1>. HIDE DEF q, r
<1>4. q * 256 + r = n
  BY <1>1, <1>2
<1>. QED
  BY <1>3, <1>4 DEF q, r

\* A record that has its fields is that record.
LEMMA WatchFields ==
  ASSUME NEW e, NEW i, NEW d, NEW a, NEW x,
         x \in [enabled : {e}, io : {i}, rdwr : {d}, addr : {a}]
  PROVE  x = [enabled |-> e, io |-> i, rdwr |-> d, addr |-> a]
OBVIOUS

\* A control word with the address of the watch is the watch.
LEMMA AddressSet ==
  ASSUME NEW wt, NEW old, NEW x,
         x = [[enabled |-> TRUE, io |-> wt.io, rdwr |-> wt.rdwr, addr |-> old]
                EXCEPT !.addr = wt.addr]
  PROVE  x = Watched(wt)
<1>1. x \in [enabled : {TRUE}, io : {wt.io}, rdwr : {wt.rdwr}, addr : {wt.addr}]
  OBVIOUS
<1>2. x = [enabled |-> TRUE, io |-> wt.io, rdwr |-> wt.rdwr, addr |-> wt.addr]
  BY <1>1, WatchFields
<1>. QED
  BY <1>2 DEF Watched

\* Two writes of the address of a comparator that was just set: the last one
\* counts.
LEMMA AddressTwice ==
  ASSUME NEW f, NEW s \in DOMAIN f, NEW e, NEW a, NEW x, NEW f1, NEW f2, NEW f3,
         f1 = [f EXCEPT ![s] = e],
         f2 = [f1 EXCEPT ![s].addr = a],
         f3 = [f2 EXCEPT ![s].addr = x]
  PROVE  f3 = [f EXCEPT ![s] = [e EXCEPT !.addr = x]]
<1>1. f2[s] = [e EXCEPT !.addr = a] /\ f3[s] = [f2[s] EXCEPT !.addr = x]
  OBVIOUS
<1>2. [[e EXCEPT !.addr = a] EXCEPT !.addr = x] = [e EXCEPT !.addr = x]
  OBVIOUS
<1>3. f3[s] = [e EXCEPT !.addr = x]
  BY <1>1, <1>2
<1>4. f3 = [y \in DOMAIN f |-> IF y = s THEN f3[s] ELSE f[y]]
  OBVIOUS
<1>. QED
  BY <1>3, <1>4

\* The store of the low byte hands the whole watch to its comparator and to no
\* other (io_mmap.ts).
LEMMA CommitArms ==
  ASSUME NEW b, IsBank(b), NEW p, NEW s \in Slots, NEW wt \in Watches,
         p.slot = s, p.ctrl = Control(wt), p.hi = wt.addr \div 256,
         NEW r, r = commitBreak(b, p, wt.addr % 256)
  PROVE  IsBank(r) /\ r.slots = [b.slots EXCEPT ![s] = Watched(wt)]
<1>. DEFINE w == Word(s, Control(wt))
            old == Address(b)
            lo == p.hi * 256 + (wt.addr % 256)
            s1 == [enabled |-> TRUE, io |-> wt.io, rdwr |-> wt.rdwr, addr |-> old]
            b1 == [b EXCEPT !.ctrl = w, !.slots[s] = s1]
            b2 == WriteAddrLo(b1, lo)
<1>1. wt.addr \in Nat /\ s \in Nat /\ ~(s > 3)
  <2>1. wt.addr \in Nat
    BY WatchesAssumption
  <2>2. s \in Nat /\ s <= 3
    BY ComparatorsAssumption
  <2>. QED
    BY <2>1, <2>2
<1>2. lo = wt.addr
  BY <1>1, Bytes
<1>3. w = [slot |-> s, enabled |-> TRUE, io |-> wt.io, rdwr |-> wt.rdwr]
  BY DEF Word, Control
<1>4. WriteCtrl(b, w) = b1
  BY <1>3 DEF WriteCtrl
<1>5. r = WriteAddrHi(b2, 0)
  <2>1. ~(p.slot > 3)
    BY <1>1, p.slot = s
  <2>. HIDE DEF lo, b1
  <2>. QED
    BY <1>4, <2>1 DEF commitBreak, lo, w
<1>. HIDE DEF lo, w, old, s1
<1>6. IsBank(b1) /\ b1.ctrl = w /\ b1.slots = [b.slots EXCEPT ![s] = s1]
  BY DEF IsBank, BankFields
<1>. DEFINE b1lo == [b1 EXCEPT !.lo = lo]
            a2 == Address(b1lo)
            b2hi == [b2 EXCEPT !.hi = 0 % 4]
            a3 == Address(b2hi)
<1>. HIDE DEF b1
<1>7. /\ IsBank(b2) /\ b2.ctrl = w /\ b2.lo = lo
      /\ b2.slots = [b1.slots EXCEPT ![s].addr = a2]
  <2>2. IsBank(b1lo) /\ b1lo.ctrl = w /\ b1lo.lo = lo /\ b1lo.slots = b1.slots
    BY <1>6 DEF IsBank, BankFields
  <2>3. b2 = applyAddrToSelected(b1lo)
    BY DEF WriteAddrLo
  <2>4. b1lo.ctrl.slot = s
    BY <1>3, <2>2
  <2>. HIDE DEF b1lo, b2
  <2>1. b2 = [b1lo EXCEPT !.slots[s].addr = a2]
    BY <2>3, <2>4 DEF applyAddrToSelected
  <2>. HIDE DEF b1lo, a2, b2
  <2>. QED
    BY <2>1, <2>2 DEF IsBank, BankFields
<1>. HIDE DEF b1lo, a2, b2
<1>8. IsBank(r) /\ r.slots = [b2.slots EXCEPT ![s].addr = a3]
  <2>1. IsBank(b2hi) /\ b2hi.ctrl = w /\ b2hi.slots = b2.slots
    BY <1>7 DEF IsBank, BankFields
  <2>3. r = applyAddrToSelected(b2hi)
    BY <1>5 DEF WriteAddrHi
  <2>4. b2hi.ctrl.slot = s
    BY <1>3, <2>1
  <2>. HIDE DEF b2hi
  <2>2. r = [b2hi EXCEPT !.slots[s].addr = a3]
    BY <2>3, <2>4 DEF applyAddrToSelected
  <2>. HIDE DEF b2hi, a3
  <2>. QED
    BY <2>1, <2>2 DEF IsBank, BankFields
<1>9. a3 = wt.addr
  <2>1. b2hi.hi = 0 % 4 /\ b2hi.lo = lo
    BY <1>7 DEF IsBank, BankFields
  <2>. HIDE DEF b2hi
  <2>. QED
    BY <1>1, <1>2, <2>1, Bytes DEF Address
<1>. HIDE DEF a3
<1>10. r.slots = [b.slots EXCEPT ![s] = [s1 EXCEPT !.addr = wt.addr]]
  <2>1. s \in DOMAIN b.slots
    BY DEF IsBank
  <2>. QED
    BY <1>6, <1>7, <1>8, <1>9, <2>1, AddressTwice
<1>11. [s1 EXCEPT !.addr = wt.addr] = Watched(wt)
  <2>. HIDE DEF old
  <2>. QED
    BY AddressSet DEF s1
<1>. QED
  BY <1>8, <1>10, <1>11

\* The registers after a store (io_mmap.ts).
LEMMA SlotStored ==
  ASSUME NEW b, NEW p, NEW v, NEW r, r = Program(b, p, SLOT, v)
  PROVE  r = [bank |-> b, prog |-> [phase |-> "slot", slot |-> v, ctrl |-> Off, hi |-> 0]]
BY DEF Program, SLOT, CTRL, ADDR_HI, ADDR_LO

LEMMA CtrlStored ==
  ASSUME NEW b, NEW p, NEW v, NEW r, r = Program(b, p, CTRL, v),
         DOMAIN p = {"phase", "slot", "ctrl", "hi"}
  PROVE  r.bank = b /\ DOMAIN r.prog = {"phase", "slot", "ctrl", "hi"}
BY DEF Program, SLOT, CTRL, ADDR_HI, ADDR_LO

LEMMA CtrlStoredNext ==
  ASSUME NEW b, NEW p, NEW v, NEW r, r = Program(b, p, CTRL, v), p.phase = "slot"
  PROVE  r = [bank |-> b, prog |-> [p EXCEPT !.phase = "ctrl", !.ctrl = v]]
BY DEF Program, SLOT, CTRL, ADDR_HI, ADDR_LO

LEMMA HiStored ==
  ASSUME NEW b, NEW p, NEW v, NEW r, r = Program(b, p, ADDR_HI, v), p.phase = "ctrl"
  PROVE  r = [bank |-> b, prog |-> [p EXCEPT !.phase = "addr_hi", !.hi = v]]
BY DEF Program, SLOT, CTRL, ADDR_HI, ADDR_LO

LEMMA LoStored ==
  ASSUME NEW b, NEW p, NEW v, NEW r, r = Program(b, p, ADDR_LO, v), p.phase = "addr_hi"
  PROVE  r = [bank |-> commitBreak(b, p, v), prog |-> [p EXCEPT !.phase = "idle"]]
BY DEF Program, SLOT, CTRL, ADDR_HI, ADDR_LO

\* The tail of the stores that are left.
LEMMA StoresLeft ==
  ASSUME NEW a, NEW b, NEW c, NEW d
  PROVE  /\ Head(<<a, b, c, d>>) = a /\ Tail(<<a, b, c, d>>) = <<b, c, d>>
         /\ Head(<<a, b, c>>) = a /\ Tail(<<a, b, c>>) = <<b, c>> /\ Len(<<a, b, c>>) = 3
         /\ Head(<<a, b>>) = a /\ Tail(<<a, b>>) = <<b>>
         /\ Head(<<a>>) = a /\ Tail(<<a>>) = <<>> /\ Len(<<a>>) = 1
OBVIOUS

\* A store of 11h.
LEMMA ClearStores ==
  ASSUME ArmedInv, MonitorStores, NEW s \in Slots, ClearLeft(s)
  PROVE  ArmedInv'
<1>. DEFINE st == Head(mon)
            r == Program(bank, prog, st.addr, st.val)
<1>0. PICK a : bank' = probe(r.bank, a) /\ prog' = r.prog /\ asked' = Answered(st, prog)
               /\ mon' = Tail(mon)
  BY DEF MonitorStores
<1>1. CASE mon = <<Store(SLOT, s), Store(CTRL, Off)>>
  <2>1. st.addr = SLOT /\ st.val = s /\ mon' = <<Store(CTRL, Off)>>
    BY <1>0, <1>1, StoresLeft DEF Store
  <2>2. r.bank = bank /\ DOMAIN r.prog = {"phase", "slot", "ctrl", "hi"}
    <3>1. r = Program(bank, prog, SLOT, s)
      BY <2>1
    <3>. HIDE DEF r
    <3>. QED
      BY <3>1, SlotStored
  <2>3. asked' = asked
    BY <1>0, <2>1 DEF Answered, SLOT, CTRL, ADDR_LO
  <2>. HIDE DEF r, st
  <2>4. IsBank(bank') /\ bank'.slots = bank.slots
    BY <1>0, <2>2, ProbeKeeps DEF ArmedInv
  <2>. QED
    BY <1>0, <2>1, <2>2, <2>3, <2>4 DEF ArmedInv, ArmedAsAsked, ClearLeft
<1>2. CASE mon = <<Store(CTRL, Off)>>
  <2>1. st.addr = CTRL /\ st.val = Off /\ mon' = <<>> /\ Len(mon) = 1
    BY <1>0, <1>2, StoresLeft DEF Store
  <2>2. r.bank = bank /\ DOMAIN r.prog = {"phase", "slot", "ctrl", "hi"}
    <3>1. r = Program(bank, prog, CTRL, Off)
      BY <2>1
    <3>. HIDE DEF r
    <3>. QED
      BY <3>1, CtrlStored DEF ArmedInv
  <2>3. asked' = [asked EXCEPT ![prog.slot] = Off]
    BY <1>0, <2>1 DEF Answered, CTRL, ADDR_LO
  <2>. HIDE DEF r, st
  <2>4. IsBank(bank') /\ bank'.slots = bank.slots
    BY <1>0, <2>2, ProbeKeeps DEF ArmedInv
  <2>5. DOMAIN asked' = Slots
        /\ \A k \in Slots : asked'[k].enabled => asked'[k] = asked[k]
    BY <2>3 DEF ArmedInv, Off
  <2>. QED
    BY <1>0, <2>1, <2>2, <2>4, <2>5 DEF ArmedInv, ArmedAsAsked
<1>. QED
  BY <1>1, <1>2 DEF ClearLeft

\* A store of 10h: the first three only fill the registers.
LEMMA SetStores ==
  ASSUME ArmedInv, MonitorStores, NEW s \in Slots, NEW wt \in Watches, SetLeft(s, wt)
  PROVE  ArmedInv'
<1>. DEFINE st == Head(mon)
            r == Program(bank, prog, st.addr, st.val)
            c == Control(wt)
            hi == Store(ADDR_HI, wt.addr \div 256)
            lo == Store(ADDR_LO, wt.addr % 256)
<1>0. PICK a : bank' = probe(r.bank, a) /\ prog' = r.prog /\ asked' = Answered(st, prog)
               /\ mon' = Tail(mon)
  BY DEF MonitorStores
<1>1. ASSUME r.bank = bank, DOMAIN r.prog = {"phase", "slot", "ctrl", "hi"},
             asked' = asked, SetLeft(s, wt)'
      PROVE  ArmedInv'
  <2>. HIDE DEF r, st
  <2>1. IsBank(bank') /\ bank'.slots = bank.slots
    BY <1>0, <1>1, ProbeKeeps DEF ArmedInv
  <2>. QED
    BY <1>0, <1>1, <2>1 DEF ArmedInv, ArmedAsAsked
<1>2. CASE mon = <<Store(SLOT, s), Store(CTRL, c), hi, lo>>
  <2>1. st.addr = SLOT /\ st.val = s /\ mon' = <<Store(CTRL, c), hi, lo>>
    BY <1>0, <1>2, StoresLeft DEF Store
  <2>2. r = [bank |-> bank, prog |-> [phase |-> "slot", slot |-> s, ctrl |-> Off, hi |-> 0]]
    <3>1. r = Program(bank, prog, SLOT, s)
      BY <2>1
    <3>. HIDE DEF r
    <3>. QED
      BY <3>1, SlotStored
  <2>3. asked' = asked
    BY <1>0, <2>1 DEF Answered, SLOT, CTRL, ADDR_LO
  <2>. HIDE DEF r, st
  <2>4. SetLeft(s, wt)'
    BY <1>0, <2>1, <2>2 DEF SetLeft
  <2>. QED
    BY <1>1, <2>2, <2>3, <2>4
<1>3. CASE mon = <<Store(CTRL, c), hi, lo>> /\ prog.phase = "slot" /\ prog.slot = s
  <2>1. st.addr = CTRL /\ st.val = c /\ mon' = <<hi, lo>> /\ Len(mon) = 3
    BY <1>0, <1>3, StoresLeft DEF Store
  <2>2. r.bank = bank /\ r.prog = [prog EXCEPT !.phase = "ctrl", !.ctrl = c]
    <3>1. r = Program(bank, prog, CTRL, c)
      BY <2>1
    <3>. HIDE DEF r, c
    <3>2. r = [bank |-> bank, prog |-> [prog EXCEPT !.phase = "ctrl", !.ctrl = c]]
      BY <1>3, <3>1, CtrlStoredNext
    <3>. QED
      BY <3>2
  <2>3. asked' = asked
    BY <1>0, <2>1 DEF Answered, CTRL, ADDR_LO
  <2>. HIDE DEF r, st, c
  <2>4. /\ DOMAIN r.prog = {"phase", "slot", "ctrl", "hi"}
        /\ r.prog.phase = "ctrl" /\ r.prog.slot = s /\ r.prog.ctrl = c
    BY <1>3, <2>2 DEF ArmedInv
  <2>5. SetLeft(s, wt)'
    BY <1>0, <2>1, <2>4 DEF SetLeft, c
  <2>. QED
    BY <1>1, <2>2, <2>3, <2>4, <2>5
<1>4. CASE mon = <<hi, lo>> /\ prog.phase = "ctrl" /\ prog.slot = s /\ prog.ctrl = c
  <2>1. st.addr = ADDR_HI /\ st.val = wt.addr \div 256 /\ mon' = <<lo>>
    BY <1>0, <1>4, StoresLeft DEF Store
  <2>2. r = [bank |-> bank, prog |-> [prog EXCEPT !.phase = "addr_hi", !.hi = wt.addr \div 256]]
    <3>. DEFINE n == wt.addr \div 256
    <3>1. r = Program(bank, prog, ADDR_HI, n)
      BY <2>1
    <3>2. prog.phase = "ctrl"
      BY <1>4
    <3>. HIDE DEF r, c, n
    <3>3. r = [bank |-> bank, prog |-> [prog EXCEPT !.phase = "addr_hi", !.hi = n]]
      BY <3>1, <3>2, HiStored
    <3>. QED
      BY <3>3 DEF n
  <2>3. asked' = asked
    BY <1>0, <2>1 DEF Answered, CTRL, ADDR_LO, ADDR_HI
  <2>. HIDE DEF r, st, c
  <2>. DEFINE h == wt.addr \div 256
  <2>4. h = wt.addr \div 256
    OBVIOUS
  <2>. HIDE DEF h
  <2>5. /\ r.bank = bank /\ DOMAIN r.prog = {"phase", "slot", "ctrl", "hi"}
        /\ r.prog.phase = "addr_hi" /\ r.prog.slot = s /\ r.prog.ctrl = c
        /\ r.prog.hi = h
    BY <1>4, <2>2, <2>4 DEF ArmedInv
  <2>6. SetLeft(s, wt)'
    BY <1>0, <2>1, <2>4, <2>5 DEF SetLeft, c
  <2>. QED
    BY <1>1, <2>3, <2>5, <2>6
<1>5. CASE /\ mon = <<lo>> /\ prog.phase = "addr_hi" /\ prog.slot = s /\ prog.ctrl = c
           /\ prog.hi = wt.addr \div 256
  <2>1. st.addr = ADDR_LO /\ st.val = wt.addr % 256 /\ mon' = <<>>
    BY <1>0, <1>5, StoresLeft DEF Store
  <2>2. /\ r.bank = commitBreak(bank, prog, wt.addr % 256)
        /\ DOMAIN r.prog = {"phase", "slot", "ctrl", "hi"}
    <3>1. r = Program(bank, prog, ADDR_LO, wt.addr % 256)
      BY <2>1
    <3>. HIDE DEF r, c
    <3>2. r = [bank |-> commitBreak(bank, prog, wt.addr % 256),
               prog |-> [prog EXCEPT !.phase = "idle"]]
      BY <1>5, <3>1, LoStored
    <3>. QED
      BY <3>2 DEF ArmedInv
  <2>3. IsBank(r.bank) /\ r.bank.slots = [bank.slots EXCEPT ![s] = Watched(wt)]
    <3>1. IsBank(bank)
      BY DEF ArmedInv
    <3>. HIDE DEF r, c, st
    <3>2. /\ prog.slot = s /\ prog.ctrl = Control(wt) /\ prog.hi = wt.addr \div 256
          /\ r.bank = commitBreak(bank, prog, wt.addr % 256)
      BY <1>5, <2>2 DEF c
    <3>. QED
      BY ONLY <3>1, <3>2, CommitArms, s \in Slots, wt \in Watches
  <2>4. asked' = [asked EXCEPT ![s] = Watched(wt)]
    <3>1. asked' = [asked EXCEPT ![s] = [c EXCEPT !.addr = prog.hi * 256 + (wt.addr % 256)]]
      <4>. HIDE DEF c
      <4>1. asked' = [asked EXCEPT ![prog.slot]
                        = [prog.ctrl EXCEPT !.addr = prog.hi * 256 + st.val]]
        BY <1>0, <2>1 DEF Answered, CTRL, ADDR_LO
      <4>. HIDE DEF st
      <4>. QED
        BY <1>5, <2>1, <4>1
    <3>2. prog.hi * 256 + (wt.addr % 256) = wt.addr
      BY <1>5, WatchesAssumption, Bytes
    <3>3. [c EXCEPT !.addr = wt.addr] = Watched(wt)
      BY AddressSet DEF Control
    <3>. HIDE DEF c
    <3>. QED
      BY <3>1, <3>2, <3>3
  <2>. HIDE DEF r, st
  <2>5. IsBank(bank') /\ bank'.slots = [bank.slots EXCEPT ![s] = Watched(wt)]
    BY <1>0, <2>3, ProbeKeeps
  <2>6. DOMAIN asked' = Slots /\ ArmedAsAsked'
    BY <2>4, <2>5 DEF ArmedInv, ArmedAsAsked, IsBank
  <2>. QED
    BY <1>0, <2>1, <2>2, <2>5, <2>6 DEF ArmedInv
<1>. QED
  BY <1>2, <1>3, <1>4, <1>5 DEF SetLeft

\* The other steps that touch the comparators.
LEMMA ArmedOfProgram ==
  ASSUME ArmedInv, ProgramNext
  PROVE  ArmedInv'
<1>0. ASSUME NEW b, IsBank(b), b.slots = bank.slots, bank' = b, UNCHANGED <<prog, mon, asked>>
      PROVE  ArmedInv'
  BY <1>0 DEF ArmedInv, ArmedAsAsked, ClearLeft, SetLeft
<1>1. ASSUME NEW s \in Slots, g_hshk_addr_break_clr(s)
      PROVE  ArmedInv'
  BY <1>1 DEF g_hshk_addr_break_clr, ArmedInv, ArmedAsAsked, ClearLeft
<1>2. ASSUME NEW s \in Slots, NEW wt \in Watches, g_hshk_addr_break_set(s, wt)
      PROVE  ArmedInv'
  <2>1. SetLeft(s, wt)' /\ UNCHANGED <<bank, prog, asked>>
    BY <1>2 DEF g_hshk_addr_break_set, SetLeft, Control
  <2>. QED
    BY <2>1 DEF ArmedInv, ArmedAsAsked
<1>3. CASE MonitorStores
  <2>1. mon # <<>>
    BY <1>3 DEF MonitorStores
  <2>. QED
    BY <1>3, <2>1, ClearStores, SetStores DEF ArmedInv
<1>4. ASSUME NEW x, ProgramReads(x) PROVE ArmedInv'
  BY <1>0, <1>4, ProbeKeeps DEF ProgramReads, ArmedInv
<1>5. ASSUME NEW x, NEW old, ProgramWrites(x, old) PROVE ArmedInv'
  <2>1. PICK rd, wr : bank' = probe(probe(bank, rd), wr) /\ UNCHANGED <<prog, mon, asked>>
    BY <1>5 DEF ProgramWrites
  <2>2. IsBank(probe(bank, rd)) /\ probe(bank, rd).slots = bank.slots
    BY ProbeKeeps DEF ArmedInv
  <2>. QED
    BY <1>0, <2>1, <2>2, ProbeKeeps
<1>6. ASSUME NEW x, ProgramFetches(x) PROVE ArmedInv'
  <2>1. PICK a, b : bank' = probe(probe(probe(bank, a), b), a) /\ UNCHANGED <<prog, mon, asked>>
    BY <1>6 DEF ProgramFetches
  <2>2. IsBank(probe(bank, a)) /\ probe(bank, a).slots = bank.slots
    BY ProbeKeeps DEF ArmedInv
  <2>3. IsBank(probe(probe(bank, a), b)) /\ probe(probe(bank, a), b).slots = bank.slots
    BY <2>2, ProbeKeeps
  <2>. QED
    BY <1>0, <2>1, <2>3, ProbeKeeps
<1>7. CASE ProgramReadsHit
  BY <1>0, <1>7, ReadHitKeeps DEF ProgramReadsHit, ArmedInv
<1>8. ASSUME NEW d, NEW e, ProgramSetsStep(d, e) PROVE ArmedInv'
  BY <1>0, <1>8 DEF ProgramSetsStep, ArmedInv, watchVars
<1>. QED
  BY <1>1, <1>2, <1>3, <1>4, <1>5, <1>6, <1>7, <1>8 DEF ProgramNext

\* A watch that 10h was answered OK for is whole in its comparator until 11h
\* clears it or another 10h replaces it (io_mmap.ts:154,
\* addr_comparator.ts:286): for every set of comparators and watches, every
\* interleaving of program, fetches and accesses, and resets in the middle of
\* the four stores.
THEOREM Armed == Spec => []ArmedAsAsked
<1>1. Init => ArmedInv
  BY DEF Init, ArmedInv, ArmedAsAsked, ResetBank, IsBank, BankFields, Idle, Off
<1>2. ArmedInv /\ [Next]_vars => ArmedInv'
  <2>. SUFFICES ASSUME ArmedInv, [Next]_vars PROVE ArmedInv'
    OBVIOUS
  <2>1. UNCHANGED <<bank, prog, mon, asked>> => ArmedInv'
    BY DEF ArmedInv, ArmedAsAsked, ClearLeft, SetLeft
  <2>2. CpuNext => UNCHANGED watchVars
    BY DEF CpuNext, CpuDrives, CpuDrivesBit, CpuReads, CpuWritesControl
  <2>3. ASSUME NEW m, Reset(m) PROVE ArmedInv'
    BY <2>3 DEF Reset, ArmedInv, ArmedAsAsked
  <2>4. IoNext => ArmedInv'
    BY <2>1, <2>3 DEF IoNext, IoRaisesRequest, IoDrives, watchVars
  <2>. QED
    BY <2>1, <2>2, <2>4, ArmedOfProgram DEF Next, vars, watchVars
<1>3. ArmedInv => ArmedAsAsked
  BY DEF ArmedInv
<1>. QED
  BY <1>1, <1>2, <1>3, PTL DEF Spec
=============================================================================
