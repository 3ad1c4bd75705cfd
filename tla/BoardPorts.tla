----------------------------- MODULE BoardPorts -----------------------------
(***************************************************************************)
(* The IO space of the CPU board (cpuboard/io_ports.ts): the shared        *)
(* handshake bus as the CPU sees it, through the ports 0020-0025 of the    *)
(* MN1613 or the CRU bits of the TMS9995 (tms9995/cru_handshake.ts), the   *)
(* interrupts it raises, and the comparators and the step of the TMS9995   *)
(* board as its monitor programs them for 10h and 11h.                     *)
(*                                                                         *)
(* The bus is one object the IO board's handshake writes as well; the CRU  *)
(* keeps a copy of its own.  A store, a fetch and a transfer of the CRU    *)
(* are one step each, with every copy and every interrupt they cause: all  *)
(* of this is synchronous code.                                            *)
(***************************************************************************)
EXTENDS Comparators, Sequences

CONSTANTS
  CpuLines, IoLines,    \* the lines each side drives; INTERRUPT_BUSY and
                        \* HSHK_OUT_DATA are lines of the CPU, too
  DataLines,            \* those that are bytes
  Watches,              \* what 10h asks for: io, rdwr, addr
  Touched,              \* the bytes the program reads, writes and fetches
  Delays,               \* the values of FE87
  MaxOps                \* bound: operations of the run

ASSUME BoardPortsAssumption ==
  /\ DataLines \subseteq CpuLines \cup IoLines /\ CpuLines \cap IoLines = {}
  /\ {"INTERRUPT_BUSY", "HSHK_OUT_REQ"} \subseteq CpuLines /\ {"HSHK_IN_REQ", "HSHK_IN_DENA"} \subseteq IoLines
  /\ {"cause", "int1", "int2"} \cap (CpuLines \cup IoLines) = {}
  /\ MaxOps \in Nat
ASSUME WatchesAssumption == \A wt \in Watches : wt.addr \in Nat /\ wt.addr < 65536

Lines == CpuLines \cup IoLines
BusWords == Lines \cup {"cause"}
CruWords == Lines \cup {"int1", "int2"}
ControlLines == CpuLines \ (DataLines \cup {"INTERRUPT_BUSY"})
Val(l) == IF l \in DataLines THEN 0..3 ELSE {0, 1}

VARIABLES
  mode,       \* _cpuPortMode: "mn1613" or "tms9995"
  bus,        \* _handshakeBus, with INT_CAUSE under "cause"
  cru,        \* _tmsCru: the lines, and INT1 and INT2
  irq,        \* interrupts requested: <<core, level>>
  bank, prog, step,     \* tms9995IoMmap
  mon,        \* the monitor: the stores the request at hand still needs
  ops,        \* operations done
  driven,     \* history: what each side last drove on its lines
  asked,      \* history: what 10h and 11h were answered OK for
  fetches,    \* history: fetches since the step was last enabled
  stepped     \* history: the fetch the step hit on, and its delay

busVars == <<mode, bus, cru, irq>>
watchVars == <<bank, prog, mon, asked>>
stepVars == <<step, fetches, stepped>>
vars == <<busVars, watchVars, stepVars, ops, driven>>

ADDR_BREAK == 0
STEP == 1
HANDSHAKE == 2

NotStepped == [at |-> 0, delay |-> 0]

Init ==
  /\ mode \in {"mn1613", "tms9995"}
  /\ bus = [l \in BusWords |-> 0] /\ cru = [l \in CruWords |-> 0]
  /\ irq = {} /\ driven = [l \in Lines |-> 0]
  /\ bank = ResetBank /\ prog = Idle /\ step = ResetStep
  /\ mon = <<>> /\ ops = 0 /\ asked = [s \in Slots |-> Off]
  /\ fetches = 0 /\ stepped = NotStepped

\* The words of g, those of f as f has them.
Over(f, g) == [x \in DOMAIN g |-> IF x \in DOMAIN f THEN f[x] ELSE g[x]]

Op == ops < MaxOps /\ ops' = ops + 1

-----------------------------------------------------------------------------
(* Copying between the bus and the CRU.                                    *)

Fold(c) == c.int1 + 2 * c.int2

\* INT1 says whether the packed cause is a handshake, INT2 whether a step.
applyPackedCauseToTmsCru(c, cause) ==
  [c EXCEPT !.int1 = IF (cause \div 2) % 4 = 1 THEN 1 ELSE 0,
            !.int2 = IF cause = STEP THEN 1 ELSE 0]

CopyNothing(b, c) == c
syncBusToTmsCru(b, c) ==
  [l \in CruWords |-> IF l \in Lines THEN b[l]
                     ELSE applyPackedCauseToTmsCru(c, b.cause)[l]]

\* The bus takes every line of the CRU.  A request of the IO board that is
\* up in the CRU only rises on the bus, and the wire of HSHK_IN_REQ takes
\* the folded cause for a packed one before it interrupts.
syncTmsCruToBus(w) ==
  LET folded == [l \in BusWords |-> IF l \in Lines THEN w.cru[l] ELSE Fold(w.cru)] IN
  IF w.bus["HSHK_IN_REQ"] = 0 /\ w.cru["HSHK_IN_REQ"] = 1
    THEN [cru |-> applyPackedCauseToTmsCru(w.cru, Fold(w.cru)), bus |-> folded,
          irq |-> w.irq \cup {<<"tms9995", 1>>}]
    ELSE [w EXCEPT !.bus = folded]

Wires == [cru |-> cru, bus |-> bus, irq |-> irq]
SetWires(w) == cru' = w.cru /\ bus' = w.bus /\ irq' = w.irq

setIntCause(w, cause) ==
  LET w1 == IF mode = "tms9995"
              THEN syncTmsCruToBus(
                     [w EXCEPT !.cru = applyPackedCauseToTmsCru(@, cause)])
              ELSE w
  IN  [w1 EXCEPT !.bus.cause = cause]

\* Both ask the MN1613 core for the interrupt, whatever the board.
raiseBreak(w, int2) ==
  IF mode = "tms9995"
    THEN LET w1 == syncTmsCruToBus([w EXCEPT !.cru.int2 = int2])
         IN  [w1 EXCEPT !.irq = @ \cup {<<"mn1613", 2>>}]
    ELSE LET w1 == setIntCause(w, int2)
         IN  [w1 EXCEPT !.irq = @ \cup {<<"mn1613", 1>>}]

RaiseIf(hit, w, int2) == IF hit THEN raiseBreak(w, int2) ELSE w

getInterruptBusy == IF mode = "tms9995" THEN cru["INTERRUPT_BUSY"]
                                        ELSE bus["INTERRUPT_BUSY"]

-----------------------------------------------------------------------------
(* The two sides of the bus.                                               *)

\* RD and WT of the MN1613 go to the bus; SBO, SBZ, TB and LDCR of the
\* TMS9995 to the CRU, and then all of the CRU to the bus.  A bit written at
\* a data latch is its lowest bit; LDCR of eight bits writes the byte.
CpuDrives(l, v) ==
  /\ Op /\ l \in CpuLines /\ v \in Val(l)
  /\ driven' = [driven EXCEPT ![l] = v]
  /\ \/ /\ mode = "mn1613" /\ l \notin ControlLines
        /\ bus' = [bus EXCEPT ![l] = v] /\ UNCHANGED <<cru, irq>>
     \/ /\ mode = "tms9995"
        /\ SetWires(syncTmsCruToBus([Wires EXCEPT !.cru[l] = v]))
  /\ UNCHANGED <<mode, watchVars, stepVars>>

CpuDrivesBit(l, v) ==
  /\ mode = "tms9995" /\ l \in DataLines /\ v \in {0, 1}
  /\ CpuDrives(l, 2 * (cru[l] \div 2) + v)

\* A read changes nothing on the CPU's side, but copies the CRU as well.
CpuReads ==
  /\ Op /\ mode = "tms9995"
  /\ SetWires(syncTmsCruToBus(Wires))
  /\ UNCHANGED <<mode, watchVars, stepVars, driven>>

\* IO 0022: one port has all control lines of the CPU.
CpuWritesControl(out) ==
  /\ Op /\ mode = "mn1613"
  /\ bus' = Over(out, bus) /\ driven' = Over(out, driven)
  /\ UNCHANGED <<mode, cru, irq, watchVars, stepVars>>

\* The IO board writes the bus.  A request that rises runs the wire: the
\* cause goes through setIntCause, which copies the CRU over the bus; the
\* response to a BIOS call is requested without an interrupt.
Requesting ==
  [l \in {"HSHK_IN_REQ", "HSHK_IN_DENA"} |-> IF l = "HSHK_IN_REQ" THEN 1 ELSE 0]

IoRaisesRequest(quiet) ==
  /\ Op /\ bus["HSHK_IN_REQ"] = 0
  /\ quiet \/ (bus["INTERRUPT_BUSY"] = 0 /\ bus["HSHK_OUT_REQ"] = 0)
  /\ driven' = Over(Requesting, driven)
  /\ LET w == [Wires EXCEPT !.bus = Over(Requesting, [@ EXCEPT !.cause = HANDSHAKE])]
         level == IF mode = "tms9995" THEN 1 ELSE 2
     IN  SetWires(IF quiet THEN w
                  ELSE [setIntCause(w, HANDSHAKE) EXCEPT
                          !.irq = @ \cup {<<mode, level>>}])
  /\ UNCHANGED <<mode, watchVars, stepVars>>

IoDrives(l, v) ==
  /\ Op /\ l \in IoLines /\ v \in Val(l)
  /\ l = "HSHK_IN_REQ" => v = 0
  /\ bus' = [bus EXCEPT ![l] = v] /\ driven' = [driven EXCEPT ![l] = v]
  /\ UNCHANGED <<mode, cru, irq, watchVars, stepVars>>

\* A reset: cpu:setCpuType, then the pulse.  The monitor starts again; the
\* bus, the comparators and the step keep what they have.
Reset(m) ==
  /\ Op /\ mode' = m
  /\ cru' = IF m = "tms9995" THEN syncBusToTmsCru(bus, cru) ELSE cru
  /\ irq' = {} /\ mon' = <<>>
  /\ UNCHANGED <<bus, bank, prog, asked, stepVars, driven>>

-----------------------------------------------------------------------------
(* The TMS9995 monitor and its program on the memory-mapped registers.     *)

Store(a, v) == [addr |-> a, val |-> v]

\* 10h programs FE80-FE83 and answers OK; 11h writes FE80 and FE81.
g_hshk_addr_break_set(s, wt) ==
  /\ Op /\ mode = "tms9995" /\ mon = <<>>
  /\ mon' = <<Store(SLOT, s),
              Store(CTRL, [enabled |-> TRUE, io |-> wt.io, rdwr |-> wt.rdwr,
                           addr |-> 0]),
              Store(ADDR_HI, wt.addr \div 256),
              Store(ADDR_LO, wt.addr % 256)>>
  /\ UNCHANGED <<busVars, bank, prog, asked, stepVars, driven>>

g_hshk_addr_break_clr(s) ==
  /\ Op /\ mode = "tms9995" /\ mon = <<>>
  /\ mon' = <<Store(SLOT, s), Store(CTRL, Off)>>
  /\ UNCHANGED <<busVars, bank, prog, asked, stepVars, driven>>

\* What the stores so far and the last one amount to, once answered OK.
Answered(st, p) ==
  CASE st.addr = ADDR_LO ->
         [asked EXCEPT ![p.slot] = [p.ctrl EXCEPT !.addr = p.hi * 256 + st.val]]
    [] st.addr = CTRL /\ Len(mon) = 1 -> [asked EXCEPT ![p.slot] = Off]
    [] OTHER -> asked

\* A store into FE80-FEFF is looked at as a write to the IO space.
MonitorStores ==
  /\ mode = "tms9995" /\ mon # <<>>
  /\ LET st == Head(mon)
         r  == Program(bank, prog, st.addr, st.val)
         a  == Access("WR", TRUE, st.addr, 0)
     IN  /\ bank' = probe(r.bank, a) /\ prog' = r.prog
         /\ SetWires(RaiseIf(Hits(r.bank, a) # {}, Wires, ADDR_BREAK))
         /\ asked' = Answered(st, prog)
  /\ mon' = Tail(mon)
  /\ UNCHANGED <<mode, stepVars, ops, driven>>

ProgramRuns == Op /\ mode = "tms9995" /\ mon = <<>>

\* readByte()
ProgramReads(x) ==
  LET a == Access("RD", FALSE, x, 0) IN
  /\ ProgramRuns
  /\ bank' = probe(bank, a)
  /\ SetWires(RaiseIf(Hits(bank, a) # {}, Wires, ADDR_BREAK))
  /\ UNCHANGED <<mode, prog, mon, asked, stepVars, driven>>

\* writeByte() reads the old byte first, and that is a read on the bus.
ProgramWrites(x, old) ==
  LET rd == Access("RD", FALSE, x, 0)
      wr == Access("WR", FALSE, x, old)
  IN
  /\ ProgramRuns
  /\ bank' = probe(probe(bank, rd), wr)
  /\ SetWires(RaiseIf(Hits(bank, rd) \cup Hits(bank, wr) # {},
                      Wires, ADDR_BREAK))
  /\ UNCHANGED <<mode, prog, mon, asked, stepVars, driven>>

\* fetchWord(): both bytes, the step, and the address once more.
ProgramFetches(x) ==
  LET a == Access("RD", FALSE, x, 0)
      b == Access("RD", FALSE, x + 1, 0)
      w == RaiseIf(Hits(bank, a) \cup Hits(bank, b) # {}, Wires, ADDR_BREAK)
      hit == StepHits(step)
  IN
  /\ ProgramRuns
  /\ bank' = probe(probe(probe(bank, a), b), a)
  /\ step' = onInstructionFetch(step)
  /\ fetches' = IF step.ena = 1 THEN fetches + 1 ELSE fetches
  /\ stepped' = IF hit THEN [at |-> fetches + 1, delay |-> stepped.delay]
                       ELSE stepped
  /\ SetWires(RaiseIf(Hits(bank, a) # {}, RaiseIf(hit, w, STEP), ADDR_BREAK))
  /\ UNCHANGED <<mode, prog, mon, asked, driven>>

\* FE84 and FE85: HIT, then PREV.
ProgramReadsHit ==
  /\ ProgramRuns /\ bank' = ReadHit(bank)
  /\ UNCHANGED <<busVars, prog, mon, asked, stepVars, driven>>

\* FE87 and FE86: 19h and 18h set the delay and enable the step.
ProgramSetsStep(d, e) ==
  /\ ProgramRuns /\ d \in Delays /\ e \in {0, 1}
  /\ step' = WriteEna(WriteDelay(step, d), e)
  /\ fetches' = 0 /\ stepped' = [at |-> 0, delay |-> d]
  /\ UNCHANGED <<busVars, watchVars, driven>>

-----------------------------------------------------------------------------
CpuNext ==
  \/ \E l \in CpuLines, v \in 0..3 : CpuDrives(l, v) \/ CpuDrivesBit(l, v)
  \/ CpuReads
  \/ \E out \in [ControlLines -> {0, 1}] : CpuWritesControl(out)

IoNext ==
  \/ \E quiet \in BOOLEAN : IoRaisesRequest(quiet)
  \/ \E l \in IoLines, v \in 0..3 : IoDrives(l, v)
  \/ \E m \in {"mn1613", "tms9995"} : Reset(m)

ProgramNext ==
  \/ \E s \in Slots : \/ g_hshk_addr_break_clr(s)
                      \/ \E wt \in Watches : g_hshk_addr_break_set(s, wt)
  \/ MonitorStores
  \/ \E x \in Touched : \/ ProgramReads(x) \/ ProgramFetches(x)
                        \/ \E old \in 0..1 : ProgramWrites(x, old)
  \/ ProgramReadsHit
  \/ \E d \in Delays, e \in {0, 1} : ProgramSetsStep(d, e)

Next == CpuNext \/ IoNext \/ ProgramNext
Spec == Init /\ [][Next]_vars

-----------------------------------------------------------------------------
(* Properties.                                                             *)

\* The IO board sees what the CPU drives, and is told of its interrupt
\* handler, on either board and over every change between the two; and no
\* access of an MN1613 disturbs a line of the IO board, as
\* handshake/io_port_bridge.ts promises for HSHK_IN_REQ.  Copying the CRU
\* over the bus is sound only as long as the copy was made first.
EachDrivesItsOwn ==
  /\ [](/\ \A l \in CpuLines : bus[l] = driven[l]
        /\ getInterruptBusy = driven["INTERRUPT_BUSY"])
  /\ [][mode = "mn1613" /\ (CpuNext \/ ProgramNext)
           => \A l \in IoLines : bus'[l] = bus[l]]_vars

\* A watch that 10h was answered OK for is in its comparator, whole: not a
\* part of it, no mixture of two requests, and untouched by the requests
\* for other comparators or one that a reset cut short (io_mmap.ts:154,
\* addr_comparator.ts:286).
ArmedAsAsked ==
  \A s \in Slots : asked[s].enabled => bank.slots[s] = asked[s]

\* The step hits on the fetch its delay stands for: the one that enables it
\* does not count (step_break.ts:66).
StepsAfterItsDelay == stepped.at > 0 => stepped.at = stepped.delay + 2

=============================================================================
