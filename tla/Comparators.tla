---------------------------- MODULE Comparators -----------------------------
(***************************************************************************)
(* The address comparators of the CPU board (cpuboard/mn1613/              *)
(* addr_comparator.ts), the one-shot of the single step (step_break.ts)    *)
(* and the byte registers FE80-FE87 through which the TMS9995 programs     *)
(* them (tms9995/io_mmap.ts).                                              *)
(*                                                                         *)
(* A bank is a record: slots, the latches of the ports 0030-0032, lastHit, *)
(* and the old values of the last write to each watched address.  The RD   *)
(* and WR bits of a control word are a set of kinds of access.             *)
(***************************************************************************)
EXTENDS Naturals, FiniteSetsExt

CONSTANTS
  Slots,      \* the comparators: 0..CPLD_COMPARATOR_COUNT-1
  DelayMask   \* 255: the delay of the step is a byte

ASSUME ComparatorsAssumption == Slots \subseteq 0..3 /\ DelayMask \in Nat

NoHit == 65535

Off == [enabled |-> FALSE, io |-> FALSE, rdwr |-> {}, addr |-> 0]

\* A control word: the slot, and the control bits of c.
Word(slot, c) == [slot |-> slot, enabled |-> c.enabled, io |-> c.io, rdwr |-> c.rdwr]

ResetBank ==
  [slots |-> [s \in Slots |-> Off], ctrl |-> Word(0, Off), lo |-> 0, hi |-> 0,
   lastHit |-> NoHit, prevWrite |-> [s \in Slots |-> 0], prevLatch |-> 0]

-----------------------------------------------------------------------------
(* Looking at the bus.                                                     *)

Access(kind, io, addr, prev) ==
  [kind |-> kind, io |-> io, addr |-> addr, prev |-> prev]

slotMatches(s, a) ==
  s.enabled /\ s.io = a.io /\ a.kind \in s.rdwr /\ s.addr = a.addr

Hits(b, a) == {s \in Slots : slotMatches(b.slots[s], a)}

\* The first slot that matches, and no other, notes the hit.
probe(b, a) ==
  IF Hits(b, a) = {} THEN b
  ELSE LET s == Min(Hits(b, a)) IN
       [b EXCEPT !.lastHit = s,
                 !.prevLatch = IF a.kind = "WR" THEN a.prev ELSE 0,
                 !.prevWrite[s] = IF a.kind = "WR" THEN a.prev ELSE @]

-----------------------------------------------------------------------------
(* The ports 0030-0034.                                                    *)

Address(b) == (b.hi % 4) * 65536 + b.lo

\* 0031 and 0032: the address goes to the slot that is selected.
applyAddrToSelected(b) ==
  IF b.ctrl.slot \in Slots
    THEN [b EXCEPT !.slots[b.ctrl.slot].addr = Address(b)]
    ELSE b
WriteAddrLo(b, v) == applyAddrToSelected([b EXCEPT !.lo = v])
WriteAddrHi(b, v) == applyAddrToSelected([b EXCEPT !.hi = v % 4])

\* 0030: the slot takes the control bits and the address in the latches.
WriteCtrl(b, c) ==
  IF c.slot \in Slots
    THEN [b EXCEPT !.ctrl = c,
                   !.slots[c.slot] = [enabled |-> c.enabled, io |-> c.io,
                                      rdwr |-> c.rdwr, addr |-> Address(b)]]
    ELSE [b EXCEPT !.ctrl = c]

\* 0033 latches the old value of the slot it names for 0034.
ReadHit(b) ==
  [b EXCEPT !.prevLatch = IF b.lastHit = NoHit THEN 0
                                               ELSE b.prevWrite[b.lastHit]]

-----------------------------------------------------------------------------
(* The step.                                                               *)

ResetStep == [ena |-> 0, delay |-> 1, remaining |-> 0, skip |-> FALSE]

WriteEnaCountsFirst(st, v) ==
  [st EXCEPT !.ena = v, !.remaining = st.delay + 1, !.skip = FALSE]
WriteEna(st, v) ==
  [st EXCEPT !.ena = v,
             !.remaining = IF v = 1 THEN (st.delay + 1) % (DelayMask + 1)
                                    ELSE 0,
             !.skip = (v = 1)]
WriteDelay(st, v) == [st EXCEPT !.delay = v]

\* A fetch: the first after ENA does not count.
Counted(st) == IF st.remaining > 0 THEN st.remaining - 1 ELSE 0
StepHits(st) == st.ena = 1 /\ ~st.skip /\ Counted(st) = 0
onInstructionFetch(st) ==
  IF st.ena = 0 THEN st
  ELSE IF st.skip THEN [st EXCEPT !.skip = FALSE]
  ELSE [st EXCEPT !.remaining = Counted(st),
                  !.ena = IF Counted(st) = 0 THEN 0 ELSE 1]

-----------------------------------------------------------------------------
(* FE80-FE83: slot, control, address high, address low, in this order; the *)
(* last one hands all of them to the bank.  Anything else drops the rest.  *)

SLOT == 65152
CTRL == 65153
ADDR_HI == 65154
ADDR_LO == 65155

Idle == [phase |-> "idle", slot |-> 0, ctrl |-> Off, hi |-> 0]

commitAddressFirst(b, p, lo) ==
  LET b1 == WriteAddrHi(WriteAddrLo(b, p.hi * 256 + lo), 0)
  IN  WriteCtrl(b1, Word(p.slot, p.ctrl))
commitBreak(b, p, lo) ==
  IF p.slot > 3 THEN b
  ELSE LET b1 == WriteCtrl(b, Word(p.slot, p.ctrl))
           b2 == WriteAddrLo(b1, p.hi * 256 + lo)
       IN  WriteAddrHi(b2, 0)

\* What a store into the four registers leaves: the phase and the bank.
Program(b, p, a, v) ==
  CASE a = SLOT -> [bank |-> b, prog |-> [phase |-> "slot", slot |-> v,
                                          ctrl |-> Off, hi |-> 0]]
    [] a = CTRL /\ p.phase \in {"slot", "ctrl"} ->
         [bank |-> b, prog |-> [p EXCEPT !.phase = "ctrl", !.ctrl = v]]
    [] a = ADDR_HI /\ p.phase \in {"ctrl", "addr_hi"} ->
         [bank |-> b, prog |-> [p EXCEPT !.phase = "addr_hi", !.hi = v]]
    [] a = ADDR_LO /\ p.phase = "addr_hi" ->
         [bank |-> commitBreak(b, p, v), prog |-> [p EXCEPT !.phase = "idle"]]
    [] OTHER -> [bank |-> b, prog |-> [p EXCEPT !.phase = "idle"]]
=============================================================================
