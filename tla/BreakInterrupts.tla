-------------------------- MODULE BreakInterrupts --------------------------
(***************************************************************************)
(* Address breaks and single steps of the MN1613: the comparators and the  *)
(* one-shot of the CPU board (AddrComparatorBank, StepBreakUnit), the      *)
(* register INT_CAUSE they share with the IO board, and the monitor's INT1 *)
(* and INT2 handlers, which may interrupt each other: the STR of INT1      *)
(* leaves M2 set and the STR of INT2 leaves M1 set.                        *)
(*                                                                         *)
(* One memory word is watched.  Its address, the history ring and the      *)
(* bytes of 1Ah and 1Bh are left out: a stop follows whether or not the    *)
(* notification gets through.                                              *)
(***************************************************************************)
EXTENDS Integers, Sequences, FiniteSetsExt

CONSTANTS
  Slots,        \* the comparators, numbered in order of priority
  Watches,      \* what 10h may set a slot to, and the comparator with it
  Accesses,     \* what one instruction may do to the watched word, in order
  Requests,     \* what the IO board asks: 13h, 11h, 18h/0, 18h/1
  MaxInstr,     \* bound: instructions of the program, which then halts
  MaxRequests,  \* bound: requests of the IO board
  MaxTimer,     \* bound: timer interrupts
  MaxExecs      \* bound: presses of RUN after a stop

Vals == {0, 1}           \* values of the watched word
Any == 2                 \* no condition on the value; else equality
NoHit == -1              \* 0xFFFF in IO:0033

ASSUME BreakAssumption ==
  /\ Slots \subseteq 0..3
  /\ Watches \subseteq [kinds : SUBSET {"RD", "WR"}, want : Vals \cup {Any},
                        count : Nat]
  /\ \A a \in Accesses : a \in Seq({"RD", "WR"}) /\ Len(a) <= 2
  /\ Requests \subseteq {"read", "clear", "run", "step"}
  /\ {MaxInstr, MaxRequests, MaxTimer, MaxExecs} \subseteq Nat

VARIABLES
  watch,                    \* the slots as they were set
  ena, count,               \* GL_HSHK_ADDR_BREAK: still set, hits to go
  lastHit, stepLeft,        \* IO:0033; fetches until the one-shot fires
  cell,                     \* the watched word
  cause, pend,              \* INT_CAUSE as written; pending IRQ1, IRQ2
  frames, opsw,             \* who runs, innermost last; the saved PSWs
  busy, req, arm,           \* INTERRUPT_BUSY, request, GL_BP_STEP_ARM
  instr, reqs, ticks, execs,
  owed, due                 \* history: see Bus, UserStep

tableVars == <<watch, ena, count>>
hwVars    == <<lastHit, stepLeft, cell, cause, pend, owed>>
boundVars == <<reqs, ticks, execs>>
vars == <<tableVars, hwVars, frames, opsw, busy, req, arm, instr, boundVars,
          due>>

\* What runs: its level, where it is, the levels its STR enables, and for a
\* break handler the slot it has read.
Frame(pc, lvl, on) ==
  [pc |-> pc, lvl |-> lvl, on |-> on, slot |-> NoHit]

Init ==
  /\ watch \in [Slots -> Watches]
  /\ ena = [s \in Slots |-> watch[s].kinds # {}]
  /\ count = [s \in Slots |-> watch[s].count]
  /\ lastHit = NoHit /\ stepLeft = 0 /\ cell = 0
  /\ cause = 0 /\ pend = {}
  /\ frames = <<Frame("user", 0, {1, 2})>> /\ opsw = [l \in {1, 2} |-> 0]
  /\ busy = 0 /\ req = "none" /\ arm = FALSE
  /\ instr = 0 /\ reqs = 0 /\ ticks = 0 /\ execs = 0
  /\ owed = {} /\ due = [s \in Slots |-> 0]

-----------------------------------------------------------------------------
(* The hardware of the CPU board.                                          *)

\* Mutant: the R/W bits of the slot are not looked at.
SlotForAnyKind(kind) ==
  LET matching == {s \in Slots : watch[s].kinds # {}}
  IN IF matching = {} THEN NoHit
     ELSE CHOOSE s \in matching : \A t \in matching : s <= t

\* probe(): the first slot that matches.
SlotFor(kind) ==
  LET matching == {s \in Slots : kind \in watch[s].kinds}
  IN IF matching = {} THEN NoHit
     ELSE CHOOSE s \in matching : \A t \in matching : s <= t

\* Instructions fetched and their accesses to the watched word, which then
\* holds value.  The one-shot fires at its last fetch, a comparator at every
\* access: both write INT_CAUSE and raise IRQ1.  owed: hits no handler has
\* read yet.
Bus(accesses, value, fetches) ==
  LET hits  == {i \in DOMAIN accesses : SlotFor(accesses[i]) # NoHit}
      fires == stepLeft \in 1..fetches
  IN /\ stepLeft' = IF stepLeft > fetches THEN stepLeft - fetches ELSE 0
     /\ lastHit' = IF hits = {} THEN lastHit ELSE SlotFor(accesses[Max(hits)])
     /\ cause' = IF hits # {} THEN 0 ELSE IF fires THEN 1 ELSE cause
     /\ pend' = pend \cup (IF hits # {} \/ fires THEN {1} ELSE {})
     /\ cell' = value
     /\ owed' = owed \cup {SlotFor(accesses[i]) : i \in hits}

-----------------------------------------------------------------------------
(* The CPU: interrupts are accepted between instructions, level 1 first.   *)

Top == frames[Len(frames)]
Acceptable == pend \cap Top.on
Running == Acceptable = {}

\* Mutant: the STR of a handler leaves its own level enabled.
AcceptUnmasked(l) ==
  /\ l \in Acceptable /\ \A k \in Acceptable : l <= k
  /\ frames' = Append(frames, Frame("entry", l, {1, 2}))
  /\ opsw' = [opsw EXCEPT ![l] = Len(frames)]
  /\ pend' = pend \ {l}
  /\ UNCHANGED <<tableVars, lastHit, stepLeft, cell, cause, owed, busy, req,
                 arm, instr, boundVars, due>>

\* _acceptIrq(): the PSW goes to the level's one save area, the new STR masks
\* the level and leaves the other one enabled.
Accept(l) ==
  /\ l \in Acceptable /\ \A k \in Acceptable : l <= k
  /\ frames' = Append(frames, Frame("entry", l, {3 - l}))
  /\ opsw' = [opsw EXCEPT ![l] = Len(frames)]
  /\ pend' = pend \ {l}
  /\ UNCHANGED <<tableVars, lastHit, stepLeft, cell, cause, owed, busy, req,
                 arm, instr, boundVars, due>>

\* An instruction of the program.  due: accesses that meet the conditions of
\* the slot that matched, the word having its new value.
UserStep ==
  /\ Running /\ Top.pc = "user" /\ instr < MaxInstr
  /\ \E a \in Accesses, v \in Vals :
       /\ (\E i \in DOMAIN a : a[i] = "WR") \/ v = cell
       /\ Bus(a, v, 1)
       /\ due' = [s \in Slots |->
            IF /\ ena[s] /\ watch[s].want \in {Any, v}
               /\ \E i \in DOMAIN a : SlotFor(a[i]) = s
            THEN due[s] + 1 ELSE due[s]]
  /\ instr' = instr + 1
  /\ UNCHANGED <<tableVars, frames, opsw, busy, req, arm, boundVars>>

At(l, pc) == Running /\ Top.lvl = l /\ Top.pc = pc
Goto(pc) == frames' = [frames EXCEPT ![Len(frames)].pc = pc]

\* The instructions at the head of a handler: a one-shot fires within them.
HandlerFetch ==
  /\ Running /\ Top.pc = "entry" /\ stepLeft > 0
  /\ Bus(<<>>, cell, 1)
  /\ UNCHANGED <<tableVars, frames, opsw, busy, req, arm, instr, boundVars,
                 due>>

\* LPSW l: the PSW in the save area of the level, whichever was put there
\* last.  A return to a frame that is not the interrupted one is the end of
\* what can be said about the program.
Return(l) ==
  /\ At(l, "lpsw")
  /\ Bus(<<>>, cell, 1)
  /\ frames' = IF opsw[l] = Len(frames) - 1
               THEN SubSeq(frames, 1, Len(frames) - 1)
               ELSE <<Frame("lost", 0, {})>>
  /\ UNCHANGED <<tableVars, opsw, busy, req, arm, instr, boundVars, due>>

-----------------------------------------------------------------------------
(* INT1: g_int1_handler, g_breakpoint_interrupt_handler and                *)
(* g_step_interrupt_handler.                                               *)

Int1Cause ==
  /\ At(1, "entry") /\ stepLeft = 0
  /\ Goto(IF cause % 2 = 0 THEN "hit" ELSE "step")
  /\ UNCHANGED <<tableVars, hwVars, opsw, busy, req, arm, instr, boundVars,
                 due>>

\* The slot in IO:0033, and whether the table has it.
Int1ReadHit ==
  /\ At(1, "hit")
  /\ LET found == lastHit # NoHit /\ ena[lastHit]
         next == IF ~found THEN "epilogue"
                 ELSE IF watch[lastHit].want = Any THEN "count" ELSE "compare"
     IN frames' = [frames EXCEPT ![Len(frames)].pc = next,
                                 ![Len(frames)].slot = lastHit]
  /\ owed' = owed \ {lastHit}
  /\ UNCHANGED <<tableVars, lastHit, stepLeft, cell, cause, pend, opsw, busy,
                 req, arm, instr, boundVars, due>>

\* The monitor reads the watched word; 11h clears the datum in the table.
Int1Compare ==
  /\ At(1, "compare")
  /\ Bus(<<"RD">>, cell, 0)
  /\ Goto(IF cell = (IF ena[Top.slot] THEN watch[Top.slot].want ELSE 0)
          THEN "count" ELSE "epilogue")
  /\ UNCHANGED <<tableVars, opsw, busy, req, arm, instr, boundVars, due>>

\* Mutant: the count is taken down and then looked at.
Int1CountOff ==
  /\ At(1, "count")
  /\ LET c == count[Top.slot]
     IN /\ count' = [count EXCEPT ![Top.slot] = IF c = 0 THEN 0 ELSE c - 1]
        /\ Goto(IF c = 0 THEN "notify" ELSE "epilogue")
  /\ UNCHANGED <<watch, ena, hwVars, opsw, busy, req, arm, instr, boundVars,
                 due>>

\* A count of 0 stops at once, another one when it gets to 0.
Int1Count ==
  /\ At(1, "count")
  /\ LET c == count[Top.slot]
     IN /\ count' = [count EXCEPT ![Top.slot] = IF c = 0 THEN 0 ELSE c - 1]
        /\ Goto(IF c <= 1 THEN "notify" ELSE "epilogue")
  /\ UNCHANGED <<watch, ena, hwVars, opsw, busy, req, arm, instr, boundVars,
                 due>>

\* l_bp_notify: 1Ah, whose failure makes no difference.
Int1NotifyBreak ==
  /\ At(1, "notify") /\ Goto("halt")
  /\ UNCHANGED <<tableVars, hwVars, opsw, busy, req, arm, instr, boundVars,
                 due>>

\* g_step_interrupt_handler: 1Bh, likewise.
Int1NotifyStep ==
  /\ At(1, "step") /\ Goto("halt")
  /\ UNCHANGED <<tableVars, hwVars, opsw, busy, req, arm, instr, boundVars,
                 due>>

\* l_int1_halt: instead of returning, g_main_loop halts the CPU with the STR
\* of INT1.
Int1Stop ==
  /\ At(1, "halt")
  /\ frames' = <<Frame("main", 0, Top.on)>>
  /\ UNCHANGED <<tableVars, hwVars, opsw, busy, req, arm, instr, boundVars,
                 due>>

\* g_step_arm_cpld.  With DELAY = 1 the first fetch is skipped and two are
\* counted.
Int1Epilogue ==
  /\ At(1, "epilogue")
  /\ Goto(IF arm THEN "ret" ELSE "lpsw")
  /\ arm' = FALSE
  /\ stepLeft' = IF arm THEN 3 ELSE stepLeft
  /\ UNCHANGED <<tableVars, lastHit, cell, cause, pend, owed, opsw, busy, req,
                 instr, boundVars, due>>

\* RET of g_step_arm_cpld, then POPM.
Int1Restore ==
  /\ \/ At(1, "ret") /\ Goto("popm")
     \/ At(1, "popm") /\ Goto("lpsw")
  /\ Bus(<<>>, cell, 1)
  /\ UNCHANGED <<tableVars, opsw, busy, req, arm, instr, boundVars, due>>

-----------------------------------------------------------------------------
(* INT2: g_int2_handler and g_handshake_interrupt_handler.                 *)

Int2SetBusy ==
  /\ At(2, "entry") /\ stepLeft = 0
  /\ Goto("read") /\ busy' = 1
  /\ UNCHANGED <<tableVars, hwVars, opsw, req, arm, instr, boundVars,
                 due>>

Int2Cause ==
  /\ At(2, "read")
  /\ Goto(IF cause \div 2 = 1 THEN "serve" ELSE "timer")
  /\ UNCHANGED <<tableVars, hwVars, opsw, busy, req, arm, instr, boundVars,
                 due>>

\* The callback returns, or no command comes.
Int2Nothing ==
  /\ At(2, "timer") \/ (At(2, "serve") /\ req \in {"none", "dead"})
  /\ Goto("leave")
  /\ UNCHANGED <<tableVars, hwVars, opsw, busy, req, arm, instr, boundVars,
                 due>>

\* 13h reads the watched word.
Int2Read ==
  /\ At(2, "serve") /\ req = "read" /\ req' = "none"
  /\ Bus(<<"RD">>, cell, 0)
  /\ Goto("leave")
  /\ UNCHANGED <<tableVars, opsw, busy, arm, instr, boundVars, due>>

\* 11h clears the slot's entry of the table; nothing clears the comparator.
Int2Clear ==
  /\ At(2, "serve") /\ req = "clear" /\ req' = "none"
  /\ \E s \in Slots : /\ ena' = [ena EXCEPT ![s] = FALSE]
                      /\ count' = [count EXCEPT ![s] = 0]
  /\ Goto("leave")
  /\ UNCHANGED <<watch, hwVars, opsw, busy, arm, instr, boundVars, due>>

\* 18h keeps the mode for the epilogue of INT1.
Int2Resume ==
  /\ At(2, "serve") /\ req \in {"run", "step"} /\ req' = "none"
  /\ arm' = (req = "step")
  /\ Goto("leave")
  /\ UNCHANGED <<tableVars, hwVars, opsw, busy, instr, boundVars, due>>

Int2Leave ==
  /\ At(2, "leave")
  /\ Goto("lpsw") /\ busy' = 0
  /\ UNCHANGED <<tableVars, hwVars, opsw, req, arm, instr, boundVars,
                 due>>

-----------------------------------------------------------------------------
(* The IO board.                                                           *)

\* initiateSend(): the bus is free (BusArbitration) and INT2 not being served.
IoRequest(k) ==
  /\ reqs < MaxRequests /\ req = "none" /\ busy = 0
  /\ \A i \in DOMAIN frames : frames[i].pc \notin {"notify", "step"}
  /\ req' = k /\ reqs' = reqs + 1
  /\ cause' = 2 /\ pend' = pend \cup {2}
  /\ UNCHANGED <<tableVars, lastHit, stepLeft, cell, owed, frames, opsw, busy,
                 arm, instr, ticks, execs, due>>

\* Nobody takes the command: the transaction times out and leaves its lines
\* up, which is the end of the bus (BusArbitration).
IoTimeout ==
  /\ req \notin {"none", "dead"}
  /\ 2 \notin pend /\ \A i \in DOMAIN frames : frames[i].lvl # 2
  /\ req' = "dead"
  /\ UNCHANGED <<tableVars, hwVars, frames, opsw, busy, arm, instr, boundVars,
                 due>>

\* deliverInterrupt() on a silent bus.
TimerIrq ==
  /\ ticks < MaxTimer /\ busy = 0 /\ req = "none"
  /\ ticks' = ticks + 1
  /\ cause' = 0 /\ pend' = pend \cup {2}
  /\ UNCHANGED <<tableVars, lastHit, stepLeft, cell, owed, frames, opsw, busy,
                 req, arm, instr, reqs, execs, due>>

\* RUN: the link sets IC and starts the CPU; STR stays what it was.
Exec ==
  /\ Top.pc = "main" /\ execs < MaxExecs
  /\ frames' = <<Frame("user", 0, Top.on)>>
  /\ execs' = execs + 1
  /\ UNCHANGED <<tableVars, hwVars, opsw, busy, req, arm, instr, reqs, ticks,
                 due>>

-----------------------------------------------------------------------------
CpuNext ==
  \/ \E l \in {1, 2} : Accept(l) \/ Return(l)
  \/ UserStep \/ HandlerFetch
  \/ Int1Cause \/ Int1ReadHit \/ Int1Compare \/ Int1Count
  \/ Int1NotifyBreak \/ Int1NotifyStep \/ Int1Stop
  \/ Int1Epilogue \/ Int1Restore
  \/ Int2SetBusy \/ Int2Cause \/ Int2Nothing \/ Int2Read \/ Int2Clear
  \/ Int2Resume \/ Int2Leave

Next ==
  \/ CpuNext
  \/ \E k \in Requests : IoRequest(k)
  \/ IoTimeout \/ TimerIrq \/ Exec

Spec == Init /\ [][Next]_vars

\* A CPU that is not halted executes its next instruction; nobody has to ask
\* for anything.
FairSpec == Spec /\ WF_vars(CpuNext)

-----------------------------------------------------------------------------
(* Properties.                                                             *)

Limit(s) == IF watch[s].count = 0 THEN 1 ELSE watch[s].count

\* Types and ranges; the stack of contexts starts with the program or the
\* monitor's main loop.
TypeOK ==
  /\ watch \in [Slots -> Watches] /\ ena \in [Slots -> BOOLEAN]
  /\ count \in [Slots -> Nat] /\ \A s \in Slots : count[s] <= watch[s].count
  /\ lastHit \in Slots \cup {NoHit} /\ stepLeft \in 0..3 /\ cell \in Vals
  /\ cause \in 0..2 /\ pend \subseteq {1, 2}
  /\ frames # <<>> /\ frames[1].pc \in {"user", "main", "lost"}
  /\ \A i \in 2..Len(frames) : frames[i].lvl \in {1, 2}
  /\ opsw \in [{1, 2} -> Nat]
  /\ busy \in {0, 1} /\ req \in {"none", "dead"} \cup Requests
  /\ arm \in BOOLEAN /\ instr \in 0..MaxInstr

\* Only writes are watched: reads of the monitor itself hit nothing.
WritesOnly == \A s \in Slots : watch[s].kinds \subseteq {"WR"}

\* No slot has been cleared and no stopped program started again.
AsSet == execs = 0 /\ \A s \in Slots : ena[s] = (watch[s].kinds # {})

\* The program is stopped at the access that uses up the count of a slot, not
\* at an earlier one and not at a later one: the accesses that meet the
\* condition, counted as they happen, agree with what the handler makes of
\* INT_CAUSE, IO:0033 and the word some instructions later.  And each hit has
\* been read from IO:0033 before the program goes on (with reads and writes
\* watched, one instruction may hit two slots, of which IO:0033 shows the last).
StopsExactly == WritesOnly /\ AsSet =>
  /\ Top.pc = "user" /\ 1 \notin pend => owed = {}
  /\ Top.pc = "notify" => due[Top.slot] = Limit(Top.slot)
  /\ Top.pc = "user" /\ 1 \notin pend => \A s \in Slots : due[s] < Limit(s)

\* A handler's return address is intact until its LPSW (the save area of its
\* level holds the address to return to), as long as a handler's own accesses
\* are no hits: INT1 interrupted by an INT2 that reads a watched word for 13h
\* is entered again and loses its own.
ContextKept == WritesOnly =>
  \A i \in DOMAIN frames :
    frames[i].lvl # 0 => opsw[frames[i].lvl] = i - 1

\* The INT2 handler does not interrupt itself, also not from within an INT1
\* handler that interrupted it.
Int2NotNested ==
  \A i, j \in DOMAIN frames :
    frames[i].lvl = 2 /\ frames[j].lvl = 2 => i = j

\* The program gets to its end or is stopped, if only writes are watched (a
\* read watched with a value is hit by the handler's own comparison: INT1 for
\* ever).
ProgramGoesOn ==
  WritesOnly /\ Top.pc = "user" ~> instr = MaxInstr \/ frames[1].pc \in {"main", "lost"}

\* Every handler comes to an end, be it a return or a stop.
HandlersEnd == Len(frames) > 1 ~> Len(frames) = 1
=============================================================================
