------------------------------ MODULE CpuControl ----------------------------
(***************************************************************************)
(* The CPU worker as the IO board sees it: the HLT and RST pins, the        *)
(* execution status, the requests that arrive over the board link, DMA      *)
(* and the delivery of the IO timer's interrupt.                           *)
(*                                                                         *)
(* A message of the port is handled in one step, and so is a slice of the  *)
(* CPU: the worker has one thread and neither waits in the middle (the DMA *)
(* session of a running CPU does not wait either: raising HLT stops the    *)
(* CPU at once, so the loop that polls RUN ends before its first wait).    *)
(* The memory commands 13h and 14h queue for busLock and end later; what   *)
(* happens on the bus meanwhile is the subject of BusArbitration.          *)
(***************************************************************************)
EXTENDS Naturals, Sequences

CONSTANTS
  Addr, Data,     \* the words the panel looks at, and what they hold
  RetryMax        \* IRQ_RETRY_MAX: attempts to deliver an interrupt

ASSUME CpuControlAssumption == RetryMax \in Nat

VARIABLES
  hlt,        \* the HLT pin
  exec,       \* _execStatus
  pend,       \* _pendingIRQ: level 2
  m2,         \* the level 2 bit of STR: interrupts of the IO board enabled
  retry,      \* attempts so far of the interrupts deliverInterrupt retries
  bus,        \* busLock: the memory commands in the order they came
  mem,        \* the words of RAM the panel looks at
  stat,       \* STATUS.EXEC in the memory both workers share
  toCpu,      \* the board link, towards the CPU worker ...
  toIo,       \* ... and back
  held        \* history: F6 stopped the CPU and nothing has asked it to run

cpuVars  == <<hlt, exec, pend, m2>>
linkVars == <<toCpu, toIo>>
allCpuVars == <<cpuVars, retry, bus, mem, stat, linkVars, held>>

\* "break" and "step" are statuses of the debugger's own run loop, which the
\* worker does not use: its core has no breakpoints.

\* enterResetWait()
CpuInit ==
  /\ hlt = FALSE /\ exec \in {"idle", "running"} /\ pend = FALSE /\ m2 = FALSE
  /\ retry = <<>> /\ bus = <<>> /\ stat = "idle"
  /\ held = FALSE

\* HLT on a running CPU stops it while the pin is being set.
Stopped == IF exec = "running" THEN "halted" ELSE exec

\* A stopped CPU resumes for an interrupt its program has enabled.
Acceptable == pend /\ m2

Reply(msg, ok, val) ==
  toIo' = Append(toIo, [to |-> msg.from, ok |-> ok, val |-> val])

-----------------------------------------------------------------------------
(* Requests of the link.                                                   *)

\* Mutant: a request that is not answered.
SetHaltNoReply(msg) ==
  /\ hlt' = TRUE /\ exec' = Stopped
  /\ held' = (held \/ msg.key = "F6")
  /\ UNCHANGED <<pend, m2, retry, bus, mem, stat, toIo>>

SetHalt(msg) ==
  /\ hlt' = TRUE /\ exec' = Stopped
  /\ held' = (held \/ msg.key = "F6")
  /\ Reply(msg, TRUE, 0)
  /\ UNCHANGED <<pend, m2, retry, bus, mem, stat>>

ReleaseHalt(msg) ==
  /\ hlt' = FALSE /\ exec' = "running"
  /\ held' = FALSE
  /\ Reply(msg, TRUE, 0)
  /\ UNCHANGED <<pend, m2, retry, bus, mem, stat>>

\* begin() raises HLT only when the CPU runs; end() lowers it in any case.
\* What is written lies outside the words the panel looks at.
DmaWrite(msg) ==
  /\ hlt' = FALSE /\ exec' = Stopped
  /\ Reply(msg, TRUE, 0)
  /\ UNCHANGED <<pend, m2, retry, bus, mem, stat, held>>

\* The reset vector's STR is 0: the monitor starts with interrupts disabled.
\* The interrupts still being retried survive it.
PulseReset(msg) ==
  /\ hlt' = FALSE /\ exec' = "running" /\ pend' = FALSE /\ m2' = FALSE
  /\ held' = FALSE
  /\ Reply(msg, TRUE, 0)
  /\ UNCHANGED <<retry, bus, mem, stat>>

Exec(msg) ==
  /\ hlt' = FALSE /\ exec' = "running"
  /\ held' = FALSE
  /\ Reply(msg, TRUE, 0)
  /\ UNCHANGED <<pend, m2, retry, bus, mem, stat>>

\* cpu:setCpuType, cpu:setStepDelay, cpu:setClockDiv: registers that do not
\* take part here.
Configure(msg) ==
  /\ Reply(msg, TRUE, 0)
  /\ UNCHANGED <<cpuVars, retry, bus, mem, stat, held>>

\* INT_CAUSE is in use: isHandshakeActive(), or INTERRUPT_BUSY, which is up to
\* what the program is doing.
CauseInUse == {TRUE} \union IF bus = <<>> THEN {FALSE} ELSE {}

RaiseIrq(msg) ==
  /\ \E inUse \in CauseInUse :
     IF inUse /\ RetryMax > 0
     THEN retry' = Append(retry, 1) /\ pend' = pend
     ELSE pend' = TRUE /\ retry' = retry
  /\ Reply(msg, TRUE, 0)
  /\ UNCHANGED <<hlt, exec, m2, bus, mem, stat, held>>

\* Mutants: busLock turns the order round; the handler does not await the bus.
MemCommandLifo(msg) ==
  /\ bus' = <<msg>> \o bus
  /\ UNCHANGED <<cpuVars, retry, mem, stat, toIo, held>>
MemCommandNoAwait(msg) ==
  /\ bus' = Append(bus, msg)
  /\ Reply(msg, TRUE, 0)
  /\ UNCHANGED <<cpuVars, retry, mem, stat, held>>

MemCommand(msg) ==
  /\ bus' = Append(bus, msg)
  /\ UNCHANGED <<cpuVars, retry, mem, stat, toIo, held>>

CpuReceive ==
  /\ toCpu # <<>>
  /\ toCpu' = Tail(toCpu)
  /\ LET msg == Head(toCpu) IN
     \/ msg.op = "halt" /\ SetHalt(msg)
     \/ msg.op = "go"   /\ ReleaseHalt(msg)
     \/ msg.op = "dma"  /\ DmaWrite(msg)
     \/ msg.op = "rst"  /\ PulseReset(msg)
     \/ msg.op = "exec" /\ Exec(msg)
     \/ msg.op = "cfg"  /\ Configure(msg)
     \/ msg.op = "irq"  /\ RaiseIrq(msg)
     \/ msg.op \in {"read", "write"} /\ MemCommand(msg)

-----------------------------------------------------------------------------
(* What the CPU worker does by itself.                                     *)

\* A timer of deliverInterrupt: again, or for the last time without looking.
RetryIrq ==
  /\ retry # <<>>
  /\ \E inUse \in CauseInUse :
     IF inUse /\ Head(retry) < RetryMax
     THEN retry' = Append(Tail(retry), Head(retry) + 1) /\ pend' = pend
     ELSE retry' = Tail(retry) /\ pend' = TRUE
  /\ UNCHANGED <<hlt, exec, m2, bus, mem, stat, linkVars, held>>

\* The head of busLock has the handler of INT2 move the word: the handler runs
\* when the CPU is not held and its program has interrupts enabled.
Responsive == ~hlt /\ exec # "idle" /\ m2

ServeMem ==
  /\ bus # <<>> /\ Responsive
  /\ LET msg == Head(bus) IN
     /\ mem' = IF msg.op = "write" THEN [mem EXCEPT ![msg.addr] = msg.val]
                                   ELSE mem
     /\ Reply(msg, TRUE, mem[msg.addr])
  /\ bus' = Tail(bus)
  /\ exec' = "running"
  /\ UNCHANGED <<hlt, pend, m2, retry, stat, toCpu, held>>

\* Every attempt ran into the timeout.
FailMem ==
  /\ bus # <<>> /\ ~Responsive
  /\ Reply(Head(bus), FALSE, 0)
  /\ bus' = Tail(bus)
  /\ UNCHANGED <<cpuVars, retry, mem, stat, toCpu, held>>

\* Mutant: an interrupt wakes the CPU before HLT is looked at.
TickIrqFirst ==
  \/ /\ ~Acceptable /\ (hlt \/ exec # "running")
     /\ UNCHANGED cpuVars
  \/ /\ exec \in {"running", "halted"} /\ Acceptable
     /\ pend' = FALSE /\ m2' = FALSE /\ exec' = "running"
     /\ UNCHANGED hlt
  \/ /\ ~hlt /\ exec = "running" /\ ~Acceptable
     /\ m2' \in BOOLEAN /\ exec' \in {"running", "halted"}
     /\ UNCHANGED <<hlt, pend>>

\* tickCpu(): nothing, the entry of an interrupt, or an instruction of the
\* program, which may be H and may set STR.
Tick ==
  \/ /\ hlt \/ exec = "idle" \/ (exec = "halted" /\ ~Acceptable)
     /\ UNCHANGED cpuVars
  \/ /\ ~hlt /\ exec \in {"running", "halted"} /\ Acceptable
     /\ pend' = FALSE /\ m2' = FALSE /\ exec' = "running"
     /\ UNCHANGED hlt
  \/ /\ ~hlt /\ exec = "running" /\ ~Acceptable
     /\ m2' \in BOOLEAN /\ exec' \in {"running", "halted"}
     /\ UNCHANGED <<hlt, pend>>

\* Mutant: nothing is published while HLT is up.
CpuSliceEarlyReturn ==
  /\ Tick
  /\ stat' = IF hlt THEN stat ELSE exec'
  /\ UNCHANGED <<retry, bus, mem, linkVars, held>>

\* A slice ends by publishing the status.  DMA_BUSY is never seen set.
CpuSlice ==
  /\ Tick
  /\ stat' = exec'
  /\ UNCHANGED <<retry, bus, mem, linkVars, held>>

\* pumpCpu: while it waits for a line, a transaction ticks the CPU itself.
Pump ==
  /\ bus # <<>>
  /\ Tick
  /\ UNCHANGED <<retry, bus, mem, stat, linkVars, held>>

CpuNext == CpuReceive \/ RetryIrq \/ ServeMem \/ FailMem \/ CpuSlice \/ Pump

-----------------------------------------------------------------------------
(* The worker's event loop gets round to each of its sources.              *)

CpuFairness ==
  /\ WF_allCpuVars(CpuReceive)
  /\ WF_allCpuVars(RetryIrq)
  /\ WF_allCpuVars(ServeMem \/ FailMem)
  /\ WF_allCpuVars(CpuSlice)
=============================================================================
