----------------------------- MODULE OperatorPanel --------------------------
(***************************************************************************)
(* The operator's console of the IO worker: the keys of the panel, its     *)
(* display, the reset of the boards and the load of a hex file, on top of  *)
(* the CPU worker of CpuControl.                                           *)
(*                                                                         *)
(* Every function key starts an asynchronous job.  A job runs until it     *)
(* waits for the link (or for the file of the setting area); other keys    *)
(* are handled meanwhile, on the same fields of IoConsole.                 *)
(***************************************************************************)
EXTENDS CpuControl, FiniteSets

CONSTANTS
  Keys,          \* the keys the operator uses
  AddrStep,      \* setting 05h: 1, or 2 on a byte-addressed CPU
  FromPowerOn,   \* whether the power-on reset is still under way
  Contents,      \* what RAM and the setting area may hold at the start
  Radix,         \* 16 in the code: the weight of a typed digit
  KeySlots,      \* bound: function keys handled at the same time
  MaxKeys,       \* bound: keys pressed
  MaxTimer,      \* bound: expiries of the interval timer
  Chunks         \* DMA requests of the hex file; 0: none is loaded

ASSUME PanelAssumption ==
  /\ AddrStep \in {1, 2} /\ FromPowerOn \in BOOLEAN
  /\ Contents \subseteq [Addr -> Data]
  /\ Addr = 0..(Cardinality(Addr) - 1) /\ Data = 0..(Cardinality(Data) - 1)
  /\ KeySlots \in Nat /\ MaxKeys \in Nat /\ MaxTimer \in Nat /\ Chunks \in Nat

VARIABLES
  addr, data, focus, mode,  \* wordAddr, dataWord, focus, mode
  panelHalted,              \* halted: which of RUN and HALT is lit
  led,                      \* what the display shows
  setting,                  \* the setting area, as far as it is edited
  jobs,                     \* what is awaiting: keys, power-on reset, load
  resetBusy,                \* resetBusy
  timerOn,                  \* the interval timer runs
  failed,                   \* history: the last memory command failed
  pressed, ticks            \* keys and expiries so far

panelVars == <<addr, data, focus, mode, panelHalted, led, setting>>
jobVars == <<jobs, resetBusy>>
countVars == <<timerOn, pressed, ticks>>
vars == <<allCpuVars, panelVars, jobVars, countVars, failed>>

Slots == 1..KeySlots
Power == 0                 \* the reset of start(), no key
Load  == KeySlots + 1      \* mem:loadIntelHex
Timer == KeySlots + 2      \* raiseTimerInterrupt(): nobody awaits the answer
Jobs  == Slots \union {Power, Load}

Free == [pc |-> "free", key |-> "none"]

\* runIoBoardReset() awaits these one after the other ("cfg": three requests
\* that set registers).
ResetSteps == <<"reload", "cfg", "halt", "dma", "rst">>

AddrN == Cardinality(Addr)
DataN == Cardinality(Data)

-----------------------------------------------------------------------------
(* The display.                                                            *)

Shown == [addr |-> addr, data |-> data, focus |-> focus, halted |-> panelHalted]
Dark == [addr |-> 0, data |-> 0, focus |-> "off", halted |-> FALSE]

\* refreshLeds(), of the fields as they are after this step.
RefreshLeds == led' = Shown'

\* alignMonitorAddr()
Aligned(a) == IF mode = "monitor" /\ AddrStep = 2 THEN a - (a % 2) ELSE a

\* addAddr(): 32 bits (8 in the setting area), which Addr stands for.
Moved(a, up) ==
  LET d == IF mode = "monitor" THEN AddrStep ELSE 1
  IN (IF up THEN a + d ELSE a + AddrN - d) % AddrN

-----------------------------------------------------------------------------
(* Requests and jobs.                                                      *)

Send(j, key, op, a, v) ==
  toCpu' = Append(toCpu, [from |-> j, key |-> key, op |-> op, addr |-> a,
                          val |-> v])

Awaits(j, pc, key) == jobs' = [jobs EXCEPT ![j] = [pc |-> pc, key |-> key]]
Done(j) == jobs' = [jobs EXCEPT ![j] = Free]

\* readAt() of the new address in a job of key; the setting area answers at
\* once, RAM over the link.
ReadAt(j, key, a) ==
  IF mode = "setting_area"
  THEN /\ data' = setting[a] /\ focus' = "data"
       /\ Done(j) /\ RefreshLeds
       /\ UNCHANGED toCpu
  ELSE /\ Send(j, key, "read", a, 0) /\ Awaits(j, "read", key)
       /\ UNCHANGED <<data, focus, led>>

-----------------------------------------------------------------------------
(* Keys.                                                                   *)

KeyAds(j) ==
  IF focus = "addr"
  THEN /\ addr' = Aligned(addr)
       /\ UNCHANGED <<mode, panelHalted, setting, resetBusy, timerOn>>
       /\ IF mode = "setting_area"
          THEN /\ data' = setting[addr] /\ focus' = "data"
               /\ RefreshLeds /\ UNCHANGED <<jobs, toCpu>>
          ELSE /\ focus' = "data"
               /\ Send(j, "F0", "read", addr', 0) /\ Awaits(j, "read", "F0")
               /\ UNCHANGED <<data, led>>
  ELSE /\ focus' = "addr"
       /\ UNCHANGED <<addr, data, mode, panelHalted, setting, jobs, toCpu,
                      resetBusy, timerOn>>
       /\ RefreshLeds

KeyClr(j) ==
  /\ IF focus = "addr" THEN addr' = 0 /\ data' = data
                       ELSE data' = 0 /\ addr' = addr
  /\ UNCHANGED <<focus, mode, panelHalted, setting, jobs, toCpu, resetBusy,
                 timerOn>>
  /\ RefreshLeds

KeyIncDec(j, key) ==
  /\ addr' = Moved(Aligned(addr), key = "F2")
  /\ UNCHANGED <<mode, panelHalted, setting, resetBusy, timerOn>>
  /\ ReadAt(j, key, addr')

\* In the setting area the byte is changed at once, then the file written.
KeyWinc(j) ==
  /\ addr' = Aligned(addr)
  /\ IF mode = "setting_area"
     THEN /\ setting' = [setting EXCEPT ![addr] = data]
          /\ Awaits(j, "store", "F4") /\ UNCHANGED toCpu
     ELSE /\ Send(j, "F4", "write", addr', data) /\ Awaits(j, "write", "F4")
          /\ UNCHANGED setting
  /\ UNCHANGED <<data, focus, mode, panelHalted, led, resetBusy, timerOn>>

KeyRun(j) ==
  /\ addr' = Aligned(addr)
  /\ Send(j, "F5", "exec", addr', 0) /\ Awaits(j, "exec", "F5")
  /\ UNCHANGED <<data, focus, mode, panelHalted, led, setting, resetBusy,
                 timerOn>>

\* The direction is what the panel believes, not what the CPU does.
KeyHaltStart(j) ==
  /\ Send(j, "F6", IF panelHalted THEN "go" ELSE "halt", 0, 0)
  /\ Awaits(j, IF panelHalted THEN "go" ELSE "halt", "F6")
  /\ UNCHANGED <<addr, data, focus, mode, panelHalted, led, setting,
                 resetBusy, timerOn>>

\* notifyCpuReset()
PanelReset ==
  /\ addr' = 0 /\ data' = 0 /\ focus' = "addr" /\ mode' = "monitor"
  /\ panelHalted' = TRUE
  /\ RefreshLeds

\* runIoBoardReset(): a second reset is ignored, but F7 resets the panel.
KeyReset(j) ==
  /\ UNCHANGED <<setting, toCpu>>
  /\ IF resetBusy
     THEN /\ PanelReset /\ UNCHANGED <<jobs, resetBusy, timerOn>>
     ELSE /\ resetBusy' = TRUE /\ timerOn' = FALSE /\ led' = Dark
          /\ jobs' = [jobs EXCEPT ![j] =
                        [pc |-> "reset", key |-> "F7", step |-> 1]]
          /\ UNCHANGED <<addr, data, focus, mode, panelHalted>>

\* The lowest free slot: which one is of no consequence.
PressFunction(key) ==
  \E j \in Slots :
    /\ key \in Keys /\ pressed < MaxKeys
    /\ jobs[j] = Free /\ \A i \in 1..(j - 1) : jobs[i] # Free
    /\ pressed' = pressed + 1
    /\ \/ key = "F0" /\ KeyAds(j)
       \/ key = "F1" /\ KeyClr(j)
       \/ key \in {"F2", "F3"} /\ KeyIncDec(j, key)
       \/ key = "F4" /\ KeyWinc(j)
       \/ key = "F5" /\ KeyRun(j)
       \/ key = "F6" /\ KeyHaltStart(j)
       \/ key = "F7" /\ KeyReset(j)
    /\ UNCHANGED <<cpuVars, retry, bus, mem, stat, toIo, held, ticks, failed>>

\* onHex(): a digit moves the others to the left.
PressHex(n) ==
  /\ "hex" \in Keys /\ pressed < MaxKeys
  /\ pressed' = pressed + 1
  /\ IF focus = "addr" THEN addr' = (addr * Radix + n) % AddrN /\ data' = data
                       ELSE data' = (data * Radix + n) % DataN /\ addr' = addr
  /\ UNCHANGED <<focus, mode, panelHalted, setting>>
  /\ RefreshLeds
  /\ UNCHANGED <<allCpuVars, jobVars, timerOn, ticks, failed>>

\* onAdsLongPress()
HoldAds ==
  /\ "long" \in Keys /\ pressed < MaxKeys
  /\ pressed' = pressed + 1
  /\ mode' = IF mode = "monitor" THEN "setting_area" ELSE "monitor"
  /\ addr' = 0 /\ data' = 0 /\ focus' = "addr"
  /\ UNCHANGED <<panelHalted, setting>>
  /\ RefreshLeds
  /\ UNCHANGED <<allCpuVars, jobVars, timerOn, ticks, failed>>

-----------------------------------------------------------------------------
(* Jobs continue.                                                          *)

\* A reset goes on to its next step; the last one resets the panel (and so
\* does F7, once more).
ResetStep(j) ==
  LET job == jobs[j]
      next == job.step + 1
  IN IF next > Len(ResetSteps)
     THEN /\ resetBusy' = FALSE /\ Done(j)
          /\ PanelReset /\ UNCHANGED <<setting, toCpu>>
     ELSE /\ Send(j, job.key, ResetSteps[next], 0, 0)
          /\ jobs' = [jobs EXCEPT ![j].step = next]
          /\ UNCHANGED <<panelVars, resetBusy>>

ReadDone(j, val) ==
  /\ data' = val
  /\ focus' = IF jobs[j].key = "F0" THEN focus ELSE "data"
  /\ Done(j)
  /\ UNCHANGED <<addr, mode, panelHalted, setting>>
  /\ RefreshLeds
  /\ UNCHANGED <<resetBusy, toCpu>>

\* WINC goes on with the address and the mode of now.
WriteDone(j) ==
  /\ addr' = Moved(addr, TRUE)
  /\ UNCHANGED <<mode, panelHalted, setting, resetBusy>>
  /\ ReadAt(j, "F4", addr')

ControlDone(j) ==
  /\ panelHalted' = (jobs[j].pc = "halt")
  /\ Done(j)
  /\ UNCHANGED <<addr, data, focus, mode, setting>>
  /\ RefreshLeds
  /\ UNCHANGED <<resetBusy, toCpu>>

\* dmaLoadIntelHex(): a request per chunk.
LoadStep ==
  /\ IF jobs[Load].step = Chunks
     THEN Done(Load) /\ UNCHANGED toCpu
     ELSE /\ jobs' = [jobs EXCEPT ![Load].step = @ + 1]
          /\ Send(Load, "none", "dma", 0, 0)
  /\ UNCHANGED <<panelVars, resetBusy>>

\* link:result.  The answer to an interrupt request is ignored.
IoReceive ==
  /\ toIo # <<>>
  /\ toIo' = Tail(toIo)
  /\ LET r == Head(toIo) IN
     IF r.to = Timer THEN UNCHANGED <<panelVars, jobVars, toCpu, failed>>
     ELSE LET pc == jobs[r.to].pc IN
     /\ failed' = IF pc \in {"read", "write"} THEN ~r.ok ELSE failed
     /\ \/ /\ ~r.ok                             \* the key's job is rejected
           /\ Done(r.to) /\ UNCHANGED <<panelVars, resetBusy, toCpu>>
        \/ r.ok /\ pc = "read" /\ ReadDone(r.to, r.val)
        \/ r.ok /\ pc = "write" /\ WriteDone(r.to)
        \/ r.ok /\ pc \in {"exec", "halt", "go"} /\ ControlDone(r.to)
        \/ r.ok /\ pc = "reset" /\ ResetStep(r.to)
        \/ r.ok /\ pc = "load" /\ LoadStep
  /\ UNCHANGED <<cpuVars, retry, bus, mem, stat, held, countVars>>

\* The setting area's file has been read (reset) or written (WINC).
FileDone(j) ==
  /\ \/ jobs[j].pc = "reset" /\ jobs[j].step = 1 /\ ResetStep(j)
     \/ jobs[j].pc = "store" /\ WriteDone(j)
  /\ UNCHANGED <<cpuVars, retry, bus, mem, stat, held, toIo, countVars, failed>>

-----------------------------------------------------------------------------
(* The rest of the IO worker.                                              *)

\* A message of the host process; the panel does not take part.
StartLoad ==
  /\ jobs[Load] = Free /\ pressed < MaxKeys /\ Chunks > 0
  /\ pressed' = pressed + 1
  /\ jobs' = [jobs EXCEPT ![Load] = [pc |-> "load", key |-> "none", step |-> 1]]
  /\ Send(Load, "none", "dma", 0, 0)
  /\ UNCHANGED <<cpuVars, retry, bus, mem, stat, held, toIo, panelVars,
                 resetBusy, timerOn, ticks, failed>>

\* The program sets the timer with 12h.
SetTimer ==
  /\ exec = "running" /\ ticks < MaxTimer
  /\ timerOn' = TRUE
  /\ UNCHANGED <<allCpuVars, panelVars, jobVars, pressed, ticks, failed>>

TimerExpires ==
  /\ timerOn /\ ticks < MaxTimer
  /\ ticks' = ticks + 1
  /\ Send(Timer, "none", "irq", 0, 0)
  /\ UNCHANGED <<cpuVars, retry, bus, mem, stat, held, toIo, panelVars,
                 jobVars, timerOn, pressed, failed>>

\* slice(): syncCpuHalted() of the published status.
IoSlice ==
  /\ panelHalted' = (stat # "running")
  /\ UNCHANGED <<addr, data, focus, mode, setting>>
  /\ IF panelHalted' # panelHalted THEN RefreshLeds ELSE UNCHANGED led
  /\ UNCHANGED <<allCpuVars, jobVars, countVars, failed>>

-----------------------------------------------------------------------------

\* start(): the power-on reset has read the setting area.  The other start is
\* the end of that reset.
Init ==
  /\ CpuInit /\ exec = IF FromPowerOn THEN "idle" ELSE "running"
  /\ toIo = <<>>
  /\ toCpu = IF FromPowerOn
              THEN <<[from |-> Power, key |-> "none", op |-> "cfg",
                      addr |-> 0, val |-> 0]>>
              ELSE <<>>
  /\ addr = 0 /\ data = 0 /\ focus = "addr" /\ mode = "monitor"
  /\ panelHalted = TRUE /\ led = IF FromPowerOn THEN Dark ELSE Shown
  /\ mem \in Contents /\ setting \in Contents
  /\ jobs = [j \in Jobs |->
       IF j = Power /\ FromPowerOn
       THEN [pc |-> "reset", key |-> "none", step |-> 2] ELSE Free]
  /\ resetBusy = FromPowerOn
  /\ timerOn = FALSE /\ failed = FALSE /\ pressed = 0 /\ ticks = 0

PanelNext ==
  \/ \E key \in {"F0", "F1", "F2", "F3", "F4", "F5", "F6", "F7"} :
       PressFunction(key)
  \/ \E n \in 0..(Radix - 1) : PressHex(n)
  \/ HoldAds
  \/ IoReceive
  \/ \E j \in Jobs : FileDone(j)
  \/ StartLoad \/ SetTimer \/ TimerExpires \/ IoSlice

Next ==
  \/ CpuNext /\ UNCHANGED <<panelVars, jobVars, countVars, failed>>
  \/ PanelNext

\* Both event loops run on; nobody has to press a key.
Spec ==
  /\ Init /\ [][Next]_vars
  /\ CpuFairness
  /\ WF_vars(IoReceive)
  /\ \A j \in Jobs : WF_vars(FileDone(j))
  /\ WF_vars(IoSlice)

-----------------------------------------------------------------------------
(* Properties.                                                             *)

\* The places of a queue where a request of job j is, or an answer to it.
RequestsOf(q, j) == {i \in DOMAIN q : q[i].from = j}
AnswersTo(q, j)  == {i \in DOMAIN q : q[i].to = j}

\* A job waits for the link, or for nothing, or for the file.
OnFile(j) == \/ jobs[j].pc = "store"
             \/ jobs[j].pc = "reset" /\ jobs[j].step = 1

\* An awaiting job owns exactly one request or answer on its way, and a reply
\* never meets a job that does not wait for it: keys pressed while others are
\* awaiting do not take each other's answers (onFunction is not serialised).
OneRequestPerJob ==
  \A j \in Jobs :
    Cardinality(RequestsOf(toCpu, j)) + Cardinality(RequestsOf(bus, j))
      + Cardinality(AnswersTo(toIo, j))
    = IF jobs[j] = Free \/ OnFile(j) THEN 0 ELSE 1

\* When nothing is awaiting and the last command succeeded, a display that
\* shows DATA shows the word at the ADDR it shows, however the keys ADS, INC,
\* DEC and WINC were interleaved with their answers.
Idle == \A j \in Slots : jobs[j] = Free
DisplayIsMemory ==
  (Idle /\ ~failed /\ led.focus = "data" /\ mode = "monitor")
     => led.data = mem[led.addr]

\* F6 stopped the CPU: until F6, F5 or F7 has asked for it, the CPU runs no
\* instruction, whatever interrupts come in.
OperatorHaltHolds == held => exec # "running"

\* Every key, reset and load comes to its end, also when the CPU does not
\* answer.
JobsEnd == \A j \in Jobs : jobs[j] # Free ~> jobs[j] = Free

\* RUN and HALT follow the CPU in the end, in spite of the answers of F5 and
\* F6 and of the status, which arrive late and in either order.
PanelFollowsCpu ==
  /\ <>[](exec = "running") => <>[](~led.halted)
  /\ <>[](exec # "running") => <>[](led.halted)
=============================================================================
