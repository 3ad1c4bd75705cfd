----------------------------- MODULE IoCommands -----------------------------
(***************************************************************************)
(* The commands of the CPU board to the IO board (10h to 1Fh): how long a  *)
(* frame is, which frames are refused, and what each handler does to the   *)
(* devices of the IO board.                                                *)
(*                                                                         *)
(* What a program asks for is a record of the command and the fields its   *)
(* handler reads; a frame is that and the number of bytes that arrived.    *)
(***************************************************************************)
EXTENDS SettingArea, FiniteSets

CONSTANTS
  Keys,       \* the keys of the matrix the operator uses
  Cols,       \* LCD_COLS
  Counts,     \* repetition counts of 12h
  Histories,  \* numbers of history entries of 1Ah
  AgentType   \* the CPU type the CPU worker was started with

ASSUME IoCommandsAssumption ==
  /\ Cols \in Nat \ {0} /\ Counts \subseteq Nat /\ Histories \subseteq Nat
  /\ AgentType \in CpuTypes

VARIABLES
  mode,       \* state.mode
  keys,       \* state.hexKeys: the keys whose bit is set
  led,        \* who wrote the display last
  beep,       \* state.lastBeep, as far as it sounds or not
  lcd,        \* lcdConsole
  undef,      \* state.undefLed
  undefLed,   \* _undefLedOn: the lamp
  notice,     \* the last 13h, 1Ah or 1Bh, as it was understood
  timer,      \* intervalTimer
  disp,       \* cpuType and historyEntrySize of the dispatcher
  settingRaw, \* settingRaw
  line,       \* the frame on its way to the IO worker
  reply,      \* the reply to the last one
  down,       \* the keys the operator holds
  dropped,    \* history: those among them whose bit was cleared meanwhile
  asked       \* history: the last 12h that was accepted, and the expiries since

panelVars == <<led, undef, undefLed>>
timerVars == <<timer, asked>>
keyVars == <<keys, dropped>>
cmdVars == <<mode, keyVars, panelVars, beep, lcd, notice, timerVars>>

NotRead == [none |-> "not read"]
NoFrame == [req |-> [cmd |-> "none"], bytes |-> 0]
NoReply == [status |-> "none", keys |-> {}]
NoNotice == [kind |-> "none"]
Off == [on |-> FALSE, count |-> 0, remaining |-> 0]
NotAsked == [on |-> FALSE, count |-> 0, expired |-> 0]

-----------------------------------------------------------------------------
(* Frames.                                                                 *)

\* CPU_FRAME_SIZE; a state notification is longer on a TMS9995.
FrameSize(cmd, cpu) ==
  CASE cmd \in {"STEP_NOTIFY", "UNDEF_NOTIFY"} ->
         IF cpu = TMS9995 THEN 70 ELSE 60
    [] cmd = "LED_DISPLAY" -> 16
    [] cmd = "LCD_TEXT" -> 20
    [] cmd \in {"BEEP", "TIMER_SET", "LCD_CTRL"} -> 6
    [] cmd = "BREAK_NOTIFY" -> 11
    [] cmd = "MODE_SET" -> 2
    [] OTHER -> 1

\* breakHistoryEntrySizeForCpu()
EntrySize(cpu) == IF cpu = TMS9995 THEN 78 ELSE 66

\* cpuToIoRemainingSize(): what the CPU worker collects of a frame; a number
\* of entries out of range adds none.
FullSize(req, cpu) ==
  FrameSize(req.cmd, cpu)
  + (IF req.cmd = "BREAK_NOTIFY" /\ req.history <= 4
     THEN req.history * EntrySize(cpu) ELSE 0)

\* What programs ask for.  "GET" stands for the clock, the PC's keyboard and
\* the sensors, which are read and nothing else.
Requests ==
  [cmd : {"MODE_SET"}, mode : {"monitor", "free", "other"}]
  \union [cmd : {"HEX_KEY_GET", "LED_DISPLAY", "UNDEF_NOTIFY", "STEP_NOTIFY", "GET",
                 "unknown"}]
  \union [cmd : {"BEEP"}, sounds : BOOLEAN]
  \union [cmd : {"TIMER_SET"}, timerNo : 0..1, period : 0..1, count : Counts]
  \union [cmd : {"BREAK_NOTIFY"}, slot : {3, 4}, history : Histories]
  \union [cmd : {"LCD_CTRL"}, kind : {0, 1, 4}]
  \union [cmd : {"LCD_CTRL"}, kind : {2}, on : BOOLEAN, cursor : BOOLEAN]
  \union [cmd : {"LCD_CTRL"}, kind : {3}, row : 1..2, col : {Cols - 1, Cols}]
  \union [cmd : {"LCD_TEXT"}, row : 1..2, col : {0, Cols - 1, Cols},
          len : {1, Cols, Cols + 1}, printable : BOOLEAN]

-----------------------------------------------------------------------------
(* Devices.                                                                *)

LcdCells == (0..1) \X (0..Cols - 1)
LcdReset == [row |-> 0, col |-> 0, on |-> TRUE, cursor |-> FALSE,
             ddram |-> [c \in LcdCells |-> " "]]

Min2(a, b) == IF a < b THEN a ELSE b

\* Mutant: the cursor ends behind the last column.
LcdWrittenWide(l, row, col, n, ch) ==
  LET end == Min2(col + n, Cols)
  IN [l EXCEPT !.row = row, !.col = end,
               !.ddram = [c \in LcdCells |->
                 IF c[1] = row /\ col <= c[2] /\ c[2] < end THEN ch ELSE @[c]]]

\* handleTextFrame(): the text ends with the row, and so does the cursor.
LcdWritten(l, row, col, n, ch) ==
  LET end == Min2(col + n, Cols)
  IN [l EXCEPT !.row = row, !.col = Min2(end, Cols - 1),
               !.ddram = [c \in LcdCells |->
                 IF c[1] = row /\ col <= c[2] /\ c[2] < end THEN ch ELSE @[c]]]

\* resetIoBoardCommandState() and the devices runIoBoardReset() resets with
\* it; the timer is stopped first.
ResetCommandState ==
  /\ mode' = "monitor" /\ keys' = {} /\ dropped' = down
  /\ led' = "dark" /\ beep' = FALSE /\ undef' = FALSE /\ undefLed' = FALSE
  /\ lcd' = LcdReset /\ notice' = NoNotice
  /\ timer' = Off /\ asked' = NotAsked

-----------------------------------------------------------------------------
(* Handlers.                                                               *)

Answer(status) == reply' = [status |-> status, keys |-> {}]

ModeSet(r) ==
  IF r.mode = "other" THEN Answer("NG") /\ UNCHANGED cmdVars
  ELSE /\ mode' = r.mode
       /\ IF r.mode = "monitor" THEN keys' = {} /\ dropped' = down
          ELSE UNCHANGED keyVars
       /\ Answer("OK")
       /\ UNCHANGED <<panelVars, beep, lcd, notice, timerVars>>

HexKeyGet ==
  /\ reply' = IF mode = "free" THEN [status |-> "OK", keys |-> keys]
              ELSE [status |-> "NG_MODE_ERROR", keys |-> {}]
  /\ UNCHANGED cmdVars

LedDisplay ==
  IF mode = "free"
  THEN /\ led' = "program" /\ Answer("OK")
       /\ UNCHANGED <<mode, keyVars, undef, undefLed, beep, lcd, notice, timerVars>>
  ELSE Answer("NG_MODE_ERROR") /\ UNCHANGED cmdVars

Beep(r) ==
  /\ beep' = r.sounds /\ Answer("OK")
  /\ UNCHANGED <<mode, keyVars, panelVars, lcd, notice, timerVars>>

\* _handleTimerSet(), the worker's onTimerSet() and IoTimer.configure(): a
\* TMS9995 has a decrementer of its own; period 0 stops.
TimerSet(r) ==
  IF r.timerNo # 0 \/ (settingRaw # NotRead /\ settingRaw.cpuType = TMS9995)
  THEN Answer("NG") /\ UNCHANGED cmdVars
  ELSE /\ timer' = IF r.period = 0 THEN Off
                   ELSE [on |-> TRUE, count |-> r.count, remaining |-> r.count]
       /\ asked' = IF r.period = 0 THEN NotAsked
                   ELSE [on |-> TRUE, count |-> r.count, expired |-> 0]
       /\ Answer("OK")
       /\ UNCHANGED <<mode, keyVars, panelVars, beep, lcd, notice>>

\* _handleBreakNotify(): as many entries as the bytes hold.
BreakNotify(r, bytes) ==
  IF r.slot > 3 \/ r.history > 4 THEN Answer("NG") /\ UNCHANGED cmdVars
  ELSE /\ notice' = [kind |-> "break", history |-> r.history,
                     entries |-> Min2(r.history, (bytes - 11) \div disp.entrySize)]
       /\ Answer("OK")
       /\ UNCHANGED <<mode, keyVars, panelVars, beep, lcd, timerVars>>

\* _handleStepNotify(), in the layout of the dispatcher's CPU type.
StepNotify ==
  /\ notice' = [kind |-> "step", layout |-> disp.cpuType]
  /\ Answer("OK")
  /\ UNCHANGED <<mode, keyVars, panelVars, beep, lcd, timerVars>>

\* _handleUndefNotify(), and the panel's setUndefLed(true) after an OK.
UndefNotify ==
  /\ notice' = [kind |-> "undef", layout |-> disp.cpuType]
  /\ undef' = TRUE /\ undefLed' = TRUE /\ led' = "panel"
  /\ Answer("OK")
  /\ UNCHANGED <<mode, keyVars, beep, lcd, timerVars>>

\* handleControlFrame()
LcdControl(r) ==
  LET valid == r.row \in 0..1 /\ r.col \in 0..Cols - 1
      after == CASE r.kind = 0 -> [lcd EXCEPT !.row = 0, !.col = 0,
                                              !.ddram = LcdReset.ddram]
                 [] r.kind = 1 -> [lcd EXCEPT !.row = 0, !.col = 0]
                 [] r.kind = 2 -> [lcd EXCEPT !.on = r.on, !.cursor = r.cursor]
                 [] r.kind = 3 -> [lcd EXCEPT !.row = r.row, !.col = r.col]
  IN IF r.kind = 4 \/ (r.kind = 3 /\ ~valid)
     THEN Answer("NG") /\ UNCHANGED cmdVars
     ELSE /\ lcd' = after /\ Answer("OK")
          /\ UNCHANGED <<mode, keyVars, panelVars, beep, notice, timerVars>>

\* handleTextFrame(); LCD_TEXT carries at most Cols characters.
LcdText(r) ==
  IF r.row > 1 \/ r.col >= Cols \/ r.len > Cols
  THEN Answer("NG") /\ UNCHANGED cmdVars
  ELSE /\ lcd' = LcdWritten(lcd, r.row, r.col, r.len,
                            IF r.printable THEN "x" ELSE " ")
       /\ Answer("OK")
       /\ UNCHANGED <<mode, keyVars, panelVars, beep, notice, timerVars>>

\* CpuToIoCommandDispatcher.dispatch()
Dispatch(f) ==
  LET r == f.req
  IN IF f.bytes < FrameSize(r.cmd, disp.cpuType) \/ r.cmd = "unknown"
     THEN Answer("NG") /\ UNCHANGED cmdVars
     ELSE \/ r.cmd = "MODE_SET" /\ ModeSet(r)
          \/ r.cmd = "HEX_KEY_GET" /\ HexKeyGet
          \/ r.cmd = "LED_DISPLAY" /\ LedDisplay
          \/ r.cmd = "BEEP" /\ Beep(r)
          \/ r.cmd = "TIMER_SET" /\ TimerSet(r)
          \/ r.cmd = "BREAK_NOTIFY" /\ BreakNotify(r, f.bytes)
          \/ r.cmd = "STEP_NOTIFY" /\ StepNotify
          \/ r.cmd = "UNDEF_NOTIFY" /\ UndefNotify
          \/ r.cmd = "LCD_CTRL" /\ LcdControl(r)
          \/ r.cmd = "LCD_TEXT" /\ LcdText(r)
          \/ r.cmd = "GET" /\ Answer("OK") /\ UNCHANGED cmdVars
=============================================================================
