---------------------------- MODULE IoBoard_proofs ---------------------------
(***************************************************************************)
(* Proofs about IoBoard, for all keys, LCD widths, repetition counts,      *)
(* setting files, edits and bounds.                                        *)
(*                                                                         *)
(* Each property has an invariant of its own, so that an action is looked  *)
(* at only for the state the property is about; TypeInv is under them all. *)
(***************************************************************************)
EXTENDS IoBoard, TLAPS

Waits == {"open", "write", "use", "type", "div", "halt", "rst"}
Edit == [id : Nat, pc : {"div", "open", "write"}, raw : Setting]

LcdType ==
  [row : 0..1, col : 0..Cols - 1, on : BOOLEAN, cursor : BOOLEAN,
   ddram : [LcdCells -> {" ", "x"}]]
TimerType ==
  /\ timer \in [on : BOOLEAN, count : Counts \union {0}, remaining : Nat]
  /\ asked \in [on : BOOLEAN, count : Counts \union {0}, expired : Nat]
  /\ timer.on =>
       timer.remaining \in (IF timer.count = 0 THEN {0} ELSE 1..timer.count)
CmdType ==
  /\ mode \in {"monitor", "free"} /\ keys \subseteq Keys
  /\ down \subseteq Keys /\ dropped \subseteq down
  /\ led \in {"dark", "panel", "program"}
  /\ beep \in BOOLEAN /\ undef \in BOOLEAN /\ undefLed \in BOOLEAN
  /\ lcd \in LcdType
  /\ TimerType
  /\ disp \in [cpuType : CpuTypes, entrySize : {66, 78}]
  /\ line = NoFrame \/ line.req \in Requests
BoardType ==
  /\ settingRaw \in Setting \union {NotRead}
  /\ file \in Files
  /\ writes \subseteq Edit
  /\ writes = {} \/ settingRaw \in Setting
  /\ \/ reset = [pc |-> "idle", got |-> NotRead]
     \/ reset = [pc |-> "read", got |-> NotRead]
     \/ reset \in [pc : Waits, got : Setting]
  /\ counts \in [{"commands", "edits", "resets", "keys", "expiries"} -> Nat]
TypeInv == CmdType /\ BoardType

-----------------------------------------------------------------------------
(* The setting area.                                                       *)

\* The defaults of a CPU are a setting area (defaultSettingsForCpu).
LEMMA DefaultsType ==
  ASSUME NEW cpu \in CpuTypes
  PROVE  DefaultsFor(cpu) \in Setting /\ DefaultsFor(cpu).cpuType = cpu
BY SettingAssumption DEF DefaultsFor, Setting, CpuTypes, MN1613, TMS9995

\* A change of the CPU type keeps the CPU type and makes a valid area
\* (decodeSettingArea, encodeSettingArea).
LEMMA RewrittenType ==
  ASSUME NEW s \in Setting
  PROVE  Rewritten(s) \in Setting /\ Rewritten(s).cpuType = s.cpuType
<1>1. s.cpuType \in CpuTypes /\ s.clockDiv \in Divs
  BY DEF Setting
<1>2. DefaultsFor(s.cpuType) \in Setting /\ DefaultsFor(s.cpuType).cpuType = s.cpuType
  BY <1>1, DefaultsType
<1>. QED
  BY <1>1, <1>2 DEF Rewritten, Setting

\* An edited byte leaves a setting area, and the CPU type alone unless it is
\* the byte that is edited (writeSettingAreaByte).
LEMMA WrittenType ==
  ASSUME NEW s \in Setting, NEW e \in Edits
  PROVE  /\ Written(s, e) \in Setting
         /\ e.at # "cpuType" => Written(s, e).cpuType = s.cpuType
<1>. DEFINE next == [s EXCEPT ![e.at] = e.value]
<1>1. next \in Setting /\ (e.at # "cpuType" => next.cpuType = s.cpuType)
  <2>1. CASE e.at = "mark" /\ e.value \in BOOLEAN
    <3>1. next = [s EXCEPT !.mark = e.value]
      BY <2>1
    <3>. QED
      BY <2>1, <3>1 DEF Setting
  <2>2. CASE e.at = "clockDiv" /\ e.value \in Divs
    <3>1. next = [s EXCEPT !.clockDiv = e.value]
      BY <2>2
    <3>. QED
      BY <2>2, <3>1 DEF Setting
  <2>3. CASE e.at = "cpuType" /\ e.value \in CpuTypes
    <3>1. next = [s EXCEPT !.cpuType = e.value]
      BY <2>3
    <3>. QED
      BY <2>3, <3>1 DEF Setting
  <2>4. CASE e.at = "cpuTypeReset" /\ e.value \in 0..1
    <3>1. next = [s EXCEPT !.cpuTypeReset = e.value]
      BY <2>4
    <3>. QED
      BY <2>4, <3>1 DEF Setting
  <2>5. CASE e.at = "addrStep" /\ e.value \in 1..2
    <3>1. next = [s EXCEPT !.addrStep = e.value]
      BY <2>5
    <3>. QED
      BY <2>5, <3>1 DEF Setting
  <2>. QED
    BY <2>1, <2>2, <2>3, <2>4, <2>5 DEF Edits
<1>. HIDE DEF next
<1>2. Rewritten(next) \in Setting /\ Rewritten(next).cpuType = next.cpuType
  BY <1>1, RewrittenType
<1>. QED
  BY <1>1, <1>2 DEF Written, next

\* Whatever the file holds, a setting area comes of it (initializeSettingArea).
LEMMA InitialisedType ==
  ASSUME NEW f \in Files
  PROVE  Initialised(f) \in Setting
<1>1. DefaultsFor(MN1613) \in Setting
  BY DefaultsType DEF CpuTypes
<1>2. ValidMark(f) => Rewritten(f) \in Setting
  BY RewrittenType DEF ValidMark
<1>. QED
  BY <1>1, <1>2 DEF Initialised, ValidMark

-----------------------------------------------------------------------------
(* Type correctness.                                                       *)

\* A column that is cut off at the end of the row is one of the row's.
LEMMA CutColumn ==
  ASSUME NEW end \in Nat
  PROVE  Min2(end, Cols - 1) \in 0..Cols - 1
<1>1. Cols \in Nat /\ Cols - 1 \in Nat
  BY IoCommandsAssumption
<1>. QED
  BY <1>1 DEF Min2

\* Where a text ends that is cut off there.
LEMMA CutText ==
  ASSUME NEW col \in 0..Cols - 1, NEW n \in Nat
  PROVE  Min2(col + n, Cols) \in Nat
<1>1. Cols \in Nat
  BY IoCommandsAssumption
<1>2. col + n \in Nat
  OBVIOUS
<1>. QED
  BY <1>1, <1>2 DEF Min2

\* The text of an LCD frame stays on the panel and leaves the cursor there
\* (handleTextFrame).
LEMMA LcdWrittenType ==
  ASSUME NEW l \in LcdType, NEW row \in 0..1, NEW col \in 0..Cols - 1,
         NEW n \in Nat, NEW ch \in {" ", "x"}
  PROVE  LcdWritten(l, row, col, n, ch) \in LcdType
<1>. DEFINE end == Min2(col + n, Cols)
<1>1. end \in Nat
  BY CutText
<1>. HIDE DEF end
<1>. DEFINE cells == [c \in LcdCells |->
                        IF c[1] = row /\ col <= c[2] /\ c[2] < end THEN ch ELSE l.ddram[c]]
<1>2. cells \in [LcdCells -> {" ", "x"}]
  BY DEF LcdType
<1>. HIDE DEF cells
<1>3. Min2(end, Cols - 1) \in 0..Cols - 1
  BY <1>1, CutColumn
<1>4. [l EXCEPT !.row = row, !.col = Min2(end, Cols - 1), !.ddram = cells] \in LcdType
  BY <1>2, <1>3 DEF LcdType
<1>5. LcdWritten(l, row, col, n, ch)
        = [l EXCEPT !.row = row, !.col = Min2(end, Cols - 1), !.ddram = cells]
  BY DEF LcdWritten, LcdType, cells, end
<1>. QED
  BY <1>4, <1>5

\* The LCD is in range after a reset.
LEMMA LcdResetType == LcdReset \in LcdType
BY IoCommandsAssumption DEF LcdReset, LcdType

\* What leaves the timer leaves its type.
LEMMA TimerKept ==
  TimerType /\ UNCHANGED timerVars => TimerType'
BY DEF TimerType, timerVars

\* Every handler leaves the devices with their types: the parameters that
\* could do otherwise are refused (command_cpu_to_io.ts and the handlers).
LEMMA DispatchType ==
  ASSUME TypeInv, line # NoFrame, Dispatch(line), line' = NoFrame,
         UNCHANGED <<disp, down, settingRaw>>
  PROVE  CmdType'
<1>. DEFINE r == line.req
<1>0. r \in Requests
  BY DEF TypeInv, CmdType
<1>1. CASE UNCHANGED cmdVars
  BY <1>1, TimerKept DEF TypeInv, CmdType, cmdVars, keyVars, panelVars
<1>2. CASE r.cmd = "MODE_SET" /\ ModeSet(r)
  <2>1. r.mode \in {"monitor", "free", "other"}
    BY <1>0, <1>2 DEF Requests
  <2>. QED
    BY <1>1, <1>2, <2>1, TimerKept DEF ModeSet, TypeInv, CmdType, keyVars, panelVars
<1>3. CASE r.cmd = "HEX_KEY_GET" /\ HexKeyGet
  BY <1>1, <1>3 DEF HexKeyGet
<1>4. CASE r.cmd = "LED_DISPLAY" /\ LedDisplay
  BY <1>1, <1>4, TimerKept DEF LedDisplay, TypeInv, CmdType, keyVars
<1>5. CASE r.cmd = "BEEP" /\ Beep(r)
  <2>1. r.sounds \in BOOLEAN
    BY <1>0, <1>5 DEF Requests
  <2>. QED
    BY <1>5, <2>1, TimerKept DEF Beep, TypeInv, CmdType, keyVars, panelVars
<1>6. CASE r.cmd = "TIMER_SET" /\ TimerSet(r)
  <2>1. r.count \in Counts /\ r.count \in Nat
    BY <1>0, <1>6, IoCommandsAssumption DEF Requests
  <2>2. CASE UNCHANGED cmdVars
    BY <1>1, <2>2
  <2>3. CASE ~UNCHANGED cmdVars
    <3>1. TimerType'
      <4>1. CASE r.period = 0
        <5>1. timer' = Off /\ asked' = NotAsked
          BY <1>6, <2>3, <4>1 DEF TimerSet
        <5>. QED
          BY <5>1 DEF TimerType, Off, NotAsked
      <4>2. CASE r.period # 0
        <5>1. /\ timer' = [on |-> TRUE, count |-> r.count, remaining |-> r.count]
              /\ asked' = [on |-> TRUE, count |-> r.count, expired |-> 0]
          BY <1>6, <2>3, <4>2 DEF TimerSet
        <5>2. r.count # 0 => r.count \in 1..r.count
          BY <2>1
        <5>. QED
          BY <2>1, <5>1, <5>2 DEF TimerType
      <4>. QED
        BY <4>1, <4>2
    <3>. QED
      BY <1>6, <2>3, <3>1 DEF TimerSet, TypeInv, CmdType, keyVars, panelVars
  <2>. QED
    BY <2>2, <2>3
<1>7. CASE r.cmd = "BREAK_NOTIFY" /\ BreakNotify(r, line.bytes)
  BY <1>1, <1>7, TimerKept DEF BreakNotify, TypeInv, CmdType, keyVars, panelVars
<1>8. CASE r.cmd = "STEP_NOTIFY" /\ StepNotify
  BY <1>8, TimerKept DEF StepNotify, TypeInv, CmdType, keyVars, panelVars
<1>9. CASE r.cmd = "UNDEF_NOTIFY" /\ UndefNotify
  BY <1>9, TimerKept DEF UndefNotify, TypeInv, CmdType, keyVars
<1>10. CASE r.cmd = "LCD_CTRL" /\ LcdControl(r)
  <2>1. CASE ~UNCHANGED cmdVars
    <3>1. r.kind \in 0..3 /\ (r.kind = 2 => r.on \in BOOLEAN /\ r.cursor \in BOOLEAN)
      BY <1>0, <1>10, <2>1 DEF Requests, LcdControl
    <3>2. lcd' \in LcdType
      <4>. lcd \in LcdType /\ 0 \in 0..1 /\ 0 \in 0..Cols - 1
        BY IoCommandsAssumption DEF TypeInv, CmdType
      <4>1. CASE r.kind = 0
        <5>1. lcd' = [lcd EXCEPT !.row = 0, !.col = 0, !.ddram = LcdReset.ddram]
          BY <1>10, <2>1, <4>1 DEF LcdControl
        <5>2. LcdReset.ddram \in [LcdCells -> {" ", "x"}]
          BY LcdResetType DEF LcdType
        <5>. QED
          BY <5>1, <5>2 DEF LcdType
      <4>2. CASE r.kind = 1
        <5>1. lcd' = [lcd EXCEPT !.row = 0, !.col = 0]
          BY <1>10, <2>1, <4>2 DEF LcdControl
        <5>. QED
          BY <5>1 DEF LcdType
      <4>3. CASE r.kind = 2
        <5>1. lcd' = [lcd EXCEPT !.on = r.on, !.cursor = r.cursor]
          BY <1>10, <2>1, <4>3 DEF LcdControl
        <5>. QED
          BY <3>1, <4>3, <5>1 DEF LcdType
      <4>4. CASE r.kind = 3
        <5>1. lcd' = [lcd EXCEPT !.row = r.row, !.col = r.col]
              /\ r.row \in 0..1 /\ r.col \in 0..Cols - 1
          BY <1>10, <2>1, <4>4 DEF LcdControl
        <5>. QED
          BY <5>1 DEF LcdType
      <4>. QED
        BY <3>1, <4>1, <4>2, <4>3, <4>4
    <3>. QED
      BY <1>10, <2>1, <3>2, TimerKept
         DEF LcdControl, TypeInv, CmdType, keyVars, panelVars
  <2>. QED
    BY <1>1, <2>1
<1>11. CASE r.cmd = "LCD_TEXT" /\ LcdText(r)
  <2>1. CASE ~UNCHANGED cmdVars
    <3>1. r.row \in 0..1 /\ r.col \in 0..Cols - 1 /\ r.len \in Nat
      <4>1. r \in [cmd : {"LCD_TEXT"}, row : 1..2, col : {0, Cols - 1, Cols},
                   len : {1, Cols, Cols + 1}, printable : BOOLEAN]
        BY <1>0, <1>11 DEF Requests
      <4>2. r.row <= 1 /\ r.col < Cols /\ r.len <= Cols
        <5>1. ~(r.row > 1 \/ r.col >= Cols \/ r.len > Cols)
          BY <1>11, <2>1 DEF LcdText
        <5>. QED
          BY <4>1, <5>1, IoCommandsAssumption
      <4>. QED
        BY <4>1, <4>2, IoCommandsAssumption
    <3>2. lcd' = LcdWritten(lcd, r.row, r.col, r.len, IF r.printable THEN "x" ELSE " ")
      BY <1>11, <2>1 DEF LcdText
    <3>3. lcd' \in LcdType
      BY <3>1, <3>2, LcdWrittenType DEF TypeInv, CmdType
    <3>. QED
      BY <1>11, <2>1, <3>3, TimerKept
         DEF LcdText, TypeInv, CmdType, keyVars, panelVars
  <2>. QED
    BY <1>1, <2>1
<1>. QED
  BY <1>1, <1>2, <1>3, <1>4, <1>5, <1>6, <1>7, <1>8, <1>9, <1>10, <1>11 DEF Dispatch

\* The commands of a reset, of the panel and of the timer leave the devices
\* with their types.
LEMMA CmdStep ==
  ASSUME TypeInv, Next
  PROVE  CmdType'
<1>. USE DEF TypeInv
<1>0. CASE UNCHANGED <<cmdVars, down, line, disp>>
  BY <1>0 DEF CmdType, TimerType, cmdVars, keyVars, panelVars, timerVars
<1>1. CASE SendFrame
  <2>1. line'.req \in Requests
    BY <1>1, IoBoardAssumption DEF SendFrame
  <2>. QED
    BY <1>1, <2>1
       DEF SendFrame, CmdType, TimerType, cmdVars, keyVars, panelVars, timerVars, settingVars
<1>2. CASE ServeFrame
  BY <1>2, DispatchType DEF ServeFrame, settingVars
<1>3. CASE PressKey
  BY <1>3 DEF PressKey, CmdType, TimerType, panelVars, timerVars, settingVars
<1>4. CASE ReleaseKey
  BY <1>4 DEF ReleaseKey, CmdType, TimerType, panelVars, timerVars, settingVars
<1>5. CASE Expire
  <2>1. TimerType'
    <3>1. /\ timer.on
          /\ asked' = [asked EXCEPT !.expired = @ + 1]
          /\ timer' = IF timer.count = 0 THEN timer
                      ELSE IF timer.remaining - 1 <= 0 THEN Off
                      ELSE [timer EXCEPT !.remaining = @ - 1]
      BY <1>5 DEF Expire
    <3>2. /\ timer \in [on : BOOLEAN, count : Counts \union {0}, remaining : Nat]
          /\ asked \in [on : BOOLEAN, count : Counts \union {0}, expired : Nat]
          /\ Counts \subseteq Nat
      BY IoCommandsAssumption DEF CmdType, TimerType
    <3>3. asked' \in [on : BOOLEAN, count : Counts \union {0}, expired : Nat]
      BY <3>1, <3>2
    <3>4. CASE timer.count = 0
      BY <3>1, <3>3, <3>4 DEF CmdType, TimerType
    <3>5. CASE timer.count # 0 /\ timer.remaining - 1 <= 0
      BY <3>1, <3>3, <3>5 DEF TimerType, Off
    <3>6. CASE timer.count # 0 /\ ~(timer.remaining - 1 <= 0)
      <4>1. timer' = [timer EXCEPT !.remaining = @ - 1]
        BY <3>1, <3>6
      <4>2. timer.count \in Nat /\ timer.remaining \in 1..timer.count
        BY <3>1, <3>2, <3>6 DEF CmdType, TimerType
      <4>3. timer.remaining - 1 \in 1..timer.count /\ timer.remaining - 1 \in Nat
        BY <3>6, <4>2
      <4>. QED
        BY <3>2, <3>3, <3>6, <4>1, <4>3 DEF TimerType
    <3>. QED
      BY <3>4, <3>5, <3>6
  <2>. QED
    BY <1>5, <2>1 DEF Expire, CmdType, keyVars, panelVars, settingVars
<1>6. CASE EditSetting
  <2>1. disp' \in [cpuType : CpuTypes, entrySize : {66, 78}]
    <3>1. PICK e \in EditedBytes :
            UNCHANGED disp \/ SyncDispatcher(Written(settingRaw, e))
      BY <1>6 DEF EditSetting
    <3>2. settingRaw \in Setting /\ e \in Edits
      BY <1>6, IoBoardAssumption DEF EditSetting, BoardType
    <3>3. Written(settingRaw, e).cpuType \in CpuTypes
      BY <3>2, WrittenType DEF Setting
    <3>. QED
      BY <3>1, <3>3 DEF SyncDispatcher, EntrySize, CmdType
  <2>. QED
    BY <1>6, <2>1
       DEF EditSetting, CmdType, TimerType, cmdVars, keyVars, panelVars, timerVars
<1>7. CASE EditClockDone
  BY <1>0, <1>7 DEF EditClockDone
<1>8. CASE OpenFile \/ WriteFile
  BY <1>0, <1>8 DEF OpenFile, WriteFile
<1>9. CASE StartReset
  <2>1. TimerType'
    BY <1>9 DEF StartReset, ResetCommandState, TimerType, Off, NotAsked
  <2>. QED
    BY <1>9, <2>1, LcdResetType DEF StartReset, ResetCommandState, CmdType, settingVars
<1>10. CASE ReadFile \/ SaveInitial \/ ConfigureCpu \/ HaltCpu
  BY <1>0, <1>10 DEF ReadFile, SaveInitial, ConfigureCpu, HaltCpu, settingVars
<1>11. CASE UseSettings
  <2>1. reset.got \in Setting
    BY <1>11 DEF UseSettings, BoardType, Waits
  <2>2. disp' \in [cpuType : CpuTypes, entrySize : {66, 78}]
    BY <1>11, <2>1 DEF UseSettings, SyncDispatcher, EntrySize, Setting
  <2>. QED
    BY <1>11, <2>2
       DEF UseSettings, CmdType, TimerType, cmdVars, keyVars, panelVars, timerVars
<1>12. CASE RestartCpu
  BY <1>12 DEF RestartCpu, CmdType, TimerType, keyVars, timerVars, settingVars
<1>. QED
  BY <1>1, <1>2, <1>3, <1>4, <1>5, <1>6, <1>7, <1>8, <1>9, <1>10, <1>11, <1>12 DEF Next

\* Edits, saves and resets keep the setting area and its file well formed.
LEMMA BoardStep ==
  ASSUME TypeInv, Next
  PROVE  BoardType'
<1>. USE DEF TypeInv
<1>0. ASSUME NEW what \in {"commands", "edits", "resets", "keys", "expiries"}, NEW max,
             Counted(what, max)
      PROVE  counts' \in [{"commands", "edits", "resets", "keys", "expiries"} -> Nat]
  BY <1>0 DEF Counted, BoardType
<1>1. CASE SendFrame
  BY <1>0, <1>1 DEF SendFrame, BoardType, settingVars, boardVars
<1>2. CASE ServeFrame
  BY <1>2 DEF ServeFrame, BoardType, settingVars, boardVars
<1>3. CASE PressKey \/ Expire
  BY <1>0, <1>3 DEF PressKey, Expire, BoardType, settingVars, boardVars
<1>4. CASE ReleaseKey
  BY <1>4 DEF ReleaseKey, BoardType, settingVars, boardVars
<1>5. CASE EditSetting
  <2>. DEFINE pc(e) == IF e.at \in {"clockDiv", "cpuTypeReset"} THEN "div" ELSE "open"
  <2>1. PICK e \in EditedBytes :
          /\ settingRaw' = Written(settingRaw, e)
          /\ writes' = writes \union
               {[id |-> counts["edits"], pc |-> pc(e), raw |-> Written(settingRaw, e)]}
    BY <1>5 DEF EditSetting
  <2>2. Written(settingRaw, e) \in Setting
    BY <1>5, <2>1, WrittenType, IoBoardAssumption DEF EditSetting, BoardType
  <2>3. counts["edits"] \in Nat
    BY DEF BoardType
  <2>4. [id |-> counts["edits"], pc |-> pc(e), raw |-> Written(settingRaw, e)] \in Edit
    BY <2>2, <2>3 DEF Edit
  <2>5. counts' \in [{"commands", "edits", "resets", "keys", "expiries"} -> Nat]
    BY <1>0, <1>5 DEF EditSetting
  <2>. HIDE DEF pc
  <2>. QED
    BY <1>5, <2>1, <2>2, <2>4, <2>5 DEF EditSetting, BoardType, boardVars
<1>6. CASE EditClockDone
  <2>1. PICK w \in writes :
          /\ w.pc = "div"
          /\ writes' = (writes \ {w}) \union {[w EXCEPT !.pc = "open", !.raw = settingRaw]}
    BY <1>6 DEF EditClockDone
  <2>2. w \in Edit /\ settingRaw \in Setting
    BY DEF BoardType
  <2>3. [w EXCEPT !.pc = "open", !.raw = settingRaw] \in Edit
    BY <2>2 DEF Edit
  <2>. QED
    BY <1>6, <2>1, <2>3 DEF EditClockDone, BoardType
<1>7. CASE OpenFile
  <2>1. PICK w \in writes :
          writes' = (writes \ {w}) \union {[w EXCEPT !.pc = "write"]}
    BY <1>7 DEF OpenFile
  <2>2. [w EXCEPT !.pc = "write"] \in Edit
    BY DEF BoardType, Edit
  <2>. QED
    BY <1>7, <2>1, <2>2 DEF OpenFile, BoardType, Files, boardVars
<1>8. CASE WriteFile
  <2>1. PICK w \in writes : file' = w.raw /\ writes' = writes \ {w}
    BY <1>8 DEF WriteFile
  <2>2. w.raw \in Setting
    BY DEF BoardType, Edit
  <2>. QED
    BY <1>8, <2>1, <2>2 DEF WriteFile, BoardType, Files, boardVars
<1>9. CASE StartReset
  BY <1>0, <1>9 DEF StartReset, BoardType, settingVars, Idle
<1>10. CASE ReadFile
  <2>1. Initialised(file) \in Setting
    BY InitialisedType DEF BoardType
  <2>. QED
    BY <1>10, <2>1 DEF ReadFile, BoardType, settingVars, Waits
<1>11. CASE SaveInitial \/ UseSettings \/ ConfigureCpu \/ HaltCpu
  <2>1. reset \in [pc : Waits, got : Setting]
    BY <1>11 DEF SaveInitial, UseSettings, ConfigureCpu, HaltCpu, BoardType, Waits
  <2>2. reset' = Idle \/ reset' \in [pc : Waits, got : Setting]
    BY <1>11, <2>1 DEF SaveInitial, UseSettings, ConfigureCpu, HaltCpu, Waits
  <2>3. file' \in Files /\ settingRaw' \in Setting \union {NotRead}
    BY <1>11, <2>1
       DEF SaveInitial, UseSettings, ConfigureCpu, HaltCpu, BoardType, Files, settingVars
  <2>. QED
    BY <1>11, <2>2, <2>3
       DEF SaveInitial, UseSettings, ConfigureCpu, HaltCpu, BoardType, settingVars, Idle
<1>12. CASE RestartCpu
  BY <1>12 DEF RestartCpu, BoardType, settingVars, Idle
<1>. QED
  BY <1>1, <1>2, <1>3, <1>4, <1>5, <1>6, <1>7, <1>8, <1>9, <1>10, <1>11, <1>12 DEF Next

\* The worker starts with its types.
LEMMA InitType == Init => TypeInv
<1>. SUFFICES ASSUME Init
              PROVE  CmdType /\ BoardType
  BY DEF TypeInv
<1>1. TimerType
  BY DEF Init, TimerType, Off, NotAsked
<1>2. CmdType
  BY <1>1, LcdResetType DEF Init, CmdType, EntrySize, CpuTypes
<1>3. BoardType
  <2>1. counts \in [{"commands", "edits", "resets", "keys", "expiries"} -> Nat]
    BY DEF Init
  <2>. QED
    BY <2>1, IoBoardAssumption DEF Init, BoardType, Idle
<1>. QED
  BY <1>2, <1>3

\* A step keeps the types (every handler of the worker).
LEMMA TypeStep == TypeInv /\ [Next]_vars => TypeInv'
<1>1. TypeInv /\ Next => TypeInv'
  BY CmdStep, BoardStep DEF TypeInv
<1>2. TypeInv /\ UNCHANGED vars => TypeInv'
  BY DEF TypeInv, CmdType, TimerType, BoardType, vars, cmdVars, keyVars, panelVars,
         timerVars, settingVars, boardVars, historyVars
<1>. QED
  BY <1>1, <1>2

\* TypeInv, which every other invariant rests on, is one (the whole worker).
THEOREM TypeInvariant == Spec => []TypeInv
<1>1. Init => TypeInv
  BY InitType
<1>2. TypeInv /\ [Next]_vars => TypeInv'
  BY TypeStep
<1>. QED
  BY <1>1, <1>2, PTL DEF Spec

\* The devices of the IO board keep their ranges whatever a program asks for
\* and whatever happens around it (command_cpu_to_io.ts, lcd_console.ts,
\* io_timer.ts, setting_area.ts).
THEOREM TypeCorrect == Spec => []TypeOK
<1>1. TypeInv => TypeOK
  <2>. SUFFICES ASSUME TypeInv
                PROVE  TypeOK
    OBVIOUS
  <2>1. /\ lcd.row \in 0..1 /\ lcd.col \in 0..Cols - 1
        /\ lcd.ddram \in [LcdCells -> {" ", "x"}]
    BY DEF TypeInv, CmdType, LcdType
  <2>2. reset.pc \in {"idle", "read", "open", "write", "use", "type", "div", "halt", "rst"}
    BY DEF TypeInv, BoardType, Waits
  <2>. QED
    BY <2>1, <2>2 DEF TypeInv, CmdType, TimerType, BoardType, TypeOK
<1>. QED
  BY <1>1, TypeInvariant, PTL

-----------------------------------------------------------------------------
(* The matrix of the keys.                                                 *)

\* The matrix that 14h reports holds the keys the operator holds, but for
\* those that were held through a change of the mode or a reset (key_matrix.ts,
\* onModeSet).  That the dropped ones are held, of TypeInv, is what makes a
\* fresh press count.
THEOREM KeysOfMatrix == Spec => []MatrixIsKeys
<1>1. Init => MatrixIsKeys
  BY DEF Init, MatrixIsKeys
<1>2. TypeInv /\ MatrixIsKeys /\ [Next]_vars => MatrixIsKeys'
  <2>. SUFFICES ASSUME TypeInv, MatrixIsKeys, [Next]_vars
                PROVE  MatrixIsKeys'
    OBVIOUS
  <2>0. dropped \subseteq down
    BY DEF TypeInv, CmdType
  <2>1. CASE UNCHANGED <<keys, dropped, down>>
    BY <2>1 DEF MatrixIsKeys
  <2>2. CASE ServeFrame
    <3>1. UNCHANGED keyVars \/ (keys' = {} /\ dropped' = down)
      BY <2>2 DEF ServeFrame, Dispatch, ModeSet, HexKeyGet, LedDisplay, Beep, TimerSet,
                  BreakNotify, StepNotify, UndefNotify, LcdControl, LcdText, cmdVars
    <3>. QED
      BY <2>2, <3>1 DEF ServeFrame, MatrixIsKeys, keyVars
  <2>3. CASE PressKey
    BY <2>0, <2>3 DEF PressKey, MatrixIsKeys
  <2>4. CASE ReleaseKey
    BY <2>0, <2>4 DEF ReleaseKey, MatrixIsKeys
  <2>5. CASE StartReset
    BY <2>5 DEF StartReset, ResetCommandState, MatrixIsKeys
  <2>. QED
    BY <2>1, <2>2, <2>3, <2>4, <2>5
       DEF Next, SendFrame, Expire, EditSetting, EditClockDone, OpenFile, WriteFile,
           ReadFile, SaveInitial, UseSettings, ConfigureCpu, HaltCpu, RestartCpu,
           vars, cmdVars, keyVars
<1>. QED
  BY <1>1, <1>2, TypeInvariant, PTL DEF Spec

-----------------------------------------------------------------------------
(* The interval timer.                                                     *)

\* What is left of the count is what has not expired yet.
TimerInv ==
  /\ TimerAsAsked
  /\ asked.on /\ asked.count > 0 /\ timer.on =>
       timer.count = asked.count /\ timer.remaining + asked.expired = asked.count
  /\ asked.on /\ asked.count = 0 => timer.count = 0

\* A 12h that is accepted starts the count anew (TimerSet, IoTimer.configure).
LEMMA TimerServed ==
  ASSUME TypeInv, TimerInv, ServeFrame
  PROVE  TimerInv'
<1>1. CASE UNCHANGED timerVars
  BY <1>1 DEF TimerInv, TimerAsAsked, timerVars
<1>2. CASE ~UNCHANGED timerVars
  <2>. DEFINE r == line.req
  <2>1. r.cmd = "TIMER_SET" /\ TimerSet(r) /\ ~UNCHANGED cmdVars
    BY <1>2 DEF ServeFrame, Dispatch, ModeSet, HexKeyGet, LedDisplay, Beep,
                BreakNotify, StepNotify, UndefNotify, LcdControl, LcdText, cmdVars
  <2>2. r.count \in Nat
    BY <2>1, <1>2, IoCommandsAssumption DEF ServeFrame, TypeInv, CmdType, Requests
  <2>3. CASE r.period = 0
    <3>1. timer' = Off /\ asked' = NotAsked
      BY <2>1, <2>3 DEF TimerSet
    <3>. QED
      BY <3>1 DEF TimerInv, TimerAsAsked, Off, NotAsked
  <2>4. CASE r.period # 0
    <3>1. /\ timer' = [on |-> TRUE, count |-> r.count, remaining |-> r.count]
          /\ asked' = [on |-> TRUE, count |-> r.count, expired |-> 0]
      BY <2>1, <2>4 DEF TimerSet
    <3>. QED
      BY <2>2, <3>1 DEF TimerInv, TimerAsAsked
  <2>. QED
    BY <2>3, <2>4
<1>. QED
  BY <1>1, <1>2

\* An expiry uses up one of the count, and the last one stops the timer
\* (IoTimer.expire).
LEMMA TimerExpired ==
  ASSUME TypeInv, TimerInv, Expire
  PROVE  TimerInv'
<1>1. /\ timer.on
      /\ asked' = [asked EXCEPT !.expired = @ + 1]
      /\ timer' = IF timer.count = 0 THEN timer
                  ELSE IF timer.remaining - 1 <= 0 THEN Off
                  ELSE [timer EXCEPT !.remaining = @ - 1]
  BY DEF Expire
<1>2. /\ timer \in [on : BOOLEAN, count : Nat, remaining : Nat]
      /\ asked \in [on : BOOLEAN, count : Nat, expired : Nat]
      /\ timer.count # 0 => timer.remaining \in 1..timer.count
  BY <1>1, IoCommandsAssumption DEF TypeInv, CmdType, TimerType
<1>3. asked.on
  BY <1>1 DEF TimerInv, TimerAsAsked
<1>4. /\ asked'.on /\ asked'.count = asked.count /\ asked'.expired = asked.expired + 1
  BY <1>1, <1>2, <1>3
<1>5. CASE asked.count = 0
  <2>1. timer' = timer /\ timer.count = 0
    BY <1>1, <1>3, <1>5 DEF TimerInv
  <2>. QED
    BY <1>1, <1>4, <1>5, <2>1 DEF TimerInv, TimerAsAsked
<1>6. CASE asked.count # 0
  <2>1. timer.count = asked.count /\ timer.remaining + asked.expired = asked.count
    BY <1>1, <1>2, <1>3, <1>6 DEF TimerInv
  <2>2. CASE timer.remaining - 1 <= 0
    <3>1. timer.remaining = 1 /\ asked.expired + 1 = asked.count
      BY <1>2, <1>6, <2>1, <2>2
    <3>2. timer' = Off
      BY <1>1, <1>6, <2>1, <2>2
    <3>. QED
      BY <1>2, <1>4, <1>6, <3>1, <3>2 DEF TimerInv, TimerAsAsked, Off
  <2>3. CASE ~(timer.remaining - 1 <= 0)
    <3>1. timer' = [timer EXCEPT !.remaining = @ - 1]
      BY <1>1, <1>6, <2>1, <2>3
    <3>2. timer'.on /\ timer'.count = timer.count /\ timer'.remaining = timer.remaining - 1
      BY <1>1, <1>2, <3>1
    <3>3. asked.expired + 1 < asked.count
      BY <1>2, <2>1, <2>3
    <3>. QED
      BY <1>2, <1>4, <1>6, <2>1, <3>2, <3>3 DEF TimerInv, TimerAsAsked
  <2>. QED
    BY <2>2, <2>3
<1>. QED
  BY <1>5, <1>6

\* The timer expires as often as the last accepted 12h said and not at all
\* after a stop or a reset (12h, F7 and IoTimer's own last expiry), because the
\* expiries that are left and those that were make up the count.
THEOREM TimerExact == Spec => []TimerAsAsked
<1>1. Init => TimerInv
  BY DEF Init, TimerInv, TimerAsAsked, Off, NotAsked
<1>2. TypeInv /\ TimerInv /\ [Next]_vars => TimerInv'
  <2>. SUFFICES ASSUME TypeInv, TimerInv, [Next]_vars
                PROVE  TimerInv'
    OBVIOUS
  <2>1. CASE UNCHANGED timerVars
    BY <2>1 DEF TimerInv, TimerAsAsked, timerVars
  <2>2. CASE ServeFrame
    BY <2>2, TimerServed
  <2>3. CASE Expire
    BY <2>3, TimerExpired
  <2>4. CASE StartReset
    <3>1. timer' = Off /\ asked' = NotAsked
      BY <2>4 DEF StartReset, ResetCommandState
    <3>. QED
      BY <3>1 DEF TimerInv, TimerAsAsked, Off, NotAsked
  <2>. QED
    BY <2>1, <2>2, <2>3, <2>4
       DEF Next, SendFrame, PressKey, ReleaseKey, EditSetting, EditClockDone, OpenFile,
           WriteFile, ReadFile, SaveInitial, UseSettings, ConfigureCpu, HaltCpu,
           RestartCpu, vars, cmdVars
<1>3. TimerInv => TimerAsAsked
  BY DEF TimerInv
<1>. QED
  BY <1>1, <1>2, <1>3, TypeInvariant, PTL DEF Spec

-----------------------------------------------------------------------------
(* The file of the setting area.                                           *)

\* Edits and resets that keep out of each other's way: the one edit under way
\* writes what the worker works with, and a reset finds no edit under way and
\* works with what it found in the file, or put there.
KeptInv ==
  ~raced =>
    /\ \A w \in writes : w.raw = settingRaw
    /\ reset.pc # "idle" => writes = {}
    /\ reset.pc = "idle" /\ writes = {} /\ settingRaw # NotRead => file = settingRaw
    /\ reset.pc = "use" => file = reset.got
    /\ reset.pc \in {"type", "div", "halt", "rst"} => file = settingRaw

\* An edit and its write to the file (writeSettingByte).
LEMMA KeptByEdit ==
  ASSUME TypeInv, KeptInv, EditSetting \/ EditClockDone \/ OpenFile \/ WriteFile
  PROVE  KeptInv'
<1>1. CASE EditSetting
  <2>. DEFINE edit(e) ==
         [id |-> counts["edits"],
          pc |-> IF e.at \in {"clockDiv", "cpuTypeReset"} THEN "div" ELSE "open",
          raw |-> Written(settingRaw, e)]
  <2>1. PICK e \in EditedBytes :
          settingRaw' = Written(settingRaw, e) /\ writes' = writes \union {edit(e)}
    BY <1>1 DEF EditSetting
  <2>2. ~raced' => writes = {} /\ reset'.pc = "idle"
    BY <1>1 DEF EditSetting, boardVars
  <2>3. /\ writes' # {}
        /\ writes = {} => \A w \in writes' : w.raw = settingRaw'
    <3>1. edit(e).raw = settingRaw'
      BY <2>1
    <3>. HIDE DEF edit
    <3>. QED
      BY <2>1, <3>1
  <2>. QED
    BY <2>2, <2>3 DEF KeptInv
<1>2. CASE EditClockDone
  <2>1. PICK w \in writes :
          /\ writes' = (writes \ {w}) \union {[w EXCEPT !.pc = "open", !.raw = settingRaw]}
          /\ UNCHANGED <<file, settingRaw, reset, raced>>
    BY <1>2 DEF EditClockDone, historyVars
  <2>2. [w EXCEPT !.pc = "open", !.raw = settingRaw].raw = settingRaw
    BY DEF TypeInv, BoardType, Edit
  <2>. QED
    BY <2>1, <2>2 DEF KeptInv
<1>3. CASE OpenFile
  <2>1. PICK w \in writes :
          /\ writes' = (writes \ {w}) \union {[w EXCEPT !.pc = "write"]}
          /\ UNCHANGED <<settingRaw, reset, raced>>
    BY <1>3 DEF OpenFile, boardVars, historyVars
  <2>2. [w EXCEPT !.pc = "write"].raw = w.raw
    BY DEF TypeInv, BoardType, Edit
  <2>. QED
    BY <2>1, <2>2 DEF KeptInv
<1>4. CASE WriteFile
  <2>1. PICK w \in writes :
          /\ file' = w.raw /\ writes' = writes \ {w}
          /\ UNCHANGED <<settingRaw, reset, raced>>
    BY <1>4 DEF WriteFile, boardVars, historyVars
  <2>. QED
    BY <2>1 DEF KeptInv
<1>. QED
  BY <1>1, <1>2, <1>3, <1>4

\* A reset (runIoBoardReset, reloadSettingArea, initializeSettingArea).
LEMMA KeptByReset ==
  ASSUME TypeInv, KeptInv,
         StartReset \/ ReadFile \/ SaveInitial \/ UseSettings \/ ConfigureCpu
           \/ HaltCpu \/ RestartCpu
  PROVE  KeptInv'
<1>0. \/ reset = [pc |-> "idle", got |-> NotRead]
      \/ reset = [pc |-> "read", got |-> NotRead]
      \/ reset \in [pc : Waits, got : Setting]
  BY DEF TypeInv, BoardType
<1>1. CASE StartReset
  <2>1. reset'.pc = "read" /\ raced' = (raced \/ writes # {}) /\ writes' = writes
    BY <1>1 DEF StartReset, Idle, settingVars
  <2>. QED
    BY <2>1 DEF KeptInv
<1>2. CASE ReadFile
  <2>1. /\ reset' = [pc |-> IF SavesInitial(file) THEN "open" ELSE "use",
                     got |-> Initialised(file)]
        /\ reset.pc = "read" /\ UNCHANGED <<file, writes, settingRaw, raced>>
    BY <1>2 DEF ReadFile, settingVars, historyVars
  <2>2. ~SavesInitial(file) => Initialised(file) = file
    BY DEF SavesInitial, Initialised
  <2>. QED
    BY <2>1, <2>2 DEF KeptInv
<1>3. CASE SaveInitial
  <2>1. /\ reset.pc \in {"open", "write"}
        /\ \/ reset' = [reset EXCEPT !.pc = "write"]
           \/ file' = reset.got /\ reset' = [reset EXCEPT !.pc = "use"]
        /\ UNCHANGED <<writes, settingRaw, raced>>
    BY <1>3 DEF SaveInitial, historyVars
  <2>. QED
    BY <1>0, <2>1 DEF KeptInv, Waits
<1>4. CASE UseSettings
  <2>1. /\ reset.pc = "use" /\ settingRaw' = reset.got
        /\ reset' = [reset EXCEPT !.pc = "type"] \/ reset' = [pc |-> "idle", got |-> NotRead]
        /\ UNCHANGED <<file, writes, raced>>
    BY <1>4 DEF UseSettings, Idle, historyVars
  <2>. QED
    BY <1>0, <2>1 DEF KeptInv, Waits
<1>5. CASE ConfigureCpu \/ HaltCpu \/ RestartCpu
  <2>1. /\ reset.pc \in {"type", "div", "halt", "rst"}
        /\ \/ reset' = [reset EXCEPT !.pc = "div"]
           \/ reset' = [reset EXCEPT !.pc = "halt"]
           \/ reset' = [reset EXCEPT !.pc = "rst"]
           \/ reset' = [pc |-> "idle", got |-> NotRead]
        /\ UNCHANGED <<file, writes, settingRaw, raced>>
    BY <1>5 DEF ConfigureCpu, HaltCpu, RestartCpu, Idle, settingVars, historyVars
  <2>. QED
    BY <1>0, <2>1 DEF KeptInv, Waits
<1>. QED
  BY <1>1, <1>2, <1>3, <1>4, <1>5

\* When nothing is under way the file holds what the worker works with, unless
\* an edit met another one or a reset (writeSettingByte, runIoBoardReset).
THEOREM FileKept == Spec => []SettingsKept
<1>1. Init => KeptInv
  BY DEF Init, KeptInv, Idle
<1>2. TypeInv /\ KeptInv /\ [Next]_vars => KeptInv'
  <2>. SUFFICES ASSUME TypeInv, KeptInv, [Next]_vars
                PROVE  KeptInv'
    OBVIOUS
  <2>1. CASE UNCHANGED <<settingVars, reset, raced>>
    BY <2>1 DEF KeptInv, settingVars
  <2>2. CASE EditSetting \/ EditClockDone \/ OpenFile \/ WriteFile
    BY <2>2, KeptByEdit
  <2>3. CASE StartReset \/ ReadFile \/ SaveInitial \/ UseSettings \/ ConfigureCpu
               \/ HaltCpu \/ RestartCpu
    BY <2>3, KeptByReset
  <2>. QED
    BY <2>1, <2>2, <2>3
       DEF Next, SendFrame, ServeFrame, PressKey, ReleaseKey, Expire,
           vars, boardVars, historyVars
<1>3. KeptInv => SettingsKept
  BY DEF KeptInv, SettingsKept
<1>. QED
  BY <1>1, <1>2, <1>3, TypeInvariant, PTL DEF Spec

-----------------------------------------------------------------------------
(* The CPU type.                                                           *)

\* The boards of an MN1613: the CPU worker was started as one, and so was the
\* file written.
MN1613Board ==
  /\ AgentType = MN1613
  /\ \A f \in StoredSettings : ValidMark(f) => f.cpuType = MN1613

AgreeInv ==
  ~typeEdited =>
    /\ BoardsAgree
    /\ \A w \in writes : w.raw.cpuType = MN1613
    /\ ValidMark(file) => file.cpuType = MN1613
    /\ reset.got # NotRead => reset.got.cpuType = MN1613

\* What a reset makes of the file of an MN1613 is for an MN1613
\* (initializeSettingArea).
LEMMA InitialisedAgrees ==
  ASSUME NEW f \in Files, ValidMark(f) => f.cpuType = MN1613
  PROVE  Initialised(f).cpuType = MN1613
<1>1. DefaultsFor(MN1613).cpuType = MN1613
  BY DefaultsType DEF CpuTypes
<1>2. ValidMark(f) => Rewritten(f).cpuType = MN1613
  BY RewrittenType DEF ValidMark
<1>. QED
  BY <1>1, <1>2 DEF Initialised

\* A notification is understood in the dispatcher's layout (StepNotify,
\* UndefNotify).
LEMMA AgreeServed ==
  ASSUME AgentType = MN1613, TypeInv, AgreeInv, ServeFrame
  PROVE  AgreeInv'
<1>1. /\ \/ UNCHANGED notice
         \/ notice'.kind = "break"
         \/ notice' = [kind |-> "step", layout |-> disp.cpuType]
         \/ notice' = [kind |-> "undef", layout |-> disp.cpuType]
      /\ UNCHANGED <<settingVars, boardVars, typeEdited>>
  <2>1. UNCHANGED notice \/ BreakNotify(line.req, line.bytes) \/ StepNotify \/ UndefNotify
    BY DEF ServeFrame, Dispatch, ModeSet, HexKeyGet, LedDisplay, Beep, TimerSet,
           LcdControl, LcdText, cmdVars
  <2>2. BreakNotify(line.req, line.bytes) => UNCHANGED notice \/ notice'.kind = "break"
    BY DEF BreakNotify, cmdVars
  <2>3. UNCHANGED <<settingVars, boardVars, typeEdited>>
    BY DEF ServeFrame, historyVars
  <2>. QED
    BY <2>1, <2>2, <2>3 DEF StepNotify, UndefNotify
<1>2. ~typeEdited => disp.cpuType = AgentType
  BY DEF AgreeInv, BoardsAgree
<1>. QED
  BY <1>1, <1>2 DEF AgreeInv, BoardsAgree, settingVars, boardVars

\* An edit of another byte keeps the CPU type, here and in the file
\* (writeSettingByte).
LEMMA AgreeEdited ==
  ASSUME AgentType = MN1613, TypeInv, AgreeInv,
         EditSetting \/ EditClockDone \/ OpenFile \/ WriteFile
  PROVE  AgreeInv'
<1>1. CASE EditSetting
  <2>1. PICK e \in EditedBytes :
          LET raw == Written(settingRaw, e)
          IN /\ settingRaw' = raw
             /\ UNCHANGED disp \/ SyncDispatcher(raw)
             /\ \A w \in writes' : w \in writes \/ w.raw = raw
             /\ typeEdited' = (typeEdited \/ e.at \in {"cpuType", "mark"})
    BY <1>1 DEF EditSetting
  <2>2. settingRaw \in Setting /\ settingRaw # NotRead /\ e \in Edits
    BY <1>1, IoBoardAssumption DEF EditSetting, TypeInv, BoardType
  <2>3. e.at # "cpuType" => Written(settingRaw, e).cpuType = settingRaw.cpuType
    BY <2>2, WrittenType
  <2>4. UNCHANGED <<file, reset, linkType, notice>>
    BY <1>1 DEF EditSetting, boardVars, cmdVars
  <2>. QED
    BY <2>1, <2>2, <2>3, <2>4 DEF AgreeInv, BoardsAgree, SyncDispatcher, EntrySize
<1>2. CASE EditClockDone
  <2>1. PICK w \in writes :
          /\ writes' = (writes \ {w}) \union {[w EXCEPT !.pc = "open", !.raw = settingRaw]}
          /\ UNCHANGED <<file, settingRaw, disp, reset, linkType, notice, typeEdited>>
    BY <1>2 DEF EditClockDone, historyVars, cmdVars
  <2>2. [w EXCEPT !.pc = "open", !.raw = settingRaw].raw = settingRaw
    BY DEF TypeInv, BoardType, Edit
  <2>3. ~typeEdited => settingRaw.cpuType = MN1613
    <3>1. writes # {} /\ w \in Edit
      BY DEF TypeInv, BoardType
    <3>2. settingRaw # NotRead => settingRaw \in Setting
      BY DEF TypeInv, BoardType
    <3>3. settingRaw = NotRead => NotRead \in Setting
      BY <3>1 DEF TypeInv, BoardType
    <3>4. NotRead \notin Setting
      BY DEF NotRead, Setting
    <3>. QED
      BY <3>2, <3>3, <3>4 DEF AgreeInv, BoardsAgree
  <2>. QED
    BY <2>1, <2>2, <2>3 DEF AgreeInv, BoardsAgree
<1>3. CASE OpenFile
  <2>1. PICK w \in writes :
          /\ writes' = (writes \ {w}) \union {[w EXCEPT !.pc = "write"]}
          /\ file' = Torn
          /\ UNCHANGED <<settingRaw, disp, reset, linkType, notice, typeEdited>>
    BY <1>3 DEF OpenFile, boardVars, historyVars, cmdVars
  <2>2. [w EXCEPT !.pc = "write"].raw = w.raw
    BY DEF TypeInv, BoardType, Edit
  <2>3. ~ValidMark(Torn)
    BY DEF ValidMark, Torn, Setting
  <2>. QED
    BY <2>1, <2>2, <2>3 DEF AgreeInv, BoardsAgree
<1>4. CASE WriteFile
  <2>1. PICK w \in writes :
          /\ file' = w.raw /\ writes' = writes \ {w}
          /\ UNCHANGED <<settingRaw, disp, reset, linkType, notice, typeEdited>>
    BY <1>4 DEF WriteFile, boardVars, historyVars, cmdVars
  <2>. QED
    BY <2>1 DEF AgreeInv, BoardsAgree
<1>. QED
  BY <1>1, <1>2, <1>3, <1>4

\* A reset takes the CPU type from a file that an MN1613 wrote, or that is not
\* valid (runIoBoardReset, setCpuType).
LEMMA AgreeReset ==
  ASSUME AgentType = MN1613, TypeInv, AgreeInv,
         StartReset \/ ReadFile \/ SaveInitial \/ UseSettings \/ ConfigureCpu
           \/ HaltCpu \/ RestartCpu
  PROVE  AgreeInv'
<1>0. /\ \/ reset = [pc |-> "idle", got |-> NotRead]
         \/ reset = [pc |-> "read", got |-> NotRead]
         \/ reset \in [pc : Waits, got : Setting]
      /\ NotRead \notin Setting
  BY DEF TypeInv, BoardType, NotRead, Setting
<1>1. CASE StartReset
  <2>1. reset'.got = NotRead /\ notice' = NoNotice
        /\ UNCHANGED <<settingVars, linkType, typeEdited>>
    BY <1>1 DEF StartReset, ResetCommandState, Idle
  <2>. QED
    BY <2>1 DEF AgreeInv, BoardsAgree, settingVars, NoNotice
<1>2. CASE ReadFile
  <2>1. /\ reset'.got = Initialised(file)
        /\ UNCHANGED <<settingVars, linkType, typeEdited, notice>>
    BY <1>2 DEF ReadFile, historyVars, cmdVars
  <2>2. ~typeEdited => Initialised(file).cpuType = MN1613
    BY InitialisedAgrees DEF AgreeInv, TypeInv, BoardType
  <2>. QED
    BY <2>1, <2>2 DEF AgreeInv, BoardsAgree, settingVars
<1>3. CASE SaveInitial
  <2>1. /\ reset \in [pc : Waits, got : Setting]
        /\ reset'.got = reset.got
        /\ file' = Torn \/ file' = reset.got
        /\ UNCHANGED <<settingRaw, disp, writes, linkType, typeEdited, notice>>
    BY <1>0, <1>3 DEF SaveInitial, historyVars, cmdVars
  <2>2. ~ValidMark(Torn)
    BY DEF ValidMark, Torn, Setting
  <2>. QED
    BY <1>0, <2>1, <2>2 DEF AgreeInv, BoardsAgree
<1>4. CASE UseSettings
  <2>1. /\ reset \in [pc : Waits, got : Setting]
        /\ reset'.got = reset.got \/ reset'.got = NotRead
        /\ settingRaw' = reset.got /\ SyncDispatcher(reset.got)
        /\ UNCHANGED <<file, writes, linkType, typeEdited, notice>>
    BY <1>0, <1>4 DEF UseSettings, Idle, historyVars, cmdVars
  <2>. QED
    BY <1>0, <2>1 DEF AgreeInv, BoardsAgree, SyncDispatcher
<1>5. CASE ConfigureCpu \/ HaltCpu \/ RestartCpu
  <2>1. /\ reset \in [pc : Waits, got : Setting]
        /\ reset'.got = reset.got \/ reset'.got = NotRead
        /\ linkType' = linkType \/ linkType' = reset.got.cpuType
        /\ UNCHANGED <<settingVars, typeEdited, notice>>
    BY <1>0, <1>5 DEF ConfigureCpu, HaltCpu, RestartCpu, Idle, historyVars, cmdVars, boardVars
  <2>. QED
    BY <1>0, <2>1 DEF AgreeInv, BoardsAgree, settingVars
<1>. QED
  BY <1>1, <1>2, <1>3, <1>4, <1>5

\* On an MN1613 board the workers agree on the CPU type as long as nobody edits
\* it or breaks the mark: every way to the file and back keeps it, that of a
\* truncated file included, whose defaults are those of an MN1613.
THEOREM TypesAgree == ASSUME MN1613Board PROVE Spec => []BoardsAgree
<1>0. AgentType = MN1613
  BY DEF MN1613Board
<1>1. Init => AgreeInv
  BY IoBoardAssumption DEF MN1613Board, Init, AgreeInv, BoardsAgree, Idle, NoNotice
<1>2. TypeInv /\ AgreeInv /\ [Next]_vars => AgreeInv'
  <2>. SUFFICES ASSUME TypeInv, AgreeInv, [Next]_vars
                PROVE  AgreeInv'
    OBVIOUS
  <2>1. CASE UNCHANGED <<settingVars, reset, linkType, notice, typeEdited>>
    BY <2>1 DEF AgreeInv, BoardsAgree, settingVars
  <2>2. CASE ServeFrame
    BY <1>0, <2>2, AgreeServed
  <2>3. CASE EditSetting \/ EditClockDone \/ OpenFile \/ WriteFile
    BY <1>0, <2>3, AgreeEdited
  <2>4. CASE StartReset \/ ReadFile \/ SaveInitial \/ UseSettings \/ ConfigureCpu
               \/ HaltCpu \/ RestartCpu
    BY <1>0, <2>4, AgreeReset
  <2>. QED
    BY <2>1, <2>2, <2>3, <2>4
       DEF Next, SendFrame, PressKey, ReleaseKey, Expire,
           vars, cmdVars, boardVars, historyVars
<1>3. AgreeInv => BoardsAgree
  BY DEF AgreeInv, BoardsAgree
<1>. QED
  BY <1>1, <1>2, <1>3, TypeInvariant, PTL DEF Spec
=============================================================================
