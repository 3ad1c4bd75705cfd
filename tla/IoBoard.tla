------------------------------- MODULE IoBoard ------------------------------
(***************************************************************************)
(* The IO worker apart from the panel's keys: it answers the commands of   *)
(* the CPU board, keeps the setting area and its file, runs the interval   *)
(* timer and resets the boards.                                            *)
(*                                                                         *)
(* The worker has one thread.  A command is handled in one step; a reset   *)
(* and an edit of the setting area wait for the file and for the link, and *)
(* other steps come in between.  The CPU runs until the reset halts it.    *)
(***************************************************************************)
EXTENDS IoCommands

CONSTANTS
  Asked,          \* what the program asks for
  StoredSettings, \* what the file may hold at the start
  EditedBytes,    \* the edits the operator makes
  MaxCommands,    \* bound: frames of the CPU board
  MaxEdits,       \* bound: edits of the setting area
  MaxResets,      \* bound: resets asked for, the one at power-on included
  MaxKeys,        \* bound: presses of keys of the matrix
  MaxExpiries     \* bound: expiries of the timer

ASSUME IoBoardAssumption ==
  /\ Asked \subseteq Requests
  /\ StoredSettings \subseteq Files /\ EditedBytes \subseteq Edits
  /\ {MaxCommands, MaxEdits, MaxResets, MaxKeys, MaxExpiries} \subseteq Nat

VARIABLES
  file,       \* the file of the setting area
  writes,     \* edits that are not in the file yet
  reset,      \* runIoBoardReset(): what it waits for, and what it has read
  cpuRuns,    \* the CPU runs its program or the monitor
  linkType,   \* _linkCpuType of the CPU worker
  clockDiv,   \* _clockDiv of the CPU worker
  typeEdited, \* history: the CPU type was edited, or the mark broken
  raced,      \* history: an edit met another edit, or a reset
  counts      \* commands, edits, resets, keys and expiries so far

settingVars == <<file, writes, settingRaw, disp>>
boardVars == <<reset, cpuRuns, linkType, clockDiv>>
historyVars == <<typeEdited, raced>>
vars == <<cmdVars, settingVars, boardVars, line, reply, down, historyVars, counts>>

Idle == [pc |-> "idle", got |-> NotRead]
Counted(what, max) == counts[what] < max /\ counts' = [counts EXCEPT ![what] = @ + 1]

\* syncHistoryEntrySizeFromSettings()
SyncDispatcher(s) == disp' = [cpuType |-> s.cpuType, entrySize |-> EntrySize(s.cpuType)]

-----------------------------------------------------------------------------
(* Commands of the CPU board.                                              *)

\* handleOneRequest() and forward(): the frame is complete, or it ends where
\* a reset stopped the CPU.
SendFrame ==
  /\ line = NoFrame
  /\ \E req \in Asked :
       LET full == FullSize(req, AgentType)
       IN \E n \in {full} \union (IF cpuRuns THEN {} ELSE {1, FrameSize(req.cmd, AgentType)}) :
            line' = [req |-> req, bytes |-> n]
  /\ cpuRuns \/ (reset.pc = "rst" /\ counts["resets"] > 1)
  /\ reply' = NoReply
  /\ Counted("commands", MaxCommands)
  /\ UNCHANGED <<cmdVars, settingVars, boardVars, down, historyVars>>

\* The frame handler of the worker.
ServeFrame ==
  /\ line # NoFrame
  /\ Dispatch(line)
  /\ line' = NoFrame
  /\ UNCHANGED <<settingVars, boardVars, down, historyVars, counts>>

-----------------------------------------------------------------------------
(* Keys and the timer.                                                     *)

\* Mutant: only a program that reads the keys gets their releases.
ReleaseKeyInMode ==
  \E k \in down :
    /\ down' = down \ {k} /\ dropped' = dropped \ {k}
    /\ keys' = IF mode = "free" THEN keys \ {k} ELSE keys
    /\ UNCHANGED <<mode, panelVars, beep, lcd, notice, timerVars, settingVars,
                   boardVars, line, reply, historyVars, counts>>

\* key:hex:hold and key:fn:hold; setPanelKeyHeld().
PressKey ==
  \E k \in Keys \ down :
    /\ down' = down \union {k} /\ keys' = keys \union {k}
    /\ Counted("keys", MaxKeys)
    /\ UNCHANGED <<mode, dropped, panelVars, beep, lcd, notice, timerVars,
                   settingVars, boardVars, line, reply, historyVars>>

ReleaseKey ==
  \E k \in down :
    /\ down' = down \ {k} /\ dropped' = dropped \ {k} /\ keys' = keys \ {k}
    /\ UNCHANGED <<mode, panelVars, beep, lcd, notice, timerVars, settingVars,
                   boardVars, line, reply, historyVars, counts>>

\* Mutant: the timer ends one expiry late.
ExpireLate ==
  /\ timer.on
  /\ timer' = IF timer.count = 0 THEN timer
              ELSE IF timer.remaining = 0 THEN Off
              ELSE [timer EXCEPT !.remaining = @ - 1]
  /\ asked' = [asked EXCEPT !.expired = @ + 1]
  /\ Counted("expiries", MaxExpiries)
  /\ UNCHANGED <<mode, keyVars, panelVars, beep, lcd, notice, settingVars,
                 boardVars, line, reply, down, historyVars>>

\* IoTimer.expire(); the interrupt it asks for is the subject of CpuControl.
Expire ==
  /\ timer.on
  /\ timer' = IF timer.count = 0 THEN timer
              ELSE IF timer.remaining - 1 <= 0 THEN Off
              ELSE [timer EXCEPT !.remaining = @ - 1]
  /\ asked' = [asked EXCEPT !.expired = @ + 1]
  /\ Counted("expiries", MaxExpiries)
  /\ UNCHANGED <<mode, keyVars, panelVars, beep, lcd, notice, settingVars,
                 boardVars, line, reply, down, historyVars>>

-----------------------------------------------------------------------------
(* The setting area.                                                       *)

\* Mutant: what goes to the file was taken before the edit.
EditSettingStale ==
  /\ settingRaw # NotRead
  /\ \E e \in EditedBytes :
       LET raw == Written(settingRaw, e)
       IN /\ settingRaw' = raw
          /\ IF e.at \in {"cpuType", "cpuTypeReset", "mark"}
             THEN SyncDispatcher(raw) ELSE UNCHANGED disp
          /\ writes' = writes \union
               {[id |-> counts["edits"],
                 pc |-> IF e.at \in {"clockDiv", "cpuTypeReset"} THEN "div" ELSE "open",
                 raw |-> settingRaw]}
          /\ typeEdited' = (typeEdited \/ e.at \in {"cpuType", "mark"})
          /\ raced' = (raced \/ writes # {} \/ reset.pc # "idle")
  /\ Counted("edits", MaxEdits)
  /\ UNCHANGED <<cmdVars, file, boardVars, line, reply, down>>

\* writeSettingByte() up to its first wait: WINC in setting mode.
EditSetting ==
  /\ settingRaw # NotRead
  /\ \E e \in EditedBytes :
       LET raw == Written(settingRaw, e)
       IN /\ settingRaw' = raw
          /\ IF e.at \in {"cpuType", "cpuTypeReset", "mark"}
             THEN SyncDispatcher(raw) ELSE UNCHANGED disp
          /\ writes' = writes \union
               {[id |-> counts["edits"],
                 pc |-> IF e.at \in {"clockDiv", "cpuTypeReset"} THEN "div" ELSE "open",
                 raw |-> raw]}
          /\ typeEdited' = (typeEdited \/ e.at \in {"cpuType", "mark"})
          /\ raced' = (raced \/ writes # {} \/ reset.pc # "idle")
  /\ Counted("edits", MaxEdits)
  /\ UNCHANGED <<cmdVars, file, boardVars, line, reply, down>>

\* link.setClockDiv() is answered; settingRaw is read again for the file.
EditClockDone ==
  \E w \in writes :
    /\ w.pc = "div"
    /\ clockDiv' = w.raw.clockDiv
    /\ writes' = (writes \ {w}) \union {[w EXCEPT !.pc = "open", !.raw = settingRaw]}
    /\ UNCHANGED <<cmdVars, file, settingRaw, disp, reset, cpuRuns, linkType, line,
                   reply, down, historyVars, counts>>

\* fs.writeFile(): the file is truncated when it is opened, then written.
OpenFile ==
  \E w \in writes :
    /\ w.pc = "open"
    /\ file' = Torn
    /\ writes' = (writes \ {w}) \union {[w EXCEPT !.pc = "write"]}
    /\ UNCHANGED <<cmdVars, settingRaw, disp, boardVars, line, reply, down,
                   historyVars, counts>>

WriteFile ==
  \E w \in writes :
    /\ w.pc = "write"
    /\ file' = w.raw
    /\ writes' = writes \ {w}
    /\ UNCHANGED <<cmdVars, settingRaw, disp, boardVars, line, reply, down,
                   historyVars, counts>>

-----------------------------------------------------------------------------
(* The reset of the boards: runIoBoardReset().                             *)

\* Up to the first wait.  A reset that is under way lets no other begin.
StartReset ==
  /\ reset.pc = "idle" /\ settingRaw # NotRead
  /\ reset' = [Idle EXCEPT !.pc = "read"]
  /\ ResetCommandState
  /\ raced' = (raced \/ writes # {})
  /\ Counted("resets", MaxResets)
  /\ UNCHANGED <<settingVars, cpuRuns, linkType, clockDiv, line, reply, down,
                 typeEdited>>

\* reloadSettingArea(): what is read may have to be saved before it is used.
ReadFile ==
  /\ reset.pc = "read"
  /\ reset' = [pc |-> IF SavesInitial(file) THEN "open" ELSE "use",
               got |-> Initialised(file)]
  /\ UNCHANGED <<cmdVars, settingVars, cpuRuns, linkType, clockDiv, line, reply,
                 down, historyVars, counts>>

SaveInitial ==
  /\ reset.pc \in {"open", "write"}
  /\ IF reset.pc = "open" THEN file' = Torn /\ reset' = [reset EXCEPT !.pc = "write"]
     ELSE file' = reset.got /\ reset' = [reset EXCEPT !.pc = "use"]
  /\ UNCHANGED <<cmdVars, writes, settingRaw, disp, cpuRuns, linkType, clockDiv,
                 line, reply, down, historyVars, counts>>

\* The settings are there; with no monitor to load the reset ends here.
UseSettings ==
  /\ reset.pc = "use"
  /\ settingRaw' = reset.got /\ SyncDispatcher(reset.got)
  /\ \/ reset' = [reset EXCEPT !.pc = "type"]
     \/ reset' = Idle
  /\ UNCHANGED <<cmdVars, file, writes, cpuRuns, linkType, clockDiv, line, reply,
                 down, historyVars, counts>>

\* setCpuType(), setStepDelay() and setClockDiv(), then performIoBoardReset().
ConfigureCpu ==
  /\ \/ /\ reset.pc = "type" /\ linkType' = reset.got.cpuType
        /\ reset' = [reset EXCEPT !.pc = "div"] /\ UNCHANGED clockDiv
     \/ /\ reset.pc = "div" /\ clockDiv' = reset.got.clockDiv
        /\ reset' = [reset EXCEPT !.pc = "halt"] /\ UNCHANGED linkType
  /\ UNCHANGED <<cmdVars, settingVars, cpuRuns, line, reply, down, historyVars, counts>>

\* The monitor is read from its file before the halt; without it the reset
\* ends here and the CPU runs on.
HaltCpu ==
  /\ reset.pc = "halt"
  /\ \/ cpuRuns' = FALSE /\ reset' = [reset EXCEPT !.pc = "rst"]
     \/ UNCHANGED cpuRuns /\ reset' = Idle
  /\ UNCHANGED <<cmdVars, settingVars, linkType, clockDiv, line, reply, down,
                 historyVars, counts>>

\* The monitor is loaded and starts; notifyCpuReset() puts the lamp out.
RestartCpu ==
  /\ reset.pc = "rst" /\ cpuRuns' = TRUE
  /\ reset' = Idle
  /\ undefLed' = FALSE /\ led' = "panel"
  /\ UNCHANGED <<mode, keyVars, undef, beep, lcd, notice, timerVars, settingVars,
                 linkType, clockDiv, line, reply, down, historyVars, counts>>

-----------------------------------------------------------------------------
(* The worker.  It starts with the power-on reset, which has not read the  *)
(* file yet; the CPU waits in enterResetWait().                            *)

Init ==
  /\ mode = "monitor" /\ keys = {} /\ dropped = {} /\ led = "panel" /\ beep = FALSE
  /\ undef = FALSE /\ undefLed = FALSE /\ lcd = LcdReset /\ notice = NoNotice
  /\ timer = Off /\ asked = NotAsked
  /\ disp = [cpuType |-> MN1613, entrySize |-> EntrySize(MN1613)]
  /\ settingRaw = NotRead /\ file \in StoredSettings /\ writes = {}
  /\ reset = [Idle EXCEPT !.pc = "read"]
  /\ cpuRuns = FALSE /\ linkType = AgentType /\ clockDiv = 0
  /\ line = NoFrame /\ reply = NoReply /\ down = {}
  /\ typeEdited = FALSE /\ raced = FALSE
  /\ counts = [c \in {"commands", "edits", "resets", "keys", "expiries"} |->
                 IF c = "resets" THEN 1 ELSE 0]

Next ==
  \/ SendFrame \/ ServeFrame
  \/ PressKey \/ ReleaseKey \/ Expire
  \/ EditSetting \/ EditClockDone \/ OpenFile \/ WriteFile
  \/ StartReset \/ ReadFile \/ SaveInitial \/ UseSettings \/ ConfigureCpu
  \/ HaltCpu \/ RestartCpu

Spec == Init /\ [][Next]_vars

-----------------------------------------------------------------------------
(* Properties.                                                             *)

\* The devices of the board keep their ranges: the LCD's cursor stays on the
\* panel, the timer has expiries left as long as it runs, and everything has
\* its type (lcd_console.ts, io_timer.ts, setting_area.ts).
TypeOK ==
  /\ mode \in {"monitor", "free"} /\ keys \subseteq Keys
  /\ led \in {"dark", "panel", "program"} /\ {beep, undef, undefLed} \subseteq BOOLEAN
  /\ lcd.row \in 0..1 /\ lcd.col \in 0..Cols - 1
  /\ lcd.ddram \in [LcdCells -> {" ", "x"}]
  /\ timer \in [on : BOOLEAN, count : Counts \union {0}, remaining : Nat]
  /\ timer.on => timer.remaining \in (IF timer.count = 0 THEN {0} ELSE 1..timer.count)
  /\ disp \in [cpuType : CpuTypes, entrySize : {66, 78}]
  /\ settingRaw \in Setting \union {NotRead} /\ file \in Files
  /\ reset.pc \in {"idle", "read", "open", "write", "use", "type", "div", "halt", "rst"}

\* The matrix that 14h reports holds exactly the keys the operator holds
\* down, but for those that were down when the program left the free mode or
\* the boards were reset (setPanelKeyHeld against onModeSet and
\* resetIoBoardCommandState).
MatrixIsKeys == keys = down \ dropped

\* A timer expires as often as the last accepted 12h said, and not at all
\* after a stop or a reset that no 12h followed: IoTimer against 12h, F7 and
\* its own last expiry.
TimerAsAsked ==
  /\ ~asked.on => ~timer.on /\ asked.expired = 0
  /\ asked.on /\ asked.count > 0 =>
       /\ asked.expired <= asked.count
       /\ timer.on <=> asked.expired < asked.count
  /\ asked.on /\ asked.count = 0 => timer.on

\* As long as nobody edits the CPU type or breaks the mark, the two workers
\* agree on it: the dispatcher, the link and the settings speak of the CPU the
\* CPU worker runs, so every notification of it is read in its own layout,
\* also when resets meet edits and the file of an MN1613 board is read while it
\* is written (syncHistoryEntrySizeFromSettings, reloadSettingArea, setCpuType).
BoardsAgree ==
  ~typeEdited =>
    /\ linkType = AgentType
    /\ disp = [cpuType |-> AgentType, entrySize |-> EntrySize(AgentType)]
    /\ settingRaw # NotRead => settingRaw.cpuType = AgentType
    /\ notice.kind \in {"step", "undef"} => notice.layout = AgentType

\* Edits that keep out of each other's and of a reset's way are kept: when
\* nothing is under way the file holds what the worker works with, also after
\* a file that was missing, broken or waited for a change of the CPU type
\* (writeSettingByte, reloadSettingArea, initializeSettingArea).
SettingsKept ==
  ~raced /\ writes = {} /\ reset.pc = "idle" /\ settingRaw # NotRead =>
    file = settingRaw

=============================================================================
