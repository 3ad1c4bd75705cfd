------------------------------ MODULE MCIoBoard -----------------------------
(* An MN1613 board whose file is missing, broken, waits for a change of its  *)
(* CPU type to take effect, or is in order.                                  *)
EXTENDS IoBoard

MCAsked ==
  {r \in Requests :
     /\ r.cmd = "TIMER_SET" =>
          IF r.timerNo = 0 THEN r.period = 1 \/ r.count = 0
          ELSE r.period = 1 /\ r.count = 0
     /\ r.cmd = "BREAK_NOTIFY" => r.slot = 3 \/ r.history = 1
     /\ r.cmd = "LCD_CTRL" => r.kind = 3 /\ r.row = 1
     /\ r.cmd = "LCD_TEXT" =>
          r.row = 1 /\ r.col + 1 >= Cols /\ r.len # Cols /\ r.printable
     /\ r.cmd = "BEEP" => r.sounds}
MCStored == {NoFile, DefaultsFor(MN1613), [DefaultsFor(MN1613) EXCEPT !.mark = FALSE],
             [DefaultsFor(MN1613) EXCEPT !.cpuTypeReset = 1, !.clockDiv = 1]}
MCEdited == {[at |-> "clockDiv", value |-> 1], [at |-> "cpuTypeReset", value |-> 1],
             [at |-> "addrStep", value |-> 2], [at |-> "mark", value |-> FALSE],
             [at |-> "cpuType", value |-> TMS9995]}
=============================================================================
