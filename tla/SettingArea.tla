----------------------------- MODULE SettingArea ----------------------------
(***************************************************************************)
(* The setting area of the IO board: 256 bytes kept in a file.  A byte is  *)
(* a field here; the fields no handler of the worker distinguishes (reset  *)
(* vector, digits, port, step delay) are left out, and the mark of two      *)
(* bytes is either right or not.                                           *)
(***************************************************************************)
EXTENDS Naturals

CONSTANTS
  Divs        \* clock divisions the operator enters

ASSUME SettingAssumption == Divs \subseteq 0..3 /\ 0 \in Divs

MN1613 == 1
TMS9995 == 2
CpuTypes == {MN1613, TMS9995}

\* CPU_TYPE_RESET keeps one bit, ADDR_STEP is 1 unless it holds 2.
Setting == [mark : BOOLEAN, clockDiv : Divs, cpuType : CpuTypes,
            cpuTypeReset : 0..1, addrStep : 1..2]

\* What the file can hold: nothing yet, a truncated file, or settings.
NoFile == [none |-> "missing"]
Torn == [none |-> "truncated"]
Files == Setting \union {NoFile, Torn}

\* The bytes an edit can address and what it can put there.
Edits == [at : {"mark"}, value : BOOLEAN]
         \union [at : {"clockDiv"}, value : Divs]
         \union [at : {"cpuType"}, value : CpuTypes]
         \union [at : {"cpuTypeReset"}, value : 0..1]
         \union [at : {"addrStep"}, value : 1..2]

\* defaultSettingsForCpu(), as encodeSettingArea() writes it.
DefaultsFor(cpu) ==
  [mark |-> TRUE, clockDiv |-> 0, cpuType |-> cpu, cpuTypeReset |-> 0,
   addrStep |-> IF cpu = MN1613 THEN 1 ELSE 2]

\* A CPU type that was changed takes its defaults; the division stays.
Rewritten(s) == [DefaultsFor(s.cpuType) EXCEPT !.clockDiv = s.clockDiv]

\* Mutant: the bytes are one address off.
WrittenOff(s, e) ==
  IF e.at = "clockDiv" THEN [s EXCEPT !.cpuType = 1 + (e.value % 2)]
  ELSE [s EXCEPT ![e.at] = e.value]

\* writeSettingAreaByte()
Written(s, e) ==
  LET next == [s EXCEPT ![e.at] = e.value]
  IN IF e.at = "cpuTypeReset" /\ e.value = 1 THEN Rewritten(next) ELSE next

\* initializeSettingArea(): what it makes of the file ...
ValidMark(f) == f \in Setting /\ f.mark
Initialised(f) ==
  IF ~ValidMark(f) THEN DefaultsFor(MN1613)
  ELSE IF f.cpuTypeReset = 1 THEN Rewritten(f) ELSE f

\* ... and whether it saves that before it returns.
SavesInitial(f) == ~ValidMark(f) \/ f.cpuTypeReset = 1
=============================================================================
