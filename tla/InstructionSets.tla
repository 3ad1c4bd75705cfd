-------------------------- MODULE InstructionSets --------------------------
(***************************************************************************)
(* A source line for one of the two CPUs: the assembler, the debugger and  *)
(* the CPU boards exist for both, and for each there is a port to Rust.    *)
(***************************************************************************)
EXTENDS Naturals

CONSTANTS MnSources, MnWords,                       \* see Mn1613Codec
          TmsSources, TmsOnOriginal, TmsOnPort      \* see Tms9995Codec

VARIABLES cpu,                                \* .mn1613 or .tms9995
          insn, words, listed, performed,     \* of Mn1613Codec
          tmsInsn, code, done, rsDone         \* of Tms9995Codec

mnVars == <<insn, words, listed, performed>>
tmsVars == <<tmsInsn, code, done, rsDone>>
vars == <<cpu, mnVars, tmsVars>>

Mn == INSTANCE Mn1613Port WITH Sources <- MnSources, RawWords <- MnWords
Tms == INSTANCE Tms9995Codec WITH
         Sources <- TmsSources, OnOriginal <- TmsOnOriginal,
         OnPort <- TmsOnPort, insn <- tmsInsn

\* assembleFile() and the boards look at the CPU type once, at the start.
Init ==
  \/ /\ cpu = "MN1613" /\ Mn!Init
     /\ tmsInsn = Mn!NoInsn /\ code = <<>> /\ done = Tms!Idle /\ rsDone = Tms!Idle
  \/ /\ cpu = "TMS9995" /\ Tms!Init
     /\ insn = Mn!NoInsn /\ words = <<>> /\ listed = <<>> /\ performed = <<>>

Next ==
  \/ cpu = "MN1613" /\ Mn!Next /\ UNCHANGED <<cpu, tmsVars>>
  \/ cpu = "TMS9995" /\ Tms!Next /\ UNCHANGED <<cpu, mnVars>>

Spec == Init /\ [][Next]_vars

\* The disassembler gives back the line that was assembled: mnemonic,
\* registers, mode, skip condition and size (decode.ts against
\* mn1613_encoder.ts).
ListingRoundTrip == Mn!ListingRoundTrip

\* The CPU carries out the line that was assembled, with its operands, and
\* takes every word behind the instruction for what the assembler meant it for
\* (mn1613.ts against mn1613_encoder.ts; execute.ts against
\* tms9995_encode.ts, for the part of the set it gets right).
ExecutesAsAssembled ==
  /\ Mn!ExecutesAsAssembled
  /\ cpu = "TMS9995" => Tms!RunsAsAssembled

\* All readers of a word agree on how many words it stands for: the listing of
\* a program that runs straight on never falls out of step with the CPU, and a
\* skip never lands on the second word of an instruction (decode.ts, _skipNext
\* and _is2Word against what _executeOne fetches, for any word).
LengthsAgree == Mn!ListingInStep /\ Mn!SkipNeverSplits

\* The ports to Rust emit the same words, carry them out alike and skip alike
\* (the TMS9995 CPUs disagree on too much for that: its port is held against
\* the assembler, for the part of the set it gets right).
PortsAgree ==
  /\ Mn!PortAssemblesAlike /\ Mn!PortExecutesAlike
  /\ cpu = "TMS9995" => Tms!PortAssemblesAlike /\ Tms!PortRunsAsAssembled
=============================================================================
