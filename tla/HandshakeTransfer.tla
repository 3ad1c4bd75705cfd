------------------------- MODULE HandshakeTransfer --------------------------
(***************************************************************************)
(* The 2-byte DENA/DACK transfer between the IO board                      *)
(* (shared/handshake/handshake_ioboard.ts, class IoControlHandshake) and   *)
(* the MN1613 boot monitor (handshake/handshake_common.asm).               *)
(*                                                                         *)
(* A transaction is a script of legs.  One started by IO (13h, 14h, ...)   *)
(* keeps HSHK_IN_REQ up over all its legs and turns the direction round    *)
(* inside the transaction; one started by a BIOS call sends its request    *)
(* under HSHK_OUT_REQ and gets the response under HSHK_IN_REQ.             *)
(*                                                                         *)
(* IO transfers units of two bytes; the monitor transfers single bytes and *)
(* remembers in GL_HSHK_PAIR which half of a unit is open, so that an odd  *)
(* leg is closed ("flushed") by whatever the monitor does next.  The IO    *)
(* board polls the CPU between instructions, so every step below is one    *)
(* stretch of JavaScript between two awaits, or a few instructions with at *)
(* most one port access the other side can see.                            *)
(***************************************************************************)
EXTENDS Naturals, Sequences

CONSTANT Scripts

Leg == [to : {"CPU", "IO"}, len : Nat \ {0}]

\* IO starts by sending; a BIOS call is one request and one response.
ASSUME ScriptsAssumption ==
  \A s \in Scripts :
    /\ s \in [by : {"IO", "CPU"}, legs : Seq(Leg)]
    /\ s.legs # <<>>
    /\ \A l \in 1..Len(s.legs) - 1 : s.legs[l].to # s.legs[l + 1].to
    /\ s.by = "IO" => s.legs[1].to = "CPU"
    /\ s.by = "CPU" => Len(s.legs) = 2 /\ s.legs[1].to = "IO"

VARIABLES
  inReq, inDena, inData, outDack,     \* lines the IO board drives
  outReq, outDena, outData, inDack,   \* lines the CPU drives
  irq,                                \* IRQ2 pending in the CPU
  ioScript, ioPc, ioLeg, ioPos,       \* IoControlHandshake: its own calls,
  ioFirst,                            \* and the byte it has latched
  cpuPc, cpuLeg, cpuPos, pair,        \* the monitor; pair is GL_HSHK_PAIR
  script, got                         \* history: the transaction, what arrived

ioLines  == <<inReq, inDena, inData, outDack>>
cpuLines == <<outReq, outDena, outData, inDack>>
ioVars   == <<ioScript, ioPc, ioLeg, ioPos, ioFirst>>
cpuVars  == <<cpuPc, cpuLeg, cpuPos, pair>>
vars == <<ioLines, cpuLines, irq, ioVars, cpuVars, script, got>>

Channel == INSTANCE HandshakeChannel WITH Scripts <- Scripts,
                                         script <- script, got <- got

Pad == Channel!Byte(0, 0)
Legs == script.legs
IoLegs == ioScript.legs
ByteOf(legs, l, i) == IF i \in 1..legs[l].len THEN Channel!Byte(l, i) ELSE Pad

Init ==
  /\ inReq = 0 /\ inDena = 0 /\ inData = Pad /\ outDack = 0
  /\ outReq = 0 /\ outDena = 0 /\ outData = Pad /\ inDack = 0
  /\ irq = FALSE
  /\ ioScript = Channel!NoScript
  /\ ioPc = "idle" /\ ioLeg = 0 /\ ioPos = 0 /\ ioFirst = Pad
  /\ cpuPc = "idle" /\ cpuLeg = 0 /\ cpuPos = 0 /\ pair = {}
  /\ script = Channel!NoScript /\ got = Channel!NothingYet(Channel!NoScript)

-----------------------------------------------------------------------------
(* The IO board.                                                           *)

IoStep(from, to) == ioPc = from /\ ioPc' = to

\* Where IO goes when leg l is the next one.
IoPcFor(s, l) == IF l > Len(s.legs) THEN "fin"
                 ELSE IF s.legs[l].to = "CPU" THEN "tx" ELSE "rx"

\* IO has moved n bytes of its leg: go on with it, or with the next leg.  The
\* request of a BIOS call is followed by finalizeReceive.
IoAdvance(n) ==
  IF ioPos + n < IoLegs[ioLeg].len
  THEN /\ ioPos' = ioPos + n
       /\ ioPc' = IoPcFor(ioScript, ioLeg)
       /\ ioLeg' = ioLeg
  ELSE /\ ioPos' = 0
       /\ ioLeg' = ioLeg + 1
       /\ ioPc' = IF ioScript.by = "CPU" /\ ioLeg = 1 THEN "finRecv"
                  ELSE IoPcFor(ioScript, ioLeg + 1)

\* initiateSend() of a transaction IO starts.  INTERRUPT_BUSY is up while the
\* monitor's INT2 handler runs, and a BIOS call shows as HSHK_OUT_REQ.
IoInitiateSend(s) ==
  /\ s.by = "IO"
  /\ IoStep("idle", IoPcFor(s, 1))
  /\ cpuPc = "idle" /\ outReq = 0 /\ inReq = 0
  /\ inDena' = 0 /\ inReq' = 1 /\ irq' = TRUE
  /\ ioScript' = s /\ ioLeg' = 1 /\ ioPos' = 0
  /\ script' = s /\ got' = Channel!NothingYet(s)
  /\ UNCHANGED <<inData, outDack, cpuLines, ioFirst, cpuVars>>

\* transferUnitToCpu(): first byte, DENA up.
IoSendFirst ==
  /\ IoStep("tx", "txAck1")
  /\ inData' = ByteOf(IoLegs, ioLeg, ioPos + 1)
  /\ inDena' = 1
  /\ UNCHANGED <<inReq, outDack, cpuLines, irq, ioScript, ioLeg, ioPos,
                 ioFirst, cpuVars, script, got>>

\* DACK came up: second byte (0 when the leg is odd), DENA down.
IoSendSecond ==
  /\ IoStep("txAck1", "txAck0")
  /\ inDack = 1
  /\ inData' = ByteOf(IoLegs, ioLeg, ioPos + 2)
  /\ inDena' = 0
  /\ UNCHANGED <<inReq, outDack, cpuLines, irq, ioScript, ioLeg, ioPos,
                 ioFirst, cpuVars, script, got>>

\* DACK came down: the unit is over.
IoUnitSent ==
  /\ ioPc = "txAck0"
  /\ inDack = 0
  /\ IoAdvance(2)
  /\ UNCHANGED <<ioLines, cpuLines, irq, ioScript, ioFirst, cpuVars, script,
                 got>>

\* waitForCpuRequest(): a BIOS call raised HSHK_OUT_REQ.
IoWaitForCpuRequest ==
  /\ IoStep("idle", "rx")
  /\ outReq = 1
  /\ outDack' = 0
  /\ ioScript' = script /\ ioLeg' = 1 /\ ioPos' = 0
  /\ UNCHANGED <<inReq, inDena, inData, cpuLines, irq, ioFirst, cpuVars,
                 script, got>>

\* receiveUnitFromCpu(): DENA is up, latch the first byte, DACK up.
IoReceiveFirst ==
  /\ IoStep("rx", "rxEnd")
  /\ outDena = 1
  /\ ioFirst' = outData
  /\ outDack' = 1
  /\ UNCHANGED <<inReq, inDena, inData, cpuLines, irq, ioScript, ioLeg, ioPos,
                 cpuVars, script, got>>

\* DENA is down: take the second byte if the leg still wants one, DACK down.
IoReceiveSecond ==
  /\ ioPc = "rxEnd"
  /\ outDena = 0
  /\ outDack' = 0
  /\ got' = [got EXCEPT ![ioLeg] =
               IF ioPos + 1 < IoLegs[ioLeg].len
               THEN Append(Append(@, ioFirst), outData)
               ELSE Append(@, ioFirst)]
  /\ IoAdvance(2)
  /\ UNCHANGED <<inReq, inDena, inData, cpuLines, irq, ioScript, ioFirst,
                 cpuVars, script>>

\* finalizeReceive(), the forward to the IO worker, and initiateSend() of the
\* response, which raises HSHK_IN_REQ without IRQ2.
IoInitiateResponse ==
  /\ IoStep("finRecv", "tx")
  /\ outReq = 0 /\ inReq = 0
  /\ inDena' = 0 /\ inReq' = 1
  /\ UNCHANGED <<inData, outDack, cpuLines, irq, ioScript, ioLeg, ioPos,
                 ioFirst, cpuVars, script, got>>

\* finalizeSend(): HSHK_IN_REQ down once DACK is down.
IoFinalizeSend ==
  /\ IoStep("fin", "idle")
  /\ inDack = 0
  /\ inReq' = 0
  /\ UNCHANGED <<inDena, inData, outDack, cpuLines, irq, ioScript, ioLeg, ioPos,
                 ioFirst, cpuVars, script, got>>

IoNext == \/ IoSendFirst \/ IoSendSecond \/ IoUnitSent
          \/ IoWaitForCpuRequest \/ IoReceiveFirst \/ IoReceiveSecond
          \/ IoInitiateResponse \/ IoFinalizeSend

-----------------------------------------------------------------------------
(* The monitor.  INT2 handler and BIOS call use the same byte routines.    *)

CpuStep(from, to) == cpuPc = from /\ cpuPc' = to

InUnit(half) == half \in pair

\* Toggle one half of GL_HSHK_PAIR: the other half keeps its value.
Toggled(half) == IF half \in pair THEN pair \ {half} ELSE pair \union {half}

\* The monitor's next byte goes this way; "end" when the script is finished.
CpuTo == IF cpuLeg \in DOMAIN Legs THEN Legs[cpuLeg].to ELSE "end"

\* A BIOS call has sent its request: finalize_send comes before the response.
RequestSent == script.by = "CPU" /\ cpuLeg = 2 /\ outReq = 1

\* One byte moved, leaving the pair phase p.  finalize_recv does nothing when
\* the last byte also closed its unit (no phase open, DENA already low).
CpuAdvance(p) ==
  LET legDone == cpuPos + 1 = Legs[cpuLeg].len IN
  /\ pair' = p
  /\ cpuLeg' = IF legDone THEN cpuLeg + 1 ELSE cpuLeg
  /\ cpuPos' = IF legDone THEN 0 ELSE cpuPos + 1
  /\ cpuPc' = IF legDone /\ cpuLeg = Len(Legs) /\ p = {} THEN "idle" ELSE "op"

\* INT2 with cause HANDSHAKE: g_handshake_interrupt_handler, accept_request.
CpuAcceptIrq ==
  /\ irq
  /\ CpuStep("idle", "op")
  /\ irq' = FALSE
  /\ cpuLeg' = 1 /\ cpuPos' = 0 /\ pair' = {}
  /\ inDack' = 0
  /\ UNCHANGED <<ioLines, outReq, outDena, outData, ioVars, script, got>>

\* g_hshk_initiate_send of a BIOS call; a pending IRQ2 is taken before it.
CpuInitiateSend(s) ==
  /\ s.by = "CPU"
  /\ ~irq
  /\ CpuStep("idle", "op")
  /\ outDena = 0
  /\ outReq' = 1
  /\ cpuLeg' = 1 /\ cpuPos' = 0 /\ pair' = {}
  /\ script' = s /\ got' = Channel!NothingYet(s)
  /\ UNCHANGED <<ioLines, outDena, outData, inDack, irq, ioVars>>

\* Mutant: send_byte without its flush_recv.
CpuSendDataNoFlush ==
  /\ CpuStep("op", "sDena")
  /\ CpuTo = "IO"
  /\ outData' = ByteOf(Legs, cpuLeg, cpuPos + 1)
  /\ UNCHANGED <<ioLines, outReq, outDena, inDack, irq, ioVars, cpuLeg, cpuPos,
                 pair, script, got>>

\* g_hshk_send_byte: the data port first; a half-received unit is flushed before.
CpuSendData ==
  /\ CpuStep("op", "sDena")
  /\ CpuTo = "IO" /\ ~InUnit("RECV")
  /\ outData' = ByteOf(Legs, cpuLeg, cpuPos + 1)
  /\ UNCHANGED <<ioLines, outReq, outDena, inDack, irq, ioVars, cpuLeg, cpuPos,
                 pair, script, got>>

\* DENA up for the first byte of a unit, down for the second.
CpuSendDena ==
  /\ CpuStep("sDena", "sAck")
  /\ outDena' = IF InUnit("SEND") THEN 0 ELSE 1
  /\ UNCHANGED <<ioLines, outReq, outData, inDack, irq, ioVars, cpuLeg, cpuPos,
                 pair, script, got>>

\* wait_out_dack: DACK answers with the level of DENA.
CpuSendAcked ==
  /\ cpuPc = "sAck"
  /\ outDack = IF InUnit("SEND") THEN 0 ELSE 1
  /\ CpuAdvance(Toggled("SEND"))
  /\ UNCHANGED <<ioLines, cpuLines, irq, ioVars, script, got>>

\* Mutant: recv_byte takes the byte without wait_in_dena.
CpuReceiveDataNoWait ==
  /\ CpuStep("op", "rDack")
  /\ CpuTo = "CPU" /\ ~InUnit("SEND") /\ ~RequestSent
  /\ got' = [got EXCEPT ![cpuLeg] = Append(@, inData)]
  /\ UNCHANGED <<ioLines, cpuLines, irq, ioVars, cpuLeg, cpuPos, pair, script>>

\* g_hshk_recv_byte: DENA has the level of this half of the unit, take the byte.
CpuReceiveData ==
  /\ CpuStep("op", "rDack")
  /\ CpuTo = "CPU" /\ ~InUnit("SEND") /\ ~RequestSent
  /\ inDena = IF InUnit("RECV") THEN 0 ELSE 1
  /\ got' = [got EXCEPT ![cpuLeg] = Append(@, inData)]
  /\ UNCHANGED <<ioLines, cpuLines, irq, ioVars, cpuLeg, cpuPos, pair, script>>

\* DACK up after the first byte of a unit, down after the second.
CpuReceiveDack ==
  /\ cpuPc = "rDack"
  /\ inDack' = IF InUnit("RECV") THEN 0 ELSE 1
  /\ CpuAdvance(Toggled("RECV"))
  /\ UNCHANGED <<ioLines, outReq, outDena, outData, irq, ioVars, script, got>>

\* l_hshk_flush_recv, at the first byte sent after an odd leg: drop the pad.
CpuFlushRecv ==
  /\ CpuStep("op", "op")
  /\ CpuTo = "IO" /\ InUnit("RECV")
  /\ inDena = 0
  /\ inDack' = 0
  /\ pair' = pair \ {"RECV"}
  /\ UNCHANGED <<ioLines, outReq, outDena, outData, irq, ioVars, cpuLeg, cpuPos,
                 script, got>>

\* l_hshk_flush_send, at the first byte received after an odd leg, or in
\* finalize_send: a 0 closes the unit.
CpuFlushSend ==
  /\ CpuStep("op", "fsDena")
  /\ CpuTo = "CPU" /\ InUnit("SEND")
  /\ outData' = Pad
  /\ UNCHANGED <<ioLines, outReq, outDena, inDack, irq, ioVars, cpuLeg, cpuPos,
                 pair, script, got>>

CpuFlushSendDena ==
  /\ CpuStep("fsDena", "fsAck")
  /\ outDena' = 0
  /\ UNCHANGED <<ioLines, outReq, outData, inDack, irq, ioVars, cpuLeg, cpuPos,
                 pair, script, got>>

CpuFlushSendAcked ==
  /\ cpuPc = "fsAck"
  /\ outDack = 0
  /\ pair' = pair \ {"SEND"}
  /\ cpuPc' = IF CpuTo = "end" THEN "idle" ELSE "op"
  /\ UNCHANGED <<ioLines, cpuLines, irq, ioVars, cpuLeg, cpuPos, script, got>>

\* Mutant: finalize_send without flush_send.
CpuFinalizeSendNoFlush ==
  /\ CpuStep("op", "op")
  /\ RequestSent
  /\ outReq' = 0 /\ inDack' = 0
  /\ pair' = {}
  /\ UNCHANGED <<ioLines, outDena, outData, irq, ioVars, cpuLeg, cpuPos, script,
                 got>>

\* g_hshk_finalize_send and g_hshk_accept_request of a BIOS call.
CpuFinalizeSend ==
  /\ CpuStep("op", "op")
  /\ RequestSent /\ ~InUnit("SEND")
  /\ outReq' = 0 /\ inDack' = 0
  /\ pair' = {}
  /\ UNCHANGED <<ioLines, outDena, outData, irq, ioVars, cpuLeg, cpuPos, script,
                 got>>

\* g_hshk_finalize_recv with a unit still open: DENA down before anything else,
\* then flush_send (whose 0 comes too late for the pad) ...
CpuFinalizeRecvSend ==
  /\ CpuStep("op", "fsAck")
  /\ CpuTo = "end" /\ InUnit("SEND")
  /\ outDena' = 0
  /\ outData' \in {outData, Pad}
  /\ UNCHANGED <<ioLines, outReq, inDack, irq, ioVars, cpuLeg, cpuPos, pair,
                 script, got>>

\* Mutant: the odd leg's phase stays in GL_HSHK_PAIR.
CpuFinalizeRecvKeepsPair ==
  /\ CpuStep("op", "idle")
  /\ CpuTo = "end" /\ InUnit("RECV")
  /\ inDena = 0
  /\ outDena' = 0 /\ inDack' = 0
  /\ UNCHANGED <<ioLines, outReq, outData, irq, ioVars, cpuLeg, cpuPos, pair, script,
                 got>>

\* ... or flush_recv.
CpuFinalizeRecvRecv ==
  /\ CpuStep("op", "idle")
  /\ CpuTo = "end" /\ InUnit("RECV")
  /\ inDena = 0
  /\ outDena' = 0 /\ inDack' = 0
  /\ pair' = pair \ {"RECV"}
  /\ UNCHANGED <<ioLines, outReq, outData, irq, ioVars, cpuLeg, cpuPos, script,
                 got>>

CpuNext ==
  \/ CpuAcceptIrq
  \/ CpuSendData \/ CpuSendDena \/ CpuSendAcked
  \/ CpuReceiveData \/ CpuReceiveDack
  \/ CpuFlushRecv \/ CpuFlushSend \/ CpuFlushSendDena \/ CpuFlushSendAcked
  \/ CpuFinalizeSend \/ CpuFinalizeRecvSend \/ CpuFinalizeRecvRecv

Next == \/ \E s \in Scripts : IoInitiateSend(s) \/ CpuInitiateSend(s)
        \/ IoNext
        \/ CpuNext

\* The IO board polls until its deadline and the CPU keeps executing; nobody
\* is obliged to start a transaction.
Fairness == WF_vars(IoNext) /\ WF_vars(CpuNext)

Spec == Init /\ [][Next]_vars /\ Fairness

-----------------------------------------------------------------------------
(* Properties.                                                             *)

Signal == {0, 1}
Data == {Pad} \union (Nat \X Nat)

\* A position inside a script: past its last leg, or inside a leg.
InRange(s, l, n) ==
  /\ l \in 1..Len(s.legs) + 1 /\ n \in Nat
  /\ l \in DOMAIN s.legs => n < s.legs[l].len

\* No board runs past the end of a leg or of its transaction.
TypeOK ==
  /\ {inReq, inDena, outDack, outReq, outDena, inDack} \subseteq Signal
  /\ {inData, outData, ioFirst} \subseteq Data
  /\ irq \in BOOLEAN
  /\ ioPc \in {"idle", "tx", "txAck1", "txAck0", "rx", "rxEnd", "finRecv", "fin"}
  /\ cpuPc \in {"idle", "op", "sDena", "sAck", "rDack", "fsDena", "fsAck"}
  /\ pair \subseteq {"SEND", "RECV"}
  /\ {script, ioScript} \subseteq Scripts \union {Channel!NoScript}
  /\ DOMAIN got = DOMAIN Legs
  /\ ioPc # "idle" => InRange(ioScript, ioLeg, ioPos)
  /\ cpuPc # "idle" => InRange(script, cpuLeg, cpuPos)

\* The boards never drive data at the same time: an odd leg is closed before
\* the direction turns (flush_send, flush_recv and the waits of both sides).
HalfDuplex == ~(inDena = 1 /\ outDena = 1)

\* Whenever nobody is in a transaction every line is down and no half unit is
\* left in GL_HSHK_PAIR, whatever the lengths of the legs: the next one can
\* start from scratch.
Quiescent ==
  ioPc = "idle" /\ cpuPc = "idle" /\ ~irq =>
    /\ {inReq, inDena, outDack, outReq, outDena, inDack} = {0}
    /\ pair = {}
    /\ Channel!Complete

\* The protocol implements HandshakeChannel: the bytes that transferUnitToCpu,
\* receiveUnitFromCpu, g_hshk_send_byte and g_hshk_recv_byte hand over arrive
\* complete, once, in order, and no byte of a leg is taken by either board
\* unless all the legs before it have arrived.
ImplementsChannel == Channel!Spec

\* Whoever takes part in a transaction gets out of it, and an IRQ2 that was
\* raised is taken: no wait of either board depends on a line the other one
\* has already moved on.  (A new transaction may start at once.)
TransactionsEnd ==
  /\ ioPc # "idle" ~> ioPc = "idle"
  /\ cpuPc # "idle" ~> cpuPc = "idle"
  /\ irq ~> ~irq
=============================================================================
