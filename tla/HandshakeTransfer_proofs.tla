---------------------- MODULE HandshakeTransfer_proofs ----------------------
(***************************************************************************)
(* Proofs about HandshakeTransfer, for every set of transactions.          *)
(*                                                                         *)
(* IInv says, for every place the IO board can be in, which places of the  *)
(* monitor and which levels of the lines go with it: the monitor is always *)
(* in the unit IO is in, one half before or after it, or closing the unit  *)
(* before.  Everything else follows from it.                               *)
(***************************************************************************)
EXTENDS HandshakeTransfer, TLAPS

\* The place (leg, position) after n bytes of leg l.
PlaceAfter(s, l, n) == IF n < s.legs[l].len THEN <<l, n>> ELSE <<l + 1, 0>>

CpuPlace == <<cpuLeg, cpuPos>>
IoPlace == <<ioLeg, ioPos>>

\* The monitor is at the start of the unit that begins at place p.
CpuReady(p) == /\ cpuPc = "op" /\ pair = {} /\ outDena = 0
               /\ CpuPlace = p

\* The monitor sends the first byte of the unit at place p.
CpuSending(p) ==
  /\ cpuPc \in {"op", "sDena", "sAck"} /\ pair = {}
  /\ outDena = IF cpuPc = "sAck" THEN 1 ELSE 0
  /\ CpuPlace = p
  /\ cpuPc # "op" => outData = ByteOf(Legs, cpuLeg, cpuPos + 1)

\* The monitor waits for DACK to fall at the end of the unit before place p.
CpuClosing(p) ==
  /\ pair = {"SEND"} /\ outDena = 0
  /\ \/ /\ cpuPc = "sAck" /\ cpuLeg \in DOMAIN Legs /\ Legs[cpuLeg].to = "IO"
        /\ PlaceAfter(script, cpuLeg, cpuPos + 1) = p
     \/ cpuPc = "fsAck" /\ CpuPlace = p

\* The monitor is out of the transaction IO is finishing: idle, or at the first
\* byte of a BIOS call IO has not noticed.
CpuFresh ==
  /\ inDack = 0 /\ ~irq
  /\ \/ /\ cpuPc = "idle" /\ pair = {} /\ outReq = 0 /\ outDena = 0
        /\ Channel!Complete
     \/ /\ script.by = "CPU" /\ outReq = 1
        /\ CpuSending(<<1, 0>>)
        /\ got = Channel!NothingYet(script)

\* The end of a script.
EndOf(s) == <<Len(s.legs) + 1, 0>>

\* IRQ2 announces IO's transaction and the monitor has not taken it.
CpuCalled == /\ irq /\ cpuPc = "idle" /\ pair = {} /\ outDena = 0
             /\ IoPlace = <<1, 0>>

Unit1 == PlaceAfter(script, ioLeg, ioPos + 1)
Unit2 == PlaceAfter(script, ioLeg, ioPos + 2)

\* Idle, and fin, which only drops HSHK_IN_REQ: the monitor may still be
\* closing the last unit it sent.
InvOut ==
  ioPc \in {"idle", "fin"} =>
    /\ inDena = 0 /\ outDack = 0
    /\ \/ CpuFresh
       \/ /\ inDack = 0 /\ ~irq /\ outReq = 0 /\ Channel!Complete
          /\ CpuClosing(EndOf(script))

\* IO works on the transaction the monitor works on.
Joined == script = ioScript

InvTx ==
  ioPc = "tx" =>
    /\ Joined /\ inDena = 0 /\ inDack = 0 /\ outDack = 0 /\ outReq = 0
    /\ \/ ~irq /\ CpuReady(IoPlace)
       \/ CpuCalled
       \/ ~irq /\ script.by = "IO" /\ CpuClosing(IoPlace)

InvTxAck1 ==
  ioPc = "txAck1" =>
    /\ Joined /\ inDena = 1 /\ outDack = 0 /\ outReq = 0 /\ outDena = 0
    /\ inData = ByteOf(IoLegs, ioLeg, ioPos + 1)
    /\ \/ /\ inDack = 0
          /\ \/ ~irq /\ CpuReady(IoPlace)
             \/ CpuCalled
             \/ ~irq /\ script.by = "IO" /\ CpuClosing(IoPlace)
             \/ ~irq /\ cpuPc = "rDack" /\ pair = {} /\ CpuPlace = IoPlace
       \/ /\ inDack = 1 /\ ~irq
          /\ cpuPc = "op" /\ pair = {"RECV"} /\ CpuPlace = Unit1

InvTxAck0 ==
  ioPc = "txAck0" =>
    /\ inDena = 0 /\ outDack = 0 /\ ~irq
    /\ inData = ByteOf(IoLegs, ioLeg, ioPos + 2)
    /\ \/ /\ Joined /\ inDack = 1 /\ outReq = 0 /\ outDena = 0
          /\ pair = {"RECV"} /\ CpuPlace = Unit1
          /\ cpuPc = "op" \/ (cpuPc = "rDack" /\ cpuLeg = ioLeg)
       \/ /\ Joined /\ inDack = 0 /\ outReq = 0
          /\ Unit2 # EndOf(script)
          /\ CpuReady(Unit2) \/ (CpuTo = "IO" /\ CpuSending(Unit2))
       \/ /\ PlaceAfter(ioScript, ioLeg, ioPos + 2) = EndOf(ioScript)
          /\ CpuFresh

InvRx ==
  ioPc = "rx" =>
    /\ Joined /\ inDena = 0 /\ inDack = 0 /\ outDack = 0 /\ ~irq
    /\ outReq = IF script.by = "CPU" THEN 1 ELSE 0
    /\ CpuSending(IoPlace) \/ (cpuPc = "sAck" /\ CpuClosing(IoPlace))

InvRxEnd ==
  ioPc = "rxEnd" =>
    /\ Joined /\ inDena = 0 /\ inDack = 0 /\ outDack = 1 /\ ~irq
    /\ outReq = IF script.by = "CPU" THEN 1 ELSE 0
    /\ ioFirst = ByteOf(IoLegs, ioLeg, ioPos + 1)
    /\ \/ cpuPc = "sAck" /\ pair = {} /\ outDena = 1 /\ CpuPlace = IoPlace
       \/ /\ pair = {"SEND"} /\ CpuPlace = Unit1
          /\ \/ cpuPc = "op" /\ outDena = 1
             \/ /\ cpuLeg = ioLeg
                /\ outData = ByteOf(Legs, ioLeg, ioPos + 2)
                /\ \/ cpuPc = "sDena" /\ outDena = 1
                   \/ cpuPc = "sAck" /\ outDena = 0
             \/ /\ cpuLeg # ioLeg
                /\ \/ cpuPc = "fsDena" /\ outDena = 1
                   \/ cpuPc = "fsAck" /\ outDena = 0

InvFinRecv ==
  ioPc = "finRecv" =>
    /\ Joined /\ script.by = "CPU" /\ IoPlace = <<2, 0>>
    /\ inDena = 0 /\ inDack = 0 /\ outDack = 0 /\ ~irq
    /\ \/ CpuReady(IoPlace)
       \/ outReq = 1 /\ CpuClosing(IoPlace)

\* HSHK_IN_REQ is up exactly over IO's transaction, or the response to a BIOS
\* call.
InvReq ==
  /\ inReq = IF ioPc = "idle" \/ ioPc = "finRecv"
                \/ (ioScript.by = "CPU" /\ ioLeg = 1) THEN 0 ELSE 1
  /\ ioPc \in {"tx", "txAck1", "txAck0"} =>
       ioLeg \in DOMAIN IoLegs /\ IoLegs[ioLeg].to = "CPU"
  /\ ioPc \in {"rx", "rxEnd"} =>
       ioLeg \in DOMAIN IoLegs /\ IoLegs[ioLeg].to = "IO"
  /\ ioPc = "fin" => ioLeg = Len(IoLegs) + 1 /\ ioPos = 0

\* How much of leg l has arrived.
Arrived(l) ==
  IF Legs[l].to = "CPU"
  THEN IF l < cpuLeg THEN Legs[l].len
       ELSE IF l > cpuLeg THEN 0
       ELSE IF cpuPc = "rDack" THEN cpuPos + 1 ELSE cpuPos
  ELSE IF l < ioLeg THEN Legs[l].len
       ELSE IF l > ioLeg THEN 0 ELSE ioPos

\* Both boards are inside the same transaction.
Together == /\ ioPc # "idle" /\ Joined /\ cpuPc # "idle"
            /\ ~ (ioPc \in {"txAck0", "fin"} /\ CpuFresh)

InvGot ==
  /\ \A l \in DOMAIN Legs : got[l] = Channel!Prefix(l, Len(got[l]))
  /\ Together => \A l \in DOMAIN Legs : Len(got[l]) = Arrived(l)
  /\ irq => got = Channel!NothingYet(script)

IInv == /\ TypeOK
        /\ InvReq /\ InvOut /\ InvTx /\ InvTxAck1 /\ InvTxAck0
        /\ InvRx /\ InvRxEnd /\ InvFinRecv
        /\ InvGot

-----------------------------------------------------------------------------
(* Facts about transactions.                                               *)

\* What a script is made of, the empty one included.
LEMMA ScriptType ==
  ASSUME NEW s \in Scripts \union {Channel!NoScript}
  PROVE  /\ s.legs \in Seq(Leg)
         /\ Len(s.legs) \in Nat /\ DOMAIN s.legs = 1..Len(s.legs)
         /\ \A l \in 1..Len(s.legs) : /\ s.legs[l].to \in {"CPU", "IO"}
                                      /\ s.legs[l].len \in Nat \ {0}
<1>1. CASE s = Channel!NoScript
  BY <1>1 DEF Channel!NoScript
<1>2. CASE s \in Scripts
  <2>1. s.legs \in Seq(Leg)
    BY <1>2, ScriptsAssumption DEF ScriptsAssumption
  <2>2. \A l \in 1..Len(s.legs) : s.legs[l] \in Leg
    BY <2>1
  <2> QED  BY <2>1, <2>2 DEF Leg
<1> QED  BY <1>1, <1>2

\* The shapes of a transaction: legs alternate, IO begins with its own bytes,
\* a BIOS call is a request and a response.
LEMMA ScriptLegs ==
  ASSUME NEW s \in Scripts
  PROVE  /\ s.by \in {"IO", "CPU"} /\ Len(s.legs) # 0
         /\ \A l \in 1..Len(s.legs) - 1 : s.legs[l].to # s.legs[l + 1].to
         /\ s.by = "IO" => s.legs[1].to = "CPU"
         /\ s.by = "CPU" => /\ Len(s.legs) = 2
                            /\ s.legs[1].to = "IO" /\ s.legs[2].to = "CPU"
<1>1. /\ s \in [by : {"IO", "CPU"}, legs : Seq(Leg)]
      /\ s.legs # <<>>
      /\ \A l \in 1..Len(s.legs) - 1 : s.legs[l].to # s.legs[l + 1].to
      /\ s.by = "IO" => s.legs[1].to = "CPU"
      /\ s.by = "CPU" => Len(s.legs) = 2 /\ s.legs[1].to = "IO"
  BY ScriptsAssumption DEF ScriptsAssumption
<1>2. s.by \in {"IO", "CPU"} /\ Len(s.legs) # 0
  BY <1>1, ScriptType
<1>3. ASSUME s.by = "CPU" PROVE s.legs[2].to = "CPU"
  <2>1. Len(s.legs) = 2 /\ s.legs[1].to = "IO"
    BY <1>1, <1>3
  <2>2. 1 \in 1..Len(s.legs) - 1 /\ 2 \in 1..Len(s.legs)
    BY <2>1
  <2>3. s.legs[1].to # s.legs[1 + 1].to
    BY <1>1, <2>2
  <2> QED  BY <2>1, <2>2, <2>3, ScriptType
<1> QED  BY <1>1, <1>2, <1>3

\* What has arrived of a leg grows at its end.
LEMMA PrefixAppend ==
  ASSUME NEW l, NEW n \in Nat
  PROVE  /\ Len(Channel!Prefix(l, n)) = n
         /\ Append(Channel!Prefix(l, n), Channel!Byte(l, n + 1))
              = Channel!Prefix(l, n + 1)
<1>1. Channel!Prefix(l, n) \in Seq({Channel!Byte(l, i) : i \in 1..n})
  BY DEF Channel!Prefix
<1>2. Len(Channel!Prefix(l, n)) = n
  BY <1>1 DEF Channel!Prefix
<1>3. Append(Channel!Prefix(l, n), Channel!Byte(l, n + 1))
        = [i \in 1..n + 1 |-> IF i <= n THEN Channel!Byte(l, i)
                              ELSE Channel!Byte(l, n + 1)]
  BY <1>1, <1>2 DEF Channel!Prefix
<1>4. \A i \in 1..n + 1 : ~ (i <= n) => i = n + 1
  OBVIOUS
<1> QED  BY <1>2, <1>3, <1>4 DEF Channel!Prefix

-----------------------------------------------------------------------------
(* The invariant holds at the start.                                       *)

LEMMA IInvInit == Init => IInv
<1> SUFFICES ASSUME Init PROVE IInv  OBVIOUS
<1> USE DEF Init, Channel!NoScript, Channel!NothingYet, Channel!Byte, Pad
<1>1. TypeOK
  BY DEF TypeOK, Signal, Data, Legs
<1>2. InvReq /\ InvTx /\ InvTxAck1 /\ InvTxAck0 /\ InvRx /\ InvRxEnd /\ InvFinRecv
  BY DEF InvReq, InvTx, InvTxAck1, InvTxAck0, InvRx, InvRxEnd, InvFinRecv
<1>3. InvOut
  BY DEF InvOut, CpuFresh, Channel!Complete, Channel!LegDone, Channel!Legs
<1>4. InvGot
  BY DEF InvGot, Together, Legs
<1> QED  BY <1>1, <1>2, <1>3, <1>4 DEF IInv

-----------------------------------------------------------------------------
(* The steps of the IO board.                                              *)

LEMMA StepInitiateSend ==
  ASSUME IInv, NEW s \in Scripts, IoInitiateSend(s)
  PROVE  IInv'
<1> USE DEF IoInitiateSend, IoStep, cpuLines, cpuVars
<1>1. s \in Scripts \union {Channel!NoScript}
  OBVIOUS
<1>2. s.by = "IO" /\ Len(s.legs) # 0 /\ s.legs[1].to = "CPU"
  BY ScriptLegs
<1>3. ioPc' = "tx"
  BY <1>1, <1>2, ScriptType DEF IoPcFor
<1>4. CpuFresh
  BY DEF IInv, InvOut, CpuClosing
<1>5. TypeOK'
  BY <1>1, <1>2, <1>3, ScriptType
  DEF IInv, TypeOK, InRange, Signal, Channel!NothingYet, Legs
<1>6. InvReq'
  BY <1>1, <1>2, <1>3, ScriptType DEF InvReq, IoLegs
<1>7. InvTx'
  BY <1>3, <1>4 DEF IInv, InvOut, InvTx, Joined, CpuCalled, CpuFresh,
     CpuSending, IoPlace
<1>8. InvGot'
  BY <1>1, <1>3, ScriptType
  DEF InvGot, Together, Legs, Channel!NothingYet, Channel!Prefix
<1> QED
  BY <1>3, <1>5, <1>6, <1>7, <1>8
  DEF IInv, InvOut, InvTxAck1, InvTxAck0, InvRx, InvRxEnd, InvFinRecv

LEMMA StepSendFirst ==
  ASSUME IInv, IoSendFirst
  PROVE  IInv'
<1> USE DEF IInv, IoSendFirst, IoStep, cpuLines, cpuVars
<1>1. /\ script \in Scripts \union {Channel!NoScript}
      /\ ioScript \in Scripts \union {Channel!NoScript}
  BY DEF TypeOK
<1>2. TypeOK'
  BY <1>1, ScriptType DEF TypeOK, InRange, Signal, Data, ByteOf, Channel!Byte,
     InvReq, IoLegs, Pad, Legs
<1>3. InvReq'
  BY DEF InvReq, IoLegs
<1>4. InvTxAck1'
  BY DEF InvTx, InvTxAck1, Joined, CpuReady, CpuCalled, CpuClosing, CpuPlace,
     IoPlace, PlaceAfter, IoLegs, Legs, ByteOf
<1>5. InvGot'
  BY DEF InvGot, Together, Arrived, Joined, CpuFresh, CpuSending,
     Channel!Complete, Channel!LegDone, Channel!Legs, Legs, CpuPlace, ByteOf
<1> QED
  BY <1>2, <1>3, <1>4, <1>5
  DEF InvOut, InvTx, InvTxAck0, InvRx, InvRxEnd, InvFinRecv

LEMMA StepSendSecond ==
  ASSUME IInv, IoSendSecond
  PROVE  IInv'
<1> USE DEF IInv, IoSendSecond, IoStep, cpuLines, cpuVars
<1>1. /\ script \in Scripts \union {Channel!NoScript}
      /\ ioScript \in Scripts \union {Channel!NoScript}
  BY DEF TypeOK
<1>2. TypeOK'
  BY <1>1, ScriptType DEF TypeOK, InRange, Signal, Data, ByteOf, Channel!Byte,
     InvReq, IoLegs, Pad, Legs
<1>3. InvReq'
  BY DEF InvReq, IoLegs
<1>4. InvTxAck0'
  BY
  DEF InvTxAck1, InvTxAck0, Joined, CpuPlace, Unit1, PlaceAfter, IoLegs,
      ByteOf
<1>5. InvGot'
  BY DEF InvGot, Together, Arrived, Joined, CpuFresh, CpuSending,
     Channel!Complete, Channel!LegDone, Channel!Legs, Legs, CpuPlace, ByteOf
<1> QED
  BY <1>2, <1>3, <1>4, <1>5
  DEF InvOut, InvTx, InvTxAck1, InvRx, InvRxEnd, InvFinRecv

LEMMA StepUnitSent ==
  ASSUME IInv, IoUnitSent
  PROVE  IInv'
<1> USE DEF IInv, IoUnitSent, ioLines, cpuLines, cpuVars
<1>1. /\ script \in Scripts \union {Channel!NoScript}
      /\ ioScript \in Scripts \union {Channel!NoScript}
      /\ ioScript.by # "CPU" \/ ioScript \in Scripts
  BY DEF TypeOK, Channel!NoScript
<1>2. /\ ioLeg \in 1..Len(IoLegs) /\ IoLegs[ioLeg].to = "CPU"
      /\ ioPos \in Nat /\ IoLegs[ioLeg].len \in Nat \ {0}
  BY <1>1, ScriptType DEF TypeOK, InRange, InvReq, IoLegs
<1>3. ~ (ioScript.by = "CPU" /\ ioLeg = 1)
  BY <1>1, <1>2, ScriptLegs DEF IoLegs
<1>4. \/ /\ ioPos + 2 < IoLegs[ioLeg].len /\ ioPc' = "tx"
         /\ ioLeg' = ioLeg /\ ioPos' = ioPos + 2
      \/ /\ ioPos + 2 >= IoLegs[ioLeg].len
         /\ ioLeg' = ioLeg + 1 /\ ioPos' = 0
         /\ \/ ioLeg = Len(IoLegs) /\ ioPc' = "fin"
            \/ /\ ioLeg < Len(IoLegs) /\ IoLegs[ioLeg + 1].to = "IO"
               /\ ioPc' = "rx" /\ ioScript.by = "IO"
  <2>1. CASE ioPos + 2 < IoLegs[ioLeg].len
    BY <1>2, <2>1 DEF IoAdvance, IoPcFor, IoLegs
  <2>2. CASE ~ (ioPos + 2 < IoLegs[ioLeg].len)
    <3>1. ioLeg' = ioLeg + 1 /\ ioPos' = 0 /\ ioPc' = IoPcFor(ioScript, ioLeg + 1)
      BY <1>2, <1>3, <2>2 DEF IoAdvance
    <3>2. CASE ioLeg = Len(IoLegs)
      BY <1>2, <2>2, <3>1, <3>2 DEF IoPcFor, IoLegs
    <3>3. CASE ioLeg < Len(IoLegs)
      <4>1. ioScript \in Scripts
        BY <1>1, <1>2, <3>3 DEF Channel!NoScript, IoLegs
      <4>2. Len(ioScript.legs) \in Nat /\ ioLeg \in 1..Len(ioScript.legs) - 1
        BY <1>2, <3>3, <4>1, ScriptType DEF IoLegs
      <4>3. /\ ioScript.legs[ioLeg].to # ioScript.legs[ioLeg + 1].to
            /\ ioScript.by \in {"IO", "CPU"}
            /\ ioScript.by = "CPU" => Len(ioScript.legs) = 2
        BY <4>1, <4>2, ScriptLegs
      <4>4. ioScript.legs[ioLeg + 1].to \in {"CPU", "IO"}
        BY <4>1, <4>2, ScriptType
      <4>5. ioScript.by = "IO"
        BY ONLY <1>3, <4>2, <4>3
      <4>6. IoLegs[ioLeg + 1].to = "IO"
        BY ONLY <1>2, <4>3, <4>4 DEF IoLegs
      <4> QED  BY <1>2, <2>2, <3>1, <3>3, <4>5, <4>6 DEF IoPcFor, IoLegs
    <3> QED  BY <1>1, <1>2, <3>2, <3>3, ScriptType DEF IoLegs
  <2> QED  BY <2>1, <2>2
<1>5. TypeOK'
  BY <1>1, <1>2, <1>4, ScriptType DEF TypeOK, InRange, IoLegs, Legs
<1>6. InvReq'
  BY <1>1, <1>2, <1>3, <1>4, ScriptType DEF TypeOK, InvReq, IoLegs
<1>7. InvTx'
  BY <1>1, <1>2, <1>4, ScriptType
  DEF InvTx, InvTxAck0, Joined, CpuReady, CpuSending, CpuTo, CpuPlace,
      IoPlace, PlaceAfter, Unit2, EndOf, IoLegs, Legs
<1>8. InvRx'
  BY <1>1, <1>2, <1>4, ScriptType
  DEF InvRx, InvTxAck0, Joined, CpuReady, CpuSending, CpuTo, CpuPlace,
      IoPlace, PlaceAfter, Unit2, EndOf, IoLegs, Legs, ByteOf
<1>9. InvOut'
  BY <1>1, <1>2, <1>4, ScriptType
  DEF InvOut, InvTxAck0, Joined, CpuFresh, CpuPlace, CpuSending, PlaceAfter,
      Unit2, EndOf, IoLegs, Legs, ByteOf, Channel!Complete, Channel!LegDone,
      Channel!Legs
<1>10. InvGot'
  <2>1. CpuFresh => ioPc' = "fin"
    <3>1. ~ (CpuReady(Unit2) \/ (CpuTo = "IO" /\ CpuSending(Unit2))) \/ outReq # 0
          \/ ~CpuFresh
      BY DEF CpuFresh, CpuReady, CpuSending
    <3>2. SUFFICES ASSUME CpuFresh,
                          PlaceAfter(ioScript, ioLeg, ioPos + 2) = EndOf(ioScript)
                   PROVE  ioPc' = "fin"
      BY <3>1 DEF InvTxAck0
    <3> QED  BY <1>1, <1>2, <1>4, <3>2, ScriptType DEF PlaceAfter, EndOf, IoLegs
  <2>2. CpuFresh' = CpuFresh
    BY DEF CpuFresh, CpuSending, CpuPlace, Legs, Channel!Complete,
           Channel!LegDone, Channel!Legs
  <2>3. Together' => Together
    BY <2>1, <2>2 DEF Together, Joined, IoAdvance
  <2>4. ASSUME Joined, NEW l \in DOMAIN Legs  PROVE Arrived(l)' = Arrived(l)
    <3>1. ioLeg \in Nat /\ l \in Nat /\ Legs[ioLeg].to = "CPU"
      BY <1>1, <1>2, <2>4, ScriptType DEF Joined, Legs, IoLegs
    <3>2. \/ ioLeg' = ioLeg
          \/ ioLeg' = ioLeg + 1 /\ ioPos' = 0
      BY <1>4
    <3> QED  BY <3>1, <3>2 DEF Arrived, Legs
  <2> QED  BY <2>3, <2>4 DEF InvGot, Together, Legs, Channel!Prefix,
              Channel!Legs, Channel!NothingYet
<1> QED
  BY <1>4, <1>5, <1>6, <1>7, <1>8, <1>9, <1>10
  DEF InvTxAck1, InvTxAck0, InvRxEnd, InvFinRecv

LEMMA StepWaitForCpuRequest ==
  ASSUME IInv, IoWaitForCpuRequest
  PROVE  IInv'
<1> USE DEF IInv, IoWaitForCpuRequest, IoStep, cpuLines, cpuVars
<1>1. CpuFresh /\ script.by = "CPU" /\ cpuPc # "idle"
  BY DEF InvOut, CpuFresh, CpuSending
<1>2. script \in Scripts
  BY <1>1 DEF TypeOK, Channel!NoScript
<1>3. Len(Legs) = 2 /\ Legs[1].to = "IO" /\ Legs[1].len \in Nat \ {0}
      /\ Legs[2].to = "CPU" /\ DOMAIN Legs = 1..2
  BY <1>1, <1>2, ScriptLegs, ScriptType DEF Legs
<1>4. TypeOK'
  BY <1>2, <1>3 DEF TypeOK, InRange, Signal, Legs
<1>5. InvReq'
  BY <1>1, <1>3 DEF InvReq, IoLegs, Legs
<1>6. InvRx'
  BY <1>1 DEF InvOut, InvRx, Joined, CpuFresh, CpuSending, CpuPlace, IoPlace,
     ByteOf, Legs
<1>7. InvGot'
  BY <1>1, <1>3 DEF InvGot, Together, Arrived, CpuFresh, CpuSending, CpuPlace,
     Channel!NothingYet, Legs
<1> QED
  BY <1>4, <1>5, <1>6, <1>7
  DEF InvOut, InvTx, InvTxAck1, InvTxAck0, InvRxEnd, InvFinRecv

LEMMA StepReceiveFirst ==
  ASSUME IInv, IoReceiveFirst
  PROVE  IInv'
<1> USE DEF IInv, IoReceiveFirst, IoStep, cpuLines, cpuVars
<1>1. /\ script \in Scripts \union {Channel!NoScript}
      /\ ioScript \in Scripts \union {Channel!NoScript}
  BY DEF TypeOK
<1>2. TypeOK'
  BY DEF TypeOK, InRange, Signal, Legs
<1>3. InvReq'
  BY DEF InvReq, IoLegs
<1>4. InvRxEnd'
  BY
  DEF InvRx, InvRxEnd, Joined, CpuSending, CpuClosing, CpuPlace, IoPlace,
      IoLegs, ByteOf, Legs
<1>5. InvGot'
  BY
  DEF InvGot, Together, Arrived, Joined, CpuFresh, CpuSending, InvRx,
      CpuClosing, Channel!Complete, Channel!LegDone, Channel!Legs, Legs,
      CpuPlace, ByteOf
<1> QED
  BY <1>2, <1>3, <1>4, <1>5
  DEF InvOut, InvTx, InvTxAck1, InvTxAck0, InvRx, InvFinRecv

\* IO takes the next one or two bytes of the leg both boards are in.
LEMMA ReceiveSecondFacts ==
  ASSUME IInv, IoReceiveSecond
  PROVE  /\ ioLeg \in DOMAIN Legs /\ ioPos \in Nat /\ ioPos < Legs[ioLeg].len
         /\ Legs[ioLeg].len \in Nat
         /\ \A k \in DOMAIN Legs : k # ioLeg => Len(got[k]) = Arrived(k)
         /\ Len(got[ioLeg]) = ioPos
         /\ got' = [got EXCEPT ![ioLeg] =
                     Channel!Prefix(ioLeg, IF ioPos + 2 < Legs[ioLeg].len
                                           THEN ioPos + 2 ELSE Legs[ioLeg].len)]
         /\ \A l \in DOMAIN Legs : got'[l] = Channel!Prefix(l, Len(got'[l]))
         /\ \A l \in DOMAIN Legs :
              Len(got'[l]) = IF l # ioLeg THEN Arrived(l)
                             ELSE IF ioPos + 2 < Legs[ioLeg].len
                             THEN ioPos + 2 ELSE Legs[ioLeg].len
         /\ cpuLeg \in {ioLeg, ioLeg + 1}
         /\ UNCHANGED script
<1> USE DEF IInv
<1>0. /\ ioPc = "rxEnd" /\ outDena = 0 /\ outDack' = 0
      /\ got' = [got EXCEPT ![ioLeg] =
                   IF ioPos + 1 < IoLegs[ioLeg].len
                   THEN Append(Append(got[ioLeg], ioFirst), outData)
                   ELSE Append(got[ioLeg], ioFirst)]
      /\ IoAdvance(2)
      /\ UNCHANGED <<inReq, inDena, inData, cpuLines, irq, ioScript, ioFirst,
                     cpuVars, script>>
  BY DEF IoReceiveSecond
<1> USE DEF cpuLines, cpuVars
<1>1. /\ script \in Scripts \union {Channel!NoScript}
      /\ ioScript \in Scripts \union {Channel!NoScript}
      /\ ioScript = script
      /\ ioScript.by # "CPU" \/ ioScript \in Scripts
  BY <1>0 DEF TypeOK, Channel!NoScript, InvRxEnd, Joined
<1>2. /\ ioLeg \in 1..Len(IoLegs) /\ IoLegs[ioLeg].to = "IO"
      /\ ioPos \in Nat /\ ioPos < IoLegs[ioLeg].len
      /\ IoLegs[ioLeg].len \in Nat \ {0} /\ Len(IoLegs) \in Nat
  BY <1>0, <1>1, ScriptType DEF TypeOK, InRange, InvReq, IoLegs
<1> DEFINE got2 == IF ioPos + 2 < IoLegs[ioLeg].len THEN ioPos + 2
                   ELSE IoLegs[ioLeg].len
<1>3. got' = [got EXCEPT ![ioLeg] = Channel!Prefix(ioLeg, got2)]
  <2>1. /\ got[ioLeg] = Channel!Prefix(ioLeg, ioPos)
        /\ Len(got[ioLeg]) = ioPos
    BY <1>0, <1>1, <1>2, ScriptType
    DEF InvGot, InvRxEnd, Together, Arrived, IoLegs, Legs
  <2>2. ioFirst = Channel!Byte(ioLeg, ioPos + 1)
    BY <1>0, <1>2 DEF InvRxEnd, ByteOf, IoLegs
  <2>3. CASE ioPos + 1 < IoLegs[ioLeg].len
    <3>1. outData = Channel!Byte(ioLeg, ioPos + 2)
      BY <1>0, <1>1, <1>2, <2>3, ScriptType
      DEF InvRxEnd, ByteOf, Unit1, PlaceAfter, CpuPlace, IoLegs, Legs
    <3>2. got' = [got EXCEPT ![ioLeg] = Append(Append(got[ioLeg], ioFirst), outData)]
      BY <1>0, <2>3
    <3>3. Append(Append(got[ioLeg], ioFirst), outData) = Channel!Prefix(ioLeg, ioPos + 2)
      <4>1. Append(got[ioLeg], ioFirst) = Channel!Prefix(ioLeg, ioPos + 1)
        BY <1>2, <2>1, <2>2, PrefixAppend
      <4>2. ioPos + 1 \in Nat /\ ioPos + 2 = (ioPos + 1) + 1
        BY <1>2
      <4> QED  BY <3>1, <4>1, <4>2, PrefixAppend
    <3>4. got2 = ioPos + 2
      BY <1>2, <2>3
    <3> QED  BY <3>2, <3>3, <3>4
  <2>4. CASE ~ (ioPos + 1 < IoLegs[ioLeg].len)
    <3>1. ioPos + 1 = IoLegs[ioLeg].len
      BY <1>2, <2>4
    <3>2. got' = [got EXCEPT ![ioLeg] = Channel!Prefix(ioLeg, ioPos + 1)]
      BY <1>0, <1>2, <2>1, <2>2, <2>4, PrefixAppend
    <3>3. got2 = ioPos + 1
      BY <1>2, <3>1
    <3> QED  BY <3>2, <3>3
  <2> QED  BY <2>3, <2>4
<1>4. /\ \A l \in DOMAIN Legs : got'[l] = Channel!Prefix(l, Len(got'[l]))
      /\ \A l \in DOMAIN Legs :
           Len(got'[l]) = IF l = ioLeg THEN got2 ELSE Arrived(l)
  <2>1. \A l \in DOMAIN Legs :
          got'[l] = IF l = ioLeg THEN Channel!Prefix(ioLeg, got2) ELSE got[l]
    BY <1>3 DEF TypeOK
  <2>2. \A l \in DOMAIN Legs : Len(got[l]) = Arrived(l)
    BY <1>0, <1>1 DEF InvGot, InvRxEnd, Together
  <2>3. got2 \in Nat
    BY <1>2
  <2> HIDE DEF got2
  <2>4. Len(Channel!Prefix(ioLeg, got2)) = got2
    BY <2>3, PrefixAppend
  <2>5. \A l \in DOMAIN Legs : got[l] = Channel!Prefix(l, Len(got[l]))
    BY DEF InvGot
  <2> QED  BY <2>1, <2>2, <2>4, <2>5
<1>5. /\ \A k \in DOMAIN Legs : Len(got[k]) = Arrived(k)
      /\ Arrived(ioLeg) = ioPos /\ cpuLeg \in {ioLeg, ioLeg + 1}
  <2>1. \A k \in DOMAIN Legs : Len(got[k]) = Arrived(k)
    BY <1>0, <1>1 DEF InvGot, InvRxEnd, Together
  <2>2. Arrived(ioLeg) = ioPos
    BY <1>1, <1>2 DEF Arrived, IoLegs, Legs
  <2>3. cpuLeg \in {ioLeg, ioLeg + 1}
    BY <1>0, <1>1, <1>2 DEF InvRxEnd, Unit1, PlaceAfter, CpuPlace, IoPlace
  <2> QED  BY <2>1, <2>2, <2>3
<1>6. Legs = IoLegs /\ DOMAIN Legs = 1..Len(Legs) /\ UNCHANGED script
  BY <1>0, <1>1, ScriptType DEF IoLegs, Legs
<1> QED  BY <1>2, <1>3, <1>4, <1>5, <1>6

LEMMA StepReceiveSecond ==
  ASSUME IInv, IoReceiveSecond
  PROVE  IInv'
<1> USE DEF IInv
<1>0. /\ ioPc = "rxEnd" /\ outDena = 0 /\ outDack' = 0
      /\ got' = [got EXCEPT ![ioLeg] =
                   IF ioPos + 1 < IoLegs[ioLeg].len
                   THEN Append(Append(got[ioLeg], ioFirst), outData)
                   ELSE Append(got[ioLeg], ioFirst)]
      /\ IoAdvance(2)
      /\ UNCHANGED <<inReq, inDena, inData, cpuLines, irq, ioScript, ioFirst,
                     cpuVars, script>>
  BY DEF IoReceiveSecond
<1> USE DEF cpuLines, cpuVars
<1>1. /\ script \in Scripts \union {Channel!NoScript}
      /\ ioScript \in Scripts \union {Channel!NoScript}
      /\ ioScript = script
      /\ ioScript.by # "CPU" \/ ioScript \in Scripts
  BY <1>0 DEF TypeOK, Channel!NoScript, InvRxEnd, Joined
<1>2. /\ ioLeg \in 1..Len(IoLegs) /\ IoLegs[ioLeg].to = "IO"
      /\ ioPos \in Nat /\ ioPos < IoLegs[ioLeg].len
      /\ IoLegs[ioLeg].len \in Nat \ {0} /\ Len(IoLegs) \in Nat
  BY <1>0, <1>1, ScriptType DEF TypeOK, InRange, InvReq, IoLegs
<1>3. ioScript.by = "CPU" => ioLeg = 1 /\ Len(IoLegs) = 2
  BY <1>0, <1>1, <1>2, ScriptLegs DEF IoLegs
<1>4. \/ /\ ioPos + 2 < IoLegs[ioLeg].len /\ ioPc' = "rx"
         /\ ioLeg' = ioLeg /\ ioPos' = ioPos + 2
      \/ /\ ioPos + 2 >= IoLegs[ioLeg].len
         /\ ioLeg' = ioLeg + 1 /\ ioPos' = 0
         /\ \/ ioLeg = Len(IoLegs) /\ ioPc' = "fin" /\ ioScript.by # "CPU"
            \/ ioLeg < Len(IoLegs) /\ ioPc' = "finRecv" /\ ioScript.by = "CPU"
            \/ /\ ioLeg < Len(IoLegs) /\ IoLegs[ioLeg + 1].to = "CPU"
               /\ ioPc' = "tx" /\ ioScript.by = "IO"
  <2>1. CASE ioPos + 2 < IoLegs[ioLeg].len
    BY <1>0, <1>2, <2>1, <1>1, ScriptType DEF IoAdvance, IoPcFor, IoLegs
  <2>2. CASE ~ (ioPos + 2 < IoLegs[ioLeg].len)
    <3>1. /\ ioLeg' = ioLeg + 1 /\ ioPos' = 0
          /\ ioPc' = IF ioScript.by = "CPU" THEN "finRecv"
                     ELSE IoPcFor(ioScript, ioLeg + 1)
      BY <1>0, <1>2, <1>3, <2>2 DEF IoAdvance
    <3>2. CASE ioLeg = Len(IoLegs)
      <4>1. ioScript.by # "CPU"
        BY <1>2, <1>3, <3>2
      <4>2. ioLeg + 1 > Len(ioScript.legs)
        BY <1>2, <3>2 DEF IoLegs
      <4> QED  BY <1>2, <2>2, <3>1, <3>2, <4>1, <4>2 DEF IoPcFor
    <3>3. CASE ioLeg < Len(IoLegs)
      <4>1. ioScript \in Scripts
        BY <1>0, <1>1, <1>2, <3>3 DEF Channel!NoScript, IoLegs
      <4>2. IoLegs[ioLeg + 1].to = "CPU" /\ ioScript.by \in {"IO", "CPU"}
        BY <1>2, <3>3, <4>1, ScriptLegs, ScriptType DEF IoLegs
      <4>3. CASE ioScript.by = "CPU"
        BY <1>2, <2>2, <3>1, <3>3, <4>3
      <4>4. CASE ioScript.by = "IO"
        BY <1>0, <1>1, <1>2, <2>2, <3>1, <3>3, <4>2, <4>4, ScriptType
        DEF IoPcFor, IoLegs
      <4> QED  BY <4>2, <4>3, <4>4
    <3> QED  BY <1>2, <3>2, <3>3
  <2> QED  BY <2>1, <2>2
<1>5. TypeOK'
  <2>1. DOMAIN got' = DOMAIN Legs'
    BY <1>0 DEF TypeOK, Legs
  <2>2. InRange(ioScript', ioLeg', ioPos')
    BY <1>0, <1>1, <1>2, <1>4, ScriptType DEF InRange, IoLegs
  <2> QED  BY <1>0, <1>4, <2>1, <2>2 DEF TypeOK, InRange, Signal, Legs
<1>6. InvReq'
  BY <1>0, <1>1, <1>2, <1>3, <1>4, ScriptType DEF TypeOK, InvReq, IoLegs
<1>7. InvTx'
  BY <1>0, <1>1, <1>2, <1>4, ScriptType
  DEF InvTx, InvRxEnd, Joined, CpuReady, CpuClosing, CpuPlace, IoPlace,
      PlaceAfter, Unit1, IoLegs, Legs
<1>8. InvRx'
  BY <1>0, <1>1, <1>2, <1>4, ScriptType
  DEF InvRx, InvRxEnd, Joined, CpuReady, CpuClosing, CpuPlace, IoPlace,
      PlaceAfter, Unit1, IoLegs, Legs
<1>9. InvFinRecv'
  BY <1>0, <1>1, <1>2, <1>3, <1>4, ScriptType
  DEF InvFinRecv, InvRxEnd, Joined, CpuReady, CpuClosing, CpuPlace, IoPlace,
      PlaceAfter, Unit1, IoLegs, Legs
<1> DEFINE got2 == IF ioPos + 2 < IoLegs[ioLeg].len THEN ioPos + 2
                   ELSE IoLegs[ioLeg].len
<1>10. Legs = IoLegs /\ cpuLeg \in {ioLeg, ioLeg + 1}
  BY <1>1, ReceiveSecondFacts DEF IoLegs, Legs
<1>11. /\ \A l \in DOMAIN Legs : got'[l] = Channel!Prefix(l, Len(got'[l]))
       /\ \A l \in DOMAIN Legs :
            Len(got'[l]) = IF l = ioLeg THEN got2 ELSE Arrived(l)
  BY <1>10, ReceiveSecondFacts
<1>12. InvOut'
  <2> SUFFICES ASSUME ioPc' = "fin"
               PROVE  Channel!Complete' /\ CpuClosing(EndOf(script))'
    BY <1>0, <1>1, <1>4 DEF InvOut, InvRxEnd
  <2>1. ioLeg = Len(Legs) /\ ioPos + 2 >= Legs[ioLeg].len
    BY <1>1, <1>4 DEF IoLegs, Legs
  <2>2. cpuLeg \in {ioLeg, ioLeg + 1}
    BY <1>10
  <2>3. Channel!Complete'
    <3>1. \A l \in DOMAIN Legs : Len(got'[l]) = Legs[l].len
      BY <1>1, <1>2, <1>11, <2>1, <2>2, ScriptType DEF Arrived, IoLegs, Legs
    <3> QED  BY <1>0, <3>1
    DEF Channel!Complete, Channel!LegDone, Channel!Legs, Legs
  <2>4. CpuClosing(EndOf(script))'
    BY <1>0, <1>1, <1>2, <2>1, ScriptType
    DEF InvRxEnd, CpuClosing, CpuPlace, IoPlace, PlaceAfter, Unit1, EndOf,
        IoLegs, Legs
  <2> QED  BY <2>3, <2>4
<1>13. InvGot'
  <2>1. Legs' = Legs /\ ~irq'
    BY <1>0 DEF Legs, InvRxEnd
  <2>2. \A l \in DOMAIN Legs : Len(got'[l]) = Arrived(l)'
    <3> SUFFICES ASSUME NEW l \in DOMAIN Legs
                 PROVE  Len(got'[l]) = Arrived(l)'
      OBVIOUS
    <3>1. l \in Nat /\ Legs[l].len \in Nat /\ ioLeg \in Nat
      BY <1>1, <1>2, ScriptType DEF Legs
    <3>2. cpuLeg' = cpuLeg /\ cpuPc' = cpuPc /\ cpuPos' = cpuPos
      BY <1>0
    <3>3. CASE l = ioLeg
      <4>1. Legs[l].to = "IO" /\ Legs[l] = IoLegs[ioLeg]
        BY <1>2, <1>10, <3>3
      <4>2. Arrived(l)' = got2
        BY ONLY <1>2, <1>4, <2>1, <3>1, <3>3, <4>1 DEF Arrived
      <4> QED  BY <1>11, <3>3, <4>2
    <3>4. CASE l # ioLeg
      <4>1. Arrived(l)' = Arrived(l)
        BY ONLY <1>4, <2>1, <3>1, <3>2, <3>4 DEF Arrived
      <4> QED  BY <1>11, <3>4, <4>1
    <3> QED  BY <3>3, <3>4
  <2> QED  BY <1>11, <2>1, <2>2 DEF InvGot
<1> QED
  BY <1>0, <1>4, <1>5, <1>6, <1>7, <1>8, <1>9, <1>12, <1>13
  DEF InvTxAck1, InvTxAck0, InvRxEnd

LEMMA StepInitiateResponse ==
  ASSUME IInv, IoInitiateResponse
  PROVE  IInv'
<1> USE DEF IInv, IoInitiateResponse, IoStep, cpuLines, cpuVars
<1>1. script \in Scripts /\ ioScript = script
  BY DEF TypeOK, Channel!NoScript, InvFinRecv, Joined
<1>2. Len(IoLegs) = 2 /\ IoLegs[2].to = "CPU" /\ IoPlace = <<2, 0>>
  BY <1>1, ScriptLegs DEF InvFinRecv, IoLegs
<1>3. TypeOK'
  BY DEF TypeOK, InRange, Signal, Legs
<1>4. InvReq'
  BY <1>1, <1>2, ScriptType DEF InvReq, IoLegs, IoPlace
<1>5. InvTx'
  BY DEF InvFinRecv, InvTx, Joined, CpuReady, CpuClosing, CpuPlace, IoPlace
<1>6. InvGot'
  BY
  DEF InvGot, Together, Arrived, Joined, CpuFresh, CpuSending, InvFinRecv,
      CpuReady, CpuClosing, Channel!Complete, Channel!LegDone, Channel!Legs,
      Legs, CpuPlace, ByteOf
<1> QED
  BY <1>3, <1>4, <1>5, <1>6
  DEF InvOut, InvTxAck1, InvTxAck0, InvRx, InvRxEnd, InvFinRecv

LEMMA StepFinalizeSend ==
  ASSUME IInv, IoFinalizeSend
  PROVE  IInv'
<1> USE DEF IInv, IoFinalizeSend, IoStep, cpuLines, cpuVars
<1>1. TypeOK'
  BY DEF TypeOK, InRange, Signal, Legs
<1>2. InvReq' /\ InvGot'
  BY DEF InvReq, InvGot, Together, Legs
<1>3. InvOut'
  BY DEF InvOut, CpuFresh, CpuClosing, CpuSending, CpuPlace, Channel!Complete,
     Channel!LegDone, Channel!Legs, ByteOf, Legs
<1> QED
  BY <1>1, <1>2, <1>3
  DEF InvTx, InvTxAck1, InvTxAck0, InvRx, InvRxEnd, InvFinRecv

-----------------------------------------------------------------------------
(* The steps of the monitor.  IO does not move.                            *)

LEMMA StepAcceptIrq ==
  ASSUME IInv, CpuAcceptIrq
  PROVE  IInv'
<1> USE DEF IInv, CpuAcceptIrq, CpuStep, ioLines, ioVars
<1>1. ioPc \in {"tx", "txAck1"} /\ CpuCalled
  BY
  DEF TypeOK, InvOut, CpuFresh, InvTx, InvTxAck1, InvTxAck0, InvRx, InvRxEnd,
      InvFinRecv
<1>2. script = ioScript /\ script \in Scripts \union {Channel!NoScript}
  BY <1>1 DEF TypeOK, InvTx, InvTxAck1, Joined
<1>3. 1 \in DOMAIN Legs /\ Legs[1].to = "CPU" /\ Legs[1].len \in Nat \ {0}
  BY <1>1, <1>2, ScriptType DEF InvReq, CpuCalled, IoPlace, IoLegs, Legs
<1>4. TypeOK'
  <2>1. InRange(script, 1, 0)
    BY <1>2, <1>3, ScriptType DEF InRange, Legs
  <2> QED  BY <2>1 DEF TypeOK, InRange, Signal, Legs
<1>5. InvReq'
  BY DEF InvReq, IoLegs
<1>6. InvTx' /\ InvTxAck1'
  BY <1>1
  DEF InvTx, InvTxAck1, Joined, CpuReady, CpuCalled, CpuClosing, CpuPlace,
      IoPlace, IoLegs
<1>7. InvGot'
  BY <1>1, <1>2, <1>3, ScriptType
  DEF InvGot, Together, Arrived, CpuCalled, IoPlace, Legs, Channel!NothingYet
<1> QED
  BY <1>1, <1>4, <1>5, <1>6, <1>7
  DEF InvOut, InvTxAck0, InvRx, InvRxEnd, InvFinRecv

LEMMA StepCpuInitiateSend ==
  ASSUME IInv, NEW s \in Scripts, CpuInitiateSend(s)
  PROVE  IInv'
<1> USE DEF IInv, CpuInitiateSend, CpuStep, ioLines, ioVars
<1>1. s \in Scripts \union {Channel!NoScript} /\ s.by = "CPU"
      /\ 1 \in DOMAIN s.legs
  BY ScriptLegs, ScriptType
<1>2. CpuFresh /\ ioPc \in {"idle", "fin", "txAck0"}
  BY
  DEF TypeOK, InvOut, CpuClosing, InvTx, InvTxAck1, InvTxAck0, InvRx,
      InvRxEnd, CpuReady, CpuSending, CpuCalled, InvFinRecv
<1>3. CpuFresh'
  BY <1>1, <1>2 DEF CpuFresh, CpuSending, CpuPlace
<1>4. TypeOK'
  BY <1>1, <1>2, ScriptType
  DEF TypeOK, InRange, Signal, Legs, Channel!NothingYet
<1>5. InvReq'
  BY DEF InvReq, IoLegs
<1>6. InvOut' /\ InvTxAck0'
  BY <1>2, <1>3
  DEF InvOut, InvTxAck0, CpuReady, CpuSending, PlaceAfter, EndOf, IoLegs
<1>7. InvGot'
  BY <1>1, <1>2, <1>3, ScriptType
  DEF InvGot, Together, Legs, Channel!NothingYet, Channel!Prefix
<1> QED
  BY <1>2, <1>4, <1>5, <1>6, <1>7
  DEF InvTx, InvTxAck1, InvRx, InvRxEnd, InvFinRecv

\* What every step needs to know of the two transactions.
LEMMA ScriptsKnown ==
  ASSUME IInv
  PROVE  /\ script \in Scripts \union {Channel!NoScript}
         /\ ioScript \in Scripts \union {Channel!NoScript}
         /\ script.by = "CPU" => /\ script \in Scripts /\ Len(Legs) = 2
                                 /\ Legs[1].to = "IO" /\ Legs[2].to = "CPU"
<1>1. /\ script \in Scripts \union {Channel!NoScript}
      /\ ioScript \in Scripts \union {Channel!NoScript}
  BY DEF IInv, TypeOK
<1> QED  BY <1>1, ScriptLegs DEF Channel!NoScript, Legs

LEMMA StepSendData ==
  ASSUME IInv, CpuSendData
  PROVE  IInv'
<1> USE DEF IInv, CpuSendData, CpuStep, ioLines, ioVars, Joined, CpuPlace, IoPlace
<1>1. ioPc \in {"idle", "fin", "txAck0", "rx", "rxEnd"}
  BY ScriptsKnown
  DEF TypeOK, InvReq, InvTx, InvTxAck1, InvFinRecv, CpuReady, CpuCalled,
      CpuClosing, CpuTo, InUnit, IoLegs, Legs
<1>2. TypeOK'
  BY ScriptsKnown, ScriptType
  DEF TypeOK, InRange, Data, ByteOf, Channel!Byte, Pad, CpuTo, Legs
<1>3. InvReq'
  BY DEF InvReq, IoLegs
<1>4. InvOut'
  BY DEF InvOut, CpuFresh, CpuSending, CpuClosing, Channel!Complete,
     Channel!LegDone, Channel!Legs, Legs, ByteOf
<1>5. InvTxAck0'
  BY
  DEF InvTxAck0, CpuFresh, CpuReady, CpuSending, CpuTo, PlaceAfter, Unit1,
      Unit2, EndOf, InUnit, IoLegs, Legs, ByteOf, Channel!Complete,
      Channel!LegDone, Channel!Legs
<1>6. InvRx'
  BY DEF InvRx, CpuSending, CpuClosing, PlaceAfter, ByteOf, Legs
<1>7. InvRxEnd'
  <2> SUFFICES ASSUME ioPc = "rxEnd" PROVE InvRxEnd'
    BY DEF InvRxEnd
  <2>1. /\ ioLeg \in DOMAIN Legs /\ Legs[ioLeg].to = "IO"
        /\ ioPos \in Nat /\ Legs[ioLeg].len \in Nat \ {0}
    BY ScriptsKnown, ScriptType
    DEF TypeOK, InvReq, InvRxEnd, InRange, IoLegs, Legs
  <2>2. cpuPc = "op" /\ pair = {"SEND"} /\ outDena = 1 /\ <<cpuLeg, cpuPos>> = Unit1
    BY DEF InvRxEnd
  <2>3. cpuLeg = ioLeg
    <3>1. CASE cpuLeg = ioLeg + 1
      <4>1. cpuLeg \in DOMAIN Legs /\ Legs[cpuLeg].to = "IO"
        BY DEF CpuTo
      <4>2. script \in Scripts
        BY <4>1, ScriptsKnown DEF Channel!NoScript, Legs
      <4> QED  BY <2>1, <3>1, <4>1, <4>2, ScriptLegs, ScriptType DEF Legs
    <3> QED  BY <2>2, <3>1 DEF Unit1, PlaceAfter
  <2>4. cpuPos = ioPos + 1
    <3>1. ioLeg \in Nat
      BY <2>1, ScriptsKnown, ScriptType DEF Legs
    <3> QED  BY <2>2, <2>3, <3>1 DEF Unit1, PlaceAfter
  <2>5. outData' = ByteOf(Legs, ioLeg, ioPos + 2)
    BY <2>1, <2>3, <2>4
  <2> QED  BY <2>2, <2>3, <2>4, <2>5 DEF InvRxEnd, Unit1, ByteOf, IoLegs, Legs
<1>8. InvGot'
  BY
  DEF InvGot, Together, Arrived, CpuFresh, CpuSending, CpuClosing, InvTxAck0,
      InvOut, CpuReady, Channel!Complete, Channel!LegDone, Channel!Legs, Legs,
      ByteOf, EndOf
<1> QED
  BY <1>1, <1>2, <1>3, <1>4, <1>5, <1>6, <1>7, <1>8
  DEF InvTx, InvTxAck1, InvFinRecv

LEMMA StepSendDena ==
  ASSUME IInv, CpuSendDena
  PROVE  IInv'
<1> USE DEF IInv, CpuSendDena, CpuStep, ioLines, ioVars, Joined, CpuPlace, IoPlace
<1>1. ioPc \in {"idle", "fin", "txAck0", "rx", "rxEnd"}
  BY DEF TypeOK, InvTx, InvTxAck1, InvFinRecv, CpuReady, CpuCalled, CpuClosing
<1>2. TypeOK' /\ InvReq'
  BY DEF TypeOK, InRange, Signal, Legs, InvReq, IoLegs
<1>3. InvOut'
  BY DEF InvOut, CpuFresh, CpuSending, CpuClosing, InUnit, Legs, ByteOf
<1>4. InvTxAck0'
  BY DEF InvTxAck0, CpuFresh, CpuReady, CpuSending, CpuTo, Unit1, Unit2, EndOf,
     InUnit, IoLegs, Legs, ByteOf
<1>5. InvRx' /\ InvRxEnd'
  BY
  DEF InvRx, InvRxEnd, CpuSending, CpuClosing, PlaceAfter, Unit1, InUnit,
      ByteOf, IoLegs, Legs
<1>6. InvGot'
  BY DEF InvGot, Together, Arrived, CpuFresh, CpuSending, InvTxAck0, InvOut,
     CpuReady, CpuClosing, InUnit, Legs, ByteOf
<1> QED
  BY <1>1, <1>2, <1>3, <1>4, <1>5, <1>6
  DEF InvTx, InvTxAck1, InvFinRecv

\* What CpuAdvance does, whoever received the byte.
LEMMA Advance ==
  ASSUME IInv, cpuPc # "idle", cpuLeg \in DOMAIN Legs, NEW p, CpuAdvance(p)
  PROVE  /\ pair' = p
         /\ CpuPlace' = PlaceAfter(script, cpuLeg, cpuPos + 1)
         /\ cpuPc' = IF p = {} /\ CpuPlace' = EndOf(script) THEN "idle" ELSE "op"
         /\ InRange(script, cpuLeg', cpuPos')
<1>1. /\ cpuLeg \in 1..Len(Legs) /\ Len(Legs) \in Nat
      /\ cpuPos \in Nat /\ cpuPos < Legs[cpuLeg].len
      /\ \A l \in 1..Len(Legs) : Legs[l].len \in Nat \ {0}
      /\ DOMAIN Legs = 1..Len(Legs)
  BY ScriptsKnown, ScriptType DEF IInv, TypeOK, InRange, Legs
<1>2. CASE cpuPos + 1 = Legs[cpuLeg].len
  <2>1. pair' = p /\ cpuLeg' = cpuLeg + 1 /\ cpuPos' = 0
        /\ cpuPc' = IF cpuLeg = Len(Legs) /\ p = {} THEN "idle" ELSE "op"
    BY <1>2 DEF CpuAdvance
  <2> QED
    BY <1>1, <1>2, <2>1 DEF CpuPlace, PlaceAfter, EndOf, InRange, Legs
<1>3. CASE cpuPos + 1 # Legs[cpuLeg].len
  <2>1. pair' = p /\ cpuLeg' = cpuLeg /\ cpuPos' = cpuPos + 1 /\ cpuPc' = "op"
    BY <1>3 DEF CpuAdvance
  <2> QED
    BY <1>1, <1>3, <2>1 DEF CpuPlace, PlaceAfter, EndOf, InRange, Legs
<1> QED  BY <1>2, <1>3

LEMMA StepSendAcked ==
  ASSUME IInv, CpuSendAcked
  PROVE  IInv'
<1> USE DEF IInv
<1>0. /\ cpuPc = "sAck" /\ outDack = IF InUnit("SEND") THEN 0 ELSE 1
      /\ CpuAdvance(Toggled("SEND"))
      /\ UNCHANGED <<ioLines, cpuLines, irq, ioVars, script, got>>
  BY DEF CpuSendAcked
<1> USE DEF ioLines, cpuLines, ioVars
<1>1. \/ ioPc = "rxEnd" /\ pair = {} /\ CpuPlace = IoPlace
      \/ /\ ioPc \in {"idle", "fin", "tx", "txAck1", "rx", "finRecv"}
         /\ pair = {"SEND"}
  BY <1>0 DEF TypeOK, InvOut, InvTx, InvTxAck1, InvTxAck0, InvRx, InvRxEnd,
     InvFinRecv, CpuReady, CpuCalled, CpuFresh, CpuSending, CpuClosing, InUnit
<1>2. cpuLeg \in DOMAIN Legs
  <2>1. CASE ioPc = "rxEnd"
    BY <1>0, <1>1, <2>1
    DEF InvReq, InvRxEnd, CpuPlace, IoPlace, Joined, IoLegs, Legs
  <2>2. CASE ioPc # "rxEnd"
    BY <1>0, <1>1, <2>2
    DEF InvOut, InvTx, InvTxAck1, InvRx, InvFinRecv, CpuReady, CpuCalled,
        CpuFresh, CpuSending, CpuClosing
  <2> QED  BY <2>1, <2>2
<1>3. /\ pair' = Toggled("SEND")
      /\ CpuPlace' = PlaceAfter(script, cpuLeg, cpuPos + 1)
      /\ cpuPc' = IF Toggled("SEND") = {} /\ CpuPlace' = EndOf(script)
                  THEN "idle" ELSE "op"
      /\ InRange(script, cpuLeg', cpuPos')
  BY <1>0, <1>2, Advance
<1>4. TypeOK'
  BY <1>0, <1>3 DEF TypeOK, Toggled, InRange, Legs
<1>5. InvReq'
  BY <1>0 DEF InvReq, IoLegs
<1>6. Channel!Complete' = Channel!Complete /\ Legs' = Legs /\ IoLegs' = IoLegs
  BY <1>0 DEF Channel!Complete, Channel!LegDone, Channel!Legs, Legs, IoLegs
<1>7. CASE ioPc = "rxEnd"
  <2>1. pair' = {"SEND"} /\ cpuPc' = "op" /\ outDena = 1
    BY <1>0, <1>1, <1>3, <1>7 DEF InvRxEnd, Toggled
  <2>2. InvRxEnd'
    BY <1>0, <1>1, <1>3, <1>7, <2>1
    DEF InvRxEnd, Unit1, CpuPlace, IoPlace, PlaceAfter, Joined, IoLegs
  <2>3. InvGot'
    <3>1. cpuLeg = ioLeg /\ Legs[cpuLeg].to = "IO" /\ Joined /\ cpuPos \in Nat
      BY <1>0, <1>1, <1>7
      DEF InvRxEnd, InvReq, CpuPlace, IoPlace, Joined, IoLegs, Legs, TypeOK,
          InRange
    <3>2. \A l \in DOMAIN Legs : Arrived(l)' = Arrived(l)
      BY <1>0, <1>2, <1>3, <1>6, <2>1, <3>1, ScriptsKnown, ScriptType
      DEF Arrived, CpuPlace, PlaceAfter, Legs
    <3> QED  BY <1>0, <1>6, <1>7, <2>1, <3>1, <3>2 DEF InvGot, Together, Joined
  <2> QED
    BY <1>0, <1>4, <1>5, <1>7, <2>2, <2>3
    DEF InvOut, InvTx, InvTxAck1, InvTxAck0, InvRx, InvFinRecv
<1>8. CASE ioPc \in {"idle", "fin"}
  <2>1. CpuFresh'
    BY <1>0, <1>1, <1>3, <1>6, <1>8
    DEF InvOut, CpuFresh, CpuSending, CpuClosing, Toggled
  <2> QED
    BY <1>0, <1>4, <1>5, <1>6, <1>8, <2>1
    DEF InvOut, InvTx, InvTxAck1, InvTxAck0, InvRx, InvRxEnd, InvFinRecv,
        InvGot, Together
<1>9. CASE ioPc \in {"tx", "txAck1", "rx", "finRecv"}
  <2>1. CpuPlace' = IoPlace /\ outDena = 0 /\ Joined /\ ~irq /\ CpuClosing(IoPlace)
    BY <1>0, <1>1, <1>3, <1>9
    DEF InvTx, InvTxAck1, InvRx, InvFinRecv, CpuReady, CpuCalled, CpuSending,
        CpuClosing
  <2>2. ioLeg \in DOMAIN Legs /\ IoPlace # EndOf(script)
    BY <1>9, <2>1, ScriptsKnown, ScriptType
    DEF InvReq, InvFinRecv, Joined, EndOf, IoPlace, IoLegs, Legs
  <2>3. CpuReady(IoPlace)'
    BY <1>0, <1>1, <1>3, <1>9, <2>1, <2>2
    DEF CpuReady, Toggled, IoPlace, CpuPlace
  <2>4. InvTx' /\ InvTxAck1' /\ InvFinRecv'
    <3>1. InvTx' /\ InvFinRecv'
      BY <1>0, <1>6, <2>1, <2>3 DEF InvTx, InvFinRecv, Joined, IoPlace
    <3>2. InvTxAck1'
      BY <1>0, <1>6, <2>1, <2>3 DEF InvTxAck1, Joined, CpuClosing, ByteOf
    <3> QED  BY <3>1, <3>2
  <2>5. InvRx'
    BY <1>0, <1>6, <2>3, <1>9 DEF InvRx, Joined, IoPlace, CpuReady, CpuSending
  <2>6. InvGot'
    <3>1. \A l \in DOMAIN Legs : Arrived(l)' = Arrived(l)
      BY <1>0, <1>2, <1>3, <1>6, <2>1, <2>3, ScriptsKnown, ScriptType
      DEF Arrived, CpuClosing, CpuPlace, PlaceAfter, Legs, CpuReady
    <3> QED  BY <1>0, <1>6, <1>9, <2>1, <2>3, <3>1 DEF InvGot, Together, Joined
  <2> QED
    BY <1>0, <1>4, <1>5, <1>9, <2>4, <2>5, <2>6 DEF InvOut, InvTxAck0, InvRxEnd
<1> QED  BY <1>1, <1>7, <1>8, <1>9

\* The byte the monitor takes is the next one of the leg both boards are in.
LEMMA ReceiveDataFacts ==
  ASSUME IInv, CpuReceiveData
  PROVE  /\ cpuLeg \in DOMAIN Legs /\ Legs[cpuLeg].to = "CPU"
         /\ cpuPos \in Nat /\ cpuPos < Legs[cpuLeg].len
         /\ Joined /\ outDena = 0 /\ outReq = 0 /\ ~irq /\ outDack = 0
         /\ \/ /\ ioPc = "txAck1" /\ pair = {} /\ inDack = 0 /\ inDena = 1
               /\ CpuPlace = IoPlace
            \/ /\ ioPc = "txAck0" /\ pair = {"RECV"} /\ inDack = 1 /\ inDena = 0
               /\ CpuPlace = Unit1
         /\ cpuLeg = ioLeg /\ Together
         /\ Len(got[cpuLeg]) = cpuPos
         /\ got' = [got EXCEPT ![cpuLeg] = Channel!Prefix(cpuLeg, cpuPos + 1)]
<1> USE DEF IInv
<1>0. /\ cpuPc = "op" /\ cpuPc' = "rDack" /\ CpuTo = "CPU"
      /\ ~InUnit("SEND") /\ ~RequestSent
      /\ inDena = IF InUnit("RECV") THEN 0 ELSE 1
      /\ got' = [got EXCEPT ![cpuLeg] = Append(got[cpuLeg], inData)]
      /\ UNCHANGED <<ioLines, cpuLines, irq, ioVars, cpuLeg, cpuPos, pair, script>>
  BY DEF CpuReceiveData, CpuStep
<1> USE DEF ioLines, cpuLines, ioVars
<1>1. /\ cpuLeg \in DOMAIN Legs /\ Legs[cpuLeg].to = "CPU"
      /\ cpuPos \in Nat /\ cpuPos < Legs[cpuLeg].len
  BY <1>0 DEF CpuTo, TypeOK, InRange, Legs
<1>2. /\ Joined /\ outDena = 0 /\ outReq = 0 /\ ~irq /\ outDack = 0
      /\ \/ /\ ioPc = "txAck1" /\ pair = {} /\ inDack = 0 /\ inDena = 1
            /\ CpuPlace = IoPlace
         \/ /\ ioPc = "txAck0" /\ pair = {"RECV"} /\ inDack = 1 /\ inDena = 0
            /\ CpuPlace = Unit1
  BY <1>0, <1>1, ScriptsKnown
  DEF TypeOK, InvOut, InvTx, InvTxAck1, InvTxAck0, InvRx, InvRxEnd, InvFinRecv,
      CpuReady, CpuCalled, CpuFresh, CpuSending, CpuClosing, CpuPlace, InUnit
<1>3. /\ ioLeg \in DOMAIN Legs /\ Legs[ioLeg].to = "CPU" /\ ioLeg \in Nat
      /\ ioPos \in Nat /\ Legs[ioLeg].len \in Nat \ {0}
  BY <1>2, ScriptsKnown, ScriptType
  DEF InvReq, TypeOK, InRange, Joined, IoLegs, Legs
<1>4. cpuLeg = ioLeg
  <2>1. CASE cpuLeg = ioLeg + 1
    <3>1. script \in Scripts
      BY <1>1, ScriptsKnown DEF Channel!NoScript, Legs
    <3> QED  BY <1>1, <1>3, <2>1, <3>1, ScriptLegs, ScriptType DEF Legs
  <2> QED  BY <1>2, <2>1 DEF CpuPlace, IoPlace, Unit1, PlaceAfter
<1>5. /\ inData = Channel!Byte(cpuLeg, cpuPos + 1)
      /\ Together /\ Len(got[cpuLeg]) = cpuPos
      /\ got[cpuLeg] = Channel!Prefix(cpuLeg, cpuPos)
  <2>1. Together
    BY <1>0, <1>2 DEF Together, CpuFresh, CpuSending
  <2>2. Len(got[cpuLeg]) = cpuPos
    BY <1>0, <1>1, <2>1, ScriptsKnown, ScriptType DEF InvGot, Arrived, Legs
  <2>3. inData = Channel!Byte(cpuLeg, cpuPos + 1)
    <3>1. CASE ioPc = "txAck1"
      BY <1>1, <1>2, <1>3, <1>4, <3>1
      DEF InvTxAck1, ByteOf, CpuPlace, IoPlace, Joined, IoLegs, Legs
    <3>2. CASE ioPc = "txAck0"
      <4>1. cpuPos = ioPos + 1
        BY <1>2, <1>3, <1>4, <3>2 DEF CpuPlace, Unit1, PlaceAfter
      <4> QED  BY <1>1, <1>2, <1>3, <1>4, <3>2, <4>1
               DEF InvTxAck0, ByteOf, Joined, IoLegs, Legs
    <3> QED  BY <1>2, <3>1, <3>2
  <2> QED  BY <1>1, <2>1, <2>2, <2>3 DEF InvGot
<1>6. got' = [got EXCEPT ![cpuLeg] = Channel!Prefix(cpuLeg, cpuPos + 1)]
  BY <1>0, <1>1, <1>5, PrefixAppend
<1> QED  BY <1>1, <1>2, <1>4, <1>5, <1>6

LEMMA StepReceiveData ==
  ASSUME IInv, CpuReceiveData
  PROVE  IInv'
<1> USE DEF IInv
<1>0. /\ cpuPc = "op" /\ cpuPc' = "rDack"
      /\ UNCHANGED <<ioLines, cpuLines, irq, ioVars, cpuLeg, cpuPos, pair, script>>
  BY DEF CpuReceiveData, CpuStep
<1> USE DEF ioLines, cpuLines, ioVars
<1>1. /\ cpuLeg \in DOMAIN Legs /\ Legs[cpuLeg].to = "CPU"
      /\ cpuPos \in Nat /\ cpuPos < Legs[cpuLeg].len
  BY ReceiveDataFacts
<1>2. /\ Joined /\ outDena = 0 /\ outReq = 0 /\ ~irq /\ outDack = 0
      /\ \/ /\ ioPc = "txAck1" /\ pair = {} /\ inDack = 0 /\ inDena = 1
            /\ CpuPlace = IoPlace
         \/ /\ ioPc = "txAck0" /\ pair = {"RECV"} /\ inDack = 1 /\ inDena = 0
            /\ CpuPlace = Unit1
  BY ReceiveDataFacts
<1>4. cpuLeg = ioLeg
  BY ReceiveDataFacts
<1>5. Together
  BY ReceiveDataFacts
<1>6. got' = [got EXCEPT ![cpuLeg] = Channel!Prefix(cpuLeg, cpuPos + 1)]
  BY ReceiveDataFacts
<1>7. TypeOK' /\ InvReq'
  BY <1>0, <1>6 DEF TypeOK, InRange, InvReq, IoLegs, Legs
<1>8. InvTxAck1' /\ InvTxAck0'
  BY <1>0, <1>2, <1>4
  DEF InvTxAck1, InvTxAck0, CpuPlace, IoPlace, Unit1, PlaceAfter, Joined,
      ByteOf, IoLegs
<1>9. InvGot'
  <2>1. \A l \in DOMAIN Legs :
          got'[l] = IF l = cpuLeg THEN Channel!Prefix(cpuLeg, cpuPos + 1) ELSE got[l]
    BY <1>6 DEF TypeOK
  <2>2. \A l \in DOMAIN Legs : Len(got'[l]) = Arrived(l)'
    <3>1. Len(Channel!Prefix(cpuLeg, cpuPos + 1)) = cpuPos + 1
      BY <1>1, PrefixAppend
    <3>2. \A l \in DOMAIN Legs : l # cpuLeg => Arrived(l)' = Arrived(l)
      BY <1>0, <1>1, ScriptsKnown, ScriptType DEF Arrived, Legs
    <3>3. Arrived(cpuLeg)' = cpuPos + 1
      BY <1>0, <1>1, ScriptsKnown, ScriptType DEF Arrived, Legs
    <3> QED  BY <1>0, <1>5, <2>1, <3>1, <3>2, <3>3 DEF InvGot, Legs
  <2>3. \A l \in DOMAIN Legs : got'[l] = Channel!Prefix(l, Len(got'[l]))
    <3>1. Len(Channel!Prefix(cpuLeg, cpuPos + 1)) = cpuPos + 1
      BY <1>1, PrefixAppend
    <3>2. \A l \in DOMAIN Legs : got[l] = Channel!Prefix(l, Len(got[l]))
      BY DEF InvGot
    <3> QED  BY <2>1, <3>1, <3>2
  <2> QED  BY <1>0, <1>2, <2>2, <2>3 DEF InvGot, Legs
<1> QED
  BY <1>0, <1>2, <1>7, <1>8, <1>9
  DEF InvOut, InvTx, InvRx, InvRxEnd, InvFinRecv

LEMMA StepReceiveDack ==
  ASSUME IInv, CpuReceiveDack
  PROVE  IInv'
<1> USE DEF IInv
<1>0. /\ cpuPc = "rDack" /\ inDack' = IF InUnit("RECV") THEN 0 ELSE 1
      /\ CpuAdvance(Toggled("RECV"))
      /\ UNCHANGED <<ioLines, outReq, outDena, outData, irq, ioVars, script, got>>
  BY DEF CpuReceiveDack
<1> USE DEF ioLines, ioVars
<1>1. /\ Joined /\ outDena = 0 /\ outReq = 0 /\ ~irq /\ outDack = 0
      /\ cpuLeg = ioLeg
      /\ \/ /\ ioPc = "txAck1" /\ pair = {} /\ inDack = 0 /\ inDena = 1
            /\ CpuPlace = IoPlace
         \/ /\ ioPc = "txAck0" /\ pair = {"RECV"} /\ inDack = 1 /\ inDena = 0
            /\ CpuPlace = Unit1
  BY <1>0
  DEF TypeOK, InvOut, InvTx, InvTxAck1, InvTxAck0, InvRx, InvRxEnd, InvFinRecv,
      CpuReady, CpuCalled, CpuFresh, CpuSending, CpuClosing, CpuPlace, IoPlace
<1>2. /\ ioLeg \in DOMAIN Legs /\ Legs[ioLeg].to = "CPU" /\ ioLeg \in Nat
      /\ ioPos \in Nat /\ Legs[ioLeg].len \in Nat \ {0}
      /\ cpuPos \in Nat /\ cpuPos < Legs[ioLeg].len
  BY <1>0, <1>1, ScriptsKnown, ScriptType
  DEF InvReq, TypeOK, InRange, Joined, IoLegs, Legs
<1>3. /\ pair' = Toggled("RECV")
      /\ CpuPlace' = PlaceAfter(script, cpuLeg, cpuPos + 1)
      /\ cpuPc' = IF Toggled("RECV") = {} /\ CpuPlace' = EndOf(script)
                  THEN "idle" ELSE "op"
      /\ InRange(script, cpuLeg', cpuPos')
  BY <1>0, <1>1, <1>2, Advance
<1>4. TypeOK' /\ InvReq'
  BY <1>0, <1>3 DEF TypeOK, Signal, Toggled, InRange, InvReq, IoLegs, Legs
<1>5. Together /\ \A l \in DOMAIN Legs : Len(got[l]) = Arrived(l)
  BY <1>0, <1>1 DEF InvGot, Together, CpuFresh, CpuSending
<1>6. cpuPc' = "op" => InvGot'
  <2> SUFFICES ASSUME cpuPc' = "op" PROVE InvGot'  OBVIOUS
  <2>1. \A l \in DOMAIN Legs : Arrived(l)' = Arrived(l)
    BY <1>0, <1>1, <1>2, <1>3, <1>5, ScriptsKnown, ScriptType
    DEF Arrived, CpuPlace, PlaceAfter, Legs
  <2> QED  BY <1>0, <1>1, <1>5, <2>1 DEF InvGot, Legs
<1>7. CASE ioPc = "txAck1"
  <2>1. pair' = {"RECV"} /\ cpuPc' = "op" /\ CpuPlace' = Unit1 /\ inDack' = 1
    BY <1>0, <1>1, <1>3, <1>7 DEF Toggled, InUnit, Unit1, CpuPlace, IoPlace
  <2>2. InvTxAck1'
    BY <1>0, <1>1, <2>1, <1>7
    DEF InvTxAck1, Joined, CpuPlace, Unit1, PlaceAfter, IoPlace, ByteOf, IoLegs
  <2> QED
    BY <1>0, <1>4, <1>6, <1>7, <2>1, <2>2
    DEF InvOut, InvTx, InvTxAck0, InvRx, InvRxEnd, InvFinRecv
<1>8. CASE ioPc = "txAck0"
  <2>1. cpuPos = ioPos + 1
    BY <1>1, <1>2, <1>8 DEF CpuPlace, Unit1, PlaceAfter
  <2>2. pair' = {} /\ inDack' = 0 /\ CpuPlace' = Unit2
    BY <1>0, <1>1, <1>2, <1>3, <1>8, <2>1 DEF Toggled, InUnit, Unit2
  <2>3. CASE Unit2 = EndOf(script)
    <3>1. cpuPc' = "idle"
      BY <1>3, <2>2, <2>3, <1>1, <1>8 DEF Toggled
    <3>2. Channel!Complete
      <4>1. ioLeg = Len(Legs) /\ cpuPos + 1 = Legs[ioLeg].len
        BY <1>2, <2>1, <2>3, ScriptsKnown, ScriptType
        DEF Unit2, PlaceAfter, EndOf, Legs
      <4> QED
        BY <1>0, <1>1, <1>2, <1>5, <4>1, ScriptsKnown, ScriptType
        DEF Arrived, Channel!Complete, Channel!LegDone, Channel!Legs, Legs
    <3>3. CpuFresh'
      BY <1>0, <1>1, <2>2, <3>1, <3>2
      DEF CpuFresh, Channel!Complete, Channel!LegDone, Channel!Legs
    <3>4. InvTxAck0'
      BY <1>0, <1>1, <1>8, <2>3, <3>3
      DEF InvTxAck0, Joined, Unit2, PlaceAfter, EndOf, ByteOf, IoLegs
    <3> QED
      BY <1>0, <1>1, <1>4, <1>8, <3>1, <3>4
      DEF InvOut, InvTx, InvTxAck1, InvRx, InvRxEnd, InvFinRecv, InvGot,
          Together, Legs
  <2>4. CASE Unit2 # EndOf(script)
    <3>1. CpuReady(Unit2)' /\ Unit2' = Unit2
      BY <1>0, <1>1, <1>3, <2>2, <2>4 DEF CpuReady, Unit2, PlaceAfter
    <3>2. InvTxAck0'
      BY <1>0, <1>1, <1>8, <2>2, <2>4, <3>1
      DEF InvTxAck0, Joined, EndOf, ByteOf, IoLegs
    <3> QED
      BY <1>0, <1>4, <1>6, <1>8, <3>1, <3>2
      DEF InvOut, InvTx, InvTxAck1, InvRx, InvRxEnd, InvFinRecv, CpuReady
  <2> QED  BY <2>3, <2>4
<1> QED  BY <1>1, <1>7, <1>8

LEMMA StepFlushRecv ==
  ASSUME IInv, CpuFlushRecv
  PROVE  IInv'
<1> USE DEF IInv, CpuFlushRecv, CpuStep, ioLines, ioVars
<1>1. /\ ioPc = "txAck0" /\ Joined /\ inDack = 1 /\ outReq = 0 /\ outDena = 0
      /\ pair = {"RECV"} /\ CpuPlace = Unit1 /\ cpuPc = "op" /\ CpuTo = "IO"
      /\ inDena = 0 /\ outDack = 0 /\ ~irq
  BY
  DEF TypeOK, InvOut, InvTx, InvTxAck1, InvTxAck0, InvRx, InvRxEnd,
      InvFinRecv, CpuReady, CpuCalled, CpuFresh, CpuSending, CpuClosing,
      InUnit
<1>2. /\ ioLeg \in 1..Len(Legs) /\ Legs[ioLeg].to = "CPU"
      /\ ioPos \in Nat /\ Legs[ioLeg].len \in Nat \ {0}
      /\ cpuLeg \in 1..Len(Legs) /\ Legs[cpuLeg].to = "IO" /\ Len(Legs) \in Nat
  BY <1>1, ScriptsKnown, ScriptType
  DEF InvReq, TypeOK, InRange, Joined, CpuTo, IoLegs, Legs
<1>3. cpuLeg = ioLeg + 1 /\ cpuPos = 0 /\ ioPos + 1 >= Legs[ioLeg].len
  BY <1>1, <1>2 DEF CpuPlace, Unit1, PlaceAfter, Legs
<1>4. Unit2 = CpuPlace /\ Unit2 # EndOf(script)
  BY <1>2, <1>3 DEF CpuPlace, Unit2, PlaceAfter, EndOf, Legs
<1>5. CpuReady(Unit2)'
  BY <1>1, <1>4 DEF CpuReady, CpuPlace, Unit2, PlaceAfter
<1>6. InvTxAck0'
  BY <1>1, <1>4, <1>5
  DEF InvTxAck0, Joined, Unit2, PlaceAfter, EndOf, ByteOf, IoLegs
<1>7. TypeOK' /\ InvReq'
  BY DEF TypeOK, InRange, Signal, Legs, InvReq, IoLegs
<1>8. InvGot'
  BY <1>1 DEF InvGot, Together, Arrived, Joined, CpuFresh, CpuSending, Legs
<1> QED
  BY <1>1, <1>6, <1>7, <1>8
  DEF InvOut, InvTx, InvTxAck1, InvRx, InvRxEnd, InvFinRecv

LEMMA StepFlushSend ==
  ASSUME IInv, CpuFlushSend
  PROVE  IInv'
<1> USE DEF IInv, CpuFlushSend, CpuStep, ioLines, ioVars
<1>1. ioPc = "rxEnd" /\ CpuPlace = Unit1 /\ outDena = 1 /\ CpuTo = "CPU"
  BY
  DEF TypeOK, InvOut, InvTx, InvTxAck1, InvTxAck0, InvRx, InvRxEnd,
      InvFinRecv, CpuReady, CpuCalled, CpuFresh, CpuSending, CpuClosing,
      InUnit
<1>2. cpuLeg # ioLeg
  BY <1>1 DEF InvReq, InvRxEnd, Joined, CpuTo, IoLegs, Legs
<1>3. InvRxEnd'
  BY <1>1, <1>2
  DEF InvRxEnd, Joined, CpuPlace, Unit1, PlaceAfter, InUnit, ByteOf, IoLegs
<1>4. TypeOK' /\ InvReq'
  BY DEF TypeOK, InRange, Data, Legs, InvReq, IoLegs
<1>5. InvGot'
  BY <1>1 DEF InvGot, Together, Arrived, Joined, Legs
<1> QED
  BY <1>1, <1>3, <1>4, <1>5
  DEF InvOut, InvTx, InvTxAck1, InvTxAck0, InvRx, InvFinRecv

LEMMA StepFlushSendDena ==
  ASSUME IInv, CpuFlushSendDena
  PROVE  IInv'
<1> USE DEF IInv, CpuFlushSendDena, CpuStep, ioLines, ioVars
<1>1. ioPc = "rxEnd" /\ cpuLeg # ioLeg
  BY
  DEF TypeOK, InvOut, InvTx, InvTxAck1, InvTxAck0, InvRx, InvRxEnd,
      InvFinRecv, CpuReady, CpuCalled, CpuFresh, CpuSending, CpuClosing
<1>2. InvRxEnd'
  BY <1>1 DEF InvRxEnd, Joined, CpuPlace, Unit1, PlaceAfter, ByteOf, IoLegs
<1>3. TypeOK' /\ InvReq'
  BY DEF TypeOK, InRange, Signal, Legs, InvReq, IoLegs
<1>4. InvGot'
  BY <1>1 DEF InvGot, Together, Arrived, Joined, Legs
<1> QED
  BY <1>1, <1>2, <1>3, <1>4
  DEF InvOut, InvTx, InvTxAck1, InvTxAck0, InvRx, InvFinRecv

LEMMA StepFlushSendAcked ==
  ASSUME IInv, CpuFlushSendAcked
  PROVE  IInv'
<1> USE DEF IInv, CpuFlushSendAcked, ioLines, cpuLines, ioVars
<1>1. /\ ioPc \in {"idle", "fin", "tx", "txAck1", "finRecv"}
      /\ pair = {"SEND"} /\ outDena = 0 /\ ~irq
      /\ ioPc \in {"idle", "fin"} => CpuClosing(EndOf(script))
      /\ ioPc \notin {"idle", "fin"} => CpuPlace = IoPlace /\ Joined
  <2>1. ioPc # "rx" /\ ioPc # "rxEnd"
    BY DEF InvRx, InvRxEnd, CpuSending
  <2> QED
    BY <2>1 DEF TypeOK, InvOut, InvTx, InvTxAck1, InvTxAck0, InvFinRecv,
       CpuReady, CpuCalled, CpuFresh, CpuSending, CpuClosing
<1>2. /\ Channel!Complete' = Channel!Complete /\ Legs' = Legs /\ IoLegs' = IoLegs
      /\ pair' = {}
  BY <1>1 DEF Channel!Complete, Channel!LegDone, Channel!Legs, Legs, IoLegs
<1>3. TypeOK' /\ InvReq'
  BY DEF TypeOK, InRange, Legs, InvReq, IoLegs
<1>4. CASE ioPc \in {"idle", "fin"}
  <2>1. cpuPc' = "idle"
    BY <1>1, <1>4, ScriptsKnown, ScriptType
    DEF CpuClosing, CpuPlace, EndOf, CpuTo, Legs
  <2>2. CpuFresh' /\ inDena = 0 /\ outDack = 0
    BY <1>1, <1>2, <1>4, <2>1 DEF InvOut, CpuFresh, CpuSending
  <2> QED
    BY <1>2, <1>3, <1>4, <2>1, <2>2
    DEF InvOut, InvTx, InvTxAck1, InvTxAck0, InvRx, InvRxEnd, InvFinRecv,
        InvGot, Together
<1>5. CASE ioPc \in {"tx", "txAck1", "finRecv"}
  <2>1. ioLeg \in DOMAIN Legs
    BY <1>1, <1>5, ScriptsKnown, ScriptType
    DEF InvReq, InvFinRecv, Joined, IoPlace, IoLegs, Legs
  <2>2. CpuTo # "end"
    BY <1>1, <1>5, <2>1, ScriptsKnown, ScriptType
    DEF CpuPlace, IoPlace, CpuTo, Legs
  <2>3. CpuReady(IoPlace)'
    BY <1>1, <1>2, <1>5, <2>2 DEF CpuReady, CpuPlace, IoPlace
  <2>4. InvTx' /\ InvFinRecv'
    BY <1>1, <1>2, <2>3 DEF InvTx, InvFinRecv, Joined, IoPlace
  <2>5. InvTxAck1'
    BY <1>1, <1>2, <2>3 DEF InvTxAck1, Joined, ByteOf
  <2>6. InvGot'
    BY <1>1, <1>2, <1>5, <2>3 DEF InvGot, Together, Arrived, Joined, CpuReady
  <2> QED
    BY <1>3, <1>5, <2>4, <2>5, <2>6 DEF InvOut, InvTxAck0, InvRx, InvRxEnd
<1> QED  BY <1>1, <1>4, <1>5

LEMMA StepCpuFinalizeSend ==
  ASSUME IInv, CpuFinalizeSend
  PROVE  IInv'
<1> USE DEF IInv, CpuFinalizeSend, CpuStep, ioLines, ioVars
<1>1. ioPc = "finRecv" /\ CpuReady(IoPlace)
  BY ScriptsKnown
  DEF TypeOK, InvOut, InvTx, InvTxAck1, InvTxAck0, InvRx, InvRxEnd,
      InvFinRecv, InvReq, CpuReady, CpuCalled, CpuFresh, CpuSending,
      CpuClosing, CpuPlace, IoPlace, Unit1, PlaceAfter, Joined, IoLegs, Legs,
      InUnit, RequestSent
<1>2. TypeOK' /\ InvReq'
  BY DEF TypeOK, InRange, Signal, Legs, InvReq, IoLegs
<1>3. InvFinRecv'
  BY <1>1 DEF InvFinRecv, Joined, CpuReady, CpuPlace, IoPlace
<1>4. InvGot'
  BY <1>1 DEF InvGot, Together, Arrived, Joined, Legs
<1> QED
  BY <1>1, <1>2, <1>3, <1>4
  DEF InvOut, InvTx, InvTxAck1, InvTxAck0, InvRx, InvRxEnd

LEMMA StepFinalizeRecvSend ==
  ASSUME IInv, CpuFinalizeRecvSend
  PROVE  IInv'
<1> USE DEF IInv, CpuFinalizeRecvSend, CpuStep, ioLines, ioVars
<1>1. ioPc = "rxEnd" /\ CpuPlace = Unit1 /\ outDena = 1 /\ CpuTo = "end"
  BY
  DEF TypeOK, InvOut, InvTx, InvTxAck1, InvTxAck0, InvRx, InvRxEnd,
      InvFinRecv, CpuReady, CpuCalled, CpuFresh, CpuSending, CpuClosing,
      InUnit
<1>2. cpuLeg # ioLeg
  BY <1>1, ScriptsKnown, ScriptType
  DEF InvReq, InvRxEnd, Joined, CpuTo, IoLegs, Legs
<1>3. InvRxEnd'
  BY <1>1, <1>2
  DEF InvRxEnd, Joined, CpuPlace, Unit1, PlaceAfter, InUnit, ByteOf, IoLegs
<1>4. TypeOK' /\ InvReq'
  BY DEF TypeOK, InRange, Signal, Data, Legs, InvReq, IoLegs
<1>5. InvGot'
  BY <1>1 DEF InvGot, Together, Arrived, Joined, Legs
<1> QED
  BY <1>1, <1>3, <1>4, <1>5
  DEF InvOut, InvTx, InvTxAck1, InvTxAck0, InvRx, InvFinRecv

LEMMA StepFinalizeRecvRecv ==
  ASSUME IInv, CpuFinalizeRecvRecv
  PROVE  IInv'
<1> USE DEF IInv, CpuFinalizeRecvRecv, CpuStep, ioLines, ioVars
<1>1. /\ ioPc = "txAck0" /\ Joined /\ inDack = 1 /\ outReq = 0 /\ outDena = 0
      /\ pair = {"RECV"} /\ CpuPlace = Unit1 /\ cpuPc = "op" /\ CpuTo = "end"
      /\ inDena = 0 /\ outDack = 0 /\ ~irq
  BY
  DEF TypeOK, InvOut, InvTx, InvTxAck1, InvTxAck0, InvRx, InvRxEnd,
      InvFinRecv, CpuReady, CpuCalled, CpuFresh, CpuSending, CpuClosing,
      InUnit
<1>2. /\ ioLeg \in 1..Len(Legs) /\ Legs[ioLeg].to = "CPU" /\ Len(Legs) \in Nat
      /\ ioPos \in Nat /\ Legs[ioLeg].len \in Nat \ {0}
      /\ cpuLeg \notin 1..Len(Legs) /\ DOMAIN Legs = 1..Len(Legs)
  BY <1>1, ScriptsKnown, ScriptType
  DEF InvReq, TypeOK, InRange, Joined, CpuTo, IoLegs, Legs
<1>3. /\ cpuLeg = ioLeg + 1 /\ cpuPos = 0 /\ ioPos + 1 >= Legs[ioLeg].len
      /\ ioLeg = Len(Legs)
  BY <1>1, <1>2 DEF CpuPlace, Unit1, PlaceAfter, Legs
<1>4. PlaceAfter(ioScript, ioLeg, ioPos + 2) = EndOf(ioScript)
  BY <1>1, <1>2, <1>3 DEF Joined, PlaceAfter, EndOf, Legs
<1>5. Channel!Complete
  <2>1. \A l \in DOMAIN Legs : Len(got[l]) = Arrived(l)
    BY <1>1 DEF InvGot, Together, CpuFresh, CpuSending
  <2> QED
    BY <1>1, <1>2, <1>3, <2>1
    DEF Arrived, Channel!Complete, Channel!LegDone, Channel!Legs, Legs
<1>6. CpuFresh'
  BY <1>1, <1>5 DEF CpuFresh, Channel!Complete, Channel!LegDone, Channel!Legs
<1>7. InvTxAck0'
  BY <1>1, <1>4, <1>6 DEF InvTxAck0, PlaceAfter, EndOf, ByteOf, IoLegs
<1>8. TypeOK' /\ InvReq'
  BY DEF TypeOK, InRange, Signal, Legs, InvReq, IoLegs
<1> QED
  BY <1>1, <1>7, <1>8
  DEF InvOut, InvTx, InvTxAck1, InvRx, InvRxEnd, InvFinRecv, InvGot, Together,
      Legs

LEMMA StepStutter ==
  ASSUME IInv, UNCHANGED vars
  PROVE  IInv'
<1> USE DEF IInv, vars, ioLines, cpuLines, ioVars, cpuVars
<1>1. TypeOK' /\ InvReq'
  BY DEF TypeOK, InRange, Legs, InvReq, IoLegs
<1>2. CpuFresh' = CpuFresh
  BY DEF CpuFresh, CpuSending, CpuPlace, Channel!Complete, Channel!LegDone,
     Channel!Legs, ByteOf, Legs
<1>3. InvOut'
  BY <1>2 DEF InvOut, CpuClosing, CpuPlace, PlaceAfter, EndOf, Legs,
     Channel!Complete, Channel!LegDone, Channel!Legs
<1>4. InvTx' /\ InvTxAck1'
  BY
  DEF InvTx, InvTxAck1, CpuReady, CpuCalled, CpuClosing, Joined, CpuPlace,
      IoPlace, PlaceAfter, Unit1, ByteOf, IoLegs, Legs
<1>5. InvTxAck0'
  BY <1>2
  DEF InvTxAck0, CpuReady, CpuSending, CpuTo, Joined, CpuPlace, PlaceAfter,
      Unit1, Unit2, EndOf, ByteOf, IoLegs, Legs
<1>6. InvRx' /\ InvRxEnd' /\ InvFinRecv'
  BY DEF InvRx, InvRxEnd, InvFinRecv, CpuReady, CpuSending, CpuClosing, Joined,
     CpuPlace, IoPlace, PlaceAfter, Unit1, ByteOf, IoLegs, Legs
<1>7. InvGot'
  BY <1>2 DEF InvGot, Together, Arrived, Joined, Legs
<1> QED  BY <1>1, <1>3, <1>4, <1>5, <1>6, <1>7

-----------------------------------------------------------------------------
(* Every step is a step of HandshakeChannel or leaves its variables alone. *)

LEMMA BeginsWhenComplete ==
  ASSUME IInv, NEW s \in Scripts, IoInitiateSend(s) \/ CpuInitiateSend(s)
  PROVE  Channel!Begin(s)
<1>1. CASE IoInitiateSend(s)
  BY <1>1
  DEF IoInitiateSend, IoStep, IInv, InvOut, CpuFresh, CpuSending, CpuClosing,
      Channel!Begin
<1>2. CASE CpuInitiateSend(s)
  BY <1>2
  DEF CpuInitiateSend, CpuStep, IInv, TypeOK, InvOut, CpuClosing, InvTx,
      InvTxAck1, InvTxAck0, InvRx, InvRxEnd, InvFinRecv, CpuReady, CpuSending,
      CpuCalled, CpuFresh, Channel!Begin
<1> QED  BY <1>1, <1>2

LEMMA ReceiveDataDelivers ==
  ASSUME IInv, CpuReceiveData
  PROVE  Channel!DeliverSome
<1>1. /\ cpuLeg \in DOMAIN Legs /\ cpuPos \in Nat /\ cpuPos < Legs[cpuLeg].len
      /\ cpuLeg = ioLeg /\ Together /\ Len(got[cpuLeg]) = cpuPos
      /\ got' = [got EXCEPT ![cpuLeg] = Channel!Prefix(cpuLeg, cpuPos + 1)]
  BY ReceiveDataFacts
<1>2. \A k \in DOMAIN Legs : k < cpuLeg => Len(got[k]) = Legs[k].len
  BY <1>1 DEF IInv, InvGot, Arrived
<1>3. Legs[cpuLeg].len \in Nat
  BY <1>1, ScriptsKnown, ScriptType DEF Legs
<1>4. Channel!Deliver(cpuLeg)
  <2>1. /\ 1 \in {1, 2} /\ Len(got[cpuLeg]) + 1 <= Channel!Legs[cpuLeg].len
        /\ got' = [got EXCEPT ![cpuLeg] =
                     Channel!Prefix(cpuLeg, Len(got[cpuLeg]) + 1)]
    BY <1>1, <1>3 DEF Channel!Legs, Legs
  <2>2. UNCHANGED script
    BY DEF CpuReceiveData
  <2> QED
    BY <1>2, <2>1, <2>2
    DEF Channel!Deliver, Channel!LegDone, Channel!Legs, Legs
<1> QED  BY <1>1, <1>4 DEF Channel!DeliverSome, Channel!Legs, Legs

LEMMA ReceiveSecondDelivers ==
  ASSUME IInv, IoReceiveSecond
  PROVE  Channel!DeliverSome
<1>1. /\ ioLeg \in DOMAIN Legs /\ ioPos \in Nat /\ ioPos < Legs[ioLeg].len
      /\ Legs[ioLeg].len \in Nat
      /\ \A k \in DOMAIN Legs : k # ioLeg => Len(got[k]) = Arrived(k)
      /\ Len(got[ioLeg]) = ioPos
      /\ got' = [got EXCEPT ![ioLeg] =
                  Channel!Prefix(ioLeg, IF ioPos + 2 < Legs[ioLeg].len
                                        THEN ioPos + 2 ELSE Legs[ioLeg].len)]
      /\ cpuLeg \in {ioLeg, ioLeg + 1}
      /\ UNCHANGED script
  BY ReceiveSecondFacts
<1>2. \A k \in DOMAIN Legs : k < ioLeg => Len(got[k]) = Legs[k].len
  <2>1. DOMAIN Legs \subseteq Nat
    BY ScriptsKnown, ScriptType DEF Legs
  <2> QED  BY <1>1, <2>1 DEF Arrived
<1>3. PICK n \in {1, 2} : n = IF ioPos + 2 < Legs[ioLeg].len THEN 2
                              ELSE Legs[ioLeg].len - ioPos
  BY <1>1
<1>4. Channel!Deliver(ioLeg)
  <2>1. /\ Len(got[ioLeg]) + n <= Legs[ioLeg].len
        /\ Len(got[ioLeg]) + n = IF ioPos + 2 < Legs[ioLeg].len
                                 THEN ioPos + 2 ELSE Legs[ioLeg].len
    BY <1>1, <1>3
  <2>2. got' = [got EXCEPT ![ioLeg] = Channel!Prefix(ioLeg, Len(got[ioLeg]) + n)]
    BY <1>1, <2>1
  <2> QED
    BY <1>1, <1>2, <2>1, <2>2
    DEF Channel!Deliver, Channel!LegDone, Channel!Legs, Legs
<1> QED  BY <1>1, <1>4 DEF Channel!DeliverSome, Channel!Legs, Legs

LEMMA StepRefines ==
  ASSUME IInv, [Next]_vars
  PROVE  [Channel!Next]_<<script, got>>
<1>1. ASSUME NEW s \in Scripts, IoInitiateSend(s) \/ CpuInitiateSend(s)
      PROVE  Channel!Next
  BY <1>1, BeginsWhenComplete DEF Channel!Next
<1>2. CASE IoReceiveSecond
  BY <1>2, ReceiveSecondDelivers DEF Channel!Next
<1>3. CASE CpuReceiveData
  BY <1>3, ReceiveDataDelivers DEF Channel!Next
<1>4. CASE IoNext /\ ~IoReceiveSecond
  BY <1>4
  DEF IoNext, IoSendFirst, IoSendSecond, IoUnitSent, IoWaitForCpuRequest,
      IoReceiveFirst, IoInitiateResponse, IoFinalizeSend
<1>5. CASE CpuNext /\ ~CpuReceiveData
  BY <1>5 DEF CpuNext, CpuAcceptIrq, CpuSendData, CpuSendDena, CpuSendAcked,
     CpuReceiveDack, CpuFlushRecv, CpuFlushSend, CpuFlushSendDena, CpuFlushSendAcked,
     CpuFinalizeSend, CpuFinalizeRecvSend, CpuFinalizeRecvRecv
<1>6. CASE UNCHANGED vars
  BY <1>6 DEF vars
<1> QED  BY <1>1, <1>2, <1>3, <1>4, <1>5, <1>6 DEF Next

-----------------------------------------------------------------------------
(* The theorems.                                                           *)

LEMMA IInvNext == IInv /\ [Next]_vars => IInv'
<1> SUFFICES ASSUME IInv, [Next]_vars PROVE IInv'  OBVIOUS
<1>1. ASSUME NEW s \in Scripts, IoInitiateSend(s) \/ CpuInitiateSend(s)
      PROVE  IInv'
  BY <1>1, StepInitiateSend, StepCpuInitiateSend
<1>2. CASE IoNext
  BY <1>2, StepSendFirst, StepSendSecond, StepUnitSent, StepWaitForCpuRequest,
     StepReceiveFirst, StepReceiveSecond, StepInitiateResponse, StepFinalizeSend
  DEF IoNext
<1>3. CASE CpuNext
  BY <1>3, StepAcceptIrq, StepSendData, StepSendDena, StepSendAcked,
     StepReceiveData, StepReceiveDack, StepFlushRecv, StepFlushSend,
     StepFlushSendDena, StepFlushSendAcked, StepCpuFinalizeSend,
     StepFinalizeRecvSend, StepFinalizeRecvRecv
  DEF CpuNext
<1>4. CASE UNCHANGED vars
  BY <1>4, StepStutter
<1> QED  BY <1>1, <1>2, <1>3, <1>4 DEF Next

\* The boards are always in one of the joint places IInv lists.
THEOREM Invariance == Spec => []IInv
BY IInvInit, IInvNext, PTL DEF Spec

\* Neither board runs past the end of a leg or of its transaction.
THEOREM TypeCorrect == Spec => []TypeOK
<1>1. IInv => TypeOK
  BY DEF IInv
<1> QED  BY <1>1, Invariance, PTL

\* The boards never drive the data lines at the same time, whatever the lengths
\* of the legs.
THEOREM NeverBothDrive == Spec => []HalfDuplex
<1>1. IInv => HalfDuplex
  BY DEF IInv, HalfDuplex, TypeOK, InvOut, InvTx, InvTxAck1, InvTxAck0, InvRx,
     InvRxEnd, InvFinRecv
<1> QED  BY <1>1, Invariance, PTL

\* Between transactions every line is down, no half unit is left over, and the
\* last transaction has arrived in full.
THEOREM QuiescentBus == Spec => []Quiescent
<1>1. IInv => Quiescent
  BY DEF IInv, Quiescent, InvOut, InvReq, CpuFresh, CpuSending, CpuClosing
<1> QED  BY <1>1, Invariance, PTL

\* The protocol implements HandshakeChannel (without its liveness): every byte
\* of every leg arrives once, in order, and no leg starts before the one
\* before it has arrived.
THEOREM ChannelSafety == Spec => Channel!Init /\ [][Channel!Next]_<<script, got>>
<1>1. Init => Channel!Init
  BY DEF Init, Channel!Init
<1>2. IInv /\ [Next]_vars => [Channel!Next]_<<script, got>>
  BY StepRefines
<1> QED  BY <1>1, <1>2, Invariance, PTL DEF Spec
=============================================================================
