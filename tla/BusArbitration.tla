--------------------------- MODULE BusArbitration ---------------------------
(***************************************************************************)
(* Who may use the handshake bus, and who answers the INT2 interrupt.      *)
(*                                                                         *)
(* The lines are shared by the transactions the IO board starts (13h, 14h, *)
(* 10h, 11h: CpuHandshakeAgent.memRead ...), the calls of the CPU program  *)
(* (served by CpuHandshakeAgent.serveLoop) and the timer interrupt, which  *)
(* shares INT2 and INT_CAUSE with the handshake (deliverInterrupt).  On    *)
(* the IO side a promise chain, busLock, puts transactions one after the   *)
(* other; on the CPU side the INT2 handler preempts the program, even in   *)
(* the middle of a BIOS call.                                              *)
(*                                                                         *)
(* Each leg of a transfer is one step here: HandshakeTransfer is the model *)
(* of what happens inside it.  A leg in which one side does not take part  *)
(* ends in that side's timeout, with the lines as they then are.           *)
(***************************************************************************)
EXTENDS Naturals, Sequences

CONSTANTS
  Links,       \* requests of the IO board that use the bus
  MaxCalls,    \* bound: BIOS calls of the program
  MaxTimer,    \* bound: expiries of the IO board's interval timer
  MaxHalts     \* bound: times the operator stops the CPU (F6)

Serve == "serve"      \* the job of serveLoop

ASSUME BusAssumption ==
  /\ Serve \notin Links
  /\ MaxCalls \in Nat /\ MaxTimer \in Nat /\ MaxHalts \in Nat

VARIABLES
  queue,                       \* busLock: the holder, then those who wait
  ioPc,                        \* where the holder is
  frame,                       \* the call whose request IO has received
  forwarded,                   \* calls the IO board has executed
  inReq, inDena, inData,       \* lines of the IO board; 0 is a command byte
  cause,                       \* INT_CAUSE
  expired,                     \* timer interrupts deliverInterrupt retries
  ticks,                       \* expiries so far
  irq, busy, intPc,            \* IRQ2 pending, INTERRUPT_BUSY, the handler
  cpuPc, call, result,         \* the program, its calls, what the last gave
  halted, halts,               \* the HLT pin
  asked                        \* history: what became of each request

ioVars    == <<queue, ioPc, frame, forwarded, asked>>
lineVars  == <<inReq, inDena, inData>>
timerVars == <<expired, ticks>>
intVars   == <<irq, busy, intPc>>
cpuVars   == <<cpuPc, call, result>>
haltVars  == <<halted, halts>>
vars == <<ioVars, lineVars, cause, timerVars, intVars, cpuVars, haltVars>>

IoPcs  == {"free", "waitReq", "finRecv", "forward", "send", "sendLow",
           "sendData", "wait", "cmd", "reply", "fin"}
IntPcs == {"none", "entry", "read", "timer", "hshk", "reply"}
CpuPcs == {"idle", "req", "finSend", "waitResp", "recv"}

Init ==
  /\ queue = <<>> /\ ioPc = "free" /\ frame = 0 /\ forwarded = {}
  /\ inReq = 0 /\ inDena = 0 /\ inData = 0
  /\ cause = "TIMER"                                     \* code 0
  /\ expired = 0 /\ ticks = 0
  /\ irq = FALSE /\ busy = 0 /\ intPc = "none"
  /\ cpuPc = "idle" /\ call = 0 /\ result = [ok |-> FALSE, of |-> 0]
  /\ halted = FALSE /\ halts = 0
  /\ asked = [r \in Links |-> "new"]

\* HSHK_OUT_REQ: initiate_send raises it, finalize_send or a failed send_byte
\* lowers it.
OutReq == cpuPc \in {"req", "finSend"}

-----------------------------------------------------------------------------
(* busLock.                                                                *)

FirstPc(job) == IF job = Serve THEN "waitReq" ELSE "wait"

\* withBusLock(): the job starts when all earlier ones have settled.
Enqueue(job) ==
  /\ queue' = Append(queue, job)
  /\ ioPc' = IF queue = <<>> THEN FirstPc(job) ELSE ioPc

\* The holder settles, with a result or an exception, and the next starts.
Settle(outcome) ==
  /\ queue' = Tail(queue)
  /\ ioPc' = IF Len(queue) > 1 THEN FirstPc(queue[2]) ELSE "free"
  /\ asked' = IF Head(queue) = Serve THEN asked
              ELSE [asked EXCEPT ![Head(queue)] = outcome]

IoGoto(from, to) == ioPc = from /\ ioPc' = to /\ UNCHANGED <<queue, asked>>

\* A request of the IO board arrives over the link.
LinkRequest(r) ==
  /\ asked[r] = "new"
  /\ asked' = [asked EXCEPT ![r] = "queued"]
  /\ Enqueue(r)
  /\ UNCHANGED <<frame, forwarded, lineVars, cause, timerVars, intVars,
                 cpuVars, haltVars>>

\* serveLoop(): waitForRequest() sees HSHK_OUT_REQ; one job at a time.
PollRequest ==
  /\ OutReq
  /\ \A i \in 1..Len(queue) : queue[i] # Serve
  /\ Enqueue(Serve)
  /\ UNCHANGED <<frame, forwarded, asked, lineVars, cause, timerVars, intVars,
                 cpuVars, haltVars>>

-----------------------------------------------------------------------------
(* The program runs when nothing interrupts it: an IRQ2 is taken before    *)
(* the next instruction.                                                   *)
ProgramRuns == ~halted /\ intPc = "none" /\ ~irq
HandlerRuns == ~halted /\ intPc # "none"

(* A BIOS call.                                                            *)

\* initiate_send and the first send_byte.
BiosCall ==
  /\ ProgramRuns
  /\ cpuPc = "idle" /\ call < MaxCalls
  /\ call' = call + 1
  /\ cpuPc' = "req"
  /\ UNCHANGED <<ioVars, lineVars, cause, timerVars, intVars, result,
                 haltVars>>

\* receiveFramedAdaptive() with the program in send_byte.
IoReceiveFrame ==
  /\ ProgramRuns
  /\ cpuPc = "req" /\ cpuPc' = "finSend"
  /\ IoGoto("waitReq", "finRecv")
  /\ frame' = call
  /\ UNCHANGED <<forwarded, lineVars, cause, timerVars, intVars, call, result,
                 haltVars>>

\* send_byte gives up on DACK: the holder is not receiving and will not.
CpuGiveUpSend ==
  /\ ProgramRuns
  /\ cpuPc = "req" /\ cpuPc' = "idle"
  /\ queue # <<>> /\ ioPc # "waitReq"
  /\ result' = [ok |-> FALSE, of |-> 0]
  /\ UNCHANGED <<ioVars, lineVars, cause, timerVars, intVars, call, haltVars>>

\* finalize_send lowers HSHK_OUT_REQ.
CpuFinalizeSend ==
  /\ ProgramRuns
  /\ cpuPc = "finSend" /\ cpuPc' = "waitResp"
  /\ UNCHANGED <<ioVars, lineVars, cause, timerVars, intVars, call, result,
                 haltVars>>

\* Mutant: the answer of the IO board is not awaited.
IoFinalizeReceiveNoAwait ==
  /\ ~OutReq
  /\ IoGoto("finRecv", "send")
  /\ UNCHANGED <<frame, forwarded, lineVars, cause, timerVars, intVars,
                 cpuVars, haltVars>>

\* finalizeReceive()
IoFinalizeReceive ==
  /\ ~OutReq
  /\ IoGoto("finRecv", "forward")
  /\ UNCHANGED <<frame, forwarded, lineVars, cause, timerVars, intVars,
                 cpuVars, haltVars>>

\* forward(): the IO board executes the frame and answers.
IoForward ==
  /\ IoGoto("forward", "send")
  /\ forwarded' = forwarded \cup {frame}
  /\ UNCHANGED <<frame, lineVars, cause, timerVars, intVars, cpuVars,
                 haltVars>>

\* forward() rejects: no response is sent.
IoForwardFails ==
  /\ ioPc = "forward"
  /\ Settle("failed")
  /\ UNCHANGED <<frame, forwarded, lineVars, cause, timerVars, intVars,
                 cpuVars, haltVars>>

\* initiateSend() with raiseIrq = FALSE.
IoInitiateResponse ==
  /\ inReq = 0
  /\ IoGoto("send", "sendLow")
  /\ inDena' = 0 /\ cause' = "HANDSHAKE" /\ inReq' = 1
  /\ UNCHANGED <<frame, forwarded, inData, timerVars, intVars, cpuVars,
                 haltVars>>

\* transferBytesToCpu(), once HSHK_OUT_REQ is down.
IoOfferResponse ==
  /\ ~OutReq
  /\ IoGoto("sendLow", "sendData")
  /\ inData' = frame /\ inDena' = 1
  /\ UNCHANGED <<frame, forwarded, inReq, cause, timerVars, intVars, cpuVars,
                 haltVars>>

\* wait_req1_1
CpuSeeRequest ==
  /\ ProgramRuns
  /\ inReq = 1
  /\ cpuPc = "waitResp" /\ cpuPc' = "recv"
  /\ UNCHANGED <<ioVars, lineVars, cause, timerVars, intVars, call, result,
                 haltVars>>

\* The other side takes what the holder offers; a byte an earlier holder
\* left on the lines stays there.
TakeByte ==
  /\ inDena = 1
  /\ \/ ioPc = "sendData" /\ ioPc' = "fin" /\ inDena' = 0
     \/ ioPc = "cmd" /\ ioPc' = "reply" /\ inDena' = 0
     \/ ioPc \notin {"sendData", "cmd"} /\ UNCHANGED <<ioPc, inDena>>
  /\ UNCHANGED <<queue, frame, forwarded, asked, inReq, inData>>

\* recv_byte and finalize_recv, which returns OK whatever became of the pad.
CpuTakeResponse ==
  /\ ProgramRuns
  /\ cpuPc = "recv" /\ cpuPc' = "idle"
  /\ TakeByte
  /\ result' = [ok |-> TRUE, of |-> inData]
  /\ UNCHANGED <<cause, timerVars, intVars, call, haltVars>>

\* The holder is about to send a response: no poll loop of the CPU is short
\* enough to run out first.
ResponseComing ==
  \/ ioPc \in {"finRecv", "forward"}
  \/ ioPc = "send" /\ inReq = 0
  \/ ioPc = "sendLow" /\ ~OutReq

\* Mutant: wait_req1_1 has no limit.
CpuGiveUpResponseOnlyDena ==
  /\ ProgramRuns
  /\ cpuPc = "recv" /\ inDena = 0
  /\ ~ResponseComing
  /\ cpuPc' = "idle"
  /\ result' = [ok |-> FALSE, of |-> 0]
  /\ UNCHANGED <<ioVars, lineVars, cause, timerVars, intVars, call, haltVars>>

\* wait_req1_1 or recv_byte gives up.
CpuGiveUpResponse ==
  /\ ProgramRuns
  /\ \/ cpuPc = "waitResp" /\ inReq = 0
     \/ cpuPc = "recv" /\ inDena = 0
  /\ ~ResponseComing
  /\ cpuPc' = "idle"
  /\ result' = [ok |-> FALSE, of |-> 0]
  /\ UNCHANGED <<ioVars, lineVars, cause, timerVars, intVars, call, haltVars>>

-----------------------------------------------------------------------------
(* A transaction of the IO board.                                          *)

\* initiateSend(), and DENA for the command that follows in the same turn.
IoInitiateSend ==
  /\ busy = 0 /\ ~OutReq /\ inReq = 0
  /\ IoGoto("wait", "cmd")
  /\ cause' = "HANDSHAKE" /\ inReq' = 1 /\ irq' = TRUE
  /\ inDena' = 1 /\ inData' = 0
  /\ UNCHANGED <<frame, forwarded, timerVars, busy, intPc, cpuVars, haltVars>>

\* Mutant: finalizeSend() leaves HSHK_IN_REQ up.
IoFinalizeSendKeepsReq ==
  /\ ioPc = "fin"
  /\ Settle("ok")
  /\ UNCHANGED <<frame, forwarded, lineVars, cause, timerVars, intVars,
                 cpuVars, haltVars>>

\* finalizeSend(): HSHK_IN_REQ down, the transaction is over.
IoFinalizeSend ==
  /\ ioPc = "fin"
  /\ inReq' = 0
  /\ Settle("ok")
  /\ UNCHANGED <<frame, forwarded, inDena, inData, cause, timerVars, intVars,
                 cpuVars, haltVars>>

\* Nothing on the CPU side is on its way to the holder.
CpuQuiet == halted \/ (cpuPc = "idle" /\ intPc = "none" /\ ~irq)

\* waitCondition() runs into its deadline: the call rejects, and the lines
\* stay as they are.
IoTimeout ==
  /\ CpuQuiet
  /\ \/ ioPc = "waitReq"
     \/ ioPc = "wait" /\ inReq = 1
     \/ ioPc = "send" /\ inReq = 1
     \/ ioPc \in {"cmd", "reply", "sendData"}
  /\ Settle("failed")
  /\ UNCHANGED <<frame, forwarded, lineVars, cause, timerVars, intVars,
                 cpuVars, haltVars>>

-----------------------------------------------------------------------------
(* The INT2 handler.                                                       *)

IntGoto(from, to) == HandlerRuns /\ intPc = from /\ intPc' = to

\* IRQ2 is accepted at an instruction boundary; the new STR masks it.
IntAccept ==
  /\ ~halted /\ irq /\ intPc = "none"
  /\ irq' = FALSE /\ intPc' = "entry"
  /\ UNCHANGED <<ioVars, lineVars, cause, timerVars, busy, cpuVars, haltVars>>

\* INTERRUPT_BUSY goes up some instructions after the entry.
IntSetBusy ==
  /\ IntGoto("entry", "read")
  /\ busy' = 1
  /\ UNCHANGED <<ioVars, lineVars, cause, timerVars, irq, cpuVars, haltVars>>

IntReadCause ==
  /\ IntGoto("read", IF cause = "TIMER" THEN "timer" ELSE "hshk")
  /\ UNCHANGED <<ioVars, lineVars, cause, timerVars, irq, busy, cpuVars,
                 haltVars>>

\* The end of the handler: INTERRUPT_BUSY down, LPSW 2.
IntLeave(from) == IntGoto(from, "none") /\ busy' = 0

\* The program's callback (GL_INT2_ADR) runs.
IntTimer ==
  /\ IntLeave("timer")
  /\ UNCHANGED <<ioVars, lineVars, cause, timerVars, irq, cpuVars, haltVars>>

\* accept_request and recv_byte: the byte is taken for a command.  A status,
\* or a command whose holder has gone, gets no further.
IntTakeCommand ==
  /\ IF ioPc = "cmd"
     THEN IntGoto("hshk", "reply") /\ UNCHANGED busy
     ELSE IntLeave("hshk")
  /\ TakeByte
  /\ UNCHANGED <<cause, timerVars, irq, cpuVars, haltVars>>

\* The reply of the command.
IntReply ==
  /\ IntLeave("reply")
  /\ IoGoto("reply", "fin")
  /\ UNCHANGED <<frame, forwarded, lineVars, cause, timerVars, irq, cpuVars,
                 haltVars>>

\* recv_byte or send_byte gives up: no command comes, or nobody takes the
\* reply.
IntGiveUp ==
  /\ \/ IntLeave("hshk") /\ inDena = 0 /\ ~ResponseComing
     \/ IntLeave("reply") /\ ioPc # "reply"
  /\ UNCHANGED <<ioVars, lineVars, cause, timerVars, irq, cpuVars, haltVars>>

-----------------------------------------------------------------------------
(* The timer and the HLT pin.                                              *)

TimerExpires ==
  /\ ticks < MaxTimer
  /\ ticks' = ticks + 1
  /\ expired' = expired + 1
  /\ UNCHANGED <<ioVars, lineVars, cause, intVars, cpuVars, haltVars>>

\* deliverInterrupt(): at once when the bus is silent, and after
\* IRQ_RETRY_MAX attempts in any case; each writes INT_CAUSE.
BusSilent == busy = 0 /\ ~OutReq /\ inReq = 0 /\ inDena = 0

Deliver ==
  /\ expired > 0
  /\ expired' = expired - 1
  /\ cause' = "TIMER" /\ irq' = TRUE
  /\ UNCHANGED <<ioVars, lineVars, ticks, busy, intPc, cpuVars, haltVars>>

DeliverInterrupt == BusSilent /\ Deliver
DeliverOverwriting == ~BusSilent /\ Deliver

\* setHalt(true) and setHalt(false); the operator stops the program between
\* its calls.
SetHalt ==
  /\ halts < MaxHalts
  /\ ProgramRuns /\ cpuPc = "idle"
  /\ halted' = TRUE /\ halts' = halts + 1
  /\ UNCHANGED <<ioVars, lineVars, cause, timerVars, intVars, cpuVars>>

SetRun ==
  /\ halted
  /\ halted' = FALSE
  /\ UNCHANGED <<ioVars, lineVars, cause, timerVars, intVars, cpuVars, halts>>

-----------------------------------------------------------------------------
IoProgress ==
  \/ PollRequest \/ IoFinalizeReceive \/ IoForward \/ IoForwardFails
  \/ IoInitiateResponse \/ IoOfferResponse \/ IoInitiateSend
  \/ IoFinalizeSend \/ IoTimeout

ProgramProgress ==
  \/ IoReceiveFrame \/ CpuGiveUpSend \/ CpuFinalizeSend \/ CpuSeeRequest
  \/ CpuTakeResponse \/ CpuGiveUpResponse

HandlerProgress ==
  \/ IntAccept \/ IntSetBusy \/ IntReadCause \/ IntTimer \/ IntTakeCommand
  \/ IntReply \/ IntGiveUp

Timer == TimerExpires \/ DeliverInterrupt \/ DeliverOverwriting

Next ==
  \/ \E r \in Links : LinkRequest(r)
  \/ BiosCall
  \/ IoProgress \/ ProgramProgress \/ HandlerProgress
  \/ Timer
  \/ SetHalt \/ SetRun

Spec == Init /\ [][Next]_vars

\* The IO board polls, has deadlines, and its RPC is answered; a CPU that is
\* not halted executes instructions and its poll loops are bounded; a timer
\* interrupt is retried until delivered.  Nobody has to ask for anything, and
\* the operator need not press RUN.
FairSpec ==
  /\ Spec
  /\ WF_vars(IoProgress)
  /\ WF_vars(ProgramProgress)
  /\ WF_vars(HandlerProgress)
  /\ WF_vars(DeliverInterrupt \/ DeliverOverwriting)
-----------------------------------------------------------------------------
(* Properties.                                                             *)

\* Types and ranges.  serveLoop has at most one job queued, and a job is
\* running whenever somebody holds the lock.
TypeOK ==
  /\ queue \in Seq(Links \cup {Serve})
  /\ \A i, j \in 1..Len(queue) : queue[i] = queue[j] => i = j
  /\ ioPc \in IoPcs /\ (ioPc = "free") = (queue = <<>>)
  /\ frame \in 0..MaxCalls /\ forwarded \subseteq 1..MaxCalls
  /\ inReq \in {0, 1} /\ inDena \in {0, 1} /\ inData \in 0..MaxCalls
  /\ cause \in {"TIMER", "HANDSHAKE"}
  /\ ticks \in 0..MaxTimer /\ expired \in 0..ticks
  /\ irq \in BOOLEAN /\ busy \in {0, 1} /\ intPc \in IntPcs
  /\ cpuPc \in CpuPcs /\ call \in 0..MaxCalls
  /\ result \in [ok : BOOLEAN, of : 0..MaxCalls]
  /\ halted \in BOOLEAN /\ halts \in 0..MaxHalts
  /\ asked \in [Links -> {"new", "queued", "ok", "failed"}]

\* No timer interrupt and no H/ST so far.  A timer interrupt may overwrite
\* INT_CAUSE, or make the handler take the byte of a response, and a halted
\* CPU leaves the holder's byte on the lines: what is exact without them is
\* stated under Calm.
Calm == ticks = 0 /\ halts = 0

\* When a BIOS call returns a status, it is the status of that call.  When it
\* has returned NG, the IO board has not executed it and will not: the program
\* may repeat it.
StatusIsTrue ==
  Calm /\ cpuPc = "idle" /\ call > 0 =>
    /\ result.ok => result.of = call /\ call \in forwarded
    /\ ~result.ok =>
         /\ call \notin forwarded
         /\ frame = call => ioPc \notin {"finRecv", "forward"}

\* A request of the IO board always comes to an end, whatever the CPU does:
\* busLock is handed on.  Without timer interrupts and halts the end is the
\* monitor's answer.
LinkServed ==
  \A r \in Links :
    asked[r] = "queued" ~> asked[r] = "ok" \/ (~Calm /\ asked[r] = "failed")

\* A BIOS call returns unless the operator has stopped the CPU.
BiosReturns == cpuPc # "idle" ~> cpuPc = "idle" \/ halted
=============================================================================
