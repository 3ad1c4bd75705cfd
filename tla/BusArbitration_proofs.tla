------------------------ MODULE BusArbitration_proofs ------------------------
(***************************************************************************)
(* Proofs about BusArbitration, for every set of requests and every number *)
(* of BIOS calls, timer interrupts and halts: the types, and that a BIOS   *)
(* call returns the truth about itself while nothing disturbs it.          *)
(***************************************************************************)
EXTENDS BusArbitration, TLAPS

-----------------------------------------------------------------------------
(* The lock.                                                               *)

\* A request that waits for the lock, or holds it, has not settled.
Waiting == \A i \in 1..Len(queue) : queue[i] \in Links => asked[queue[i]] = "queued"

\* The program has called before it waits, and a frame is a call's.
Started ==
  /\ cpuPc # "idle" => call > 0
  /\ ioPc \in {"finRecv", "forward"} => frame > 0

TypeInv == TypeOK /\ Waiting /\ Started

LEMMA JobsDistinct ==
  ASSUME TypeInv
  PROVE  /\ queue \in Seq(Links \cup {Serve}) /\ Len(queue) \in Nat
         /\ \A i, j \in 1..Len(queue) : queue[i] = queue[j] => i = j
         /\ \A i \in 1..Len(queue) : queue[i] \in Links \cup {Serve}
BY DEF TypeInv, TypeOK

\* A new job comes last (withBusLock).
LEMMA EnqueueKeeps ==
  ASSUME TypeInv, NEW job \in Links \cup {Serve}, Enqueue(job),
         \A i \in 1..Len(queue) : queue[i] # job
  PROVE  /\ queue' \in Seq(Links \cup {Serve}) /\ Len(queue') = Len(queue) + 1
         /\ \A i \in 1..Len(queue) : queue'[i] = queue[i]
         /\ queue'[Len(queue) + 1] = job
         /\ \A i, j \in 1..Len(queue') : queue'[i] = queue'[j] => i = j
         /\ ioPc' \in IoPcs /\ (ioPc' = "free") = (queue' = <<>>)
<1>1. queue' = Append(queue, job) /\ queue \in Seq(Links \cup {Serve})
  BY JobsDistinct DEF Enqueue
<1>2. /\ queue' \in Seq(Links \cup {Serve}) /\ Len(queue') = Len(queue) + 1
      /\ \A i \in 1..Len(queue) : queue'[i] = queue[i]
      /\ queue'[Len(queue) + 1] = job /\ Len(queue) \in Nat
  BY <1>1
<1>3. \A i \in 1..Len(queue') : i \in 1..Len(queue) \/ i = Len(queue) + 1
  BY <1>2
<1>4. \A i, j \in 1..Len(queue') : queue'[i] = queue'[j] => i = j
  BY <1>2, <1>3, JobsDistinct
<1>5. queue' # <<>>
  BY <1>2
<1>6. ioPc' \in IoPcs /\ ioPc' # "free"
  BY DEF TypeInv, TypeOK, Enqueue, FirstPc, IoPcs
<1>. QED
  BY <1>2, <1>4, <1>5, <1>6

\* The holder goes, and the next one starts.
LEMMA SettleKeeps ==
  ASSUME TypeInv, queue # <<>>, NEW outcome \in {"ok", "failed"}, Settle(outcome)
  PROVE  /\ queue' \in Seq(Links \cup {Serve}) /\ ioPc' \in {"free", "waitReq", "wait"}
         /\ \A i, j \in 1..Len(queue') : queue'[i] = queue'[j] => i = j
         /\ (ioPc' = "free") = (queue' = <<>>)
         /\ asked' \in [Links -> {"new", "queued", "ok", "failed"}]
         /\ Waiting'
<1>1. /\ queue \in Seq(Links \cup {Serve}) /\ queue # <<>> /\ queue' = Tail(queue)
      /\ Len(queue) \in Nat /\ Len(queue) # 0
  BY JobsDistinct DEF Settle
<1>2. /\ queue' \in Seq(Links \cup {Serve}) /\ Len(queue') = Len(queue) - 1
      /\ \A i \in 1..Len(queue') : queue'[i] = queue[i + 1]
  BY <1>1
<1>3. \A i \in 1..Len(queue') : i + 1 \in 1..Len(queue) /\ i + 1 # 1 /\ i \in Nat
  BY <1>1, <1>2
<1>4. \A i, j \in 1..Len(queue') : queue'[i] = queue'[j] => i = j
  <2>. SUFFICES ASSUME NEW i \in 1..Len(queue'), NEW j \in 1..Len(queue'),
                       queue'[i] = queue'[j]
                PROVE  i = j
    OBVIOUS
  <2>1. i + 1 = j + 1
    BY <1>2, <1>3, JobsDistinct
  <2>. QED
    BY <1>3, <2>1
<1>5. ioPc' = IF Len(queue) > 1 THEN FirstPc(queue[2]) ELSE "free"
  BY DEF Settle
<1>6. ioPc' \in {"free", "waitReq", "wait"}
  BY <1>5 DEF FirstPc
<1>7. (ioPc' = "free") = (queue' = <<>>)
  <2>1. CASE Len(queue) > 1
    <3>1. Len(queue') > 0
      BY <1>1, <1>2, <2>1
    <3>2. queue' # <<>> /\ ioPc' # "free"
      BY <1>5, <2>1, <3>1 DEF FirstPc
    <3>. QED
      BY <3>2
  <2>2. CASE ~(Len(queue) > 1)
    <3>1. Len(queue') = 0
      BY <1>1, <1>2, <2>2
    <3>2. queue' = <<>>
      BY <1>2, <3>1
    <3>. QED
      BY <1>5, <2>2, <3>2
  <2>. QED
    BY <2>1, <2>2
<1>8. asked \in [Links -> {"new", "queued", "ok", "failed"}]
  BY DEF TypeInv, TypeOK
<1>9. asked' \in [Links -> {"new", "queued", "ok", "failed"}]
  BY <1>8 DEF Settle
<1>10. ASSUME NEW i \in 1..Len(queue'), queue'[i] \in Links
       PROVE  asked'[queue'[i]] = "queued"
  <2>1. queue'[i] = queue[i + 1] /\ i + 1 \in 1..Len(queue) /\ i + 1 # 1
    BY <1>2, <1>3
  <2>2. 1 \in 1..Len(queue) /\ Head(queue) = queue[1]
    BY <1>1
  <2>3. queue[i + 1] # Head(queue)
    BY <2>1, <2>2, JobsDistinct
  <2>4. asked[queue[i + 1]] = "queued"
    BY <1>10, <2>1 DEF TypeInv, Waiting
  <2>5. asked' = asked \/ asked' = [asked EXCEPT ![Head(queue)] = outcome]
    BY DEF Settle
  <2>. QED
    BY <1>8, <1>10, <2>1, <2>3, <2>4, <2>5
<1>. QED
  BY <1>2, <1>4, <1>6, <1>7, <1>9, <1>10 DEF Waiting

-----------------------------------------------------------------------------
(* The types.                                                              *)

\* TypeOK without the lock.
RestOK ==
  /\ frame \in 0..MaxCalls /\ forwarded \subseteq 1..MaxCalls
  /\ inReq \in {0, 1} /\ inDena \in {0, 1} /\ inData \in 0..MaxCalls
  /\ cause \in {"TIMER", "HANDSHAKE"}
  /\ ticks \in 0..MaxTimer /\ expired \in 0..ticks
  /\ irq \in BOOLEAN /\ busy \in {0, 1} /\ intPc \in IntPcs
  /\ cpuPc \in CpuPcs /\ call \in 0..MaxCalls
  /\ result \in [ok : BOOLEAN, of : 0..MaxCalls]
  /\ halted \in BOOLEAN /\ halts \in 0..MaxHalts

LockOK ==
  /\ queue \in Seq(Links \cup {Serve})
  /\ \A i, j \in 1..Len(queue) : queue[i] = queue[j] => i = j
  /\ ioPc \in IoPcs /\ (ioPc = "free") = (queue = <<>>)
  /\ asked \in [Links -> {"new", "queued", "ok", "failed"}]
  /\ Waiting

LEMMA TypeParts == TypeInv <=> RestOK /\ LockOK /\ Started
BY DEF TypeInv, TypeOK, RestOK, LockOK

\* The lock is moved by withBusLock and by the end of its holder only; within
\* a transfer the holder goes from one leg to the next.
LEMMA LockStep ==
  ASSUME TypeInv, Next
  PROVE  LockOK'
<1>0. LockOK
  BY TypeParts
<1>1. ASSUME UNCHANGED <<queue, asked>>, ioPc' \in IoPcs, ioPc # "free", ioPc' # "free"
      PROVE  LockOK'
  BY <1>0, <1>1 DEF LockOK, Waiting
<1>2. ASSUME UNCHANGED <<queue, asked, ioPc>>
      PROVE  LockOK'
  BY <1>0, <1>2 DEF LockOK, Waiting
<1>3. ASSUME ioPc # "free", NEW outcome \in {"ok", "failed"}, Settle(outcome)
      PROVE  LockOK'
  BY <1>0, <1>3, SettleKeeps DEF LockOK, IoPcs
<1>4. ASSUME NEW r \in Links, LinkRequest(r)
      PROVE  LockOK'
  <2>1. asked[r] = "new" /\ asked' = [asked EXCEPT ![r] = "queued"] /\ Enqueue(r)
    BY <1>4 DEF LinkRequest
  <2>2. \A i \in 1..Len(queue) : queue[i] # r
    BY <1>0, <2>1 DEF LockOK, Waiting
  <2>3. asked' \in [Links -> {"new", "queued", "ok", "failed"}]
    BY <1>0, <2>1 DEF LockOK
  <2>4. r \in Links \cup {Serve} /\ Len(queue) \in Nat
    BY JobsDistinct
  <2>5. Waiting'
    <3>. SUFFICES ASSUME NEW i \in 1..Len(queue'), queue'[i] \in Links
                  PROVE  asked'[queue'[i]] = "queued"
      BY DEF Waiting
    <3>1. /\ Len(queue') = Len(queue) + 1 /\ queue'[Len(queue) + 1] = r
          /\ \A k \in 1..Len(queue) : queue'[k] = queue[k]
      BY <2>1, <2>2, <2>4, EnqueueKeeps
    <3>2. i \in 1..Len(queue) \/ i = Len(queue) + 1
      BY <2>4, <3>1
    <3>3. asked \in [Links -> {"new", "queued", "ok", "failed"}] /\ Waiting
      BY <1>0 DEF LockOK
    <3>. QED
      BY <2>1, <3>1, <3>2, <3>3 DEF Waiting
  <2>. QED
    BY <2>1, <2>2, <2>3, <2>4, <2>5, EnqueueKeeps DEF LockOK
<1>5. CASE PollRequest
  <2>1. Enqueue(Serve) /\ asked' = asked /\ \A i \in 1..Len(queue) : queue[i] # Serve
    BY <1>5 DEF PollRequest
  <2>2. Serve \in Links \cup {Serve} /\ Len(queue) \in Nat
    BY JobsDistinct
  <2>5. Waiting'
    <3>. SUFFICES ASSUME NEW i \in 1..Len(queue'), queue'[i] \in Links
                  PROVE  asked'[queue'[i]] = "queued"
      BY DEF Waiting
    <3>1. /\ Len(queue') = Len(queue) + 1 /\ queue'[Len(queue) + 1] = Serve
          /\ \A k \in 1..Len(queue) : queue'[k] = queue[k]
      BY <2>1, <2>2, EnqueueKeeps
    <3>2. i \in 1..Len(queue) \/ i = Len(queue) + 1
      BY <2>2, <3>1
    <3>. QED
      BY <1>0, <2>1, <3>1, <3>2, BusAssumption DEF Waiting, LockOK
  <2>. QED
    BY <1>0, <2>1, <2>2, <2>5, EnqueueKeeps DEF LockOK
<1>6. IoTimeout \/ IoForwardFails \/ IoFinalizeSend => LockOK'
  BY <1>3 DEF IoTimeout, IoForwardFails, IoFinalizeSend
<1>7. IoReceiveFrame \/ IoFinalizeReceive \/ IoForward \/ IoInitiateResponse
      \/ IoOfferResponse \/ IoInitiateSend \/ IntReply => LockOK'
  BY <1>1 DEF IoReceiveFrame, IoFinalizeReceive, IoForward, IoInitiateResponse,
              IoOfferResponse, IoInitiateSend, IntReply, IoGoto, IoPcs
<1>8. CpuTakeResponse \/ IntTakeCommand => LockOK'
  BY <1>1, <1>2 DEF CpuTakeResponse, IntTakeCommand, TakeByte, IoPcs
<1>9. BiosCall \/ CpuGiveUpSend \/ CpuFinalizeSend \/ CpuSeeRequest \/ CpuGiveUpResponse
      \/ SetHalt \/ SetRun => LockOK'
  BY <1>2 DEF BiosCall, CpuGiveUpSend, CpuFinalizeSend, CpuSeeRequest, CpuGiveUpResponse,
              SetHalt, SetRun, ioVars
<1>10. IntAccept \/ IntSetBusy \/ IntReadCause \/ IntTimer \/ IntGiveUp \/ Timer => LockOK'
  BY <1>2 DEF IntAccept, IntSetBusy, IntReadCause, IntTimer, IntGiveUp, Timer,
              TimerExpires, DeliverInterrupt, DeliverOverwriting, Deliver, ioVars
<1>. QED
  BY <1>4, <1>5, <1>6, <1>7, <1>8, <1>9, <1>10
     DEF Next, IoProgress, ProgramProgress, HandlerProgress

LEMMA RestStep ==
  ASSUME TypeInv, Next
  PROVE  RestOK' /\ Started'
<1>0. RestOK /\ Started /\ MaxCalls \in Nat /\ MaxTimer \in Nat /\ MaxHalts \in Nat
      /\ ioPc \in IoPcs
  BY TypeParts, BusAssumption DEF LockOK
<1>1. ASSUME NEW r, LinkRequest(r) PROVE RestOK' /\ Started'
  BY <1>0, <1>1 DEF LinkRequest, RestOK, Started, Enqueue, FirstPc, lineVars, timerVars,
                    intVars, cpuVars, haltVars
<1>2. CASE IoProgress
  <2>. USE <1>0 DEF RestOK, Started, lineVars, timerVars, intVars, cpuVars, haltVars
  <2>1. CASE PollRequest
    BY <2>1 DEF PollRequest, Enqueue, FirstPc
  <2>2. CASE IoFinalizeReceive
    BY <2>2 DEF IoFinalizeReceive, IoGoto
  <2>3. CASE IoForward
    <3>1. frame \in 1..MaxCalls
      BY <2>3 DEF IoForward, IoGoto
    <3>. QED
      BY <2>3, <3>1 DEF IoForward, IoGoto
  <2>4. ASSUME NEW outcome, Settle(outcome), UNCHANGED <<frame, forwarded, inDena, inData,
                 cause, timerVars, intVars, cpuVars, haltVars>>, inReq' \in {0, 1}
        PROVE  RestOK' /\ Started'
    BY <2>4 DEF Settle, FirstPc
  <2>5. CASE IoForwardFails \/ IoFinalizeSend \/ IoTimeout
    BY <2>4, <2>5 DEF IoForwardFails, IoFinalizeSend, IoTimeout
  <2>6. CASE IoInitiateResponse
    BY <2>6 DEF IoInitiateResponse, IoGoto
  <2>7. CASE IoOfferResponse
    BY <2>7 DEF IoOfferResponse, IoGoto
  <2>8. CASE IoInitiateSend
    BY <2>8 DEF IoInitiateSend, IoGoto
  <2>. QED
    BY <1>2, <2>1, <2>2, <2>3, <2>5, <2>6, <2>7, <2>8 DEF IoProgress
<1>3. CASE ProgramProgress \/ BiosCall
  <2>. USE <1>0 DEF RestOK, Started, CpuPcs, ioVars, lineVars, timerVars, intVars, cpuVars, haltVars
  <2>1. CASE BiosCall
    BY <2>1 DEF BiosCall
  <2>2. CASE IoReceiveFrame
    BY <2>2 DEF IoReceiveFrame, IoGoto
  <2>3. CASE CpuGiveUpSend \/ CpuGiveUpResponse
    <3>1. result' = [ok |-> FALSE, of |-> 0] /\ cpuPc' = "idle"
          /\ UNCHANGED <<ioVars, lineVars, cause, timerVars, intVars, call, haltVars>>
      BY <2>3 DEF CpuGiveUpSend, CpuGiveUpResponse
    <3>2. result' \in [ok : BOOLEAN, of : 0..MaxCalls]
      BY <3>1
    <3>. QED
      BY <3>1, <3>2
  <2>4. CASE CpuFinalizeSend \/ CpuSeeRequest
    BY <2>4 DEF CpuFinalizeSend, CpuSeeRequest
  <2>5. CASE CpuTakeResponse
    BY <2>5 DEF CpuTakeResponse, TakeByte
  <2>. QED
    BY <1>3, <2>1, <2>2, <2>3, <2>4, <2>5 DEF ProgramProgress
<1>4. CASE HandlerProgress
  <2>. USE <1>0 DEF RestOK, Started, IntPcs, ioVars, lineVars, timerVars, intVars, cpuVars, haltVars
  <2>1. CASE IntAccept \/ IntSetBusy \/ IntReadCause
    BY <2>1 DEF IntAccept, IntSetBusy, IntReadCause, IntGoto
  <2>2. CASE IntTimer \/ IntGiveUp
    BY <2>2 DEF IntTimer, IntGiveUp, IntLeave, IntGoto
  <2>3. CASE IntTakeCommand
    BY <2>3 DEF IntTakeCommand, IntLeave, IntGoto, TakeByte
  <2>4. CASE IntReply
    BY <2>4 DEF IntReply, IntLeave, IntGoto, IoGoto
  <2>. QED
    BY <1>4, <2>1, <2>2, <2>3, <2>4 DEF HandlerProgress
<1>5. CASE Timer
  <2>. USE <1>0 DEF RestOK, Started, ioVars, lineVars, timerVars, intVars, cpuVars, haltVars
  <2>1. CASE TimerExpires
    <3>1. ticks' \in 0..MaxTimer /\ expired' \in 0..ticks'
      BY <2>1 DEF TimerExpires
    <3>. QED
      BY <2>1, <3>1 DEF TimerExpires
  <2>2. CASE Deliver
    <3>1. ticks' = ticks /\ expired' \in 0..ticks' /\ irq' \in BOOLEAN
      BY <2>2 DEF Deliver
    <3>. QED
      BY <2>2, <3>1 DEF Deliver
  <2>. QED
    BY <1>5, <2>1, <2>2 DEF Timer, DeliverInterrupt, DeliverOverwriting
<1>6. CASE SetHalt \/ SetRun
  <2>1. halts' \in 0..MaxHalts
    BY <1>0, <1>6 DEF SetHalt, SetRun, RestOK
  <2>3. halted' \in BOOLEAN
    BY <1>6 DEF SetHalt, SetRun
  <2>2. UNCHANGED <<ioVars, lineVars, cause, timerVars, intVars, cpuVars>>
    BY <1>6 DEF SetHalt, SetRun
  <2>. QED
    BY <1>0, <2>1, <2>2, <2>3
       DEF RestOK, Started, ioVars, lineVars, timerVars, intVars, cpuVars
<1>. QED
  BY <1>1, <1>2, <1>3, <1>4, <1>5, <1>6 DEF Next

LEMMA TypeInvariant == Spec => []TypeInv
<1>1. Init => TypeInv
  <2>. SUFFICES ASSUME Init PROVE TypeInv
    OBVIOUS
  <2>1. Started /\ LockOK
    BY DEF Init, Started, LockOK, Waiting, IoPcs
  <2>2. result \in [ok : BOOLEAN, of : 0..MaxCalls]
    BY BusAssumption DEF Init
  <2>3. 0 \in 0..MaxCalls /\ 0 \in 0..MaxTimer /\ 0 \in 0..MaxHalts /\ 0 \in 0..0
    BY BusAssumption
  <2>4. RestOK
    BY <2>2, <2>3 DEF Init, RestOK, IntPcs, CpuPcs
  <2>. QED
    BY <2>1, <2>4, TypeParts
<1>2. TypeInv /\ [Next]_vars => TypeInv'
  <2>1. ASSUME TypeInv, UNCHANGED vars PROVE TypeInv'
    BY <2>1 DEF vars, ioVars, lineVars, timerVars, intVars, cpuVars, haltVars, TypeInv,
                TypeOK, Waiting, Started
  <2>2. ASSUME TypeInv, Next PROVE TypeInv'
    <3>1. RestOK' /\ LockOK' /\ Started'
      BY <2>2, LockStep, RestStep
    <3>. QED
      BY <3>1 DEF RestOK, LockOK, TypeInv, TypeOK
  <2>. QED
    BY <2>1, <2>2
<1>. QED
  BY <1>1, <1>2, PTL DEF Spec

\* Every variable keeps its range; busLock has a job running whenever somebody
\* holds it, and no job twice (cpu_hshk_agent.ts): the counters stay
\* within their bounds because each frame the IO board has received is that of
\* a call that was made.
THEOREM TypeCorrect == Spec => []TypeOK
<1>1. TypeInv => TypeOK
  BY DEF TypeInv
<1>. QED
  BY <1>1, TypeInvariant, PTL

-----------------------------------------------------------------------------
(* Calm.                                                                   *)

\* From the frame of a call to its response, serveLoop holds the lock and the
\* program waits; the legs are taken in this order.
Serving == {"finRecv", "forward", "send", "sendLow", "sendData"}

\* Without timer interrupts and halts INT2 is what the holder's command makes
\* it, so the handler runs only in a transaction of the IO board, and what is
\* on the lines is the holder's.
Lines ==
  /\ ~halted /\ expired = 0
  /\ (inReq = 1) <=> (ioPc \in {"sendLow", "sendData", "cmd", "reply", "fin"})
  /\ (inDena = 1) <=> (ioPc \in {"sendData", "cmd"})
  /\ ioPc = "cmd" => /\ cause = "HANDSHAKE"
                     /\ \/ irq /\ intPc = "none"
                        \/ ~irq /\ intPc \in {"entry", "read", "hshk"}
  /\ ioPc = "reply" => ~irq /\ intPc = "reply"
  /\ ioPc \notin {"cmd", "reply"} => ~irq /\ intPc = "none"

\* The call the IO board serves is the one the program waits for.
Calls ==
  /\ ioPc \in Serving => frame = call /\ cpuPc \in {"finSend", "waitResp", "recv"}
  /\ cpuPc = "finSend" => ioPc = "finRecv"
  /\ ioPc \in {"finRecv", "forward"} => call \notin forwarded
  /\ ioPc \in {"send", "sendLow", "sendData"} => call \in forwarded
  /\ ioPc = "sendData" => inData = call
  /\ cpuPc = "req" => call \notin forwarded /\ frame # call
  /\ cpuPc \in {"waitResp", "recv"} /\ ioPc \notin Serving => call \notin forwarded
  /\ frame <= call /\ \A f \in forwarded : f <= call
  /\ ioPc \in {"finRecv", "forward", "send"} => cpuPc # "recv"

CalmInv == Calm => Lines /\ Calls /\ StatusIsTrue

\* What the types say of the lines and the program.
LEMMA TypeCalm ==
  ASSUME TypeInv
  PROVE  /\ ioPc \in IoPcs /\ intPc \in IntPcs /\ cpuPc \in CpuPcs
         /\ call \in Nat /\ frame \in Nat /\ forwarded \subseteq Nat
         /\ inReq \in {0, 1} /\ inDena \in {0, 1} /\ (queue = <<>> => ioPc = "free")
         /\ ticks \in Nat /\ halts \in Nat
BY BusAssumption DEF TypeInv, TypeOK

\* The IO board's steps.
LEMMA CalmOfIo ==
  ASSUME TypeInv, Calm, Lines, Calls, StatusIsTrue, IoProgress
  PROVE  Lines' /\ Calls' /\ StatusIsTrue'
<1>. USE TypeCalm DEF Calm, Lines, Calls, StatusIsTrue, Serving, OutReq, ProgramRuns, HandlerRuns,
         ioVars, lineVars, timerVars, intVars, cpuVars, haltVars
<1>1. CASE PollRequest
  BY <1>1 DEF PollRequest, Enqueue, FirstPc
<1>2. CASE IoFinalizeReceive
  BY <1>2 DEF IoFinalizeReceive, IoGoto
<1>3. CASE IoForward
  BY <1>3 DEF IoForward, IoGoto
<1>4. CASE IoForwardFails
  BY <1>4 DEF IoForwardFails, Settle, FirstPc
<1>5. CASE IoInitiateResponse
  BY <1>5 DEF IoInitiateResponse, IoGoto
<1>6. CASE IoOfferResponse
  BY <1>6 DEF IoOfferResponse, IoGoto
<1>7. CASE IoInitiateSend
  BY <1>7 DEF IoInitiateSend, IoGoto
<1>8. CASE IoFinalizeSend
  BY <1>8 DEF IoFinalizeSend, Settle, FirstPc
<1>9. CASE IoTimeout
  BY <1>9 DEF IoTimeout, Settle, FirstPc, CpuQuiet
<1>. QED
  BY <1>1, <1>2, <1>3, <1>4, <1>5, <1>6, <1>7, <1>8, <1>9 DEF IoProgress, ProgramProgress, HandlerProgress

\* The program's steps.
LEMMA CalmOfProgram ==
  ASSUME TypeInv, Calm, Lines, Calls, StatusIsTrue, ProgramProgress \/ BiosCall
  PROVE  Lines' /\ Calls' /\ StatusIsTrue'
<1>. USE TypeCalm DEF Calm, Lines, Calls, StatusIsTrue, Serving, OutReq, ProgramRuns, HandlerRuns,
         ioVars, lineVars, timerVars, intVars, cpuVars, haltVars
<1>1. CASE BiosCall
  BY <1>1 DEF BiosCall
<1>2. CASE IoReceiveFrame
  BY <1>2 DEF IoReceiveFrame, IoGoto
<1>3. CASE CpuGiveUpSend
  BY <1>3 DEF CpuGiveUpSend
<1>4. CASE CpuFinalizeSend
  BY <1>4 DEF CpuFinalizeSend
<1>5. CASE CpuSeeRequest
  BY <1>5 DEF CpuSeeRequest
<1>6. CASE CpuTakeResponse
  BY <1>6 DEF CpuTakeResponse, TakeByte
<1>7. CASE CpuGiveUpResponse
  BY <1>7 DEF CpuGiveUpResponse, ResponseComing
<1>. QED
  BY <1>1, <1>2, <1>3, <1>4, <1>5, <1>6, <1>7 DEF IoProgress, ProgramProgress, HandlerProgress

\* The handler's steps.
LEMMA CalmOfHandler ==
  ASSUME TypeInv, Calm, Lines, Calls, StatusIsTrue, HandlerProgress
  PROVE  Lines' /\ Calls' /\ StatusIsTrue'
<1>. USE TypeCalm DEF Calm, Lines, Calls, StatusIsTrue, Serving, OutReq, ProgramRuns, HandlerRuns,
         ioVars, lineVars, timerVars, intVars, cpuVars, haltVars
<1>1. CASE IntAccept
  BY <1>1 DEF IntAccept
<1>2. CASE IntSetBusy
  BY <1>2 DEF IntSetBusy, IntGoto
<1>3. CASE IntReadCause
  BY <1>3 DEF IntReadCause, IntGoto
<1>4. CASE IntTimer
  BY <1>4 DEF IntTimer, IntLeave, IntGoto
<1>5. CASE IntTakeCommand
  BY <1>5 DEF IntTakeCommand, IntLeave, IntGoto, TakeByte
<1>6. CASE IntReply
  BY <1>6 DEF IntReply, IntLeave, IntGoto, IoGoto
<1>7. CASE IntGiveUp
  BY <1>7 DEF IntGiveUp, IntLeave, IntGoto, ResponseComing
<1>. QED
  BY <1>1, <1>2, <1>3, <1>4, <1>5, <1>6, <1>7 DEF IoProgress, ProgramProgress, HandlerProgress

\* A BIOS call that returns a status returns its own, and one that returns NG
\* was not executed and will not be (handshake_ioboard.ts, cpu_hshk_agent.ts,
\* handshake_common.asm): for every number of calls and every set of requests of
\* the IO board, as long as no timer interrupt and no halt has come between.
THEOREM CallsAreTrue == Spec => []StatusIsTrue
<1>1. Init => CalmInv
  BY DEF Init, CalmInv, Calm, Lines, Calls, Serving, StatusIsTrue
<1>2. TypeInv /\ CalmInv /\ [Next]_vars => CalmInv'
  <2>. SUFFICES ASSUME TypeInv, CalmInv, [Next]_vars, Calm'
                PROVE  Lines' /\ Calls' /\ StatusIsTrue'
    BY DEF CalmInv
  <2>. USE DEF ioVars, lineVars, timerVars, intVars, cpuVars, haltVars
  <2>1. UNCHANGED vars => Calm /\ Lines' /\ Calls' /\ StatusIsTrue'
    BY DEF vars, CalmInv, Calm, Lines, Calls, Serving, StatusIsTrue
  <2>2. CASE \E r \in Links : LinkRequest(r)
    BY <2>2, TypeCalm DEF LinkRequest, Enqueue, FirstPc, CalmInv, Calm, Lines, Calls, Serving,
                          StatusIsTrue
  <2>3. CASE IoProgress
    <3>1. Calm
      BY <2>3 DEF Calm, IoProgress, PollRequest, IoFinalizeReceive, IoForward, IoForwardFails,
         IoInitiateResponse, IoOfferResponse, IoInitiateSend, IoFinalizeSend, IoTimeout
    <3>. QED
      BY <2>3, <3>1, CalmOfIo DEF CalmInv
  <2>4. CASE ProgramProgress \/ BiosCall
    <3>1. Calm
      BY <2>4 DEF Calm, ProgramProgress, BiosCall, IoReceiveFrame, CpuGiveUpSend,
         CpuFinalizeSend, CpuSeeRequest, CpuTakeResponse, CpuGiveUpResponse
    <3>. QED
      BY <2>4, <3>1, CalmOfProgram DEF CalmInv
  <2>5. CASE HandlerProgress
    <3>1. Calm
      BY <2>5 DEF Calm, HandlerProgress, IntAccept, IntSetBusy, IntReadCause, IntTimer,
         IntTakeCommand, IntReply, IntGiveUp
    <3>. QED
      BY <2>5, <3>1, CalmOfHandler DEF CalmInv
  <2>6. CASE Timer
    <3>1. ~TimerExpires
      BY TypeCalm DEF TimerExpires, Calm
    <3>2. Deliver => Calm
      BY DEF Deliver, Calm
    <3>3. ~Deliver
      BY <3>2 DEF Deliver, CalmInv, Lines
    <3>. QED
      BY <2>6, <3>1, <3>3 DEF Timer, DeliverInterrupt, DeliverOverwriting
  <2>7. CASE SetHalt
    BY <2>7, TypeCalm DEF SetHalt, Calm
  <2>8. CASE SetRun
    BY <2>8 DEF SetRun, Calm, CalmInv, Lines
  <2>. QED
    BY <2>1, <2>2, <2>3, <2>4, <2>5, <2>6, <2>7, <2>8 DEF Next
<1>3. CalmInv => StatusIsTrue
  BY DEF CalmInv, StatusIsTrue
<1>. QED
  BY <1>1, <1>2, <1>3, TypeInvariant, PTL DEF Spec
=============================================================================
