------------------------ MODULE OperatorPanel_proofs ------------------------
(***************************************************************************)
(* Proofs about OperatorPanel, for every set of keys, addresses and        *)
(* contents and any number of keys, jobs and timer interrupts.             *)
(***************************************************************************)
EXTENDS OperatorPanel, Integers, Functions, FiniteSetTheorems, TLAPS

-----------------------------------------------------------------------------
(* Queues of messages that name a job or a request: what putting one in    *)
(* and taking one out does to the elements of one name, and to the ends.   *)

Queue(q) == \E S : q \in Seq(S)
One(s) == \E x : s = {x}

LastOf(s, i) == i \in s /\ \A k \in s : k <= i

\* The places in q of the elements whose field end is j.
Of(q, end, j) == {i \in DOMAIN q : q[i][end] = j}

\* A new element is at the end; the others stay where they are.
LEMMA QueueBack ==
  ASSUME NEW q, Queue(q), NEW m
  PROVE  /\ Len(q) \in Nat /\ DOMAIN q = 1..Len(q)
         /\ Queue(Append(q, m)) /\ DOMAIN Append(q, m) = 1..(Len(q) + 1)
         /\ \A i \in 1..Len(q) : Append(q, m)[i] = q[i]
         /\ Append(q, m)[Len(q) + 1] = m
<1>1. PICK S : q \in Seq(S) BY DEF Queue
<1>2. q \in Seq(S \cup {m}) BY <1>1
<1>3. Append(q, m) \in Seq(S \cup {m}) BY <1>2
<1> QED BY <1>1, <1>2, <1>3 DEF Queue

\* Without its first element a queue is shifted by one.
LEMMA QueueFront ==
  ASSUME NEW q, Queue(q), q # <<>>
  PROVE  /\ Len(q) \in Nat \ {0} /\ DOMAIN q = 1..Len(q) /\ Head(q) = q[1]
         /\ Queue(Tail(q)) /\ DOMAIN Tail(q) = 1..(Len(q) - 1)
         /\ \A i \in 1..(Len(q) - 1) : Tail(q)[i] = q[i + 1]
<1>1. PICK S : q \in Seq(S) BY DEF Queue
<1>2. Tail(q) \in Seq(S) BY <1>1
<1> QED BY <1>1, <1>2 DEF Queue

\* A new element is the only one of its job when that had none.
LEMMA PutOf ==
  ASSUME NEW q, Queue(q), NEW m, NEW end, NEW j
  PROVE  /\ m[end] # j => Of(Append(q, m), end, j) = Of(q, end, j)
         /\ m[end] = j /\ Of(q, end, j) = {} => One(Of(Append(q, m), end, j))
<1>1. DEFINE n == Len(q) + 1
<1>2. /\ n \in Nat /\ DOMAIN q = 1..(n - 1) /\ DOMAIN Append(q, m) = 1..n
      /\ \A i \in 1..(n - 1) : Append(q, m)[i] = q[i]
      /\ Append(q, m)[n] = m
  BY QueueBack
<1> HIDE DEF n
<1>3. \A i \in 1..n : i = n \/ i \in 1..(n - 1) BY <1>2
<1>4. ASSUME m[end] # j PROVE Of(Append(q, m), end, j) = Of(q, end, j)
  BY <1>2, <1>3, <1>4 DEF Of
<1>5. ASSUME m[end] = j, Of(q, end, j) = {} PROVE One(Of(Append(q, m), end, j))
  <2>1. n \in 1..n BY <1>2
  <2>2. Of(Append(q, m), end, j) = {n} BY <1>2, <1>3, <1>5, <2>1 DEF Of
  <2> QED BY <2>2 DEF One
<1> QED BY <1>4, <1>5

\* The first element is its job's; without it the others keep theirs.
LEMMA TakeOf ==
  ASSUME NEW q, Queue(q), q # <<>>, NEW end, NEW j
  PROVE  /\ Head(q)[end] = j => Of(q, end, j) # {}
         /\ Head(q)[end] = j /\ One(Of(q, end, j)) => Of(Tail(q), end, j) = {}
         /\ Of(q, end, j) = {} => Of(Tail(q), end, j) = {}
         /\ Head(q)[end] # j /\ One(Of(q, end, j)) => One(Of(Tail(q), end, j))
<1> DEFINE n == Len(q)
<1>1. /\ n \in Nat \ {0} /\ DOMAIN q = 1..n /\ Head(q) = q[1]
      /\ DOMAIN Tail(q) = 1..(n - 1)
      /\ \A i \in 1..(n - 1) : Tail(q)[i] = q[i + 1]
  BY QueueFront
<1> HIDE DEF n
<1>2. \A i \in 1..(n - 1) : i + 1 \in 1..n /\ i + 1 # 1 BY <1>1
<1>3. \A i \in Of(Tail(q), end, j) : i \in Nat /\ i + 1 \in Of(q, end, j) /\ i + 1 # 1
  BY <1>1, <1>2 DEF Of
<1>4. ASSUME Head(q)[end] = j PROVE 1 \in Of(q, end, j)
  BY <1>1, <1>4 DEF Of
<1>5. ASSUME Head(q)[end] = j, One(Of(q, end, j)) PROVE Of(Tail(q), end, j) = {}
  BY <1>3, <1>4, <1>5 DEF One
<1>6. ASSUME Of(q, end, j) = {} PROVE Of(Tail(q), end, j) = {}
  BY <1>3, <1>6
<1>7. ASSUME Head(q)[end] # j, One(Of(q, end, j)) PROVE One(Of(Tail(q), end, j))
  <2>1. PICK k : Of(q, end, j) = {k} BY <1>7 DEF One
  <2>2. k \in 1..n /\ q[k][end] = j /\ k # 1 BY <1>1, <1>7, <2>1 DEF Of
  <2>3. k - 1 \in 1..(n - 1) /\ Tail(q)[k - 1] = q[k] BY <1>1, <2>2
  <2>4. k - 1 \in Of(Tail(q), end, j) BY <1>1, <2>2, <2>3 DEF Of
  <2>5. \A i \in Of(Tail(q), end, j) : i = k - 1 BY <1>3, <2>1, <2>2
  <2> QED BY <2>4, <2>5 DEF One
<1> QED BY <1>4, <1>5, <1>6, <1>7

\* The end of a queue that loses its head.
LEMMA EndKept ==
  ASSUME NEW q, Queue(q), q # <<>>
  PROVE  /\ Tail(q) # <<>> => Tail(q)[Len(Tail(q))] = q[Len(q)]
         /\ Tail(q) = <<>> => q[Len(q)] = Head(q)
         /\ \A i \in DOMAIN Tail(q) : i + 1 \in DOMAIN q /\ Tail(q)[i] = q[i + 1]
         /\ 1 \in DOMAIN q /\ Head(q) = q[1]
         /\ Len(q) \in DOMAIN q
<1>1. PICK S : q \in Seq(S) BY DEF Queue
<1>2. Len(q) \in Nat \ {0} /\ Tail(q) \in Seq(S) /\ Len(Tail(q)) = Len(q) - 1
  BY <1>1
<1>3. Tail(q) # <<>> => Len(q) - 1 \in Nat \ {0} BY <1>2
<1>4. Tail(q) = <<>> => Len(q) = 1
  <2>1. Len(<<>>) = 0 OBVIOUS
  <2>2. Tail(q) = <<>> => Len(Tail(q)) = 0 BY ONLY <2>1, Zenon
  <2> DEFINE n == Len(q)
             t == Len(Tail(q))
  <2>3. n \in Nat \ {0} /\ t = n - 1 BY <1>2
  <2> HIDE DEF n, t
  <2>4. t = 0 => n = 1 BY <2>3
  <2> QED BY <2>2, <2>4 DEF n, t
<1>5. \A i \in 1..(Len(q) - 1) : Tail(q)[i] = q[i + 1] BY <1>1, <1>2
<1> QED BY <1>1, <1>2, <1>3, <1>4, <1>5


\* Nothing uses DMA: no hex file is loaded and the boards are not reset.
NoDma == "F7" \notin Keys /\ Chunks = 0 /\ ~FromPowerOn

-----------------------------------------------------------------------------
(* Queues.  A queue holds requests or answers of jobs; what else is in     *)
(* them does not matter, so their elements are of some set.                *)

Senders == Jobs \union {Timer}

Asks(m)    == m.from \in Senders /\ m.op \notin {"dma", "rst"}
Waits(m)   == m.from \in Senders
Answers(r) == r.to \in Senders

AskQueue(q)    == \E S : q \in Seq(S) /\ \A m \in S : Asks(m)
WaitQueue(q)   == \E S : q \in Seq(S) /\ \A m \in S : Waits(m)
AnswerQueue(q) == \E S : q \in Seq(S) /\ \A r \in S : Answers(r)

LEMMA AskQueues ==
  /\ AskQueue(<<>>)
  /\ \A q, m : AskQueue(q) /\ Asks(m) => AskQueue(Append(q, m))
  /\ \A q : AskQueue(q) /\ q # <<>> => AskQueue(Tail(q)) /\ Asks(Head(q))
<1>1. AskQueue(<<>>)
  <2> DEFINE None == {}
  <2>1. <<>> \in Seq(None) /\ \A x \in None : Asks(x) OBVIOUS
  <2> HIDE DEF None
  <2> QED BY <2>1 DEF AskQueue
<1>2. ASSUME NEW q, NEW m, AskQueue(q), Asks(m) PROVE AskQueue(Append(q, m))
  <2>1. PICK S : q \in Seq(S) /\ \A x \in S : Asks(x) BY <1>2 DEF AskQueue
  <2>2. Append(q, m) \in Seq(S \cup {m}) BY <2>1
  <2>3. \A x \in S \cup {m} : Asks(x) BY <1>2, <2>1
  <2> QED BY <2>2, <2>3 DEF AskQueue
<1>3. ASSUME NEW q, AskQueue(q), q # <<>> PROVE AskQueue(Tail(q)) /\ Asks(Head(q))
  <2>1. PICK S : q \in Seq(S) /\ \A x \in S : Asks(x) BY <1>3 DEF AskQueue
  <2>2. Tail(q) \in Seq(S) /\ Head(q) \in S BY <1>3, <2>1
  <2> QED BY <2>1, <2>2 DEF AskQueue
<1> QED BY <1>1, <1>2, <1>3

LEMMA WaitQueues ==
  /\ WaitQueue(<<>>)
  /\ \A q, m : WaitQueue(q) /\ Waits(m) => WaitQueue(Append(q, m))
  /\ \A q : WaitQueue(q) /\ q # <<>> => WaitQueue(Tail(q)) /\ Waits(Head(q))
<1>1. WaitQueue(<<>>)
  <2> DEFINE None == {}
  <2>1. <<>> \in Seq(None) /\ \A x \in None : Waits(x) OBVIOUS
  <2> HIDE DEF None
  <2> QED BY <2>1 DEF WaitQueue
<1>2. ASSUME NEW q, NEW m, WaitQueue(q), Waits(m) PROVE WaitQueue(Append(q, m))
  <2>1. PICK S : q \in Seq(S) /\ \A x \in S : Waits(x) BY <1>2 DEF WaitQueue
  <2>2. Append(q, m) \in Seq(S \cup {m}) BY <2>1
  <2>3. \A x \in S \cup {m} : Waits(x) BY <1>2, <2>1
  <2> QED BY <2>2, <2>3 DEF WaitQueue
<1>3. ASSUME NEW q, WaitQueue(q), q # <<>> PROVE WaitQueue(Tail(q)) /\ Waits(Head(q))
  <2>1. PICK S : q \in Seq(S) /\ \A x \in S : Waits(x) BY <1>3 DEF WaitQueue
  <2>2. Tail(q) \in Seq(S) /\ Head(q) \in S BY <1>3, <2>1
  <2> QED BY <2>1, <2>2 DEF WaitQueue
<1> QED BY <1>1, <1>2, <1>3

LEMMA AnswerQueues ==
  /\ AnswerQueue(<<>>)
  /\ \A q, m : AnswerQueue(q) /\ Answers(m) => AnswerQueue(Append(q, m))
  /\ \A q : AnswerQueue(q) /\ q # <<>> => AnswerQueue(Tail(q)) /\ Answers(Head(q))
<1>1. AnswerQueue(<<>>)
  <2> DEFINE None == {}
  <2>1. <<>> \in Seq(None) /\ \A x \in None : Answers(x) OBVIOUS
  <2> HIDE DEF None
  <2> QED BY <2>1 DEF AnswerQueue
<1>2. ASSUME NEW q, NEW m, AnswerQueue(q), Answers(m) PROVE AnswerQueue(Append(q, m))
  <2>1. PICK S : q \in Seq(S) /\ \A x \in S : Answers(x) BY <1>2 DEF AnswerQueue
  <2>2. Append(q, m) \in Seq(S \cup {m}) BY <2>1
  <2>3. \A x \in S \cup {m} : Answers(x) BY <1>2, <2>1
  <2> QED BY <2>2, <2>3 DEF AnswerQueue
<1>3. ASSUME NEW q, AnswerQueue(q), q # <<>> PROVE AnswerQueue(Tail(q)) /\ Answers(Head(q))
  <2>1. PICK S : q \in Seq(S) /\ \A x \in S : Answers(x) BY <1>3 DEF AnswerQueue
  <2>2. Tail(q) \in Seq(S) /\ Head(q) \in S BY <1>3, <2>1
  <2> QED BY <2>1, <2>2 DEF AnswerQueue
<1> QED BY <1>1, <1>2, <1>3

-----------------------------------------------------------------------------
(* The invariant.                                                          *)

KeyNames == {"none", "F0", "F1", "F2", "F3", "F4", "F5", "F6", "F7"}
JobType == [pc : {"free", "read", "write", "store", "exec", "go", "halt"},
            key : KeyNames]

\* Requests are of jobs and none is one of DMA or a reset.
LinkInv == AskQueue(toCpu) /\ WaitQueue(bus) /\ AnswerQueue(toIo)
JobInv == jobs \in [Jobs -> JobType]
\* A CPU the operator stopped has HLT up.
HeldInv == held => hlt = TRUE /\ exec # "running"

HaltInv == LinkInv /\ JobInv /\ HeldInv

LEMMA SlotsAreJobs == Slots \subseteq Jobs BY DEF Jobs

LEMMA Replied ==
  ASSUME LinkInv, NEW m, NEW ok, NEW val, Waits(m), Reply(m, ok, val)
  PROVE  AnswerQueue(toIo')
<1>1. Answers([to |-> m.from, ok |-> ok, val |-> val]) BY DEF Answers, Waits
<1> QED BY <1>1, AnswerQueues DEF Reply, LinkInv

LEMMA Sent ==
  ASSUME LinkInv, NEW j \in Senders, NEW key, NEW op, NEW a, NEW v,
         op \notin {"dma", "rst"}, Send(j, key, op, a, v)
  PROVE  AskQueue(toCpu')
<1>1. Asks([from |-> j, key |-> key, op |-> op, addr |-> a, val |-> v])
  BY DEF Asks
<1> QED BY <1>1, AskQueues DEF Send, LinkInv

LEMMA Awaited ==
  ASSUME JobInv, NEW j \in Jobs,
         NEW pc \in {"read", "write", "store", "exec", "go", "halt"},
         NEW key \in KeyNames, Awaits(j, pc, key)
  PROVE  JobInv'
<1>1. [pc |-> pc, key |-> key] \in JobType BY DEF JobType
<1> QED BY <1>1 DEF JobInv, Awaits

LEMMA Finished ==
  ASSUME JobInv, NEW j \in Jobs, Done(j)
  PROVE  JobInv'
<1>1. Free \in JobType BY DEF JobType, Free, KeyNames
<1> QED BY <1>1 DEF JobInv, Done

-----------------------------------------------------------------------------
(* The CPU worker.                                                         *)

LEMMA ReceiveKeeps ==
  ASSUME HaltInv, CpuReceive
  PROVE  LinkInv' /\ HeldInv'
<1> DEFINE msg == Head(toCpu)
<1>1. AskQueue(toCpu') /\ Asks(msg) BY AskQueues DEF CpuReceive, HaltInv, LinkInv
<1>2. Waits(msg) BY <1>1 DEF Asks, Waits
<1>3. msg.op \notin {"dma", "rst"} BY <1>1 DEF Asks
<1>4. \/ SetHalt(msg) \/ ReleaseHalt(msg) \/ Exec(msg) \/ Configure(msg)
      \/ RaiseIrq(msg) \/ MemCommand(msg)
  BY <1>3 DEF CpuReceive
<1> HIDE DEF msg
<1>5. CASE SetHalt(msg)
  <2>1. AnswerQueue(toIo') BY <1>2, <1>5, Replied DEF SetHalt, HaltInv
  <2>2. bus' = bus /\ hlt' = TRUE /\ exec' # "running"
    BY <1>5 DEF SetHalt, Stopped
  <2> QED BY <1>1, <2>1, <2>2 DEF LinkInv, HeldInv, HaltInv
<1>6. CASE ReleaseHalt(msg) \/ Exec(msg)
  <2>1. AnswerQueue(toIo') BY <1>2, <1>6, Replied DEF ReleaseHalt, Exec, HaltInv
  <2>2. bus' = bus /\ held' = FALSE BY <1>6 DEF ReleaseHalt, Exec
  <2> QED BY <1>1, <2>1, <2>2 DEF LinkInv, HeldInv, HaltInv
<1>7. CASE Configure(msg) \/ RaiseIrq(msg)
  <2>1. AnswerQueue(toIo') BY <1>2, <1>7, Replied DEF Configure, RaiseIrq, HaltInv
  <2>2. bus' = bus /\ UNCHANGED <<held, hlt, exec>>
    BY <1>7 DEF Configure, RaiseIrq, cpuVars
  <2> QED BY <1>1, <2>1, <2>2 DEF LinkInv, HeldInv, HaltInv
<1>8. CASE MemCommand(msg)
  <2>1. WaitQueue(bus') BY <1>2, <1>8, WaitQueues DEF MemCommand, HaltInv, LinkInv
  <2>2. UNCHANGED <<toIo, held, hlt, exec>> BY <1>8 DEF MemCommand, cpuVars
  <2> QED BY <1>1, <2>1, <2>2 DEF LinkInv, HeldInv, HaltInv
<1> QED BY <1>4, <1>5, <1>6, <1>7, <1>8

LEMMA TickKeeps ==
  ASSUME HeldInv, Tick, held' = held
  PROVE  HeldInv'
BY DEF HeldInv, Tick, cpuVars

LEMMA CpuKeeps ==
  ASSUME HaltInv, CpuNext
  PROVE  LinkInv' /\ HeldInv'
<1>1. CASE CpuReceive BY <1>1, ReceiveKeeps
<1>2. CASE RetryIrq
  BY <1>2 DEF RetryIrq, linkVars, HaltInv, LinkInv, HeldInv
<1>3. CASE ServeMem
  <2>1. Waits(Head(bus)) /\ WaitQueue(bus')
    BY <1>3, WaitQueues DEF ServeMem, HaltInv, LinkInv
  <2>2. AnswerQueue(toIo') BY <1>3, <2>1, Replied DEF ServeMem, HaltInv
  <2>3. toCpu' = toCpu /\ ~hlt /\ held' = held
    BY <1>3 DEF ServeMem, Responsive
  <2> QED BY <2>1, <2>2, <2>3 DEF HaltInv, LinkInv, HeldInv
<1>4. CASE FailMem
  <2>1. Waits(Head(bus)) /\ WaitQueue(bus')
    BY <1>4, WaitQueues DEF FailMem, HaltInv, LinkInv
  <2>2. AnswerQueue(toIo') BY <1>4, <2>1, Replied DEF FailMem, HaltInv
  <2>3. UNCHANGED <<toCpu, hlt, exec, held>> BY <1>4 DEF FailMem, cpuVars
  <2> QED BY <2>1, <2>2, <2>3 DEF HaltInv, LinkInv, HeldInv
<1>5. CASE CpuSlice
  <2>1. HeldInv' BY <1>5, TickKeeps DEF CpuSlice, HaltInv
  <2> QED BY <1>5, <2>1 DEF CpuSlice, linkVars, HaltInv, LinkInv
<1>6. CASE Pump
  <2>1. HeldInv' BY <1>6, TickKeeps DEF Pump, HaltInv
  <2> QED BY <1>6, <2>1 DEF Pump, linkVars, HaltInv, LinkInv
<1> QED BY <1>1, <1>2, <1>3, <1>4, <1>5, <1>6 DEF CpuNext

-----------------------------------------------------------------------------
(* The IO worker: what its jobs ask for.                                   *)

JobsKept == JobInv' /\ AskQueue(toCpu')

LEMMA ReadAtKeeps ==
  ASSUME LinkInv, JobInv, NEW j \in Jobs, NEW key \in KeyNames, NEW a,
         ReadAt(j, key, a)
  PROVE  JobsKept
<1>1. CASE mode = "setting_area"
  <2>1. Done(j) /\ toCpu' = toCpu BY <1>1 DEF ReadAt
  <2> QED BY <2>1, Finished DEF JobsKept, LinkInv
<1>2. CASE mode # "setting_area"
  <2>1. Send(j, key, "read", a, 0) /\ Awaits(j, "read", key) BY <1>2 DEF ReadAt
  <2>2. AskQueue(toCpu') BY <2>1, Sent DEF Senders
  <2> QED BY <2>1, <2>2, Awaited DEF JobsKept
<1> QED BY <1>1, <1>2

LEMMA PressKeeps ==
  ASSUME NoDma, LinkInv, JobInv, NEW key, PressFunction(key)
  PROVE  JobsKept
<1>1. PICK j \in Slots :
        \/ KeyAds(j) \/ KeyClr(j) \/ (key \in {"F2", "F3"} /\ KeyIncDec(j, key))
        \/ KeyWinc(j) \/ KeyRun(j) \/ KeyHaltStart(j)
  BY DEF PressFunction, NoDma
<1>2. j \in Jobs /\ j \in Senders BY SlotsAreJobs DEF Senders
<1>3. CASE KeyAds(j)
  <2>1. \/ jobs' = jobs /\ toCpu' = toCpu
        \/ \E a : Send(j, "F0", "read", a, 0) /\ Awaits(j, "read", "F0")
    BY <1>3 DEF KeyAds
  <2>2. CASE jobs' = jobs /\ toCpu' = toCpu BY <2>2 DEF JobsKept, LinkInv, JobInv
  <2>3. CASE \E a : Send(j, "F0", "read", a, 0) /\ Awaits(j, "read", "F0")
    <3>1. AskQueue(toCpu') BY <1>2, <2>3, Sent
    <3>2. JobInv' BY <1>2, <2>3, Awaited DEF KeyNames
    <3> QED BY <3>1, <3>2 DEF JobsKept
  <2> QED BY <2>1, <2>2, <2>3
<1>4. CASE KeyClr(j) BY <1>4 DEF KeyClr, JobsKept, LinkInv, JobInv
<1>5. CASE key \in {"F2", "F3"} /\ KeyIncDec(j, key)
  <2>1. key \in KeyNames BY <1>5 DEF KeyNames
  <2>2. ReadAt(j, key, addr') BY <1>5 DEF KeyIncDec
  <2> QED BY <1>2, <2>1, <2>2, ReadAtKeeps
<1>6. CASE KeyWinc(j)
  <2>1. \/ Awaits(j, "store", "F4") /\ toCpu' = toCpu
        \/ \E a, v : Send(j, "F4", "write", a, v) /\ Awaits(j, "write", "F4")
    BY <1>6 DEF KeyWinc
  <2>2. AskQueue(toCpu') BY <1>2, <2>1, Sent DEF LinkInv
  <2>3. JobInv' BY <1>2, <2>1, Awaited DEF KeyNames
  <2> QED BY <2>2, <2>3 DEF JobsKept
<1>7. CASE KeyRun(j)
  <2>1. \E a : Send(j, "F5", "exec", a, 0) /\ Awaits(j, "exec", "F5")
    BY <1>7 DEF KeyRun
  <2>2. AskQueue(toCpu') BY <1>2, <2>1, Sent
  <2>3. JobInv' BY <1>2, <2>1, Awaited DEF KeyNames
  <2> QED BY <2>2, <2>3 DEF JobsKept
<1>8. CASE KeyHaltStart(j)
  <2>1. \E op \in {"go", "halt"} : Send(j, "F6", op, 0, 0) /\ Awaits(j, op, "F6")
    BY <1>8 DEF KeyHaltStart
  <2>2. AskQueue(toCpu') BY <1>2, <2>1, Sent
  <2>3. JobInv' BY <1>2, <2>1, Awaited DEF KeyNames
  <2> QED BY <2>2, <2>3 DEF JobsKept
<1> QED BY <1>1, <1>3, <1>4, <1>5, <1>6, <1>7, <1>8

LEMMA WriteDoneKeeps ==
  ASSUME LinkInv, JobInv, NEW j \in Jobs, WriteDone(j)
  PROVE  JobsKept
<1>1. ReadAt(j, "F4", addr') BY DEF WriteDone
<1> QED BY <1>1, ReadAtKeeps DEF KeyNames

LEMMA AnswerKeeps ==
  ASSUME LinkInv, JobInv, IoReceive
  PROVE  JobsKept /\ AnswerQueue(toIo')
<1> DEFINE r == Head(toIo)
<1>1. AnswerQueue(toIo') /\ r.to \in Senders
  BY AnswerQueues DEF IoReceive, LinkInv, Answers
<1>2. CASE r.to = Timer
  <2>1. jobs' = jobs /\ toCpu' = toCpu BY <1>2 DEF IoReceive, jobVars
  <2> QED BY <1>1, <2>1 DEF JobsKept, LinkInv, JobInv
<1>3. CASE r.to # Timer
  <2> DEFINE j == r.to
  <2>1. j \in Jobs BY <1>1, <1>3 DEF Senders
  <2>2. jobs[j].pc \notin {"reset", "load"} BY <2>1 DEF JobInv, JobType
  <2>3. \/ Done(j) /\ toCpu' = toCpu
        \/ \E v : ReadDone(j, v)
        \/ WriteDone(j)
        \/ ControlDone(j)
    BY <1>3, <2>2 DEF IoReceive
  <2> HIDE DEF j
  <2>4. CASE Done(j) /\ toCpu' = toCpu
    BY <1>1, <2>1, <2>4, Finished DEF JobsKept, LinkInv
  <2>5. CASE \E v : ReadDone(j, v)
    BY <1>1, <2>1, <2>5, Finished DEF ReadDone, JobsKept, LinkInv
  <2>6. CASE WriteDone(j) BY <1>1, <2>1, <2>6, WriteDoneKeeps
  <2>7. CASE ControlDone(j)
    BY <1>1, <2>1, <2>7, Finished DEF ControlDone, JobsKept, LinkInv
  <2> QED BY <1>1, <2>3, <2>4, <2>5, <2>6, <2>7
<1> QED BY <1>2, <1>3

LEMMA FileKeeps ==
  ASSUME LinkInv, JobInv, NEW j \in Jobs, FileDone(j)
  PROVE  JobsKept
<1>1. jobs[j].pc # "reset" BY DEF JobInv, JobType
<1>2. WriteDone(j) BY <1>1 DEF FileDone
<1> QED BY <1>2, WriteDoneKeeps

LEMMA PanelKeeps ==
  ASSUME NoDma, HaltInv, PanelNext
  PROVE  HaltInv'
<1>0. LinkInv /\ JobInv /\ HeldInv BY DEF HaltInv
<1>1. CASE \E key \in {"F0", "F1", "F2", "F3", "F4", "F5", "F6", "F7"} :
             PressFunction(key)
  <2>1. JobsKept BY <1>0, <1>1, PressKeeps
  <2>2. UNCHANGED <<bus, toIo, held, hlt, exec>>
    BY <1>1 DEF PressFunction, cpuVars
  <2> QED BY <1>0, <2>1, <2>2 DEF HaltInv, LinkInv, HeldInv, JobsKept
<1>2. CASE (\E n \in 0..(Radix - 1) : PressHex(n)) \/ HoldAds \/ SetTimer \/ IoSlice
  <2>1. UNCHANGED <<allCpuVars, jobs>>
    BY <1>2 DEF PressHex, HoldAds, SetTimer, IoSlice, jobVars
  <2> QED BY <1>0, <2>1
       DEF HaltInv, LinkInv, HeldInv, JobInv, allCpuVars, cpuVars, linkVars
<1>3. CASE IoReceive
  <2>1. JobsKept /\ AnswerQueue(toIo') BY <1>0, <1>3, AnswerKeeps
  <2>2. UNCHANGED <<bus, held, hlt, exec>> BY <1>3 DEF IoReceive, cpuVars
  <2> QED BY <1>0, <2>1, <2>2 DEF HaltInv, LinkInv, HeldInv, JobsKept
<1>4. CASE \E j \in Jobs : FileDone(j)
  <2>1. JobsKept BY <1>0, <1>4, FileKeeps
  <2>2. UNCHANGED <<bus, toIo, held, hlt, exec>> BY <1>4 DEF FileDone, cpuVars
  <2> QED BY <1>0, <2>1, <2>2 DEF HaltInv, LinkInv, HeldInv, JobsKept
<1>5. CASE StartLoad BY <1>5 DEF StartLoad, NoDma
<1>6. CASE TimerExpires
  <2>1. AskQueue(toCpu')
    <3>1. Timer \in Senders BY DEF Senders
    <3> QED BY <1>0, <1>6, <3>1, Sent DEF TimerExpires
  <2>2. UNCHANGED <<bus, toIo, held, hlt, exec, jobs>>
    BY <1>6 DEF TimerExpires, cpuVars, jobVars
  <2> QED BY <1>0, <2>1, <2>2 DEF HaltInv, LinkInv, HeldInv, JobInv
<1> QED BY <1>1, <1>2, <1>3, <1>4, <1>5, <1>6 DEF PanelNext

\* A CPU the operator stopped with F6 runs no instruction, whatever interrupts
\* come in and whatever other keys are waiting for the link, until F6 or F5 asks
\* for it (io_console.ts, cpu_board_link.ts, mn1613.ts); as long as nothing uses
\* DMA, whose end() lowers HLT whoever raised it (cpu_dma.ts).
THEOREM HaltHolds ==
  ASSUME NoDma
  PROVE  Spec => []OperatorHaltHolds
<1>1. Init => HaltInv
  <2> SUFFICES ASSUME Init PROVE HaltInv OBVIOUS
  <2>1. toCpu = <<>> /\ bus = <<>> /\ toIo = <<>> /\ held = FALSE
    BY DEF Init, CpuInit, NoDma
  <2>2. LinkInv BY <2>1, AskQueues, WaitQueues, AnswerQueues DEF LinkInv
  <2>3. JobInv
    <3>1. jobs = [j \in Jobs |-> Free] BY DEF Init, NoDma
    <3>2. Free \in JobType BY DEF Free, JobType, KeyNames
    <3> QED BY <3>1, <3>2 DEF JobInv
  <2> QED BY <2>1, <2>2, <2>3 DEF HaltInv, HeldInv
<1>2. HaltInv /\ [Next]_vars => HaltInv'
  <2> SUFFICES ASSUME HaltInv, [Next]_vars PROVE HaltInv' OBVIOUS
  <2>1. CASE CpuNext /\ UNCHANGED <<panelVars, jobVars, countVars, failed>>
    <3>1. LinkInv' /\ HeldInv' BY <2>1, CpuKeeps
    <3>2. JobInv' BY <2>1 DEF jobVars, HaltInv, JobInv
    <3> QED BY <3>1, <3>2 DEF HaltInv
  <2>2. CASE PanelNext BY <2>2, PanelKeeps
  <2>3. CASE UNCHANGED vars
    BY <2>3 DEF HaltInv, LinkInv, HeldInv, JobInv, vars, allCpuVars, cpuVars,
                linkVars, jobVars
  <2> QED BY <2>1, <2>2, <2>3 DEF Next
<1>3. HaltInv => OperatorHaltHolds BY DEF HaltInv, HeldInv, OperatorHaltHolds
<1> QED BY <1>1, <1>2, <1>3, PTL DEF Spec

-----------------------------------------------------------------------------
(* Where the request of a job is, or the answer to it.                     *)

\* What a job may be; only the load of a hex file is at "load".
AnyJob == {Free}
  \union [pc : {"read", "write", "store", "exec", "go", "halt"}, key : KeyNames]
  \union [pc : {"reset"}, key : KeyNames, step : 1..5]
  \union [pc : {"load"}, key : KeyNames, step : Nat]

AnyJobs == /\ jobs \in [Jobs -> AnyJob]
           /\ \A j \in Jobs : jobs[j].pc = "load" => j = Load

\* Job j does not wait for the link, or has its one request or answer in one
\* of the three queues.
Silent(j) == jobs[j] = Free \/ OnFile(j)
Nowhere(j) == /\ Of(toCpu, "from", j) = {} /\ Of(bus, "from", j) = {}
              /\ Of(toIo, "to", j) = {}
Asked(j) == /\ One(Of(toCpu, "from", j)) /\ Of(bus, "from", j) = {}
            /\ Of(toIo, "to", j) = {}
Queued(j) == /\ Of(toCpu, "from", j) = {} /\ One(Of(bus, "from", j))
             /\ Of(toIo, "to", j) = {}
Answered(j) == /\ Of(toCpu, "from", j) = {} /\ Of(bus, "from", j) = {}
               /\ One(Of(toIo, "to", j))
Somewhere(j) == Asked(j) \/ Queued(j) \/ Answered(j)
Counted(j) == IF Silent(j) THEN Nowhere(j) ELSE Somewhere(j)

Queues == WaitQueue(toCpu) /\ WaitQueue(bus) /\ AnswerQueue(toIo)
CountInv == Queues /\ AnyJobs /\ \A j \in Jobs : Counted(j)

LEMMA QueuesAreQueues ==
  ASSUME Queues
  PROVE  Queue(toCpu) /\ Queue(bus) /\ Queue(toIo)
BY DEF Queues, WaitQueue, AnswerQueue, Queue

\* What other jobs have on its way stays where it is, or goes on.
Keeps(j) == /\ Nowhere(j) => Nowhere(j)'
            /\ Somewhere(j) => Somewhere(j)'

LEMMA KeptCount ==
  ASSUME NEW j \in Jobs, Counted(j), Keeps(j), jobs'[j] = jobs[j]
  PROVE  Counted(j)'
BY DEF Counted, Keeps, Silent, OnFile

LEMMA SameQueues ==
  ASSUME UNCHANGED <<toCpu, bus, toIo>>, NEW j
  PROVE  Keeps(j)
BY DEF Keeps, Nowhere, Somewhere, Asked, Queued, Answered

\* The CPU worker answers a request of the link at once ...
LEMMA AnswerMoves ==
  ASSUME Queues, toCpu # <<>>, toCpu' = Tail(toCpu), bus' = bus,
         NEW ok, NEW val, Reply(Head(toCpu), ok, val)
  PROVE  Queues' /\ \A j \in Jobs : Keeps(j)
<1> DEFINE m == Head(toCpu)
           r == [to |-> m.from, ok |-> ok, val |-> val]
<1>1. Queue(toCpu) /\ Queue(bus) /\ Queue(toIo) BY QueuesAreQueues
<1>2. Waits(m) /\ WaitQueue(toCpu') BY WaitQueues DEF Queues
<1>3. toIo' = Append(toIo, r) BY DEF Reply
<1>4. Answers(r) BY <1>2 DEF Waits, Answers
<1>5. AnswerQueue(toIo') BY <1>3, <1>4, AnswerQueues DEF Queues
<1>6. r["to"] = m["from"] OBVIOUS
<1> HIDE DEF m, r
<1>7. ASSUME NEW j \in Jobs PROVE Keeps(j)
  <2>1. /\ m["from"] = j => Of(toCpu, "from", j) # {}
        /\ m["from"] = j /\ One(Of(toCpu, "from", j)) => Of(toCpu', "from", j) = {}
        /\ Of(toCpu, "from", j) = {} => Of(toCpu', "from", j) = {}
        /\ m["from"] # j /\ One(Of(toCpu, "from", j)) => One(Of(toCpu', "from", j))
    BY <1>1, TakeOf DEF m
  <2>2. /\ r["to"] # j => Of(toIo', "to", j) = Of(toIo, "to", j)
        /\ r["to"] = j /\ Of(toIo, "to", j) = {} => One(Of(toIo', "to", j))
    BY <1>1, <1>3, PutOf
  <2>3. Of(bus', "from", j) = Of(bus, "from", j) OBVIOUS
  <2>4. CASE m["from"] = j
    BY <1>6, <2>1, <2>2, <2>3, <2>4
    DEF Keeps, Nowhere, Somewhere, Asked, Queued, Answered, One
  <2>5. CASE m["from"] # j
    BY <1>6, <2>1, <2>2, <2>3, <2>5
    DEF Keeps, Nowhere, Somewhere, Asked, Queued, Answered
  <2> QED BY <2>4, <2>5
<1> QED BY <1>2, <1>5, <1>7 DEF Queues

\* ... or queues it for the bus ...
LEMMA QueueMoves ==
  ASSUME Queues, toCpu # <<>>, toCpu' = Tail(toCpu), toIo' = toIo,
         bus' = Append(bus, Head(toCpu))
  PROVE  Queues' /\ \A j \in Jobs : Keeps(j)
<1> DEFINE m == Head(toCpu)
<1>1. Queue(toCpu) /\ Queue(bus) /\ Queue(toIo) BY QueuesAreQueues
<1>2. Waits(m) /\ WaitQueue(toCpu') BY WaitQueues DEF Queues
<1>3. bus' = Append(bus, m) OBVIOUS
<1>4. WaitQueue(bus') BY <1>2, WaitQueues DEF Queues
<1> HIDE DEF m
<1>5. ASSUME NEW j \in Jobs PROVE Keeps(j)
  <2>1. /\ m["from"] = j => Of(toCpu, "from", j) # {}
        /\ m["from"] = j /\ One(Of(toCpu, "from", j)) => Of(toCpu', "from", j) = {}
        /\ Of(toCpu, "from", j) = {} => Of(toCpu', "from", j) = {}
        /\ m["from"] # j /\ One(Of(toCpu, "from", j)) => One(Of(toCpu', "from", j))
    BY <1>1, TakeOf DEF m
  <2>2. /\ m["from"] # j => Of(bus', "from", j) = Of(bus, "from", j)
        /\ m["from"] = j /\ Of(bus, "from", j) = {} => One(Of(bus', "from", j))
    BY <1>1, <1>3, PutOf
  <2>3. Of(toIo', "to", j) = Of(toIo, "to", j) OBVIOUS
  <2>4. CASE m["from"] = j
    BY <2>1, <2>2, <2>3, <2>4
    DEF Keeps, Nowhere, Somewhere, Asked, Queued, Answered, One
  <2>5. CASE m["from"] # j
    BY <2>1, <2>2, <2>3, <2>5
    DEF Keeps, Nowhere, Somewhere, Asked, Queued, Answered
  <2> QED BY <2>4, <2>5
<1> QED BY <1>2, <1>4, <1>5 DEF Queues

\* ... whose head is answered later.
LEMMA BusMoves ==
  ASSUME Queues, bus # <<>>, bus' = Tail(bus), toCpu' = toCpu,
         NEW ok, NEW val, Reply(Head(bus), ok, val)
  PROVE  Queues' /\ \A j \in Jobs : Keeps(j)
<1> DEFINE m == Head(bus)
           r == [to |-> m.from, ok |-> ok, val |-> val]
<1>1. Queue(toCpu) /\ Queue(bus) /\ Queue(toIo) BY QueuesAreQueues
<1>2. Waits(m) /\ WaitQueue(bus') BY WaitQueues DEF Queues
<1>3. toIo' = Append(toIo, r) BY DEF Reply
<1>4. Answers(r) BY <1>2 DEF Waits, Answers
<1>5. AnswerQueue(toIo') BY <1>3, <1>4, AnswerQueues DEF Queues
<1>6. r["to"] = m["from"] OBVIOUS
<1> HIDE DEF m, r
<1>7. ASSUME NEW j \in Jobs PROVE Keeps(j)
  <2>1. /\ m["from"] = j => Of(bus, "from", j) # {}
        /\ m["from"] = j /\ One(Of(bus, "from", j)) => Of(bus', "from", j) = {}
        /\ Of(bus, "from", j) = {} => Of(bus', "from", j) = {}
        /\ m["from"] # j /\ One(Of(bus, "from", j)) => One(Of(bus', "from", j))
    BY <1>1, TakeOf DEF m
  <2>2. /\ r["to"] # j => Of(toIo', "to", j) = Of(toIo, "to", j)
        /\ r["to"] = j /\ Of(toIo, "to", j) = {} => One(Of(toIo', "to", j))
    BY <1>1, <1>3, PutOf
  <2>3. Of(toCpu', "from", j) = Of(toCpu, "from", j) OBVIOUS
  <2>4. CASE m["from"] = j
    BY <1>6, <2>1, <2>2, <2>3, <2>4
    DEF Keeps, Nowhere, Somewhere, Asked, Queued, Answered, One
  <2>5. CASE m["from"] # j
    BY <1>6, <2>1, <2>2, <2>3, <2>5
    DEF Keeps, Nowhere, Somewhere, Asked, Queued, Answered
  <2> QED BY <2>4, <2>5
<1> QED BY <1>2, <1>5, <1>7 DEF Queues

LEMMA CpuCounts ==
  ASSUME Queues, CpuNext
  PROVE  Queues' /\ \A j \in Jobs : Keeps(j)
<1>1. CASE CpuReceive
  <2> DEFINE msg == Head(toCpu)
  <2>1. \/ SetHalt(msg) \/ ReleaseHalt(msg) \/ DmaWrite(msg) \/ PulseReset(msg)
        \/ Exec(msg) \/ Configure(msg) \/ RaiseIrq(msg) \/ MemCommand(msg)
    BY <1>1 DEF CpuReceive
  <2>2. toCpu # <<>> /\ toCpu' = Tail(toCpu) BY <1>1 DEF CpuReceive
  <2>3. CASE MemCommand(msg) BY <2>2, <2>3, QueueMoves DEF MemCommand
  <2>4. CASE ~MemCommand(msg)
    <3>1. bus' = bus /\ Reply(msg, TRUE, 0)
      BY <2>1, <2>4 DEF SetHalt, ReleaseHalt, DmaWrite, PulseReset, Exec,
         Configure, RaiseIrq
    <3> QED BY <2>2, <3>1, AnswerMoves
  <2> QED BY <2>3, <2>4
<1>2. CASE RetryIrq \/ CpuSlice \/ Pump
  <2>1. UNCHANGED <<toCpu, bus, toIo>>
    BY <1>2 DEF RetryIrq, CpuSlice, Pump, linkVars
  <2> QED BY <2>1, SameQueues DEF Queues
<1>3. CASE ServeMem BY <1>3, BusMoves DEF ServeMem
<1>4. CASE FailMem BY <1>4, BusMoves DEF FailMem
<1> QED BY <1>1, <1>2, <1>3, <1>4 DEF CpuNext

-----------------------------------------------------------------------------
(* The IO worker: a job goes on without the link, or with one request.     *)

Quiet(k) == k = Free \/ k.pc = "store" \/ (k.pc = "reset" /\ k.step = 1)

Moves(j) ==
  \E k \in AnyJob :
    /\ k.pc = "load" => j = Load
    /\ jobs' = [jobs EXCEPT ![j] = k]
    /\ \/ Quiet(k) /\ toCpu' = toCpu
       \/ ~Quiet(k) /\ \E key, op, a, v : Send(j, key, op, a, v)

LEMMA SendMoves ==
  ASSUME WaitQueue(toCpu), NEW j \in Senders, NEW key, NEW op, NEW a, NEW v,
         Send(j, key, op, a, v)
  PROVE  /\ WaitQueue(toCpu')
         /\ \A i : i # j => Of(toCpu', "from", i) = Of(toCpu, "from", i)
         /\ Of(toCpu, "from", j) = {} => One(Of(toCpu', "from", j))
<1> DEFINE m == [from |-> j, key |-> key, op |-> op, addr |-> a, val |-> v]
<1>1. Queue(toCpu) BY DEF WaitQueue, Queue
<1>2. toCpu' = Append(toCpu, m) BY DEF Send
<1>3. m["from"] = j /\ Waits(m) BY DEF Waits
<1> HIDE DEF m
<1>4. WaitQueue(toCpu') BY <1>2, <1>3, WaitQueues
<1> QED BY <1>1, <1>2, <1>3, <1>4, PutOf

\* The job that moves was silent ...
LEMMA SilentMoves ==
  ASSUME CountInv, NEW j \in Jobs, Silent(j), Moves(j), bus' = bus, toIo' = toIo
  PROVE  CountInv'
<1>1. PICK k \in AnyJob :
        /\ k.pc = "load" => j = Load
        /\ jobs' = [jobs EXCEPT ![j] = k]
        /\ \/ Quiet(k) /\ toCpu' = toCpu
           \/ ~Quiet(k) /\ \E key, op, a, v : Send(j, key, op, a, v)
  BY DEF Moves
<1>2. AnyJobs' BY <1>1 DEF CountInv, AnyJobs
<1>3. jobs'[j] = k /\ \A i \in Jobs : i # j => jobs'[i] = jobs[i]
  BY <1>1 DEF CountInv, AnyJobs
<1>4. Silent(j)' <=> Quiet(k) BY <1>3 DEF Silent, OnFile, Quiet
<1>5. Nowhere(j) BY DEF CountInv, Counted
<1>6. CASE Quiet(k)
  <2>1. UNCHANGED <<toCpu, bus, toIo>> BY <1>1, <1>6
  <2>2. Queues' BY <2>1 DEF CountInv, Queues
  <2>3. Nowhere(j)' BY <1>5, <2>1 DEF Nowhere
  <2>4. \A i \in Jobs : i # j => Counted(i)'
    BY <1>3, <2>1, SameQueues, KeptCount DEF CountInv
  <2> QED BY <1>2, <1>4, <1>6, <2>2, <2>3, <2>4 DEF CountInv, Counted
<1>7. CASE ~Quiet(k)
  <2>1. PICK key, op, a, v : Send(j, key, op, a, v) BY <1>1, <1>7
  <2>2. /\ WaitQueue(toCpu')
        /\ \A i : i # j => Of(toCpu', "from", i) = Of(toCpu, "from", i)
        /\ Of(toCpu, "from", j) = {} => One(Of(toCpu', "from", j))
    BY <2>1, SendMoves DEF CountInv, Queues, Senders
  <2>3. Queues' BY <2>2 DEF CountInv, Queues
  <2>4. Somewhere(j)' BY <1>5, <2>2 DEF Nowhere, Somewhere, Asked
  <2>5. ASSUME NEW i \in Jobs, i # j PROVE Counted(i)'
    <3>1. Keeps(i)
      BY <2>2, <2>5 DEF Keeps, Nowhere, Somewhere, Asked, Queued, Answered
    <3> QED BY <1>3, <2>5, <3>1, KeptCount DEF CountInv
  <2> QED BY <1>2, <1>4, <1>7, <2>3, <2>4, <2>5 DEF CountInv, Counted
<1> QED BY <1>6, <1>7

\* ... or is the one whose answer is taken.
LEMMA AnsweredMoves ==
  ASSUME CountInv, toIo # <<>>, toIo' = Tail(toIo), bus' = bus,
         NEW j \in Jobs, Head(toIo).to = j, Moves(j)
  PROVE  CountInv'
<1> DEFINE r == Head(toIo)
<1>1. PICK k \in AnyJob :
        /\ k.pc = "load" => j = Load
        /\ jobs' = [jobs EXCEPT ![j] = k]
        /\ \/ Quiet(k) /\ toCpu' = toCpu
           \/ ~Quiet(k) /\ \E key, op, a, v : Send(j, key, op, a, v)
  BY DEF Moves
<1>2. AnyJobs' BY <1>1 DEF CountInv, AnyJobs
<1>3. jobs'[j] = k /\ \A i \in Jobs : i # j => jobs'[i] = jobs[i]
  BY <1>1 DEF CountInv, AnyJobs
<1>4. Silent(j)' <=> Quiet(k) BY <1>3 DEF Silent, OnFile, Quiet
<1>5. AnswerQueue(toIo') /\ Queue(toIo)
  BY AnswerQueues, QueuesAreQueues DEF CountInv, Queues
<1>6. r["to"] = j OBVIOUS
<1> HIDE DEF r
<1>7. \A i \in Jobs :
        /\ r["to"] = i => Of(toIo, "to", i) # {}
        /\ r["to"] = i /\ One(Of(toIo, "to", i)) => Of(toIo', "to", i) = {}
        /\ Of(toIo, "to", i) = {} => Of(toIo', "to", i) = {}
        /\ r["to"] # i /\ One(Of(toIo, "to", i)) => One(Of(toIo', "to", i))
  BY <1>5, TakeOf DEF r
<1>8. /\ Of(toCpu, "from", j) = {} /\ Of(bus, "from", j) = {}
      /\ Of(toIo', "to", j) = {}
  BY <1>6, <1>7 DEF CountInv, Counted, Nowhere, Somewhere, Asked, Queued, Answered
<1>9. CASE Quiet(k)
  <2>1. toCpu' = toCpu BY <1>1, <1>9
  <2>2. Queues' BY <1>5, <2>1 DEF CountInv, Queues
  <2>3. Nowhere(j)' BY <1>8, <2>1 DEF Nowhere
  <2>4. ASSUME NEW i \in Jobs, i # j PROVE Counted(i)'
    <3>1. Keeps(i)
      BY <1>6, <1>7, <2>1, <2>4
      DEF Keeps, Nowhere, Somewhere, Asked, Queued, Answered
    <3> QED BY <1>3, <2>4, <3>1, KeptCount DEF CountInv
  <2> QED BY <1>2, <1>4, <1>9, <2>2, <2>3, <2>4 DEF CountInv, Counted
<1>10. CASE ~Quiet(k)
  <2>1. PICK key, op, a, v : Send(j, key, op, a, v) BY <1>1, <1>10
  <2>2. /\ WaitQueue(toCpu')
        /\ \A i : i # j => Of(toCpu', "from", i) = Of(toCpu, "from", i)
        /\ Of(toCpu, "from", j) = {} => One(Of(toCpu', "from", j))
    BY <2>1, SendMoves DEF CountInv, Queues, Senders
  <2>3. Queues' BY <1>5, <2>2 DEF CountInv, Queues
  <2>4. Somewhere(j)' BY <1>8, <2>2 DEF Somewhere, Asked
  <2>5. ASSUME NEW i \in Jobs, i # j PROVE Counted(i)'
    <3>1. Keeps(i)
      BY <1>6, <1>7, <2>2, <2>5
      DEF Keeps, Nowhere, Somewhere, Asked, Queued, Answered
    <3> QED BY <1>3, <2>5, <3>1, KeptCount DEF CountInv
  <2> QED BY <1>2, <1>4, <1>10, <2>3, <2>4, <2>5 DEF CountInv, Counted
<1> QED BY <1>9, <1>10

LEMMA DoneMoves ==
  ASSUME NEW j \in Jobs, Done(j), toCpu' = toCpu
  PROVE  Moves(j)
<1>1. Free \in AnyJob /\ Quiet(Free) /\ Free.pc # "load"
  BY DEF AnyJob, Quiet, Free
<1> QED BY <1>1 DEF Moves, Done

LEMMA AwaitsMoves ==
  ASSUME NEW j \in Jobs, NEW pc \in {"read", "write", "exec", "go", "halt"},
         NEW key \in KeyNames, Awaits(j, pc, key),
         NEW op, NEW a, NEW v, Send(j, key, op, a, v)
  PROVE  Moves(j)
<1> DEFINE k == [pc |-> pc, key |-> key]
<1>1. k \in AnyJob /\ ~Quiet(k) /\ k.pc # "load" BY DEF AnyJob, Quiet, Free
<1> QED BY <1>1 DEF Moves, Awaits

LEMMA ReadAtMoves ==
  ASSUME NEW j \in Jobs, NEW key \in KeyNames, NEW a, ReadAt(j, key, a)
  PROVE  Moves(j)
<1>1. CASE mode = "setting_area" BY <1>1, DoneMoves DEF ReadAt
<1>2. CASE mode # "setting_area"
  <2>1. Send(j, key, "read", a, 0) /\ Awaits(j, "read", key) BY <1>2 DEF ReadAt
  <2> QED BY <2>1, AwaitsMoves
<1> QED BY <1>1, <1>2

LEMMA WriteDoneMoves ==
  ASSUME NEW j \in Jobs, WriteDone(j)
  PROVE  Moves(j)
BY ReadAtMoves DEF WriteDone, KeyNames

LEMMA ResetMoves ==
  ASSUME AnyJobs, NEW j \in Jobs, jobs[j].pc = "reset", ResetStep(j)
  PROVE  Moves(j)
<1> DEFINE n == jobs[j].step + 1
           k == [jobs[j] EXCEPT !.step = n]
<1>1. jobs[j] \in [pc : {"reset"}, key : KeyNames, step : 1..5]
  BY DEF AnyJobs, AnyJob, Free
<1>2. Len(ResetSteps) = 5 BY DEF ResetSteps
<1>3. CASE n > 5
  <2>1. Done(j) /\ toCpu' = toCpu BY <1>2, <1>3 DEF ResetStep
  <2> QED BY <2>1, DoneMoves
<1>4. CASE ~(n > 5)
  <2>1. k \in [pc : {"reset"}, key : KeyNames, step : 1..5] /\ k.step # 1
    BY <1>1, <1>4
  <2>2. k \in AnyJob /\ ~Quiet(k) /\ k.pc # "load"
    BY <2>1 DEF AnyJob, Quiet, Free
  <2>3. jobs' = [jobs EXCEPT ![j] = k]
    BY <1>2, <1>4 DEF ResetStep, AnyJobs
  <2>4. \E key, op, a, v : Send(j, key, op, a, v)
    BY <1>2, <1>4 DEF ResetStep
  <2> QED BY <2>2, <2>3, <2>4 DEF Moves
<1> QED BY <1>3, <1>4

LEMMA LoadMoves ==
  ASSUME AnyJobs, Load \in Jobs, jobs[Load].pc = "load", LoadStep
  PROVE  Moves(Load)
<1> DEFINE k == [jobs[Load] EXCEPT !.step = @ + 1]
<1>1. jobs[Load] \in [pc : {"load"}, key : KeyNames, step : Nat]
  BY DEF AnyJobs, AnyJob, Free
<1>2. CASE jobs[Load].step = Chunks
  <2>1. Done(Load) /\ toCpu' = toCpu BY <1>2 DEF LoadStep
  <2> QED BY <2>1, DoneMoves
<1>3. CASE jobs[Load].step # Chunks
  <2>1. k \in [pc : {"load"}, key : KeyNames, step : Nat] BY <1>1
  <2>2. k \in AnyJob /\ ~Quiet(k) BY <2>1 DEF AnyJob, Quiet, Free
  <2>3. jobs' = [jobs EXCEPT ![Load] = k] BY <1>3 DEF LoadStep, AnyJobs
  <2>4. \E key, op, a, v : Send(Load, key, op, a, v) BY <1>3 DEF LoadStep
  <2> QED BY <2>2, <2>3, <2>4 DEF Moves
<1> QED BY <1>2, <1>3

\* A key that does not move its job leaves jobs and link as they are.
LEMMA PressMoves ==
  ASSUME NEW key, PressFunction(key)
  PROVE  \E j \in Slots :
           /\ jobs[j] = Free
           /\ Moves(j) \/ UNCHANGED <<jobs, toCpu>>
<1>1. PICK j \in Slots :
        /\ jobs[j] = Free
        /\ \/ KeyAds(j) \/ KeyClr(j) \/ (key \in {"F2", "F3"} /\ KeyIncDec(j, key))
           \/ KeyWinc(j) \/ KeyRun(j) \/ KeyHaltStart(j) \/ KeyReset(j)
  BY DEF PressFunction
<1>2. j \in Jobs BY SlotsAreJobs
<1>3. CASE KeyAds(j)
  <2>1. \/ UNCHANGED <<jobs, toCpu>>
        \/ \E a : Send(j, "F0", "read", a, 0) /\ Awaits(j, "read", "F0")
    BY <1>3 DEF KeyAds
  <2>2. UNCHANGED <<jobs, toCpu>> \/ Moves(j)
    BY <1>2, <2>1, AwaitsMoves DEF KeyNames
  <2> QED BY <1>1, <2>2
<1>4. CASE KeyClr(j) BY <1>1, <1>4 DEF KeyClr
<1>5. CASE key \in {"F2", "F3"} /\ KeyIncDec(j, key)
  <2>1. key \in KeyNames /\ ReadAt(j, key, addr') BY <1>5 DEF KeyIncDec, KeyNames
  <2> QED BY <1>1, <1>2, <2>1, ReadAtMoves
<1>6. CASE KeyWinc(j)
  <2>1. CASE Awaits(j, "store", "F4") /\ toCpu' = toCpu
    <3> DEFINE k == [pc |-> "store", key |-> "F4"]
    <3>1. k \in AnyJob /\ Quiet(k) /\ k.pc # "load"
      BY DEF AnyJob, Quiet, KeyNames
    <3>2. Moves(j) BY <2>1, <3>1 DEF Moves, Awaits
    <3> QED BY <1>1, <3>2
  <2>2. CASE \E a, v : Send(j, "F4", "write", a, v) /\ Awaits(j, "write", "F4")
    <3>1. Moves(j) BY <1>2, <2>2, AwaitsMoves DEF KeyNames
    <3> QED BY <1>1, <3>1
  <2> QED BY <1>6, <2>1, <2>2 DEF KeyWinc
<1>7. CASE KeyRun(j)
  <2>1. \E a : Send(j, "F5", "exec", a, 0) /\ Awaits(j, "exec", "F5")
    BY <1>7 DEF KeyRun
  <2>2. Moves(j) BY <1>2, <2>1, AwaitsMoves DEF KeyNames
  <2> QED BY <1>1, <2>2
<1>8. CASE KeyHaltStart(j)
  <2>1. \E op \in {"go", "halt"} : Send(j, "F6", op, 0, 0) /\ Awaits(j, op, "F6")
    BY <1>8 DEF KeyHaltStart
  <2>2. Moves(j) BY <1>2, <2>1, AwaitsMoves DEF KeyNames
  <2> QED BY <1>1, <2>2
<1>9. CASE KeyReset(j)
  <2>1. CASE resetBusy BY <1>1, <1>9, <2>1 DEF KeyReset
  <2>2. CASE ~resetBusy
    <3> DEFINE k == [pc |-> "reset", key |-> "F7", step |-> 1]
    <3>1. k \in AnyJob /\ Quiet(k) /\ k.pc # "load"
      BY DEF AnyJob, Quiet, KeyNames
    <3>2. jobs' = [jobs EXCEPT ![j] = k] /\ toCpu' = toCpu
      BY <1>9, <2>2 DEF KeyReset
    <3>3. Moves(j) BY <3>1, <3>2 DEF Moves
    <3> QED BY <1>1, <3>3
  <2> QED BY <2>1, <2>2
<1> QED BY <1>1, <1>3, <1>4, <1>5, <1>6, <1>7, <1>8, <1>9

LEMMA SameCount ==
  ASSUME CountInv, UNCHANGED <<jobs, toCpu, bus, toIo>>
  PROVE  CountInv'
BY SameQueues, KeptCount DEF CountInv, Queues, AnyJobs

LEMMA ReceiveCounts ==
  ASSUME CountInv, IoReceive
  PROVE  CountInv'
<1> DEFINE r == Head(toIo)
<1>1. toIo # <<>> /\ toIo' = Tail(toIo) /\ bus' = bus BY DEF IoReceive
<1>2. AnswerQueue(toIo') /\ Answers(r)
  BY <1>1, AnswerQueues DEF CountInv, Queues
<1>3. CASE r.to = Timer
  <2>1. UNCHANGED <<jobs, toCpu>> BY <1>3 DEF IoReceive, jobVars
  <2>2. Timer \notin Jobs BY PanelAssumption DEF Timer, Jobs, Slots, Power, Load
  <2>3. ASSUME NEW j \in Jobs PROVE Counted(j)'
    <3>1. r["to"] # j BY <1>3, <2>2, <2>3
    <3>2. /\ Of(toIo, "to", j) = {} => Of(toIo', "to", j) = {}
          /\ One(Of(toIo, "to", j)) => One(Of(toIo', "to", j))
      BY <1>1, <3>1, TakeOf, QueuesAreQueues DEF CountInv
    <3>3. Keeps(j)
      BY <1>1, <2>1, <3>2 DEF Keeps, Nowhere, Somewhere, Asked, Queued, Answered
    <3> QED BY <2>1, <2>3, <3>3, KeptCount DEF CountInv
  <2> QED BY <1>1, <1>2, <2>1, <2>3 DEF CountInv, Queues, AnyJobs
<1>4. CASE r.to # Timer
  <2> DEFINE j == r.to
  <2>1. j \in Jobs BY <1>2, <1>4 DEF Answers, Senders
  <2>2. \/ Done(j) /\ toCpu' = toCpu
        \/ \E v : ReadDone(j, v)
        \/ WriteDone(j) \/ ControlDone(j)
        \/ jobs[j].pc = "reset" /\ ResetStep(j)
        \/ jobs[j].pc = "load" /\ LoadStep
    BY <1>4 DEF IoReceive
  <2>3. jobs[j].pc = "load" => j = Load BY <2>1 DEF CountInv, AnyJobs
  <2> HIDE DEF j
  <2>4. Moves(j)
    <3>1. CASE Done(j) /\ toCpu' = toCpu BY <2>1, <3>1, DoneMoves
    <3>2. CASE \E v : ReadDone(j, v) BY <2>1, <3>2, DoneMoves DEF ReadDone
    <3>3. CASE WriteDone(j) BY <2>1, <3>3, WriteDoneMoves
    <3>4. CASE ControlDone(j) BY <2>1, <3>4, DoneMoves DEF ControlDone
    <3>5. CASE jobs[j].pc = "reset" /\ ResetStep(j)
      BY <2>1, <3>5, ResetMoves DEF CountInv
    <3>6. CASE jobs[j].pc = "load" /\ LoadStep
      BY <2>1, <2>3, <3>6, LoadMoves DEF CountInv
    <3> QED BY <2>2, <3>1, <3>2, <3>3, <3>4, <3>5, <3>6
  <2> QED BY <1>1, <2>1, <2>4, AnsweredMoves DEF j
<1> QED BY <1>3, <1>4

LEMMA PanelCounts ==
  ASSUME CountInv, PanelNext
  PROVE  CountInv'
<1>1. CASE \E key \in {"F0", "F1", "F2", "F3", "F4", "F5", "F6", "F7"} :
             PressFunction(key)
  <2>1. bus' = bus /\ toIo' = toIo BY <1>1 DEF PressFunction
  <2>2. PICK j \in Slots : /\ jobs[j] = Free
                           /\ Moves(j) \/ UNCHANGED <<jobs, toCpu>>
    BY <1>1, PressMoves
  <2>3. j \in Jobs /\ Silent(j) BY <2>2, SlotsAreJobs DEF Silent
  <2> QED BY <2>1, <2>2, <2>3, SilentMoves, SameCount
<1>2. CASE (\E n \in 0..(Radix - 1) : PressHex(n)) \/ HoldAds \/ SetTimer \/ IoSlice
  <2>1. UNCHANGED <<jobs, toCpu, bus, toIo>>
    BY <1>2 DEF PressHex, HoldAds, SetTimer, IoSlice, jobVars, allCpuVars, linkVars
  <2> QED BY <2>1, SameCount
<1>3. CASE IoReceive BY <1>3, ReceiveCounts
<1>4. CASE \E j \in Jobs : FileDone(j)
  <2>1. PICK j \in Jobs :
          \/ jobs[j].pc = "reset" /\ jobs[j].step = 1 /\ ResetStep(j)
          \/ jobs[j].pc = "store" /\ WriteDone(j)
    BY <1>4 DEF FileDone
  <2>2. bus' = bus /\ toIo' = toIo BY <1>4 DEF FileDone
  <2>3. Silent(j) BY <2>1 DEF Silent, OnFile
  <2>4. Moves(j) BY <2>1, WriteDoneMoves, ResetMoves DEF CountInv
  <2> QED BY <2>2, <2>3, <2>4, SilentMoves
<1>5. CASE StartLoad
  <2> DEFINE k == [pc |-> "load", key |-> "none", step |-> 1]
  <2>1. Load \in Jobs /\ Silent(Load) BY <1>5 DEF StartLoad, Jobs, Silent
  <2>2. k \in AnyJob /\ ~Quiet(k) BY DEF AnyJob, Quiet, Free, KeyNames
  <2>3. /\ bus' = bus /\ toIo' = toIo /\ jobs' = [jobs EXCEPT ![Load] = k]
        /\ Send(Load, "none", "dma", 0, 0)
    BY <1>5 DEF StartLoad
  <2>4. Moves(Load) BY <2>2, <2>3 DEF Moves
  <2> QED BY <2>1, <2>3, <2>4, SilentMoves
<1>6. CASE TimerExpires
  <2>1. bus' = bus /\ toIo' = toIo /\ jobs' = jobs
    BY <1>6 DEF TimerExpires, jobVars
  <2>2. Timer \in Senders /\ Timer \notin Jobs
    BY PanelAssumption DEF Senders, Timer, Jobs, Slots, Power, Load
  <2>3. Send(Timer, "none", "irq", 0, 0) BY <1>6 DEF TimerExpires
  <2>4. /\ WaitQueue(toCpu')
        /\ \A i : i # Timer => Of(toCpu', "from", i) = Of(toCpu, "from", i)
    BY <2>2, <2>3, SendMoves DEF CountInv, Queues
  <2>5. ASSUME NEW i \in Jobs PROVE Counted(i)'
    <3>1. Keeps(i)
      BY <2>1, <2>2, <2>4, <2>5
      DEF Keeps, Nowhere, Somewhere, Asked, Queued, Answered
    <3> QED BY <2>1, <2>5, <3>1, KeptCount DEF CountInv
  <2> QED BY <2>1, <2>4, <2>5 DEF CountInv, Queues, AnyJobs
<1> QED BY <1>1, <1>2, <1>3, <1>4, <1>5, <1>6 DEF PanelNext

LEMMA CountStart ==
  ASSUME Init
  PROVE  CountInv
<1>1. bus = <<>> /\ toIo = <<>> BY DEF Init, CpuInit
<1>2. \A q, j : q = <<>> => Of(q, "from", j) = {} /\ Of(q, "to", j) = {}
  BY DEF Of
<1>3. /\ Power \in Jobs /\ Power \in Senders /\ Power # Load
      /\ jobs = [j \in Jobs |->
           IF j = Power /\ FromPowerOn
           THEN [pc |-> "reset", key |-> "none", step |-> 2] ELSE Free]
  BY PanelAssumption DEF Init, Jobs, Senders, Power, Load
<1>4. AnyJobs
  <2>1. [pc |-> "reset", key |-> "none", step |-> 2] \in AnyJob /\ Free \in AnyJob
    BY DEF AnyJob, KeyNames
  <2> QED BY <1>3, <2>1 DEF AnyJobs, Free
<1>5. CASE ~FromPowerOn
  <2>1. toCpu = <<>> BY <1>5 DEF Init
  <2>2. Queues BY <1>1, <2>1, WaitQueues, AnswerQueues DEF Queues
  <2>3. ASSUME NEW j \in Jobs PROVE Counted(j)
    BY <1>1, <1>2, <1>3, <1>5, <2>1, <2>3 DEF Counted, Nowhere, Silent
  <2> QED BY <1>4, <2>2, <2>3 DEF CountInv
<1>6. CASE FromPowerOn
  <2> DEFINE m == [from |-> Power, key |-> "none", op |-> "cfg", addr |-> 0,
                   val |-> 0]
  <2>1. toCpu = <<m>> /\ toCpu = Append(<<>>, m) BY <1>6 DEF Init
  <2>2. m["from"] = Power /\ Waits(m) BY <1>3 DEF Waits
  <2> HIDE DEF m
  <2>3. WaitQueue(<<>>) /\ Queue(<<>>) BY WaitQueues DEF WaitQueue, Queue
  <2>4. WaitQueue(toCpu) BY <2>1, <2>2, <2>3, WaitQueues
  <2>5. Queues BY <1>1, <2>3, <2>4, AnswerQueues DEF Queues
  <2>6. \A j : /\ Power # j => Of(toCpu, "from", j) = {}
               /\ Power = j => One(Of(toCpu, "from", j))
    <3>1. ASSUME NEW j
          PROVE  /\ m["from"] # j => Of(Append(<<>>, m), "from", j) = Of(<<>>, "from", j)
                 /\ m["from"] = j /\ Of(<<>>, "from", j) = {}
                      => One(Of(Append(<<>>, m), "from", j))
      BY <2>3, PutOf
    <3>2. \A j : Of(<<>>, "from", j) = {} BY <1>2
    <3> QED BY <2>1, <2>2, <3>1, <3>2
  <2>7. ASSUME NEW j \in Jobs PROVE Counted(j)
    <3>1. j = Power => ~Silent(j) BY <1>3, <1>6 DEF Silent, OnFile, Free
    <3>2. j # Power => Silent(j) BY <1>3, <2>7 DEF Silent
    <3> QED BY <1>1, <1>2, <2>6, <2>7, <3>1, <3>2
         DEF Counted, Nowhere, Somewhere, Asked
  <2> QED BY <1>4, <2>5, <2>7 DEF CountInv
<1> QED BY <1>5, <1>6

LEMMA CountStep ==
  ASSUME CountInv, [Next]_vars
  PROVE  CountInv'
<1>1. CASE CpuNext /\ UNCHANGED <<panelVars, jobVars, countVars, failed>>
  <2>1. Queues' /\ \A j \in Jobs : Keeps(j) BY <1>1, CpuCounts DEF CountInv
  <2>2. jobs' = jobs BY <1>1 DEF jobVars
  <2> QED BY <2>1, <2>2, KeptCount DEF CountInv, AnyJobs
<1>2. CASE PanelNext BY <1>2, PanelCounts
<1>3. CASE UNCHANGED vars
  BY <1>3, SameCount DEF vars, jobVars, allCpuVars, linkVars
<1> QED BY <1>1, <1>2, <1>3 DEF Next

\* A job that waits for the link has exactly one request or answer on its way,
\* any other job none, however keys, resets, the load of a file and timer
\* interrupts interleave (io_console.ts onFunction, board_link_client.ts).
THEOREM OneRequest == Spec => []OneRequestPerJob
<1>1. CountInv => OneRequestPerJob
  <2>1. \A s : One(s) => Cardinality(s) = 1 BY FS_Singleton DEF One
  <2>2. Cardinality({}) = 0 BY FS_EmptySet
  <2>3. ASSUME CountInv, NEW j \in Jobs
        PROVE  Cardinality(Of(toCpu, "from", j)) + Cardinality(Of(bus, "from", j))
                 + Cardinality(Of(toIo, "to", j)) = IF Silent(j) THEN 0 ELSE 1
    <3>1. CASE Nowhere(j) /\ Silent(j) BY <2>2, <3>1 DEF Nowhere
    <3>2. CASE Somewhere(j) /\ ~Silent(j)
      BY <2>1, <2>2, <3>2 DEF Somewhere, Asked, Queued, Answered
    <3> QED BY <2>3, <3>1, <3>2 DEF CountInv, Counted
  <2>4. \A q, j : RequestsOf(q, j) = Of(q, "from", j) /\ AnswersTo(q, j) = Of(q, "to", j)
    BY DEF RequestsOf, AnswersTo, Of
  <2> QED BY <2>3, <2>4 DEF OneRequestPerJob, Silent
<1> QED BY <1>1, CountStart, CountStep, PTL DEF Spec

-----------------------------------------------------------------------------
(* What the display shows.  The keys are those that look at memory and change *)
(* it; digits, CLR, a reset and the setting area change the address or the *)
(* data while a command may be on its way, and so does RUN on a CPU whose  *)
(* addresses are even.                                                     *)

MemoryKeysOnly ==
  /\ Keys \subseteq {"F0", "F2", "F3", "F4", "F5", "F6"}
  /\ "F5" \in Keys => AddrStep = 1
  /\ ~FromPowerOn

MemOps == {"read", "write"}
MemAt(q) == {i \in DOMAIN q : q[i].op \in MemOps}
WaitsMem(j) == j \in Jobs /\ jobs[j].pc \in MemOps
WaitsNext(j) == j \in Jobs /\ jobs'[j].pc \in MemOps
MemAnswers == {i \in DOMAIN toIo : WaitsMem(toIo[i].to)}

\* Only keys ask for memory.
Plain == /\ mode = "monitor"
         /\ \A j \in Jobs : jobs[j].pc \notin {"store", "reset"}
         /\ \A j \in Jobs \ Slots : jobs[j].pc \notin MemOps

\* A memory command on its way is what its job waits for; the bus has no other.
Fits ==
  /\ \A i \in DOMAIN toCpu :
       IF WaitsMem(toCpu[i].from) THEN toCpu[i].op = jobs[toCpu[i].from].pc
                                  ELSE toCpu[i].op \notin MemOps
  /\ \A i \in DOMAIN bus :
       WaitsMem(bus[i].from) /\ bus[i].op = jobs[bus[i].from].pc

\* The last memory command on its way, wherever it is, is a write, which a read
\* follows, or a read of the address of now; once answered it has the word.
AskedLast ==
  \A i \in DOMAIN toCpu :
    LastOf(MemAt(toCpu), i) /\ toCpu[i].op = "read" => toCpu[i].addr = addr
QueuedLast ==
  MemAt(toCpu) = {} /\ bus # <<>> /\ bus[Len(bus)].op = "read"
    => bus[Len(bus)].addr = addr
AnsweredLast ==
  MemAt(toCpu) = {} /\ bus = <<>> =>
    \A i \in DOMAIN toIo :
      LastOf(MemAnswers, i) /\ jobs[toIo[i].to].pc = "read" /\ toIo[i].ok
        => toIo[i].val = mem[addr]
LastInv == Fits /\ AskedLast /\ QueuedLast /\ AnsweredLast

NoneWaits == \A j \in Jobs : jobs[j].pc \notin MemOps
Settled ==
  NoneWaits /\ ~failed =>
    /\ focus = "data" => data = mem[addr]
    /\ led.addr = addr /\ led.data = data /\ led.focus = focus

ShowInv == Plain /\ LastInv /\ Settled

LEMMA MemBack ==
  ASSUME NEW q, Queue(q), NEW m
  PROVE  /\ m.op \notin MemOps => MemAt(Append(q, m)) = MemAt(q)
         /\ m.op \in MemOps =>
              /\ MemAt(Append(q, m)) # {}
              /\ \A i : LastOf(MemAt(Append(q, m)), i) => i = Len(q) + 1
<1> DEFINE n == Len(q) + 1
<1>1. /\ n \in Nat \ {0} /\ DOMAIN q = 1..(n - 1) /\ DOMAIN Append(q, m) = 1..n
      /\ \A i \in 1..(n - 1) : Append(q, m)[i] = q[i]
      /\ Append(q, m)[n] = m
  BY QueueBack
<1> HIDE DEF n
<1>2. \A i \in 1..n : i = n \/ i \in 1..(n - 1) BY <1>1
<1>3. n \in 1..n /\ n \notin 1..(n - 1) BY <1>1
<1>4. ASSUME m.op \notin MemOps PROVE MemAt(Append(q, m)) = MemAt(q)
  BY <1>1, <1>2, <1>4 DEF MemAt
<1>5. ASSUME m.op \in MemOps
      PROVE  /\ n \in MemAt(Append(q, m))
             /\ \A i : LastOf(MemAt(Append(q, m)), i) => i = n
  <2>1. n \in MemAt(Append(q, m)) BY <1>1, <1>3, <1>5 DEF MemAt
  <2>2. \A i \in MemAt(Append(q, m)) : i \in 1..n BY <1>1 DEF MemAt
  <2>3. ASSUME NEW i, LastOf(MemAt(Append(q, m)), i) PROVE i = n
    <3>1. i \in 1..n /\ n <= i BY <2>1, <2>2, <2>3 DEF LastOf
    <3> QED BY <1>1, <3>1
  <2> QED BY <2>1, <2>3
<1> QED BY <1>4, <1>5 DEF n

LEMMA MemFront ==
  ASSUME NEW q, Queue(q), q # <<>>
  PROVE  /\ \A i : LastOf(MemAt(Tail(q)), i) =>
              /\ i \in 1..(Len(q) - 1) /\ Tail(q)[i] = q[i + 1]
              /\ LastOf(MemAt(q), i + 1) /\ i + 1 \in DOMAIN q
         /\ MemAt(Tail(q)) = {} => MemAt(q) \subseteq {1}
<1> DEFINE n == Len(q)
<1>1. /\ n \in Nat \ {0} /\ DOMAIN q = 1..n
      /\ DOMAIN Tail(q) = 1..(n - 1)
      /\ \A i \in 1..(n - 1) : Tail(q)[i] = q[i + 1]
  BY QueueFront
<1> HIDE DEF n
<1>2. \A k \in MemAt(q) : k \in 1..n /\ (k = 1 \/ k - 1 \in MemAt(Tail(q)))
  <2> SUFFICES ASSUME NEW k \in MemAt(q), k # 1
               PROVE  k \in 1..n /\ k - 1 \in MemAt(Tail(q))
    BY <1>1 DEF MemAt
  <2>1. k \in 1..n /\ q[k].op \in MemOps BY <1>1 DEF MemAt
  <2>2. k - 1 \in 1..(n - 1) /\ (k - 1) + 1 = k BY <1>1, <2>1
  <2>3. Tail(q)[k - 1] = q[k] BY <1>1, <2>2
  <2> QED BY <1>1, <2>1, <2>2, <2>3 DEF MemAt
<1>3. \A i \in MemAt(Tail(q)) :
        i \in 1..(n - 1) /\ i + 1 \in 1..n /\ i + 1 \in MemAt(q)
  BY <1>1 DEF MemAt
<1>4. ASSUME NEW i, LastOf(MemAt(Tail(q)), i) PROVE LastOf(MemAt(q), i + 1)
  <2>1. i \in 1..(n - 1) /\ i + 1 \in MemAt(q) BY <1>3, <1>4 DEF LastOf
  <2>2. ASSUME NEW k \in MemAt(q) PROVE k <= i + 1
    BY <1>1, <1>2, <1>4, <2>1, <2>2 DEF LastOf
  <2> QED BY <2>1, <2>2 DEF LastOf
<1>5. \A i : LastOf(MemAt(Tail(q)), i) => i \in 1..(n - 1) /\ i + 1 \in 1..n
  BY <1>3 DEF LastOf
<1>6. \A i : LastOf(MemAt(Tail(q)), i) => Tail(q)[i] = q[i + 1] BY <1>1, <1>5
<1>7. MemAt(Tail(q)) = {} => MemAt(q) \subseteq {1} BY <1>2
<1> QED BY <1>1, <1>4, <1>5, <1>6, <1>7 DEF n

LEMMA NextAnswers ==
  /\ MemAnswers' = {i \in DOMAIN toIo' : WaitsNext(toIo'[i].to)}
  /\ Fits' <=>
      /\ \A i \in DOMAIN toCpu' :
           IF WaitsNext(toCpu'[i].from) THEN toCpu'[i].op = jobs'[toCpu'[i].from].pc
                                        ELSE toCpu'[i].op \notin MemOps
      /\ \A i \in DOMAIN bus' :
           WaitsNext(bus'[i].from) /\ bus'[i].op = jobs'[bus'[i].from].pc
BY DEF MemAnswers, Fits, WaitsMem, WaitsNext

\* A step of the IO worker that sends no memory command and leaves the address:
\* the jobs keep what they are at, or have nothing on its way.
CalmJobs ==
  \A i \in Jobs :
    \/ jobs'[i].pc = jobs[i].pc
    \/ /\ jobs'[i].pc \notin MemOps
       /\ Of(toCpu, "from", i) = {} /\ Of(bus, "from", i) = {}
       /\ Of(toIo', "to", i) = {}

LEMMA CalmKeeps ==
  ASSUME Queues, LastInv, CalmJobs, UNCHANGED <<bus, mem, addr>>,
         \/ toCpu' = toCpu
         \/ \E m : /\ m.op \notin MemOps /\ ~WaitsNext(m.from)
                   /\ toCpu' = Append(toCpu, m),
         toIo' = toIo \/ (toIo # <<>> /\ toIo' = Tail(toIo))
  PROVE  LastInv'
<1>1. Queue(toCpu) /\ Queue(bus) /\ Queue(toIo) BY QueuesAreQueues
<1>2. \A i \in DOMAIN toCpu :
        /\ WaitsNext(toCpu[i].from) <=> WaitsMem(toCpu[i].from)
        /\ WaitsMem(toCpu[i].from) =>
             jobs'[toCpu[i].from].pc = jobs[toCpu[i].from].pc
  BY DEF CalmJobs, WaitsMem, WaitsNext, Of
<1>3. \A i \in DOMAIN bus :
        WaitsMem(bus[i].from) =>
          /\ WaitsNext(bus[i].from)
          /\ jobs'[bus[i].from].pc = jobs[bus[i].from].pc
  BY DEF CalmJobs, WaitsMem, WaitsNext, Of
<1>4. \A i \in DOMAIN toIo' :
        /\ WaitsNext(toIo'[i].to) <=> WaitsMem(toIo'[i].to)
        /\ WaitsMem(toIo'[i].to) =>
             jobs'[toIo'[i].to].pc = jobs[toIo'[i].to].pc
  BY DEF CalmJobs, WaitsMem, WaitsNext, Of
<1>5. /\ MemAt(toCpu') = MemAt(toCpu)
      /\ \A i \in DOMAIN toCpu : i \in DOMAIN toCpu' /\ toCpu'[i] = toCpu[i]
      /\ \A i \in DOMAIN toCpu' :
           i \in DOMAIN toCpu \/ (toCpu'[i].op \notin MemOps
                                  /\ ~WaitsNext(toCpu'[i].from))
  <2>1. CASE toCpu' = toCpu BY <2>1
  <2>2. CASE \E m : /\ m.op \notin MemOps /\ ~WaitsNext(m.from)
                    /\ toCpu' = Append(toCpu, m)
    <3>1. PICK m : /\ m.op \notin MemOps /\ ~WaitsNext(m.from)
                   /\ toCpu' = Append(toCpu, m)
      BY <2>2
    <3>2. MemAt(toCpu') = MemAt(toCpu) BY <1>1, <3>1, MemBack
    <3>3. /\ Len(toCpu) \in Nat /\ DOMAIN toCpu = 1..Len(toCpu)
          /\ DOMAIN toCpu' = 1..(Len(toCpu) + 1)
          /\ \A i \in 1..Len(toCpu) : toCpu'[i] = toCpu[i]
          /\ toCpu'[Len(toCpu) + 1] = m
      BY <1>1, <3>1, QueueBack
    <3>4. \A n \in Nat : \A i \in 1..(n + 1) : i \in 1..n \/ i = n + 1 OBVIOUS
    <3>5. \A i \in DOMAIN toCpu' : i \in DOMAIN toCpu \/ i = Len(toCpu) + 1
      BY <3>3, <3>4
    <3>6. \A n \in Nat : 1..n \subseteq 1..(n + 1) OBVIOUS
    <3>7. DOMAIN toCpu \subseteq DOMAIN toCpu' BY <3>3, <3>6
    <3> QED BY <3>1, <3>2, <3>3, <3>5, <3>7
  <2> QED BY <2>1, <2>2
<1>6. Fits' BY <1>2, <1>3, <1>5, NextAnswers DEF LastInv, Fits
<1>7. AskedLast'
  <2>1. \A i : LastOf(MemAt(toCpu), i) => i \in DOMAIN toCpu BY DEF LastOf, MemAt
  <2> QED BY <1>5, <2>1 DEF LastInv, AskedLast
<1>8. QueuedLast' BY <1>5 DEF LastInv, QueuedLast
<1>9. AnsweredLast'
  <2> SUFFICES ASSUME MemAt(toCpu) = {}, bus = <<>>, NEW i \in DOMAIN toIo',
                      LastOf(MemAnswers', i), jobs'[toIo'[i].to].pc = "read",
                      toIo'[i].ok
               PROVE  toIo'[i].val = mem[addr]
    BY <1>5 DEF AnsweredLast
  <2>1. WaitsNext(toIo'[i].to) BY NextAnswers DEF LastOf
  <2>2. WaitsMem(toIo'[i].to) /\ jobs[toIo'[i].to].pc = "read"
    BY <1>4, <2>1
  <2>3. CASE toIo' = toIo
    <3>1. MemAnswers' = MemAnswers BY <1>4, <2>3, NextAnswers DEF MemAnswers
    <3> QED BY <2>2, <2>3, <3>1 DEF LastInv, AnsweredLast
  <2>4. CASE toIo # <<>> /\ toIo' = Tail(toIo)
    <3> DEFINE n == Len(toIo)
    <3>1. /\ n \in Nat \ {0} /\ DOMAIN toIo = 1..n /\ DOMAIN toIo' = 1..(n - 1)
          /\ \A k \in 1..(n - 1) : toIo'[k] = toIo[k + 1]
      BY <1>1, <2>4, QueueFront
    <3> HIDE DEF n
    <3>2. i \in 1..(n - 1) /\ i + 1 \in 1..n /\ toIo'[i] = toIo[i + 1] BY <3>1
    <3>3. i + 1 \in MemAnswers BY <2>2, <3>1, <3>2 DEF MemAnswers
    <3>4. ASSUME NEW k \in MemAnswers, k # 1 PROVE k - 1 \in MemAnswers'
      <4>1. k \in 1..n /\ WaitsMem(toIo[k].to) BY <3>1 DEF MemAnswers
      <4>2. k - 1 \in 1..(n - 1) /\ (k - 1) + 1 = k BY <3>1, <3>4, <4>1
      <4>3. toIo'[k - 1] = toIo[k] BY <3>1, <4>2
      <4> QED BY <1>4, <3>1, <4>1, <4>2, <4>3, NextAnswers
    <3>5. ASSUME NEW k \in MemAnswers PROVE k <= i + 1
      <4>1. k \in 1..n BY <3>1 DEF MemAnswers
      <4>2. k # 1 => k - 1 <= i BY <3>4, <3>5 DEF LastOf
      <4> QED BY <3>1, <3>2, <4>1, <4>2
    <3>6. LastOf(MemAnswers, i + 1) BY <3>3, <3>5 DEF LastOf
    <3> QED BY <2>2, <3>1, <3>2, <3>6 DEF LastInv, AnsweredLast
  <2> QED BY <2>3, <2>4
<1> QED BY <1>6, <1>7, <1>8, <1>9 DEF LastInv

\* A step that sends one: a write, or a read of the address as it is now.
LEMMA CommandKeeps ==
  ASSUME Queues, LastInv, bus' = bus,
         NEW m, toCpu' = Append(toCpu, m), m.op \in MemOps,
         m.op = "read" => m.addr = addr',
         m.from \in Jobs, jobs'[m.from].pc = m.op,
         Of(toCpu, "from", m.from) = {}, Of(bus, "from", m.from) = {},
         \A i \in Jobs : i # m.from => jobs'[i] = jobs[i]
  PROVE  LastInv'
<1>1. Queue(toCpu) BY QueuesAreQueues
<1> DEFINE n == Len(toCpu)
<1>2. /\ n \in Nat /\ DOMAIN toCpu = 1..n
      /\ DOMAIN toCpu' = 1..(n + 1)
      /\ \A i \in 1..n : toCpu'[i] = toCpu[i]
      /\ toCpu'[n + 1] = m
  BY <1>1, QueueBack
<1>3. /\ MemAt(toCpu') # {}
      /\ \A i : LastOf(MemAt(toCpu'), i) => i = n + 1
  BY <1>1, MemBack
<1> HIDE DEF n
<1>4. \A i \in DOMAIN toCpu' : i = n + 1 \/ i \in DOMAIN toCpu BY <1>2
<1>5. \A i \in DOMAIN toCpu : toCpu[i].from # m.from BY DEF Of
<1>6. \A i \in DOMAIN bus : bus[i].from # m.from BY DEF Of
<1>7. \A j : j # m.from => /\ WaitsNext(j) <=> WaitsMem(j)
                           /\ WaitsMem(j) => jobs'[j].pc = jobs[j].pc
  BY DEF WaitsMem, WaitsNext
<1>8. Fits'
  <2>1. WaitsNext(m.from) BY DEF WaitsMem, WaitsNext
  <2>2. ASSUME NEW i \in DOMAIN toCpu'
        PROVE IF WaitsNext(toCpu'[i].from) THEN toCpu'[i].op = jobs'[toCpu'[i].from].pc
                                           ELSE toCpu'[i].op \notin MemOps
    <3>1. CASE i = n + 1 BY <1>2, <2>1, <3>1
    <3>2. CASE i \in DOMAIN toCpu
      BY <1>2, <1>5, <1>7, <3>2 DEF LastInv, Fits
    <3> QED BY <1>4, <3>1, <3>2
  <2>3. ASSUME NEW i \in DOMAIN bus
        PROVE WaitsNext(bus[i].from) /\ bus[i].op = jobs'[bus[i].from].pc
    BY <1>6, <1>7 DEF LastInv, Fits
  <2> QED BY <2>2, <2>3, NextAnswers
<1>9. AskedLast' BY <1>2, <1>3 DEF AskedLast
<1>10. QueuedLast' /\ AnsweredLast' BY <1>3 DEF QueuedLast, AnsweredLast
<1> QED BY <1>8, <1>9, <1>10 DEF LastInv

\* An answer to a job that waits for something else.
LEMMA OtherAnswer ==
  ASSUME Queue(toIo), NEW r, toIo' = Append(toIo, r), ~WaitsMem(r.to),
         jobs' = jobs
  PROVE  /\ MemAnswers' = MemAnswers
         /\ \A i \in MemAnswers : i \in DOMAIN toIo /\ toIo'[i] = toIo[i]
<1> DEFINE n == Len(toIo)
<1>1. /\ n \in Nat /\ DOMAIN toIo = 1..n /\ DOMAIN toIo' = 1..(n + 1)
      /\ \A i \in 1..n : toIo'[i] = toIo[i]
      /\ toIo'[n + 1] = r
  BY QueueBack
<1> HIDE DEF n
<1>2. \A i \in 1..(n + 1) : i = n + 1 \/ i \in 1..n BY <1>1
<1>3. \A i \in 1..n : i \in 1..(n + 1) BY <1>1
<1>4. \A j : WaitsNext(j) <=> WaitsMem(j) BY DEF WaitsMem, WaitsNext
<1> QED BY <1>1, <1>2, <1>3, <1>4, NextAnswers DEF MemAnswers

LEMMA ReceiveShows ==
  ASSUME Queues, LastInv, CpuReceive, UNCHANGED <<addr, jobs>>
  PROVE  LastInv' /\ mem' = mem
<1> DEFINE m == Head(toCpu)
<1>1. toCpu # <<>> /\ toCpu' = Tail(toCpu) /\ Queue(toCpu) /\ Queue(bus)
      /\ Queue(toIo)
  BY QueuesAreQueues DEF CpuReceive
<1>2. mem' = mem
  BY DEF CpuReceive, SetHalt, ReleaseHalt, DmaWrite, PulseReset, Exec,
     Configure, RaiseIrq, MemCommand
<1>3. /\ m.op \in MemOps => bus' = Append(bus, m) /\ toIo' = toIo
      /\ m.op \notin MemOps => bus' = bus /\ Reply(m, TRUE, 0)
  BY DEF CpuReceive, SetHalt, ReleaseHalt, DmaWrite, PulseReset, Exec,
     Configure, RaiseIrq, MemCommand, MemOps
<1> HIDE DEF m
<1>4. /\ \A i \in DOMAIN toCpu' : i + 1 \in DOMAIN toCpu /\ toCpu'[i] = toCpu[i + 1]
      /\ 1 \in DOMAIN toCpu /\ m = toCpu[1]
  BY <1>1, EndKept DEF m
<1>5. /\ \A i : LastOf(MemAt(toCpu'), i) =>
           /\ toCpu'[i] = toCpu[i + 1]
           /\ LastOf(MemAt(toCpu), i + 1) /\ i + 1 \in DOMAIN toCpu
      /\ MemAt(toCpu') = {} => MemAt(toCpu) \subseteq {1}
  BY <1>1, MemFront
<1>6. \A j : WaitsNext(j) <=> WaitsMem(j) BY DEF WaitsMem, WaitsNext
<1>7. IF WaitsMem(m.from) THEN m.op = jobs[m.from].pc ELSE m.op \notin MemOps
  BY <1>4 DEF LastInv, Fits
<1>8. AskedLast' BY <1>5 DEF LastInv, AskedLast
<1>9. \A i \in DOMAIN toCpu' :
        IF WaitsMem(toCpu'[i].from) THEN toCpu'[i].op = jobs[toCpu'[i].from].pc
                                    ELSE toCpu'[i].op \notin MemOps
  BY <1>4 DEF LastInv, Fits
<1>10. CASE m.op \in MemOps
  <2> DEFINE n == Len(bus)
  <2>1. /\ n \in Nat /\ DOMAIN bus = 1..n /\ DOMAIN bus' = 1..(n + 1)
        /\ \A i \in 1..n : bus'[i] = bus[i]
        /\ bus'[n + 1] = m
    <3>1. bus' = Append(bus, m) BY <1>3, <1>10
    <3> QED BY <1>1, <3>1, QueueBack
  <2>2. Len(bus') = n + 1 BY <1>1, <1>3, <1>10 DEF Queue
  <2> HIDE DEF n
  <2>3. \A i \in DOMAIN bus' : i = n + 1 \/ i \in DOMAIN bus BY <2>1
  <2>4. bus' # <<>>
    <3>1. n + 1 \in DOMAIN bus' BY <2>1
    <3>2. DOMAIN <<>> = {} OBVIOUS
    <3> QED BY <3>1, <3>2
  <2>5. WaitsMem(m.from) /\ m.op = jobs[m.from].pc BY <1>7, <1>10
  <2>6. Fits'
    <3>1. \A i \in DOMAIN bus' :
            WaitsMem(bus'[i].from) /\ bus'[i].op = jobs[bus'[i].from].pc
      BY <2>1, <2>3, <2>5 DEF LastInv, Fits
    <3> QED BY <1>6, <1>9, <3>1, NextAnswers
  <2>7. ASSUME MemAt(toCpu') = {}, m.op = "read" PROVE m.addr = addr
    <3>1. 1 \in MemAt(toCpu) BY <1>4, <1>10 DEF MemAt
    <3>2. LastOf(MemAt(toCpu), 1) BY <1>5, <2>7, <3>1 DEF LastOf
    <3> QED BY <1>4, <2>7, <3>2 DEF LastInv, AskedLast
  <2>8. QueuedLast' BY <2>1, <2>2, <2>7 DEF QueuedLast
  <2>9. AnsweredLast' BY <2>4 DEF AnsweredLast
  <2> QED BY <1>2, <1>8, <2>6, <2>8, <2>9 DEF LastInv
<1>11. CASE m.op \notin MemOps
  <2> DEFINE r == [to |-> m.from, ok |-> TRUE, val |-> 0]
  <2>1. toIo' = Append(toIo, r) /\ bus' = bus BY <1>3, <1>11 DEF Reply
  <2>2. ~WaitsMem(r.to) BY <1>7, <1>11 DEF WaitsMem
  <2> HIDE DEF r
  <2>3. /\ MemAnswers' = MemAnswers
        /\ \A i \in MemAnswers : i \in DOMAIN toIo /\ toIo'[i] = toIo[i]
    BY <1>1, <2>1, <2>2, OtherAnswer
  <2>4. MemAt(toCpu') = {} => MemAt(toCpu) = {}
    <3>1. 1 \notin MemAt(toCpu) BY <1>4, <1>11 DEF MemAt
    <3> QED BY <1>5, <3>1
  <2>5. Fits' BY <1>6, <1>9, <2>1, NextAnswers DEF LastInv, Fits
  <2>6. QueuedLast' BY <2>1, <2>4 DEF LastInv, QueuedLast
  <2>7. AnsweredLast'
    BY <1>2, <2>1, <2>3, <2>4 DEF LastInv, AnsweredLast, LastOf
  <2> QED BY <1>2, <1>8, <2>5, <2>6, <2>7 DEF LastInv
<1> QED BY <1>10, <1>11

\* The bus serves its head, or its time is up.
LEMMA BusShows ==
  ASSUME Queues, LastInv, bus # <<>>, bus' = Tail(bus), toCpu' = toCpu,
         UNCHANGED <<addr, jobs>>,
         NEW ok, NEW val, Reply(Head(bus), ok, val),
         ok /\ Head(bus).op = "read" =>
           val = mem[Head(bus).addr] /\ mem' = mem
  PROVE  LastInv'
<1> DEFINE m == Head(bus)
           r == [to |-> m.from, ok |-> ok, val |-> val]
           n == Len(toIo)
<1>1. Queue(toCpu) /\ Queue(bus) /\ Queue(toIo) BY QueuesAreQueues
<1>2. toIo' = Append(toIo, r) /\ r.to = m.from /\ r.ok = ok /\ r.val = val
  BY DEF Reply
<1>3. /\ n \in Nat /\ DOMAIN toIo' = 1..(n + 1) /\ toIo'[n + 1] = r
  BY <1>1, <1>2, QueueBack
<1>4. ok /\ m.op = "read" => val = mem[m.addr] /\ mem' = mem OBVIOUS
<1> HIDE DEF m, r, n
<1>5. /\ bus' # <<>> => bus'[Len(bus')] = bus[Len(bus)]
      /\ bus' = <<>> => bus[Len(bus)] = m
      /\ \A i \in DOMAIN bus' : i + 1 \in DOMAIN bus /\ bus'[i] = bus[i + 1]
      /\ 1 \in DOMAIN bus /\ m = bus[1]
  BY <1>1, EndKept DEF m
<1>6. \A j : WaitsNext(j) <=> WaitsMem(j) BY DEF WaitsMem, WaitsNext
<1>7. WaitsMem(m.from) /\ m.op = jobs[m.from].pc BY <1>5 DEF LastInv, Fits
<1>8. Fits' BY <1>5, <1>6, NextAnswers DEF LastInv, Fits
<1>9. AskedLast' BY DEF LastInv, AskedLast
<1>10. QueuedLast' BY <1>5 DEF LastInv, QueuedLast
<1>11. AnsweredLast'
  <2> SUFFICES ASSUME MemAt(toCpu) = {}, bus' = <<>>, NEW i \in DOMAIN toIo',
                      LastOf(MemAnswers', i), jobs[toIo'[i].to].pc = "read",
                      toIo'[i].ok
               PROVE  toIo'[i].val = mem'[addr]
    BY DEF AnsweredLast
  <2>1. n + 1 \in MemAnswers' BY <1>2, <1>3, <1>6, <1>7, NextAnswers
  <2>2. i \in 1..(n + 1) /\ n + 1 <= i BY <1>3, <2>1 DEF LastOf
  <2>3. i = n + 1 BY <1>3, <2>2
  <2>4. m.op = "read" /\ ok BY <1>2, <1>3, <1>7, <2>3
  <2>5. m.addr = addr BY <1>5, <2>4 DEF LastInv, QueuedLast
  <2> QED BY <1>2, <1>3, <1>4, <2>3, <2>4, <2>5
<1> QED BY <1>8, <1>9, <1>10, <1>11 DEF LastInv

\* The answer that is taken is all its job has on its way.
LEMMA AnswerAlone ==
  ASSUME CountInv, toIo # <<>>, toIo' = Tail(toIo), NEW j \in Jobs,
         Head(toIo).to = j
  PROVE  /\ Of(toCpu, "from", j) = {} /\ Of(bus, "from", j) = {}
         /\ Of(toIo', "to", j) = {} /\ One(Of(toIo, "to", j))
<1> DEFINE r == Head(toIo)
<1>1. r["to"] = j OBVIOUS
<1> HIDE DEF r
<1>2. \A i \in Jobs :
        /\ r["to"] = i => Of(toIo, "to", i) # {}
        /\ r["to"] = i /\ One(Of(toIo, "to", i)) => Of(toIo', "to", i) = {}
  <2>1. Queue(toIo) BY QueuesAreQueues DEF CountInv
  <2> QED BY <2>1, TakeOf DEF r
<1> QED BY <1>1, <1>2
     DEF CountInv, Counted, Nowhere, Somewhere, Asked, Queued, Answered

LEMMA RefreshSettles ==
  ASSUME RefreshLeds, NoneWaits' /\ ~failed' /\ focus' = "data" => data' = mem'[addr']
  PROVE  Settled'
BY DEF RefreshLeds, Shown, Settled

LEMMA SameSettles ==
  ASSUME Settled, UNCHANGED <<addr, data, focus, led, failed, mem>>,
         NoneWaits' => NoneWaits
  PROVE  Settled'
BY DEF Settled

\* A job that sends a memory command.
LEMMA CommandShows ==
  ASSUME CountInv, ShowInv, bus' = bus, mode' = mode, NEW j \in Jobs, j \in Slots,
         Of(toCpu, "from", j) = {}, Of(bus, "from", j) = {},
         NEW pc \in MemOps, NEW key, NEW a, NEW v,
         pc = "read" => a = addr',
         Send(j, key, pc, a, v), Awaits(j, pc, key)
  PROVE  ShowInv'
<1> DEFINE m == [from |-> j, key |-> key, op |-> pc, addr |-> a, val |-> v]
<1>1. toCpu' = Append(toCpu, m) /\ m.from = j /\ m.op = pc /\ m.addr = a
  BY DEF Send
<1> HIDE DEF m
<1>2. jobs'[j].pc = pc /\ \A i \in Jobs : i # j => jobs'[i] = jobs[i]
  BY DEF Awaits, CountInv, AnyJobs
<1>3. Queues /\ LastInv /\ Plain BY DEF CountInv, ShowInv
<1>4. LastInv' BY <1>1, <1>2, <1>3, CommandKeeps
<1>5. Plain' BY <1>2, <1>3 DEF Plain, MemOps
<1>6. Settled' BY <1>2 DEF Settled, NoneWaits
<1> QED BY <1>4, <1>5, <1>6 DEF ShowInv

\* A free job sends another one.
LEMMA ControlShows ==
  ASSUME CountInv, ShowInv, UNCHANGED <<bus, toIo, mem, failed>>,
         UNCHANGED <<addr, data, focus, mode, led>>,
         NEW j \in Jobs, jobs[j] = Free,
         NEW k, k.pc \notin MemOps \union {"store", "reset"},
         jobs' = [jobs EXCEPT ![j] = k],
         NEW key, NEW op, op \notin MemOps, NEW a, NEW v, Send(j, key, op, a, v)
  PROVE  ShowInv'
<1>1. jobs'[j] = k /\ \A i \in Jobs : i # j => jobs'[i] = jobs[i]
  BY DEF CountInv, AnyJobs
<1>2. Queues /\ LastInv /\ Plain /\ Settled BY DEF CountInv, ShowInv
<1>3. Nowhere(j) BY DEF CountInv, Counted, Silent
<1>4. CalmJobs BY <1>1, <1>3 DEF CalmJobs, Nowhere
<1>5. \E m : /\ m.op \notin MemOps /\ ~WaitsNext(m.from)
             /\ toCpu' = Append(toCpu, m)
  <2> DEFINE m == [from |-> j, key |-> key, op |-> op, addr |-> a, val |-> v]
  <2>1. m.op \notin MemOps /\ ~WaitsNext(m.from) BY <1>1 DEF WaitsNext
  <2> QED BY <2>1 DEF Send
<1>6. LastInv' BY <1>2, <1>4, <1>5, CalmKeeps
<1>7. Plain' BY <1>1, <1>2 DEF Plain
<1>8. NoneWaits' => NoneWaits BY <1>1 DEF NoneWaits, Free, MemOps
<1>9. Settled' BY <1>2, <1>8, SameSettles
<1> QED BY <1>6, <1>7, <1>9 DEF ShowInv

LEMMA PressShows ==
  ASSUME MemoryKeysOnly, CountInv, ShowInv, NEW key, PressFunction(key)
  PROVE  ShowInv'
<1>1. PICK j \in Slots :
        /\ jobs[j] = Free
        /\ \/ KeyAds(j) \/ (key \in {"F2", "F3"} /\ KeyIncDec(j, key))
           \/ KeyWinc(j) \/ ("F5" \in Keys /\ KeyRun(j)) \/ KeyHaltStart(j)
  BY DEF PressFunction, MemoryKeysOnly
<1>2. j \in Jobs BY SlotsAreJobs
<1>3. UNCHANGED <<bus, toIo, mem, failed>> BY DEF PressFunction
<1>4. Of(toCpu, "from", j) = {} /\ Of(bus, "from", j) = {}
  BY <1>1, <1>2 DEF CountInv, Counted, Silent, Nowhere
<1>5. Queues /\ LastInv /\ Plain /\ Settled BY DEF CountInv, ShowInv
<1>6. mode = "monitor" BY <1>5 DEF Plain
<1>7. {"read", "write"} = MemOps BY DEF MemOps
<1>8. CASE KeyAds(j)
  <2>1. CASE focus = "addr"
    <3>1. Send(j, "F0", "read", addr', 0) /\ Awaits(j, "read", "F0") /\ mode' = mode
      BY <1>6, <1>8, <2>1 DEF KeyAds
    <3> QED BY <1>2, <1>3, <1>4, <1>7, <3>1, CommandShows
  <2>2. CASE focus # "addr"
    <3>1. /\ UNCHANGED <<jobs, toCpu, addr, mode>> /\ focus' = "addr"
          /\ RefreshLeds
      BY <1>8, <2>2 DEF KeyAds
    <3>2. CalmJobs BY <3>1 DEF CalmJobs
    <3>3. LastInv' BY <1>3, <1>5, <3>1, <3>2, CalmKeeps
    <3>4. Settled' BY <3>1, RefreshSettles
    <3>5. Plain' BY <1>5, <3>1 DEF Plain
    <3> QED BY <3>3, <3>4, <3>5 DEF ShowInv
  <2> QED BY <2>1, <2>2
<1>9. CASE key \in {"F2", "F3"} /\ KeyIncDec(j, key)
  <2>1. Send(j, key, "read", addr', 0) /\ Awaits(j, "read", key) /\ mode' = mode
    BY <1>6, <1>9 DEF KeyIncDec, ReadAt
  <2> QED BY <1>2, <1>3, <1>4, <1>7, <2>1, CommandShows
<1>10. CASE KeyWinc(j)
  <2>1. Send(j, "F4", "write", addr', data) /\ Awaits(j, "write", "F4") /\ mode' = mode
    BY <1>6, <1>10 DEF KeyWinc
  <2> QED BY <1>2, <1>3, <1>4, <1>7, <2>1, CommandShows
<1>11. CASE "F5" \in Keys /\ KeyRun(j)
  <2>1. addr' = addr
    BY <1>11 DEF MemoryKeysOnly, KeyRun, Aligned
  <2>2. /\ Send(j, "F5", "exec", addr', 0) /\ Awaits(j, "exec", "F5")
        /\ UNCHANGED <<data, focus, mode, led>>
    BY <1>11 DEF KeyRun
  <2> DEFINE k == [pc |-> "exec", key |-> "F5"]
  <2>3. k.pc \notin MemOps \union {"store", "reset"} /\ "exec" \notin MemOps
        /\ jobs' = [jobs EXCEPT ![j] = k]
    BY <2>2 DEF MemOps, Awaits
  <2> HIDE DEF k
  <2> QED BY <1>1, <1>2, <1>3, <2>1, <2>2, <2>3, ControlShows
<1>12. CASE KeyHaltStart(j)
  <2>1. PICK op \in {"go", "halt"} :
          /\ Send(j, "F6", op, 0, 0) /\ Awaits(j, op, "F6")
    BY <1>12 DEF KeyHaltStart
  <2>2. UNCHANGED <<addr, data, focus, mode, led>> BY <1>12 DEF KeyHaltStart
  <2> DEFINE k == [pc |-> op, key |-> "F6"]
  <2>3. k.pc \notin MemOps \union {"store", "reset"} /\ op \notin MemOps
        /\ jobs' = [jobs EXCEPT ![j] = k]
    BY <2>1 DEF MemOps, Awaits
  <2> HIDE DEF k
  <2> QED BY <1>1, <1>2, <1>3, <2>1, <2>2, <2>3, ControlShows
<1> QED BY <1>1, <1>8, <1>9, <1>10, <1>11, <1>12

\* The answer to a read, when no other job waits for memory, is the word.
LEMMA LastReadShows ==
  ASSUME CountInv, ShowInv, toIo # <<>>, toIo' = Tail(toIo),
         NEW j \in Jobs, Head(toIo).to = j, jobs[j].pc = "read", Head(toIo).ok,
         \A i \in Jobs : i # j => jobs[i].pc \notin MemOps
  PROVE  Head(toIo).val = mem[addr]
<1>1. /\ Of(toCpu, "from", j) = {} /\ Of(bus, "from", j) = {}
      /\ One(Of(toIo, "to", j))
  BY AnswerAlone
<1>2. Fits /\ AnsweredLast BY DEF ShowInv, LastInv
<1>3. \A i : WaitsMem(i) => i = j BY DEF WaitsMem
<1>4. MemAt(toCpu) = {}
  BY <1>1, <1>2, <1>3 DEF MemAt, Fits, Of
<1>5. Queue(bus) /\ Queue(toIo) BY QueuesAreQueues DEF CountInv
<1>6. bus = <<>>
  <2> SUFFICES ASSUME bus # <<>> PROVE FALSE OBVIOUS
  <2>1. 1 \in DOMAIN bus BY <1>5, EndKept
  <2> QED BY <1>1, <1>2, <1>3, <2>1 DEF Fits, Of
<1>7. 1 \in DOMAIN toIo /\ Head(toIo) = toIo[1] BY <1>5, EndKept
<1>8. 1 \in Of(toIo, "to", j) BY <1>7 DEF Of
<1>9. \A k \in Of(toIo, "to", j) : k = 1 BY <1>1, <1>8 DEF One
<1>10. WaitsMem(toIo[1].to) BY <1>7 DEF WaitsMem, MemOps
<1>11. \A k \in MemAnswers : k \in Of(toIo, "to", j) BY <1>3 DEF MemAnswers, Of
<1>12. LastOf(MemAnswers, 1)
  BY <1>7, <1>9, <1>10, <1>11 DEF LastOf, MemAnswers
<1> QED BY <1>2, <1>4, <1>6, <1>7, <1>12 DEF AnsweredLast

LEMMA AnswerShows ==
  ASSUME CountInv, ShowInv, IoReceive
  PROVE  ShowInv'
<1> DEFINE r == Head(toIo)
<1>1. /\ toIo # <<>> /\ toIo' = Tail(toIo) /\ UNCHANGED <<bus, mem>>
  BY DEF IoReceive
<1>2. Answers(r) BY <1>1, AnswerQueues DEF CountInv, Queues
<1>3. Queues /\ LastInv /\ Plain /\ Settled BY DEF CountInv, ShowInv
<1>4. CASE r.to = Timer
  <2>1. UNCHANGED <<jobs, toCpu, addr, data, focus, mode, led, failed>>
    BY <1>4 DEF IoReceive, jobVars, panelVars
  <2>2. CalmJobs BY <2>1 DEF CalmJobs
  <2>3. LastInv' BY <1>1, <1>3, <2>1, <2>2, CalmKeeps
  <2>4. Settled' BY <1>1, <1>3, <2>1, SameSettles DEF NoneWaits
  <2>5. Plain' BY <1>3, <2>1 DEF Plain
  <2> QED BY <2>3, <2>4, <2>5 DEF ShowInv
<1>5. CASE r.to # Timer
  <2> DEFINE j == r.to
  <2>1. j \in Jobs BY <1>2, <1>5 DEF Answers, Senders
  <2>2. /\ Of(toCpu, "from", j) = {} /\ Of(bus, "from", j) = {}
        /\ Of(toIo', "to", j) = {}
    BY <1>1, <2>1, AnswerAlone
  <2>3. failed' = IF jobs[j].pc \in MemOps THEN ~r.ok ELSE failed
    BY <1>5 DEF IoReceive, MemOps
  <2>4. /\ jobs[j].pc # "reset"
        /\ jobs[j].pc \in MemOps => j \in Slots
    BY <1>3, <2>1 DEF Plain
  <2>5. \/ ~r.ok /\ Done(j) /\ UNCHANGED <<panelVars, toCpu>>
        \/ r.ok /\ jobs[j].pc = "read" /\ ReadDone(j, r.val)
        \/ r.ok /\ jobs[j].pc = "write" /\ WriteDone(j)
        \/ r.ok /\ jobs[j].pc \in {"exec", "halt", "go"} /\ ControlDone(j)
        \/ r.ok /\ jobs[j].pc = "load" /\ LoadStep
    BY <1>5, <2>4 DEF IoReceive
  <2>6. jobs[j].pc = "load" => j = Load BY <2>1 DEF CountInv, AnyJobs
  <2>7. \A k : jobs' = [jobs EXCEPT ![j] = k] =>
               jobs'[j] = k /\ \A i \in Jobs : i # j => jobs'[i] = jobs[i]
    BY <2>1 DEF CountInv, AnyJobs
  <2>8. ASSUME Done(j), toCpu' = toCpu, UNCHANGED <<addr, mode>>
        PROVE  /\ LastInv' /\ Plain'
               /\ jobs'[j].pc \notin MemOps
               /\ \A i \in Jobs : i # j => jobs'[i] = jobs[i]
    <3>1. jobs'[j] = Free /\ \A i \in Jobs : i # j => jobs'[i] = jobs[i]
      BY <2>7, <2>8 DEF Done
    <3>2. CalmJobs BY <2>2, <3>1 DEF CalmJobs, Free, MemOps
    <3>3. LastInv' BY <1>1, <1>3, <2>8, <3>2, CalmKeeps
    <3>4. Plain' BY <1>3, <2>8, <3>1 DEF Plain, Free, MemOps
    <3> QED BY <3>1, <3>3, <3>4 DEF Free, MemOps
  <2>9. CASE ~r.ok /\ Done(j) /\ UNCHANGED <<panelVars, toCpu>>
    <3>1. UNCHANGED <<addr, data, focus, mode, led>> BY <2>9 DEF panelVars
    <3>2. /\ LastInv' /\ Plain'
          /\ \A i \in Jobs : i # j => jobs'[i] = jobs[i]
      BY <2>8, <2>9, <3>1
    <3>3. CASE jobs[j].pc \in MemOps
      <4>1. failed' BY <2>3, <2>9, <3>3
      <4> QED BY <3>2, <4>1 DEF ShowInv, Settled
    <3>4. CASE jobs[j].pc \notin MemOps
      <4>1. failed' = failed BY <2>3, <3>4
      <4>2. NoneWaits' => NoneWaits BY <3>2, <3>4 DEF NoneWaits
      <4>3. Settled' BY <1>1, <1>3, <3>1, <4>1, <4>2, SameSettles
      <4> QED BY <3>2, <4>3 DEF ShowInv
    <3> QED BY <3>3, <3>4
  <2>10. CASE r.ok /\ jobs[j].pc = "read" /\ ReadDone(j, r.val)
    <3>1. /\ Done(j) /\ toCpu' = toCpu /\ UNCHANGED <<addr, mode>>
          /\ data' = r.val /\ RefreshLeds
      BY <2>10 DEF ReadDone
    <3>2. /\ LastInv' /\ Plain'
          /\ \A i \in Jobs : i # j => jobs'[i] = jobs[i]
      BY <2>8, <3>1
    <3>3. ASSUME NoneWaits' PROVE data' = mem'[addr']
      <4>1. \A i \in Jobs : i # j => jobs[i].pc \notin MemOps
        BY <3>2, <3>3 DEF NoneWaits
      <4>2. r.val = mem[addr] BY <1>1, <2>1, <2>10, <4>1, LastReadShows
      <4> QED BY <1>1, <3>1, <4>2
    <3>4. Settled' BY <3>1, <3>3, RefreshSettles
    <3> QED BY <3>2, <3>4 DEF ShowInv
  <2>11. CASE r.ok /\ jobs[j].pc = "write" /\ WriteDone(j)
    <3>1. mode' = mode /\ ReadAt(j, "F4", addr') BY <2>11 DEF WriteDone
    <3>2. Send(j, "F4", "read", addr', 0) /\ Awaits(j, "read", "F4")
      BY <1>3, <3>1 DEF ReadAt, Plain
    <3>3. "read" \in MemOps /\ j \in Slots BY <2>4, <2>11 DEF MemOps
    <3> HIDE DEF j
    <3> QED BY <1>1, <2>1, <2>2, <3>1, <3>2, <3>3, CommandShows
  <2>12. CASE r.ok /\ jobs[j].pc \in {"exec", "halt", "go"} /\ ControlDone(j)
    <3>1. /\ Done(j) /\ toCpu' = toCpu /\ UNCHANGED <<addr, mode, data, focus>>
          /\ RefreshLeds
      BY <2>12 DEF ControlDone
    <3>2. /\ LastInv' /\ Plain'
          /\ \A i \in Jobs : i # j => jobs'[i] = jobs[i]
      BY <2>8, <3>1
    <3>3. failed' = failed /\ jobs[j].pc \notin MemOps BY <2>3, <2>12 DEF MemOps
    <3>4. NoneWaits' => NoneWaits BY <3>2, <3>3 DEF NoneWaits
    <3>5. Settled' BY <1>1, <1>3, <3>1, <3>3, <3>4, RefreshSettles DEF Settled
    <3> QED BY <3>2, <3>5 DEF ShowInv
  <2>13. CASE r.ok /\ jobs[j].pc = "load" /\ LoadStep
    <3>1. j = Load BY <2>6, <2>13
    <3>2. UNCHANGED <<addr, data, focus, mode, led>> BY <2>13 DEF LoadStep, panelVars
    <3>3. failed' = failed /\ jobs[j].pc \notin MemOps BY <2>3, <2>13 DEF MemOps
    <3>4. /\ jobs'[j].pc \in {"free", "load"}
          /\ \A i \in Jobs : i # j => jobs'[i] = jobs[i]
      <4>1. CASE jobs[Load].step = Chunks
        BY <2>7, <2>13, <3>1, <4>1 DEF LoadStep, Done, Free
      <4>2. CASE jobs[Load].step # Chunks
        <5> DEFINE k == [jobs[Load] EXCEPT !.step = @ + 1]
        <5>1. jobs[Load] \in [pc : {"load"}, key : KeyNames, step : Nat]
          BY <2>1, <2>13, <3>1 DEF CountInv, AnyJobs, AnyJob, Free
        <5>2. k.pc = "load" BY <5>1
        <5>3. jobs' = [jobs EXCEPT ![j] = k]
          BY <2>13, <3>1, <4>2 DEF LoadStep, CountInv, AnyJobs
        <5> HIDE DEF k
        <5> QED BY <2>7, <5>2, <5>3
      <4> QED BY <4>1, <4>2
    <3>5. NoneWaits' => NoneWaits BY <3>3, <3>4 DEF NoneWaits
    <3>6. Settled' BY <1>1, <1>3, <3>2, <3>3, <3>5, SameSettles
    <3>7. Plain' BY <1>3, <3>2, <3>4 DEF Plain, MemOps
    <3>8. CalmJobs BY <2>2, <3>4 DEF CalmJobs, MemOps
    <3>9. \/ toCpu' = toCpu
          \/ \E m : /\ m.op \notin MemOps /\ ~WaitsNext(m.from)
                    /\ toCpu' = Append(toCpu, m)
      <4>1. CASE jobs[Load].step = Chunks BY <2>13, <4>1 DEF LoadStep
      <4>2. CASE jobs[Load].step # Chunks
        <5> DEFINE m == [from |-> Load, key |-> "none", op |-> "dma",
                         addr |-> 0, val |-> 0]
        <5>1. toCpu' = Append(toCpu, m) BY <2>13, <4>2 DEF LoadStep, Send
        <5>2. m.op \notin MemOps /\ ~WaitsNext(m.from)
          BY <3>1, <3>4 DEF MemOps, WaitsNext
        <5> QED BY <5>1, <5>2
      <4> QED BY <4>1, <4>2
    <3>10. LastInv' BY <1>1, <1>3, <3>2, <3>8, <3>9, CalmKeeps
    <3> QED BY <3>6, <3>7, <3>10 DEF ShowInv
  <2> QED BY <2>5, <2>9, <2>10, <2>11, <2>12, <2>13
<1> QED BY <1>4, <1>5

LEMMA PanelShows ==
  ASSUME MemoryKeysOnly, CountInv, ShowInv, PanelNext
  PROVE  ShowInv'
<1>1. Queues /\ LastInv /\ Plain /\ Settled BY DEF CountInv, ShowInv
<1>2. CASE \E key \in {"F0", "F1", "F2", "F3", "F4", "F5", "F6", "F7"} :
             PressFunction(key)
  BY <1>2, PressShows
<1>3. CASE (\E n \in 0..(Radix - 1) : PressHex(n)) \/ HoldAds
  BY <1>3 DEF PressHex, HoldAds, MemoryKeysOnly
<1>4. CASE IoReceive BY <1>4, AnswerShows
<1>5. CASE \E j \in Jobs : FileDone(j) BY <1>1, <1>5 DEF FileDone, Plain
<1>6. CASE StartLoad
  <2>1. UNCHANGED <<bus, toIo, mem, failed, addr, data, focus, mode, led>>
    BY <1>6 DEF StartLoad, panelVars
  <2> DEFINE k == [pc |-> "load", key |-> "none", step |-> 1]
  <2>2. /\ Load \in Jobs /\ jobs[Load] = Free
        /\ k.pc \notin MemOps \union {"store", "reset"} /\ "dma" \notin MemOps
        /\ jobs' = [jobs EXCEPT ![Load] = k]
        /\ Send(Load, "none", "dma", 0, 0)
    BY <1>6 DEF StartLoad, Jobs, MemOps
  <2> HIDE DEF k
  <2> QED BY <2>1, <2>2, ControlShows
<1>7. CASE TimerExpires
  <2>1. UNCHANGED <<bus, toIo, mem, failed, addr, data, focus, mode, led, jobs>>
    BY <1>7 DEF TimerExpires, panelVars, jobVars
  <2>2. CalmJobs BY <2>1 DEF CalmJobs
  <2>3. \E m : /\ m.op \notin MemOps /\ ~WaitsNext(m.from)
               /\ toCpu' = Append(toCpu, m)
    <3> DEFINE m == [from |-> Timer, key |-> "none", op |-> "irq",
                     addr |-> 0, val |-> 0]
    <3>1. Timer \notin Jobs BY PanelAssumption DEF Timer, Jobs, Slots, Power, Load
    <3>2. m.op \notin MemOps /\ ~WaitsNext(m.from) BY <3>1 DEF MemOps, WaitsNext
    <3>3. toCpu' = Append(toCpu, m) BY <1>7 DEF TimerExpires, Send
    <3> QED BY <3>2, <3>3
  <2>4. LastInv' BY <1>1, <2>1, <2>2, <2>3, CalmKeeps
  <2>5. Settled' BY <1>1, <2>1, SameSettles DEF NoneWaits
  <2>6. Plain' BY <1>1, <2>1 DEF Plain
  <2> QED BY <2>4, <2>5, <2>6 DEF ShowInv
<1>8. CASE SetTimer \/ IoSlice
  <2>1. UNCHANGED <<bus, toIo, toCpu, mem, failed, addr, data, focus, mode, jobs>>
    BY <1>8 DEF SetTimer, IoSlice, panelVars, jobVars, allCpuVars, linkVars
  <2>2. led' = led \/ RefreshLeds
    BY <1>8 DEF SetTimer, IoSlice, panelVars
  <2>3. CalmJobs BY <2>1 DEF CalmJobs
  <2>4. LastInv' BY <1>1, <2>1, <2>3, CalmKeeps
  <2>5. Settled'
    <3>1. NoneWaits' <=> NoneWaits BY <2>1 DEF NoneWaits
    <3>2. NoneWaits' /\ ~failed' /\ focus' = "data" => data' = mem'[addr']
      BY <1>1, <2>1, <3>1 DEF Settled
    <3> QED BY <1>1, <2>1, <2>2, <3>1, <3>2, SameSettles, RefreshSettles
  <2>6. Plain' BY <1>1, <2>1 DEF Plain
  <2> QED BY <2>4, <2>5, <2>6 DEF ShowInv
<1> QED BY <1>2, <1>3, <1>4, <1>5, <1>6, <1>7, <1>8 DEF PanelNext

LEMMA CpuShows ==
  ASSUME CountInv, ShowInv, CpuNext, UNCHANGED <<panelVars, jobVars, failed>>
  PROVE  ShowInv'
<1>1. Queues /\ LastInv /\ Plain /\ Settled BY DEF CountInv, ShowInv
<1>2. UNCHANGED <<addr, data, focus, mode, led, jobs>> BY DEF panelVars, jobVars
<1>3. Plain' BY <1>1, <1>2 DEF Plain
<1>4. NoneWaits' <=> NoneWaits BY <1>2 DEF NoneWaits
<1>5. CASE CpuReceive
  <2>1. LastInv' /\ mem' = mem BY <1>1, <1>2, <1>5, ReceiveShows
  <2> QED BY <1>1, <1>2, <1>3, <1>4, <2>1, SameSettles DEF ShowInv
<1>6. CASE RetryIrq \/ CpuSlice \/ Pump
  <2>1. UNCHANGED <<toCpu, bus, toIo, mem>>
    BY <1>6 DEF RetryIrq, CpuSlice, Pump, linkVars
  <2>2. CalmJobs BY <1>2 DEF CalmJobs
  <2>3. LastInv' BY <1>1, <1>2, <2>1, <2>2, CalmKeeps
  <2> QED BY <1>1, <1>2, <1>3, <1>4, <2>1, <2>3, SameSettles DEF ShowInv
<1>7. CASE ServeMem \/ FailMem
  <2>1. bus # <<>> /\ bus' = Tail(bus) /\ toCpu' = toCpu
    BY <1>7 DEF ServeMem, FailMem
  <2>2. \E ok, val :
          /\ Reply(Head(bus), ok, val)
          /\ ok /\ Head(bus).op = "read" => val = mem[Head(bus).addr] /\ mem' = mem
    BY <1>7 DEF ServeMem, FailMem
  <2>3. LastInv' BY <1>1, <1>2, <2>1, <2>2, BusShows
  <2>4. ~NoneWaits
    <3>1. 1 \in DOMAIN bus BY <1>1, <2>1, EndKept, QueuesAreQueues
    <3> QED BY <1>1, <3>1 DEF LastInv, Fits, WaitsMem, NoneWaits
  <2>5. Settled' BY <1>4, <2>4 DEF Settled
  <2> QED BY <1>3, <2>3, <2>5 DEF ShowInv
<1> QED BY <1>5, <1>6, <1>7 DEF CpuNext

LEMMA ShowStart ==
  ASSUME MemoryKeysOnly, Init
  PROVE  ShowInv
<1>1. /\ toCpu = <<>> /\ bus = <<>> /\ toIo = <<>>
      /\ mode = "monitor" /\ focus = "addr" /\ led = Shown
      /\ jobs = [j \in Jobs |-> Free]
  BY DEF Init, CpuInit, MemoryKeysOnly
<1>2. Plain BY <1>1 DEF Plain, Free, MemOps
<1>3. DOMAIN <<>> = {} OBVIOUS
<1>4. LastInv
  BY <1>1, <1>3 DEF LastInv, Fits, AskedLast, QueuedLast, AnsweredLast
<1>5. Settled BY <1>1 DEF Settled, Shown
<1> QED BY <1>2, <1>4, <1>5 DEF ShowInv

\* With the keys that look at memory, step through it and change it, a display
\* that shows DATA shows the word at the ADDR it shows once the keys have been
\* served and the last command succeeded, however many keys wait at the same
\* time, whatever the timer, a load and H/ST do meanwhile, and also when the
\* commands between failed (io_console.ts onFunction, readAt(), onWinc).
THEOREM DisplayShowsMemory ==
  ASSUME MemoryKeysOnly
  PROVE  Spec => []DisplayIsMemory
<1>1. Init => CountInv /\ ShowInv BY CountStart, ShowStart
<1>2. CountInv /\ ShowInv /\ [Next]_vars => CountInv' /\ ShowInv'
  <2> SUFFICES ASSUME CountInv, ShowInv, [Next]_vars PROVE ShowInv'
    BY CountStep
  <2>1. CASE CpuNext /\ UNCHANGED <<panelVars, jobVars, countVars, failed>>
    BY <2>1, CpuShows
  <2>2. CASE PanelNext BY <2>2, PanelShows
  <2>3. CASE UNCHANGED vars
    <3>1. UNCHANGED <<toCpu, bus, toIo, mem, addr, data, focus, mode, led, jobs,
                      failed>>
      BY <2>3 DEF vars, allCpuVars, linkVars, panelVars, jobVars
    <3>2. CalmJobs BY <3>1 DEF CalmJobs
    <3>3. LastInv' BY <3>1, <3>2, CalmKeeps DEF CountInv, ShowInv
    <3> QED BY <3>1, <3>3, SameSettles DEF ShowInv, Plain, NoneWaits
  <2> QED BY <2>1, <2>2, <2>3 DEF Next
<1>3. CountInv /\ ShowInv => DisplayIsMemory
  <2> SUFFICES ASSUME CountInv, ShowInv, Idle, ~failed, led.focus = "data"
               PROVE  led.data = mem[led.addr]
    BY DEF DisplayIsMemory
  <2>1. NoneWaits
    BY DEF ShowInv, Plain, Idle, NoneWaits, Free, MemOps
  <2> QED BY <2>1 DEF ShowInv, Settled
<1> QED BY <1>1, <1>2, <1>3, PTL DEF Spec
=============================================================================
