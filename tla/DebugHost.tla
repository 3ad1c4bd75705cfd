------------------------------ MODULE DebugHost -----------------------------
(***************************************************************************)
(* The TCP server of the IO board a debugger on a PC connects to, and the  *)
(* link it passes the commands 80h, 81h, 83h and 84h on with: every        *)
(* connection works off its frames one at a time, the connections share    *)
(* the link, and the CPU board answers what its bus lock serialises in     *)
(* turn but everything else at once.                                       *)
(*                                                                         *)
(* A frame is one item of the stream: the host does nothing with a part of *)
(* one.  What memory holds is a number, the writes made so far.            *)
(***************************************************************************)
EXTENDS Integers, Sequences, Functions

CONSTANTS
  Socks,      \* connections: 0 is another PC's, the others the view's in turn
  Slots,      \* slot numbers a frame may carry
  GoodSlots,  \* 0..3 in the code: the slots the CPU board has
  MaxBytes,   \* DEBUG_MEM_MAX_BYTES
  PcKinds,    \* frames the other PC may send
  CpuType,    \* "MN1613" or "TMS9995"
  MaxEvents   \* bound: what users, the other PC and failures do

ASSUME DebugHostAssumption ==
  /\ 0 \in Socks /\ Socks \subseteq Nat
  /\ GoodSlots \subseteq Slots
  /\ PcKinds \subseteq [cmd : {"read", "write", "set", "clr", "unknown"}, tag : Nat,
                       byteAddr : Nat, count : Nat, slot : Slots]
  /\ CpuType \in {"MN1613", "TMS9995"}
  /\ MaxBytes \in Nat /\ MaxEvents \in Nat

VARIABLES
  sock,     \* per connection: buffer, busy, what was written back, open
  pending,  \* BoardLinkClient.pending: id -> who waits, and for which frame
  linkQ,    \* the link towards the CPU board
  bus,      \* busLock: the commands in the order they came
  results,  \* the link towards the IO board
  ver,      \* the writes memory has taken
  breaks,   \* the slots of the address comparator in use
  sent,     \* frames of the other PC, and whether one announced too much
  events    \* what the environment has done so far

linkVars == <<pending, linkQ, bus, results>>
cpuVars == <<ver, breaks>>
hostVars == <<sock, linkVars, cpuVars, sent, events>>

NoSock == [in |-> <<>>, busy |-> FALSE, out |-> <<>>, open |-> FALSE]
NewSock == [NoSock EXCEPT !.open = TRUE]

HostInit ==
  /\ sock = [s \in Socks |-> IF s = 0 THEN NewSock ELSE NoSock]
  /\ pending = <<>>
  /\ linkQ = <<>> /\ bus = <<>> /\ results = <<>>
  /\ ver = 0 /\ breaks = {}
  /\ sent = [frames |-> 0, oversize |-> FALSE]
  /\ events = 0

-----------------------------------------------------------------------------
(* Frames.                                                                 *)

\* A frame is [cmd, tag, byteAddr, count, slot]; tag tells the frames apart.
ReadFrame(tag, byteAddr, count) ==
  [cmd |-> "read", tag |-> tag, byteAddr |-> byteAddr, count |-> count, slot |-> 0]

\* debugPcNeededBytes(): of a write that announces too much only the header
\* is taken; the data stays in the stream.
Header(f) == f.cmd = "write" /\ f.count > MaxBytes

\* dispatch(), what it refuses without asking the CPU board.
Refused(f) ==
  \/ f.cmd = "unknown"
  \/ f.cmd \in {"set", "clr"} /\ f.slot \notin GoodSlots
  \/ f.cmd \in {"read", "write"} /\ (f.count < 1 \/ f.count > MaxBytes)

\* memRead and memWrite of the handlers: the link wants words.
LinkAddr(f) == f.byteAddr \div 2

\* panelAddrToByteAddr()
PanelAddrToByteAddr(a) == IF CpuType = "TMS9995" THEN a ELSE a * 2

Reply(f, status, at, v) ==
  [tag |-> f.tag, status |-> status, byteAddr |-> at, count |-> f.count, ver |-> v]

-----------------------------------------------------------------------------
(* The host.                                                               *)

\* nextId counts for ever; what matters is that it is above those in use.
nextId == IF DOMAIN pending = {} THEN 1
          ELSE 1 + CHOOSE i \in DOMAIN pending : \A j \in DOMAIN pending : j <= i

Happens == events < MaxEvents /\ events' = events + 1

\* BoardLinkClient.send(), for frame f of a connection in S; of none: the
\* console's own request.
Send(S, f) ==
  /\ pending' = [i \in DOMAIN pending \union {nextId} |->
                   IF i = nextId THEN [socks |-> S, frame |-> f] ELSE pending[i]]
  /\ linkQ' = Append(linkQ, [id |-> nextId, cmd |-> f.cmd, addr |-> LinkAddr(f),
                             slot |-> f.slot])

\* Mutant: the next frame is taken while one is being served.
PumpBusy(s) ==
  /\ sock[s].in # <<>>
  /\ LET f == Head(sock[s].in)
         took == [sock[s] EXCEPT !.in = Tail(@)]
     IN IF Refused(f)
          THEN /\ sock' = [sock EXCEPT ![s] =
                             [took EXCEPT !.out = Append(@, Reply(f, "NG", 0, 0))]]
               /\ UNCHANGED linkVars
          ELSE /\ sock' = [sock EXCEPT ![s] = [took EXCEPT !.busy = TRUE]]
               /\ Send({s}, f)
               /\ UNCHANGED <<bus, results>>
  /\ UNCHANGED <<cpuVars, sent, events>>

\* pump(): a refusal is answered before the loop looks at the buffer again.
Pump(s) ==
  /\ ~sock[s].busy /\ sock[s].in # <<>>
  /\ LET f == Head(sock[s].in)
         took == [sock[s] EXCEPT !.in = Tail(@)]
         answered == IF took.open
                       THEN [took EXCEPT !.out = Append(@, Reply(f, "NG", 0, 0))]
                       ELSE took
     IN IF Refused(f)
          THEN sock' = [sock EXCEPT ![s] = answered] /\ UNCHANGED linkVars
          ELSE /\ sock' = [sock EXCEPT ![s] = [took EXCEPT !.busy = TRUE]]
               /\ Send({s}, f)
               /\ UNCHANGED <<bus, results>>
  /\ UNCHANGED <<cpuVars, sent, events>>

\* BoardLinkClient's message handler: who waits for result r.
Waiter(r) == r.id

\* The end of dispatch(), and of pump(): the reply is written unless the
\* connection is gone.
Answer ==
  /\ results # <<>>
  /\ LET r == Head(results)
         i == Waiter(r)
         w == pending[i]
         reply == Reply(w.frame, IF r.ok THEN "OK" ELSE "NG", r.byteAddr, r.ver)
     IN /\ pending' = Restrict(pending, DOMAIN pending \ {i})
        /\ sock' = [s \in Socks |->
             IF s \notin w.socks THEN sock[s]
             ELSE [sock[s] EXCEPT !.busy = FALSE,
                                  !.out = IF sock[s].open THEN Append(@, reply) ELSE @]]
  /\ results' = Tail(results)
  /\ UNCHANGED <<linkQ, bus, cpuVars, sent, events>>

\* The console of the IO board halts or releases the CPU over the same link.
ConsoleHalts ==
  /\ Happens
  /\ Send({}, [cmd |-> "halt", tag |-> 0, byteAddr |-> 0, count |-> 0, slot |-> 0])
  /\ UNCHANGED <<sock, bus, results, cpuVars, sent>>

-----------------------------------------------------------------------------
(* The CPU board.                                                          *)

Result(q, ok, at) == [id |-> q.id, ok |-> ok, byteAddr |-> at, ver |-> ver']

\* handle(): HLT is set and answered at once, a command waits for the bus.
CpuTakes ==
  /\ linkQ # <<>>
  /\ LET q == Head(linkQ) IN
       IF q.cmd = "halt"
         THEN UNCHANGED <<bus, ver>> /\ results' = Append(results, Result(q, TRUE, 0))
         ELSE bus' = Append(bus, q) /\ UNCHANGED <<results, ver>>
  /\ linkQ' = Tail(linkQ)
  /\ UNCHANGED <<sock, pending, breaks, sent, events>>

\* handleHshk(): the boot monitor executes the command.
Served(q) ==
  /\ ver' = IF q.cmd = "write" THEN ver + 1 ELSE ver
  /\ breaks' = CASE q.cmd = "set" -> breaks \union {q.slot}
                 [] q.cmd = "clr" -> breaks \ {q.slot}
                 [] OTHER -> breaks

ServeBus ==
  /\ bus # <<>>
  /\ LET q == Head(bus) IN
       /\ Served(q)
       /\ results' = Append(results, Result(q, TRUE, PanelAddrToByteAddr(q.addr)))
  /\ bus' = Tail(bus)
  /\ UNCHANGED <<sock, pending, linkQ, sent, events>>

\* The transaction fails, before or after the monitor did what was asked.
FailBus ==
  /\ bus # <<>> /\ Happens
  /\ \/ Served(Head(bus))
     \/ UNCHANGED cpuVars
  /\ results' = Append(results, Result(Head(bus), FALSE, 0))
  /\ bus' = Tail(bus)
  /\ UNCHANGED <<sock, pending, linkQ, sent>>

-----------------------------------------------------------------------------
(* The other PC.                                                           *)

\* Of an announced write beyond the limit the data follows, and reads like
\* any frame.
PcFrames(tag) == {[k EXCEPT !.tag = tag] : k \in PcKinds}

PcSends ==
  /\ Happens
  /\ \E f \in PcFrames(sent.frames + 1) :
       \E data \in IF Header(f) THEN {[f EXCEPT !.cmd = c, !.tag = 0] : c \in {"unknown", "set"}}
                   ELSE {f} :
         /\ sock' = [sock EXCEPT ![0].in =
                       IF Header(f) THEN @ \o <<f, data>> ELSE Append(@, f)]
         /\ sent' = [sent EXCEPT !.frames = @ + 1, !.oversize = @ \/ Header(f)]
  /\ UNCHANGED <<linkVars, cpuVars>>

\* The event loops of the two boards.
HostNext ==
  \/ \E s \in Socks : Pump(s)
  \/ Answer \/ CpuTakes \/ ServeBus \/ FailBus

-----------------------------------------------------------------------------
(* Properties.                                                             *)

HostQuiet ==
  /\ \A s \in Socks : ~sock[s].busy /\ sock[s].in = <<>>
  /\ linkQ = <<>> /\ bus = <<>> /\ results = <<>>

\* The other PC gets its answers in the order of its commands, one for each,
\* as long as no write announced more than the host takes: the protocol has
\* no numbers, so the order is all a debugger has to tell which command
\* failed (pump() and its busy flag, over a link that answers out of order).
AnswersInOrder ==
  ~sent.oversize =>
    /\ \A k \in DOMAIN sock[0].out : sock[0].out[k].tag = k
    /\ HostQuiet => Len(sock[0].out) = sent.frames
=============================================================================
