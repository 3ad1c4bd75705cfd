-------------------------- MODULE DebugView_proofs --------------------------
(***************************************************************************)
(* Proofs about DebugHost and DebugView, for every memory and proportion   *)
(* of windows, any number of connections, frames and messages on their way *)
(* and any number of failures.                                             *)
(***************************************************************************)
EXTENDS DebugView, WellFoundedInduction, TLAPS

-----------------------------------------------------------------------------
(* Queues of messages that name a job or a request: what putting one in    *)
(* and taking one out does to the elements of one name, and to the ends.   *)

Queue(q) == \E S : q \in Seq(S)
One(s) == \E x : s = {x}

\* The places in q of the elements whose field end is j.
Of(q, end, j) == {i \in DOMAIN q : q[i][end] = j}

\* A new element is at the end; the others stay where they are.
LEMMA QueueBack ==
  ASSUME NEW q, Queue(q), NEW m
  PROVE  /\ Len(q) \in Nat /\ DOMAIN q = 1..Len(q)
         /\ Queue(Append(q, m)) /\ DOMAIN Append(q, m) = 1..(Len(q) + 1)
         /\ \A i \in 1..Len(q) : Append(q, m)[i] = q[i]
         /\ Append(q, m)[Len(q) + 1] = m
<1>1. PICK S : q \in Seq(S) BY DEF Queue
<1>2. q \in Seq(S \cup {m}) BY <1>1
<1>3. Append(q, m) \in Seq(S \cup {m}) BY <1>2
<1> QED BY <1>1, <1>2, <1>3 DEF Queue

\* Without its first element a queue is shifted by one.
LEMMA QueueFront ==
  ASSUME NEW q, Queue(q), q # <<>>
  PROVE  /\ Len(q) \in Nat \ {0} /\ DOMAIN q = 1..Len(q) /\ Head(q) = q[1]
         /\ Queue(Tail(q)) /\ DOMAIN Tail(q) = 1..(Len(q) - 1)
         /\ \A i \in 1..(Len(q) - 1) : Tail(q)[i] = q[i + 1]
<1>1. PICK S : q \in Seq(S) BY DEF Queue
<1>2. Tail(q) \in Seq(S) BY <1>1
<1> QED BY <1>1, <1>2 DEF Queue

\* A new element is the only one of its job when that had none.
LEMMA PutOf ==
  ASSUME NEW q, Queue(q), NEW m, NEW end, NEW j
  PROVE  /\ m[end] # j => Of(Append(q, m), end, j) = Of(q, end, j)
         /\ m[end] = j /\ Of(q, end, j) = {} => One(Of(Append(q, m), end, j))
<1>1. DEFINE n == Len(q) + 1
<1>2. /\ n \in Nat /\ DOMAIN q = 1..(n - 1) /\ DOMAIN Append(q, m) = 1..n
      /\ \A i \in 1..(n - 1) : Append(q, m)[i] = q[i]
      /\ Append(q, m)[n] = m
  BY QueueBack
<1> HIDE DEF n
<1>3. \A i \in 1..n : i = n \/ i \in 1..(n - 1) BY <1>2
<1>4. ASSUME m[end] # j PROVE Of(Append(q, m), end, j) = Of(q, end, j)
  BY <1>2, <1>3, <1>4 DEF Of
<1>5. ASSUME m[end] = j, Of(q, end, j) = {} PROVE One(Of(Append(q, m), end, j))
  <2>1. n \in 1..n BY <1>2
  <2>2. Of(Append(q, m), end, j) = {n} BY <1>2, <1>3, <1>5, <2>1 DEF Of
  <2> QED BY <2>2 DEF One
<1> QED BY <1>4, <1>5

\* The first element is its job's; without it the others keep theirs.
LEMMA TakeOf ==
  ASSUME NEW q, Queue(q), q # <<>>, NEW end, NEW j
  PROVE  /\ Head(q)[end] = j => Of(q, end, j) # {}
         /\ Head(q)[end] = j /\ One(Of(q, end, j)) => Of(Tail(q), end, j) = {}
         /\ Of(q, end, j) = {} => Of(Tail(q), end, j) = {}
         /\ Head(q)[end] # j /\ One(Of(q, end, j)) => One(Of(Tail(q), end, j))
<1> DEFINE n == Len(q)
<1>1. /\ n \in Nat \ {0} /\ DOMAIN q = 1..n /\ Head(q) = q[1]
      /\ DOMAIN Tail(q) = 1..(n - 1)
      /\ \A i \in 1..(n - 1) : Tail(q)[i] = q[i + 1]
  BY QueueFront
<1> HIDE DEF n
<1>2. \A i \in 1..(n - 1) : i + 1 \in 1..n /\ i + 1 # 1 BY <1>1
<1>3. \A i \in Of(Tail(q), end, j) : i \in Nat /\ i + 1 \in Of(q, end, j) /\ i + 1 # 1
  BY <1>1, <1>2 DEF Of
<1>4. ASSUME Head(q)[end] = j PROVE 1 \in Of(q, end, j)
  BY <1>1, <1>4 DEF Of
<1>5. ASSUME Head(q)[end] = j, One(Of(q, end, j)) PROVE Of(Tail(q), end, j) = {}
  BY <1>3, <1>4, <1>5 DEF One
<1>6. ASSUME Of(q, end, j) = {} PROVE Of(Tail(q), end, j) = {}
  BY <1>3, <1>6
<1>7. ASSUME Head(q)[end] # j, One(Of(q, end, j)) PROVE One(Of(Tail(q), end, j))
  <2>1. PICK k : Of(q, end, j) = {k} BY <1>7 DEF One
  <2>2. k \in 1..n /\ q[k][end] = j /\ k # 1 BY <1>1, <1>7, <2>1 DEF Of
  <2>3. k - 1 \in 1..(n - 1) /\ Tail(q)[k - 1] = q[k] BY <1>1, <2>2
  <2>4. k - 1 \in Of(Tail(q), end, j) BY <1>1, <2>2, <2>3 DEF Of
  <2>5. \A i \in Of(Tail(q), end, j) : i = k - 1 BY <1>3, <2>1, <2>2
  <2> QED BY <2>4, <2>5 DEF One
<1> QED BY <1>4, <1>5, <1>6, <1>7

-----------------------------------------------------------------------------
(* The last element of some kinds: those whose field f is in T.            *)

At(q, f, T) == {i \in DOMAIN q : q[i][f] \in T}
LastOf(s, i) == i \in s /\ \A k \in s : k <= i

\* b is q with m put in.
Put(q, m, b) == Queue(q) /\ b = Append(q, m)

\* A new element of the kind is its last one.
LEMMA LastBack ==
  ASSUME NEW q, NEW m, NEW b, Put(q, m, b), NEW f, NEW T
  PROVE  /\ m[f] \notin T => At(b, f, T) = At(q, f, T)
         /\ m[f] \in T => At(b, f, T) # {} /\ \A k : LastOf(At(b, f, T), k) => b[k] = m
         /\ \A k \in At(q, f, T) : b[k] = q[k]
<1> DEFINE n == Len(q) + 1
<1>1. /\ n \in Nat /\ DOMAIN q = 1..(n - 1) /\ DOMAIN b = 1..n
      /\ \A i \in 1..(n - 1) : b[i] = q[i]
      /\ b[n] = m
  BY QueueBack DEF Put
<1> HIDE DEF n
<1>2. /\ \A i \in 1..n : i = n \/ i \in 1..(n - 1)
      /\ \A i \in 1..(n - 1) : i \in 1..n /\ i # n
      /\ n \in 1..n \/ n = 0
  BY <1>1
<1>3. n \in 1..n
  <2>1. n # 0
    <3>1. \A k \in Nat : k + 1 # 0 OBVIOUS
    <3> QED BY <3>1, QueueBack DEF n, Put
  <2> QED BY <1>2, <2>1
<1>4. ASSUME m[f] \notin T PROVE At(b, f, T) = At(q, f, T)
  BY <1>1, <1>2, <1>4 DEF At
<1>5. ASSUME m[f] \in T PROVE n \in At(b, f, T)
  BY <1>1, <1>3, <1>5 DEF At
<1>6. ASSUME m[f] \in T, NEW k, LastOf(At(b, f, T), k) PROVE b[k] = m
  <2>1. k \in 1..n /\ n <= k BY <1>1, <1>5, <1>6 DEF LastOf, At
  <2>2. k = n BY <1>1, <2>1
  <2> QED BY <1>1, <2>2
<1>7. \A k \in At(q, f, T) : b[k] = q[k] BY <1>1 DEF At
<1> QED BY <1>4, <1>5, <1>6, <1>7

\* Without its head a queue keeps the last one, unless that was the head.
LEMMA LastFront ==
  ASSUME NEW q, Queue(q), q # <<>>, NEW f, NEW T
  PROVE  /\ At(Tail(q), f, T) = {} /\ Head(q)[f] \in T
              => \E k : LastOf(At(q, f, T), k) /\ q[k] = Head(q)
         /\ At(Tail(q), f, T) = {} /\ Head(q)[f] \notin T => At(q, f, T) = {}
         /\ \A k : LastOf(At(Tail(q), f, T), k)
              => LastOf(At(q, f, T), k + 1) /\ q[k + 1] = Tail(q)[k]
         /\ At(q, f, T) = {} => At(Tail(q), f, T) = {}
         /\ At(Tail(q), f, T) # {} => At(q, f, T) # {}
<1> DEFINE n == Len(q)
           t == Tail(q)
           h == Head(q)
<1>1. /\ n \in Nat \ {0} /\ DOMAIN q = 1..n /\ h = q[1]
      /\ DOMAIN t = 1..(n - 1)
      /\ \A i \in 1..(n - 1) : t[i] = q[i + 1]
  BY QueueFront
<1> HIDE DEF n, t, h
<1>2. /\ 1 \in 1..n
      /\ \A i \in 1..n : i \in Nat /\ (i = 1 \/ (i - 1 \in 1..(n - 1) /\ i - 1 + 1 = i))
      /\ \A i \in 1..(n - 1) : i \in Nat /\ i + 1 \in 1..n
  BY <1>1
<1>3. \A i \in At(t, f, T) : i \in Nat /\ i + 1 \in At(q, f, T) /\ q[i + 1] = t[i]
  BY <1>1, <1>2 DEF At
<1>4. \A i \in At(q, f, T) :
        i \in Nat /\ (i = 1 \/ (i - 1 \in At(t, f, T) /\ i - 1 + 1 = i))
  BY <1>1, <1>2 DEF At
<1>5. ASSUME At(t, f, T) = {}, h[f] \in T
      PROVE  LastOf(At(q, f, T), 1) /\ q[1] = h
  <2>1. 1 \in At(q, f, T) BY <1>1, <1>2, <1>5 DEF At
  <2>2. \A i \in At(q, f, T) : i = 1 BY <1>4, <1>5
  <2> QED BY <1>1, <2>1, <2>2 DEF LastOf
<1>6. ASSUME At(t, f, T) = {}, h[f] \notin T PROVE At(q, f, T) = {}
  <2>1. 1 \notin At(q, f, T) BY <1>1, <1>6 DEF At
  <2> QED BY <1>4, <1>6, <2>1
<1>7. ASSUME NEW k, LastOf(At(t, f, T), k)
      PROVE  LastOf(At(q, f, T), k + 1) /\ q[k + 1] = t[k]
  <2>1. k \in At(t, f, T) /\ k \in Nat /\ k + 1 \in At(q, f, T) /\ q[k + 1] = t[k]
    BY <1>3, <1>7 DEF LastOf
  <2>2. ASSUME NEW i \in At(q, f, T) PROVE i <= k + 1
    <3>1. CASE i = 1 BY <2>1, <3>1
    <3>2. CASE i - 1 \in At(t, f, T) /\ i - 1 + 1 = i
      <4>1. i - 1 <= k BY <1>7, <3>2 DEF LastOf
      <4> QED BY <1>4, <2>1, <2>2, <4>1
    <3> QED BY <1>4, <3>1, <3>2
  <2> QED BY <2>1, <2>2 DEF LastOf
<1>8. At(q, f, T) = {} => At(t, f, T) = {} BY <1>3
<1> QED BY <1>5, <1>6, <1>7, <1>8 DEF t, h

-----------------------------------------------------------------------------
(* What is in a queue.                                                     *)

LEMMA HeldBack ==
  ASSUME NEW q, NEW m, NEW b, Put(q, m, b)
  PROVE  Range(b) = Range(q) \union {m}
<1> DEFINE n == Len(q) + 1
<1>1. /\ n \in Nat /\ n # 0 /\ DOMAIN q = 1..(n - 1) /\ DOMAIN b = 1..n
      /\ \A i \in 1..(n - 1) : b[i] = q[i]
      /\ b[n] = m
  BY QueueBack DEF Put
<1> HIDE DEF n
<1>2. /\ \A i \in 1..n : i = n \/ i \in 1..(n - 1)
      /\ \A i \in 1..(n - 1) : i \in 1..n
      /\ n \in 1..n
  BY <1>1
<1>3. ASSUME NEW x \in Range(b) PROVE x \in Range(q) \/ x = m
  <2>1. PICK i \in 1..n : x = b[i] BY <1>1, <1>3 DEF Range
  <2> QED BY <1>1, <1>2, <2>1 DEF Range
<1>4. \A x \in Range(q) : x \in Range(b) BY <1>1, <1>2 DEF Range
<1>5. m \in Range(b) BY <1>1, <1>2 DEF Range
<1> QED BY <1>3, <1>4, <1>5

LEMMA HeldFront ==
  ASSUME NEW q, Queue(q), q # <<>>
  PROVE  Head(q) \in Range(q) /\ Range(Tail(q)) \subseteq Range(q)
<1> DEFINE n == Len(q)
<1>1. /\ n \in Nat \ {0} /\ DOMAIN q = 1..n /\ Head(q) = q[1]
      /\ DOMAIN Tail(q) = 1..(n - 1)
      /\ \A i \in 1..(n - 1) : Tail(q)[i] = q[i + 1]
  BY QueueFront
<1> HIDE DEF n
<1>2. 1 \in 1..n /\ \A i \in 1..(n - 1) : i + 1 \in 1..n BY <1>1
<1>3. Head(q) \in Range(q) BY <1>1, <1>2 DEF Range
<1>4. ASSUME NEW x \in Range(Tail(q)) PROVE x \in Range(q)
  <2>1. PICK i \in 1..(n - 1) : x = Tail(q)[i] BY <1>1, <1>4 DEF Range
  <2> QED BY <1>1, <1>2, <2>1 DEF Range
<1> QED BY <1>3, <1>4


-----------------------------------------------------------------------------
(* What the variables hold.                                                *)

Cmds == {"read", "write", "set", "clr", "unknown", "halt"}
FrameType ==
  [cmd : Cmds, tag : Nat, byteAddr : Int, count : Int, slot : Slots \union {0}]
ReplyType ==
  [tag : Nat, status : {"OK", "NG"}, byteAddr : Int, count : Int, ver : Int]
SockType ==
  [in : Seq(FrameType), busy : BOOLEAN, out : Seq(ReplyType), open : BOOLEAN]
WaiterType == [socks : SUBSET Socks, frame : FrameType]
AskedType == [id : Nat, cmd : Cmds, addr : Int, slot : Slots \union {0}]
ResultType == [id : Nat, ok : BOOLEAN, byteAddr : Int, ver : Int]

PendingOk == /\ \E B \in Nat : DOMAIN pending \subseteq 0..B
             /\ pending \in [DOMAIN pending -> WaiterType]
LinkOk == /\ linkQ \in Seq(AskedType) /\ bus \in Seq(AskedType)
          /\ results \in Seq(ResultType)
          /\ ver \in Int
HostType == /\ sock \in [Socks -> SockType]
            /\ PendingOk /\ LinkOk
            /\ sent \in [frames : Nat, oversize : BOOLEAN]

WinType == [lo : Int, hi : Int]
DumpType == [kind : {"zeros", "read"}, lo : Int, hi : Int, ver : Int, since : Int]
PaneType == [win : WinType, start : Int, dump : DumpType]
WorkType == [pane : Panes, win : WinType, scroll : Int, asked : BOOLEAN, since : Int]
WishType == [center : Int, scroll : Int, set : BOOLEAN]
PanelType ==
  [state : [Panes -> PaneType], note : {"waiting", "ok", "unconnected"},
   job : {Idle} \union WorkType, queued : [Panes -> WishType],
   conn : Socks, opening : {"wait", "mem", "done"}]
ViewType ==
  [lo : Int, hi : Int, row : Int, timer : BOOLEAN, frames : Seq(Int)]
ToPanelType ==
  [type : Panes \union {"ready", "gotoMem", "loadHex"}, first : Int, last : Int]
ToViewType == [type : Panes \union {"state"}, lo : Int, hi : Int, scroll : Int]
PagesOk == /\ view \in [Panes -> ViewType]
           /\ toPanel \in Seq(ToPanelType) /\ toView \in Seq(ToViewType)

-----------------------------------------------------------------------------
(* Where the command of an id is, or the result of it.                     *)

Nowhere(i) == /\ Of(linkQ, "id", i) = {} /\ Of(bus, "id", i) = {}
              /\ Of(results, "id", i) = {}
Asked(i) == /\ One(Of(linkQ, "id", i)) /\ Of(bus, "id", i) = {}
            /\ Of(results, "id", i) = {}
Queued(i) == /\ Of(linkQ, "id", i) = {} /\ One(Of(bus, "id", i))
             /\ Of(results, "id", i) = {}
Answered(i) == /\ Of(linkQ, "id", i) = {} /\ Of(bus, "id", i) = {}
               /\ One(Of(results, "id", i))
Somewhere(i) == Asked(i) \/ Queued(i) \/ Answered(i)
Placed == \A i \in Nat : IF i \in DOMAIN pending THEN Somewhere(i) ELSE Nowhere(i)

\* A connection that waits is busy, and waits for one command.
Waits(s) == {i \in DOMAIN pending : s \in pending[i].socks}
Waiting == \A s \in Socks :
             \A i \in Waits(s) : sock[s].busy /\ \A k \in Waits(s) : k = i

\* The frame of the job of the panel.
JobFrame == ReadFrame(0, panel.job.win.lo * 2,
                      (panel.job.win.hi - panel.job.win.lo + 1) * 2)

\* The client takes the connections in turn.
Unused == \A s \in Socks : s > panel.conn => sock[s] = NoSock

TypeOk == HostType /\ panel \in PanelType /\ PagesOk
HostInv == TypeOk /\ Placed /\ Waiting /\ Unused

-----------------------------------------------------------------------------
(* Numbers and ids.                                                        *)

LEMMA Least ==
  ASSUME NEW S, S \subseteq Nat, S # {}
  PROVE  \E x \in S : \A y \in S : x <= y
<1> DEFINE R == OpToRel(<, Nat)
<1>1. IsWellFoundedOn(R, Nat) BY NatLessThanWellFounded
<1>2. \A x, y \in Nat : x < y => <<x, y>> \in R BY DEF OpToRel
<1> HIDE DEF R
<1>3. PICK x \in S : \A y \in S : <<y, x>> \notin R BY <1>1, WFMin
<1>4. \A y \in S : x <= y
  <2>1. \A y, z \in Nat : z <= y \/ y < z OBVIOUS
  <2> QED BY <1>2, <1>3, <2>1
<1> QED BY <1>4

LEMMA Largest ==
  ASSUME NEW B \in Nat, NEW S, S \subseteq 0..B, S # {}
  PROVE  \E x \in S : \A y \in S : y <= x
<1> DEFINE T == {B - x : x \in S}
<1>1. \A x \in 0..B : x \in Nat /\ B - x \in Nat OBVIOUS
<1>2. T \subseteq Nat /\ T # {} BY <1>1
<1>3. PICK t \in T : \A u \in T : t <= u
  <2> HIDE DEF T
  <2> QED BY <1>2, Least
<1>4. PICK x \in S : t = B - x BY <1>3
<1>5. ASSUME NEW y \in S PROVE y <= x
  <2>1. B - y \in T BY <1>5
  <2>2. B - x <= B - y BY <1>3, <1>4, <2>1
  <2> QED BY <1>1, <2>2
<1> QED BY <1>5

\* The id of the next command is used by none that is pending.
LEMMA NextIdFree ==
  ASSUME PendingOk
  PROVE  /\ nextId \in Nat /\ nextId \notin DOMAIN pending
         /\ \E B \in Nat : DOMAIN pending \union {nextId} \subseteq 0..B
<1>1. PICK B \in Nat : DOMAIN pending \subseteq 0..B BY DEF PendingOk
<1>2. CASE DOMAIN pending = {}
  <2>1. nextId = 1 BY <1>2 DEF nextId
  <2> QED BY <1>2, <2>1
<1>3. CASE DOMAIN pending # {}
  <2> DEFINE i == CHOOSE k \in DOMAIN pending : \A j \in DOMAIN pending : j <= k
  <2>1. \E k \in DOMAIN pending : \A j \in DOMAIN pending : j <= k
    BY <1>1, <1>3, Largest
  <2>2. i \in DOMAIN pending /\ \A j \in DOMAIN pending : j <= i BY <2>1
  <2>3. nextId = 1 + i BY <1>3 DEF nextId
  <2> HIDE DEF i
  <2>4. i \in 0..B /\ i \in Nat BY <1>1, <2>2
  <2>5. nextId \in Nat /\ ~(nextId <= i) /\ nextId \in 0..(B + 1) BY <2>3, <2>4
  <2>6. 0..B \subseteq 0..(B + 1) /\ B + 1 \in Nat OBVIOUS
  <2> QED BY <1>1, <2>2, <2>5, <2>6
<1> QED BY <1>2, <1>3

-----------------------------------------------------------------------------
(* What the panel is after a request.                                      *)

LEMMA Numbers ==
  /\ Socks \subseteq Nat /\ 0 \in Socks
  /\ RowWords["mem"] \in Nat \ {0} /\ RowWords["dis"] = 1
  /\ Top \in Nat /\ HalfWindow \in Nat /\ Margin \in Nat /\ Lines \in Nat \ {0}
  /\ Entry \in Nat /\ Entries \subseteq Nat /\ Goto \subseteq Nat
BY DebugHostAssumption, DebugViewAssumption

LEMMA RangeType == ASSUME NEW c \in Int PROVE FetchRange(c) \in WinType
<1>1. \A a \in Int : RowStart(a) \in Int BY Numbers DEF RowStart
<1> DEFINE lo == RowStart(IF c < HalfWindow THEN 0 ELSE c - HalfWindow)
           hi == IF c + HalfWindow > Top THEN Top ELSE c + HalfWindow
           full == RowStart(hi - lo + RowWords["mem"])
<1>2. hi \in Int /\ lo \in Int BY <1>1, Numbers
<1>3. full \in Int
  <2> HIDE DEF hi, lo
  <2> QED BY <1>1, <1>2, Numbers
<1>4. FetchRange(c) = [lo |-> lo, hi |-> IF lo + full - 1 > Top THEN Top ELSE lo + full - 1]
  BY DEF FetchRange
<1> HIDE DEF lo, hi, full
<1> QED BY <1>2, <1>3, <1>4, Numbers DEF WinType

\* A job that has just begun, and what a request may do to the job.
Begun(j) == j \in WorkType /\ ~j.asked /\ j.since = ver
JobKept(P, Q) == Q.job = P.job \/ (P.job = Idle /\ Begun(Q.job))

\* A request changes nothing but the job and what is queued.
LEMMA RequestType ==
  ASSUME NEW P \in PanelType, NEW p \in Panes, NEW c \in Int, NEW s \in Int, ver \in Int
  PROVE  /\ Request(P, p, c, s) \in PanelType
         /\ Request(P, p, c, s).conn = P.conn
         /\ Request(P, p, c, s).state = P.state
         /\ Request(P, p, c, s).opening = P.opening
         /\ JobKept(P, Request(P, p, c, s))
<1>1. FetchRange(c) \in WinType BY RangeType
<1> DEFINE w == FetchRange(c)
<1>2. Request(P, p, c, s) =
        IF P.job # Idle
          THEN [P EXCEPT !.queued[p] = [center |-> c, scroll |-> s, set |-> TRUE]]
          ELSE [P EXCEPT !.job = [pane |-> p, win |-> w, scroll |-> s,
                                  asked |-> FALSE, since |-> ver]]
  BY DEF Request
<1> HIDE DEF w
<1>3. [center |-> c, scroll |-> s, set |-> TRUE] \in WishType BY DEF WishType
<1>4. [pane |-> p, win |-> w, scroll |-> s, asked |-> FALSE, since |-> ver] \in WorkType
  BY <1>1 DEF WorkType, w
<1>5. CASE P.job # Idle
  <2>1. [P.queued EXCEPT ![p] = [center |-> c, scroll |-> s, set |-> TRUE]]
          \in [Panes -> WishType]
    BY <1>3 DEF PanelType
  <2> QED BY <1>2, <1>5, <2>1 DEF PanelType, JobKept
<1>6. CASE P.job = Idle
  <2> DEFINE j == [pane |-> p, win |-> w, scroll |-> s, asked |-> FALSE, since |-> ver]
  <2>1. Begun(j) BY <1>4 DEF Begun
  <2>2. Request(P, p, c, s) = [P EXCEPT !.job = j] BY <1>2, <1>6
  <2> HIDE DEF j
  <2>3. j \in WorkType BY <2>1 DEF Begun
  <2> QED BY <1>6, <2>1, <2>2, <2>3 DEF PanelType, JobKept
<1> QED BY <1>5, <1>6

LEMMA DrainType ==
  ASSUME NEW P \in PanelType, ver \in Int
  PROVE  /\ Drain(P) \in PanelType
         /\ Drain(P).conn = P.conn /\ Drain(P).state = P.state
         /\ Drain(P).opening = P.opening
         /\ JobKept(P, Drain(P))
<1> DEFINE next == IF P.queued["mem"].set THEN "mem" ELSE "dis"
           Q == [P EXCEPT !.queued[next] = None]
<1>1. next \in Panes /\ P.queued \in [Panes -> WishType] /\ None \in WishType
  BY DEF PanelType, Panes, None, WishType
<1>2. P.queued[next].center \in Int /\ P.queued[next].scroll \in Int
  BY <1>1 DEF WishType
<1>3. /\ Q \in PanelType /\ Q.conn = P.conn /\ Q.state = P.state
      /\ Q.opening = P.opening /\ Q.job = P.job
  <2> HIDE DEF next
  <2> QED BY <1>1 DEF PanelType
<1>4. Drain(P) = IF P.queued[next].set
                   THEN Request(Q, next, P.queued[next].center, P.queued[next].scroll)
                   ELSE P
  BY DEF Drain
<1> HIDE DEF next, Q
<1> QED BY <1>1, <1>2, <1>3, <1>4, RequestType DEF JobKept

LEMMA OpenedType ==
  ASSUME NEW P \in PanelType, ver \in Int
  PROVE  /\ Opened(P) \in PanelType
         /\ Opened(P).conn = P.conn /\ Opened(P).state = P.state
         /\ JobKept(P, Opened(P))
<1> DEFINE Q == [P EXCEPT !.opening = "done"]
<1>1. Q \in PanelType /\ Q.conn = P.conn /\ Q.state = P.state /\ Q.job = P.job
  BY DEF PanelType
<1>2. Opened(P) = IF P.opening = "mem" THEN Request(Q, "dis", Entry, Entry) ELSE P
  BY DEF Opened
<1> HIDE DEF Q
<1>3. "dis" \in Panes /\ Entry \in Int BY Numbers DEF Panes
<1> QED BY <1>1, <1>2, <1>3, RequestType DEF JobKept


\* The end of a read: its pane has the window, and the next job begins, if any.
LEMMA FinishType ==
  ASSUME panel \in PanelType, panel.job # Idle, ver \in Int, toView \in Seq(ToViewType),
         NEW dump \in DumpType, NEW note \in {"ok", "unconnected"}, Finish(dump, note)
  PROVE  /\ panel' \in PanelType /\ panel'.conn = panel.conn
         /\ panel'.state = [panel.state EXCEPT ![panel.job.pane] =
              [win |-> panel.job.win, start |-> panel.job.scroll, dump |-> dump]]
         /\ panel'.job = Idle \/ Begun(panel'.job)
         /\ toView' = Append(toView, Around(panel.job.pane, panel.job.win,
                                            panel.job.win.lo, panel.job.scroll))
         /\ toView' \in Seq(ToViewType)
<1> DEFINE j == panel.job
           st == [panel.state EXCEPT ![j.pane] =
                    [win |-> j.win, start |-> j.scroll, dump |-> dump]]
           done == [panel EXCEPT !.state[j.pane] =
                      [win |-> j.win, start |-> j.scroll, dump |-> dump],
                    !.note = note, !.job = Idle]
           m == Around(j.pane, j.win, j.win.lo, j.scroll)
<1>1. j \in WorkType BY DEF PanelType
<1>2. /\ j.pane \in Panes /\ j.win \in WinType /\ j.scroll \in Int
      /\ j.win.lo \in Int /\ j.win.hi \in Int
  BY <1>1 DEF WorkType, WinType
<1>3. st \in [Panes -> PaneType]
  <2>1. [win |-> j.win, start |-> j.scroll, dump |-> dump] \in PaneType
    BY <1>2 DEF PaneType
  <2> QED BY <1>2, <2>1 DEF PanelType
<1>4. m \in ToViewType BY <1>2 DEF Around, ToViewType
<1>5. panel' = Opened(Drain(done)) /\ toView' = Append(toView, m) BY DEF Finish
<1>6. /\ done \in PanelType /\ done.conn = panel.conn /\ done.state = st
      /\ done.job = Idle
  <2>1. done = [panel EXCEPT !.state = st, !.note = note, !.job = Idle]
    BY DEF PanelType
  <2> HIDE DEF st, done
  <2> QED BY <1>3, <2>1 DEF PanelType
<1> HIDE DEF done, m, st
<1>7. /\ Drain(done) \in PanelType /\ Drain(done).conn = panel.conn
      /\ Drain(done).state = st /\ JobKept(done, Drain(done))
  BY <1>6, DrainType
<1>8. /\ panel' \in PanelType /\ panel'.conn = panel.conn
      /\ panel'.state = st /\ JobKept(Drain(done), panel')
  BY <1>5, <1>7, OpenedType
<1>9. panel'.job = Idle \/ Begun(panel'.job)
  BY <1>6, <1>7, <1>8 DEF JobKept
<1> QED BY <1>4, <1>5, <1>8, <1>9 DEF st, m

LEMMA CenterType ==
  ASSUME NEW first \in Int, NEW last \in Int, NEW w
  PROVE  NextCenter(first, last, w) \subseteq Int
<1> DEFINE lo == NearLo(first, w)
           hi == NearHi(last, w)
<1>1. NextCenter(first, last, w) =
        CASE hi /\ ~lo -> {last} [] lo /\ ~hi -> {first}
          [] lo /\ hi -> {(first + last) \div 2} [] OTHER -> {}
  BY DEF NextCenter
<1>2. (first + last) \div 2 \in Int OBVIOUS
<1> HIDE DEF lo, hi
<1> QED BY <1>1, <1>2

\* What a message does to the panel: a pane keeps its window and its dump, or
\* shows zeros.
LEMMA ReceiveType ==
  ASSUME panel \in PanelType, ver \in Int, PagesOk, PanelReceives
  PROVE  /\ panel' \in PanelType /\ panel'.conn = panel.conn
         /\ \A p \in Panes :
              \/ panel'.state[p].dump.kind = "zeros"
              \/ /\ panel'.state[p].dump = panel.state[p].dump
                 /\ panel'.state[p].win = panel.state[p].win
         /\ JobKept(panel, panel')
         /\ PagesOk'
<1> DEFINE msg == Head(toPanel)
<1>1. msg \in ToPanelType /\ toPanel # <<>> BY DEF PagesOk, PanelReceives
<1>2. msg.first \in Int /\ msg.last \in Int BY <1>1 DEF ToPanelType
<1>3. /\ toPanel' = Tail(toPanel) /\ view' = view /\ ver' = ver
      /\ toPanel' \in Seq(ToPanelType)
  BY <1>1 DEF PanelReceives, PagesOk, hostVars, cpuVars
<1>4. "mem" \in Panes /\ "dis" \in Panes BY DEF Panes
<1> DEFINE Fine(P) ==
       /\ P \in PanelType /\ P.conn = panel.conn
       /\ \A p \in Panes : \/ P.state[p].dump.kind = "zeros"
                           \/ /\ P.state[p].dump = panel.state[p].dump
                              /\ P.state[p].win = panel.state[p].win
       /\ JobKept(panel, P)
<1>5. ASSUME NEW P, Fine(P), NEW p \in Panes, NEW c \in Int, NEW s \in Int
      PROVE  Fine(Request(P, p, c, s))
  BY <1>5, RequestType DEF JobKept
<1>6. ASSUME NEW P, Fine(P) PROVE Fine(Opened(P))
  BY <1>6, OpenedType DEF JobKept
<1>7. Fine(panel) BY DEF JobKept
<1>8. ASSUME NEW e \in Int PROVE PostState(e) \in ToViewType
  <2>1. FetchRange(e) \in WinType BY <1>8, RangeType
  <2> QED BY <1>8, <2>1 DEF PostState, ToViewType, WinType
<1>9. CASE OnReady
  <2> DEFINE st == [panel.state EXCEPT !["mem"].start = Entry, !["dis"].start = Entry]
             shown == [panel EXCEPT !.state["mem"].start = Entry,
                                    !.state["dis"].start = Entry]
             asked == Request(shown, "mem", Entry, Entry)
             more == [asked EXCEPT !.opening = "mem"]
  <2>1. Entry \in Int BY Numbers
  <2>2. st \in [Panes -> PaneType] BY <1>4, <2>1 DEF PanelType, PaneType
  <2>3. \A p \in Panes : st[p].dump = panel.state[p].dump /\ st[p].win = panel.state[p].win
    BY <1>4, <2>1 DEF PanelType, PaneType
  <2>4. shown = [panel EXCEPT !.state = st] BY <1>4 DEF PanelType
  <2>5. Fine(shown)
    <3> HIDE DEF st, shown
    <3> QED BY <2>2, <2>3, <2>4 DEF PanelType, JobKept
  <2>6. panel' = IF panel.job = Idle THEN more ELSE Opened(more)
    BY <1>9 DEF OnReady
  <2>7. toView' = Append(toView, PostState(Entry)) BY <1>9 DEF OnReady
  <2> HIDE DEF st, shown
  <2>8. Fine(asked) BY <1>4, <1>5, <2>1, <2>5
  <2> HIDE DEF asked
  <2>9. Fine(more) BY <2>8 DEF PanelType, JobKept
  <2> HIDE DEF more, Fine
  <2>10. Fine(panel') BY <1>6, <2>6, <2>9
  <2>11. toView' \in Seq(ToViewType) BY <1>8, <2>1, <2>7 DEF PagesOk
  <2> QED BY <1>3, <2>10, <2>11 DEF Fine, PagesOk
<1>10. CASE panel' = Request(panel, "mem", msg.first, msg.first) /\ UNCHANGED toView
  <2> HIDE DEF Fine, msg
  <2>1. Fine(panel') BY <1>2, <1>4, <1>5, <1>7, <1>10
  <2> QED BY <1>3, <1>10, <2>1 DEF Fine, PagesOk
<1>11. CASE OnLoad(msg.first)
  <2> DEFINE e == msg.first
             st == [p \in Panes |-> Fresh(e)]
             loaded == [panel EXCEPT !.state = st, !.note = "waiting"]
  <2>1. e \in Int BY <1>2
  <2>2. panel' = Request(Request(loaded, "mem", e, e), "dis", e, e)
    BY <1>11 DEF OnLoad
  <2>3. toView' = Append(toView, PostState(e)) BY <1>11 DEF OnLoad
  <2> HIDE DEF e
  <2>4. Fresh(e) \in PaneType /\ Fresh(e).dump.kind = "zeros"
    <3>1. FetchRange(e) \in WinType BY <2>1, RangeType
    <3> QED BY <2>1, <3>1 DEF Fresh, PaneType, Zeros, DumpType
  <2>5. st \in [Panes -> PaneType] /\ \A p \in Panes : st[p].dump.kind = "zeros"
    BY <2>4
  <2> HIDE DEF st
  <2>6. Fine(loaded) BY <2>5 DEF PanelType, JobKept
  <2> HIDE DEF loaded, Fine
  <2>7. Fine(Request(loaded, "mem", e, e)) BY <1>4, <1>5, <2>1, <2>6
  <2>8. Fine(panel') BY <1>4, <1>5, <2>1, <2>2, <2>7
  <2>9. toView' \in Seq(ToViewType) BY <1>8, <2>1, <2>3 DEF PagesOk
  <2> QED BY <1>3, <2>8, <2>9 DEF Fine, PagesOk
<1>12. CASE msg.type \in Panes /\ OnScroll(msg.type, msg.first, msg.last)
  <2> DEFINE p == msg.type
             w == panel.state[p].win
             C == {x \in NextCenter(msg.first, msg.last, w) : FetchRange(x) # w}
             x == CHOOSE c \in C : TRUE
  <2>1. panel' = (IF C = {} THEN panel ELSE Request(panel, p, x, msg.first))
        /\ toView' = toView
    BY <1>12 DEF OnScroll
  <2>2. C \subseteq Int BY <1>2, CenterType
  <2>3. C # {} => x \in Int BY <2>2
  <2>4. p \in Panes BY <1>12
  <2> HIDE DEF C, x, p, msg, Fine
  <2>5. Fine(panel') BY <1>2, <1>5, <1>7, <2>1, <2>3, <2>4
  <2> QED BY <1>3, <2>1, <2>5 DEF Fine, PagesOk
<1> QED BY <1>9, <1>10, <1>11, <1>12 DEF PanelReceives


-----------------------------------------------------------------------------
(* What a step of the link does to the ids.                                *)

LEMMA QueuesAreQueues ==
  ASSUME LinkOk PROVE Queue(linkQ) /\ Queue(bus) /\ Queue(results)
BY DEF LinkOk, Queue

LEMMA EmptyPlaces ==
  ASSUME HostInv, NEW i \in Nat \ DOMAIN pending PROVE Nowhere(i)
BY DEF HostInv, Placed

LEMMA SendPlaces ==
  ASSUME HostInv, NEW S, S \subseteq Socks, NEW f \in FrameType, Send(S, f),
         UNCHANGED <<bus, results>>
  PROVE  /\ PendingOk' /\ linkQ' \in Seq(AskedType) /\ Placed'
         /\ nextId \in Nat /\ nextId \notin DOMAIN pending
         /\ DOMAIN pending' = DOMAIN pending \union {nextId}
         /\ pending'[nextId] = [socks |-> S, frame |-> f]
         /\ \A i \in DOMAIN pending : pending'[i] = pending[i]
<1> DEFINE n == nextId
           m == [id |-> n, cmd |-> f.cmd, addr |-> LinkAddr(f), slot |-> f.slot]
           w == [socks |-> S, frame |-> f]
<1>1. PendingOk /\ LinkOk BY DEF HostInv, TypeOk, HostType
<1>2. n \in Nat /\ n \notin DOMAIN pending BY <1>1, NextIdFree
<1>3. PICK B \in Nat : DOMAIN pending \union {n} \subseteq 0..B BY <1>1, NextIdFree
<1>4. /\ pending' = [i \in DOMAIN pending \union {n} |-> IF i = n THEN w ELSE pending[i]]
      /\ linkQ' = Append(linkQ, m)
  BY DEF Send
<1>5. w \in WaiterType BY DEF WaiterType
<1>6. m \in AskedType /\ m.id = n
  <2>1. LinkAddr(f) \in Int /\ f.cmd \in Cmds /\ f.slot \in Slots \union {0}
    BY DEF FrameType, LinkAddr
  <2> QED BY <1>2, <2>1 DEF AskedType
<1> HIDE DEF n, m, w
<1>7. /\ DOMAIN pending' = DOMAIN pending \union {n} /\ pending'[n] = w
      /\ \A i \in DOMAIN pending : pending'[i] = pending[i]
  BY <1>2, <1>4
<1>8. PendingOk'
  <2>1. pending' \in [DOMAIN pending' -> WaiterType]
    BY <1>1, <1>4, <1>5, <1>7 DEF PendingOk
  <2> QED BY <1>3, <1>7, <2>1 DEF PendingOk
<1>9. linkQ' \in Seq(AskedType) BY <1>1, <1>4, <1>6 DEF LinkOk
<1>10. ASSUME NEW i \in Nat
       PROVE  IF i \in DOMAIN pending' THEN Somewhere(i)' ELSE Nowhere(i)'
  <2>1. /\ m.id # i => Of(linkQ', "id", i) = Of(linkQ, "id", i)
        /\ m.id = i /\ Of(linkQ, "id", i) = {} => One(Of(linkQ', "id", i))
    BY <1>1, <1>4, QueuesAreQueues, PutOf
  <2>2. CASE i = n
    <3>1. Nowhere(i) BY <1>2, <2>2, EmptyPlaces
    <3> QED BY <1>6, <1>7, <2>1, <2>2, <3>1 DEF Nowhere, Somewhere, Asked
  <2>3. CASE i # n
    <3>1. IF i \in DOMAIN pending THEN Somewhere(i) ELSE Nowhere(i)
      BY DEF HostInv, Placed
    <3> QED BY <1>6, <1>7, <2>1, <2>3, <3>1
         DEF Nowhere, Somewhere, Asked, Queued, Answered
  <2> QED BY <2>2, <2>3
<1>11. Placed' BY <1>10 DEF Placed
<1> QED BY <1>2, <1>7, <1>8, <1>9, <1>11 DEF n, w

\* The answer to a command ends its id.
LEMMA AnswerPlaces ==
  ASSUME HostInv, Answer
  PROVE  /\ PendingOk' /\ LinkOk' /\ Placed'
         /\ Head(results) \in ResultType
         /\ Head(results).id \in DOMAIN pending
         /\ DOMAIN pending' = DOMAIN pending \ {Head(results).id}
         /\ \A i \in DOMAIN pending' : pending'[i] = pending[i]
<1> DEFINE r == Head(results)
           n == r.id
<1>1. PendingOk /\ LinkOk BY DEF HostInv, TypeOk, HostType
<1>2. /\ results # <<>> /\ results' = Tail(results)
      /\ pending' = Restrict(pending, DOMAIN pending \ {n})
      /\ linkQ' = linkQ /\ bus' = bus /\ ver' = ver
  BY DEF Answer, Waiter, cpuVars
<1>3. r \in ResultType BY <1>1, <1>2 DEF LinkOk
<1>4. n \in Nat BY <1>3 DEF ResultType
<1>5. Queue(results) BY <1>1, QueuesAreQueues
<1>6. \A i : /\ r.id = i => Of(results, "id", i) # {}
             /\ r.id = i /\ One(Of(results, "id", i)) => Of(results', "id", i) = {}
             /\ Of(results, "id", i) = {} => Of(results', "id", i) = {}
             /\ r.id # i /\ One(Of(results, "id", i)) => One(Of(results', "id", i))
  BY <1>2, <1>5, TakeOf
<1> HIDE DEF n
<1>7. r.id = n BY DEF n
<1> HIDE DEF r
<1>8. n \in DOMAIN pending
  <2>1. Of(results, "id", n) # {} BY <1>6, <1>7
  <2>2. ~Nowhere(n) BY <2>1 DEF Nowhere
  <2> QED BY <1>4, <2>2, EmptyPlaces
<1>9. /\ DOMAIN pending' = DOMAIN pending \ {n}
      /\ \A i \in DOMAIN pending' : pending'[i] = pending[i]
      /\ pending' \in [DOMAIN pending' -> WaiterType]
  BY <1>1, <1>2 DEF Restrict, PendingOk
<1>10. PendingOk'
  <2>1. \A B : DOMAIN pending \subseteq 0..B => DOMAIN pending' \subseteq 0..B BY <1>9
  <2> QED BY <1>1, <1>9, <2>1 DEF PendingOk
<1>11. LinkOk' BY <1>1, <1>2 DEF LinkOk
<1>12. ASSUME NEW i \in Nat
       PROVE  IF i \in DOMAIN pending' THEN Somewhere(i)' ELSE Nowhere(i)'
  <2>1. IF i \in DOMAIN pending THEN Somewhere(i) ELSE Nowhere(i)
    BY DEF HostInv, Placed
  <2>2. Of(linkQ', "id", i) = Of(linkQ, "id", i) /\ Of(bus', "id", i) = Of(bus, "id", i)
    BY <1>2
  <2>3. CASE i = n
    <3>1. Of(results, "id", i) # {} BY <1>6, <1>7, <2>3
    <3>2. Answered(i) BY <1>8, <2>1, <2>3, <3>1 DEF Somewhere, Asked, Queued
    <3> QED BY <1>6, <1>7, <1>9, <2>2, <2>3, <3>2 DEF Answered, Nowhere
  <2>4. CASE i # n
    BY <1>6, <1>7, <1>9, <2>1, <2>2, <2>4
    DEF Nowhere, Somewhere, Asked, Queued, Answered
  <2> QED BY <2>3, <2>4
<1>13. Placed' BY <1>12 DEF Placed
<1> QED BY <1>3, <1>8, <1>9, <1>10, <1>11, <1>13 DEF r, n

\* The head of one queue at the end of the next: every id is where it was or
\* one queue further.
Hands(q, b, q2, b2, i) ==
  /\ /\ Of(q, "id", i) = {} /\ Of(b, "id", i) = {}
     => Of(q2, "id", i) = {} /\ Of(b2, "id", i) = {}
  /\ One(Of(q, "id", i)) /\ Of(b, "id", i) = {}
     => \/ One(Of(q2, "id", i)) /\ Of(b2, "id", i) = {}
        \/ Of(q2, "id", i) = {} /\ One(Of(b2, "id", i))
  /\ Of(q, "id", i) = {} /\ One(Of(b, "id", i))
     => Of(q2, "id", i) = {} /\ One(Of(b2, "id", i))

LEMMA Handed ==
  ASSUME NEW q, NEW b, Queue(q), Queue(b), q # <<>>, NEW m, m.id = Head(q).id,
         NEW i
  PROVE  Hands(q, b, Tail(q), Append(b, m), i)
<1> DEFINE h == Head(q)
<1>1. /\ h.id = i => Of(q, "id", i) # {}
      /\ h.id = i /\ One(Of(q, "id", i)) => Of(Tail(q), "id", i) = {}
      /\ Of(q, "id", i) = {} => Of(Tail(q), "id", i) = {}
      /\ h.id # i /\ One(Of(q, "id", i)) => One(Of(Tail(q), "id", i))
  BY TakeOf
<1>2. /\ m.id # i => Of(Append(b, m), "id", i) = Of(b, "id", i)
      /\ m.id = i /\ Of(b, "id", i) = {} => One(Of(Append(b, m), "id", i))
  BY PutOf
<1> QED BY <1>1, <1>2 DEF Hands


\* What the CPU board does with a command: it queues it for the bus, or it
\* answers it, HLT at once and the others in turn.
ToBus == /\ linkQ # <<>> /\ linkQ' = Tail(linkQ)
         /\ bus' = Append(bus, Head(linkQ)) /\ results' = results
Halts(m) == /\ linkQ # <<>> /\ linkQ' = Tail(linkQ) /\ bus' = bus
            /\ results' = Append(results, m)
            /\ Head(linkQ).cmd = "halt" /\ m.id = Head(linkQ).id
Serves(m) == /\ bus # <<>> /\ bus' = Tail(bus) /\ linkQ' = linkQ
             /\ results' = Append(results, m) /\ m.id = Head(bus).id
             /\ m.ok => m.byteAddr = PanelAddrToByteAddr(Head(bus).addr)

LEMMA BoardSteps ==
  ASSUME LinkOk, CpuTakes \/ ServeBus \/ FailBus
  PROVE  /\ UNCHANGED <<sock, pending, sent>>
         /\ ver' \in Int /\ ver' >= ver
         /\ ToBus \/ \E m \in ResultType : m.ver = ver' /\ (Halts(m) \/ Serves(m))
<1>1. UNCHANGED <<sock, pending, sent>>
  BY DEF CpuTakes, ServeBus, FailBus
<1>2. ASSUME NEW q \in AskedType, NEW ok \in BOOLEAN, NEW at \in Int, ver' \in Int
      PROVE  /\ Result(q, ok, at) \in ResultType /\ Result(q, ok, at).id = q.id
             /\ Result(q, ok, at).ok = ok /\ Result(q, ok, at).byteAddr = at
             /\ Result(q, ok, at).ver = ver'
  BY <1>2 DEF Result, ResultType, AskedType
<1>3. /\ linkQ # <<>> => Head(linkQ) \in AskedType
      /\ bus # <<>> => Head(bus) \in AskedType
      /\ ver \in Int
  BY DEF LinkOk
<1>4. CASE CpuTakes
  <2>1. linkQ # <<>> /\ linkQ' = Tail(linkQ) BY <1>4 DEF CpuTakes
  <2>2. CASE Head(linkQ).cmd = "halt"
    <3> DEFINE m == Result(Head(linkQ), TRUE, 0)
    <3>1. bus' = bus /\ ver' = ver /\ results' = Append(results, m)
      BY <1>4, <2>2 DEF CpuTakes
    <3>2. Head(linkQ) \in AskedType /\ ver' \in Int BY <1>3, <2>1, <3>1
    <3>3. m \in ResultType /\ m.id = Head(linkQ).id /\ m.ver = ver'
      BY <3>2 DEF Result, ResultType, AskedType
    <3> HIDE DEF m
    <3> QED BY <1>1, <1>3, <2>1, <2>2, <3>1, <3>3 DEF Halts
  <2>3. CASE Head(linkQ).cmd # "halt"
    BY <1>1, <1>3, <1>4, <2>1, <2>3 DEF CpuTakes, ToBus
  <2> QED BY <2>2, <2>3
<1>5. CASE ServeBus \/ FailBus
  <2> DEFINE h == Head(bus)
  <2>1. bus # <<>> /\ bus' = Tail(bus) /\ linkQ' = linkQ BY <1>5 DEF ServeBus, FailBus
  <2>2. h \in AskedType /\ h.addr \in Int BY <1>3, <2>1 DEF AskedType
  <2>3. ver' \in Int /\ ver' >= ver
    <3>1. ver' = ver \/ ver' = ver + 1
      BY <1>5 DEF ServeBus, FailBus, Served, cpuVars
    <3> QED BY <1>3, <3>1
  <2>4. PanelAddrToByteAddr(h.addr) \in Int BY <2>2 DEF PanelAddrToByteAddr
  <2>5. PICK ok \in BOOLEAN, at \in Int :
          /\ results' = Append(results, Result(h, ok, at))
          /\ ok => at = PanelAddrToByteAddr(h.addr)
    <3>1. CASE ServeBus BY <2>4, <3>1 DEF ServeBus
    <3>2. CASE FailBus
      <4>1. results' = Append(results, Result(h, FALSE, 0)) BY <3>2 DEF FailBus
      <4>2. FALSE \in BOOLEAN /\ 0 \in Int /\ ~FALSE OBVIOUS
      <4> HIDE DEF h
      <4> QED BY ONLY <4>1, <4>2, Zenon
    <3> QED BY <1>5, <3>1, <3>2
  <2> DEFINE m == Result(h, ok, at)
  <2>6. /\ m \in ResultType /\ m.id = h.id /\ m.ver = ver'
        /\ m.ok = ok /\ m.byteAddr = at
    BY <1>2, <2>2, <2>3
  <2> HIDE DEF m
  <2>7. results' = Append(results, m) BY <2>5 DEF m
  <2>8. Serves(m) BY <2>1, <2>5, <2>6, <2>7 DEF Serves
  <2> QED BY <1>1, <2>3, <2>6, <2>8
<1> QED BY <1>4, <1>5

LEMMA BoardPlaces ==
  ASSUME HostInv, CpuTakes \/ ServeBus \/ FailBus
  PROVE  LinkOk' /\ Placed'
<1>1. LinkOk /\ Queue(linkQ) /\ Queue(bus) /\ Queue(results)
  BY QueuesAreQueues DEF HostInv, TypeOk, HostType
<1>2. UNCHANGED <<sock, pending, sent>> /\ ver' \in Int
  BY <1>1, BoardSteps
<1>3. ASSUME ToBus \/ \E m \in ResultType : Halts(m) \/ Serves(m),
             \A i : (Nowhere(i) => Nowhere(i)') /\ (Somewhere(i) => Somewhere(i)'),
             linkQ' \in Seq(AskedType), bus' \in Seq(AskedType),
             results' \in Seq(ResultType)
      PROVE  LinkOk' /\ Placed'
  BY <1>2, <1>3 DEF LinkOk, Placed, HostInv
<1>4. CASE ToBus
  <2>1. linkQ # <<>> /\ Head(linkQ) \in AskedType BY <1>1, <1>4 DEF ToBus, LinkOk
  <2>2. /\ linkQ' \in Seq(AskedType) /\ bus' \in Seq(AskedType)
        /\ results' \in Seq(ResultType)
    BY <1>1, <1>4, <2>1 DEF ToBus, LinkOk
  <2>3. ASSUME NEW i
        PROVE  (Nowhere(i) => Nowhere(i)') /\ (Somewhere(i) => Somewhere(i)')
    <3>1. Hands(linkQ, bus, linkQ', bus', i) BY <1>1, <1>4, <2>1, Handed DEF ToBus
    <3>2. Of(results', "id", i) = Of(results, "id", i) BY <1>4 DEF ToBus
    <3> QED BY <3>1, <3>2 DEF Hands, Nowhere, Somewhere, Asked, Queued, Answered
  <2> QED BY <1>3, <1>4, <2>2, <2>3
<1>5. ASSUME NEW m \in ResultType, Halts(m) PROVE LinkOk' /\ Placed'
  <2>1. linkQ # <<>> /\ m.id = Head(linkQ).id BY <1>5 DEF Halts
  <2>2. /\ linkQ' \in Seq(AskedType) /\ bus' \in Seq(AskedType)
        /\ results' \in Seq(ResultType)
    BY <1>1, <1>5, <2>1 DEF Halts, LinkOk
  <2>3. ASSUME NEW i
        PROVE  (Nowhere(i) => Nowhere(i)') /\ (Somewhere(i) => Somewhere(i)')
    <3>1. Hands(linkQ, results, linkQ', results', i) BY <1>1, <1>5, <2>1, Handed DEF Halts
    <3>2. Of(bus', "id", i) = Of(bus, "id", i) BY <1>5 DEF Halts
    <3> QED BY <3>1, <3>2 DEF Hands, Nowhere, Somewhere, Asked, Queued, Answered
  <2> QED BY <1>3, <1>5, <2>2, <2>3
<1>6. ASSUME NEW m \in ResultType, Serves(m) PROVE LinkOk' /\ Placed'
  <2>1. bus # <<>> /\ m.id = Head(bus).id BY <1>6 DEF Serves
  <2>2. /\ linkQ' \in Seq(AskedType) /\ bus' \in Seq(AskedType)
        /\ results' \in Seq(ResultType)
    BY <1>1, <1>6, <2>1 DEF Serves, LinkOk
  <2>3. ASSUME NEW i
        PROVE  (Nowhere(i) => Nowhere(i)') /\ (Somewhere(i) => Somewhere(i)')
    <3>1. Hands(bus, results, bus', results', i) BY <1>1, <1>6, <2>1, Handed DEF Serves
    <3>2. Of(linkQ', "id", i) = Of(linkQ, "id", i) BY <1>6 DEF Serves
    <3> QED BY <3>1, <3>2 DEF Hands, Nowhere, Somewhere, Asked, Queued, Answered
  <2> QED BY <1>3, <1>6, <2>2, <2>3
<1> QED BY <1>1, <1>4, <1>5, <1>6, BoardSteps


-----------------------------------------------------------------------------
(* The steps of the host keep HostInv.                                     *)

LEMMA SendWaits ==
  ASSUME HostInv, NEW S, S \subseteq Socks, NEW f \in FrameType, Send(S, f),
         UNCHANGED <<bus, results>>, NEW t
  PROVE  /\ t \in S => Waits(t)' = Waits(t) \union {nextId}
         /\ t \notin S => Waits(t)' = Waits(t)
<1> DEFINE n == nextId
<1>1. /\ n \notin DOMAIN pending
      /\ DOMAIN pending' = DOMAIN pending \union {n}
      /\ pending'[n] = [socks |-> S, frame |-> f]
      /\ \A i \in DOMAIN pending : pending'[i] = pending[i]
  BY SendPlaces
<1> HIDE DEF n
<1>2. pending'[n].socks = S BY <1>1
<1> QED BY <1>1, <1>2 DEF Waits, n

LEMMA AnswerWaits ==
  ASSUME HostInv, Answer, NEW t
  PROVE  Waits(t)' = Waits(t) \ {Head(results).id}
BY AnswerPlaces DEF Waits

LEMMA SocketType ==
  ASSUME NEW k \in SockType
  PROVE  /\ k = [in |-> k.in, busy |-> k.busy, out |-> k.out, open |-> k.open]
         /\ k.in \in Seq(FrameType) /\ k.busy \in BOOLEAN
         /\ k.out \in Seq(ReplyType) /\ k.open \in BOOLEAN
BY DEF SockType

\* A frame that is taken from the buffer is refused, or sent.
LEMMA PumpSteps ==
  ASSUME HostInv, NEW s \in Socks, Pump(s)
  PROVE  /\ ~sock[s].busy /\ sock[s].in # <<>> /\ Head(sock[s].in) \in FrameType
         /\ sock[s] \in SockType /\ sock' \in [Socks -> SockType]
         /\ sock'[s].in = Tail(sock[s].in) /\ sock'[s].open = sock[s].open
         /\ \A t \in Socks \ {s} : sock'[t] = sock[t]
         /\ \/ /\ sock'[s].busy = sock[s].busy /\ UNCHANGED linkVars
               /\ sock'[s].out =
                    IF sock[s].open
                      THEN Append(sock[s].out, Reply(Head(sock[s].in), "NG", 0, 0))
                      ELSE sock[s].out
            \/ /\ sock'[s].busy /\ sock'[s].out = sock[s].out
               /\ Send({s}, Head(sock[s].in)) /\ UNCHANGED <<bus, results>>
         /\ UNCHANGED <<cpuVars, sent, events>>
<1> DEFINE f == Head(sock[s].in)
           g == Reply(f, "NG", 0, 0)
           took == [sock[s] EXCEPT !.in = Tail(@)]
           answered == IF took.open THEN [took EXCEPT !.out = Append(@, g)] ELSE took
           busy == [took EXCEPT !.busy = TRUE]
<1>1. sock \in [Socks -> SockType] BY DEF HostInv, TypeOk, HostType
<1>2. ~sock[s].busy /\ sock[s].in # <<>> BY DEF Pump
<1>3. sock[s] \in SockType /\ sock[s].in \in Seq(FrameType) BY <1>1 DEF SockType
<1>4. f \in FrameType BY <1>2, <1>3
<1>5. g \in ReplyType
  <2>1. f.tag \in Nat /\ f.count \in Int BY <1>4 DEF FrameType
  <2> QED BY <2>1 DEF Reply, ReplyType
<1>6. \/ sock' = [sock EXCEPT ![s] = answered] /\ UNCHANGED linkVars
      \/ /\ sock' = [sock EXCEPT ![s] = busy] /\ Send({s}, f)
         /\ UNCHANGED <<bus, results>>
  BY DEF Pump
<1>7. UNCHANGED <<cpuVars, sent, events>> BY DEF Pump
<1> HIDE DEF g
<1>8. /\ took \in SockType /\ took.in = Tail(sock[s].in) /\ took.busy = sock[s].busy
      /\ took.out = sock[s].out /\ took.open = sock[s].open
  <2>1. Tail(sock[s].in) \in Seq(FrameType) BY <1>2, <1>3
  <2>2. took = [sock[s] EXCEPT !.in = Tail(sock[s].in)] OBVIOUS
  <2> HIDE DEF took
  <2> QED BY <1>3, <2>1, <2>2 DEF SockType
<1> HIDE DEF took
<1>9. /\ busy \in SockType /\ busy.in = took.in /\ busy.busy
      /\ busy.out = took.out /\ busy.open = took.open
  BY <1>8 DEF SockType
<1>10. /\ answered \in SockType /\ answered.in = took.in /\ answered.busy = took.busy
       /\ answered.out = (IF took.open THEN Append(took.out, g) ELSE took.out)
       /\ answered.open = took.open
  <2>1. Append(took.out, g) \in Seq(ReplyType) BY <1>5, <1>8 DEF SockType
  <2> QED BY <1>8, <2>1 DEF SockType
<1> HIDE DEF busy, answered, f
<1>11. CASE sock' = [sock EXCEPT ![s] = answered] /\ UNCHANGED linkVars
  BY <1>1, <1>2, <1>3, <1>4, <1>7, <1>8, <1>10, <1>11 DEF f, g
<1>12. CASE /\ sock' = [sock EXCEPT ![s] = busy] /\ Send({s}, f)
            /\ UNCHANGED <<bus, results>>
  BY <1>1, <1>2, <1>3, <1>4, <1>7, <1>8, <1>9, <1>12 DEF f
<1> QED BY <1>6, <1>11, <1>12

\* Nothing has come on a connection the client has not had yet.
LEMMA UsedSock ==
  ASSUME HostInv, NEW s \in Socks, sock[s] # NoSock PROVE ~(s > panel.conn)
BY DEF HostInv, Unused

LEMMA PumpHost ==
  ASSUME HostInv, NEW s \in Socks, Pump(s), UNCHANGED <<panel, viewVars>>
  PROVE  HostInv'
<1>1. HostType /\ panel \in PanelType /\ PagesOk /\ Placed /\ Waiting /\ Unused
  BY DEF HostInv, TypeOk
<1>2. /\ panel' = panel /\ view' = view /\ toPanel' = toPanel /\ toView' = toView
      /\ ver' = ver /\ sent' = sent
  BY DEF Pump, viewVars, cpuVars
<1>3. PagesOk' BY <1>1, <1>2 DEF PagesOk
<1>4. /\ sock' \in [Socks -> SockType] /\ sock[s].in # <<>> /\ ~sock[s].busy
      /\ \A t \in Socks \ {s} : sock'[t] = sock[t]
      /\ Head(sock[s].in) \in FrameType
  BY PumpSteps
<1>5. Unused'
  <2>1. sock[s] # NoSock BY <1>4 DEF NoSock
  <2>2. ~(s > panel.conn) BY <2>1, UsedSock
  <2> QED BY <1>1, <1>2, <1>4, <2>2 DEF Unused
<1>6. CASE UNCHANGED linkVars /\ sock'[s].busy = sock[s].busy
  <2>1. PendingOk' /\ LinkOk' /\ Placed'
    BY <1>1, <1>2, <1>6 DEF linkVars, HostType, PendingOk, LinkOk, Placed, Nowhere,
       Somewhere, Asked, Queued, Answered
  <2>2. \A t : Waits(t)' = Waits(t) BY <1>6 DEF linkVars, Waits
  <2>3. Waiting' BY <1>1, <1>4, <1>6, <2>2 DEF Waiting
  <2> QED BY <1>1, <1>2, <1>3, <1>4, <1>5, <2>1, <2>3 DEF HostInv, TypeOk, HostType
<1>7. CASE Send({s}, Head(sock[s].in)) /\ UNCHANGED <<bus, results>> /\ sock'[s].busy
  <2>1. {s} \subseteq Socks OBVIOUS
  <2>2. PendingOk' /\ Placed' /\ linkQ' \in Seq(AskedType)
    BY <1>4, <1>7, <2>1, SendPlaces
  <2>3. LinkOk' BY <1>1, <1>2, <1>7, <2>2 DEF HostType, LinkOk
  <2>4. Waits(s)' = Waits(s) \union {nextId} BY <1>4, <1>7, <2>1, SendWaits
  <2>5. \A t \in Socks \ {s} : Waits(t)' = Waits(t) BY <1>4, <1>7, <2>1, SendWaits
  <2>6. Waits(s) = {} BY <1>1, <1>4 DEF Waiting
  <2>7. Waiting'
    <3>1. ASSUME NEW t \in Socks, NEW i \in Waits(t)'
          PROVE  sock'[t].busy /\ \A k \in Waits(t)' : k = i
      <4>1. CASE t = s BY <1>7, <2>4, <2>6, <3>1, <4>1
      <4>2. CASE t # s BY <1>1, <1>4, <2>5, <3>1, <4>2 DEF Waiting
      <4> QED BY <4>1, <4>2
    <3> QED BY <3>1 DEF Waiting
  <2> QED BY <1>1, <1>2, <1>3, <1>4, <1>5, <2>2, <2>3, <2>7 DEF HostInv, TypeOk, HostType
<1> QED BY <1>6, <1>7, PumpSteps


\* What the end of dispatch() does to the connections.
LEMMA AnswerSteps ==
  ASSUME HostInv, Answer
  PROVE  LET r == Head(results)
             w == pending[r.id]
             reply == Reply(w.frame, IF r.ok THEN "OK" ELSE "NG", r.byteAddr, r.ver)
         IN /\ w \in WaiterType /\ reply \in ReplyType
            /\ \A s \in Socks :
                 /\ s \in w.socks <=> r.id \in Waits(s)
                 /\ s \notin w.socks => sock'[s] = sock[s]
                 /\ s \in w.socks =>
                      /\ sock[s].busy /\ ~sock'[s].busy /\ Waits(s)' = {}
                      /\ sock'[s].in = sock[s].in /\ sock'[s].open = sock[s].open
                      /\ sock'[s].out = IF sock[s].open THEN Append(sock[s].out, reply)
                                                        ELSE sock[s].out
            /\ sock' \in [Socks -> SockType]
            /\ results' = Tail(results)
            /\ UNCHANGED <<linkQ, bus, cpuVars, sent, events>>
<1> DEFINE r == Head(results)
           w == pending[r.id]
           reply == Reply(w.frame, IF r.ok THEN "OK" ELSE "NG", r.byteAddr, r.ver)
           ended(s) == [sock[s] EXCEPT !.busy = FALSE,
                          !.out = IF sock[s].open THEN Append(@, reply) ELSE @]
<1>1. /\ sock \in [Socks -> SockType] /\ pending \in [DOMAIN pending -> WaiterType]
      /\ Waiting
  BY DEF HostInv, TypeOk, HostType, PendingOk
<1>2. r \in ResultType /\ r.id \in DOMAIN pending /\ w \in WaiterType
  BY <1>1, AnswerPlaces
<1>3. sock' = [s \in Socks |-> IF s \notin w.socks THEN sock[s] ELSE ended(s)]
  BY DEF Answer, Waiter
<1>4. UNCHANGED <<linkQ, bus, cpuVars, sent, events>> /\ results' = Tail(results)
  BY DEF Answer
<1>5. reply \in ReplyType
  <2>1. w.frame \in FrameType BY <1>2 DEF WaiterType
  <2>2. w.frame.tag \in Nat /\ w.frame.count \in Int BY <2>1 DEF FrameType
  <2>3. r.byteAddr \in Int /\ r.ver \in Int BY <1>2 DEF ResultType
  <2> HIDE DEF w, r
  <2> QED BY <2>2, <2>3 DEF Reply, ReplyType
<1> HIDE DEF reply
<1>6. ASSUME NEW s \in Socks
      PROVE  /\ ended(s) \in SockType /\ ~ended(s).busy /\ ended(s).in = sock[s].in
             /\ ended(s).open = sock[s].open
             /\ ended(s).out = IF sock[s].open THEN Append(sock[s].out, reply)
                                               ELSE sock[s].out
  <2> DEFINE k == sock[s]
             out == IF k.open THEN Append(k.out, reply) ELSE k.out
  <2>1. k \in SockType /\ k.out \in Seq(ReplyType) BY <1>1 DEF SockType
  <2>2. out \in Seq(ReplyType) BY <1>5, <2>1
  <2>3. ended(s) = [k EXCEPT !.busy = FALSE, !.out = out] BY <2>1 DEF SockType
  <2> HIDE DEF k, out, ended
  <2>4. /\ ended(s) \in SockType /\ ~ended(s).busy /\ ended(s).in = k.in
        /\ ended(s).open = k.open /\ ended(s).out = out
    BY <2>1, <2>2, <2>3 DEF SockType
  <2> QED BY <2>4 DEF k, out
<1>7. \A s \in Socks : s \in w.socks <=> r.id \in Waits(s)
  BY <1>2 DEF Waits
<1> HIDE DEF ended, w
<1>8. ASSUME NEW s \in Socks, s \in w.socks PROVE sock[s].busy /\ Waits(s)' = {}
  <2>1. r.id \in Waits(s) BY <1>7, <1>8
  <2>2. sock[s].busy /\ \A k \in Waits(s) : k = r.id BY <1>1, <2>1 DEF Waiting
  <2> QED BY <2>2, AnswerWaits
<1>9. sock' \in [Socks -> SockType] BY <1>1, <1>3, <1>6
<1>10. \A s \in Socks : sock'[s] = IF s \notin w.socks THEN sock[s] ELSE ended(s)
  BY <1>3
<1> HIDE DEF r
<1>11. \A s \in Socks :
         /\ s \notin w.socks => sock'[s] = sock[s]
         /\ s \in w.socks =>
              /\ sock[s].busy /\ ~sock'[s].busy /\ Waits(s)' = {}
              /\ sock'[s].in = sock[s].in /\ sock'[s].open = sock[s].open
              /\ sock'[s].out = IF sock[s].open THEN Append(sock[s].out, reply)
                                                ELSE sock[s].out
  BY <1>6, <1>8, <1>10
<1> QED BY <1>2, <1>4, <1>5, <1>7, <1>9, <1>11 DEF r, w, reply

LEMMA AnswerHost ==
  ASSUME HostInv, Answer, UNCHANGED <<panel, viewVars>>
  PROVE  HostInv'
<1> DEFINE n == Head(results).id
           S == pending[n].socks
<1>1. HostType /\ panel \in PanelType /\ PagesOk /\ Placed /\ Waiting /\ Unused
  BY DEF HostInv, TypeOk
<1>2. /\ panel' = panel /\ view' = view /\ toPanel' = toPanel /\ toView' = toView
      /\ ver' = ver /\ sent' = sent
  BY AnswerSteps DEF viewVars, cpuVars
<1>3. PagesOk' BY <1>1, <1>2 DEF PagesOk
<1>4. /\ sock' \in [Socks -> SockType]
      /\ \A s \in Socks \ S : sock'[s] = sock[s]
      /\ \A s \in Socks : s \in S => sock[s].busy /\ Waits(s)' = {}
  BY AnswerSteps
<1>5. PendingOk' /\ LinkOk' /\ Placed' BY AnswerPlaces
<1>6. \A s : Waits(s)' \subseteq Waits(s) BY AnswerWaits
<1> HIDE DEF S
<1>7. Waiting' BY <1>1, <1>4, <1>6 DEF Waiting
<1>8. Unused'
  <2>1. ASSUME NEW s \in Socks, s > panel.conn PROVE sock'[s] = NoSock
    <3>1. sock[s] = NoSock BY <1>1, <2>1 DEF Unused
    <3>2. ~sock[s].busy BY <3>1 DEF NoSock
    <3> QED BY <1>4, <3>1, <3>2
  <2> QED BY <1>2, <2>1 DEF Unused
<1> QED BY <1>1, <1>2, <1>3, <1>4, <1>5, <1>7, <1>8 DEF HostInv, TypeOk, HostType

\* The steps that leave the connections and who waits alone.
LEMMA BoardHost ==
  ASSUME HostInv, CpuTakes \/ ServeBus \/ FailBus, UNCHANGED <<panel, viewVars>>
  PROVE  HostInv'
<1>1. HostType /\ panel \in PanelType /\ PagesOk /\ Waiting /\ Unused
  BY DEF HostInv, TypeOk
<1>2. UNCHANGED <<sock, pending, sent>> /\ LinkOk' /\ Placed'
  BY <1>1, BoardSteps, BoardPlaces DEF HostType
<1>3. UNCHANGED <<panel, view, toPanel, toView>> BY DEF viewVars
<1>4. PendingOk' BY <1>1, <1>2 DEF HostType, PendingOk
<1>5. \A s : Waits(s)' = Waits(s) BY <1>2 DEF Waits
<1> QED BY <1>1, <1>2, <1>3, <1>4, <1>5
     DEF HostInv, TypeOk, HostType, PagesOk, Waiting, Unused

\* A command of the console waits for nothing a connection waits for.
LEMMA ConsoleSteps ==
  ASSUME HostInv, ConsoleHalts
  PROVE  /\ \E f \in FrameType : Send({}, f) /\ f.cmd = "halt"
         /\ UNCHANGED <<sock, bus, results, cpuVars, sent>>
         /\ \A t : Waits(t)' = Waits(t)
<1> DEFINE f == [cmd |-> "halt", tag |-> 0, byteAddr |-> 0, count |-> 0, slot |-> 0]
<1>1. f \in FrameType /\ f.cmd = "halt" BY DEF FrameType, Cmds
<1>2. Send({}, f) /\ UNCHANGED <<sock, bus, results, cpuVars, sent>>
  BY DEF ConsoleHalts
<1> HIDE DEF f
<1>3. \A t : Waits(t)' = Waits(t)
  <2> DEFINE nobody == {}
  <2>1. nobody \subseteq Socks /\ \A t : t \notin nobody OBVIOUS
  <2>2. Send(nobody, f) /\ UNCHANGED <<bus, results>> BY <1>2
  <2> HIDE DEF nobody
  <2> QED BY <1>1, <2>1, <2>2, SendWaits
<1> QED BY <1>1, <1>2, <1>3

LEMMA ConsoleHost ==
  ASSUME HostInv, ConsoleHalts, UNCHANGED <<panel, viewVars>>
  PROVE  HostInv'
<1>1. HostType /\ panel \in PanelType /\ PagesOk /\ Waiting /\ Unused
  BY DEF HostInv, TypeOk
<1>2. PICK f \in FrameType : Send({}, f) BY ConsoleSteps
<1>3. UNCHANGED <<sock, bus, results, cpuVars, sent>> /\ \A t : Waits(t)' = Waits(t)
  BY ConsoleSteps
<1>4. UNCHANGED <<panel, view, toPanel, toView>> BY DEF viewVars
<1>5. PendingOk' /\ linkQ' \in Seq(AskedType) /\ Placed'
  <2>1. {} \subseteq Socks OBVIOUS
  <2> QED BY <1>2, <1>3, <2>1, SendPlaces
<1>6. LinkOk' BY <1>1, <1>3, <1>5 DEF HostType, LinkOk, cpuVars
<1> QED BY <1>1, <1>3, <1>4, <1>5, <1>6
     DEF HostInv, TypeOk, HostType, PagesOk, Waiting, Unused


-----------------------------------------------------------------------------
(* The steps of the client and of the other PC keep HostInv.               *)

LEMMA JobType ==
  ASSUME panel \in PanelType, panel.job # Idle
  PROVE  /\ panel.job \in WorkType /\ panel.job.pane \in Panes
         /\ panel.job.win \in WinType /\ panel.job.since \in Int
         /\ panel.job.win.lo \in Int /\ panel.job.win.hi \in Int
         /\ JobFrame \in FrameType
<1> DEFINE j == panel.job
<1>1. j \in WorkType BY DEF PanelType
<1>2. j.pane \in Panes /\ j.win \in WinType /\ j.since \in Int BY <1>1 DEF WorkType
<1>3. j.win.lo \in Int /\ j.win.hi \in Int BY <1>2 DEF WinType
<1>4. j.win.lo * 2 \in Int /\ (j.win.hi - j.win.lo + 1) * 2 \in Int BY <1>3
<1>5. JobFrame = ReadFrame(0, j.win.lo * 2, (j.win.hi - j.win.lo + 1) * 2)
  BY DEF JobFrame
<1> HIDE DEF j
<1>6. JobFrame \in FrameType BY <1>4, <1>5 DEF ReadFrame, FrameType, Cmds
<1> QED BY <1>1, <1>2, <1>3, <1>6 DEF j

LEMMA ConnOrder ==
  /\ \A s, t \in Socks : s > t => s # t /\ s # 0
  /\ \A s, t, u \in Socks : s > t /\ t > u => s > u
<1>1. \A s \in Socks : s \in Nat BY Numbers
<1>2. \A s, t \in Nat : s > t => s # t /\ s # 0 OBVIOUS
<1>3. \A s, t, u \in Nat : s > t /\ t > u => s > u OBVIOUS
<1> QED BY <1>1, <1>2, <1>3

LEMMA NextConnIs ==
  ASSUME panel.conn \in Socks, NEW s \in NextConn
  PROVE  /\ s \in Socks /\ s > panel.conn
         /\ \A t \in Socks : t > panel.conn => s <= t
<1> DEFINE S == {t \in Socks : t > panel.conn}
<1>1. S # {} /\ s = CHOOSE u \in Socks : u > panel.conn
                            /\ \A t \in Socks : t > panel.conn => u <= t
  BY DEF NextConn, Conn
<1>2. S \subseteq Nat BY Numbers
<1> HIDE DEF S
<1>3. PICK u \in S : \A t \in S : u <= t BY <1>1, <1>2, Least
<1>4. \E v \in Socks : v > panel.conn /\ \A t \in Socks : t > panel.conn => v <= t
  BY <1>3 DEF S
<1> QED BY <1>1, <1>4

\* A frame goes to the connection there is, or to the next one.
LEMMA AskSteps ==
  ASSUME HostInv, AskHost
  PROVE  LET s == panel'.conn
             k == IF Connected THEN sock[s] ELSE NewSock
         IN /\ panel.job # Idle /\ ~panel.job.asked
            /\ s \in Socks /\ s # 0
            /\ IF Connected THEN s = panel.conn
               ELSE s > panel.conn /\ \A t \in Socks : t > panel.conn => s <= t
            /\ sock'[s].in = Append(k.in, JobFrame) /\ sock'[s].busy = k.busy
            /\ sock'[s].out = k.out /\ sock'[s].open = k.open
            /\ \A t \in Socks \ {s} : sock'[t] = sock[t]
            /\ sock' \in [Socks -> SockType]
            /\ panel' \in PanelType /\ panel'.state = panel.state
            /\ panel'.job = [panel.job EXCEPT !.asked = TRUE]
            /\ panel'.queued = panel.queued /\ panel'.opening = panel.opening
            /\ UNCHANGED <<linkVars, cpuVars, sent, events, viewVars>>
<1>1. /\ sock \in [Socks -> SockType] /\ panel \in PanelType /\ panel.conn \in Socks
  BY DEF HostInv, TypeOk, HostType, PanelType
<1>2. panel.job # Idle /\ ~panel.job.asked
      /\ UNCHANGED <<linkVars, cpuVars, sent, events, viewVars>>
  BY DEF AskHost
<1>3. JobFrame \in FrameType /\ panel.job \in WorkType BY <1>1, <1>2, JobType
<1> DEFINE k(s) == IF Connected THEN sock[s] ELSE NewSock
<1>4. PICK s \in (IF Connected THEN {Conn} ELSE NextConn) :
        /\ sock' = [sock EXCEPT ![s] = [k(s) EXCEPT !.in = Append(k(s).in, JobFrame)]]
        /\ panel' = [panel EXCEPT !.job.asked = TRUE, !.conn = s]
  BY DEF AskHost, JobFrame
<1>5. /\ s \in Socks
      /\ IF Connected THEN s = panel.conn
         ELSE s > panel.conn /\ \A t \in Socks : t > panel.conn => s <= t
  BY <1>1, <1>4, NextConnIs DEF Conn
<1>6. s # 0
  <2>1. CASE Connected BY <1>5, <2>1 DEF Connected, Conn
  <2>2. CASE ~Connected BY <1>1, <1>5, <2>2, ConnOrder
  <2> QED BY <2>1, <2>2
<1>7. k(s) \in SockType
  <2>1. <<>> \in Seq(FrameType) /\ <<>> \in Seq(ReplyType) OBVIOUS
  <2>2. NoSock \in SockType BY <2>1 DEF NoSock, SockType
  <2>3. NewSock \in SockType BY <2>2 DEF NewSock, SockType
  <2> QED BY <1>1, <1>5, <2>3
<1> DEFINE new == [k(s) EXCEPT !.in = Append(k(s).in, JobFrame)]
<1>8. sock' = [sock EXCEPT ![s] = new] BY <1>4
<1> HIDE DEF k
<1>9. /\ new \in SockType /\ new.in = Append(k(s).in, JobFrame) /\ new.busy = k(s).busy
      /\ new.out = k(s).out /\ new.open = k(s).open
  <2>1. Append(k(s).in, JobFrame) \in Seq(FrameType) BY <1>3, <1>7 DEF SockType
  <2> QED BY <1>7, <2>1 DEF SockType
<1>10. /\ panel' \in PanelType /\ panel'.state = panel.state /\ panel'.conn = s
       /\ panel'.job = [panel.job EXCEPT !.asked = TRUE]
       /\ panel'.queued = panel.queued /\ panel'.opening = panel.opening
  <2> DEFINE j == [panel.job EXCEPT !.asked = TRUE]
  <2>1. j \in WorkType BY <1>3 DEF WorkType
  <2>2. panel' = [panel EXCEPT !.job = j, !.conn = s] BY <1>1, <1>4
  <2> HIDE DEF j
  <2>3. /\ panel' \in PanelType /\ panel'.state = panel.state /\ panel'.conn = s
        /\ panel'.job = j
        /\ panel'.queued = panel.queued /\ panel'.opening = panel.opening
    BY <1>1, <1>5, <2>1, <2>2 DEF PanelType
  <2> QED BY <2>3 DEF j
<1> HIDE DEF new
<1>11. /\ sock' \in [Socks -> SockType] /\ sock'[s] = new
       /\ \A t \in Socks \ {s} : sock'[t] = sock[t]
  BY <1>1, <1>5, <1>8, <1>9
<1> QED BY <1>2, <1>5, <1>6, <1>9, <1>10, <1>11 DEF k

LEMMA AskHostKeeps == ASSUME HostInv, AskHost PROVE HostInv'
<1> DEFINE s == panel'.conn
<1>1. HostType /\ PagesOk /\ Placed /\ Waiting /\ Unused BY DEF HostInv, TypeOk
<1>2. /\ s \in Socks /\ sock' \in [Socks -> SockType] /\ panel' \in PanelType
      /\ \A t \in Socks \ {s} : sock'[t] = sock[t]
      /\ UNCHANGED <<linkVars, cpuVars, sent, events, viewVars>>
  BY AskSteps
<1>3. CASE Connected
  <2>1. s = panel.conn /\ sock'[s].busy = sock[s].busy BY <1>3, AskSteps
  <2>2. Waiting'
    BY <1>1, <1>2, <2>1 DEF Waiting, Waits, linkVars
  <2>3. Unused'
    <3>1. \A t \in Socks : t > s => t # s BY <1>2, ConnOrder
    <3> QED BY <1>1, <1>2, <2>1, <3>1 DEF Unused
  <2> QED BY <1>1, <1>2, <2>2, <2>3
       DEF HostInv, TypeOk, HostType, PagesOk, linkVars, cpuVars, viewVars, PendingOk,
           LinkOk, Placed, Nowhere, Somewhere, Asked, Queued, Answered
<1>4. CASE ~Connected
  <2>1. s > panel.conn BY <1>4, AskSteps
  <2>2. sock[s] = NoSock BY <1>1, <1>2, <2>1 DEF Unused
  <2>3. Waits(s) = {} BY <1>1, <1>2, <2>2 DEF Waiting, NoSock
  <2>4. Waiting'
    BY <1>1, <1>2, <2>3 DEF Waiting, Waits, linkVars
  <2>5. Unused'
    <3>1. panel.conn \in Socks BY DEF HostInv, TypeOk, PanelType
    <3>2. \A t \in Socks : t > s => t # s /\ t > panel.conn
      BY <1>2, <2>1, <3>1, ConnOrder
    <3> QED BY <1>1, <1>2, <3>2 DEF Unused
  <2> QED BY <1>1, <1>2, <2>4, <2>5
       DEF HostInv, TypeOk, HostType, PagesOk, linkVars, cpuVars, viewVars, PendingOk,
           LinkOk, Placed, Nowhere, Somewhere, Asked, Queued, Answered
<1> QED BY <1>3, <1>4


\* A connection is closed.
Shuts ==
  /\ Connected
  /\ LET k == sock[Conn]
         c == sock'[Conn]
     IN /\ ~c.open /\ c.out = <<>> /\ c.busy = k.busy /\ c.in \in {k.in, <<>>}
  /\ \A s \in Socks \ {Conn} : sock'[s] = sock[s]

LEMMA ShutSteps ==
  ASSUME HostInv, Connected, \E c \in Closed(Conn) : sock' = [sock EXCEPT ![Conn] = c]
  PROVE  Shuts /\ sock' \in [Socks -> SockType] /\ Conn \in Socks /\ Conn # 0
<1>1. sock \in [Socks -> SockType] /\ Conn \in Socks
  BY DEF HostInv, TypeOk, HostType, PanelType, Conn
<1>2. Conn # 0 BY DEF Connected
<1>3. PICK rest \in {sock[Conn].in, <<>>} :
        sock' = [sock EXCEPT ![Conn] =
                   [sock[Conn] EXCEPT !.open = FALSE, !.out = <<>>, !.in = rest]]
  BY DEF Closed
<1> DEFINE k == sock[Conn]
           c == [k EXCEPT !.open = FALSE, !.out = <<>>, !.in = rest]
<1>4. k \in SockType /\ rest \in {k.in, <<>>} BY <1>1
<1>5. sock' = [sock EXCEPT ![Conn] = c] BY <1>3
<1> HIDE DEF k
<1>6. c \in SockType /\ ~c.open /\ c.out = <<>> /\ c.busy = k.busy /\ c.in = rest
  <2>1. k.in \in Seq(FrameType) BY <1>4 DEF SockType
  <2>2. <<>> \in Seq(FrameType) /\ <<>> \in Seq(ReplyType) OBVIOUS
  <2>3. rest \in Seq(FrameType) BY <1>4, <2>1, <2>2
  <2> QED BY <1>4, <2>2, <2>3 DEF SockType
<1> HIDE DEF c
<1>7. sock'[Conn] = c /\ \A s \in Socks \ {Conn} : sock'[s] = sock[s] BY <1>1, <1>5
<1>8. sock' \in [Socks -> SockType] BY <1>1, <1>5, <1>6
<1> QED BY <1>1, <1>2, <1>4, <1>6, <1>7, <1>8 DEF Shuts, k

\* The client ends a read: with the answer, which it takes, or without, and
\* then the connection is closed.
LEMMA ReadSteps ==
  ASSUME HostInv, TakeAnswer \/ ReadFails
  PROVE  /\ panel.job # Idle /\ sock' \in [Socks -> SockType]
         /\ \/ /\ Reading /\ Connected
               /\ sock[Conn].out # <<>> /\ Head(sock[Conn].out).status = "OK"
               /\ LET k == sock[Conn]
                      c == sock'[Conn]
                      r == Head(k.out)
                      j == panel.job
                  IN /\ c.in = k.in /\ c.busy = k.busy /\ c.open = k.open
                     /\ c.out = Tail(k.out)
                     /\ Finish([kind |-> "read", lo |-> r.byteAddr \div 2,
                                hi |-> (r.byteAddr + r.count) \div 2 - 1,
                                ver |-> r.ver, since |-> j.since], "ok")
               /\ \A s \in Socks \ {Conn} : sock'[s] = sock[s]
            \/ Finish(Zeros, "unconnected")
               /\ IF Connected THEN Shuts ELSE sock' = sock
         /\ UNCHANGED <<linkVars, cpuVars, sent, toPanel, view>>
<1>1. sock \in [Socks -> SockType] /\ Conn \in Socks
  BY DEF HostInv, TypeOk, HostType, PanelType, Conn
<1>2. panel.job # Idle /\ UNCHANGED <<linkVars, cpuVars, sent, toPanel, view>>
  BY DEF TakeAnswer, ReadFails, Reading
<1>3. CASE GiveUp
  <2>1. CASE Connected BY <1>2, <1>3, <2>1, ShutSteps DEF GiveUp
  <2>2. CASE ~Connected BY <1>1, <1>2, <1>3, <2>2 DEF GiveUp
  <2> QED BY <2>1, <2>2
<1>4. CASE /\ TakeAnswer /\ Head(sock[Conn].out).status = "OK"
  <2> DEFINE k == sock[Conn]
             c == [k EXCEPT !.out = Tail(@)]
  <2>1. Reading /\ Connected /\ k.out # <<>> BY <1>4 DEF TakeAnswer
  <2>2. sock' = [sock EXCEPT ![Conn] = c] BY <1>1, <1>4 DEF TakeAnswer
  <2>3. k \in SockType BY <1>1
  <2>4. Finish([kind |-> "read", lo |-> Head(k.out).byteAddr \div 2,
                hi |-> (Head(k.out).byteAddr + Head(k.out).count) \div 2 - 1,
                ver |-> Head(k.out).ver, since |-> panel.job.since], "ok")
    BY <1>4 DEF TakeAnswer
  <2> HIDE DEF k
  <2>5. /\ c \in SockType /\ c.in = k.in /\ c.busy = k.busy /\ c.open = k.open
        /\ c.out = Tail(k.out)
    <3>1. Tail(k.out) \in Seq(ReplyType) BY <2>1, <2>3 DEF SockType
    <3> QED BY <2>3, <3>1 DEF SockType
  <2> HIDE DEF c
  <2>6. /\ sock' \in [Socks -> SockType] /\ sock'[Conn] = c
        /\ \A s \in Socks \ {Conn} : sock'[s] = sock[s]
    BY <1>1, <2>2, <2>5
  <2> QED BY <1>2, <1>4, <2>1, <2>4, <2>5, <2>6 DEF k
<1> QED BY <1>3, <1>4 DEF TakeAnswer, ReadFails

\* A read of an answer has a dump of numbers.
LEMMA DumpIs ==
  ASSUME HostInv, Conn \in Socks, sock[Conn].out # <<>>, panel.job # Idle
  PROVE  LET r == Head(sock[Conn].out) IN
           /\ r \in ReplyType
           /\ [kind |-> "read", lo |-> r.byteAddr \div 2,
               hi |-> (r.byteAddr + r.count) \div 2 - 1,
               ver |-> r.ver, since |-> panel.job.since] \in DumpType
<1> DEFINE r == Head(sock[Conn].out)
<1>1. sock[Conn] \in SockType BY DEF HostInv, TypeOk, HostType
<1>2. r \in ReplyType BY <1>1 DEF SockType
<1>3. r.byteAddr \in Int /\ r.count \in Int /\ r.ver \in Int BY <1>2 DEF ReplyType
<1>4. panel.job.since \in Int BY JobType DEF HostInv, TypeOk
<1> HIDE DEF r
<1>5. r.byteAddr \div 2 \in Int /\ (r.byteAddr + r.count) \div 2 - 1 \in Int BY <1>3
<1> QED BY <1>2, <1>3, <1>4, <1>5 DEF DumpType, r

\* The steps that change what a connection holds, but not who waits.
LEMMA SameWaits ==
  ASSUME HostInv, UNCHANGED linkVars, \A s \in Socks : sock'[s].busy = sock[s].busy
  PROVE  Waiting' /\ Placed' /\ PendingOk' /\ \A t : Waits(t)' = Waits(t)
BY DEF HostInv, TypeOk, HostType, linkVars, Waiting, Waits, Placed, Nowhere, Somewhere,
       Asked, Queued, Answered, PendingOk

LEMMA ReadHost == ASSUME HostInv, TakeAnswer \/ ReadFails PROVE HostInv'
<1>1. HostType /\ panel \in PanelType /\ PagesOk /\ Unused /\ Conn \in Socks
  BY DEF HostInv, TypeOk, PanelType, Conn
<1>2. /\ sock' \in [Socks -> SockType] /\ panel.job # Idle
      /\ UNCHANGED <<linkVars, cpuVars, sent, toPanel, view>>
  BY ReadSteps
<1>3. /\ \A s \in Socks : sock'[s].busy = sock[s].busy
      /\ \A s \in Socks \ {Conn} : sock'[s] = sock[s]
  <2>1. sock' = sock \/ /\ sock'[Conn].busy = sock[Conn].busy
                        /\ \A s \in Socks \ {Conn} : sock'[s] = sock[s]
    BY ReadSteps DEF Shuts
  <2> QED BY <2>1
<1>4. Waiting' /\ Placed' /\ PendingOk' BY <1>2, <1>3, SameWaits
<1>5. LinkOk' BY <1>1, <1>2 DEF HostType, LinkOk, linkVars, cpuVars
<1>6. /\ panel' \in PanelType /\ panel'.conn = panel.conn
      /\ toView' \in Seq(ToViewType)
  <2>1. ver \in Int /\ toView \in Seq(ToViewType)
    BY <1>1 DEF HostType, LinkOk, PagesOk
  <2>2. \E dump \in DumpType, note \in {"ok", "unconnected"} : Finish(dump, note)
    <3>1. Zeros \in DumpType BY DEF Zeros, DumpType
    <3>2. CASE Finish(Zeros, "unconnected") BY <3>1, <3>2
    <3>3. CASE ~Finish(Zeros, "unconnected")
      <4> DEFINE r == Head(sock[Conn].out)
                 dump == [kind |-> "read", lo |-> r.byteAddr \div 2,
                          hi |-> (r.byteAddr + r.count) \div 2 - 1,
                          ver |-> r.ver, since |-> panel.job.since]
      <4>1. Finish(dump, "ok") /\ sock[Conn].out # <<>> BY <3>3, ReadSteps
      <4>2. dump \in DumpType BY <1>1, <1>2, <4>1, DumpIs
      <4> HIDE DEF dump
      <4> QED BY <4>1, <4>2
    <3> QED BY <3>2, <3>3
  <2> QED BY <1>1, <1>2, <2>1, <2>2, FinishType
<1>7. Unused'
  <2>1. \A s \in Socks : s > panel.conn => s # panel.conn
    BY <1>1, ConnOrder DEF Conn
  <2> QED BY <1>1, <1>3, <1>6, <2>1 DEF Unused, Conn
<1> QED BY <1>1, <1>2, <1>4, <1>5, <1>6, <1>7 DEF HostInv, TypeOk, HostType, PagesOk

LEMMA CloseHost == ASSUME HostInv, HostCloses PROVE HostInv'
<1>1. HostType /\ panel \in PanelType /\ PagesOk /\ Unused
  BY DEF HostInv, TypeOk
<1>2. Shuts /\ sock' \in [Socks -> SockType] /\ Conn \in Socks
  BY ShutSteps DEF HostCloses
<1>3. UNCHANGED <<linkVars, cpuVars, sent, panel, viewVars>> BY DEF HostCloses
<1>4. \A s \in Socks : sock'[s].busy = sock[s].busy BY <1>2 DEF Shuts
<1>5. Waiting' /\ Placed' /\ PendingOk' BY <1>3, <1>4, SameWaits
<1>6. LinkOk' BY <1>1, <1>3 DEF HostType, LinkOk, linkVars, cpuVars
<1>7. Unused'
  <2>1. \A s \in Socks : s > panel.conn => s # panel.conn
    BY <1>2, ConnOrder DEF Conn
  <2> QED BY <1>1, <1>2, <1>3, <2>1 DEF Unused, Conn, Shuts
<1> QED BY <1>1, <1>2, <1>3, <1>5, <1>6, <1>7
     DEF HostInv, TypeOk, HostType, PagesOk, viewVars


\* What the other PC sends is at the end of its stream.
LEMMA PcSteps ==
  ASSUME HostInv, PcSends
  PROVE  /\ sock' \in [Socks -> SockType] /\ sent' \in [frames : Nat, oversize : BOOLEAN]
         /\ \A s \in Socks \ {0} : sock'[s] = sock[s]
         /\ sock'[0].busy = sock[0].busy /\ sock'[0].out = sock[0].out
         /\ sock'[0].open = sock[0].open
         /\ sent'.frames = sent.frames + 1
         /\ ~sent'.oversize =>
              /\ ~sent.oversize
              /\ \E f \in FrameType : f.tag = sent.frames + 1
                                      /\ sock'[0].in = Append(sock[0].in, f)
         /\ UNCHANGED <<linkVars, cpuVars>>
<1>1. /\ sock \in [Socks -> SockType] /\ 0 \in Socks
      /\ sent \in [frames : Nat, oversize : BOOLEAN]
  BY Numbers DEF HostInv, TypeOk, HostType
<1>2. UNCHANGED <<linkVars, cpuVars>> BY DEF PcSends
<1>a. PICK f \in PcFrames(sent.frames + 1) :
        \E data \in IF Header(f) THEN {[f EXCEPT !.cmd = c, !.tag = 0] :
                                         c \in {"unknown", "set"}}
                    ELSE {f} :
          /\ sock' = [sock EXCEPT ![0].in = IF Header(f) THEN @ \o <<f, data>>
                                            ELSE Append(@, f)]
          /\ sent' = [sent EXCEPT !.frames = @ + 1, !.oversize = @ \/ Header(f)]
  BY DEF PcSends
<1>3. PICK data \in IF Header(f) THEN {[f EXCEPT !.cmd = c, !.tag = 0] :
                                         c \in {"unknown", "set"}}
                    ELSE {f} :
        /\ sock' = [sock EXCEPT ![0].in = IF Header(f) THEN @ \o <<f, data>>
                                          ELSE Append(@, f)]
        /\ sent' = [sent EXCEPT !.frames = @ + 1, !.oversize = @ \/ Header(f)]
  BY <1>a
<1>4. f \in FrameType /\ f.tag = sent.frames + 1
  <2>1. PICK k \in PcKinds : f = [k EXCEPT !.tag = sent.frames + 1]
    BY DEF PcFrames
  <2>2. k \in [cmd : {"read", "write", "set", "clr", "unknown"}, tag : Nat,
               byteAddr : Nat, count : Nat, slot : Slots]
    BY DebugHostAssumption
  <2>3. sent.frames + 1 \in Nat BY <1>1
  <2>4. k \in FrameType BY <2>2 DEF FrameType, Cmds
  <2> QED BY <2>1, <2>3, <2>4 DEF FrameType
<1>5. data \in FrameType
  <2>1. CASE data = f BY <1>4, <2>1
  <2>2. CASE \E c \in {"unknown", "set"} : data = [f EXCEPT !.cmd = c, !.tag = 0]
    <3>1. PICK c \in Cmds : data = [f EXCEPT !.cmd = c, !.tag = 0] BY <2>2 DEF Cmds
    <3> QED BY <1>4, <3>1 DEF FrameType
  <2> QED BY <1>3, <2>1, <2>2
<1> DEFINE in == sock[0].in
           in2 == IF Header(f) THEN in \o <<f, data>> ELSE Append(in, f)
<1>6. in \in Seq(FrameType) /\ sock[0] \in SockType BY <1>1 DEF SockType
<1>7. in2 \in Seq(FrameType)
  <2> HIDE DEF in
  <2>1. Append(in, f) \in Seq(FrameType) BY <1>4, <1>6
  <2>2. <<f, data>> \in Seq(FrameType) BY <1>4, <1>5
  <2>3. in \o <<f, data>> \in Seq(FrameType) BY <1>6, <2>2
  <2> QED BY <2>1, <2>3
<1>8. sock' = [sock EXCEPT ![0] = [sock[0] EXCEPT !.in = in2]] BY <1>3
<1> HIDE DEF in2
<1>9. /\ sock' \in [Socks -> SockType]
      /\ \A s \in Socks \ {0} : sock'[s] = sock[s]
      /\ sock'[0].in = in2 /\ sock'[0].busy = sock[0].busy
      /\ sock'[0].out = sock[0].out /\ sock'[0].open = sock[0].open
  <2> DEFINE c == [sock[0] EXCEPT !.in = in2]
  <2>1. /\ c \in SockType /\ c.in = in2 /\ c.busy = sock[0].busy
        /\ c.out = sock[0].out /\ c.open = sock[0].open
    BY <1>6, <1>7 DEF SockType
  <2> HIDE DEF c
  <2> QED BY <1>1, <1>8, <2>1 DEF c
<1>10. /\ sent' \in [frames : Nat, oversize : BOOLEAN] /\ sent'.frames = sent.frames + 1
       /\ sent'.oversize = (sent.oversize \/ Header(f))
  <2>1. PICK o \in BOOLEAN : o = (sent.oversize \/ Header(f)) OBVIOUS
  <2>2. sent' = [sent EXCEPT !.frames = sent.frames + 1, !.oversize = o] BY <1>3, <2>1
  <2>3. sent.frames + 1 \in Nat BY <1>1
  <2>4. sent'.frames = sent.frames + 1 /\ sent'.oversize = o BY <1>1, <2>2
  <2>5. sent' \in [frames : Nat, oversize : BOOLEAN] BY <1>1, <2>2, <2>3
  <2> QED BY <2>1, <2>4, <2>5
<1>11. ~sent'.oversize => ~sent.oversize /\ in2 = Append(in, f)
  BY <1>10 DEF in2
<1> QED BY <1>2, <1>4, <1>9, <1>10, <1>11

LEMMA PcHost ==
  ASSUME HostInv, PcSends, UNCHANGED <<panel, viewVars>>
  PROVE  HostInv'
<1>1. HostType /\ panel \in PanelType /\ PagesOk /\ Unused
  BY DEF HostInv, TypeOk
<1>2. /\ sock' \in [Socks -> SockType] /\ sent' \in [frames : Nat, oversize : BOOLEAN]
      /\ \A s \in Socks \ {0} : sock'[s] = sock[s]
      /\ sock'[0].busy = sock[0].busy
      /\ UNCHANGED <<linkVars, cpuVars, panel, viewVars>>
  BY PcSteps
<1>3. \A s \in Socks : sock'[s].busy = sock[s].busy BY <1>2
<1>4. Waiting' /\ Placed' /\ PendingOk' BY <1>2, <1>3, SameWaits
<1>5. LinkOk' BY <1>1, <1>2 DEF HostType, LinkOk, linkVars, cpuVars
<1>6. Unused'
  <2>1. \A s \in Socks : s > panel.conn => s # 0
    BY <1>1, ConnOrder DEF PanelType
  <2> QED BY <1>1, <1>2, <2>1 DEF Unused
<1> QED BY <1>1, <1>2, <1>4, <1>5, <1>6
     DEF HostInv, TypeOk, HostType, PagesOk, viewVars


-----------------------------------------------------------------------------
(* The web view.                                                           *)

LEMMA ViewParts ==
  ASSUME NEW v \in ViewType
  PROVE  /\ v.lo \in Int /\ v.hi \in Int /\ v.row \in Int
         /\ v.timer \in BOOLEAN /\ v.frames \in Seq(Int)
BY DEF ViewType

LEMMA RowsAre == \A p \in Panes : RowWords[p] \in Nat \ {0}
<1>1. \A p \in Panes : p = "mem" \/ p = "dis" BY DEF Panes
<1>2. 1 \in Nat \ {0} OBVIOUS
<1> QED BY <1>1, <1>2, Numbers

LEMMA LastTopType ==
  ASSUME NEW v \in ViewType, NEW p \in Panes
  PROVE  LastTop(v, p) \in Int
<1>1. RowWords[p] \in Nat \ {0} /\ v.lo \in Int /\ v.hi \in Int BY RowsAre, ViewParts
<1>2. \A a \in Int, n \in Nat \ {0} : a \div n \in Int OBVIOUS
<1>3. v.hi - v.lo + RowWords[p] \in Int BY <1>1
<1>4. LinesOf(v, p) \in Int BY <1>1, <1>2, <1>3 DEF LinesOf
<1>5. Lines \in Nat BY Numbers
<1> QED BY <1>4, <1>5 DEF LastTop

LEMMA SeenType ==
  ASSUME NEW v \in ViewType, NEW p \in Panes
  PROVE  FirstSeen(v, p) \in Int /\ LastSeen(v, p) \in Int
<1>1. RowWords[p] \in Nat /\ v.lo \in Int /\ v.hi \in Int /\ v.row \in Int
  BY RowsAre, ViewParts
<1>2. Lines \in Nat BY Numbers
<1>3. \A a, b, n \in Int : a + b * n \in Int OBVIOUS
<1>4. FirstSeen(v, p) \in Int BY <1>1, <1>3 DEF FirstSeen
<1>5. v.lo + (v.row + Lines) * RowWords[p] - 1 \in Int
  <2>1. v.row + Lines \in Int BY <1>1, <1>2
  <2>2. \A a, b, n \in Int : a + b * n - 1 \in Int OBVIOUS
  <2> QED BY <1>1, <2>1, <2>2
<1> QED BY <1>1, <1>4, <1>5 DEF LastSeen

\* A scroll that moves the lines starts the timer.
LEMMA ScrolledType ==
  ASSUME NEW v \in ViewType, NEW p \in Panes, NEW row \in Int
  PROVE  LET s == ScrolledTo(v, p, row) IN
           /\ s \in ViewType /\ s.lo = v.lo /\ s.hi = v.hi /\ s.frames = v.frames
           /\ v.timer => s.timer
           /\ s.row # v.row => s.timer
<1> DEFINE to == IF row > LastTop(v, p) THEN LastTop(v, p) ELSE row
<1>1. to \in Int /\ v.row \in Int BY LastTopType, ViewParts
<1>2. PICK t \in BOOLEAN : t = (v.timer \/ to # v.row) BY ViewParts
<1>3. ScrolledTo(v, p, row) = [v EXCEPT !.row = to, !.timer = t]
  BY <1>2 DEF ScrolledTo
<1> HIDE DEF to
<1> DEFINE s == [v EXCEPT !.row = to, !.timer = t]
<1>4. /\ s \in ViewType /\ s.lo = v.lo /\ s.hi = v.hi /\ s.frames = v.frames
      /\ s.row = to /\ s.timer = t
  BY <1>1 DEF ViewType
<1> HIDE DEF s
<1>5. v.timer => t BY <1>2
<1>6. to # v.row => t BY <1>2
<1> QED BY <1>3, <1>4, <1>5, <1>6 DEF s

LEMMA DrawnType ==
  ASSUME NEW v \in ViewType, NEW p \in Panes, NEW lo \in Int, NEW hi \in Int
  PROVE  LET s == Drawn(v, p, lo, hi) IN
           /\ s \in ViewType /\ s.lo = lo /\ s.hi = hi /\ s.frames = v.frames
           /\ v.timer => s.timer
<1> DEFINE w == [v EXCEPT !.lo = lo, !.hi = hi]
<1>1. /\ w \in ViewType /\ w.lo = lo /\ w.hi = hi /\ w.frames = v.frames
      /\ w.timer = v.timer
  BY DEF ViewType
<1>2. v.row \in Int BY ViewParts
<1>3. Drawn(v, p, lo, hi) = ScrolledTo(w, p, v.row) BY DEF Drawn
<1> HIDE DEF w
<1> QED BY <1>1, <1>2, <1>3, ScrolledType

LEMMA RevealedType ==
  ASSUME NEW v \in ViewType, NEW p \in Panes, NEW a \in Int, v.frames # <<>>
  PROVE  LET s == Revealed(v, p, a) IN
           s \in ViewType /\ s.lo = v.lo /\ s.hi = v.hi /\ s.timer = v.timer
<1> DEFINE r == IF a < v.lo THEN 0 ELSE (a - v.lo) \div RowWords[p]
           row == IF r > LastTop(v, p) THEN LastTop(v, p) ELSE r
<1>1. v.lo \in Int /\ v.frames \in Seq(Int) /\ Tail(v.frames) \in Seq(Int)
  BY ViewParts
<1>2. RowWords[p] \in Nat \ {0} BY RowsAre
<1>3. \A b \in Int, n \in Nat \ {0} : b \div n \in Int OBVIOUS
<1>4. r \in Int BY <1>1, <1>2, <1>3
<1> HIDE DEF r
<1>5. row \in Int BY <1>4, LastTopType
<1>6. Revealed(v, p, a) = [v EXCEPT !.row = row, !.frames = Tail(v.frames)]
  BY DEF Revealed, r
<1> HIDE DEF row
<1> QED BY <1>1, <1>5, <1>6 DEF ViewType

\* A pane is drawn, with the frames it needs.
LEMMA ViewSteps ==
  ASSUME PagesOk, ViewReceives
  PROVE  LET m == Head(toView) IN
         /\ toView # <<>> /\ m \in ToViewType /\ toView' = Tail(toView)
         /\ toPanel' = toPanel /\ panel' = panel /\ UNCHANGED hostVars
         /\ view' \in [Panes -> ViewType] /\ PagesOk'
         /\ m.type = "state" \/ m.type \in Panes
         /\ \A p \in Panes :
              /\ m.type \notin {p, "state"} => view'[p] = view[p]
              /\ m.type = "state" => view'[p].frames = view[p].frames
              /\ m.type = p =>
                   /\ view'[p].lo = m.lo /\ view'[p].hi = m.hi
                   /\ view'[p].frames # <<>>
              /\ view[p].frames # <<>> => view'[p].frames # <<>>
              /\ view[p].timer => view'[p].timer
<1> DEFINE m == Head(toView)
<1>1. /\ view \in [Panes -> ViewType] /\ toView \in Seq(ToViewType)
      /\ toPanel \in Seq(ToPanelType)
  BY DEF PagesOk
<1>2. /\ toView # <<>> /\ toView' = Tail(toView) /\ toPanel' = toPanel
      /\ panel' = panel /\ UNCHANGED hostVars
  BY DEF ViewReceives
<1>3. m \in ToViewType /\ toView' \in Seq(ToViewType) BY <1>1, <1>2
<1>4. /\ m.lo \in Int /\ m.hi \in Int /\ m.scroll \in Int
      /\ m.type \in Panes \union {"state"}
  BY <1>3 DEF ToViewType
<1>5. /\ "mem" \in Panes /\ "dis" \in Panes /\ "state" \notin Panes
      /\ \A p \in Panes : p = "mem" \/ p = "dis"
  BY DEF Panes
<1> DEFINE Step(p) ==
      /\ m.type \notin {p, "state"} => view'[p] = view[p]
      /\ m.type = "state" => view'[p].frames = view[p].frames
      /\ m.type = p => /\ view'[p].lo = m.lo /\ view'[p].hi = m.hi
                       /\ view'[p].frames # <<>>
      /\ view[p].frames # <<>> => view'[p].frames # <<>>
      /\ view[p].timer => view'[p].timer
<1>6. CASE m.type = "state"
  <2> DEFINE a == Drawn(view["mem"], "mem", m.lo, m.hi)
             b == Drawn(view["dis"], "dis", m.scroll, m.hi)
  <2>1. view' = [view EXCEPT !["mem"] = a, !["dis"] = b]
    BY <1>6 DEF ViewReceives
  <2>2. a \in ViewType /\ a.frames = view["mem"].frames /\ (view["mem"].timer => a.timer)
    BY <1>1, <1>4, <1>5, DrawnType
  <2>3. b \in ViewType /\ b.frames = view["dis"].frames /\ (view["dis"].timer => b.timer)
    BY <1>1, <1>4, <1>5, DrawnType
  <2> HIDE DEF a, b, m
  <2>4. view' \in [Panes -> ViewType] /\ view'["mem"] = a /\ view'["dis"] = b
    BY <1>1, <1>5, <2>1, <2>2, <2>3
  <2>5. Step("mem") /\ Step("dis") BY <1>6, <2>2, <2>3, <2>4
  <2> HIDE DEF Step
  <2>6. \A p \in Panes : Step(p) BY <1>5, <2>5
  <2> QED BY <1>1, <1>2, <1>3, <1>4, <2>4, <2>6 DEF PagesOk, Step, m
<1>7. CASE m.type # "state"
  <2> DEFINE q == m.type
             d == Drawn(view[q], q, m.lo, m.hi)
             e == [d EXCEPT !.frames = Append(d.frames, m.scroll)]
  <2>1. q \in Panes BY <1>4, <1>7
  <2>2. view' = [view EXCEPT ![q] = e] BY <1>7 DEF ViewReceives
  <2> HIDE DEF q, m
  <2>3. /\ d \in ViewType /\ d.frames = view[q].frames /\ (view[q].timer => d.timer)
        /\ d.lo = m.lo /\ d.hi = m.hi
    BY <1>1, <1>4, <2>1, DrawnType
  <2> HIDE DEF d
  <2>4. /\ e \in ViewType /\ e.lo = m.lo /\ e.hi = m.hi /\ e.timer = d.timer
        /\ e.frames # <<>>
    <3>1. d.frames \in Seq(Int) BY <2>3, ViewParts
    <3>2. Append(d.frames, m.scroll) \in Seq(Int) /\ Append(d.frames, m.scroll) # <<>>
      BY <1>4, <3>1
    <3> QED BY <2>3, <3>2 DEF ViewType
  <2> HIDE DEF e
  <2>5. /\ view' \in [Panes -> ViewType] /\ view'[q] = e
        /\ \A p \in Panes \ {q} : view'[p] = view[p]
    BY <1>1, <2>1, <2>2, <2>4
  <2>6. ASSUME NEW p \in Panes PROVE Step(p)
    <3>1. CASE p = q BY <1>7, <2>3, <2>4, <2>5, <3>1 DEF q
    <3>2. CASE p # q BY <1>7, <2>5, <3>2 DEF q
    <3> QED BY <3>1, <3>2
  <2> HIDE DEF Step
  <2> QED BY <1>1, <1>2, <1>3, <1>4, <2>5, <2>6 DEF PagesOk, Step, m
<1> QED BY <1>6, <1>7


\* Two frames after, or when the timer fires, what is seen is reported.
LEMMA ReportSteps ==
  ASSUME PagesOk, NEW p \in Panes, Frame(p) \/ TimerFires(p)
  PROVE  /\ view'[p] \in ViewType
         /\ view'[p].lo = view[p].lo /\ view'[p].hi = view[p].hi
         /\ \A q \in Panes \ {p} : view'[q] = view[q]
         /\ toPanel' = Append(toPanel, [type |-> p, first |-> FirstSeen(view'[p], p),
                                        last |-> LastSeen(view'[p], p)])
         /\ PagesOk'
         /\ UNCHANGED <<hostVars, panel, toView>>
<1>1. /\ view \in [Panes -> ViewType] /\ toPanel \in Seq(ToPanelType)
      /\ toView \in Seq(ToViewType)
  BY DEF PagesOk
<1>2. UNCHANGED <<hostVars, panel, toView>> BY DEF Frame, TimerFires
<1>3. PICK v \in ViewType :
        /\ view' = [view EXCEPT ![p] = v] /\ v.lo = view[p].lo /\ v.hi = view[p].hi
        /\ FirstSeen(v, p) = FirstSeen(view'[p], p) /\ LastSeen(v, p) = LastSeen(view'[p], p)
        /\ Report(v, p)
  <2>1. CASE Frame(p)
    <3> DEFINE v == Revealed(view[p], p, Head(view[p].frames))
    <3>1. view[p].frames # <<>> /\ view' = [view EXCEPT ![p] = v] /\ Report(v, p)
      BY <2>1 DEF Frame
    <3>2. view[p] \in ViewType /\ Head(view[p].frames) \in Int
      BY <1>1, <3>1, ViewParts
    <3>3. v \in ViewType /\ v.lo = view[p].lo /\ v.hi = view[p].hi
      BY <3>1, <3>2, RevealedType
    <3> HIDE DEF v
    <3>4. view'[p] = v BY <1>1, <3>1
    <3> QED BY <3>1, <3>3, <3>4
  <2>2. CASE TimerFires(p)
    <3> DEFINE o == view[p]
               v == [o EXCEPT !.timer = FALSE]
    <3>1. view' = [view EXCEPT ![p] = v] /\ Report(o, p)
      BY <1>1, <2>2 DEF TimerFires
    <3>2. o \in ViewType BY <1>1
    <3> HIDE DEF o
    <3>3. v \in ViewType /\ v.lo = o.lo /\ v.hi = o.hi /\ v.row = o.row
      BY <3>2 DEF ViewType
    <3> HIDE DEF v
    <3>4. view'[p] = v BY <1>1, <3>1
    <3>5. FirstSeen(v, p) = FirstSeen(o, p) /\ LastSeen(v, p) = LastSeen(o, p)
      BY <3>3 DEF FirstSeen, LastSeen
    <3>6. Report(v, p) BY <3>1, <3>5 DEF Report
    <3> QED BY <3>1, <3>3, <3>4, <3>5, <3>6 DEF o
  <2> QED BY <2>1, <2>2
<1>4. view'[p] = v /\ \A q \in Panes \ {p} : view'[q] = view[q] BY <1>1, <1>3
<1>5. view' \in [Panes -> ViewType] BY <1>1, <1>3
<1> DEFINE m == [type |-> p, first |-> FirstSeen(view'[p], p),
                 last |-> LastSeen(view'[p], p)]
<1>6. toPanel' = Append(toPanel, m) BY <1>3 DEF Report, Post
<1>7. m \in ToPanelType
  <2>1. FirstSeen(view'[p], p) \in Int /\ LastSeen(view'[p], p) \in Int
    BY <1>4, SeenType
  <2> QED BY <2>1 DEF ToPanelType
<1> HIDE DEF m
<1>8. toPanel' \in Seq(ToPanelType) BY <1>1, <1>6, <1>7
<1> QED BY <1>1, <1>2, <1>3, <1>4, <1>5, <1>6, <1>8 DEF PagesOk, m

\* A scroll of the user starts the timer.
LEMMA ScrollSteps ==
  ASSUME PagesOk, NEW p \in Panes, UserScrolls(p)
  PROVE  /\ PagesOk'
         /\ view'[p].lo = view[p].lo /\ view'[p].hi = view[p].hi
         /\ view'[p].timer
         /\ \A q \in Panes \ {p} : view'[q] = view[q]
         /\ UNCHANGED <<OtherVars, toPanel>>
<1>1. /\ view \in [Panes -> ViewType] /\ toPanel \in Seq(ToPanelType)
      /\ toView \in Seq(ToViewType)
  BY DEF PagesOk
<1>2. UNCHANGED <<OtherVars, toPanel>> BY DEF UserScrolls
<1>3. PICK row \in {0, LastTop(view[p], p)} \ {view[p].row} :
        view' = [view EXCEPT ![p] = ScrolledTo(view[p], p, row)]
  BY <1>1 DEF UserScrolls
<1>4. view[p] \in ViewType /\ LastTop(view[p], p) \in Int BY <1>1, LastTopType
<1>5. row \in Int /\ row # view[p].row BY <1>3, <1>4
<1> DEFINE s == ScrolledTo(view[p], p, row)
<1>6. s \in ViewType /\ s.lo = view[p].lo /\ s.hi = view[p].hi BY <1>4, <1>5, ScrolledType
<1>7. s.timer
  <2>1. s.row # view[p].row => s.timer BY <1>4, <1>5, ScrolledType
  <2>2. ~(row > LastTop(view[p], p))
    <3>1. 0 <= LastTop(view[p], p)
      <4>1. LinesOf(view[p], p) > Lines => LinesOf(view[p], p) - Lines >= 0
        <5>1. view[p].hi - view[p].lo + RowWords[p] \in Int /\ RowWords[p] \in Nat \ {0}
          <6>1. view[p].hi \in Int /\ view[p].lo \in Int BY <1>4, ViewParts
          <6>2. RowWords[p] \in Nat \ {0} BY RowsAre
          <6> QED BY <6>1, <6>2
        <5>2. \A a \in Int, n \in Nat \ {0} : a \div n \in Int OBVIOUS
        <5>3. LinesOf(view[p], p) \in Int BY <5>1, <5>2 DEF LinesOf
        <5>4. Lines \in Nat BY Numbers
        <5> QED BY <5>3, <5>4
      <4> QED BY <4>1 DEF LastTop
    <3>2. \A n \in Int : ~(n > n) /\ (0 <= n => ~(0 > n)) OBVIOUS
    <3> QED BY <1>3, <1>4, <3>1, <3>2
  <2>3. s.row = row BY <1>4, <2>2 DEF ScrolledTo, ViewType
  <2> QED BY <1>5, <2>1, <2>3
<1> HIDE DEF s
<1>8. /\ view' \in [Panes -> ViewType] /\ view'[p] = s
      /\ \A q \in Panes \ {p} : view'[q] = view[q]
  BY <1>1, <1>3, <1>6 DEF s
<1> QED BY <1>1, <1>2, <1>6, <1>7, <1>8 DEF PagesOk, OtherVars

LEMMA AskTypes ==
  ASSUME PagesOk, UserAsks
  PROVE  /\ PagesOk' /\ UNCHANGED <<OtherVars, view>>
         /\ \E m \in ToPanelType : m.type \notin Panes /\ toPanel' = Append(toPanel, m)
<1>1. UNCHANGED <<OtherVars, view>> BY DEF UserAsks
<1>2. PICK m \in ToPanelType : m.type \notin Panes /\ toPanel' = Append(toPanel, m)
  <2>1. \A a \in Goto : [type |-> "gotoMem", first |-> a, last |-> a] \in ToPanelType
    BY Numbers DEF ToPanelType
  <2>2. \A e \in Entries : [type |-> "loadHex", first |-> e, last |-> e] \in ToPanelType
    BY Numbers DEF ToPanelType
  <2>3. CASE \E a \in Goto : Post("gotoMem", a, a)
    BY <2>1, <2>3 DEF Post, Panes
  <2>4. CASE \E e \in Entries : Post("loadHex", e, e)
    BY <2>2, <2>4 DEF Post, Panes
  <2> QED BY <2>3, <2>4 DEF UserAsks
<1> QED BY <1>1, <1>2 DEF PagesOk, OtherVars

-----------------------------------------------------------------------------
(* Every step keeps HostInv.                                               *)

\* The steps of the panel and of the web view leave the host alone.
LEMMA PageHost ==
  ASSUME HostInv, UNCHANGED hostVars, panel' \in PanelType, panel'.conn = panel.conn,
         PagesOk'
  PROVE  HostInv'
<1>1. HostType /\ Unused BY DEF HostInv, TypeOk
<1>2. HostType' BY <1>1 DEF HostType, PendingOk, LinkOk, hostVars, linkVars, cpuVars
<1>3. UNCHANGED linkVars /\ \A s \in Socks : sock'[s].busy = sock[s].busy
  BY DEF hostVars
<1>4. Waiting' /\ Placed' BY <1>3, SameWaits
<1>5. Unused' BY <1>1 DEF Unused, hostVars
<1> QED BY <1>2, <1>4, <1>5 DEF HostInv, TypeOk

LEMMA HostStart == Init => HostInv
<1> SUFFICES ASSUME Init PROVE HostInv OBVIOUS
<1>1. /\ sock = [s \in Socks |-> IF s = 0 THEN NewSock ELSE NoSock]
      /\ pending = <<>> /\ linkQ = <<>> /\ bus = <<>> /\ results = <<>>
      /\ ver = 0 /\ sent = [frames |-> 0, oversize |-> FALSE]
  BY DEF Init, HostInit
<1>2. NoSock \in SockType /\ NewSock \in SockType
  <2>1. <<>> \in Seq(FrameType) /\ <<>> \in Seq(ReplyType) OBVIOUS
  <2>2. NoSock \in SockType BY <2>1 DEF NoSock, SockType
  <2> QED BY <2>2 DEF NewSock, SockType
<1>3. DOMAIN pending = {} BY <1>1
<1>4. HostType
  <2>1. sock \in [Socks -> SockType] BY <1>1, <1>2
  <2>2. PendingOk
    <3>1. 0 \in Nat /\ DOMAIN pending \subseteq 0..0 BY <1>3
    <3>2. pending \in [DOMAIN pending -> WaiterType] BY <1>1, <1>3
    <3> QED BY <3>1, <3>2 DEF PendingOk
  <2>3. LinkOk BY <1>1 DEF LinkOk
  <2> QED BY <1>1, <2>1, <2>2, <2>3 DEF HostType
<1>5. FetchRange(Entry) \in WinType /\ Entry \in Int
  <2>1. Entry \in Int BY Numbers
  <2> QED BY <2>1, RangeType
<1>6. panel \in PanelType
  <2>1. Fresh(Entry) \in PaneType BY <1>5 DEF Fresh, PaneType, Zeros, DumpType
  <2>2. None \in WishType BY DEF None, WishType
  <2>3. 0 \in Socks BY Numbers
  <2> QED BY <2>1, <2>2, <2>3 DEF Init, PanelType
<1>7. PagesOk
  <2>1. \A p \in Panes : [lo |-> IF p = "mem" THEN FetchRange(Entry).lo ELSE Entry,
                          hi |-> FetchRange(Entry).hi, row |-> 0, timer |-> FALSE,
                          frames |-> <<>>] \in ViewType
    BY <1>5 DEF ViewType, WinType
  <2>2. view \in [Panes -> ViewType] BY <2>1 DEF Init
  <2>3. [type |-> "ready", first |-> 0, last |-> 0] \in ToPanelType BY DEF ToPanelType
  <2>4. toPanel \in Seq(ToPanelType) /\ toView \in Seq(ToViewType)
    BY <2>3 DEF Init
  <2> QED BY <2>2, <2>4 DEF PagesOk
<1>8. Placed
  <2>1. \A i : Of(<<>>, "id", i) = {} BY DEF Of
  <2> QED BY <1>1, <1>3, <2>1 DEF Placed, Nowhere
<1>9. Waiting /\ Unused
  <2>1. \A s : Waits(s) = {} BY <1>3 DEF Waits
  <2>2. \A s \in Socks : s > 0 => s # 0 BY Numbers, ConnOrder
  <2>3. panel.conn = 0 BY DEF Init
  <2> QED BY <1>1, <2>1, <2>2, <2>3 DEF Waiting, Unused
<1> QED BY <1>4, <1>6, <1>7, <1>8, <1>9 DEF HostInv, TypeOk

LEMMA HostStep == ASSUME HostInv, [Next]_vars PROVE HostInv'
<1>1. panel \in PanelType /\ PagesOk /\ ver \in Int
  BY DEF HostInv, TypeOk, HostType, LinkOk
<1>2. CASE Host
  BY <1>2, PumpHost, AnswerHost, BoardHost DEF Host, HostNext
<1>3. CASE Client \/ ReadFails BY <1>3, AskHostKeeps, ReadHost DEF Client
<1>4. CASE Panel
  BY <1>1, <1>4, ReceiveType, PageHost DEF Panel, PanelReceives
<1>5. CASE WebView
  <2>1. CASE ViewReceives BY <1>1, <2>1, ViewSteps, PageHost
  <2>2. ASSUME NEW p \in Panes, Frame(p) \/ TimerFires(p) PROVE HostInv'
    BY <1>1, <2>2, ReportSteps, PageHost
  <2> QED BY <1>5, <2>1, <2>2 DEF WebView
<1>6. CASE Environment
  <2>1. CASE (PcSends \/ ConsoleHalts) /\ UNCHANGED <<panel, viewVars>>
    BY <2>1, PcHost, ConsoleHost
  <2>2. CASE HostCloses BY <2>2, CloseHost
  <2>3. ASSUME PagesOk', UNCHANGED OtherVars PROVE HostInv'
    <3>1. HostType /\ Unused BY DEF HostInv, TypeOk
    <3>2. HostType' BY <2>3, <3>1 DEF HostType, PendingOk, LinkOk, OtherVars, linkVars, cpuVars
    <3>3. UNCHANGED linkVars /\ \A s \in Socks : sock'[s].busy = sock[s].busy
      BY <2>3 DEF OtherVars
    <3>4. Waiting' /\ Placed' BY <3>3, SameWaits
    <3> QED BY <1>1, <2>3, <3>1, <3>2, <3>4 DEF HostInv, TypeOk, Unused, OtherVars
  <2>4. CASE UserAsks BY <1>1, <2>3, <2>4, AskTypes
  <2>5. ASSUME NEW p \in Panes, UserScrolls(p) PROVE HostInv'
    BY <1>1, <2>3, <2>5, ScrollSteps
  <2> QED BY <1>6, <2>1, <2>2, <2>4, <2>5 DEF Environment
<1>7. CASE UNCHANGED vars
  BY <1>1, <1>7, PageHost DEF vars, viewVars, PagesOk
<1> QED BY <1>2, <1>3, <1>4, <1>5, <1>6, <1>7 DEF Next


-----------------------------------------------------------------------------
(* The answers of the other PC come in the order of its frames.            *)

\* What was answered, the frame being served and what is still to be read are
\* the frames so far, in turn.
Turn(k, frames) ==
  LET n == Len(k.out)
      b == IF k.busy THEN 1 ELSE 0
  IN /\ \A i \in 1..n : k.out[i].tag = i
     /\ \A i \in 1..Len(k.in) : k.in[i].tag = n + b + i
     /\ n + b + Len(k.in) = frames
InTurn == /\ Turn(sock[0], sent.frames)
          /\ \A i \in Waits(0) : pending[i].frame.tag = Len(sock[0].out) + 1
OrderInv == HostInv /\ sock[0].open /\ (~sent.oversize => InTurn)

LEMMA SockQueues ==
  ASSUME NEW k \in SockType
  PROVE  Queue(k.in) /\ Queue(k.out)
BY SocketType DEF Queue

\* The next frame is taken from the stream.
LEMMA TurnTaken ==
  ASSUME NEW k \in SockType, NEW k2 \in SockType, NEW N, Turn(k, N),
         ~k.busy, k.in # <<>>, k2.in = Tail(k.in),
         \/ k2.busy /\ k2.out = k.out
         \/ ~k2.busy /\ \E g : g.tag = Head(k.in).tag /\ k2.out = Append(k.out, g)
  PROVE  Turn(k2, N) /\ Head(k.in).tag = Len(k.out) + 1
<1> DEFINE n == Len(k.out)
           m == Len(k.in)
<1>1. /\ m \in Nat \ {0} /\ n \in Nat /\ Head(k.in) = k.in[1]
      /\ DOMAIN k2.in = 1..(m - 1) /\ \A i \in 1..(m - 1) : k2.in[i] = k.in[i + 1]
  BY SockQueues, QueueFront, SockQueues, QueueBack
<1>2. Len(k2.in) = m - 1
  <2>1. k.in \in Seq(FrameType) BY SocketType
  <2> QED BY <2>1
<1>3. /\ \A i \in 1..n : k.out[i].tag = i
      /\ \A i \in 1..m : k.in[i].tag = n + 0 + i
      /\ n + 0 + m = N
  BY DEF Turn
<1> HIDE DEF n, m
<1>4. \A i \in 1..(m - 1) : i + 1 \in 1..m /\ n + 0 + (i + 1) = n + 1 + i
  BY <1>1
<1>5. \A i \in 1..(m - 1) : k2.in[i].tag = n + 1 + i BY <1>1, <1>3, <1>4
<1>6. n + 1 + (m - 1) = N /\ n + 1 + 0 + (m - 1) = N BY <1>1, <1>3
<1>7. Head(k.in).tag = n + 1
  <2>1. 1 \in 1..m BY <1>1
  <2>2. n + 0 + 1 = n + 1 BY <1>1
  <2> QED BY <1>1, <1>3, <2>1, <2>2
<1>8. ASSUME k2.busy, k2.out = k.out PROVE Turn(k2, N)
  <2>1. Len(k2.out) = n BY <1>8 DEF n
  <2>2. \A i \in 1..n : k2.out[i].tag = i BY <1>3, <1>8
  <2> QED BY <1>2, <1>5, <1>6, <1>8, <2>1, <2>2 DEF Turn
<1>9. ASSUME ~k2.busy, NEW g, g.tag = Head(k.in).tag, k2.out = Append(k.out, g)
      PROVE  Turn(k2, N)
  <2>1. /\ \A i \in 1..n : k2.out[i] = k.out[i]
        /\ k2.out[n + 1] = g
    BY <1>9, SockQueues, QueueBack DEF n
  <2>2. Len(k2.out) = n + 1
    <3>1. k.out \in Seq(ReplyType) BY SocketType
    <3> QED BY <1>9, <3>1 DEF n
  <2>3. \A i \in 1..(n + 1) : i = n + 1 \/ i \in 1..n BY <1>1
  <2>4. \A i \in 1..(n + 1) : k2.out[i].tag = i
    BY <1>3, <1>7, <1>9, <2>1, <2>3
  <2>5. \A i \in 1..(m - 1) : n + 1 + i = n + 1 + 0 + i BY <1>1
  <2> QED BY <1>2, <1>5, <1>6, <1>9, <2>2, <2>4, <2>5 DEF Turn
<1> QED BY <1>7, <1>8, <1>9 DEF n

\* The frame being served is answered.
LEMMA TurnAnswered ==
  ASSUME NEW k \in SockType, NEW k2, NEW N, Turn(k, N), k.busy, ~k2.busy,
         k2.in = k.in, NEW g, g.tag = Len(k.out) + 1, k2.out = Append(k.out, g)
  PROVE  Turn(k2, N)
<1> DEFINE n == Len(k.out)
           m == Len(k.in)
<1>1. /\ n \in Nat /\ \A i \in 1..n : k2.out[i] = k.out[i]
      /\ k2.out[n + 1] = g /\ g.tag = n + 1
  BY SockQueues, QueueBack
<1>2. Len(k2.out) = n + 1 /\ m \in Nat
  <2>1. k.out \in Seq(ReplyType) /\ k.in \in Seq(FrameType) BY SocketType
  <2> QED BY <2>1
<1>3. /\ \A i \in 1..n : k.out[i].tag = i
      /\ \A i \in 1..m : k.in[i].tag = n + 1 + i
      /\ n + 1 + m = N
  BY DEF Turn
<1> HIDE DEF n
<1>4. \A i \in 1..(n + 1) : i = n + 1 \/ i \in 1..n BY <1>1
<1>5. \A i \in 1..(n + 1) : k2.out[i].tag = i BY <1>1, <1>3, <1>4
<1> HIDE DEF m
<1>6. \A i \in 1..m : n + 1 + i = n + 1 + 0 + i BY <1>1, <1>2
<1>7. n + 1 + 0 + m = N BY <1>1, <1>2, <1>3
<1>8. Len(k2.in) = m BY DEF m
<1>9. \A i \in 1..m : k2.in[i].tag = n + 1 + 0 + i BY <1>3, <1>6
<1> QED BY <1>2, <1>5, <1>7, <1>8, <1>9 DEF Turn

\* Another frame comes.
LEMMA TurnMore ==
  ASSUME NEW k \in SockType, NEW k2, NEW N, Turn(k, N), k2.busy = k.busy,
         k2.out = k.out, NEW f, f.tag = N + 1, k2.in = Append(k.in, f)
  PROVE  Turn(k2, N + 1)
<1> DEFINE n == Len(k.out)
           m == Len(k.in)
           b == IF k.busy THEN 1 ELSE 0
<1>1. /\ m \in Nat /\ n \in Nat /\ \A i \in 1..m : k2.in[i] = k.in[i]
      /\ k2.in[m + 1] = f
  BY SockQueues, QueueBack
<1>2. Len(k2.in) = m + 1
  <2>1. k.in \in Seq(FrameType) BY SocketType
  <2> QED BY <2>1
<1>3. /\ \A i \in 1..n : k.out[i].tag = i
      /\ \A i \in 1..m : k.in[i].tag = n + b + i
      /\ n + b + m = N
  BY DEF Turn
<1>4. b \in Nat OBVIOUS
<1> HIDE DEF n, m, b
<1>5. \A i \in 1..(m + 1) : i = m + 1 \/ i \in 1..m BY <1>1
<1>6. n + b + (m + 1) = N + 1 BY <1>1, <1>3, <1>4
<1>7. \A i \in 1..(m + 1) : k2.in[i].tag = n + b + i
  BY <1>1, <1>3, <1>5, <1>6
<1> QED BY <1>2, <1>3, <1>6, <1>7 DEF Turn, n, b

\* The steps that do not touch the connection of the other PC.
LEMMA SameTurn ==
  ASSUME OrderInv, sock'[0] = sock[0], sent' = sent, Waits(0)' \subseteq Waits(0),
         \A i \in Waits(0)' : pending'[i] = pending[i], HostInv'
  PROVE  OrderInv'
BY DEF OrderInv, InTurn

LEMMA PumpTurn ==
  ASSUME OrderInv, NEW s \in Socks, Pump(s), UNCHANGED <<panel, viewVars>>
  PROVE  OrderInv'
<1>1. HostInv /\ HostInv' /\ sent' = sent BY PumpHost, PumpSteps DEF OrderInv
<1>2. 0 \in Socks /\ {s} \subseteq Socks BY Numbers
<1> DEFINE k == sock[s]
           f == Head(k.in)
<1>3. /\ ~k.busy /\ k.in # <<>> /\ f \in FrameType /\ k \in SockType
      /\ sock' \in [Socks -> SockType] /\ sock'[s] \in SockType
      /\ sock'[s].in = Tail(k.in) /\ sock'[s].open = k.open
      /\ \A t \in Socks \ {s} : sock'[t] = sock[t]
      /\ \/ /\ sock'[s].busy = k.busy /\ UNCHANGED linkVars
            /\ sock'[s].out = IF k.open THEN Append(k.out, Reply(f, "NG", 0, 0)) ELSE k.out
         \/ /\ sock'[s].busy /\ sock'[s].out = k.out
            /\ Send({s}, f) /\ UNCHANGED <<bus, results>>
  BY <1>1, PumpSteps
<1>4. CASE s # 0
  <2>1. sock'[0] = sock[0] BY <1>2, <1>3, <1>4
  <2>2. Waits(0)' = Waits(0) /\ \A i \in Waits(0) : pending'[i] = pending[i]
    <3>1. CASE UNCHANGED linkVars BY <3>1 DEF Waits, linkVars
    <3>2. CASE Send({s}, f) /\ UNCHANGED <<bus, results>>
      <4>1. Waits(0)' = Waits(0)
        <5>1. 0 \notin {s} BY <1>4
        <5> HIDE DEF f, k
        <5> QED BY <1>1, <1>2, <1>3, <3>2, <5>1, SendWaits
      <4>2. \A i \in DOMAIN pending : pending'[i] = pending[i]
        BY <1>1, <1>2, <1>3, <3>2, SendPlaces
      <4> QED BY <4>1, <4>2 DEF Waits
    <3> QED BY <1>3, <3>1, <3>2
  <2> QED BY <1>1, <2>1, <2>2, SameTurn
<1>5. CASE s = 0
  <2>1. sock[0].open /\ sock'[0].open BY <1>3, <1>5 DEF OrderInv
  <2> HIDE DEF f, k
  <2>2. ASSUME ~sent.oversize PROVE InTurn'
    <3>1. InTurn BY <2>2 DEF OrderInv
    <3>2. Turn(k, sent.frames) BY <1>5, <3>1 DEF InTurn, k
    <3>3. CASE /\ sock'[s].busy = k.busy /\ UNCHANGED linkVars
               /\ sock'[s].out = Append(k.out, Reply(f, "NG", 0, 0))
      <4>1. Reply(f, "NG", 0, 0).tag = f.tag BY DEF Reply
      <4>2. Turn(sock'[s], sent.frames)
        BY <1>3, <3>2, <3>3, <4>1, TurnTaken DEF f
      <4>3. Waits(0)' = {}
        <5>1. Waits(0) = {} BY <1>1, <1>2, <1>3, <1>5 DEF HostInv, Waiting, k
        <5> QED BY <3>3, <5>1 DEF Waits, linkVars
      <4> QED BY <1>1, <1>5, <4>2, <4>3 DEF InTurn
    <3>4. CASE /\ sock'[s].busy /\ sock'[s].out = k.out
               /\ Send({s}, f) /\ UNCHANGED <<bus, results>>
      <4>1. Turn(sock'[s], sent.frames) /\ f.tag = Len(k.out) + 1
        BY <1>3, <3>2, <3>4, TurnTaken DEF f
      <4>2. Waits(0)' = Waits(0) \union {nextId}
        BY <1>1, <1>2, <1>3, <1>5, <3>4, SendWaits
      <4>3. Waits(0) = {} BY <1>1, <1>2, <1>3, <1>5 DEF HostInv, Waiting, k
      <4>4. pending'[nextId] = [socks |-> {s}, frame |-> f]
        BY <1>1, <1>2, <1>3, <3>4, SendPlaces
      <4>5. \A i \in Waits(0)' : pending'[i].frame = f BY <4>2, <4>3, <4>4
      <4> QED BY <1>1, <1>5, <3>4, <4>1, <4>5 DEF InTurn
    <3> QED BY <1>3, <1>5, <2>1, <3>3, <3>4 DEF k
  <2> QED BY <1>1, <2>1, <2>2 DEF OrderInv
<1> QED BY <1>4, <1>5

LEMMA AnswerTurn ==
  ASSUME OrderInv, Answer, UNCHANGED <<panel, viewVars>>
  PROVE  OrderInv'
<1> DEFINE r == Head(results)
           w == pending[r.id]
           reply == Reply(w.frame, IF r.ok THEN "OK" ELSE "NG", r.byteAddr, r.ver)
<1>1. HostInv /\ HostInv' /\ sent' = sent BY AnswerHost, AnswerSteps DEF OrderInv
<1>2. 0 \in Socks BY Numbers
<1>3. Waits(0)' = Waits(0) \ {r.id} /\ \A i \in Waits(0)' : pending'[i] = pending[i]
  <2>1. Waits(0)' = Waits(0) \ {r.id} BY <1>1, AnswerWaits
  <2>2. \A i \in DOMAIN pending' : pending'[i] = pending[i] BY <1>1, AnswerPlaces
  <2> QED BY <2>1, <2>2 DEF Waits
<1>4. CASE 0 \notin w.socks
  <2>1. sock'[0] = sock[0] BY <1>1, <1>2, <1>4, AnswerSteps
  <2> QED BY <1>1, <1>3, <2>1, SameTurn
<1>5. CASE 0 \in w.socks
  <2>1. /\ sock[0].busy /\ ~sock'[0].busy /\ Waits(0)' = {} /\ r.id \in Waits(0)
        /\ sock'[0].in = sock[0].in /\ sock'[0].open = sock[0].open
        /\ sock'[0].out = IF sock[0].open THEN Append(sock[0].out, reply) ELSE sock[0].out
    BY <1>1, <1>2, <1>5, AnswerSteps
  <2>2. reply.tag = w.frame.tag BY DEF Reply
  <2> HIDE DEF reply, r
  <2>3. sock[0].open /\ sock'[0].open /\ sock'[0].out = Append(sock[0].out, reply)
    BY <2>1 DEF OrderInv
  <2>4. ASSUME ~sent.oversize PROVE InTurn'
    <3>1. InTurn BY <2>4 DEF OrderInv
    <3>2. reply.tag = Len(sock[0].out) + 1 BY <2>1, <2>2, <3>1 DEF InTurn
    <3>3. sock[0] \in SockType BY <1>1, <1>2 DEF HostInv, TypeOk, HostType
    <3>4. Turn(sock'[0], sent.frames)
      BY <2>1, <2>3, <3>1, <3>2, <3>3, TurnAnswered DEF InTurn
    <3> QED BY <1>1, <2>1, <3>4 DEF InTurn
  <2> QED BY <1>1, <2>3, <2>4 DEF OrderInv
<1> QED BY <1>4, <1>5

LEMMA PcTurn ==
  ASSUME OrderInv, PcSends, UNCHANGED <<panel, viewVars>>
  PROVE  OrderInv'
<1>1. HostInv /\ HostInv' BY PcHost DEF OrderInv
<1>2. sock'[0].open BY <1>1, PcSteps DEF OrderInv
<1>3. ASSUME ~sent'.oversize PROVE InTurn'
  <2>1. ~sent.oversize /\ InTurn BY <1>1, <1>3, PcSteps DEF OrderInv
  <2>2. PICK f \in FrameType : f.tag = sent.frames + 1
                               /\ sock'[0].in = Append(sock[0].in, f)
    BY <1>1, <1>3, PcSteps
  <2>3. /\ sock'[0].busy = sock[0].busy /\ sock'[0].out = sock[0].out
        /\ sent'.frames = sent.frames + 1 /\ UNCHANGED <<linkVars, cpuVars>>
    BY <1>1, PcSteps
  <2>4. sock[0] \in SockType BY <1>1, Numbers DEF HostInv, TypeOk, HostType
  <2>5. Turn(sock'[0], sent'.frames)
    BY <2>1, <2>2, <2>3, <2>4, TurnMore DEF InTurn
  <2>6. Waits(0)' = Waits(0) /\ pending' = pending BY <2>3 DEF Waits, linkVars
  <2> QED BY <2>1, <2>3, <2>5, <2>6 DEF InTurn
<1> QED BY <1>1, <1>2, <1>3 DEF OrderInv

LEMMA OrderStep == ASSUME OrderInv, [Next]_vars PROVE OrderInv'
<1>1. HostInv /\ HostInv' BY HostStep DEF OrderInv
<1>2. 0 \in Socks BY Numbers
<1>3. ASSUME UNCHANGED <<linkVars, sent>>, sock'[0] = sock[0] PROVE OrderInv'
  BY <1>1, <1>3, SameTurn DEF linkVars, Waits
<1>4. CASE Host
  <2>1. ASSUME CpuTakes \/ ServeBus \/ FailBus PROVE OrderInv'
    <3>1. LinkOk BY <1>1 DEF HostInv, TypeOk, HostType
    <3>2. UNCHANGED <<sock, pending, sent>> BY <2>1, <3>1, BoardSteps
    <3> QED BY <1>1, <3>2, SameTurn DEF Waits
  <2> QED BY <1>4, <2>1, PumpTurn, AnswerTurn DEF Host, HostNext
<1>5. CASE AskHost
  <2>1. /\ panel'.conn # 0 /\ \A t \in Socks \ {panel'.conn} : sock'[t] = sock[t]
        /\ UNCHANGED <<linkVars, sent>>
    BY <1>1, <1>5, AskSteps
  <2> QED BY <1>2, <1>3, <2>1
<1>6. CASE TakeAnswer \/ ReadFails
  <2>1. UNCHANGED <<linkVars, sent>> BY <1>1, <1>6, ReadSteps
  <2>2. sock'[0] = sock[0]
    <3>1. Connected => Conn # 0 BY DEF Connected
    <3>2. sock' = sock \/ (Connected /\ \A s \in Socks \ {Conn} : sock'[s] = sock[s])
      BY <1>1, <1>6, ReadSteps DEF Shuts
    <3> QED BY <1>2, <3>1, <3>2
  <2> QED BY <1>3, <2>1, <2>2
<1>7. CASE Panel BY <1>3, <1>7 DEF Panel, PanelReceives, hostVars
<1>8. CASE WebView BY <1>3, <1>8 DEF WebView, ViewReceives, Frame, TimerFires, hostVars
<1>9. CASE Environment
  <2>1. ASSUME ConsoleHalts PROVE OrderInv'
    <3>1. UNCHANGED <<sock, sent, bus, results>> /\ Waits(0)' = Waits(0)
      BY <1>1, <2>1, ConsoleSteps
    <3>2. PICK f \in FrameType : Send({}, f) BY <1>1, <2>1, ConsoleSteps
    <3>3. {} \subseteq Socks OBVIOUS
    <3>4. \A i \in DOMAIN pending : pending'[i] = pending[i]
      BY <1>1, <3>1, <3>2, <3>3, SendPlaces
    <3> QED BY <1>1, <3>1, <3>4, SameTurn DEF Waits
  <2>2. CASE HostCloses
    <3>1. UNCHANGED <<linkVars, sent>> BY <2>2 DEF HostCloses
    <3>2. Shuts /\ Conn # 0 BY <1>1, <2>2, ShutSteps DEF HostCloses
    <3>3. sock'[0] = sock[0] BY <1>2, <3>2 DEF Shuts
    <3> QED BY <1>3, <3>1, <3>3
  <2>3. CASE UserAsks \/ \E p \in Panes : UserScrolls(p)
    BY <1>3, <2>3 DEF UserAsks, UserScrolls, OtherVars
  <2> QED BY <1>9, <2>1, <2>2, <2>3, PcTurn DEF Environment
<1>10. CASE UNCHANGED vars BY <1>3, <1>10 DEF vars, hostVars
<1> QED BY <1>4, <1>5, <1>6, <1>7, <1>8, <1>9, <1>10 DEF Next, Client

\* The other PC gets the answers to its commands in their order, one for each,
\* whatever a second connection, the console and failures of the bus do to the
\* link, unless a write announced too much (debug_host.ts pump(), the busy flag
\* of a connection, and the ids of board_link_client.ts).
THEOREM InOrder == Spec => []AnswersInOrder
<1>1. Init => OrderInv
  <2> SUFFICES ASSUME Init PROVE OrderInv OBVIOUS
  <2>1. HostInv BY HostStart
  <2>2. sock[0] = NewSock /\ sent.frames = 0 BY Numbers DEF Init, HostInit
  <2>3. NewSock.in = <<>> /\ NewSock.out = <<>> /\ NewSock.open /\ ~NewSock.busy
    BY DEF NewSock, NoSock
  <2>4. Turn(sock[0], sent.frames)
    <3>1. Len(<<>>) = 0 /\ \A i \in 1..0 : FALSE OBVIOUS
    <3> QED BY <2>2, <2>3, <3>1 DEF Turn
  <2>5. Waits(0) = {} BY DEF Init, HostInit, Waits
  <2> QED BY <2>1, <2>2, <2>3, <2>4, <2>5 DEF OrderInv, InTurn
<1>2. OrderInv => AnswersInOrder
  <2> SUFFICES ASSUME OrderInv, ~sent.oversize
               PROVE  /\ \A k \in DOMAIN sock[0].out : sock[0].out[k].tag = k
                      /\ HostQuiet => Len(sock[0].out) = sent.frames
    BY DEF AnswersInOrder
  <2>1. sock[0] \in SockType /\ 0 \in Socks
    BY Numbers DEF OrderInv, HostInv, TypeOk, HostType
  <2>2. Turn(sock[0], sent.frames) BY DEF OrderInv, InTurn
  <2>3. DOMAIN sock[0].out = 1..Len(sock[0].out) /\ Len(sock[0].out) \in Nat
    BY <2>1, SockQueues, QueueBack
  <2>4. ASSUME HostQuiet PROVE Len(sock[0].out) = sent.frames
    <3>1. ~sock[0].busy /\ sock[0].in = <<>> BY <2>1, <2>4 DEF HostQuiet
    <3>2. Len(sock[0].out) + 0 + Len(<<>>) = sent.frames BY <2>2, <3>1 DEF Turn
    <3>3. Len(<<>>) = 0 OBVIOUS
    <3> HIDE DEF Turn
    <3> QED BY <2>3, <3>2, <3>3
  <2> QED BY <2>2, <2>3, <2>4 DEF Turn
<1> QED BY <1>1, <1>2, OrderStep, PTL DEF Spec


-----------------------------------------------------------------------------
(* What is drawn is what the panel has, and the user's place is covered.    *)

\* A request of pane p is being served, waits, or is still to be made.
Wants(P, p) == \/ P.job.pane = p \/ P.queued[p].set
               \/ p = "dis" /\ P.opening = "mem"
               \/ P.opening = "wait"
NoneLeft(P) == P.job = Idle => \A p \in Panes : ~P.queued[p].set

\* Nothing has to be fetched for what is seen.
Clear(first, last, w) == \A c \in NextCenter(first, last, w) : FetchRange(c) = w

Drawings(p) == At(toView, "type", {p, "state"})
Reports(p) == At(toPanel, "type", {p})
Shows(r, w) == r.lo = w.lo /\ r.hi = w.hi

\* The last drawing on its way shows the window of the panel; if there is
\* none, the web view does.
Synced(p) ==
  IF Drawings(p) = {} THEN Shows(view[p], panel.state[p].win)
  ELSE \A k \in Drawings(p) : LastOf(Drawings(p), k) =>
         toView[k].type = p /\ Shows(toView[k], panel.state[p].win)

\* Something will still report what is seen.
Active(p) == \/ Wants(panel, p) \/ Drawings(p) # {}
             \/ view[p].frames # <<>> \/ view[p].timer

\* The last report on its way is what is seen; if there is none, that is clear.
Seen(p) ==
  IF Reports(p) = {}
    THEN Clear(FirstSeen(view[p], p), LastSeen(view[p], p), panel.state[p].win)
  ELSE \A k \in Reports(p) : LastOf(Reports(p), k) =>
         /\ toPanel[k].first = FirstSeen(view[p], p)
         /\ toPanel[k].last = LastSeen(view[p], p)

Settled(p) == (Wants(panel, p) \/ Synced(p)) /\ (Active(p) \/ Seen(p))
RestInv == HostInv /\ NoneLeft(panel) /\ \A p \in Panes : Settled(p)

LEMMA PaneNames ==
  /\ "mem" \in Panes /\ "dis" \in Panes /\ "state" \notin Panes /\ "none" \notin Panes
  /\ \A p \in Panes : p = "mem" \/ p = "dis"
BY DEF Panes

\* A request of one pane forgets none of the other.
LEMMA RequestWants ==
  ASSUME NEW P \in PanelType, NEW p \in Panes, NEW c, NEW s
  PROVE  LET Q == Request(P, p, c, s) IN
           /\ Wants(Q, p) /\ NoneLeft(Q)
           /\ \A q \in Panes : Wants(P, q) => Wants(Q, q)
           /\ Q.opening = P.opening
           /\ \A q \in Panes : P.queued[q].set => Q.queued[q].set
           /\ P.job # Idle => Q.job = P.job
           /\ Q.job.pane = p \/ Q.queued[p].set
           /\ Q.job # Idle
<1>1. P.queued \in [Panes -> WishType] BY DEF PanelType
<1>2. CASE P.job # Idle
  <2> DEFINE u == [center |-> c, scroll |-> s, set |-> TRUE]
             Q == [P EXCEPT !.queued = [P.queued EXCEPT ![p] = u]]
  <2>1. Request(P, p, c, s) = Q BY <1>2 DEF Request
  <2>2. u.set OBVIOUS
  <2> HIDE DEF u
  <2>3. /\ Q.job = P.job /\ Q.opening = P.opening
        /\ Q.queued = [P.queued EXCEPT ![p] = u]
    BY DEF PanelType
  <2> HIDE DEF Q
  <2>4. Q.queued[p].set /\ \A q \in Panes : P.queued[q].set => Q.queued[q].set
    BY <1>1, <2>2, <2>3
  <2>5. \A q \in Panes : Wants(P, q) => Wants(Q, q) BY <2>3, <2>4 DEF Wants
  <2> QED BY <1>2, <2>1, <2>3, <2>4, <2>5 DEF Wants, NoneLeft
<1>3. CASE P.job = Idle
  <2> DEFINE j == [pane |-> p, win |-> FetchRange(c), scroll |-> s, asked |-> FALSE,
                   since |-> ver]
             Q == [P EXCEPT !.job = j]
  <2>1. Request(P, p, c, s) = Q BY <1>3 DEF Request
  <2>2. j.pane = p OBVIOUS
  <2> HIDE DEF j
  <2>3. Q.job = j /\ Q.opening = P.opening /\ Q.queued = P.queued BY DEF PanelType
  <2> HIDE DEF Q
  <2>4. Idle.pane = "none" BY DEF Idle
  <2>5. j # Idle /\ \A q \in Panes : P.job.pane # q BY <1>3, <2>2, <2>4, PaneNames
  <2>6. \A q \in Panes : Wants(P, q) => Wants(Q, q) BY <2>3, <2>5 DEF Wants
  <2> QED BY <1>3, <2>1, <2>2, <2>3, <2>5, <2>6 DEF Wants, NoneLeft
<1> QED BY <1>2, <1>3

\* What is queued is served when the job ends, and the rest stays queued.
LEMMA DrainWants ==
  ASSUME NEW P \in PanelType, P.job = Idle
  PROVE  NoneLeft(Drain(P)) /\ \A q \in Panes : Wants(P, q) => Wants(Drain(P), q)
<1> DEFINE next == IF P.queued["mem"].set THEN "mem" ELSE "dis"
           Q == [P EXCEPT !.queued[next] = None]
           c == P.queued[next].center
           s == P.queued[next].scroll
<1>1. next \in Panes /\ P.queued \in [Panes -> WishType] /\ None \in WishType
  BY DEF PanelType, Panes, None, WishType
<1>2. Drain(P) = IF P.queued[next].set THEN Request(Q, next, c, s) ELSE P
  BY DEF Drain
<1>3. CASE ~P.queued[next].set
  <2>1. \A p \in Panes : ~P.queued[p].set BY <1>3, PaneNames
  <2>2. Drain(P) = P BY <1>2, <1>3
  <2> QED BY <2>1, <2>2 DEF NoneLeft
<1>4. CASE P.queued[next].set
  <2> HIDE DEF next, c, s
  <2>1. /\ Q \in PanelType /\ Q.job = P.job /\ Q.opening = P.opening
        /\ Q.queued = [P.queued EXCEPT ![next] = None]
    BY <1>1 DEF PanelType
  <2> HIDE DEF Q
  <2>2. \A q \in Panes : q # next => Q.queued[q] = P.queued[q] BY <1>1, <2>1
  <2>3. \A q \in Panes : q # next /\ Wants(P, q) => Wants(Q, q)
    BY <2>1, <2>2 DEF Wants
  <2>4. Drain(P) = Request(Q, next, c, s) BY <1>2, <1>4
  <2>5. /\ Wants(Drain(P), next) /\ NoneLeft(Drain(P))
        /\ \A q \in Panes : Wants(Q, q) => Wants(Drain(P), q)
    BY <1>1, <2>1, <2>4, RequestWants
  <2> QED BY <2>3, <2>5
<1> QED BY <1>3, <1>4

LEMMA OpenedWants ==
  ASSUME NEW P \in PanelType, NoneLeft(P)
  PROVE  /\ NoneLeft(Opened(P)) /\ \A q \in Panes : Wants(P, q) => Wants(Opened(P), q)
<1> DEFINE Q == [P EXCEPT !.opening = "done"]
<1>1. /\ Q \in PanelType /\ Q.job = P.job /\ Q.queued = P.queued
      /\ Q.opening = "done"
  BY DEF PanelType
<1>2. Opened(P) = IF P.opening = "mem" THEN Request(Q, "dis", Entry, Entry) ELSE P
  BY DEF Opened
<1> HIDE DEF Q
<1>3. CASE P.opening # "mem" BY <1>2, <1>3
<1>4. CASE P.opening = "mem"
  <2>1. \A q \in Panes : q # "dis" /\ Wants(P, q) => Wants(Q, q)
    BY <1>1, <1>4 DEF Wants
  <2>2. /\ Wants(Opened(P), "dis") /\ NoneLeft(Opened(P))
        /\ \A q \in Panes : Wants(Q, q) => Wants(Opened(P), q)
    BY <1>1, <1>2, <1>4, PaneNames, RequestWants
  <2> QED BY <2>1, <2>2
<1> QED BY <1>3, <1>4

\* The end of a job keeps the requests of the other pane.
LEMMA FinishWants ==
  ASSUME panel \in PanelType, panel.job # Idle, ver \in Int,
         NEW dump \in DumpType, NEW note \in {"ok", "unconnected"}, Finish(dump, note)
  PROVE  /\ NoneLeft(panel')
         /\ \A q \in Panes \ {panel.job.pane} : Wants(panel, q) => Wants(panel', q)
<1> DEFINE j == panel.job
           u == [win |-> j.win, start |-> j.scroll, dump |-> dump]
           st == [panel.state EXCEPT ![j.pane] = u]
           done == [panel EXCEPT !.state[j.pane] =
                      [win |-> j.win, start |-> j.scroll, dump |-> dump],
                    !.note = note, !.job = Idle]
<1>1. j \in WorkType /\ j.pane \in Panes BY JobType
<1>2. u \in PaneType BY <1>1 DEF WorkType, PaneType
<1>3. st \in [Panes -> PaneType]
  <2> HIDE DEF u
  <2> QED BY <1>1, <1>2 DEF PanelType
<1>4. panel' = Opened(Drain(done)) BY DEF Finish
<1>5. /\ done \in PanelType /\ done.job = Idle /\ done.queued = panel.queued
      /\ done.opening = panel.opening
  <2>1. done = [panel EXCEPT !.state = st, !.note = note, !.job = Idle]
    BY DEF PanelType
  <2> HIDE DEF st, done
  <2> QED BY <1>3, <2>1 DEF PanelType
<1> HIDE DEF done, st, u
<1>6. \A q \in Panes \ {j.pane} : Wants(panel, q) => Wants(done, q)
  BY <1>5 DEF Wants
<1>7. NoneLeft(Drain(done)) /\ \A q \in Panes : Wants(done, q) => Wants(Drain(done), q)
  BY <1>5, DrainWants
<1>8. Drain(done) \in PanelType BY <1>5, DrainType
<1>9. /\ NoneLeft(panel')
      /\ \A q \in Panes : Wants(Drain(done), q) => Wants(panel', q)
  BY <1>4, <1>7, <1>8, OpenedWants
<1> QED BY <1>6, <1>7, <1>9


\* A message to the panel: new windows are asked for in both panes, or the
\* windows stay, and a report that is not clear of its window is a request.
LEMMA ReceiveWants ==
  ASSUME HostInv, NoneLeft(panel), PanelReceives
  PROVE  LET msg == Head(toPanel) IN
         /\ toPanel # <<>> /\ toPanel' = Tail(toPanel) /\ view' = view
         /\ NoneLeft(panel')
         /\ \A q \in Panes : Wants(panel, q) => Wants(panel', q)
         /\ \/ \A q \in Panes : Wants(panel', q)
            \/ /\ toView' = toView
               /\ \A q \in Panes :
                    /\ panel'.state[q].win = panel.state[q].win
                    /\ msg.type = q => Wants(panel', q)
                                       \/ Clear(msg.first, msg.last, panel.state[q].win)
<1> DEFINE msg == Head(toPanel)
<1>1. /\ toPanel # <<>> /\ toPanel' = Tail(toPanel) /\ view' = view
      /\ panel \in PanelType /\ ver \in Int /\ msg \in ToPanelType
  BY DEF PanelReceives, HostInv, TypeOk, HostType, LinkOk, PagesOk
<1>2. msg.first \in Int /\ msg.last \in Int BY <1>1 DEF ToPanelType
<1>3. CASE OnReady
  <2> DEFINE st == [panel.state EXCEPT !["mem"].start = Entry, !["dis"].start = Entry]
             shown == [panel EXCEPT !.state["mem"].start = Entry,
                                    !.state["dis"].start = Entry]
             asked == Request(shown, "mem", Entry, Entry)
             more == [asked EXCEPT !.opening = "mem"]
  <2>1. panel' = IF panel.job = Idle THEN more ELSE Opened(more)
    BY <1>3 DEF OnReady
  <2>2. Entry \in Int BY Numbers
  <2>3. st \in [Panes -> PaneType]
    <3> DEFINE s1 == [panel.state EXCEPT !["mem"].start = Entry]
    <3>1. panel.state \in [Panes -> PaneType] BY <1>1 DEF PanelType
    <3>2. s1 \in [Panes -> PaneType] BY <2>2, <3>1, PaneNames DEF PaneType
    <3>3. st = [s1 EXCEPT !["dis"].start = Entry] OBVIOUS
    <3> HIDE DEF s1
    <3>4. [s1 EXCEPT !["dis"].start = Entry] \in [Panes -> PaneType]
      BY <2>2, <3>2, PaneNames DEF PaneType
    <3> QED BY <3>3, <3>4
  <2>4. shown = [panel EXCEPT !.state = st] BY <1>1, PaneNames DEF PanelType
  <2> HIDE DEF st, shown
  <2>5. shown \in PanelType BY <1>1, <2>3, <2>4 DEF PanelType
  <2>6. /\ asked \in PanelType
        /\ asked.job.pane = "mem" \/ asked.queued["mem"].set
        /\ asked.job # Idle
    BY <1>1, <2>2, <2>5, PaneNames, RequestType, RequestWants
  <2> HIDE DEF asked
  <2>7. /\ more \in PanelType /\ more.job = asked.job /\ more.queued = asked.queued
        /\ more.opening = "mem"
    BY <2>6 DEF PanelType
  <2> HIDE DEF more
  <2>8. Wants(more, "mem") /\ Wants(more, "dis") /\ NoneLeft(more)
    BY <2>6, <2>7 DEF Wants, NoneLeft
  <2>9. /\ NoneLeft(Opened(more)) /\ Wants(Opened(more), "mem")
        /\ Wants(Opened(more), "dis")
    BY <2>7, <2>8, PaneNames, OpenedWants
  <2>10. NoneLeft(panel') /\ \A q \in Panes : Wants(panel', q)
    <3>1. NoneLeft(panel') /\ Wants(panel', "mem") /\ Wants(panel', "dis")
      BY <2>1, <2>8, <2>9
    <3> QED BY <3>1, PaneNames
  <2> QED BY <1>1, <2>10
<1>4. CASE msg.type = "gotoMem" /\ panel' = Request(panel, "mem", msg.first, msg.first)
           /\ UNCHANGED toView
  <2> HIDE DEF msg
  <2>1. panel'.state = panel.state BY <1>1, <1>2, <1>4, PaneNames, RequestType
  <2>2. NoneLeft(panel') /\ \A q \in Panes : Wants(panel, q) => Wants(panel', q)
    BY <1>1, <1>4, PaneNames, RequestWants
  <2>3. \A q \in Panes : msg.type # q BY <1>4, PaneNames
  <2> QED BY <1>1, <1>4, <2>1, <2>2, <2>3 DEF msg
<1>5. CASE OnLoad(msg.first)
  <2> DEFINE e == msg.first
             st == [p \in Panes |-> Fresh(e)]
             loaded == [panel EXCEPT !.state = st, !.note = "waiting"]
             first == Request(loaded, "mem", e, e)
  <2>1. panel' = Request(first, "dis", e, e) BY <1>5 DEF OnLoad
  <2>2. e \in Int BY <1>2
  <2> HIDE DEF e
  <2>3. Fresh(e) \in PaneType
    <3>1. FetchRange(e) \in WinType BY <2>2, RangeType
    <3> QED BY <2>2, <3>1 DEF Fresh, PaneType, Zeros, DumpType
  <2>4. st \in [Panes -> PaneType] BY <2>3
  <2> HIDE DEF st
  <2>5. loaded \in PanelType BY <1>1, <2>4 DEF PanelType
  <2> HIDE DEF loaded
  <2>6. first \in PanelType /\ Wants(first, "mem")
    BY <1>1, <2>2, <2>5, PaneNames, RequestType, RequestWants
  <2> HIDE DEF first
  <2>7. NoneLeft(panel') /\ Wants(panel', "mem") /\ Wants(panel', "dis")
    BY <2>1, <2>6, PaneNames, RequestWants
  <2>8. \A q \in Panes : Wants(panel', q) BY <2>7, PaneNames
  <2> QED BY <1>1, <2>7, <2>8
<1>6. CASE msg.type \in Panes /\ OnScroll(msg.type, msg.first, msg.last)
  <2> DEFINE p == msg.type
             w == panel.state[p].win
             C == {x \in NextCenter(msg.first, msg.last, w) : FetchRange(x) # w}
             x == CHOOSE c \in C : TRUE
  <2>1. panel' = (IF C = {} THEN panel ELSE Request(panel, p, x, msg.first))
        /\ toView' = toView
    BY <1>6 DEF OnScroll
  <2>2. C \subseteq Int BY <1>2, CenterType
  <2>3. C # {} => x \in Int BY <2>2
  <2>4. C = {} => Clear(msg.first, msg.last, w) BY DEF Clear
  <2>5. p \in Panes BY <1>6
  <2> HIDE DEF C, x
  <2>6. CASE C = {}
    <3>1. panel' = panel BY <2>1, <2>6
    <3>2. \A q \in Panes : msg.type = q => Clear(msg.first, msg.last, panel.state[q].win)
      BY <2>4, <2>6
    <3> QED BY <1>1, <2>1, <3>1, <3>2
  <2>7. CASE C # {}
    <3> HIDE DEF p, msg
    <3>1. panel'.state = panel.state
      BY <1>1, <1>2, <2>1, <2>3, <2>5, <2>7, RequestType
    <3>2. /\ NoneLeft(panel') /\ Wants(panel', p)
          /\ \A q \in Panes : Wants(panel, q) => Wants(panel', q)
      BY <1>1, <2>1, <2>5, <2>7, RequestWants
    <3>3. \A q \in Panes : msg.type = q => Wants(panel', q) BY <3>2 DEF p
    <3> QED BY <1>1, <2>1, <3>1, <3>2, <3>3 DEF msg
  <2> QED BY <2>6, <2>7
<1> QED BY <1>3, <1>4, <1>5, <1>6 DEF PanelReceives

LEMMA PageQueues ==
  ASSUME HostInv PROVE Queue(toView) /\ Queue(toPanel)
BY DEF HostInv, TypeOk, PagesOk, Queue

\* The steps that leave the panel's windows and requests, the web view and
\* what is between them alone.
LEMMA SameRest ==
  ASSUME RestInv, HostInv', UNCHANGED viewVars, panel'.state = panel.state,
         NoneLeft(panel'), \A q \in Panes : Wants(panel, q) => Wants(panel', q)
  PROVE  RestInv'
BY DEF RestInv, viewVars, Settled, Synced, Active, Seen, Drawings, Reports

\* A window that was read is on its way to its pane.
LEMMA ReadRest ==
  ASSUME RestInv, TakeAnswer \/ ReadFails
  PROVE  RestInv'
<1> DEFINE j == panel.job
           m == Around(j.pane, j.win, j.win.lo, j.scroll)
<1>1. HostInv /\ HostInv' BY ReadHost DEF RestInv
<1>2. panel \in PanelType /\ ver \in Int /\ toView \in Seq(ToViewType)
  BY <1>1 DEF HostInv, TypeOk, HostType, LinkOk, PagesOk
<1>3. /\ panel.job # Idle /\ UNCHANGED <<toPanel, view>> BY <1>1, ReadSteps
<1>4. PICK dump \in DumpType, note \in {"ok", "unconnected"} : Finish(dump, note)
  <2>1. Zeros \in DumpType BY DEF Zeros, DumpType
  <2>2. CASE Finish(Zeros, "unconnected") BY <2>1, <2>2
  <2>3. CASE ~Finish(Zeros, "unconnected")
    <3> DEFINE r == Head(sock[Conn].out)
               d == [kind |-> "read", lo |-> r.byteAddr \div 2,
                     hi |-> (r.byteAddr + r.count) \div 2 - 1,
                     ver |-> r.ver, since |-> panel.job.since]
    <3>1. Finish(d, "ok") /\ sock[Conn].out # <<>> BY <1>1, <2>3, ReadSteps
    <3>2. Conn \in Socks BY <1>2 DEF PanelType, Conn
    <3>3. d \in DumpType BY <1>1, <1>3, <3>1, <3>2, DumpIs
    <3> HIDE DEF d
    <3> QED BY <3>1, <3>3
  <2> QED BY <2>2, <2>3
<1>5. /\ panel'.state = [panel.state EXCEPT ![j.pane] =
                           [win |-> j.win, start |-> j.scroll, dump |-> dump]]
      /\ toView' = Append(toView, m)
  BY <1>2, <1>3, <1>4, FinishType
<1>6. /\ NoneLeft(panel')
      /\ \A q \in Panes \ {j.pane} : Wants(panel, q) => Wants(panel', q)
  BY <1>2, <1>3, <1>4, FinishWants
<1>7. m.type = j.pane /\ m.lo = j.win.lo /\ m.hi = j.win.hi BY DEF Around
<1>8. j.pane \in Panes /\ panel.state \in [Panes -> PaneType]
  BY <1>2, <1>3, JobType DEF PanelType
<1>9. /\ panel'.state[j.pane].win = j.win
      /\ \A q \in Panes \ {j.pane} : panel'.state[q] = panel.state[q]
  BY <1>5, <1>8
<1>10. Put(toView, m, toView') BY <1>1, <1>5, PageQueues DEF Put
<1> HIDE DEF m
<1>11. ASSUME NEW p \in Panes, p = j.pane PROVE Settled(p)'
  <2> DEFINE T == {p, "state"}
  <2>1. m["type"] \in T BY <1>7, <1>11
  <2> HIDE DEF T
  <2>2. /\ At(toView', "type", T) # {}
        /\ \A k : LastOf(At(toView', "type", T), k) => toView'[k] = m
    BY <1>10, <2>1, LastBack
  <2>3. Drawings(p)' = At(toView', "type", T) BY DEF T, Drawings
  <2>4. Active(p)' BY <2>2, <2>3 DEF Active
  <2>5. panel'.state[p].win = j.win BY <1>9, <1>11
  <2> HIDE DEF j
  <2>6. Shows(m, panel'.state[p].win) /\ m.type = p
    BY <1>7, <1>11, <2>5 DEF Shows
  <2>7. Synced(p)'
    <3>1. ASSUME NEW k \in Drawings(p)', LastOf(Drawings(p)', k)
          PROVE  toView'[k].type = p /\ Shows(toView'[k], panel'.state[p].win)
      <4>1. toView'[k] = m BY <2>2, <2>3, <3>1
      <4> QED BY <2>6, <4>1
    <3> QED BY <2>2, <2>3, <3>1 DEF Synced
  <2> QED BY <2>4, <2>7 DEF Settled
<1>12. ASSUME NEW q \in Panes, q # j.pane PROVE Settled(q)'
  <2> DEFINE T == {q, "state"}
  <2>1. m["type"] \notin T BY <1>7, <1>8, <1>12, PaneNames
  <2> HIDE DEF T
  <2>2. /\ At(toView', "type", T) = At(toView, "type", T)
        /\ \A k \in At(toView, "type", T) : toView'[k] = toView[k]
    BY <1>10, <2>1, LastBack
  <2>3. /\ Drawings(q) = At(toView, "type", T) /\ Drawings(q)' = At(toView', "type", T)
    BY DEF T, Drawings
  <2>4. Reports(q)' = Reports(q) /\ view' = view /\ toPanel' = toPanel
    BY <1>3 DEF Reports
  <2>5. panel'.state[q] = panel.state[q] /\ (Wants(panel, q) => Wants(panel', q))
    BY <1>6, <1>9, <1>12
  <2>6. Settled(q) BY DEF RestInv
  <2> HIDE DEF j
  <2>7. Synced(q) => Synced(q)' BY <2>2, <2>3, <2>4, <2>5 DEF Synced
  <2>8. Active(q) => Active(q)' BY <2>2, <2>3, <2>4, <2>5 DEF Active
  <2>9. Seen(q) => Seen(q)' BY <2>4, <2>5 DEF Seen
  <2> QED BY <2>5, <2>6, <2>7, <2>8, <2>9 DEF Settled
<1> QED BY <1>1, <1>6, <1>11, <1>12 DEF RestInv

LEMMA ReceiveRest ==
  ASSUME RestInv, PanelReceives
  PROVE  RestInv'
<1> DEFINE msg == Head(toPanel)
<1>1. HostInv /\ NoneLeft(panel) BY DEF RestInv
<1>2. HostInv' BY <1>1, HostStep DEF Next, Panel
<1>3. /\ toPanel # <<>> /\ toPanel' = Tail(toPanel) /\ view' = view
      /\ NoneLeft(panel') /\ \A q \in Panes : Wants(panel, q) => Wants(panel', q)
  BY <1>1, ReceiveWants
<1>4. CASE \A q \in Panes : Wants(panel', q)
  BY <1>2, <1>3, <1>4 DEF RestInv, Settled, Active
<1>5. CASE /\ toView' = toView
           /\ \A q \in Panes :
                /\ panel'.state[q].win = panel.state[q].win
                /\ msg.type = q => Wants(panel', q)
                                   \/ Clear(msg.first, msg.last, panel.state[q].win)
  <2>1. ASSUME NEW q \in Panes PROVE Settled(q)'
    <3> DEFINE w == panel.state[q].win
               F == FirstSeen(view[q], q)
               L == LastSeen(view[q], q)
    <3>1. Settled(q) BY DEF RestInv
    <3>2. Synced(q) => Synced(q)' BY <1>3, <1>5 DEF Synced, Drawings
    <3>3. Active(q) => Active(q)' BY <1>3, <1>5 DEF Active, Drawings
    <3>4. Queue(toPanel) BY <1>1, PageQueues
    <3> DEFINE T == {q}
               A == At(toPanel, "type", T)
               B == At(toPanel', "type", T)
    <3> HIDE DEF T
    <3>5. /\ B = {} /\ msg["type"] \in T => \E k : LastOf(A, k) /\ toPanel[k] = msg
          /\ B = {} /\ msg["type"] \notin T => A = {}
          /\ \A k : LastOf(B, k) => LastOf(A, k + 1) /\ toPanel[k + 1] = toPanel'[k]
          /\ B # {} => A # {}
      BY <1>3, <3>4, LastFront
    <3>a. /\ Reports(q) = A /\ Reports(q)' = B /\ (msg["type"] \in T <=> msg.type = q)
      BY DEF Reports, T
    <3> HIDE DEF A, B
    <3>6. /\ Reports(q)' = {} /\ msg.type = q
               => \E k : LastOf(Reports(q), k) /\ toPanel[k] = msg
          /\ Reports(q)' = {} /\ msg.type # q => Reports(q) = {}
          /\ \A k : LastOf(Reports(q)', k)
               => LastOf(Reports(q), k + 1) /\ toPanel[k + 1] = toPanel'[k]
          /\ Reports(q)' # {} => Reports(q) # {}
      BY <3>5, <3>a
    <3> HIDE DEF msg
    <3>7. ASSUME Seen(q), ~Wants(panel', q) PROVE Seen(q)'
      <4>1. CASE Reports(q)' = {} /\ msg.type = q
        <5>1. PICK k : LastOf(Reports(q), k) /\ toPanel[k] = msg BY <3>6, <4>1
        <5>2. msg.first = F /\ msg.last = L BY <3>7, <5>1 DEF Seen, LastOf
        <5>3. Clear(msg.first, msg.last, w) BY <1>5, <3>7, <4>1
        <5>4. Clear(F, L, w) BY <5>2, <5>3
        <5> QED BY <1>3, <1>5, <4>1, <5>4 DEF Seen
      <4>2. CASE Reports(q)' = {} /\ msg.type # q
        BY <1>3, <1>5, <3>6, <3>7, <4>2 DEF Seen
      <4>3. CASE Reports(q)' # {}
        <5>1. ASSUME NEW k, LastOf(Reports(q)', k)
              PROVE  toPanel'[k].first = F /\ toPanel'[k].last = L
          <6>1. LastOf(Reports(q), k + 1) /\ toPanel[k + 1] = toPanel'[k]
            BY <3>6, <5>1
          <6> QED BY <3>6, <3>7, <4>3, <6>1 DEF Seen, LastOf
        <5> QED BY <1>3, <4>3, <5>1 DEF Seen
      <4> QED BY <4>1, <4>2, <4>3
    <3>8. Wants(panel', q) => Active(q)' BY DEF Active
    <3> QED BY <1>3, <3>1, <3>2, <3>3, <3>7, <3>8 DEF Settled
  <2> QED BY <1>2, <1>3, <2>1 DEF RestInv
<1> QED BY <1>1, <1>4, <1>5, ReceiveWants


LEMMA AskRest == ASSUME RestInv, AskHost PROVE RestInv'
<1>1. HostInv /\ HostInv' BY AskHostKeeps DEF RestInv
<1>2. /\ panel.job # Idle /\ panel'.state = panel.state
      /\ panel'.job = [panel.job EXCEPT !.asked = TRUE]
      /\ panel'.queued = panel.queued /\ panel'.opening = panel.opening
      /\ UNCHANGED viewVars
  BY <1>1, AskSteps
<1>3. panel.job \in WorkType /\ panel.job.pane \in Panes
  BY <1>1, <1>2, JobType DEF HostInv, TypeOk
<1>4. panel'.job.pane = panel.job.pane BY <1>2, <1>3 DEF WorkType
<1>5. panel'.job # Idle
  <2>1. Idle.pane = "none" BY DEF Idle
  <2> QED BY <1>3, <1>4, <2>1, PaneNames
<1>6. NoneLeft(panel') BY <1>5 DEF NoneLeft
<1>7. \A q \in Panes : Wants(panel, q) => Wants(panel', q) BY <1>2, <1>4 DEF Wants
<1> QED BY <1>1, <1>2, <1>6, <1>7, SameRest

\* A drawing that arrives is what the web view shows from now on.
LEMMA ViewRest == ASSUME RestInv, ViewReceives PROVE RestInv'
<1> DEFINE m == Head(toView)
<1>1. HostInv /\ PagesOk /\ NoneLeft(panel) BY DEF RestInv, HostInv, TypeOk
<1>2. HostInv' BY <1>1, HostStep DEF Next, WebView
<1>3. /\ toView # <<>> /\ toView' = Tail(toView)
      /\ toPanel' = toPanel /\ panel' = panel
      /\ \A p \in Panes :
           /\ m.type \notin {p, "state"} => view'[p] = view[p]
           /\ m.type = p => /\ view'[p].lo = m.lo /\ view'[p].hi = m.hi
                            /\ view'[p].frames # <<>>
  BY <1>1, ViewSteps
<1>4. Queue(toView) BY <1>1, PageQueues
<1>a. toView # <<>> /\ toView' = Tail(toView) BY <1>3
<1>5. ASSUME NEW q \in Panes PROVE Settled(q)'
  <2> DEFINE T == {q, "state"}
             A == At(toView, "type", T)
             B == At(toView', "type", T)
             w == panel.state[q].win
  <2>1. m["type"] \in T <=> m.type \in {q, "state"} OBVIOUS
  <2>2. A = Drawings(q) /\ B = Drawings(q)' BY DEF Drawings
  <2> HIDE DEF T
  <2>3. /\ B = {} /\ m["type"] \in T => \E k : LastOf(A, k) /\ toView[k] = m
        /\ B = {} /\ m["type"] \notin T => A = {}
        /\ \A k : LastOf(B, k) => LastOf(A, k + 1) /\ toView[k + 1] = toView'[k]
        /\ B # {} => A # {}
    BY <1>4, <1>a, LastFront
  <2> HIDE DEF A, B, m
  <2>4. CASE Wants(panel, q)
    <3>1. Wants(panel, q)' BY <1>3, <2>4
    <3> QED BY <3>1 DEF Settled, Active
  <2>5. CASE ~Wants(panel, q)
    <3>1. Synced(q) /\ (Active(q) \/ Seen(q)) BY <2>5 DEF RestInv, Settled
    <3>2. CASE B # {}
      <4>1. ASSUME NEW k, LastOf(B, k) PROVE toView'[k].type = q /\ Shows(toView'[k], w)
        <5>1. LastOf(A, k + 1) /\ toView[k + 1] = toView'[k] /\ A # {}
          BY <2>3, <3>2, <4>1
        <5> QED BY <2>2, <3>1, <5>1 DEF Synced, LastOf
      <4>2. Synced(q)' BY <1>3, <2>2, <3>2, <4>1 DEF Synced
      <4>3. Active(q)' BY <2>2, <3>2 DEF Active
      <4> QED BY <4>2, <4>3 DEF Settled
    <3>3. CASE B = {} /\ m.type \notin {q, "state"}
      <4>1. A = {} /\ view'[q] = view[q] BY <1>3, <2>1, <2>3, <3>3
      <4>2. Synced(q)' BY <1>3, <2>2, <3>1, <3>3, <4>1 DEF Synced
      <4>3. Active(q) => Active(q)' BY <1>3, <2>2, <4>1 DEF Active
      <4>4. Seen(q) => Seen(q)' BY <1>3, <4>1 DEF Seen, Reports
      <4> QED BY <3>1, <4>2, <4>3, <4>4 DEF Settled
    <3>4. CASE B = {} /\ m.type \in {q, "state"}
      <4>1. PICK k : LastOf(A, k) /\ toView[k] = m BY <2>1, <2>3, <3>4
      <4>2. m.type = q /\ Shows(m, w) BY <2>2, <3>1, <4>1 DEF Synced, LastOf
      <4>3. /\ view'[q].lo = m.lo /\ view'[q].hi = m.hi /\ view'[q].frames # <<>>
        BY <1>3, <4>2
      <4>4. Synced(q)' BY <1>3, <2>2, <3>4, <4>2, <4>3 DEF Synced, Shows
      <4>5. Active(q)' BY <4>3 DEF Active
      <4> QED BY <4>4, <4>5 DEF Settled
    <3> QED BY <3>2, <3>3, <3>4
  <2> QED BY <2>4, <2>5
<1> QED BY <1>1, <1>2, <1>3, <1>5 DEF RestInv

\* A report that is sent says what is seen.
LEMMA ReportRest ==
  ASSUME RestInv, NEW p \in Panes, Frame(p) \/ TimerFires(p) PROVE RestInv'
<1> DEFINE m == [type |-> p, first |-> FirstSeen(view'[p], p),
                 last |-> LastSeen(view'[p], p)]
<1>1. HostInv /\ PagesOk /\ NoneLeft(panel) BY DEF RestInv, HostInv, TypeOk
<1>2. HostInv' BY <1>1, HostStep DEF Next, WebView
<1>3. /\ view'[p].lo = view[p].lo /\ view'[p].hi = view[p].hi
      /\ \A q \in Panes \ {p} : view'[q] = view[q]
      /\ toPanel' = Append(toPanel, m) /\ panel' = panel /\ toView' = toView
  BY <1>1, ReportSteps
<1>4. Put(toPanel, m, toPanel') BY <1>1, <1>3, PageQueues DEF Put
<1>5. /\ m.type = p /\ m.first = FirstSeen(view'[p], p)
      /\ m.last = LastSeen(view'[p], p)
  OBVIOUS
<1> HIDE DEF m
<1>6. Settled(p)'
  <2> DEFINE T == {p}
  <2>1. m["type"] \in T BY <1>5
  <2>2. Reports(p)' = At(toPanel', "type", T) BY DEF Reports
  <2> HIDE DEF T
  <2>3. /\ At(toPanel', "type", T) # {}
        /\ \A k : LastOf(At(toPanel', "type", T), k) => toPanel'[k] = m
    BY <1>4, <2>1, LastBack
  <2>4. Seen(p)'
    <3>1. ASSUME NEW k \in Reports(p)', LastOf(Reports(p)', k)
          PROVE  /\ toPanel'[k].first = FirstSeen(view'[p], p)
                 /\ toPanel'[k].last = LastSeen(view'[p], p)
      <4>1. toPanel'[k] = m BY <2>2, <2>3, <3>1
      <4> QED BY <1>5, <4>1
    <3> QED BY <2>2, <2>3, <3>1 DEF Seen
  <2>5. Wants(panel, p) \/ Synced(p) BY DEF RestInv, Settled
  <2>6. Synced(p) => Synced(p)' BY <1>3 DEF Synced, Drawings, Shows
  <2>7. Wants(panel, p)' <=> Wants(panel, p) BY <1>3
  <2> QED BY <2>4, <2>5, <2>6, <2>7 DEF Settled
<1>7. ASSUME NEW q \in Panes, q # p PROVE Settled(q)'
  <2> DEFINE T == {q}
  <2>1. m["type"] \notin T BY <1>5, <1>7
  <2>2. /\ Reports(q)' = At(toPanel', "type", T) /\ Reports(q) = At(toPanel, "type", T)
    BY DEF Reports
  <2> HIDE DEF T
  <2>3. /\ At(toPanel', "type", T) = At(toPanel, "type", T)
        /\ \A k \in At(toPanel, "type", T) : toPanel'[k] = toPanel[k]
    BY <1>4, <2>1, LastBack
  <2>4. view'[q] = view[q] /\ panel' = panel BY <1>3, <1>7
  <2>5. Seen(q) => Seen(q)' BY <2>2, <2>3, <2>4 DEF Seen
  <2>6. Synced(q) => Synced(q)' BY <1>3, <2>4 DEF Synced, Drawings
  <2>7. Active(q) => Active(q)' BY <1>3, <2>4 DEF Active, Drawings
  <2>8. Settled(q) /\ (Wants(panel, q)' <=> Wants(panel, q)) BY <2>4 DEF RestInv
  <2> QED BY <2>5, <2>6, <2>7, <2>8 DEF Settled
<1> QED BY <1>1, <1>2, <1>3, <1>6, <1>7 DEF RestInv

\* The user's scroll starts the timer of a report.
LEMMA ScrollRest ==
  ASSUME RestInv, NEW p \in Panes, UserScrolls(p) PROVE RestInv'
<1>1. HostInv /\ PagesOk /\ NoneLeft(panel) BY DEF RestInv, HostInv, TypeOk
<1>2. HostInv' BY <1>1, HostStep DEF Next, Environment
<1>3. /\ view'[p].lo = view[p].lo /\ view'[p].hi = view[p].hi /\ view'[p].timer
      /\ \A q \in Panes \ {p} : view'[q] = view[q]
      /\ panel' = panel /\ toView' = toView /\ toPanel' = toPanel
  BY <1>1, ScrollSteps DEF OtherVars
<1>4. ASSUME NEW q \in Panes PROVE Settled(q)'
  <2>1. Settled(q) /\ (Wants(panel, q)' <=> Wants(panel, q)) BY <1>3 DEF RestInv
  <2>2. view'[q].lo = view[q].lo /\ view'[q].hi = view[q].hi BY <1>3
  <2>3. Synced(q) => Synced(q)' BY <1>3, <2>2 DEF Synced, Drawings, Shows
  <2>4. CASE q = p
    <3>1. Active(q)' BY <1>3, <2>4 DEF Active
    <3> QED BY <2>1, <2>3, <3>1 DEF Settled
  <2>5. CASE q # p
    <3>1. view'[q] = view[q] BY <1>3, <2>5
    <3>2. Active(q) => Active(q)' BY <1>3, <3>1 DEF Active, Drawings
    <3>3. Seen(q) => Seen(q)' BY <1>3, <3>1 DEF Seen, Reports
    <3> QED BY <2>1, <2>3, <3>2, <3>3 DEF Settled
  <2> QED BY <2>4, <2>5
<1> QED BY <1>1, <1>2, <1>3, <1>4 DEF RestInv

LEMMA UserRest == ASSUME RestInv, UserAsks PROVE RestInv'
<1>1. HostInv /\ PagesOk /\ NoneLeft(panel) BY DEF RestInv, HostInv, TypeOk
<1>2. HostInv' BY <1>1, HostStep DEF Next, Environment
<1>3. view' = view /\ panel' = panel /\ toView' = toView
  BY <1>1, AskTypes DEF OtherVars
<1>4. PICK m \in ToPanelType : m.type \notin Panes /\ toPanel' = Append(toPanel, m)
  BY <1>1, AskTypes
<1>5. Put(toPanel, m, toPanel') BY <1>1, <1>4, PageQueues DEF Put
<1>6. ASSUME NEW q \in Panes PROVE Settled(q)'
  <2> DEFINE T == {q}
  <2>1. m["type"] \notin T BY <1>4
  <2>2. /\ Reports(q)' = At(toPanel', "type", T) /\ Reports(q) = At(toPanel, "type", T)
    BY DEF Reports
  <2> HIDE DEF T
  <2>3. /\ At(toPanel', "type", T) = At(toPanel, "type", T)
        /\ \A k \in At(toPanel, "type", T) : toPanel'[k] = toPanel[k]
    BY <1>5, <2>1, LastBack
  <2>4. Seen(q) => Seen(q)' BY <1>3, <2>2, <2>3 DEF Seen
  <2>5. Synced(q) => Synced(q)' BY <1>3 DEF Synced, Drawings
  <2>6. Active(q) => Active(q)' BY <1>3 DEF Active, Drawings
  <2>7. Settled(q) /\ (Wants(panel, q)' <=> Wants(panel, q)) BY <1>3 DEF RestInv
  <2> QED BY <2>4, <2>5, <2>6, <2>7 DEF Settled
<1> QED BY <1>1, <1>2, <1>3, <1>6 DEF RestInv


LEMMA RestStep == ASSUME RestInv, [Next]_vars PROVE RestInv'
<1>1. HostInv /\ HostInv' /\ NoneLeft(panel) BY HostStep DEF RestInv
<1>2. ASSUME UNCHANGED <<panel, viewVars>> PROVE RestInv'
  <2>1. panel' = panel BY <1>2
  <2>2. NoneLeft(panel') /\ panel'.state = panel.state BY <1>1, <2>1
  <2>3. \A q \in Panes : Wants(panel, q) => Wants(panel', q) BY <2>1
  <2> QED BY <1>1, <1>2, <2>2, <2>3, SameRest
<1>3. CASE Host BY <1>2, <1>3 DEF Host
<1>4. CASE Client \/ ReadFails BY <1>4, AskRest, ReadRest DEF Client
<1>5. CASE Panel BY <1>5, ReceiveRest DEF Panel
<1>6. CASE WebView BY <1>6, ViewRest, ReportRest DEF WebView
<1>7. CASE Environment
  <2>1. CASE HostCloses BY <1>2, <2>1 DEF HostCloses
  <2> QED BY <1>2, <1>7, <2>1, UserRest, ScrollRest DEF Environment
<1>8. CASE UNCHANGED vars BY <1>2, <1>8 DEF vars
<1> QED BY <1>3, <1>4, <1>5, <1>6, <1>7, <1>8 DEF Next

\* When nothing is on its way, every pane shows its window and the user's
\* place is clear of the window's edges: no request and no scroll is lost
\* while a window is fetched (debugPanel.ts requestMemWindow(),
\* requestDisasmWindow(), drainIoQueue(), and the reports of debug.js).
THEOREM RestCovered == Spec => []RestIsCovered
<1>1. Init => RestInv
  <2> SUFFICES ASSUME Init PROVE RestInv OBVIOUS
  <2>1. HostInv BY HostStart
  <2>2. panel.opening = "wait" /\ \A p \in Panes : panel.queued[p] = None
    BY DEF Init
  <2>3. NoneLeft(panel) BY <2>2 DEF NoneLeft, None
  <2>4. \A p \in Panes : Settled(p) BY <2>2 DEF Settled, Active, Wants
  <2> QED BY <2>1, <2>3, <2>4 DEF RestInv
<1>2. RestInv => RestIsCovered
  <2> SUFFICES ASSUME RestInv, Rest, NEW p \in Panes
               PROVE  LET v == view[p]
                          w == panel.state[p].win
                      IN /\ ~panel.queued[p].set
                         /\ v.lo = w.lo /\ v.hi = w.hi
                         /\ Clear(FirstSeen(v, p), LastSeen(v, p), w)
    BY DEF RestIsCovered, Clear
  <2>1. /\ panel.job = Idle /\ panel.opening = "done" /\ toPanel = <<>> /\ toView = <<>>
        /\ view[p].frames = <<>> /\ ~view[p].timer
    BY DEF Rest
  <2>2. ~panel.queued[p].set BY <2>1 DEF RestInv, NoneLeft
  <2>3. panel.job.pane # p BY <2>1, PaneNames DEF Idle
  <2>4. ~Wants(panel, p) BY <2>1, <2>2, <2>3 DEF Wants
  <2>5. Drawings(p) = {} /\ Reports(p) = {}
    <3>1. DOMAIN <<>> = {} OBVIOUS
    <3> QED BY <2>1, <3>1 DEF Drawings, Reports, At
  <2>6. Synced(p) /\ Seen(p) BY <2>1, <2>4, <2>5 DEF RestInv, Settled, Active
  <2> QED BY <2>2, <2>5, <2>6 DEF Synced, Seen, Shows
<1> QED BY <1>1, <1>2, RestStep, PTL DEF Spec


-----------------------------------------------------------------------------
(* The panel is given the window it asked for.                             *)

\* A command or a result on the link is that of the frame of its id.
Meant(m) == m.id \in DOMAIN pending =>
              /\ m.addr = LinkAddr(pending[m.id].frame)
              /\ m.cmd = pending[m.id].frame.cmd
Fits(r) == r.id \in DOMAIN pending /\ r.ok /\ pending[r.id].frame.cmd # "halt" =>
             r.byteAddr = LinkAddr(pending[r.id].frame) * 2
LinkSays == /\ \A m \in Range(linkQ) : Meant(m)
            /\ \A m \in Range(bus) : Meant(m)
            /\ \A r \in Range(results) : Fits(r)

\* Frame f of connection s: still to be read by the host, asked for on the
\* link, or answered; what is read for it is not older than v.
Good(a, f, v) == a.status = "OK" =>
                   a.byteAddr = f.byteAddr /\ a.count = f.count /\ a.ver >= v
ToCome(s, f) == sock[s].in = <<f>> /\ ~sock[s].busy /\ sock[s].out = <<>>
Underway(s, f, v) ==
  /\ sock[s].in = <<>> /\ sock[s].busy /\ sock[s].out = <<>>
  /\ \A i \in Waits(s) :
       /\ pending[i].frame = f
       /\ \A r \in Range(results) : r.id = i => r.ver >= v
Here(s, f, v) == /\ sock[s].in = <<>> /\ ~sock[s].busy
                 /\ \E a \in ReplyType : sock[s].out = <<a>> /\ Good(a, f, v)
Spare(s) == sock[s].in = <<>> /\ ~sock[s].busy /\ sock[s].out = <<>>
Cared(s, f, v) == ToCome(s, f) \/ Underway(s, f, v) \/ Here(s, f, v)

\* The connection in use carries the frame of the job and nothing else.
ClientOk == Connected => IF Reading THEN Cared(Conn, JobFrame, panel.job.since)
                         ELSE Spare(Conn)
SinceOk == panel.job # Idle => panel.job.since <= ver
ShownInv == HostInv /\ LinkSays /\ ClientOk /\ SinceOk /\ ShowsWhatWasAsked

Mn1613 == CpuType = "MN1613"

LEMMA LinkQueues == ASSUME HostInv PROVE Queue(linkQ) /\ Queue(bus) /\ Queue(results)
BY DEF HostInv, TypeOk, HostType, LinkOk, Queue

\* A command that is sent is that of its frame; nothing was sent for its id.
LEMMA SendSays ==
  ASSUME HostInv, LinkSays, NEW S, S \subseteq Socks, NEW f \in FrameType, Send(S, f),
         UNCHANGED <<bus, results>>
  PROVE  LinkSays' /\ \A r \in Range(results) : r.id # nextId
<1>1. /\ nextId \in Nat /\ nextId \notin DOMAIN pending
      /\ DOMAIN pending' = DOMAIN pending \union {nextId}
      /\ pending'[nextId] = [socks |-> S, frame |-> f]
      /\ \A i \in DOMAIN pending : pending'[i] = pending[i]
  BY SendPlaces
<1>2. PICK n : n = nextId OBVIOUS
<1>3. PICK m : m = [id |-> n, cmd |-> f.cmd, addr |-> LinkAddr(f), slot |-> f.slot]
  OBVIOUS
<1>4. m.id = n /\ m.cmd = f.cmd /\ m.addr = LinkAddr(f) BY <1>3
<1>5. Put(linkQ, m, linkQ') BY <1>2, <1>3, LinkQueues DEF Put, Send
<1>6. /\ \A x \in Range(linkQ) : x.id # n
      /\ \A x \in Range(bus) : x.id # n
      /\ \A x \in Range(results) : x.id # n
  <2>1. Nowhere(n) BY <1>1, <1>2 DEF HostInv, Placed
  <2> QED BY <2>1 DEF Nowhere, Of, Range
<1>7. pending'[n].frame = f BY <1>1, <1>2
<1>8. \A i \in DOMAIN pending' : i # n => i \in DOMAIN pending /\ pending'[i] = pending[i]
  BY <1>1, <1>2
<1>9. \A x \in Range(linkQ') : x = m \/ x \in Range(linkQ) BY <1>5, HeldBack
<1>10. \A x \in Range(linkQ') : Meant(x)'
  BY <1>4, <1>6, <1>7, <1>8, <1>9 DEF LinkSays, Meant
<1>11. \A x \in Range(bus) : Meant(x)' BY <1>6, <1>8 DEF LinkSays, Meant
<1>12. \A x \in Range(results) : Fits(x)' BY <1>6, <1>8 DEF LinkSays, Fits
<1> QED BY <1>2, <1>6, <1>10, <1>11, <1>12 DEF LinkSays

\* An answer, and the CPU board, leave the commands what they are.
LEMMA AnswerSays ==
  ASSUME HostInv, LinkSays, Answer
  PROVE  LinkSays' /\ Range(results') \subseteq Range(results)
<1>1. /\ DOMAIN pending' \subseteq DOMAIN pending
      /\ \A i \in DOMAIN pending' : pending'[i] = pending[i]
  BY AnswerPlaces
<1>2. linkQ' = linkQ /\ bus' = bus /\ results # <<>> /\ results' = Tail(results)
  BY DEF Answer
<1>3. Range(results') \subseteq Range(results) BY <1>2, LinkQueues, HeldFront
<1> QED BY <1>1, <1>2, <1>3 DEF LinkSays, Meant, Fits

LEMMA BoardSays ==
  ASSUME HostInv, LinkSays, Mn1613, CpuTakes \/ ServeBus \/ FailBus
  PROVE  LinkSays' /\ \A r \in Range(results') : r \in Range(results) \/ r.ver = ver'
<1>1. LinkOk BY DEF HostInv, TypeOk, HostType
<1>2. /\ pending' = pending
      /\ ToBus \/ \E m \in ResultType : m.ver = ver' /\ (Halts(m) \/ Serves(m))
  BY <1>1, BoardSteps
<1>3. CASE ToBus
  <2>1. PICK m : m = Head(linkQ) OBVIOUS
  <2>2. linkQ # <<>> /\ linkQ' = Tail(linkQ) /\ results' = results
    BY <1>3 DEF ToBus
  <2>3. Put(bus, m, bus') BY <1>3, <2>1, LinkQueues DEF ToBus, Put
  <2>4. m \in Range(linkQ) /\ Range(linkQ') \subseteq Range(linkQ)
    BY <2>1, <2>2, LinkQueues, HeldFront
  <2>5. \A x \in Range(bus') : x \in Range(bus) \/ x \in Range(linkQ)
    BY <2>3, <2>4, HeldBack
  <2> QED BY <1>2, <2>2, <2>4, <2>5 DEF LinkSays, Meant, Fits
<1>4. ASSUME NEW m \in ResultType, m.ver = ver', Halts(m) \/ Serves(m)
      PROVE  LinkSays' /\ \A r \in Range(results') : r \in Range(results) \/ r.ver = ver'
  <2>1. Put(results, m, results') BY <1>4, LinkQueues DEF Halts, Serves, Put
  <2>2. \A r \in Range(results') : r \in Range(results) \/ r = m BY <2>1, HeldBack
  <2>3. Range(linkQ') \subseteq Range(linkQ) /\ Range(bus') \subseteq Range(bus)
    BY <1>4, LinkQueues, HeldFront DEF Halts, Serves
  <2>4. Fits(m)
    <3>1. CASE Halts(m)
      <4>1. Head(linkQ) \in Range(linkQ) /\ Head(linkQ).cmd = "halt"
            /\ m.id = Head(linkQ).id
        BY <3>1, LinkQueues, HeldFront DEF Halts
      <4> QED BY <4>1 DEF LinkSays, Meant, Fits
    <3>2. CASE Serves(m)
      <4>1. /\ Head(bus) \in Range(bus) /\ m.id = Head(bus).id
            /\ m.ok => m.byteAddr = Head(bus).addr * 2
        BY <3>2, LinkQueues, HeldFront DEF Serves, PanelAddrToByteAddr, Mn1613
      <4> QED BY <4>1 DEF LinkSays, Meant, Fits
    <3> QED BY <1>4, <3>1, <3>2
  <2>5. LinkSays' BY <1>2, <2>2, <2>3, <2>4 DEF LinkSays, Meant, Fits
  <2> QED BY <1>4, <2>2, <2>5
<1> QED BY <1>2, <1>3, <1>4


\* What is asked for on a connection stays what is asked for, when it is a
\* read of whole words.
Words(f) == f.cmd = "read" /\ f.byteAddr = LinkAddr(f) * 2

LEMMA PumpCared ==
  ASSUME HostInv, LinkSays, NEW t \in Socks, Pump(t), NEW s \in Socks, NEW f \in FrameType,
         NEW v
  PROVE  /\ LinkSays'
         /\ sock[s].open /\ Cared(s, f, v) => Cared(s, f, v)'
         /\ Spare(s) => Spare(s)'
<1> DEFINE k == sock[t]
           g == Head(k.in)
<1>1. /\ ~k.busy /\ k.in # <<>> /\ g \in FrameType
      /\ sock'[t].in = Tail(k.in)
      /\ \A u \in Socks \ {t} : sock'[u] = sock[u]
      /\ \/ /\ sock'[t].busy = k.busy /\ UNCHANGED linkVars
            /\ sock'[t].out = IF k.open THEN Append(k.out, Reply(g, "NG", 0, 0)) ELSE k.out
         \/ /\ sock'[t].busy /\ sock'[t].out = k.out
            /\ Send({t}, g) /\ UNCHANGED <<bus, results>>
  BY PumpSteps
<1> HIDE DEF k, g
<1>2. {t} \subseteq Socks OBVIOUS
<1>3. /\ LinkSays'
      /\ \/ UNCHANGED linkVars
         \/ /\ \A u : u # t => Waits(u)' = Waits(u)
            /\ Waits(t)' = Waits(t) \union {nextId}
            /\ pending'[nextId].frame = g
            /\ \A i \in DOMAIN pending : pending'[i] = pending[i]
            /\ \A r \in Range(results) : r.id # nextId
            /\ results' = results
  <2>1. CASE UNCHANGED linkVars
    BY <2>1 DEF LinkSays, Meant, Fits, linkVars
  <2>2. CASE Send({t}, g) /\ UNCHANGED <<bus, results>>
    <3>1. LinkSays' /\ \A r \in Range(results) : r.id # nextId
      BY <1>1, <1>2, <2>2, SendSays
    <3>2. /\ pending'[nextId] = [socks |-> {t}, frame |-> g]
          /\ \A i \in DOMAIN pending : pending'[i] = pending[i]
      BY <1>1, <1>2, <2>2, SendPlaces
    <3>3. \A u : u # t => Waits(u)' = Waits(u)
      <4>1. ASSUME NEW u, u # t PROVE Waits(u)' = Waits(u)
        <5>1. u \notin {t} BY <4>1
        <5> QED BY <1>1, <1>2, <2>2, <5>1, SendWaits
      <4> QED BY <4>1
    <3>4. Waits(t)' = Waits(t) \union {nextId}
      <4>1. t \in {t} OBVIOUS
      <4> QED BY <1>1, <1>2, <2>2, <4>1, SendWaits
    <3> QED BY <2>2, <3>1, <3>2, <3>3, <3>4
  <2> QED BY <1>1, <2>1, <2>2
<1>4. CASE s # t
  <2>1. sock'[s] = sock[s] BY <1>1, <1>4
  <2>2. /\ Waits(s)' = Waits(s) /\ results' = results
        /\ \A i \in Waits(s) : pending'[i] = pending[i]
    BY <1>3, <1>4 DEF Waits, linkVars
  <2> QED BY <1>3, <2>1, <2>2 DEF Cared, ToCome, Underway, Here, Spare
<1>5. CASE s = t
  <2>1. ~Spare(s) BY <1>1, <1>5 DEF Spare, k
  <2>2. ASSUME Cared(s, f, v), sock[s].open PROVE Cared(s, f, v)'
    <3>1. k.in = <<f>> /\ k.out = <<>> /\ k.open
      BY <1>1, <1>5, <2>2 DEF Cared, ToCome, Underway, Here, k
    <3>2. g = f /\ Tail(k.in) = <<>> BY <3>1 DEF g
    <3>3. CASE sock'[t].busy = k.busy /\ UNCHANGED linkVars
               /\ sock'[t].out = Append(k.out, Reply(g, "NG", 0, 0))
      <4>1. Reply(f, "NG", 0, 0) \in ReplyType /\ Good(Reply(f, "NG", 0, 0), f, v)
        BY DEF Reply, ReplyType, Good, FrameType
      <4>2. sock'[s].out = <<Reply(f, "NG", 0, 0)>> BY <1>5, <3>1, <3>2, <3>3
      <4>3. sock'[s].in = <<>> /\ ~sock'[s].busy BY <1>1, <1>5, <3>2, <3>3
      <4>4. Here(s, f, v)' BY <4>1, <4>2, <4>3 DEF Here, Good
      <4> QED BY <4>4 DEF Cared
    <3>4. CASE sock'[t].busy /\ sock'[t].out = k.out
               /\ Send({t}, g) /\ UNCHANGED <<bus, results>>
      <4>1. Waits(s) = {} BY <1>1, <1>5 DEF HostInv, Waiting, k
      <4>2. PICK n : n = nextId OBVIOUS
      <4>3. /\ n \notin DOMAIN pending /\ n \in DOMAIN pending'
            /\ pending'[n] = [socks |-> {t}, frame |-> g]
            /\ \A r \in Range(results) : r.id # n
        BY <1>1, <1>2, <3>4, <4>2, SendPlaces, SendSays
      <4>4. Waits(s)' = {n}
        <5>1. t \in {t} OBVIOUS
        <5>2. Waits(t)' = Waits(t) \union {n}
          BY <1>1, <1>2, <3>4, <4>2, <5>1, SendWaits
        <5> QED BY <1>5, <4>1, <5>2
      <4>5. pending'[n].frame = f BY <3>2, <4>3
      <4>6. sock'[s].in = <<>> /\ sock'[s].busy /\ sock'[s].out = <<>>
        BY <1>1, <1>5, <3>1, <3>2, <3>4
      <4>7. Underway(s, f, v)' BY <3>4, <4>3, <4>4, <4>5, <4>6 DEF Underway
      <4> QED BY <4>7 DEF Cared
    <3> QED BY <1>1, <3>1, <3>3, <3>4
  <2> QED BY <1>3, <2>1, <2>2
<1> QED BY <1>4, <1>5

LEMMA AnswerCared ==
  ASSUME HostInv, LinkSays, Answer, NEW s \in Socks, NEW f \in FrameType, NEW v,
         Words(f)
  PROVE  /\ LinkSays'
         /\ sock[s].open /\ Cared(s, f, v) => Cared(s, f, v)'
         /\ Spare(s) => Spare(s)'
<1>1. PICK r : r = Head(results) OBVIOUS
<1>2. PICK a : a = Reply(pending[r.id].frame, IF r.ok THEN "OK" ELSE "NG", r.byteAddr, r.ver)
  OBVIOUS
<1>3. /\ a \in ReplyType /\ results' = Tail(results)
      /\ s \in pending[r.id].socks <=> r.id \in Waits(s)
      /\ s \notin pending[r.id].socks => sock'[s] = sock[s]
      /\ s \in pending[r.id].socks =>
           /\ sock[s].busy /\ ~sock'[s].busy
           /\ sock'[s].in = sock[s].in
           /\ sock'[s].out = IF sock[s].open THEN Append(sock[s].out, a) ELSE sock[s].out
  BY <1>1, <1>2, AnswerSteps
<1>4. LinkSays' /\ Range(results') \subseteq Range(results) BY AnswerSays
<1>5. r \in Range(results) /\ r.id \in DOMAIN pending /\ r \in ResultType
  BY <1>1, LinkQueues, HeldFront, AnswerPlaces DEF Answer
<1>6. CASE r.id \notin Waits(s)
  <2>1. sock'[s] = sock[s] BY <1>3, <1>6
  <2>2. Waits(s)' = Waits(s) /\ \A i \in Waits(s)' : pending'[i] = pending[i]
    BY <1>1, <1>6, AnswerWaits, AnswerPlaces DEF Waits
  <2> QED BY <1>4, <2>1, <2>2 DEF Cared, ToCome, Underway, Here, Spare
<1>7. CASE r.id \in Waits(s)
  <2>1. sock[s].busy BY <1>3, <1>7
  <2>2. ASSUME sock[s].open, Cared(s, f, v) PROVE Cared(s, f, v)'
    <3>1. Underway(s, f, v) BY <2>1, <2>2 DEF Cared, ToCome, Here
    <3>2. /\ pending[r.id].frame = f /\ r.ver >= v
          /\ sock[s].in = <<>> /\ sock[s].out = <<>>
      BY <1>5, <1>7, <3>1 DEF Underway
    <3>3. sock'[s].in = <<>> /\ ~sock'[s].busy /\ sock'[s].out = <<a>>
      BY <1>3, <1>7, <2>2, <3>2
    <3>4. r.ok => r.byteAddr = f.byteAddr
      BY <1>4, <1>5, <3>2 DEF LinkSays, Fits, Words
    <3>5. Good(a, f, v)
      BY <1>2, <3>2, <3>4 DEF Good, Reply
    <3>6. Here(s, f, v)' BY <1>3, <3>3, <3>5 DEF Here, Good
    <3> QED BY <3>6 DEF Cared
  <2> QED BY <1>4, <2>1, <2>2 DEF Spare
<1> QED BY <1>6, <1>7

LEMMA BoardCared ==
  ASSUME HostInv, LinkSays, Mn1613, CpuTakes \/ ServeBus \/ FailBus,
         NEW s \in Socks, NEW f \in FrameType, NEW v \in Int, v <= ver
  PROVE  /\ LinkSays'
         /\ Cared(s, f, v) => Cared(s, f, v)'
         /\ Spare(s) => Spare(s)'
<1>1. LinkOk /\ ver \in Int BY DEF HostInv, TypeOk, HostType, LinkOk
<1>2. UNCHANGED <<sock, pending>> /\ ver' \in Int /\ ver' >= ver BY <1>1, BoardSteps
<1>3. LinkSays' /\ \A r \in Range(results') : r \in Range(results) \/ r.ver = ver'
  BY BoardSays
<1>4. ver' >= v BY <1>1, <1>2
<1>5. Waits(s)' = Waits(s) BY <1>2 DEF Waits
<1> QED BY <1>2, <1>3, <1>4, <1>5 DEF Cared, ToCome, Underway, Here, Spare

LEMMA OtherCared ==
  ASSUME HostInv, LinkSays, PcSends \/ ConsoleHalts,
         NEW s \in Socks, s # 0, NEW f \in FrameType, NEW v
  PROVE  /\ LinkSays'
         /\ Cared(s, f, v) => Cared(s, f, v)'
         /\ Spare(s) => Spare(s)'
<1>1. CASE PcSends
  <2>1. sock'[s] = sock[s] /\ UNCHANGED linkVars BY <1>1, PcSteps
  <2>2. LinkSays' BY <2>1 DEF LinkSays, Meant, Fits, linkVars
  <2> QED BY <2>1, <2>2
        DEF Cared, ToCome, Underway, Here, Spare, Waits, linkVars
<1>2. CASE ConsoleHalts
  <2>1. PICK g \in FrameType : Send({}, g) BY <1>2, ConsoleSteps
  <2>2. UNCHANGED <<sock, bus, results>> /\ Waits(s)' = Waits(s) BY <1>2, ConsoleSteps
  <2>3. {} \subseteq Socks OBVIOUS
  <2>4. LinkSays' /\ \A i \in DOMAIN pending : pending'[i] = pending[i]
    BY <2>1, <2>2, <2>3, SendSays, SendPlaces
  <2> QED BY <2>2, <2>4 DEF Cared, ToCome, Underway, Here, Spare, Waits
<1> QED BY <1>1, <1>2


LEMMA JobFrameIs ==
  ASSUME panel \in PanelType, panel.job # Idle
  PROVE  /\ JobFrame \in FrameType /\ Words(JobFrame)
         /\ JobFrame.byteAddr = panel.job.win.lo * 2
         /\ JobFrame.count = (panel.job.win.hi - panel.job.win.lo + 1) * 2
<1> DEFINE lo == panel.job.win.lo
           n == (panel.job.win.hi - lo + 1) * 2
<1>1. JobFrame \in FrameType /\ lo \in Int BY JobType
<1>2. JobFrame.cmd = "read" /\ JobFrame.byteAddr = lo * 2 /\ JobFrame.count = n
  BY DEF JobFrame, ReadFrame
<1> HIDE DEF lo, n
<1>3. (lo * 2) \div 2 = lo BY <1>1
<1>4. LinkAddr(JobFrame) = lo BY <1>2, <1>3 DEF LinkAddr
<1> QED BY <1>1, <1>2, <1>4 DEF Words, lo, n

\* The steps of the host while the panel does nothing.
Keeps ==
  /\ LinkSays' /\ ver' \in Int /\ ver' >= ver
  /\ \A s \in Socks \ {0} :
       /\ sock'[s].open = sock[s].open
       /\ Spare(s) => Spare(s)'
       /\ \A f \in FrameType : \A v \in Int :
            Words(f) /\ v <= ver /\ sock[s].open /\ Cared(s, f, v) => Cared(s, f, v)'

LEMMA HostShown ==
  ASSUME ShownInv, HostInv', UNCHANGED panel, Keeps PROVE ShownInv'
<1>1. panel \in PanelType /\ ver \in Int BY DEF ShownInv, HostInv, TypeOk, HostType, LinkOk
<1>2. panel' = panel /\ Conn' = Conn /\ JobFrame' = JobFrame /\ (Reading' <=> Reading)
  BY DEF Conn, JobFrame, Reading
<1>3. ShowsWhatWasAsked' BY <1>2 DEF ShownInv, ShowsWhatWasAsked
<1>4. SinceOk'
  <2>1. panel.job # Idle => panel.job.since \in Int BY <1>1, JobType
  <2> QED BY <1>1, <1>2, <2>1 DEF ShownInv, SinceOk, Keeps
<1>5. ClientOk'
  <2> SUFFICES ASSUME NEW s \in Socks, s # 0, s = Conn, Connected'
               PROVE  IF Reading THEN Cared(s, JobFrame, panel.job.since)' ELSE Spare(s)'
    BY <1>1, <1>2 DEF ClientOk, Connected, PanelType, Conn
  <2>1. sock[s].open BY <1>2 DEF Connected, Keeps
  <2>2. Connected BY <2>1 DEF Connected
  <2>3. CASE Reading
    <3>1. panel.job # Idle BY <2>3 DEF Reading
    <3>2. PICK f \in FrameType, v \in Int : f = JobFrame /\ v = panel.job.since
      BY <1>1, <3>1, JobType
    <3>3. Words(f) /\ v <= ver BY <1>1, <3>1, <3>2, JobFrameIs DEF ShownInv, SinceOk
    <3>4. Cared(s, f, v) BY <2>2, <2>3, <3>2 DEF ShownInv, ClientOk
    <3>5. Cared(s, f, v)' BY <2>1, <3>3, <3>4 DEF Keeps
    <3>6. f = JobFrame' /\ v = panel'.job.since BY <1>2, <3>2
    <3> QED BY <2>3, <3>5, <3>6
  <2>4. CASE ~Reading
    <3>1. Spare(s) BY <2>2, <2>4 DEF ShownInv, ClientOk
    <3>2. Spare(s)' BY <3>1 DEF Keeps
    <3> QED BY <2>4, <3>2
  <2> QED BY <2>3, <2>4
<1>6. LinkSays' BY DEF Keeps
<1> QED BY <1>3, <1>4, <1>5, <1>6 DEF ShownInv

\* Whoever closes the connection in use, it carries nothing from then on.
LEMMA ShutShown ==
  ASSUME ShownInv, HostCloses PROVE ShownInv'
<1>1. HostInv /\ HostInv' BY CloseHost DEF ShownInv
<1>2. Connected /\ UNCHANGED <<linkVars, cpuVars, panel>> BY DEF HostCloses
<1>3. Shuts BY <1>1, ShutSteps DEF HostCloses
<1>4. panel' = panel /\ ver' = ver /\ Conn' = Conn BY <1>2 DEF cpuVars, Conn
<1>5. ~Connected' BY <1>3, <1>4 DEF Shuts, Connected
<1>6. LinkSays' BY <1>2 DEF ShownInv, LinkSays, Meant, Fits, linkVars
<1> QED BY <1>1, <1>4, <1>5, <1>6
     DEF ShownInv, ClientOk, SinceOk, ShowsWhatWasAsked

\* The frame of the job is put on a connection that carries nothing.
LEMMA AskShown == ASSUME ShownInv, AskHost PROVE ShownInv'
<1>1. HostInv /\ HostInv' /\ panel \in PanelType
  BY AskHostKeeps DEF ShownInv, HostInv, TypeOk
<1>2. PICK s : s = panel'.conn OBVIOUS
<1> DEFINE k == IF Connected THEN sock[s] ELSE NewSock
<1>3. /\ panel.job # Idle /\ ~panel.job.asked
      /\ Connected => s = Conn
      /\ sock'[s].in = Append(k.in, JobFrame) /\ sock'[s].busy = k.busy
      /\ sock'[s].out = k.out
      /\ panel'.state = panel.state
      /\ panel'.job = [panel.job EXCEPT !.asked = TRUE]
      /\ UNCHANGED <<linkVars, cpuVars>>
  BY <1>1, <1>2, AskSteps DEF Conn
<1>4. k.in = <<>> /\ ~k.busy /\ k.out = <<>>
  <2>1. Connected => Spare(Conn) BY <1>3 DEF ShownInv, ClientOk, Reading
  <2>2. NewSock.in = <<>> /\ ~NewSock.busy /\ NewSock.out = <<>>
    BY DEF NewSock, NoSock
  <2> QED BY <1>3, <2>1, <2>2 DEF Spare
<1> HIDE DEF k
<1>5. panel.job \in WorkType BY <1>1, <1>3, JobType
<1>6. /\ panel'.job.win = panel.job.win /\ panel'.job.since = panel.job.since
      /\ panel'.job.asked
  BY <1>3, <1>5 DEF WorkType
<1>7. JobFrame' = JobFrame BY <1>6 DEF JobFrame, ReadFrame
<1>8. sock'[s].in = <<JobFrame>> /\ ~sock'[s].busy /\ sock'[s].out = <<>>
  BY <1>3, <1>4
<1>9. Conn' = s BY <1>2 DEF Conn
<1>10. panel'.job # Idle
  <2>1. panel'.job.pane = panel.job.pane /\ panel.job.pane \in Panes
    BY <1>3, <1>5 DEF WorkType
  <2>2. Idle.pane = "none" BY DEF Idle
  <2> QED BY <2>1, <2>2, PaneNames
<1>11. ClientOk'
  <2>1. Reading' BY <1>6, <1>10 DEF Reading
  <2>2. ToCome(Conn, JobFrame)' BY <1>7, <1>8, <1>9 DEF ToCome
  <2> QED BY <2>1, <2>2 DEF ClientOk, Cared
<1>12. LinkSays' BY <1>3 DEF ShownInv, LinkSays, Meant, Fits, linkVars
<1>13. SinceOk' BY <1>3, <1>6 DEF ShownInv, SinceOk, cpuVars
<1>14. ShowsWhatWasAsked' BY <1>3 DEF ShownInv, ShowsWhatWasAsked
<1> QED BY <1>1, <1>11, <1>12, <1>13, <1>14 DEF ShownInv

\* What is taken is the answer to the frame of the job.
LEMMA ReadShown == ASSUME ShownInv, TakeAnswer \/ ReadFails PROVE ShownInv'
<1>1. HostInv /\ HostInv' BY ReadHost DEF ShownInv
<1>2. panel \in PanelType /\ ver \in Int /\ toView \in Seq(ToViewType)
  BY <1>1 DEF HostInv, TypeOk, HostType, LinkOk, PagesOk
<1>3. /\ panel.job # Idle /\ UNCHANGED <<linkVars, cpuVars>>
  BY <1>1, ReadSteps
<1>4. LinkSays' BY <1>3 DEF ShownInv, LinkSays, Meant, Fits, linkVars
<1>5. PICK j \in WorkType : j = panel.job BY <1>2, <1>3, JobType
<1>6. j.pane \in Panes /\ j.win.lo \in Int /\ j.win.hi \in Int
  BY <1>2, <1>3, <1>5, JobType
<1>7. ASSUME NEW dump \in DumpType, NEW note \in {"ok", "unconnected"}, Finish(dump, note),
             dump.kind = "read" => /\ dump.lo = j.win.lo /\ dump.hi = j.win.hi
                                   /\ dump.ver >= dump.since
      PROVE  /\ panel'.conn = panel.conn /\ (panel'.job = Idle \/ Begun(panel'.job))
             /\ ShowsWhatWasAsked'
  <2>1. /\ panel'.conn = panel.conn /\ (panel'.job = Idle \/ Begun(panel'.job))
        /\ panel'.state = [panel.state EXCEPT ![j.pane] =
             [win |-> j.win, start |-> j.scroll, dump |-> dump]]
    BY <1>2, <1>3, <1>5, <1>7, FinishType
  <2>2. panel.state \in [Panes -> PaneType] BY <1>2 DEF PanelType
  <2>3. ASSUME NEW p \in Panes, panel'.state[p].dump.kind = "read"
        PROVE  /\ panel'.state[p].dump.lo = panel'.state[p].win.lo
               /\ panel'.state[p].dump.hi = panel'.state[p].win.hi
               /\ panel'.state[p].dump.ver >= panel'.state[p].dump.since
    <3>1. CASE p = j.pane
      <4>1. panel'.state[p].win = j.win /\ panel'.state[p].dump = dump
        BY <2>1, <2>2, <3>1
      <4> QED BY <1>7, <2>3, <4>1
    <3>2. CASE p # j.pane
      <4>1. panel'.state[p] = panel.state[p] BY <2>1, <2>2, <3>2
      <4> QED BY <2>3, <4>1 DEF ShownInv, ShowsWhatWasAsked
    <3> QED BY <3>1, <3>2
  <2> QED BY <2>1, <2>3 DEF ShowsWhatWasAsked
<1>8. ASSUME panel'.job = Idle \/ Begun(panel'.job) PROVE SinceOk' /\ ~Reading'
  BY <1>2, <1>3, <1>8 DEF SinceOk, Reading, Begun, cpuVars
<1>9. CASE Finish(Zeros, "unconnected") /\ IF Connected THEN Shuts ELSE sock' = sock
  <2>1. Zeros \in DumpType /\ Zeros.kind = "zeros" BY DEF Zeros, DumpType
  <2>2. /\ panel'.conn = panel.conn /\ SinceOk' /\ ShowsWhatWasAsked'
    BY <1>7, <1>8, <1>9, <2>1
  <2>3. ~Connected' BY <1>9, <2>2 DEF Connected, Conn, Shuts
  <2> QED BY <1>1, <1>4, <2>2, <2>3 DEF ShownInv, ClientOk
<1>10. CASE ~(Finish(Zeros, "unconnected") /\ IF Connected THEN Shuts ELSE sock' = sock)
  <2> DEFINE r == Head(sock[Conn].out)
             d == [kind |-> "read", lo |-> r.byteAddr \div 2,
                   hi |-> (r.byteAddr + r.count) \div 2 - 1,
                   ver |-> r.ver, since |-> panel.job.since]
  <2>1. /\ Reading /\ Connected /\ sock[Conn].out # <<>> /\ r.status = "OK"
        /\ sock'[Conn].in = sock[Conn].in /\ sock'[Conn].busy = sock[Conn].busy
        /\ sock'[Conn].out = Tail(sock[Conn].out)
        /\ Finish(d, "ok")
    BY <1>1, <1>10, ReadSteps
  <2>2. Conn \in Socks BY <1>2 DEF PanelType, Conn
  <2>3. d \in DumpType /\ r \in ReplyType BY <1>1, <1>3, <2>1, <2>2, DumpIs
  <2> HIDE DEF d, r
  <2>4. Here(Conn, JobFrame, panel.job.since)
    BY <2>1 DEF ShownInv, ClientOk, Cared, ToCome, Underway
  <2>5. PICK a \in ReplyType : sock[Conn].out = <<a>> /\ Good(a, JobFrame, panel.job.since)
    BY <2>4 DEF Here
  <2>6. r = a /\ Tail(sock[Conn].out) = <<>> BY <2>5 DEF r
  <2>7. /\ a.byteAddr = JobFrame.byteAddr /\ a.count = JobFrame.count
        /\ a.ver >= panel.job.since
    BY <2>1, <2>5, <2>6 DEF Good
  <2>8. /\ a.byteAddr = j.win.lo * 2 /\ a.count = (j.win.hi - j.win.lo + 1) * 2
    BY <1>2, <1>3, <1>5, <2>7, JobFrameIs
  <2>9. a.byteAddr \div 2 = j.win.lo /\ (a.byteAddr + a.count) \div 2 - 1 = j.win.hi
    <3> DEFINE lo == j.win.lo
               hi == j.win.hi
    <3> HIDE DEF lo, hi
    <3>1. lo \in Int /\ hi \in Int BY <1>6 DEF lo, hi
    <3>2. (lo * 2) \div 2 = lo /\ (lo * 2 + (hi - lo + 1) * 2) \div 2 - 1 = hi
      BY <3>1
    <3> QED BY <2>8, <3>2 DEF lo, hi
  <2>10. d.lo = j.win.lo /\ d.hi = j.win.hi /\ d.ver >= d.since
    BY <2>6, <2>7, <2>9 DEF d
  <2>11. /\ panel'.conn = panel.conn /\ SinceOk' /\ ShowsWhatWasAsked' /\ ~Reading'
    BY <1>7, <1>8, <2>1, <2>3, <2>10
  <2>12. sock'[Conn].in = <<>> /\ ~sock'[Conn].busy /\ sock'[Conn].out = <<>>
    BY <2>1, <2>4, <2>6 DEF Here
  <2>13. Conn' = Conn BY <2>11 DEF Conn
  <2>14. Spare(Conn)' BY <2>12, <2>13 DEF Spare
  <2> QED BY <1>1, <1>4, <2>11, <2>14 DEF ShownInv, ClientOk
<1> QED BY <1>9, <1>10


LEMMA ReceiveShown == ASSUME ShownInv, PanelReceives PROVE ShownInv'
<1>1. HostInv BY DEF ShownInv
<1>2. HostInv' BY <1>1, HostStep DEF Next, Panel
<1>3. panel \in PanelType /\ ver \in Int /\ PagesOk
  BY <1>1 DEF HostInv, TypeOk, HostType, LinkOk
<1>4. UNCHANGED <<sock, linkVars, cpuVars>> BY DEF PanelReceives, hostVars
<1>5. /\ panel'.conn = panel.conn
      /\ \A p \in Panes :
           \/ panel'.state[p].dump.kind = "zeros"
           \/ /\ panel'.state[p].dump = panel.state[p].dump
              /\ panel'.state[p].win = panel.state[p].win
      /\ JobKept(panel, panel')
  BY <1>3, ReceiveType
<1>6. LinkSays' BY <1>4 DEF ShownInv, LinkSays, Meant, Fits, linkVars
<1>7. ShowsWhatWasAsked' BY <1>5 DEF ShownInv, ShowsWhatWasAsked
<1>8. Conn' = Conn /\ (Connected' <=> Connected) /\ ver' = ver
  BY <1>4, <1>5 DEF Conn, Connected, cpuVars
<1>9. /\ \A s, f, v : Cared(s, f, v)' <=> Cared(s, f, v)
      /\ \A s : Spare(s)' <=> Spare(s)
  BY <1>4 DEF Cared, ToCome, Underway, Here, Spare, Waits, linkVars
<1>10. CASE panel'.job = panel.job
  <2>1. JobFrame' = JobFrame /\ (Reading' <=> Reading)
    BY <1>10 DEF JobFrame, ReadFrame, Reading
  <2>2. ClientOk' BY <1>8, <1>9, <1>10, <2>1 DEF ShownInv, ClientOk
  <2>3. SinceOk' BY <1>8, <1>10 DEF ShownInv, SinceOk
  <2> QED BY <1>2, <1>6, <1>7, <2>2, <2>3 DEF ShownInv
<1>11. CASE panel.job = Idle /\ Begun(panel'.job)
  <2>1. ~Reading /\ ~Reading' BY <1>11 DEF Reading, Begun
  <2>2. ClientOk' BY <1>8, <1>9, <2>1 DEF ShownInv, ClientOk
  <2>3. SinceOk' BY <1>3, <1>8, <1>11 DEF SinceOk, Begun
  <2> QED BY <1>2, <1>6, <1>7, <2>2, <2>3 DEF ShownInv
<1> QED BY <1>5, <1>10, <1>11 DEF JobKept

LEMMA ShownStep ==
  ASSUME Mn1613, ShownInv, [Next]_vars PROVE ShownInv'
<1>1. HostInv /\ HostInv' /\ LinkSays BY HostStep DEF ShownInv
<1>2. ver \in Int /\ LinkOk BY <1>1 DEF HostInv, TypeOk, HostType, LinkOk
<1>3. CASE Host
  <2>1. PICK g \in FrameType : TRUE
    <3>1. ReadFrame(0, 0, 0) \in FrameType BY DEF ReadFrame, FrameType, Cmds
    <3> QED BY <3>1
  <2>2. ASSUME NEW t \in Socks, Pump(t) PROVE Keeps
    <3>1. ver' = ver /\ \A s \in Socks : sock'[s].open = sock[s].open
      BY <1>1, <2>2, PumpSteps DEF cpuVars
    <3>2. \A s \in Socks : \A f \in FrameType : \A v \in Int :
            sock[s].open /\ Cared(s, f, v) => Cared(s, f, v)'
      BY <1>1, <2>2, PumpCared
    <3>3. \A s \in Socks : Spare(s) => Spare(s)' BY <1>1, <2>1, <2>2, PumpCared
    <3>4. LinkSays' BY <1>1, <2>1, <2>2, PumpCared
    <3> QED BY <1>2, <3>1, <3>2, <3>3, <3>4 DEF Keeps
  <2>3. ASSUME Answer PROVE Keeps
    <3>1. ver' = ver /\ \A s \in Socks : sock'[s].open = sock[s].open
      BY <1>1, <2>3, AnswerSteps DEF cpuVars
    <3>2. ASSUME NEW s \in Socks
          PROVE  /\ Spare(s) => Spare(s)'
                 /\ \A f \in FrameType : \A v \in Int :
                      Words(f) /\ sock[s].open /\ Cared(s, f, v) => Cared(s, f, v)'
      <4>1. ReadFrame(0, 0, 0) \in FrameType /\ Words(ReadFrame(0, 0, 0))
        BY DEF ReadFrame, FrameType, Cmds, Words, LinkAddr
      <4>2. Spare(s) => Spare(s)' BY <1>1, <2>3, <4>1, AnswerCared
      <4> QED BY <1>1, <2>3, <4>2, AnswerCared
    <3>3. LinkSays' BY <1>1, <2>3, AnswerSays
    <3>4. ver' \in Int /\ ver' >= ver BY <1>2, <3>1
    <3> QED BY <3>1, <3>2, <3>3, <3>4, Zenon DEF Keeps
  <2>4. ASSUME CpuTakes \/ ServeBus \/ FailBus PROVE Keeps
    <3>1. sock' = sock /\ ver' \in Int /\ ver' >= ver BY <1>2, <2>4, BoardSteps
    <3>2. \A s \in Socks : \A f \in FrameType : \A v \in Int :
            v <= ver /\ Cared(s, f, v) => Cared(s, f, v)'
      BY <1>1, <2>4, BoardCared
    <3>3. ver <= ver BY <1>2
    <3>4. \A s \in Socks : Spare(s) => Spare(s)' BY <1>1, <1>2, <2>1, <2>4, <3>3, BoardCared
    <3>5. LinkSays' BY <1>1, <2>4, BoardSays
    <3> QED BY <3>1, <3>2, <3>4, <3>5, Zenon DEF Keeps
  <2>5. Keeps BY <1>3, <2>2, <2>3, <2>4 DEF Host, HostNext
  <2> QED BY <1>1, <1>3, <2>5, HostShown DEF Host
<1>4. CASE Client \/ ReadFails BY <1>4, AskShown, ReadShown DEF Client
<1>5. CASE Panel BY <1>5, ReceiveShown DEF Panel
<1>6. ASSUME UNCHANGED <<sock, linkVars, cpuVars, panel>> PROVE ShownInv'
  <2>1. LinkSays' BY <1>1, <1>6 DEF LinkSays, Meant, Fits, linkVars
  <2>2. Keeps
    BY <1>2, <1>6, <2>1
    DEF Keeps, Cared, ToCome, Underway, Here, Spare, Waits, linkVars, cpuVars
  <2> QED BY <1>1, <1>6, <2>2, HostShown
<1>7. CASE WebView
  BY <1>6, <1>7 DEF WebView, ViewReceives, Frame, TimerFires, hostVars
<1>8. CASE Environment
  <2>1. CASE (PcSends \/ ConsoleHalts) /\ UNCHANGED <<panel, viewVars>>
    <3>1. ver' = ver /\ \A s \in Socks \ {0} : sock'[s].open = sock[s].open
      BY <1>1, <2>1, PcSteps, ConsoleSteps DEF cpuVars
    <3>2. \A s \in Socks \ {0} : \A f \in FrameType : \A v \in Int :
            Cared(s, f, v) => Cared(s, f, v)'
      BY <1>1, <2>1, OtherCared
    <3>3. LinkSays' /\ \A s \in Socks \ {0} : Spare(s) => Spare(s)'
      <4>1. CASE PcSends
        <5>1. UNCHANGED linkVars /\ \A s \in Socks \ {0} : sock'[s] = sock[s]
          BY <1>1, <4>1, PcSteps
        <5> QED BY <1>1, <5>1 DEF LinkSays, Meant, Fits, linkVars, Spare
      <4>2. CASE ConsoleHalts
        <5>1. PICK g \in FrameType : Send({}, g) BY <1>1, <4>2, ConsoleSteps
        <5>2. UNCHANGED <<sock, bus, results>> BY <1>1, <4>2, ConsoleSteps
        <5>3. {} \subseteq Socks OBVIOUS
        <5>4. LinkSays' BY <1>1, <5>1, <5>2, <5>3, SendSays
        <5> QED BY <5>2, <5>4 DEF Spare
      <4> QED BY <2>1, <4>1, <4>2
    <3>4. Keeps BY <1>2, <3>1, <3>2, <3>3 DEF Keeps
    <3> QED BY <1>1, <2>1, <3>4, HostShown
  <2>2. CASE HostCloses BY <2>2, ShutShown
  <2>3. CASE UserAsks \/ \E p \in Panes : UserScrolls(p)
    BY <1>6, <2>3 DEF UserAsks, UserScrolls, OtherVars
  <2> QED BY <1>8, <2>1, <2>2, <2>3 DEF Environment
<1>9. CASE UNCHANGED vars BY <1>6, <1>9 DEF vars, hostVars
<1> QED BY <1>3, <1>4, <1>5, <1>7, <1>8, <1>9 DEF Next

\* A window shown as read is the one the pane believes to have, read after the
\* panel asked for it: no answer to an earlier question, of a connection given
\* up or of another command on the link, is taken for it (debugPanel.ts
\* readPhysWindow() and its catch, debug_host.ts dispatch(), the ids of
\* board_link_client.ts, the lock of cpu_board_link.ts).  On a board whose
\* panel addresses are those of words.
THEOREM ShowsAsked == ASSUME CpuType = "MN1613" PROVE Spec => []ShowsWhatWasAsked
<1>1. Init => ShownInv
  <2> SUFFICES ASSUME Init PROVE ShownInv OBVIOUS
  <2>1. HostInv BY HostStart
  <2>2. /\ panel.job = Idle /\ panel.conn = 0
        /\ \A p \in Panes : panel.state[p] = Fresh(Entry)
        /\ linkQ = <<>> /\ bus = <<>> /\ results = <<>>
    BY DEF Init, HostInit
  <2>3. Range(<<>>) = {}
    <3>1. DOMAIN <<>> = {} OBVIOUS
    <3> QED BY <3>1 DEF Range
  <2>4. LinkSays BY <2>2, <2>3 DEF LinkSays
  <2>5. ClientOk /\ SinceOk BY <2>2 DEF ClientOk, SinceOk, Connected, Conn
  <2>6. ShowsWhatWasAsked BY <2>2 DEF ShowsWhatWasAsked, Fresh, Zeros
  <2> QED BY <2>1, <2>4, <2>5, <2>6 DEF ShownInv
<1>2. Mn1613 BY DEF Mn1613
<1>3. ShownInv /\ [Next]_vars => ShownInv' BY <1>2, ShownStep
<1>4. ShownInv => ShowsWhatWasAsked BY DEF ShownInv
<1> QED BY <1>1, <1>3, <1>4, PTL DEF Spec
=============================================================================
