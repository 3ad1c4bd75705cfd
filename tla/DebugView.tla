------------------------------ MODULE DebugView -----------------------------
(***************************************************************************)
(* The debug view of the editor: a web view with a memory dump and a       *)
(* listing, the panel behind it, which keeps a window of memory for each   *)
(* and fetches another one when the user comes near its edge, and the TCP  *)
(* client it reads memory through from the host of DebugHost.              *)
(*                                                                         *)
(* The web view and the panel exchange messages; scrolls are reported 80   *)
(* ms after the last one, and an answer is scrolled to two frames after it *)
(* was drawn.  A line of the dump is RowWords["mem"] words, one of the     *)
(* listing an instruction of one word; registers, breakpoints and notes on *)
(* them are a mock-up in the code and left out.                            *)
(***************************************************************************)
EXTENDS DebugHost

CONSTANTS
  Top,          \* PHYS_WORD_MASK: the last word of memory
  HalfWindow,   \* MEM_WINDOW_HALF
  Margin,       \* MEM_REFETCH_MARGIN
  RowWords,     \* MEM_WORDS_PER_ROW, and 1 for the listing
  Lines,        \* the lines of a pane the user sees
  Entry,        \* where the listing starts: DEFAULT_ENTRY_WORD, or g_main
  Entries,      \* where a program the user loads may start
  Goto,         \* addresses the user may type
  MaxQueue      \* bound: messages on their way, and answers drawn but not scrolled to

ASSUME DebugViewAssumption ==
  /\ Top \in Nat /\ HalfWindow \in Nat /\ Margin \in Nat
  /\ RowWords["mem"] \in Nat \ {0} /\ RowWords["dis"] = 1 /\ Lines \in Nat \ {0}
  /\ Entry \in 0..Top /\ Entries \subseteq 0..Top /\ Goto \subseteq 0..Top /\ MaxQueue \in Nat \ {0}

VARIABLES
  panel,    \* state, job (ioBusy), queued, client's connection, opening
  view,     \* per pane: lines drawn, scrollTop, scroll timer, frames to come
  toPanel, toView

viewVars == <<view, toPanel, toView>>
vars == <<hostVars, panel, viewVars>>

Panes == {"mem", "dis"}
None == [center |-> 0, scroll |-> 0, set |-> FALSE]
Idle == [pane |-> "none"]

-----------------------------------------------------------------------------
(* Windows.                                                                *)

RowStart(a) == a - (a % RowWords["mem"])

\* memFetchRange()
FetchRange(c) ==
  LET lo == RowStart(IF c < HalfWindow THEN 0 ELSE c - HalfWindow)
      hi == IF c + HalfWindow > Top THEN Top ELSE c + HalfWindow
      full == RowStart(hi - lo + RowWords["mem"])
  IN [lo |-> lo, hi |-> IF lo + full - 1 > Top THEN Top ELSE lo + full - 1]

\* memNeedsRefetch() of each edge.
NearLo(first, w) == w.lo > 0 /\ first < w.lo + Margin
NearHi(last, w) == w.hi < Top /\ last + Margin > w.hi

\* memNextCenter(); no center: no window is needed.
NextCenter(first, last, w) ==
  LET lo == NearLo(first, w)
      hi == NearHi(last, w)
  IN CASE hi /\ ~lo -> {last}
       [] lo /\ ~hi -> {first}
       [] lo /\ hi -> {(first + last) \div 2}
       [] OTHER -> {}

\* createMockDebugState(), toViewState(): zeros around the entry.
Zeros == [kind |-> "zeros", lo |-> 0, hi |-> 0, ver |-> 0, since |-> 0]
Fresh(e) == [win |-> FetchRange(e), start |-> e, dump |-> Zeros]

-----------------------------------------------------------------------------
(* The panel.                                                              *)

Around(p, w, lo, scroll) ==
  [type |-> p, lo |-> lo, hi |-> w.hi, scroll |-> scroll]

\* postMessage of the whole state: the dump starts at its window, the listing
\* at the entry; nothing is scrolled.
PostState(e) == [type |-> "state", lo |-> FetchRange(e).lo, hi |-> FetchRange(e).hi, scroll |-> e]

\* requestMemWindow(), requestDisasmWindow(): of the requests that come while
\* one is served the newest is kept, one for each pane.
Request(P, p, c, s) ==
  IF P.job # Idle
    THEN [P EXCEPT !.queued[p] = [center |-> c, scroll |-> s, set |-> TRUE]]
    ELSE [P EXCEPT !.job = [pane |-> p, win |-> FetchRange(c), scroll |-> s,
                            asked |-> FALSE, since |-> ver]]

\* Mutant: both queues are cleared, one is served.
DrainForgets(P) ==
  IF P.queued["mem"].set
    THEN Request([P EXCEPT !.queued = [p \in Panes |-> None]], "mem",
                 P.queued["mem"].center, P.queued["mem"].scroll)
  ELSE IF P.queued["dis"].set
    THEN Request([P EXCEPT !.queued["dis"] = None], "dis",
                 P.queued["dis"].center, P.queued["dis"].scroll)
  ELSE P

\* drainIoQueue()
Drain(P) ==
  LET next == IF P.queued["mem"].set THEN "mem" ELSE "dis"
      q == P.queued[next]
  IN IF q.set THEN Request([P EXCEPT !.queued[next] = None], next, q.center, q.scroll)
     ELSE P

\* What follows requestMemWindow() in onWebviewReady().
Opened(P) ==
  IF P.opening = "mem" THEN Request([P EXCEPT !.opening = "done"], "dis", Entry, Entry)
  ELSE P

\* fetchMemWindow(), fetchDisasmWindow() after readPhysWindow(), and the
\* finally of their callers.
Finish(dump, note) ==
  LET j == panel.job
      done == [panel EXCEPT !.state[j.pane] = [win |-> j.win, start |-> j.scroll, dump |-> dump],
                            !.note = note, !.job = Idle]
  IN /\ panel' = Opened(Drain(done))
     /\ toView' = Append(toView, Around(j.pane, j.win, j.win.lo, j.scroll))

-----------------------------------------------------------------------------
(* The TCP client: the panel asks for one window at a time.                *)

Conn == panel.conn
Connected == Conn # 0 /\ sock[Conn].open
Reading == panel.job # Idle /\ panel.job.asked

NextConn == IF \E s \in Socks : s > Conn
              THEN {CHOOSE s \in Socks : s > Conn /\ \A t \in Socks : t > Conn => s <= t}
              ELSE {}

\* memRead(): connect() when there is no connection, then one frame.
AskHost ==
  /\ panel.job # Idle /\ ~panel.job.asked /\ Len(toView) < MaxQueue
  /\ LET j == panel.job
         f == ReadFrame(0, j.win.lo * 2, (j.win.hi - j.win.lo + 1) * 2)
     IN \E s \in IF Connected THEN {Conn} ELSE NextConn :
          LET k == IF Connected THEN sock[s] ELSE NewSock IN
            /\ sock' = [sock EXCEPT ![s] = [k EXCEPT !.in = Append(k.in, f)]]
            /\ panel' = [panel EXCEPT !.job.asked = TRUE, !.conn = s]
  /\ UNCHANGED <<linkVars, cpuVars, sent, events, viewVars>>

\* close() of the client: what the host has not read yet may be lost.
Closed(s) ==
  {[sock[s] EXCEPT !.open = FALSE, !.out = <<>>, !.in = rest] : rest \in {sock[s].in, <<>>}}

\* Mutant: the connection is kept.
GiveUpKeeps == Finish(Zeros, "unconnected") /\ UNCHANGED sock

\* Mutant: ioBusy stays set.
GiveUpBusy ==
  /\ UNCHANGED <<panel, toView>>
  /\ IF Connected THEN \E c \in Closed(Conn) : sock' = [sock EXCEPT ![Conn] = c]
     ELSE UNCHANGED sock

\* readPhysWindow() when the status is NG or the read ends otherwise: the
\* client is closed, the window is filled with zeros and the note says so.
GiveUp ==
  /\ Finish(Zeros, "unconnected")
  /\ IF Connected THEN \E c \in Closed(Conn) : sock' = [sock EXCEPT ![Conn] = c]
     ELSE UNCHANGED sock

\* The answer: status, length and data, in as many pieces as it comes.
TakeAnswer ==
  /\ Reading /\ Connected /\ sock[Conn].out # <<>>
  /\ LET r == Head(sock[Conn].out)
         j == panel.job
     IN IF r.status = "OK"
          THEN /\ Finish([kind |-> "read", lo |-> r.byteAddr \div 2,
                          hi |-> (r.byteAddr + r.count) \div 2 - 1,
                          ver |-> r.ver, since |-> j.since], "ok")
               /\ sock' = [sock EXCEPT ![Conn].out = Tail(@)]
          ELSE GiveUp
  /\ UNCHANGED <<linkVars, cpuVars, sent, events, toPanel, view>>

\* The connection is gone, or there is none to be had.
Hopeless == ~Connected /\ (Reading \/ NextConn = {})

\* That, a connect() that fails, or a timeout of readExact(): 15 s may pass
\* before the commands ahead on the bus are served.
ReadFails ==
  /\ panel.job # Idle /\ (Reading \/ ~Connected)
  /\ IF Hopeless THEN UNCHANGED events ELSE Happens
  /\ GiveUp
  /\ UNCHANGED <<linkVars, cpuVars, sent, toPanel, view>>

\* The emulator ends, or stopDebugHost(): every connection is closed.
HostCloses ==
  /\ Connected /\ Happens
  /\ \E c \in Closed(Conn) : sock' = [sock EXCEPT ![Conn] = c]
  /\ UNCHANGED <<linkVars, cpuVars, sent, panel, viewVars>>

-----------------------------------------------------------------------------
(* Messages to the panel.                                                  *)

\* onWebviewReady(), when bootstrapSession() has found the entry: the request
\* of the listing waits for that of the dump, unless that one was queued.
OnReady ==
  LET shown == [panel EXCEPT !.state["mem"].start = Entry, !.state["dis"].start = Entry]
      asked == Request(shown, "mem", Entry, Entry)
  IN /\ panel' = IF panel.job = Idle THEN [asked EXCEPT !.opening = "mem"]
                 ELSE Opened([asked EXCEPT !.opening = "mem"])
     /\ toView' = Append(toView, PostState(Entry))

\* onMemScroll(), onDisasmScroll()
OnScroll(p, first, last) ==
  /\ LET w == panel.state[p].win
         c == {x \in NextCenter(first, last, w) : FetchRange(x) # w}
     IN panel' = IF c = {} THEN panel
                 ELSE Request(panel, p, CHOOSE x \in c : TRUE, first)
  /\ UNCHANGED toView

\* loadProgram(), once the files are chosen and read.
OnLoad(e) ==
  LET loaded == [panel EXCEPT !.state = [p \in Panes |-> Fresh(e)], !.note = "waiting"]
  IN /\ panel' = Request(Request(loaded, "mem", e, e), "dis", e, e)
     /\ toView' = Append(toView, PostState(e))

PanelReceives ==
  /\ toPanel # <<>>
  /\ LET msg == Head(toPanel) IN
       \/ msg.type = "ready" /\ OnReady
       \/ msg.type = "gotoMem" /\ panel' = Request(panel, "mem", msg.first, msg.first)
                               /\ UNCHANGED toView
       \/ msg.type = "loadHex" /\ OnLoad(msg.first)
       \/ msg.type \in Panes /\ OnScroll(msg.type, msg.first, msg.last)
  /\ toPanel' = Tail(toPanel)
  /\ UNCHANGED <<hostVars, view>>

-----------------------------------------------------------------------------
(* The web view.                                                           *)

Post(type, first, last) ==
  toPanel' = Append(toPanel, [type |-> type, first |-> first, last |-> last])

LinesOf(v, p) == (v.hi - v.lo + RowWords[p]) \div RowWords[p]
LastTop(v, p) == IF LinesOf(v, p) > Lines THEN LinesOf(v, p) - Lines ELSE 0

\* The browser keeps scrollTop inside what is drawn and reports a change.
ScrolledTo(v, p, row) ==
  LET to == IF row > LastTop(v, p) THEN LastTop(v, p) ELSE row
  IN [v EXCEPT !.row = to, !.timer = @ \/ to # v.row]

Drawn(v, p, lo, hi) == ScrolledTo([v EXCEPT !.lo = lo, !.hi = hi], p, v.row)

\* The first and the last word seen.
FirstSeen(v, p) == v.lo + v.row * RowWords[p]
LastSeen(v, p) ==
  LET last == v.lo + (v.row + Lines) * RowWords[p] - 1
  IN IF last > v.hi THEN v.hi ELSE last

\* reportMemScroll(), reportDisasmScroll()
Report(v, p) == Post(p, FirstSeen(v, p), LastSeen(v, p))

\* The message handler: render(), renderMem(), renderDisasm().
ViewReceives ==
  /\ toView # <<>> /\ \A p \in Panes : Len(view[p].frames) < MaxQueue
  /\ LET msg == Head(toView) IN
       IF msg.type = "state"
         THEN view' = [view EXCEPT !["mem"] = Drawn(@, "mem", msg.lo, msg.hi),
                                   !["dis"] = Drawn(@, "dis", msg.scroll, msg.hi)]
         ELSE LET v == Drawn(view[msg.type], msg.type, msg.lo, msg.hi) IN
              view' = [view EXCEPT ![msg.type] =
                         [v EXCEPT !.frames = Append(v.frames, msg.scroll)]]
  /\ toView' = Tail(toView)
  /\ UNCHANGED <<hostVars, panel, toPanel>>

Revealed(v, p, a) ==
  LET row == IF a < v.lo THEN 0 ELSE (a - v.lo) \div RowWords[p]
  IN [v EXCEPT !.row = IF row > LastTop(v, p) THEN LastTop(v, p) ELSE row,
               !.frames = Tail(@)]

\* scrollCodeTo() and the report, two frames after the lines were drawn.  The
\* scroll event this causes reports the same 80 ms later and is left out.
Frame(p) ==
  /\ view[p].frames # <<>> /\ Len(toPanel) < MaxQueue
  /\ LET v == Revealed(view[p], p, Head(view[p].frames))
     IN view' = [view EXCEPT ![p] = v] /\ Report(v, p)
  /\ UNCHANGED <<hostVars, panel, toView>>

\* onMemScrollDebounced(), onDisasmScrollDebounced(): 80 ms after the last.
TimerFires(p) ==
  /\ view[p].timer /\ Len(toPanel) < MaxQueue
  /\ view' = [view EXCEPT ![p].timer = FALSE]
  /\ Report(view[p], p)
  /\ UNCHANGED <<hostVars, panel, toView>>

OtherVars == <<sock, linkVars, cpuVars, sent, panel, toView>>

\* To one of the ends.
UserScrolls(p) ==
  /\ Happens
  /\ \E row \in {0, LastTop(view[p], p)} \ {view[p].row} :
       view' = [view EXCEPT ![p] = ScrolledTo(@, p, row)]
  /\ UNCHANGED <<OtherVars, toPanel>>

\* submitGoto(), and the button that loads a program (its dialogs are over).
UserAsks ==
  /\ Happens /\ Len(toPanel) < MaxQueue
  /\ \/ \E a \in Goto : Post("gotoMem", a, a)
     \/ \E e \in Entries : Post("loadHex", e, e)
  /\ UNCHANGED <<OtherVars, view>>

-----------------------------------------------------------------------------
(* The system.                                                             *)

\* The mock-up the page is delivered with.
Init ==
  /\ HostInit
  /\ panel = [state |-> [p \in Panes |-> Fresh(Entry)], note |-> "waiting", job |-> Idle,
              queued |-> [p \in Panes |-> None], conn |-> 0, opening |-> "wait"]
  /\ view = [p \in Panes |-> [lo |-> IF p = "mem" THEN FetchRange(Entry).lo ELSE Entry,
                              hi |-> FetchRange(Entry).hi, row |-> 0, timer |-> FALSE,
                              frames |-> <<>>]]
  /\ toPanel = <<[type |-> "ready", first |-> 0, last |-> 0]>> /\ toView = <<>>

Host == HostNext /\ UNCHANGED <<panel, viewVars>>
Client == AskHost \/ TakeAnswer
Panel == PanelReceives
WebView == ViewReceives \/ \E p \in Panes : Frame(p) \/ TimerFires(p)

\* Nobody has to type, and nothing has to fail; without a connection left
\* the read fails.
Environment ==
  \/ (PcSends \/ ConsoleHalts) /\ UNCHANGED <<panel, viewVars>>
  \/ HostCloses \/ UserAsks \/ \E p \in Panes : UserScrolls(p)

Next == Host \/ Client \/ ReadFails \/ Panel \/ WebView \/ Environment

\* Four event loops and the sockets between them; a read that cannot be
\* answered any more times out.
Fairness ==
  /\ WF_vars(Host) /\ WF_vars(Client) /\ WF_vars(Panel) /\ WF_vars(WebView)
  /\ WF_vars(Hopeless /\ ReadFails)

Spec == Init /\ [][Next]_vars /\ Fairness

-----------------------------------------------------------------------------
(* Properties.                                                             *)

\* What a pane shows as read is the window it believes to have, and as it was
\* after the panel began to ask for it: every write that was answered before
\* is in it.  The protocol has no numbers, and an answer that comes after the
\* panel gave up must not be taken for that of the next window
\* (debugPanel.ts readPhysWindow and its catch; board_link_client.ts; the
\* addresses of debug_host.ts and cpu_board_link.ts).
ShowsWhatWasAsked ==
  \A p \in Panes :
    LET s == panel.state[p] IN
      s.dump.kind = "read" =>
        s.dump.lo = s.win.lo /\ s.dump.hi = s.win.hi /\ s.dump.ver >= s.dump.since

Rest ==
  /\ HostQuiet /\ panel.job = Idle /\ panel.opening = "done"
  /\ toPanel = <<>> /\ toView = <<>>
  /\ \A p \in Panes : view[p].frames = <<>> /\ ~view[p].timer

\* At rest no request is left, the web view has drawn the windows the panel
\* believes to have, and what the user sees is clear of their edges as far as
\* memory goes on: no scroll is lost while a window is fetched
\* (debugPanel.ts ioBusy, memQueued, disasmQueued; debug.js reports).
RestIsCovered ==
  Rest => \A p \in Panes :
    LET v == view[p]
        w == panel.state[p].win
    IN /\ ~panel.queued[p].set
       /\ v.lo = w.lo /\ v.hi = w.hi
       /\ \A c \in NextCenter(FirstSeen(v, p), LastSeen(v, p), w) : FetchRange(c) = w

\* Every window that is asked for is drawn in the end, as read or as zeros: a
\* failed read, a host that goes away or an answer that never comes does not
\* leave ioBusy set (requestMemWindow() and its finally, the timeouts of the
\* client).  That the requests come to an end is more than the code promises:
\* a report on its way while the window changes asks for the old one again.
EveryReadIsDrawn == panel.job # Idle ~> toView # <<>>

=============================================================================
