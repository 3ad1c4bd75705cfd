----------------------------- MODULE MCDebugView ----------------------------
EXTENDS DebugView

\* The proportions of the code, scaled down: a window of 9 words about its
\* center, a margin of one, panes of two lines.
MCRowWords == [mem |-> 2, dis |-> 1]
MCGoto == {0}
MCEntries == {2}
MCSocks == 0..2
MCSlots == {0, 4}
MCGoodSlots == {0}
Frame0(cmd, count, slot) ==
  [cmd |-> cmd, tag |-> 0, byteAddr |-> 0, count |-> count, slot |-> slot]
MCPcKinds == {Frame0("write", 2, 0), Frame0("write", 41, 0), Frame0("set", 0, 4),
              Frame0("clr", 0, 0)}
=============================================================================
