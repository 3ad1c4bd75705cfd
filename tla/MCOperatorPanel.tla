--------------------------- MODULE MCOperatorPanel --------------------------
(* A panel of a few words and its keys.                                     *)
EXTENDS OperatorPanel

MCAddr == 0..2
MCData == 0..1
MCContents == {[a \in MCAddr |-> a % 2]}
MemoryKeys == {"F0", "F2", "F3", "F4", "F6"}
ControlKeys == {"F1", "F5", "F6", "F7", "hex", "long"}
=============================================================================
