---------------------------- MODULE MCBoardPorts ----------------------------
(***************************************************************************)
(* Two comparators, two watches on the page of the program and one on the  *)
(* register FE81 of the comparators themselves; a line of each kind.       *)
(***************************************************************************)
EXTENDS BoardPorts

MCCpuLines ==
  {"INTERRUPT_BUSY", "HSHK_OUT_REQ", "HSHK_IN_DACK", "HSHK_OUT_DATA"}
MCIoLines == {"HSHK_IN_REQ", "HSHK_IN_DENA"}
MCDataLines == {"HSHK_OUT_DATA"}
MCWatches ==
  {[io |-> FALSE, rdwr |-> {"WR"}, addr |-> 257],
   [io |-> TRUE, rdwr |-> {"RD", "WR"}, addr |-> CTRL]}
MCTouched == {256}
=============================================================================
