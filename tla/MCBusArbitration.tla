------------------------- MODULE MCBusArbitration ---------------------------
(* Model values and bounds for checking BusArbitration.                     *)
EXTENDS BusArbitration, TLC

CONSTANTS memRead, memWrite

MCLinks == {memRead, memWrite}
=============================================================================
