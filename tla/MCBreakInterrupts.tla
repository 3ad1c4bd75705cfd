------------------------- MODULE MCBreakInterrupts -------------------------
(***************************************************************************)
(* Instances of BreakInterrupts for TLC: slots on one word.                *)
(***************************************************************************)
EXTENDS BreakInterrupts

MCSlots == {0, 1}
MCAccesses == {<<>>, <<"RD">>, <<"WR">>, <<"RD", "WR">>}

Unset == [kinds |-> {}, want |-> Any, count |-> 0]

\* Write breaks, with and without a condition.
WriteWatches ==
  {Unset} \cup [kinds : {{"WR"}}, want : {Any, 1}, count : 0..2]

\* Read breaks without a condition as well: with one, the handler's own read
\* of the word is a hit, and INT1 never ends.
EndingWatches ==
  {Unset} \cup [kinds : {{"RD"}, {"WR"}, {"RD", "WR"}}, want : {Any},
                count : {0, 2}]
          \cup [kinds : {{"WR"}}, want : {1}, count : {0, 2}]
=============================================================================
