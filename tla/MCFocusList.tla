---------------------------- MODULE MCFocusList ----------------------------
(* FocusList on three initiatives, with task commands beside it.            *)
EXTENDS FocusList, TLC

CONSTANTS p1, f1, f2

MCProcs == {p1}
MCFocusers == {f1, f2}
MCSlugs == 1..3
TwoSlugs == 1..2
OneFocuser == {f1}
MCPris == {1}
MCRanks == {2}

\* A list written as the ranks of the three initiatives; rank 0 is not focused.
List(ranks, rest) ==
  [s \in MCSlugs |->
     [state |-> IF ranks[s] = 0 THEN rest ELSE "focused", rank |-> ranks[s]]]

\* A full list, a list of one with room for new initiatives, a list with a gap (as
\* moving the first to the end leaves it) beside a paused initiative.
MCStartLists == {List(<<2, 3, 1>>, "done"), List(<<0, 0, 1>>, "absent"),
                 List(<<2, 3, 0>>, "paused")}

TwoOfThree == {List(<<1, 2, 0>>, "backburner")}

=============================================================================
