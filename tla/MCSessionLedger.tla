-------------------------- MODULE MCSessionLedger --------------------------
(* SessionLedger with a few wraps, two transcripts and two processes.        *)
EXTENDS SessionLedger, TLC

CONSTANTS p1, p2, tree

MCProcs == {p1, p2}
MCSymmetry == Permutations(MCProcs)
MCGit == {tree}

\* Two sessions that open a loop and end together, ahead of the clock; either may
\* be wrapped again. (Entries that end with the clock come from loop.open.)
MCWraps ==
  {[sid |-> 1, started |-> 0, ended |-> 3, track |-> "canonical", opens |-> {1}, titles |-> <<>>],
   [sid |-> 4, started |-> 1, ended |-> 3, track |-> "adhoc", opens |-> {1}, titles |-> <<1>>]}

MCTranscripts ==
  (1 :> [started |-> 0, ended |-> 1]) @@ (5 :> [started |-> 0, ended |-> 2])

=============================================================================
