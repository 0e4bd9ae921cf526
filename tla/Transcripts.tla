---------------------------- MODULE Transcripts -----------------------------
(***************************************************************************)
(* The session transcripts of Claude Code: files to which another program  *)
(* appends whole lines, which it may rewrite, and which it prunes.  The    *)
(* miner (Drain) and the session graph (SessionGraph) read them, each with *)
(* a watermark per file, and neither ever writes one.                      *)
(***************************************************************************)
EXTENDS Naturals, Sequences, FiniteSets

CONSTANTS
  Order,      \* the transcripts, in the order in which discovery lists them
  Results,    \* whether failed results are told apart from other lines
  MaxLines,   \* lines in a file (a bound)
  MaxGen,     \* how often a file is rewritten (a bound)
  MaxChanges  \* changes of the transcripts after the start (a bound)

Transcripts == {Order[i] : i \in DOMAIN Order}

ASSUME TranscriptAssumption ==
  /\ \A i, j \in DOMAIN Order : Order[i] = Order[j] => i = j
  /\ Results \in BOOLEAN /\ MaxLines \in Nat /\ MaxGen \in Nat /\ MaxChanges \in Nat

VARIABLES
  disk,    \* disk[t]: whether the file is there, its lines, and which text it is
  changes  \* how often a transcript has changed

\* A line calls a tool (Use) or holds the failed result of the call in an earlier line.
Use == 0
NoTranscript == [there |-> FALSE, gen |-> 0, lines |-> <<>>]
Length(t) == Len(disk[t].lines)
Present == {t \in Transcripts : disk[t].there}

\* What a reader has still to visit is a set; it goes on with the first.
Place(t) == CHOOSE i \in DOMAIN Order : Order[i] = t
First(t, todo) == t \in todo /\ \A u \in todo : Place(t) <= Place(u)
Foremost(n, todo) == {t \in todo : Cardinality({u \in todo : Place(u) < Place(t)}) < n}

\* The calls in the first n lines without a result there; a call has at most one.
Unanswered(lines, n) == {i \in 1..n : Results /\ lines[i] = Use /\ \A j \in 1..n : lines[j] # i}

\* A new file, or one more line.
Grow(t) ==
  /\ t \in Present \/ disk[t] = NoTranscript
  /\ Length(t) < MaxLines
  /\ \E l \in {Use} \cup Unanswered(disk[t].lines, Length(t)) :
       disk' = [disk EXCEPT ![t].there = TRUE, ![t].lines = Append(@, l)]

\* Another text, of any length.
Rewrite(t) ==
  /\ t \in Present /\ Length(t) > 0 /\ disk[t].gen < MaxGen
  /\ \E n \in 0..MaxLines :
       disk' = [disk EXCEPT ![t].gen = @ + 1, ![t].lines = [i \in 1..n |-> Use]]

\* Claude Code prunes old transcripts, and a backup brings one back as it was.
Prune(t) == t \in Present /\ disk' = [disk EXCEPT ![t].there = FALSE]
Return(t) ==
  /\ t \notin Present /\ disk[t] # NoTranscript
  /\ disk' = [disk EXCEPT ![t].there = TRUE]

\* The program starts on whatever sessions have left so far.
Calling(lines) == \A i \in DOMAIN lines : lines[i] = Use \/ lines[i] \in Unanswered(lines, i - 1)
Texts == {lines \in UNION {[1..n -> 0..n] : n \in 0..MaxLines} : Calling(lines)}
TranscriptsInit ==
  /\ disk \in [Transcripts -> {[there |-> lines # <<>>, gen |-> 0, lines |-> lines] : lines \in Texts}]
  /\ changes = 0

TranscriptsChange ==
  /\ changes < MaxChanges /\ changes' = changes + 1
  /\ \E t \in Transcripts : Grow(t) \/ Rewrite(t) \/ Prune(t) \/ Return(t)
=============================================================================
