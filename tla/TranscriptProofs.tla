-------------------------- MODULE TranscriptProofs --------------------------
(***************************************************************************)
(* Proofs about the two readers of the transcripts, for any transcripts,   *)
(* however they grow, are rewritten, pruned and brought back.              *)
(*                                                                         *)
(* SessionGraph: what it holds of the rows, of the history of sessions     *)
(* whose transcripts are gone, and of a pass that has come to its end.     *)
(*                                                                         *)
(* Drain: an entry of a table never claims more of a file than the log     *)
(* backs, and a pass carries with its table what it has found but not yet  *)
(* written.  As long as no pass died, overlapped another or read anything  *)
(* again, one table extends the other and all counts are those of the log. *)
(***************************************************************************)
EXTENDS SessionGraph, Drain, FiniteSetTheorems, TLAPS

----------------------------------------------------------------------------
(* The inductive invariant.                                                 *)

Rows == Transcripts \X Nat
Statuses == {"none", "ok", "missing", "quarantined"}
Places == {"idle", "reset", "scan", "episodes", "replay", "end"}

DiskTypeOK ==
  /\ disk \in [Transcripts -> [there : BOOLEAN, gen : Nat, lines : Seq(Nat)]]
  /\ changes \in Nat

GraphTypeOK ==
  /\ row \in [Transcripts -> [status : Statuses, at : Nat, gen : Nat, late : BOOLEAN]]
  /\ BagToSet(rows) \subseteq Rows
  /\ rolled \subseteq Rows
  /\ stale \subseteq Sessions
  /\ preserved \subseteq [row : Rows, ended : BOOLEAN]
  /\ retired \in [Sessions -> {"no", "new", "past"}]

WalkTypeOK ==
  walk \in [at : Places, kind : {"delta", "full", "rebuild"}, sweep : BOOLEAN,
            todo : SUBSET Transcripts, visited : SUBSET Transcripts,
            unvisited : SUBSET Transcripts, before : [Transcripts -> Nat],
            touched : SUBSET Sessions, since : Nat, amiss : SUBSET Transcripts]

\* Only a rebuild resets, and only a delta ends without a replay.
KindsFit ==
  /\ walk.at = "reset" => walk.kind = "rebuild"
  /\ walk.at \in {"replay", "end"} => walk.kind # "delta"
  /\ walk.since <= changes

\* What a reset is about to delete and no scan can derive again has been copied.
Safeguarded ==
  walk.at = "reset" =>
    \A s \in Sessions : Unreachable(s) => \A r \in RowsOf(s) : \E p \in preserved : p.row = r

\* Of the transcripts that have stayed as they were since the walk began: those
\* it has visited are not missing, and those it leaves out are fine and will be restored.
Reaching ==
  walk.at = "scan" /\ walk.kind # "delta" =>
    /\ walk.todo \subseteq walk.visited
    /\ walk.since = changes =>
         \A t \in Present \ walk.todo :
           /\ t \in walk.visited => row[t].status # "missing"
           /\ t \notin walk.visited \cup walk.amiss => row[t].status = "ok" /\ t \in walk.unvisited

Reached ==
  walk.at \in {"episodes", "replay", "end"} /\ walk.kind # "delta" /\ walk.since = changes =>
    \A t \in Present \ walk.amiss : row[t].status # "missing"

\* A walk rolls up every session that it reads, and everything it finds unfinished.
TurnsEnded ==
  walk.kind = "full" =>
    /\ walk.at = "scan" => \A r \in BagToSet(rows) \ rolled : SessionOf[r[1]] \in walk.touched
    /\ walk.at \in {"episodes", "replay"} => BagToSet(rows) \subseteq rolled
    /\ walk.at = "end" => \A r \in BagToSet(rows) \ rolled : \E p \in preserved : p.row = r

\* A sweep that has left no session behind is undone only by what it puts back.
Swept ==
  walk.sweep =>
    /\ walk.at = "replay" => stale = {}
    /\ walk.at = "end" => \A s \in stale : \E p \in preserved : SessionOf[p.row[1]] = s

PutBack == walk.at = "end" => \A p \in preserved : p.row \in BagToSet(rows)

GraphInv ==
  /\ DiskTypeOK /\ GraphTypeOK /\ WalkTypeOK
  /\ RowsOnce /\ KindsFit /\ Safeguarded /\ Reaching /\ Reached /\ TurnsEnded /\ Swept /\ PutBack

----------------------------------------------------------------------------
(* The initial states.                                                      *)

\* A transcript at the start is a sequence of line numbers.
LEMMA TextsAreLines == \A lines \in Texts : lines \in Seq(Nat)
<1>1. SUFFICES ASSUME NEW n \in 0..MaxLines, NEW lines \in [1..n -> 0..n] PROVE lines \in Seq(Nat)
  BY DEF Texts
<1>2. n \in Nat /\ 0..n \subseteq Nat
  BY TranscriptAssumption
<1>3. lines \in [1..n -> Nat]
  BY <1>2
<1> QED
  BY <1>2, <1>3

LEMMA DiskStarts == TranscriptsInit => DiskTypeOK
<1>1. SUFFICES ASSUME TranscriptsInit PROVE DiskTypeOK
  OBVIOUS
<1> DEFINE File == [there : BOOLEAN, gen : Nat, lines : Seq(Nat)]
           Start(lines) == [there |-> lines # <<>>, gen |-> 0, lines |-> lines]
<1>2. \A lines \in Texts : Start(lines) \in File
  <2>1. TAKE lines \in Texts
  <2>2. lines \in Seq(Nat) /\ (lines # <<>>) \in BOOLEAN
    BY TextsAreLines
  <2> QED
    BY <2>2
<1>3. disk \in [Transcripts -> {Start(lines) : lines \in Texts}]
  BY <1>1 DEF TranscriptsInit
<1> HIDE DEF Start
<1>4. disk \in [Transcripts -> File]
  BY <1>2, <1>3
<1> QED
  BY <1>1, <1>4 DEF TranscriptsInit, DiskTypeOK

LEMMA GraphStarts == GraphInit => GraphInv
<1>1. SUFFICES ASSUME GraphInit PROVE GraphInv
  OBVIOUS
<1>2. DiskTypeOK
  BY <1>1, DiskStarts DEF GraphInit
<1>3. BagToSet(rows) = {}
  BY <1>1 DEF GraphInit, EmptyBag, SetToBag, BagToSet
<1>4. GraphTypeOK
  BY <1>1, <1>3 DEF GraphInit, GraphTypeOK, NoRow, Statuses
<1>5. WalkTypeOK
  BY <1>1 DEF GraphInit, WalkTypeOK, NoWalk, Places
<1>6. walk.at = "idle" /\ walk.kind = "delta" /\ ~walk.sweep /\ walk.since = 0
  BY <1>1 DEF GraphInit, NoWalk
<1>7. RowsOnce
  BY <1>3 DEF RowsOnce
<1>8. KindsFit
  BY <1>2, <1>6 DEF KindsFit, DiskTypeOK
<1> QED
  BY <1>2, <1>4, <1>5, <1>6, <1>7, <1>8
  DEF GraphInv, Safeguarded, Reaching, Reached, TurnsEnded, Swept, PutBack

----------------------------------------------------------------------------
(* The transcripts change.                                                  *)

LEMMA DiskStays == DiskTypeOK /\ TranscriptsChange => DiskTypeOK'
<1> SUFFICES ASSUME DiskTypeOK, TranscriptsChange PROVE DiskTypeOK'
  OBVIOUS
<1> DEFINE File == [there : BOOLEAN, gen : Nat, lines : Seq(Nat)]
<1>1. disk \in [Transcripts -> File] /\ changes \in Nat
  BY DEF DiskTypeOK
<1>2. changes' \in Nat
  BY <1>1 DEF TranscriptsChange
<1>3. PICK t \in Transcripts : Grow(t) \/ Rewrite(t) \/ Prune(t) \/ Return(t)
  BY DEF TranscriptsChange
<1>4. disk[t] \in File
  BY <1>1
<1>5. SUFFICES disk' \in [Transcripts -> File]
  BY <1>2 DEF DiskTypeOK
<1>6. CASE Grow(t)
  <2>1. PICK l \in {Use} \cup Unanswered(disk[t].lines, Length(t)) :
          disk' = [disk EXCEPT ![t].there = TRUE, ![t].lines = Append(@, l)]
    BY <1>6 DEF Grow
  <2>2. disk[t].lines \in Seq(Nat)
    BY <1>4
  <2>3. l \in Nat
    BY <2>2 DEF Unanswered, Use
  <2>4. Append(disk[t].lines, l) \in Seq(Nat)
    BY <2>2, <2>3
  <2> QED
    BY <1>1, <1>4, <2>1, <2>4
<1>7. CASE Rewrite(t)
  <2>1. PICK n \in 0..MaxLines :
          disk' = [disk EXCEPT ![t].gen = @ + 1, ![t].lines = [i \in 1..n |-> Use]]
    BY <1>7 DEF Rewrite
  <2>2. n \in Nat
    BY TranscriptAssumption
  <2>3. [i \in 1..n |-> Use] \in Seq(Nat)
    BY <2>2 DEF Use
  <2>4. disk[t].gen + 1 \in Nat
    BY <1>4
  <2> QED
    BY <1>1, <1>4, <2>1, <2>3, <2>4
<1>8. CASE Prune(t)
  BY <1>1, <1>4, <1>8 DEF Prune
<1>9. CASE Return(t)
  BY <1>1, <1>4, <1>9 DEF Return
<1> QED
  BY <1>3, <1>6, <1>7, <1>8, <1>9

\* A change of the transcripts leaves the graph alone, and ends every claim
\* about transcripts that stay as they were.
LEMMA ChangeKeeps == GraphInv /\ TranscriptsChange /\ UNCHANGED graphVars => GraphInv'
<1> SUFFICES ASSUME GraphInv, TranscriptsChange, UNCHANGED graphVars PROVE GraphInv'
  OBVIOUS
<1> USE DEF graphVars
<1>1. DiskTypeOK'
  BY DiskStays DEF GraphInv
<1>2. GraphTypeOK' /\ WalkTypeOK'
  BY DEF GraphInv, GraphTypeOK, WalkTypeOK
<1>3. changes' = changes + 1 /\ changes \in Nat /\ walk.since \in Nat
  BY DEF TranscriptsChange, GraphInv, DiskTypeOK, WalkTypeOK
<1>4. KindsFit' /\ walk'.since # changes'
  BY <1>3 DEF KindsFit, GraphInv
<1>5. RowsOnce' /\ TurnsEnded' /\ Swept' /\ PutBack'
  BY DEF GraphInv, RowsOnce, TurnsEnded, Swept, PutBack
<1>6. Safeguarded'
  BY DEF GraphInv, Safeguarded, Unreachable, RowsOf
<1>7. Reaching' /\ Reached'
  BY <1>4 DEF GraphInv, Reaching, Reached
<1> QED
  BY <1>1, <1>2, <1>4, <1>5, <1>6, <1>7 DEF GraphInv

----------------------------------------------------------------------------
(* A pass starts.                                                           *)

LEMMA StampedTypes ==
  ASSUME GraphTypeOK, NEW sealed
  PROVE  /\ Stamped(sealed) \in [Transcripts -> [status : Statuses, at : Nat, gen : Nat, late : BOOLEAN]]
         /\ \A t \in Transcripts : Stamped(sealed)[t].status = row[t].status
  BY DEF GraphTypeOK, Stamped

LEMMA StartWalkKeeps ==
  ASSUME GraphInv, NEW hidden, NEW limit, NEW sweep \in BOOLEAN, StartWalk(hidden, limit, sweep),
         UNCHANGED <<disk, changes>>
  PROVE  GraphInv'
<1> DEFINE visited == Foremost(limit, Present \ hidden)
<1>1. visited \subseteq Transcripts
  BY DEF Foremost, Present
<1>2. walk' = [NoWalk EXCEPT !.at = "scan", !.kind = "full", !.sweep = sweep,
          !.todo = visited, !.visited = visited, !.before = Offsets, !.since = changes,
          !.unvisited = {t \in Present \ visited : row[t].status = "ok"},
          !.amiss = {t \in Transcripts \ visited : row[t].status # "ok"}]
  BY DEF StartWalk
<1>3. DiskTypeOK /\ GraphTypeOK /\ changes \in Nat
  BY DEF GraphInv, DiskTypeOK
<1>4. DiskTypeOK'
  BY <1>3 DEF DiskTypeOK
<1> HIDE DEF visited
<1>5. row' = Stamped(hidden) /\ rolled' = RolledUp(Unfinished)
      /\ UNCHANGED <<rows, stale, preserved, retired>>
  BY DEF StartWalk
<1>6. \A t \in Transcripts : row'[t].status = row[t].status
  BY <1>3, <1>5, StampedTypes
<1>7. rolled' \subseteq Rows /\ BagToSet(rows) \subseteq rolled'
  BY <1>3, <1>5 DEF GraphTypeOK, RolledUp, Unfinished
<1>8. GraphTypeOK'
  BY <1>3, <1>5, <1>7, StampedTypes DEF GraphTypeOK
<1>9. Offsets \in [Transcripts -> Nat]
  BY <1>3 DEF GraphTypeOK, Offsets
<1>10. WalkTypeOK'
  BY <1>1, <1>2, <1>3, <1>9 DEF WalkTypeOK, NoWalk, Present, Places
<1>11. /\ walk'.at = "scan" /\ walk'.kind = "full" /\ walk'.since = changes
       /\ walk'.todo = visited /\ walk'.visited = visited
       /\ walk'.unvisited = {t \in Present \ visited : row[t].status = "ok"}
       /\ walk'.amiss = {t \in Transcripts \ visited : row[t].status # "ok"}
  BY <1>2 DEF NoWalk
<1>12. KindsFit'
  BY <1>3, <1>11 DEF KindsFit
<1>13. Reaching'
  BY <1>6, <1>11 DEF Reaching, Present
<1>14. TurnsEnded'
  BY <1>5, <1>7, <1>11 DEF TurnsEnded
<1>15. RowsOnce'
  BY <1>5 DEF GraphInv, RowsOnce
<1> QED
  BY <1>4, <1>8, <1>10, <1>11, <1>12, <1>13, <1>14, <1>15
  DEF GraphInv, Safeguarded, Reached, Swept, PutBack

LEMMA StartDeltaKeeps ==
  ASSUME GraphInv, NEW dirty \in SUBSET Transcripts, StartDelta(dirty), UNCHANGED <<disk, changes>>
  PROVE  GraphInv'
<1>1. walk' = [NoWalk EXCEPT !.at = "scan", !.before = Offsets, !.since = changes, !.todo = dirty]
      /\ UNCHANGED <<row, rows, rolled, stale, preserved, retired>>
  BY DEF StartDelta
<1>2. DiskTypeOK /\ GraphTypeOK /\ changes \in Nat
  BY DEF GraphInv, DiskTypeOK
<1>3. DiskTypeOK' /\ GraphTypeOK' /\ RowsOnce'
  BY <1>1 DEF GraphInv, DiskTypeOK, GraphTypeOK, RowsOnce
<1>4. Offsets \in [Transcripts -> Nat]
  BY <1>2 DEF GraphTypeOK, Offsets
<1>5. WalkTypeOK'
  BY <1>1, <1>2, <1>4 DEF WalkTypeOK, NoWalk, Places
<1>6. walk'.at = "scan" /\ walk'.kind = "delta" /\ ~walk'.sweep /\ walk'.since = changes
  BY <1>1 DEF NoWalk
<1> QED
  BY <1>2, <1>3, <1>5, <1>6
  DEF GraphInv, KindsFit, Safeguarded, Reaching, Reached, TurnsEnded, Swept, PutBack

\* Every row that is copied is among the copies, and no copy is lost but to a
\* later copy of the same row.
LEMMA Preserving ==
  ASSUME GraphTypeOK, PreserveUnreachable
  PROVE  /\ preserved' \subseteq [row : Rows, ended : BOOLEAN]
         /\ \A s \in Sessions : Unreachable(s) => \A r \in RowsOf(s) : \E p \in preserved' : p.row = r
         /\ \A p \in preserved : \E q \in preserved' : q.row = p.row
<1> DEFINE new == Copies({s \in Sessions : Unreachable(s)})
<1>1. preserved' = {p \in preserved : \A n \in new : n.row # p.row} \cup new
  BY DEF PreserveUnreachable
<1>2. new \subseteq [row : Rows, ended : BOOLEAN]
  <2>1. SUFFICES ASSUME NEW r \in BagToSet(rows) PROVE [row |-> r, ended |-> r \in rolled] \in [row : Rows, ended : BOOLEAN]
    BY DEF Copies
  <2> QED
    BY DEF GraphTypeOK
<1>3. \A s \in Sessions : Unreachable(s) => \A r \in RowsOf(s) : [row |-> r, ended |-> r \in rolled] \in new
  BY DEF Copies, RowsOf
<1> HIDE DEF new
<1>4. \A s \in Sessions : Unreachable(s) => \A r \in RowsOf(s) : \E p \in preserved' : p.row = r
  <2>1. SUFFICES ASSUME NEW s \in Sessions, Unreachable(s), NEW r \in RowsOf(s) PROVE \E p \in preserved' : p.row = r
    OBVIOUS
  <2>2. [row |-> r, ended |-> r \in rolled] \in preserved'
    BY <1>1, <1>3, <2>1
  <2> QED
    BY <2>2
<1> QED
  BY <1>1, <1>2, <1>4 DEF GraphTypeOK

LEMMA StartRebuildKeeps == GraphInv /\ StartRebuild /\ UNCHANGED <<disk, changes>> => GraphInv'
<1> SUFFICES ASSUME GraphInv, StartRebuild, UNCHANGED <<disk, changes>> PROVE GraphInv'
  OBVIOUS
<1>1. walk' = [NoWalk EXCEPT !.at = "reset", !.kind = "rebuild"]
      /\ UNCHANGED <<row, rows, rolled, stale, retired>> /\ PreserveUnreachable
  BY DEF StartRebuild
<1>2. DiskTypeOK /\ GraphTypeOK /\ changes \in Nat
  BY DEF GraphInv, DiskTypeOK
<1>3. DiskTypeOK' /\ GraphTypeOK' /\ RowsOnce'
  BY <1>1, <1>2, Preserving DEF GraphInv, DiskTypeOK, GraphTypeOK, RowsOnce
<1>4. WalkTypeOK'
  BY <1>1 DEF WalkTypeOK, NoWalk, Places
<1>5. walk'.at = "reset" /\ walk'.kind = "rebuild" /\ ~walk'.sweep /\ walk'.since = 0
  BY <1>1 DEF NoWalk
<1>6. Safeguarded'
  BY <1>1, <1>2, Preserving DEF Safeguarded, Unreachable, RowsOf
<1>7. KindsFit'
  BY <1>2, <1>5 DEF KindsFit
<1> QED
  BY <1>3, <1>4, <1>5, <1>6, <1>7
  DEF GraphInv, Reaching, Reached, TurnsEnded, Swept, PutBack

LEMMA ResetKeeps == GraphInv /\ ResetIndex /\ UNCHANGED <<disk, changes>> => GraphInv'
<1> SUFFICES ASSUME GraphInv, ResetIndex, UNCHANGED <<disk, changes>> PROVE GraphInv'
  OBVIOUS
<1>1. /\ walk.at = "reset" /\ walk.kind = "rebuild"
      /\ rows' = EmptyBag /\ rolled' = {} /\ stale' = {} /\ UNCHANGED <<preserved, retired>>
      /\ row' = [t \in Transcripts |-> [row[t] EXCEPT !.at = 0]]
      /\ walk' = [walk EXCEPT !.at = "scan", !.sweep = TRUE, !.todo = Present,
                !.visited = Present, !.since = changes]
  BY DEF ResetIndex, GraphInv, KindsFit
<1>2. DiskTypeOK /\ GraphTypeOK /\ WalkTypeOK /\ changes \in Nat
  BY DEF GraphInv, DiskTypeOK
<1>3. BagToSet(rows') = {}
  BY <1>1 DEF EmptyBag, SetToBag, BagToSet
<1>4. DiskTypeOK' /\ RowsOnce'
  BY <1>2, <1>3 DEF DiskTypeOK, RowsOnce
<1>5. GraphTypeOK'
  BY <1>1, <1>2, <1>3 DEF GraphTypeOK
<1>6. WalkTypeOK'
  BY <1>1, <1>2 DEF WalkTypeOK, Places, Present
<1>7. /\ walk'.at = "scan" /\ walk'.kind = "rebuild" /\ walk'.since = changes
      /\ walk'.todo = Present /\ walk'.visited = Present
  BY <1>1, <1>2 DEF WalkTypeOK
<1>8. KindsFit'
  BY <1>2, <1>7 DEF KindsFit
<1>9. Reaching'
  BY <1>7 DEF Reaching, Present
<1> QED
  BY <1>4, <1>5, <1>6, <1>7, <1>8, <1>9
  DEF GraphInv, Safeguarded, Reached, TurnsEnded, Swept, PutBack

----------------------------------------------------------------------------
(* The scan.                                                                *)

LEMMA ScannedTypes ==
  ASSUME WalkTypeOK, NEW t \in Transcripts, NEW status \in BOOLEAN, Scanned(t, status)
  PROVE  /\ WalkTypeOK'
         /\ walk'.todo = walk.todo \ {t}
         /\ walk'.touched = IF status THEN walk.touched \cup {SessionOf[t]} ELSE walk.touched
         /\ walk'.at = walk.at /\ walk'.kind = walk.kind /\ walk'.sweep = walk.sweep
         /\ walk'.visited = walk.visited /\ walk'.unvisited = walk.unvisited
         /\ walk'.since = walk.since /\ walk'.amiss = walk.amiss
<1>1. SessionOf[t] \in Sessions
  BY DEF Sessions
<1> QED
  BY <1>1 DEF Scanned, WalkTypeOK

\* What a visit leaves of the row of its transcript: it is there, and not missing.
LEMMA VisitReaches ==
  ASSUME GraphInv, walk.at = "scan", NEW t \in walk.todo, NEW status \in BOOLEAN, Scanned(t, status),
         \A u \in Transcripts \ {t} : row'[u].status = row[u].status,
         t \in Present => row'[t].status # "missing",
         UNCHANGED <<disk, changes>>
  PROVE  Reaching' /\ KindsFit'
<1>1. WalkTypeOK /\ t \in Transcripts
  BY DEF GraphInv, WalkTypeOK
<1>2. /\ walk'.todo = walk.todo \ {t}
      /\ walk'.at = walk.at /\ walk'.kind = walk.kind
      /\ walk'.visited = walk.visited /\ walk'.unvisited = walk.unvisited
      /\ walk'.since = walk.since /\ walk'.amiss = walk.amiss
  BY <1>1, ScannedTypes
<1>3. KindsFit'
  BY <1>2 DEF GraphInv, KindsFit
<1>4. Reaching'
  BY <1>2 DEF GraphInv, Reaching, Present
<1> QED
  BY <1>3, <1>4

\* A visit that finds nothing to read, or cannot tell where a line begins.
LEMMA VisitRowKeeps ==
  ASSUME GraphInv, walk.at = "scan", NEW t \in walk.todo,
         VisitNothing(t) \/ VisitGarbled(t), UNCHANGED <<disk, changes, preserved, retired>>
  PROVE  GraphInv'
<1>1. DiskTypeOK /\ GraphTypeOK /\ WalkTypeOK /\ t \in Transcripts
  BY DEF GraphInv, WalkTypeOK
<1>2. PICK status \in Statuses : row' = [row EXCEPT ![t].status = status] /\ (t \in Present => status # "missing")
  BY DEF VisitNothing, VisitGarbled, Statuses
<1>3. Scanned(t, FALSE) /\ UNCHANGED <<rows, rolled, stale>>
  BY DEF VisitNothing, VisitGarbled
<1>4. row' \in [Transcripts -> [status : Statuses, at : Nat, gen : Nat, late : BOOLEAN]]
  BY <1>1, <1>2 DEF GraphTypeOK
<1>5. row'[t].status = status /\ \A u \in Transcripts \ {t} : row'[u].status = row[u].status
  BY <1>1, <1>2 DEF GraphTypeOK
<1>6. Reaching' /\ KindsFit'
  BY <1>2, <1>3, <1>5, VisitReaches
<1>7. /\ WalkTypeOK' /\ walk'.at = "scan" /\ walk'.kind = walk.kind /\ walk'.touched = walk.touched
  BY <1>1, <1>3, ScannedTypes
<1>8. TurnsEnded'
  BY <1>3, <1>7 DEF GraphInv, TurnsEnded
<1>9. DiskTypeOK' /\ GraphTypeOK' /\ RowsOnce'
  BY <1>1, <1>3, <1>4 DEF GraphInv, DiskTypeOK, GraphTypeOK, RowsOnce
<1> QED
  BY <1>6, <1>7, <1>8, <1>9 DEF GraphInv, Safeguarded, Reached, Swept, PutBack

\* What is read becomes rows, each once.
LEMMA NewRows ==
  ASSUME GraphInv, NEW t \in Transcripts, VisitNew(t)
  PROVE  \E new \in SUBSET Rows, old \in SUBSET BagToSet(rows) :
           /\ \A r \in new : r[1] = t
           /\ \A r \in BagToSet(rows) \ old : r[1] = t
           /\ BagToSet(rows') = old \cup new
           /\ \A r \in old \cup new : rows'[r] = 1
           /\ rolled' = (rolled \cap old) \ new
           /\ stale' = stale \/ stale' = stale \cup {SessionOf[t]}
<1> DEFINE anew == Rewound(t)
           from == IF anew THEN 0 ELSE row[t].at
           old == IF anew THEN Purged(t) ELSE rows
           new == {<<t, k>> : k \in from + 1..Length(t)}
<1>1. DiskTypeOK /\ GraphTypeOK
  BY DEF GraphInv
<1>2. /\ rows' = Once(old, new)
      /\ rolled' = (rolled \cap BagToSet(old)) \ new
      /\ stale' = IF new = {} THEN stale ELSE stale \cup {SessionOf[t]}
  BY DEF VisitNew
<1>3. from \in Nat /\ Length(t) \in Nat
  BY <1>1 DEF DiskTypeOK, GraphTypeOK, Length
<1>4. new \in SUBSET Rows /\ \A r \in new : r[1] = t
  BY <1>3 DEF Rows
<1>5. BagToSet(old) \subseteq BagToSet(rows) /\ \A r \in BagToSet(rows) \ BagToSet(old) : r[1] = t
  BY DEF BagToSet, Purged
<1> HIDE DEF new, old, from, anew
<1>6. BagToSet(rows') = BagToSet(old) \cup new /\ \A r \in BagToSet(old) \cup new : rows'[r] = 1
  BY <1>2 DEF Once, BagToSet
<1> QED
  BY <1>2, <1>4, <1>5, <1>6

LEMMA VisitNewKeeps ==
  ASSUME GraphInv, walk.at = "scan", NEW t \in walk.todo,
         VisitNew(t), UNCHANGED <<disk, changes, preserved, retired>>
  PROVE  GraphInv'
<1>1. DiskTypeOK /\ GraphTypeOK /\ WalkTypeOK /\ t \in Transcripts
  BY DEF GraphInv, WalkTypeOK
<1>2. PICK new \in SUBSET Rows, old \in SUBSET BagToSet(rows) :
           /\ \A r \in new : r[1] = t
           /\ \A r \in BagToSet(rows) \ old : r[1] = t
           /\ BagToSet(rows') = old \cup new
           /\ \A r \in old \cup new : rows'[r] = 1
           /\ rolled' = (rolled \cap old) \ new
           /\ stale' = stale \/ stale' = stale \cup {SessionOf[t]}
  BY <1>1, NewRows
<1>3. /\ row' = [row EXCEPT ![t] = [status |-> "ok", at |-> Length(t), gen |-> disk[t].gen,
               late |-> retired[SessionOf[t]] # "no"]]
      /\ Scanned(t, TRUE)
  BY DEF VisitNew
<1>4. Length(t) \in Nat /\ disk[t].gen \in Nat /\ SessionOf[t] \in Sessions
  BY <1>1 DEF DiskTypeOK, Length, Sessions
<1>5. row' \in [Transcripts -> [status : Statuses, at : Nat, gen : Nat, late : BOOLEAN]]
  BY <1>1, <1>3, <1>4 DEF GraphTypeOK, Statuses
<1>6. row'[t].status = "ok" /\ \A u \in Transcripts \ {t} : row'[u].status = row[u].status
  BY <1>1, <1>3 DEF GraphTypeOK
<1>7. Reaching' /\ KindsFit'
  BY <1>3, <1>6, VisitReaches
<1>8. /\ WalkTypeOK' /\ walk'.at = "scan" /\ walk'.kind = walk.kind
      /\ walk'.touched = walk.touched \cup {SessionOf[t]}
  BY <1>1, <1>3, ScannedTypes
<1>9. GraphTypeOK'
  BY <1>1, <1>2, <1>4, <1>5 DEF GraphTypeOK
<1>10. DiskTypeOK' /\ RowsOnce'
  BY <1>1, <1>2 DEF DiskTypeOK, RowsOnce
<1>11. TurnsEnded'
  BY <1>2, <1>8 DEF GraphInv, TurnsEnded
<1> QED
  BY <1>7, <1>8, <1>9, <1>10, <1>11 DEF GraphInv, Safeguarded, Reached, Swept, PutBack

LEMMA VisitKeeps == GraphInv /\ Visit /\ UNCHANGED <<disk, changes>> => GraphInv'
  BY VisitRowKeeps, VisitNewKeeps DEF Visit

LEMMA RollUpKeeps == GraphInv /\ RollUp /\ UNCHANGED <<disk, changes>> => GraphInv'
<1> SUFFICES ASSUME GraphInv, RollUp, UNCHANGED <<disk, changes>> PROVE GraphInv'
  OBVIOUS
<1>1. /\ walk.at = "scan" /\ walk.todo = {}
      /\ rolled' = RolledUp(walk.touched)
      /\ row' = MarkMissing
      /\ walk' = [walk EXCEPT !.at = "episodes"]
      /\ UNCHANGED <<rows, stale, preserved, retired>>
  BY DEF RollUp
<1>2. DiskTypeOK /\ GraphTypeOK /\ WalkTypeOK
  BY DEF GraphInv
<1>3. WalkTypeOK' /\ walk'.at = "episodes" /\ walk'.kind = walk.kind
      /\ walk'.since = walk.since /\ walk'.amiss = walk.amiss
  BY <1>1, <1>2 DEF WalkTypeOK, Places
<1>4. rolled' \subseteq Rows /\ rolled \subseteq rolled'
      /\ \A r \in BagToSet(rows) : SessionOf[r[1]] \in walk.touched => r \in rolled'
  BY <1>1, <1>2 DEF GraphTypeOK, RolledUp
<1>5. row' \in [Transcripts -> [status : Statuses, at : Nat, gen : Nat, late : BOOLEAN]]
  BY <1>1, <1>2 DEF GraphTypeOK, MarkMissing, Statuses
<1>6. GraphTypeOK' /\ DiskTypeOK' /\ RowsOnce'
  BY <1>1, <1>2, <1>4, <1>5 DEF GraphInv, GraphTypeOK, DiskTypeOK, RowsOnce
<1>7. TurnsEnded'
  BY <1>1, <1>3, <1>4 DEF GraphInv, TurnsEnded
<1>8. Reached'
  <2>1. SUFFICES ASSUME walk.kind # "delta", walk.since = changes, NEW t \in Present, t \notin walk.amiss
                 PROVE  row'[t].status # "missing"
    BY <1>3 DEF Reached, Present
  <2>2. /\ t \in walk.visited => row[t].status # "missing"
        /\ t \notin walk.visited => row[t].status = "ok" /\ t \in walk.unvisited
    BY <1>1, <2>1 DEF GraphInv, Reaching
  <2>3. t \in Transcripts /\ (t \in walk.visited \/ Restored(t))
    BY <2>2 DEF Present, Restored
  <2>4. row'[t] = row[t]
    BY <1>1, <2>3 DEF MarkMissing
  <2> QED
    BY <2>2, <2>4
<1>9. KindsFit'
  BY <1>3 DEF GraphInv, KindsFit
<1> QED
  BY <1>3, <1>6, <1>7, <1>8, <1>9 DEF GraphInv, Safeguarded, Reaching, Swept, PutBack

----------------------------------------------------------------------------
(* The episodes, the replay and the end.                                    *)

\* A pass that is over claims nothing.
LEMMA Rests ==
  ASSUME walk' = NoWalk, DiskTypeOK', GraphTypeOK', RowsOnce'
  PROVE  GraphInv'
<1>1. WalkTypeOK'
  BY DEF WalkTypeOK, NoWalk, Places
<1>2. walk'.at = "idle" /\ walk'.kind = "delta" /\ ~walk'.sweep /\ walk'.since = 0
  BY DEF NoWalk
<1>3. KindsFit'
  BY <1>2 DEF KindsFit, DiskTypeOK
<1> QED
  BY <1>1, <1>2, <1>3 DEF GraphInv, Safeguarded, Reaching, Reached, TurnsEnded, Swept, PutBack

LEMMA EpisodesKeep == GraphInv /\ Episodes /\ UNCHANGED <<disk, changes>> => GraphInv'
<1> SUFFICES ASSUME GraphInv, Episodes, UNCHANGED <<disk, changes>> PROVE GraphInv'
  OBVIOUS
<1>1. /\ walk.at = "episodes" /\ stale' \subseteq stale
      /\ walk' = IF walk.kind = "delta" THEN NoWalk
                 ELSE [walk EXCEPT !.at = "replay", !.sweep = walk.sweep /\ stale' = {}]
      /\ UNCHANGED <<row, rows, rolled, preserved, retired>>
  BY DEF Episodes
<1>2. GraphTypeOK' /\ DiskTypeOK' /\ RowsOnce'
  BY <1>1 DEF GraphInv, GraphTypeOK, DiskTypeOK, RowsOnce
<1>3. CASE walk.kind = "delta"
  BY <1>1, <1>2, <1>3, Rests
<1>4. CASE walk.kind # "delta"
  <2>1. WalkTypeOK /\ (stale' = {}) \in BOOLEAN
    BY DEF GraphInv
  <2>2. /\ WalkTypeOK' /\ walk'.at = "replay" /\ walk'.kind = walk.kind
        /\ walk'.since = walk.since /\ walk'.amiss = walk.amiss
        /\ walk'.sweep => stale' = {}
    BY <1>1, <1>4, <2>1 DEF WalkTypeOK, Places
  <2>3. KindsFit' /\ Reached'
    BY <1>1, <1>4, <2>2 DEF GraphInv, KindsFit, Reached, Present
  <2>4. TurnsEnded' /\ Swept'
    BY <1>1, <2>2 DEF GraphInv, TurnsEnded, Swept
  <2> QED
    BY <1>2, <2>2, <2>3, <2>4 DEF GraphInv, Safeguarded, Reaching, PutBack
<1> QED
  BY <1>3, <1>4

\* Adding rows that are not there to rows that are there once.
LEMMA AddedOnce ==
  ASSUME RowsOnce, NEW back, \A r \in back : r \notin BagToSet(rows), rows' = rows (+) SetToBag(back)
  PROVE  RowsOnce' /\ BagToSet(rows') = BagToSet(rows) \cup back
<1>1. BagToSet(rows') = BagToSet(rows) \cup back
  BY DEF (+), SetToBag, BagToSet
<1>2. \A r \in BagToSet(rows) : rows'[r] = 1
  BY DEF (+), SetToBag, BagToSet, RowsOnce
<1>3. \A r \in back : rows'[r] = 1
  BY DEF (+), SetToBag, BagToSet
<1> QED
  BY <1>1, <1>2, <1>3 DEF RowsOnce

LEMMA Replaying ==
  ASSUME GraphInv, ReplayPreserved
  PROVE  /\ RowsOnce'
         /\ BagToSet(rows') = BagToSet(rows) \cup {p.row : p \in {q \in preserved : Absent(q)}}
         /\ \A p \in preserved : p.row \in BagToSet(rows')
<1> DEFINE back == {p.row : p \in {q \in preserved : Absent(q)}}
<1>1. RowsOnce /\ \A r \in back : r \notin BagToSet(rows)
  BY DEF GraphInv, Absent
<1>2. rows' = rows (+) SetToBag(back)
  BY DEF ReplayPreserved
<1>3. \A p \in preserved : p.row \in BagToSet(rows) \cup back
  BY DEF Absent
<1> HIDE DEF back
<1>4. RowsOnce' /\ BagToSet(rows') = BagToSet(rows) \cup back
  BY <1>1, <1>2, AddedOnce
<1> QED
  BY <1>3, <1>4 DEF back

LEMMA ReplayKeeps == GraphInv /\ ReplayPreserved /\ UNCHANGED <<disk, changes>> => GraphInv'
<1> SUFFICES ASSUME GraphInv, ReplayPreserved, UNCHANGED <<disk, changes>> PROVE GraphInv'
  OBVIOUS
<1> DEFINE back == {q \in preserved : Absent(q)}
<1>1. /\ walk.at = "replay" /\ walk.kind # "delta" /\ walk' = [walk EXCEPT !.at = "end"]
      /\ rolled' = rolled \cup {p.row : p \in {q \in back : q.ended}}
      /\ stale' = stale \cup {SessionOf[p.row[1]] : p \in back}
      /\ UNCHANGED <<row, preserved, retired>>
  BY DEF ReplayPreserved, GraphInv, KindsFit
<1>2. DiskTypeOK /\ GraphTypeOK /\ WalkTypeOK
  BY DEF GraphInv
<1>3. /\ RowsOnce'
      /\ BagToSet(rows') = BagToSet(rows) \cup {p.row : p \in back}
      /\ \A p \in preserved : p.row \in BagToSet(rows')
  BY Replaying
<1>4. \A p \in preserved : p.row \in Rows /\ SessionOf[p.row[1]] \in Sessions
  BY <1>2 DEF GraphTypeOK, Rows, Sessions
<1>5. back \subseteq preserved
  OBVIOUS
<1> HIDE DEF back
<1>6. /\ WalkTypeOK' /\ walk'.at = "end" /\ walk'.kind = walk.kind
      /\ walk'.since = walk.since /\ walk'.amiss = walk.amiss /\ walk'.sweep = walk.sweep
  BY <1>1, <1>2 DEF WalkTypeOK, Places
<1>7. BagToSet(rows') \subseteq Rows /\ rolled' \subseteq Rows /\ stale' \subseteq Sessions
  BY <1>1, <1>2, <1>3, <1>4, <1>5 DEF GraphTypeOK
<1>8. GraphTypeOK' /\ DiskTypeOK'
  BY <1>1, <1>2, <1>7 DEF GraphTypeOK, DiskTypeOK
<1>9. KindsFit' /\ Reached'
  BY <1>1, <1>6 DEF GraphInv, KindsFit, Reached, Present
<1>10. TurnsEnded'
  BY <1>1, <1>3, <1>5, <1>6 DEF GraphInv, TurnsEnded
<1>11. Swept' /\ PutBack'
  BY <1>1, <1>3, <1>5, <1>6 DEF GraphInv, Swept, PutBack
<1> QED
  BY <1>3, <1>6, <1>8, <1>9, <1>10, <1>11 DEF GraphInv, Safeguarded, Reaching

LEMMA EndKeeps == GraphInv /\ EndWalk /\ UNCHANGED <<disk, changes>> => GraphInv'
<1> SUFFICES ASSUME GraphInv, EndWalk, UNCHANGED <<disk, changes>> PROVE GraphInv'
  OBVIOUS
<1>1. walk' = NoWalk /\ UNCHANGED <<row, rows, rolled, stale, preserved, retired>>
  BY DEF EndWalk
<1>2. GraphTypeOK' /\ DiskTypeOK' /\ RowsOnce'
  BY <1>1 DEF GraphInv, GraphTypeOK, DiskTypeOK, RowsOnce
<1> QED
  BY <1>1, <1>2, Rests

----------------------------------------------------------------------------
(* What may come between.                                                   *)

LEMMA InterruptionKeeps == GraphInv /\ (Abort \/ Kill) /\ disk' = disk /\ changes' = changes + 1 => GraphInv'
<1> SUFFICES ASSUME GraphInv, Abort \/ Kill, disk' = disk, changes' = changes + 1 PROVE GraphInv'
  OBVIOUS
<1>1. /\ walk' = NoWalk /\ UNCHANGED <<row, rows, stale, preserved, retired>>
      /\ rolled' = rolled \/ rolled' = RolledUp(walk.touched)
  BY DEF Abort, Kill
<1>2. rolled' \subseteq Rows
  BY <1>1 DEF GraphInv, GraphTypeOK, RolledUp
<1>3. GraphTypeOK' /\ DiskTypeOK' /\ RowsOnce'
  BY <1>1, <1>2 DEF GraphInv, GraphTypeOK, DiskTypeOK, RowsOnce
<1> QED
  BY <1>1, <1>3, Rests

LEMMA RetireKeeps ==
  ASSUME GraphInv, NEW s \in Sessions, Retire(s), disk' = disk, changes' = changes + 1
  PROVE  GraphInv'
<1>1. /\ \E now \in {"no", "new", "past"} : retired' = [retired EXCEPT ![s] = now]
      /\ row' = [t \in Transcripts |->
           IF SessionOf[t] = s /\ retired[s] # "new" THEN [row[t] EXCEPT !.late = FALSE] ELSE row[t]]
      /\ UNCHANGED <<rows, rolled, stale, preserved, walk>>
  BY DEF Retire
<1>2. DiskTypeOK /\ GraphTypeOK /\ WalkTypeOK
  BY DEF GraphInv
<1>3. /\ row' \in [Transcripts -> [status : Statuses, at : Nat, gen : Nat, late : BOOLEAN]]
      /\ \A t \in Transcripts : row'[t].status = row[t].status
  <2>1. ASSUME NEW t \in Transcripts
        PROVE  /\ row[t] \in [status : Statuses, at : Nat, gen : Nat, late : BOOLEAN]
               /\ row'[t] = row[t] \/ row'[t] = [row[t] EXCEPT !.late = FALSE]
    BY <1>1, <1>2 DEF GraphTypeOK
  <2>2. ASSUME NEW t \in Transcripts
        PROVE  /\ row'[t] \in [status : Statuses, at : Nat, gen : Nat, late : BOOLEAN]
               /\ row'[t].status = row[t].status
    BY <2>1
  <2>3. row' = [t \in Transcripts |-> row'[t]]
    BY <1>1
  <2> QED
    BY <2>2, <2>3
<1>4. DiskTypeOK' /\ GraphTypeOK' /\ WalkTypeOK' /\ RowsOnce'
  BY <1>1, <1>2, <1>3 DEF GraphInv, DiskTypeOK, GraphTypeOK, WalkTypeOK, RowsOnce
<1>5. walk'.since # changes' /\ KindsFit'
  BY <1>1, <1>2 DEF GraphInv, KindsFit, DiskTypeOK, WalkTypeOK
<1>6. Safeguarded'
  <2>1. SUFFICES ASSUME walk.at = "reset", NEW u \in Sessions, Unreachable(u)', NEW r \in RowsOf(u)
                 PROVE  \E p \in preserved : p.row = r
    BY <1>1 DEF Safeguarded, RowsOf
  <2>2. \A x \in RowsOf(u) : x[1] \in Transcripts
    BY <1>2 DEF GraphTypeOK, RowsOf, Rows
  <2>3. Unreachable(u)
    BY <1>1, <1>3, <2>1, <2>2 DEF Unreachable, RowsOf
  <2> QED
    BY <2>1, <2>3 DEF GraphInv, Safeguarded
<1>7. TurnsEnded' /\ Swept' /\ PutBack'
  BY <1>1 DEF GraphInv, TurnsEnded, Swept, PutBack
<1> QED
  BY <1>1, <1>4, <1>5, <1>6, <1>7 DEF GraphInv, Reaching, Reached

----------------------------------------------------------------------------
(* The theorems.                                                            *)

LEMMA GraphStepKeeps == GraphInv /\ GraphNext /\ UNCHANGED <<disk, changes>> => GraphInv'
<1> SUFFICES ASSUME GraphInv, GraphNext, UNCHANGED <<disk, changes>> PROVE GraphInv'
  OBVIOUS
<1>1. CASE \E hidden \in SUBSET Hideable, limit \in 1..Len(Order), sweep \in BOOLEAN : StartWalk(hidden, limit, sweep)
  BY <1>1, StartWalkKeeps
<1>2. CASE \E dirty \in SUBSET Transcripts \ {{}} : StartDelta(dirty)
  BY <1>2, StartDeltaKeeps
<1>3. CASE StartRebuild
  BY <1>3, StartRebuildKeeps
<1>4. CASE PassStep
  BY <1>4, ResetKeeps, VisitKeeps, RollUpKeeps, EpisodesKeep, ReplayKeeps, EndKeeps DEF PassStep
<1> QED
  BY <1>1, <1>2, <1>3, <1>4 DEF GraphNext

LEMMA GraphInductive == GraphInv /\ [GraphSpecNext]_gvars => GraphInv'
<1> SUFFICES ASSUME GraphInv, [GraphSpecNext]_gvars PROVE GraphInv'
  OBVIOUS
<1>1. CASE GraphNext /\ UNCHANGED <<disk, changes>>
  BY <1>1, GraphStepKeeps
<1>2. CASE GraphChange
  BY <1>2, InterruptionKeeps, RetireKeeps DEF GraphChange
<1>3. CASE TranscriptsChange /\ UNCHANGED graphVars
  BY <1>3, ChangeKeeps
<1>4. CASE UNCHANGED gvars
  <2>1. disk' = disk /\ changes' = changes /\ UNCHANGED <<row, rows, rolled, stale, preserved, retired, walk>>
    BY <1>4 DEF gvars, graphVars
  <2>2. DiskTypeOK' /\ GraphTypeOK' /\ WalkTypeOK' /\ RowsOnce' /\ KindsFit'
    BY <2>1 DEF GraphInv, DiskTypeOK, GraphTypeOK, WalkTypeOK, RowsOnce, KindsFit
  <2>3. Safeguarded'
    BY <2>1 DEF GraphInv, Safeguarded, Unreachable, RowsOf
  <2>4. Reaching' /\ Reached'
    BY <2>1 DEF GraphInv, Reaching, Reached, Present
  <2>5. TurnsEnded' /\ Swept' /\ PutBack'
    BY <2>1 DEF GraphInv, TurnsEnded, Swept, PutBack
  <2> QED
    BY <2>2, <2>3, <2>4, <2>5 DEF GraphInv
<1> QED
  BY <1>1, <1>2, <1>3, <1>4 DEF GraphSpecNext

\* Everything the graph and the pass that runs hold is of its type, and every
\* part of the inductive invariant holds, in every state.
THEOREM GraphInvariant == GraphSpec => []GraphInv
<1>1. GraphInit => GraphInv
  BY GraphStarts
<1>2. GraphInv /\ [GraphSpecNext]_gvars => GraphInv'
  BY GraphInductive
<1> QED
  BY <1>1, <1>2, PTL DEF GraphSpec

\* However often rows are derived, purged, preserved and put back, by passes that
\* may be aborted or killed, each is there once (derive.ts, preserve.ts).
THEOREM RowsStayOnce == GraphSpec => []RowsOnce
<1>1. GraphInv => RowsOnce
  BY DEF GraphInv
<1> QED
  BY <1>1, GraphInvariant, PTL

\* A pass over the corpus that has come to its end has left the graph whole: what
\* it preserved is back, what stayed is not missing, every turn has ended, and a
\* complete sweep left no session without its episodes (refresh.ts).
THEOREM WalksSettle == GraphSpec => []WalkSettles
<1>1. GraphInv => WalkSettles
  BY DEF GraphInv, KindsFit, PutBack, Reached, TurnsEnded, Swept, WalkSettles
<1> QED
  BY <1>1, GraphInvariant, PTL

----------------------------------------------------------------------------
(* History.                                                                 *)

\* What a step keeps if it keeps every row of the session, or a copy of it, and
\* every copy.
LEMMA KeepsWhatIsKept ==
  ASSUME NEW s,
         \A r \in RowsOf(s) : r \in BagToSet(rows') \/ \E p \in preserved' : p.row = r,
         \A p \in preserved : \E q \in preserved' : q.row = p.row
  PROVE  Kept(s) \subseteq Kept(s)'
  BY DEF Kept, RowsOf

\* The visit of a transcript that is there takes no row from a session all of
\* whose transcripts are gone.
LEMMA VisitSpares ==
  ASSUME GraphInv, NEW t \in walk.todo, VisitNothing(t) \/ VisitGarbled(t) \/ VisitNew(t),
         NEW s, Gone(s)
  PROVE  \A r \in RowsOf(s) : r \in BagToSet(rows')
<1>1. CASE VisitNothing(t) \/ VisitGarbled(t)
  BY <1>1 DEF VisitNothing, VisitGarbled, RowsOf
<1>2. CASE VisitNew(t)
  <2>1. t \in Present /\ t \in Transcripts
    BY <1>2 DEF VisitNew, Present
  <2>2. SessionOf[t] # s
    BY <2>1 DEF Gone, Of
  <2>3. PICK new \in SUBSET Rows, old \in SUBSET BagToSet(rows) :
             /\ \A r \in BagToSet(rows) \ old : r[1] = t
             /\ BagToSet(rows') = old \cup new
    BY <1>2, <2>1, NewRows
  <2> QED
    BY <2>2, <2>3 DEF RowsOf
<1> QED
  BY <1>1, <1>2

LEMMA HistoryStep ==
  ASSUME GraphInv, GraphSpecNext, NEW s \in Sessions, Gone(s)
  PROVE  Kept(s) \subseteq Kept(s)'
<1>1. CASE UNCHANGED <<rows, preserved>>
  BY <1>1, KeepsWhatIsKept DEF RowsOf
<1>2. CASE StartRebuild
  <2>1. PreserveUnreachable /\ rows' = rows /\ GraphTypeOK
    BY <1>2 DEF StartRebuild, GraphInv
  <2>2. \A p \in preserved : \E q \in preserved' : q.row = p.row
    BY <2>1, Preserving
  <2> QED
    BY <2>1, <2>2, KeepsWhatIsKept DEF RowsOf
<1>3. CASE ResetIndex
  <2>1. walk.at = "reset" /\ preserved' = preserved
    BY <1>3 DEF ResetIndex
  <2>2. \A r \in RowsOf(s) : r[1] \in Of(s)
    BY DEF GraphInv, GraphTypeOK, RowsOf, Rows, Of
  <2>3. \A r \in RowsOf(s) : row[r[1]].status # "ok"
    BY <2>2 DEF Gone
  <2>4. RowsOf(s) # {} => Unreachable(s)
    BY <2>3 DEF Unreachable
  <2>5. \A r \in RowsOf(s) : \E p \in preserved' : p.row = r
    BY <2>1, <2>4 DEF GraphInv, Safeguarded
  <2> QED
    BY <2>1, <2>5, KeepsWhatIsKept
<1>4. CASE Visit
  <2>1. preserved' = preserved
    BY <1>4 DEF Visit
  <2>2. \A r \in RowsOf(s) : r \in BagToSet(rows')
    BY <1>4, VisitSpares DEF Visit
  <2> QED
    BY <2>1, <2>2, KeepsWhatIsKept
<1>5. CASE ReplayPreserved
  <2>1. preserved' = preserved /\ \A r \in BagToSet(rows) : r \in BagToSet(rows')
    BY <1>5, Replaying DEF ReplayPreserved
  <2> QED
    BY <2>1, KeepsWhatIsKept DEF RowsOf
<1>6. UNCHANGED <<rows, preserved>> \/ StartRebuild \/ ResetIndex \/ Visit \/ ReplayPreserved
  <2>1. CASE GraphNext
    BY <2>1 DEF GraphNext, PassStep, StartWalk, StartDelta, RollUp, Episodes, EndWalk
  <2>2. CASE GraphChange
    BY <2>2 DEF GraphChange, Abort, Kill, Retire
  <2>3. CASE UNCHANGED graphVars
    BY <2>3 DEF graphVars
  <2> QED
    BY <2>1, <2>2, <2>3 DEF GraphSpecNext
<1> QED
  BY <1>1, <1>2, <1>3, <1>4, <1>5, <1>6

\* Once all transcripts of a session are gone and known to be, no step of any
\* pass, rebuild or interruption loses a row of its history (preserve.ts).
THEOREM HistoryStaysKept == GraphSpec => HistoryKept
<1>1. GraphInv /\ [GraphSpecNext]_gvars => [\A s \in Sessions : Gone(s) => Kept(s) \subseteq Kept(s)']_<<disk, changes, graphVars>>
  BY HistoryStep DEF gvars
<1> QED
  BY <1>1, GraphInvariant, PTL DEF GraphSpec, HistoryKept

----------------------------------------------------------------------------
(* The miner: its types.                                                    *)

Occurrences == [index : Nat, of : Transcripts, gen : Nat, line : Nat, named : BOOLEAN]
Entries == [of : Transcripts, at : Nat, hash : Nat, names : SUBSET (Nat \X Nat)]
Logs == UNION {[S -> Nat] : S \in SUBSET Occurrences}
Tallies == [BOOLEAN -> Nat]
Flushes == {"templates", "trees", "save"}
Passes == [at : {"idle", "visit"} \cup Flushes, full : BOOLEAN, verify : BOOLEAN,
           todo : SUBSET Transcripts, table : Seq(Entries), found : SUBSET Occurrences,
           templates : Tallies, trees : Tallies]
Log == BagToSet(store.log)

\* The results that are in the log, or known to have been missed.
Known == Log \cup missed

\* Every result in a file is that of a call above it, which had none so far.
CallsOK == \A t \in Transcripts : Calling(disk[t].lines)

DrainTypeOK ==
  /\ store \in [log : Logs, cut : BOOLEAN, templates : Tallies, trees : Tallies, table : Seq(Entries)]
  /\ IsFiniteSet(Log)
  /\ pass \in [Miners -> Passes]
  /\ \A p \in Miners : IsFiniteSet(pass[p].found)
  /\ passes \in Nat /\ plain \in BOOLEAN

----------------------------------------------------------------------------
(* The miner: its inductive invariant.                                      *)

\* What an entry says of a file that was never rewritten: it ends within the
\* file, has seen no other text, and the results up to there are in S.
Backed(e, S) ==
  disk[e.of].gen = 0 =>
    /\ e.at <= Length(e.of) /\ e.hash \in {0, NoHash}
    /\ \A k \in 1..e.at : disk[e.of].lines[k] # Use => \E o \in S : o.of = e.of /\ o.line = k
AllBacked(table, S) == \A i \in DOMAIN table : Backed(table[i], S)

\* Each result of S is in T.
Covered(S, T) == \A o \in S : \E m \in T : m.of = o.of /\ m.line = o.line

\* The calls it remembers are open there, and if it forgets one there were too many.
Remembers(e) ==
  disk[e.of].gen = 0 /\ Results =>
    /\ e.at <= Length(e.of)
    /\ \A c \in e.names : c[1] = 0 /\ c[2] \in Unanswered(disk[e.of].lines, e.at)
    /\ \A j \in Unanswered(disk[e.of].lines, e.at) : <<0, j>> \in e.names \/ Crowded(e.of, e.at)
AllRemember(table) == \A i \in DOMAIN table : Remembers(table[i])

Located(S, table) ==
  \A o \in S : o.index \in DOMAIN table /\ table[o.index].of = o.of /\ o.line <= table[o.index].at
Attributed(S) ==
  \A o \in S : \/ o.named \/ disk[o.of].gen > 0
               \/ o.line <= Length(o.of) /\ Crowded(o.of, o.line - 1)
Tallied(counts, S) ==
  \A named \in BOOLEAN : counts[named] = Cardinality({o \in S : o.named = named})
Beyond(S, table) ==
  \A o \in S : o.index \in DOMAIN table => o.line > table[o.index].at
Extends(table, base) ==
  \A i \in DOMAIN base :
    i \in DOMAIN table /\ table[i].of = base[i].of /\ base[i].at <= table[i].at

\* The files between two passes, and while one only reads.
Settled ==
  /\ Located(Log, store.table)
  /\ Tallied(store.templates, Log) /\ Tallied(store.trees, Log)
\* A pass that reads goes on where the files end.
Reading(run) ==
  /\ ~run.full
  /\ AllRemember(run.table) /\ Attributed(run.found)
  /\ Extends(run.table, store.table)
  /\ Located(run.found, run.table) /\ Beyond(run.found, store.table)
  /\ Tallied(run.templates, Log \cup run.found) /\ Tallied(run.trees, Log \cup run.found)
\* A pass that writes has it all in the log.
Writing(run) ==
  /\ AllRemember(run.table)
  /\ Located(Log, run.table)
  /\ Tallied(run.templates, Log) /\ Tallied(run.trees, Log)
  /\ run.at \in {"trees", "save"} => store.templates = run.templates
  /\ run.at = "save" => store.trees = run.trees

AllKept ==
  /\ AllBacked(store.table, Known)
  /\ \A p \in Miners :
       /\ AllBacked(pass[p].table, Known \cup pass[p].found)
       /\ pass[p].at \in Flushes => Covered(pass[p].found, Known)

PlainInv ==
  plain =>
    /\ ~store.cut
    /\ \A p, q \in Miners : pass[p].at # "idle" /\ pass[q].at # "idle" => p = q
    /\ \A o \in Log : store.log[o] = 1
    /\ Attributed(Log) /\ AllRemember(store.table)
    /\ (\A p \in Miners : pass[p].at \notin Flushes) => Settled
    /\ \A p \in Miners :
         /\ pass[p].at = "visit" => Reading(pass[p])
         /\ pass[p].at \in Flushes => Writing(pass[p])

DrainInv == DiskTypeOK /\ CallsOK /\ DrainTypeOK /\ AllKept /\ PlainInv

----------------------------------------------------------------------------
(* The transcripts, line by line.                                           *)

LEMMA CallsStart == TranscriptsInit => CallsOK
<1>1. SUFFICES ASSUME TranscriptsInit, NEW t \in Transcripts PROVE Calling(disk[t].lines)
  BY DEF CallsOK
<1>2. PICK lines \in Texts : disk[t] = [there |-> lines # <<>>, gen |-> 0, lines |-> lines]
  BY <1>1 DEF TranscriptsInit
<1> QED
  BY <1>2 DEF Texts

\* One more line leaves what is open before it.
LEMMA OneMore ==
  ASSUME NEW lines \in Seq(Nat), NEW l, NEW n \in 0..Len(lines)
  PROVE  Unanswered(Append(lines, l), n) = Unanswered(lines, n)
  BY DEF Unanswered

\* A file is another text afterwards, or it begins with the lines it had.
LEMMA Growing ==
  ASSUME DiskTypeOK, TranscriptsChange, NEW t \in Transcripts
  PROVE  \/ disk'[t].gen > 0
         \/ /\ disk'[t].gen = disk[t].gen
            /\ Len(disk[t].lines) <= Len(disk'[t].lines)
            /\ \A k \in 1..Len(disk[t].lines) : disk'[t].lines[k] = disk[t].lines[k]
            /\ \A n \in 0..Len(disk[t].lines) :
                 Unanswered(disk'[t].lines, n) = Unanswered(disk[t].lines, n)
<1>1. disk \in [Transcripts -> [there : BOOLEAN, gen : Nat, lines : Seq(Nat)]]
  BY DEF DiskTypeOK
<1>2. PICK u \in Transcripts : Grow(u) \/ Rewrite(u) \/ Prune(u) \/ Return(u)
  BY DEF TranscriptsChange
<1>3. disk[t].lines \in Seq(Nat) /\ disk[t].gen \in Nat /\ disk[u].lines \in Seq(Nat) /\ disk[u].gen \in Nat
  BY <1>1
<1>4. CASE Grow(u)
  <2>1. PICK l : disk' = [disk EXCEPT ![u].there = TRUE, ![u].lines = Append(@, l)]
    BY <1>4 DEF Grow
  <2>2. CASE t # u
    <3>1. disk'[t] = disk[t]
      BY <1>1, <2>1, <2>2
    <3> QED
      BY <1>3, <3>1
  <2>3. CASE t = u
    <3>1. disk'[t].gen = disk[t].gen /\ disk'[t].lines = Append(disk[t].lines, l)
      BY <1>1, <2>1, <2>3
    <3>2. Len(Append(disk[t].lines, l)) = Len(disk[t].lines) + 1
      BY <1>3
    <3>3. \A k \in 1..Len(disk[t].lines) : Append(disk[t].lines, l)[k] = disk[t].lines[k]
      BY <1>3
    <3>4. \A n \in 0..Len(disk[t].lines) :
            Unanswered(Append(disk[t].lines, l), n) = Unanswered(disk[t].lines, n)
      BY <1>3, OneMore
    <3>5. Len(disk[t].lines) \in Nat
      BY <1>3
    <3> QED
      BY <3>1, <3>2, <3>3, <3>4, <3>5
  <2> QED
    BY <2>2, <2>3
<1>5. CASE Rewrite(u)
  <2>1. disk'[u].gen = disk[u].gen + 1 /\ (t # u => disk'[t] = disk[t])
    BY <1>1, <1>5 DEF Rewrite
  <2> QED
    BY <1>3, <2>1
<1>6. CASE Prune(u) \/ Return(u)
  <2>1. PICK there \in BOOLEAN : disk' = [disk EXCEPT ![u].there = there]
    BY <1>6 DEF Prune, Return
  <2>2. disk'[t].gen = disk[t].gen /\ disk'[t].lines = disk[t].lines
    BY <1>1, <2>1
  <2> QED
    BY <1>3, <2>2
<1> QED
  BY <1>2, <1>4, <1>5, <1>6

LEMMA CallsStay == DiskTypeOK /\ CallsOK /\ TranscriptsChange => CallsOK'
<1>1. SUFFICES ASSUME DiskTypeOK, CallsOK, TranscriptsChange, NEW t \in Transcripts
               PROVE  Calling(disk'[t].lines)
  BY DEF CallsOK
<1>2. disk \in [Transcripts -> [there : BOOLEAN, gen : Nat, lines : Seq(Nat)]]
  BY <1>1 DEF DiskTypeOK
<1>3. PICK u \in Transcripts : Grow(u) \/ Rewrite(u) \/ Prune(u) \/ Return(u)
  BY <1>1 DEF TranscriptsChange
<1>4. Calling(disk[t].lines) /\ Calling(disk[u].lines)
  BY <1>1 DEF CallsOK
<1>5. CASE disk'[t].lines = disk[t].lines
  BY <1>4, <1>5
<1>6. CASE Grow(u) /\ t = u
  <2>1. PICK l \in {Use} \cup Unanswered(disk[u].lines, Length(u)) :
          disk' = [disk EXCEPT ![u].there = TRUE, ![u].lines = Append(@, l)]
    BY <1>6 DEF Grow
  <2> DEFINE lines == disk[u].lines
  <2>2. lines \in Seq(Nat)
    BY <1>2
  <2>3. disk'[t].lines = Append(lines, l)
    BY <1>2, <1>6, <2>1
  <2>4. l = Use \/ l \in Unanswered(lines, Len(lines))
    BY <2>1 DEF Length
  <2>5. Calling(lines)
    BY <1>4
  <2> HIDE DEF lines
  <2>6. SUFFICES ASSUME NEW i \in DOMAIN Append(lines, l)
                 PROVE  Append(lines, l)[i] = Use \/ Append(lines, l)[i] \in Unanswered(Append(lines, l), i - 1)
    BY <2>3 DEF Calling
  <2>7. i \in 1..Len(lines) + 1 /\ Len(lines) \in Nat
    BY <2>2
  <2>8. Unanswered(Append(lines, l), i - 1) = Unanswered(lines, i - 1)
    <3>1. i - 1 \in 0..Len(lines)
      BY <2>7
    <3> QED
      BY <2>2, <3>1, OneMore
  <2>9. CASE i = Len(lines) + 1
    <3>1. Append(lines, l)[i] = l /\ i - 1 = Len(lines)
      BY <2>2, <2>7, <2>9
    <3> QED
      BY <2>4, <2>8, <3>1
  <2>10. CASE i # Len(lines) + 1
    <3>1. i \in DOMAIN lines /\ Append(lines, l)[i] = lines[i]
      BY <2>2, <2>7, <2>10
    <3> QED
      BY <2>5, <2>8, <3>1 DEF Calling
  <2> QED
    BY <2>9, <2>10
<1>7. CASE Rewrite(u) /\ t = u
  <2>1. PICK n \in 0..MaxLines :
          disk' = [disk EXCEPT ![u].gen = @ + 1, ![u].lines = [i \in 1..n |-> Use]]
    BY <1>7 DEF Rewrite
  <2>2. disk'[t].lines = [i \in 1..n |-> Use]
    BY <1>2, <1>7, <2>1
  <2> QED
    BY <2>2 DEF Calling
<1>8. disk'[t].lines = disk[t].lines \/ (t = u /\ (Grow(u) \/ Rewrite(u)))
  <2>1. CASE t = u /\ (Prune(u) \/ Return(u))
    <3>1. PICK there \in BOOLEAN : disk' = [disk EXCEPT ![u].there = there]
      BY <2>1 DEF Prune, Return
    <3> QED
      BY <1>2, <3>1
  <2>2. CASE t # u
    BY <1>2, <1>3, <2>2 DEF Grow, Rewrite, Prune, Return
  <2> QED
    BY <1>3, <2>1, <2>2
<1> QED
  BY <1>5, <1>6, <1>7, <1>8

\* What was too much stays too much.
LEMMA MoreCrowded ==
  ASSUME NEW t, NEW n \in Nat, NEW m \in Nat, m <= n, Crowded(t, m)
  PROVE  Crowded(t, n)
<1>1. 0..m \subseteq 0..n
  OBVIOUS
<1> QED
  BY <1>1 DEF Crowded

----------------------------------------------------------------------------
(* The table.                                                               *)

LEMMA NoHashNumber == NoHash \in Nat \ {0}
  BY TranscriptAssumption DEF NoHash

\* A transcript that the table does not list gets an entry of its own at the end.
LEMMA Listed ==
  ASSUME NEW table \in Seq(Entries), NEW t \in Transcripts
  PROVE  LET w == WithEntry(table, t)
             i == IndexOf(w, t)
         IN /\ w \in Seq(Entries) /\ i \in DOMAIN w /\ w[i].of = t
            /\ \A j \in DOMAIN table : j \in DOMAIN w /\ w[j] = table[j]
            /\ \A j \in DOMAIN w : j \in DOMAIN table \/ w[j] = Entry(t)
<1> DEFINE w == WithEntry(table, t)
<1>1. Entry(t) \in Entries /\ Entry(t).of = t
  BY NoHashNumber DEF Entry, Entries
<1>2. CASE \E i \in DOMAIN table : table[i].of = t
  <2>1. w = table
    BY <1>2 DEF WithEntry
  <2>2. IndexOf(w, t) \in DOMAIN table /\ table[IndexOf(w, t)].of = t
    BY <1>2, <2>1 DEF IndexOf
  <2> QED
    BY <2>1, <2>2
<1>3. CASE ~\E i \in DOMAIN table : table[i].of = t
  <2> DEFINE e == Entry(t)
  <2>1. w = Append(table, e)
    BY <1>3 DEF WithEntry
  <2>2. e \in Entries /\ e.of = t
    BY <1>1
  <2> HIDE DEF w, e
  <2>3. /\ w \in Seq(Entries) /\ Len(w) = Len(table) + 1 /\ Len(table) \in Nat
        /\ \A j \in 1..Len(table) : w[j] = table[j]
        /\ w[Len(table) + 1] = e
    BY <2>1, <2>2
  <2>4. DOMAIN w = 1..Len(table) + 1 /\ DOMAIN table = 1..Len(table)
    BY <2>3
  <2>5. \E i \in DOMAIN w : w[i].of = t
    BY <2>2, <2>3, <2>4
  <2>6. IndexOf(w, t) \in DOMAIN w /\ w[IndexOf(w, t)].of = t
    BY <2>5 DEF IndexOf
  <2>7. \A j \in DOMAIN w : j \in DOMAIN table \/ w[j] = e
    BY <2>3, <2>4
  <2> QED
    BY <2>3, <2>4, <2>6, <2>7 DEF w, e
<1> QED
  BY <1>2, <1>3

\* A new entry says nothing yet.
LEMMA EntryStarts ==
  ASSUME DiskTypeOK, NEW t \in Transcripts, NEW S
  PROVE  Backed(Entry(t), S) /\ Remembers(Entry(t))
<1>1. disk[t].lines \in Seq(Nat)
  BY DEF DiskTypeOK
<1>2. Length(t) \in Nat
  BY <1>1 DEF Length
<1>3. Entry(t).of = t /\ Entry(t).at = 0 /\ Entry(t).hash = NoHash /\ Entry(t).names = {}
  BY DEF Entry
<1>4. Unanswered(disk[t].lines, 0) = {}
  BY DEF Unanswered
<1> QED
  BY <1>2, <1>3, <1>4 DEF Backed, Remembers

----------------------------------------------------------------------------
(* Sets, bags and counts.                                                   *)

LEMMA LogGrows ==
  ASSUME NEW B \in Logs, NEW S \in SUBSET Occurrences
  PROVE  /\ B (+) SetToBag(S) \in Logs
         /\ BagToSet(B (+) SetToBag(S)) = BagToSet(B) \cup S
         /\ \A o \in BagToSet(B) \ S : (B (+) SetToBag(S))[o] = B[o]
         /\ \A o \in S \ BagToSet(B) : (B (+) SetToBag(S))[o] = 1
<1>1. PICK D \in SUBSET Occurrences : B \in [D -> Nat]
  BY DEF Logs
<1> DEFINE C == B (+) SetToBag(S)
<1>2. C = [o \in D \cup S |-> (IF o \in D THEN B[o] ELSE 0) + (IF o \in S THEN 1 ELSE 0)]
  BY <1>1 DEF (+), SetToBag
<1> HIDE DEF C
<1>3. C \in [D \cup S -> Nat]
  BY <1>1, <1>2
<1>4. C \in Logs
  BY <1>3 DEF Logs
<1>5. DOMAIN C = D \cup S /\ DOMAIN B = D
  BY <1>1, <1>2
<1>6. \A o \in D \ S : C[o] = B[o]
  BY <1>1, <1>2
<1>7. \A o \in S \ D : C[o] = 1
  BY <1>1, <1>2
<1> QED
  BY <1>4, <1>5, <1>6, <1>7 DEF BagToSet, C

\* What is counted when more is found, none of it known before.
LEMMA TallyAdds ==
  ASSUME NEW counts \in Tallies, NEW S, IsFiniteSet(S), NEW T, IsFiniteSet(T), S \cap T = {},
         Tallied(counts, S)
  PROVE  Tallied(Counted(counts, T), S \cup T)
<1>1. SUFFICES ASSUME NEW b \in BOOLEAN
               PROVE  Counted(counts, T)[b] = Cardinality({o \in S \cup T : o.named = b})
  BY DEF Tallied
<1> DEFINE s == {o \in S : o.named = b}
           r == {o \in T : o.named = b}
           both == {o \in S \cup T : o.named = b}
<1>2. IsFiniteSet(s) /\ IsFiniteSet(r)
  BY FS_Subset, s \in SUBSET S, r \in SUBSET T
<1>3. both = s \cup r /\ s \cap r = {}
  OBVIOUS
<1>4. Cardinality(s \cup r) = Cardinality(s) + Cardinality(r) - Cardinality(s \cap r)
  BY <1>2, FS_Union
<1>5. Cardinality(s \cap r) = 0
  BY <1>3, FS_EmptySet
<1>6. Cardinality(s) \in Nat /\ Cardinality(r) \in Nat
  BY <1>2, FS_CardinalityType
<1>7. counts[b] = Cardinality(s)
  BY DEF Tallied
<1>8. Counted(counts, T)[b] = counts[b] + Cardinality(r)
  BY DEF Counted
<1>9. SUFFICES Counted(counts, T)[b] = Cardinality(both)
  OBVIOUS
<1> HIDE DEF s, r, both
<1> QED
  BY <1>3, <1>4, <1>5, <1>6, <1>7, <1>8

LEMMA TallyTypes ==
  ASSUME NEW counts \in Tallies, NEW T, IsFiniteSet(T)
  PROVE  Counted(counts, T) \in Tallies
<1>1. SUFFICES ASSUME NEW b \in BOOLEAN PROVE counts[b] + Cardinality({o \in T : o.named = b}) \in Nat
  BY DEF Counted, Tallies
<1>2. Cardinality({o \in T : o.named = b}) \in Nat
  BY FS_Subset, FS_CardinalityType, {o \in T : o.named = b} \in SUBSET T
<1> QED
  BY <1>2 DEF Tallies

\* A remembered call is dropped only when too many are open.
LEMMA NewestDrops ==
  ASSUME DrainAssumption, NEW U \in SUBSET Nat, IsFiniteSet(U), NEW names \in SUBSET ({0} \X U),
         NEW c \in names, c \notin Newest(names)
  PROVE  Cardinality(U) > MaxPending
<1> DEFINE newer == {d \in names : d[1] > c[1] \/ (d[1] = c[1] /\ d[2] > c[2])}
           later == {j \in U : j > c[2]}
<1>1. ~(Cardinality(newer) < MaxPending)
  BY DEF Newest
<1>2. c[1] = 0 /\ c[2] \in U /\ c[2] \in Nat
  OBVIOUS
<1>3. IsFiniteSet(later)
  BY FS_Subset, later \in SUBSET U
<1>4. IsFiniteSet(later \cup {c[2]}) /\ Cardinality(later \cup {c[2]}) = Cardinality(later) + 1
  <2>1. c[2] \notin later
    BY <1>2
  <2> QED
    BY <1>3, <2>1, FS_AddElement
<1>5. Cardinality(later \cup {c[2]}) <= Cardinality(U)
  BY <1>2, FS_Subset, later \cup {c[2]} \in SUBSET U
<1>6. IsFiniteSet(newer) /\ Cardinality(newer) <= Cardinality(later)
  <2> DEFINE f == [d \in newer |-> d[2]]
  <2>1. f \in [newer -> later]
    BY <1>2
  <2>2. \A d1, d2 \in newer : f[d1] = f[d2] => d1 = d2
    <3>1. SUFFICES ASSUME NEW d1 \in newer, NEW d2 \in newer, d1[2] = d2[2] PROVE d1 = d2
      OBVIOUS
    <3>2. d1 \in {0} \X U /\ d2 \in {0} \X U
      OBVIOUS
    <3> QED
      BY <3>1, <3>2
  <2> HIDE DEF newer, later, f
  <2>3. f \in Injection(newer, later)
    BY <2>1, <2>2 DEF Injection, IsInjective
  <2> QED
    BY <1>3, <2>3, FS_Injection
<1> HIDE DEF newer, later
<1>7. Cardinality(later) \in Nat /\ Cardinality(U) \in Nat /\ Cardinality(newer) \in Nat
  BY <1>3, <1>6, FS_CardinalityType
<1> QED
  BY <1>1, <1>4, <1>5, <1>6, <1>7 DEF DrainAssumption

----------------------------------------------------------------------------
(* The miner starts.                                                        *)

LEMMA RestingPass ==
  /\ Resting \in Passes /\ Resting.at = "idle" /\ Resting.table = <<>> /\ Resting.found = {}
  /\ IsFiniteSet(Resting.found)
  BY FS_EmptySet DEF Resting, Passes, NoCounts, Tallies

LEMMA NothingTallied == Tallied(NoCounts, {})
<1>1. \A named \in BOOLEAN : {o \in {} : o.named = named} = {}
  OBVIOUS
<1> QED
  BY <1>1, FS_EmptySet DEF Tallied, NoCounts

LEMMA DrainStarts == TranscriptsInit /\ DrainInit => DrainInv
<1>1. SUFFICES ASSUME TranscriptsInit, DrainInit PROVE DrainInv
  OBVIOUS
<1>2. DiskTypeOK /\ CallsOK
  BY <1>1, DiskStarts, CallsStart
<1>3. store = EmptyStore /\ pass = [p \in Miners |-> Resting] /\ passes = 0 /\ plain = TRUE
  BY <1>1 DEF DrainInit
<1>4. Log = {} /\ ~store.cut /\ store.table = <<>> /\ store.templates = NoCounts /\ store.trees = NoCounts
  BY <1>3 DEF Log, EmptyStore, EmptyBag, SetToBag, BagToSet
<1>5. EmptyBag \in Logs
  <2>1. EmptyBag \in [{} -> Nat]
    BY DEF EmptyBag, SetToBag
  <2> QED
    BY <2>1 DEF Logs
<1>6. DrainTypeOK
  <2>1. EmptyStore \in [log : Logs, cut : BOOLEAN, templates : Tallies, trees : Tallies, table : Seq(Entries)]
    BY <1>5 DEF EmptyStore, NoCounts, Tallies
  <2>2. IsFiniteSet(Log)
    BY <1>4, FS_EmptySet
  <2> QED
    BY <1>3, <2>1, <2>2, RestingPass DEF DrainTypeOK
<1>7. AllKept
  BY <1>3, <1>4, RestingPass DEF AllKept, AllBacked, Flushes
<1>8. PlainInv
  BY <1>3, <1>4, RestingPass, NothingTallied
  DEF PlainInv, Attributed, AllRemember, Settled, Located, Flushes
<1> QED
  BY <1>2, <1>6, <1>7, <1>8 DEF DrainInv

----------------------------------------------------------------------------
(* The transcripts change below the miner.                                  *)

LEMMA BackedStays ==
  ASSUME DiskTypeOK, TranscriptsChange, NEW e \in Entries, NEW S, Backed(e, S)
  PROVE  Backed(e, S)'
<1>1. e.of \in Transcripts /\ e.at \in Nat
  BY DEF Entries
<1>2. SUFFICES ASSUME disk'[e.of].gen = 0
               PROVE  /\ e.at <= Len(disk'[e.of].lines) /\ e.hash \in {0, NoHash}
                      /\ \A k \in 1..e.at : disk'[e.of].lines[k] # Use => \E o \in S : o.of = e.of /\ o.line = k
  BY DEF Backed, Length
<1>3. /\ disk'[e.of].gen = disk[e.of].gen
      /\ Len(disk[e.of].lines) <= Len(disk'[e.of].lines)
      /\ \A k \in 1..Len(disk[e.of].lines) : disk'[e.of].lines[k] = disk[e.of].lines[k]
  BY <1>1, <1>2, Growing
<1>4. disk \in [Transcripts -> [there : BOOLEAN, gen : Nat, lines : Seq(Nat)]]
      /\ disk' \in [Transcripts -> [there : BOOLEAN, gen : Nat, lines : Seq(Nat)]]
  BY DiskStays DEF DiskTypeOK
<1>5. Len(disk[e.of].lines) \in Nat /\ Len(disk'[e.of].lines) \in Nat
  BY <1>1, <1>4
<1>6. /\ e.at <= Len(disk[e.of].lines) /\ e.hash \in {0, NoHash}
      /\ \A k \in 1..e.at : disk[e.of].lines[k] # Use => \E o \in S : o.of = e.of /\ o.line = k
  BY <1>2, <1>3 DEF Backed, Length
<1>7. 1..e.at \subseteq 1..Len(disk[e.of].lines)
  BY <1>1, <1>5, <1>6
<1>8. e.at <= Len(disk'[e.of].lines)
  BY ONLY <1>1, <1>3, <1>5, <1>6
<1>9. ASSUME NEW k \in 1..e.at, disk'[e.of].lines[k] # Use
      PROVE  \E o \in S : o.of = e.of /\ o.line = k
  <2>1. disk[e.of].lines[k] # Use
    BY <1>3, <1>7, <1>9
  <2> QED
    BY <1>6, <2>1
<1> QED
  BY <1>6, <1>8, <1>9

LEMMA CrowdedStays ==
  ASSUME DiskTypeOK, TranscriptsChange, NEW t \in Transcripts, disk'[t].gen = 0,
         NEW n \in 0..Len(disk[t].lines)
  PROVE  Crowded(t, n)' <=> Crowded(t, n)
<1>1. disk[t].lines \in Seq(Nat)
  BY DEF DiskTypeOK
<1>2. 0..n \subseteq 0..Len(disk[t].lines)
  BY <1>1
<1>3. \A m \in 0..n : Unanswered(disk'[t].lines, m) = Unanswered(disk[t].lines, m)
  BY <1>2, Growing
<1> QED
  BY <1>3 DEF Crowded

LEMMA RemembersStays ==
  ASSUME DiskTypeOK, TranscriptsChange, NEW e \in Entries, Remembers(e)
  PROVE  Remembers(e)'
<1>1. e.of \in Transcripts /\ e.at \in Nat
  BY DEF Entries
<1>2. SUFFICES ASSUME disk'[e.of].gen = 0, Results
               PROVE  /\ e.at <= Len(disk'[e.of].lines)
                      /\ \A c \in e.names : c[1] = 0 /\ c[2] \in Unanswered(disk'[e.of].lines, e.at)
                      /\ \A j \in Unanswered(disk'[e.of].lines, e.at) : <<0, j>> \in e.names \/ Crowded(e.of, e.at)'
  BY DEF Remembers, Length
<1>3. /\ disk'[e.of].gen = disk[e.of].gen
      /\ Len(disk[e.of].lines) <= Len(disk'[e.of].lines)
      /\ \A n \in 0..Len(disk[e.of].lines) :
           Unanswered(disk'[e.of].lines, n) = Unanswered(disk[e.of].lines, n)
  BY <1>1, <1>2, Growing
<1>4. disk \in [Transcripts -> [there : BOOLEAN, gen : Nat, lines : Seq(Nat)]]
      /\ disk' \in [Transcripts -> [there : BOOLEAN, gen : Nat, lines : Seq(Nat)]]
  BY DiskStays DEF DiskTypeOK
<1>5. Len(disk[e.of].lines) \in Nat /\ Len(disk'[e.of].lines) \in Nat
  BY <1>1, <1>4
<1>6. /\ e.at <= Len(disk[e.of].lines)
      /\ \A c \in e.names : c[1] = 0 /\ c[2] \in Unanswered(disk[e.of].lines, e.at)
      /\ \A j \in Unanswered(disk[e.of].lines, e.at) : <<0, j>> \in e.names \/ Crowded(e.of, e.at)
  BY <1>2, <1>3 DEF Remembers, Length
<1>7. e.at \in 0..Len(disk[e.of].lines)
  BY <1>1, <1>5, <1>6
<1>8. Crowded(e.of, e.at)' <=> Crowded(e.of, e.at)
  BY <1>1, <1>2, <1>7, CrowdedStays
<1> QED
  BY <1>1, <1>3, <1>5, <1>6, <1>7, <1>8

LEMMA AttributedStays ==
  ASSUME DiskTypeOK, TranscriptsChange, NEW S \in SUBSET Occurrences, Attributed(S)
  PROVE  Attributed(S)'
<1>1. SUFFICES ASSUME NEW o \in S, ~o.named, ~(disk'[o.of].gen > 0)
               PROVE  o.line <= Len(disk'[o.of].lines) /\ Crowded(o.of, o.line - 1)'
  BY DEF Attributed, Length
<1>2. o.of \in Transcripts /\ o.line \in Nat
  BY DEF Occurrences
<1>3. disk \in [Transcripts -> [there : BOOLEAN, gen : Nat, lines : Seq(Nat)]]
      /\ disk' \in [Transcripts -> [there : BOOLEAN, gen : Nat, lines : Seq(Nat)]]
  BY DiskStays DEF DiskTypeOK
<1>4. Len(disk[o.of].lines) \in Nat /\ Len(disk'[o.of].lines) \in Nat /\ disk'[o.of].gen = 0
  BY <1>1, <1>2, <1>3
<1>5. disk'[o.of].gen = disk[o.of].gen /\ Len(disk[o.of].lines) <= Len(disk'[o.of].lines)
  BY <1>1, <1>2, Growing
<1>6. o.line <= Len(disk[o.of].lines) /\ Crowded(o.of, o.line - 1)
  BY <1>1, <1>4, <1>5 DEF Attributed, Length
<1>7. o.line # 0
  BY <1>6 DEF Crowded
<1>8. o.line - 1 \in 0..Len(disk[o.of].lines)
  BY <1>2, <1>4, <1>6, <1>7
<1>9. Crowded(o.of, o.line - 1)'
  BY <1>2, <1>4, <1>6, <1>8, CrowdedStays
<1> QED
  BY <1>2, <1>4, <1>5, <1>6, <1>9

LEMMA ChangeKeepsMiner == DrainInv /\ TranscriptsChange /\ UNCHANGED drainVars => DrainInv'
<1> SUFFICES ASSUME DrainInv, TranscriptsChange, UNCHANGED drainVars PROVE DrainInv'
  OBVIOUS
<1>1. DiskTypeOK' /\ CallsOK'
  BY DiskStays, CallsStay DEF DrainInv
<1>2. UNCHANGED <<store, pass, passes, plain>> /\ Log' = Log /\ Known' = Known
  BY DEF drainVars, Log, Known
<1>3. DrainTypeOK'
  BY <1>2 DEF DrainInv, DrainTypeOK
<1>4. /\ store.table \in Seq(Entries) /\ Log \subseteq Occurrences
      /\ \A p \in Miners : pass[p].table \in Seq(Entries) /\ pass[p].found \subseteq Occurrences
  BY DEF DrainInv, DrainTypeOK, Log, Logs, BagToSet, Passes
<1>5. /\ \A e \in Entries : \A S : Backed(e, S) => Backed(e, S)'
      /\ \A e \in Entries : Remembers(e) => Remembers(e)'
      /\ \A S \in SUBSET Occurrences : Attributed(S) => Attributed(S)'
  BY BackedStays, RemembersStays, AttributedStays DEF DrainInv
<1>6. /\ \A table \in Seq(Entries) : \A S : AllBacked(table, S) => AllBacked(table, S)'
      /\ \A table \in Seq(Entries) : AllRemember(table) => AllRemember(table)'
  BY <1>5 DEF AllBacked, AllRemember
<1>7. AllKept'
  BY <1>2, <1>4, <1>6 DEF DrainInv, AllKept, Covered
<1>8. PlainInv'
  <2> SUFFICES ASSUME plain PROVE PlainInv'
    BY <1>2 DEF PlainInv
  <2>1. PlainInv
    BY DEF DrainInv
  <2>2. /\ \A p, q \in Miners : pass[p].at # "idle" /\ pass[q].at # "idle" => p = q
        /\ \A o \in Log : store.log[o] = 1
        /\ ~store.cut
        /\ Attributed(Log)' /\ AllRemember(store.table)'
    BY <1>2, <1>4, <1>5, <1>6, <2>1 DEF PlainInv
  <2>3. Settled => Settled'
    BY <1>2 DEF Settled, Located, Tallied
  <2>4. \A p \in Miners : Reading(pass[p]) => Reading(pass[p])'
    BY <1>2, <1>4, <1>5, <1>6 DEF Reading, Extends, Located, Beyond, Tallied
  <2>5. \A p \in Miners : Writing(pass[p]) => Writing(pass[p])'
    BY <1>2, <1>4, <1>6 DEF Writing, Located, Tallied
  <2> QED
    BY <1>2, <2>1, <2>2, <2>3, <2>4, <2>5 DEF PlainInv
<1> QED
  BY <1>1, <1>3, <1>7, <1>8 DEF DrainInv

----------------------------------------------------------------------------
(* A pass reads.                                                            *)

LEMMA BackedMore ==
  ASSUME NEW table, NEW S, NEW T, AllBacked(table, S), Covered(S, T)
  PROVE  AllBacked(table, T)
<1> SUFFICES ASSUME NEW i \in DOMAIN table PROVE Backed(table[i], T)
  BY DEF AllBacked
<1>1. Backed(table[i], S)
  BY DEF AllBacked
<1> QED
  BY <1>1 DEF Backed, Covered

LEMMA CoveredMore ==
  ASSUME NEW S, NEW T, S \subseteq T
  PROVE  Covered(S, T)
  BY DEF Covered

\* What remains to show when a pass starts, or goes on reading.
LEMMA PassGoesOn ==
  ASSUME DrainInv, UNCHANGED <<disk, changes, store>>, passes' \in Nat, plain' \in BOOLEAN,
         missed \subseteq missed',
         NEW p \in Miners, pass[p].at \notin Flushes,
         NEW run \in Passes, run.at = "visit", IsFiniteSet(run.found),
         AllBacked(run.table, Known' \cup run.found),
         pass' = [pass EXCEPT ![p] = run],
         plain' => plain /\ (\A q \in Miners \ {p} : pass[q].at = "idle") /\ Reading(run)
  PROVE  DrainInv'
<1>1. DiskTypeOK' /\ CallsOK' /\ Log' = Log /\ Known \subseteq Known'
  <2>1. DiskTypeOK /\ CallsOK
    BY DEF DrainInv
  <2>2. Log' = Log
    BY DEF Log
  <2>3. Known \subseteq Known'
    BY <2>2 DEF Known
  <2> QED
    BY <2>1, <2>2, <2>3 DEF DiskTypeOK, CallsOK
<1>2. pass \in [Miners -> Passes]
  BY DEF DrainInv, DrainTypeOK
<1>3. pass'[p] = run /\ \A q \in Miners \ {p} : pass'[q] = pass[q]
  BY <1>2
<1>4. DrainTypeOK'
  <2>1. pass' \in [Miners -> Passes]
    BY <1>2
  <2>2. \A q \in Miners : IsFiniteSet(pass'[q].found)
    BY <1>3 DEF DrainInv, DrainTypeOK
  <2> QED
    BY <1>1, <2>1, <2>2 DEF DrainInv, DrainTypeOK
<1>5. AllKept'
  <2>1. AllKept
    BY DEF DrainInv
  <2>2. AllBacked(store.table, Known)'
    <3>1. AllBacked(store.table, Known') /\ store' = store /\ disk' = disk
      BY <1>1, <2>1, BackedMore, CoveredMore DEF AllKept
    <3> QED
      BY ONLY <3>1 DEF AllBacked, Backed, Length
  <2>3. \A q \in Miners : AllBacked(pass[q].table, Known \cup pass[q].found)'
    <3>1. SUFFICES ASSUME NEW q \in Miners PROVE AllBacked(pass[q].table, Known \cup pass[q].found)'
      OBVIOUS
    <3>2. AllBacked(pass'[q].table, Known' \cup pass'[q].found) /\ disk' = disk
      <4>1. CASE q = p
        BY <1>3, <4>1
      <4>2. CASE q # p
        <5>1. pass'[q] = pass[q] /\ AllBacked(pass[q].table, Known \cup pass[q].found)
          BY <1>3, <2>1, <4>2 DEF AllKept
        <5>2. Known \cup pass[q].found \subseteq Known' \cup pass'[q].found
          BY <1>1, <5>1
        <5> QED
          BY <5>1, <5>2, BackedMore, CoveredMore
      <4> QED
        BY <4>1, <4>2
    <3> QED
      BY ONLY <3>2 DEF AllBacked, Backed, Length
  <2>4. \A q \in Miners : pass'[q].at \in Flushes => Covered(pass'[q].found, Known')
    <3>1. SUFFICES ASSUME NEW q \in Miners, pass'[q].at \in Flushes PROVE Covered(pass'[q].found, Known')
      OBVIOUS
    <3>2. q # p
      BY <1>3, <3>1 DEF Flushes
    <3>3. Covered(pass[q].found, Known) /\ pass'[q] = pass[q]
      BY <1>3, <2>1, <3>1, <3>2 DEF AllKept
    <3> QED
      BY <1>1, <3>3 DEF Covered
  <2>5. \A q \in Miners : (pass[q].at \in Flushes => Covered(pass[q].found, Known))'
    BY <2>4 DEF Covered
  <2> QED
    BY <2>2, <2>3, <2>5 DEF AllKept
<1>6. PlainInv'
  <2> SUFFICES ASSUME plain' PROVE PlainInv'
    BY DEF PlainInv
  <2>1. plain /\ (\A q \in Miners \ {p} : pass[q].at = "idle") /\ Reading(run)
    OBVIOUS
  <2>2. PlainInv
    BY DEF DrainInv
  <2>3. Settled
    BY <2>1, <2>2 DEF PlainInv, Flushes
  <2>4. /\ \A q \in Miners \ {p} : pass'[q].at = "idle"
        /\ pass'[p].at = "visit"
    BY <1>3, <2>1
  <2>5. \A q, r \in Miners : pass'[q].at # "idle" /\ pass'[r].at # "idle" => q = r
    BY <2>4
  <2>6. ~store'.cut /\ \A o \in Log' : store'.log[o] = 1
    BY <1>1, <2>1, <2>2 DEF PlainInv
  <2>7. Attributed(Log)' /\ AllRemember(store.table)'
    BY <1>1, <2>1, <2>2 DEF PlainInv, Attributed, AllRemember, Remembers, Crowded, Length
  <2>8. Settled'
    BY <1>1, <2>3 DEF Settled, Located, Tallied
  <2>9. Reading(pass[p])'
    <3>1. AllRemember(pass[p].table)'
      BY <1>3, <2>1 DEF Reading, AllRemember, Remembers, Crowded, Length
    <3>2. Attributed(pass[p].found)'
      BY <1>3, <2>1 DEF Reading, Attributed, Crowded, Length
    <3>3. Extends(pass[p].table, store.table)'
      BY <1>3, <2>1 DEF Reading, Extends
    <3>4. Located(pass[p].found, pass[p].table)'
      BY <1>3, <2>1 DEF Reading, Located
    <3>5. Beyond(pass[p].found, store.table)'
      BY <1>3, <2>1 DEF Reading, Beyond
    <3>6. Tallied(pass[p].templates, Log \cup pass[p].found)'
      BY <1>1, <1>3, <2>1 DEF Reading, Tallied
    <3>7. Tallied(pass[p].trees, Log \cup pass[p].found)'
      BY <1>1, <1>3, <2>1 DEF Reading, Tallied
    <3>8. ~pass'[p].full
      BY <1>3, <2>1 DEF Reading
    <3> QED
      BY <3>1, <3>2, <3>3, <3>4, <3>5, <3>6, <3>7, <3>8 DEF Reading
  <2> QED
    BY <2>4, <2>5, <2>6, <2>7, <2>8, <2>9 DEF PlainInv, Flushes
<1> QED
  BY <1>1, <1>4, <1>5, <1>6 DEF DrainInv

LEMMA StartPassKeeps ==
  ASSUME DrainInv, UNCHANGED <<disk, changes>>, NEW p \in Miners, NEW full \in BOOLEAN,
         NEW verify \in BOOLEAN, NEW limit, StartPass(p, full, verify, limit)
  PROVE  DrainInv'
<1> DEFINE table == IF full THEN <<>> ELSE store.table
           run == [Resting EXCEPT !.at = "visit", !.full = full, !.verify = verify,
             !.todo = Foremost(limit, Present), !.table = table,
             !.templates = store.templates, !.trees = store.trees]
<1>1. pass[p].at = "idle" /\ pass' = [pass EXCEPT ![p] = run] /\ UNCHANGED <<store, missed>>
      /\ passes' = passes + 1 /\ plain' = (plain /\ ~full /\ \A q \in Miners : pass[q].at = "idle")
  BY DEF StartPass
<1>2. DrainTypeOK /\ AllKept
  BY DEF DrainInv
<1>3. Foremost(limit, Present) \subseteq Transcripts
  BY DEF Foremost, Present
<1>4. /\ run \in Passes /\ run.at = "visit" /\ run.found = {} /\ run.full = full
      /\ run.table = table
      /\ run.templates = store.templates /\ run.trees = store.trees
  <2>1. table \in Seq(Entries)
    BY <1>2 DEF DrainTypeOK
  <2> HIDE DEF table
  <2>2. store.templates \in Tallies /\ store.trees \in Tallies
    BY <1>2 DEF DrainTypeOK
  <2>3. run \in Passes
    BY <1>3, <2>1, <2>2, RestingPass DEF Passes
  <2>4. run.at = "visit" /\ run.found = Resting.found /\ run.full = full /\ run.table = table
        /\ run.templates = store.templates /\ run.trees = store.trees
    BY RestingPass DEF Passes
  <2> QED
    BY <2>3, <2>4, RestingPass
<1> HIDE DEF run
<1>5. AllBacked(run.table, Known' \cup run.found) /\ missed \subseteq missed'
  <2>1. CASE full
    BY <1>1, <1>4, <2>1 DEF AllBacked
  <2>2. CASE ~full
    <3>1. Known' = Known
      BY <1>1 DEF Known, Log
    <3> QED
      BY <1>1, <1>2, <1>4, <2>2, <3>1 DEF AllKept
  <2> QED
    BY <2>1, <2>2
<1>6. ASSUME plain' PROVE plain /\ (\A q \in Miners \ {p} : pass[q].at = "idle") /\ Reading(run)
  <2>1. plain /\ ~full /\ \A q \in Miners : pass[q].at = "idle"
    BY <1>1, <1>6
  <2>2. Settled /\ AllRemember(store.table)
    BY <2>1 DEF DrainInv, PlainInv, Flushes
  <2>3. Log \cup run.found = Log /\ run.table = store.table
    BY <1>4, <2>1
  <2>4. Extends(store.table, store.table)
    <3>1. store.table \in Seq(Entries)
      BY <1>2 DEF DrainTypeOK
    <3>2. \A i \in DOMAIN store.table : store.table[i] \in Entries
      BY <3>1
    <3> QED
      BY <3>2 DEF Extends, Entries
  <2> QED
    BY <1>4, <2>1, <2>2, <2>3, <2>4 DEF Reading, Settled, Attributed, Located, Beyond
<1>7. IsFiniteSet(run.found)
  BY <1>4, FS_EmptySet
<1>8. passes' \in Nat /\ plain' \in BOOLEAN
  BY <1>1, <1>2 DEF DrainTypeOK
<1>9. pass[p].at \notin Flushes
  BY <1>1 DEF Flushes
<1> QED
  BY <1>1, <1>4, <1>5, <1>6, <1>7, <1>8, <1>9, PassGoesOn

----------------------------------------------------------------------------
(* What a pass reads.                                                       *)

LEMMA FileTypes ==
  ASSUME DiskTypeOK, NEW t \in Transcripts
  PROVE  /\ disk[t].lines \in Seq(Nat) /\ disk[t].gen \in Nat /\ Length(t) \in Nat
         /\ DOMAIN disk[t].lines = 1..Length(t)
<1>1. disk[t].lines \in Seq(Nat) /\ disk[t].gen \in Nat
  BY DEF DiskTypeOK
<1> QED
  BY <1>1 DEF Length

\* A result answers a call above it that had no other result.
LEMMA ResultsAnswer ==
  ASSUME DiskTypeOK, CallsOK, NEW t \in Transcripts, NEW k \in 1..Length(t), disk[t].lines[k] # Use
  PROVE  Results /\ disk[t].lines[k] \in Unanswered(disk[t].lines, k - 1)
         /\ disk[t].lines[k] \in 1..k - 1
<1>1. k \in DOMAIN disk[t].lines
  BY FileTypes
<1>2. disk[t].lines[k] \in Unanswered(disk[t].lines, k - 1)
  BY <1>1 DEF CallsOK, Calling
<1> QED
  BY <1>2 DEF Unanswered

\* A file that was not rewritten is never taken for one that was.
LEMMA NotRewritten ==
  ASSUME DiskTypeOK, NEW e \in Entries, NEW S, Backed(e, S), disk[e.of].gen = 0, NEW verify
  PROVE  ~Rewritten(e, e.of, verify)
<1>1. e.at \in Nat /\ e.of \in Transcripts
  BY DEF Entries
<1>2. Length(e.of) \in Nat
  BY <1>1, FileTypes
<1>3. e.at <= Length(e.of) /\ e.hash \in {0, NoHash}
  BY DEF Backed
<1> QED
  BY <1>1, <1>2, <1>3 DEF Rewritten

LEMMA ReadBacks ==
  ASSUME DiskTypeOK, NEW t \in Transcripts, NEW e \in Entries, e.of = t, NEW S, Backed(e, S),
         NEW from \in {0, e.at}, NEW to \in from + 1..Length(t),
         NEW T, \A k \in ResultsIn(t, from, to) : \E o \in T : o.of = t /\ o.line = k,
         NEW read \in Entries, read.of = t, read.at = to, read.hash \in {disk[t].gen, NoHash}
  PROVE  Backed(read, S \cup T)
<1>1. SUFFICES ASSUME disk[t].gen = 0, NEW k \in 1..to, disk[t].lines[k] # Use
               PROVE  \E o \in S \cup T : o.of = t /\ o.line = k
  <2>1. to <= Length(t)
    BY FileTypes DEF Entries
  <2> QED
    BY <1>1, <2>1 DEF Backed
<1>2. from \in Nat /\ e.at \in Nat /\ to \in Nat /\ Length(t) \in Nat
  BY FileTypes DEF Entries
<1>3. CASE k <= from
  <2>1. k \in 1..e.at
    BY <1>2, <1>3
  <2> QED
    BY <1>1, <2>1 DEF Backed
<1>4. CASE k > from
  <2>1. k \in ResultsIn(t, from, to)
    BY <1>1, <1>2, <1>4 DEF ResultsIn
  <2> QED
    BY <2>1
<1> QED
  BY <1>2, <1>3, <1>4

LEMMA ReadAttributes ==
  ASSUME DiskTypeOK, CallsOK, NEW t \in Transcripts, NEW e \in Entries, e.of = t, Remembers(e),
         NEW to \in e.at + 1..Length(t), NEW k \in ResultsIn(t, e.at, to)
  PROVE  \/ Named(t, k, e.at, e.names) \/ disk[t].gen > 0
         \/ k <= Length(t) /\ Crowded(t, k - 1)
<1>1. e.at \in Nat /\ to \in Nat /\ Length(t) \in Nat /\ disk[t].gen \in Nat
  BY FileTypes DEF Entries
<1>2. k \in e.at + 1..to /\ disk[t].lines[k] # Use /\ k \in 1..Length(t)
  BY <1>1 DEF ResultsIn
<1> DEFINE j == disk[t].lines[k]
<1>3. Results /\ j \in Unanswered(disk[t].lines, k - 1) /\ j \in 1..k - 1
  BY <1>2, ResultsAnswer
<1> HIDE DEF j
<1>4. SUFFICES ASSUME disk[t].gen = 0, j <= e.at, Call(t, j) \notin e.names
               PROVE  Crowded(t, k - 1)
  BY <1>1, <1>2, <1>3 DEF Named, j
<1>5. j \in Unanswered(disk[t].lines, e.at)
  BY <1>1, <1>2, <1>3, <1>4 DEF Unanswered
<1>6. <<0, j>> \notin e.names
  BY <1>4 DEF Call
<1>7. Crowded(t, e.at)
  BY <1>3, <1>4, <1>5, <1>6 DEF Remembers
<1>8. k - 1 \in Nat /\ e.at <= k - 1
  BY <1>1, <1>2
<1> QED
  BY <1>1, <1>7, <1>8, MoreCrowded

LEMMA ReadRemembers ==
  ASSUME DiskTypeOK, CallsOK, NEW t \in Transcripts, NEW e \in Entries, e.of = t, Remembers(e),
         NEW to \in e.at + 1..Length(t), NEW read \in Entries, read.of = t, read.at = to,
         read.names = Newest((e.names \cup Calls(t, e.at, to)) \ Answered(t, e.at, to))
  PROVE  Remembers(read)
<1> DEFINE lines == disk[t].lines
           names == (e.names \cup Calls(t, e.at, to)) \ Answered(t, e.at, to)
           U == Unanswered(lines, to)
<1>1. e.at \in Nat /\ to \in Nat /\ Length(t) \in Nat /\ to <= Length(t) /\ e.at < to
  BY FileTypes DEF Entries
<1>2. SUFFICES ASSUME disk[t].gen = 0, Results
               PROVE  /\ \A c \in read.names : c[1] = 0 /\ c[2] \in U
                      /\ \A j \in U : <<0, j>> \in read.names \/ Crowded(t, to)
  BY <1>1 DEF Remembers
<1>3. /\ \A c \in e.names : c[1] = 0 /\ c[2] \in Unanswered(lines, e.at)
      /\ \A j \in Unanswered(lines, e.at) : <<0, j>> \in e.names \/ Crowded(t, e.at)
  BY <1>2 DEF Remembers
<1>4. \A k \in ResultsIn(t, e.at, to) : Call(t, lines[k]) = <<0, lines[k]>>
  BY <1>2 DEF Call
<1>5. ASSUME NEW j \in U, <<0, j>> \notin names PROVE Crowded(t, to)
  <2>1. j \in 1..to /\ lines[j] = Use /\ \A i \in 1..to : lines[i] # j
    BY <1>5 DEF Unanswered
  <2>2. <<0, j>> \notin Answered(t, e.at, to)
    <3>1. \A k \in ResultsIn(t, e.at, to) : k \in 1..to
      BY <1>1 DEF ResultsIn
    <3> QED
      BY <1>4, <2>1, <3>1 DEF Answered
  <2>3. CASE j <= e.at
    <3>1. j \in Unanswered(lines, e.at)
      BY <1>1, <1>2, <2>1, <2>3 DEF Unanswered
    <3>2. Crowded(t, e.at)
      BY <1>3, <1>5, <2>2, <3>1
    <3> QED
      BY <1>1, <3>2, MoreCrowded
  <2>4. CASE j > e.at
    <3>1. j \in {i \in e.at + 1..to : lines[i] = Use}
      BY <1>1, <2>1, <2>4
    <3>2. <<0, j>> \in Calls(t, e.at, to)
      BY <1>2, <3>1 DEF Calls, Call
    <3> QED
      BY <1>5, <2>2, <3>2
  <2> QED
    BY <1>1, <2>1, <2>3, <2>4
<1>6. ASSUME NEW c \in names PROVE c \in {0} \X U
  <2>1. PICK j : j \in 1..to /\ lines[j] = Use /\ c = <<0, j>> /\ \A i \in 1..e.at : lines[i] # j
    <3>1. CASE c \in e.names
      <4>1. c \in Nat \X Nat /\ c[1] = 0 /\ c[2] \in Unanswered(lines, e.at)
        BY <1>3, <3>1 DEF Entries
      <4>2. c = <<0, c[2]>> /\ c[2] \in 1..to
        BY <1>1, <4>1 DEF Unanswered
      <4> QED
        BY <4>1, <4>2 DEF Unanswered
    <3>2. CASE c \in Calls(t, e.at, to)
      <4>1. PICK j \in e.at + 1..to : lines[j] = Use /\ c = <<0, j>>
        BY <1>2, <3>2 DEF Calls, Call
      <4>2. ASSUME NEW i \in 1..e.at PROVE lines[i] # j
        <5>1. i \in 1..Length(t)
          BY <1>1
        <5>2. lines[i] # Use => lines[i] \in 1..i - 1
          BY <5>1, ResultsAnswer
        <5>3. j # Use
          BY <1>1 DEF Use
        <5> QED
          BY <1>1, <5>2, <5>3
      <4> QED
        BY <1>1, <4>1, <4>2
    <3> QED
      BY <1>6, <3>1, <3>2
  <2>2. ASSUME NEW i \in 1..to, lines[i] = j PROVE FALSE
    <3>1. i \in e.at + 1..to /\ j # Use
      BY <1>1, <2>1, <2>2 DEF Use
    <3>2. i \in ResultsIn(t, e.at, to)
      BY <2>2, <3>1 DEF ResultsIn
    <3>3. c \in Answered(t, e.at, to)
      BY <1>4, <2>1, <2>2, <3>2 DEF Answered
    <3> QED
      BY <1>6, <3>3
  <2>3. j \in U
    BY <1>2, <2>1, <2>2 DEF Unanswered
  <2> QED
    BY <2>1, <2>3
<1>7. U \in SUBSET Nat /\ U \subseteq 1..to
  BY DEF Unanswered
<1>8. IsFiniteSet(U)
  <2>1. IsFiniteSet(1..to)
    BY <1>1, FS_Interval
  <2>2. U \in SUBSET (1..to)
    BY <1>7
  <2> HIDE DEF U
  <2> QED
    BY <2>1, <2>2, FS_Subset
<1>9. read.names = Newest(names) /\ Newest(names) \subseteq names
  BY DEF Newest
<1>10. to \in 0..to /\ (Cardinality(U) > MaxPending => Crowded(t, to))
  BY <1>1 DEF Crowded
<1> HIDE DEF names, U, lines
<1>11. \A c \in read.names : c[1] = 0 /\ c[2] \in U
  BY <1>6, <1>9
<1>12. ASSUME NEW j \in U, <<0, j>> \notin read.names PROVE Crowded(t, to)
  <2>1. CASE <<0, j>> \notin names
    BY <1>5, <2>1
  <2>2. CASE <<0, j>> \in names
    <3>1. names \in SUBSET ({0} \X U)
      BY <1>6
    <3>2. Cardinality(U) > MaxPending
      BY <1>7, <1>8, <1>9, <1>12, <2>2, <3>1, NewestDrops, DrainAssumption
    <3> QED
      BY <1>10, <3>2
  <2> QED
    BY <2>1, <2>2
<1> QED
  BY <1>11, <1>12

----------------------------------------------------------------------------
(* A pass visits a transcript.                                              *)

\* What a table says is still so when a new transcript is listed in it.
LEMMA ListedKeeps ==
  ASSUME DiskTypeOK, NEW table \in Seq(Entries), NEW t \in Transcripts
  PROVE  /\ \A S : AllBacked(table, S) => AllBacked(WithEntry(table, t), S)
         /\ AllRemember(table) => AllRemember(WithEntry(table, t))
<1> DEFINE w == WithEntry(table, t)
<1>1. /\ \A j \in DOMAIN table : w[j] = table[j]
      /\ \A j \in DOMAIN w : j \in DOMAIN table \/ w[j] = Entry(t)
  BY Listed
<1>2. \A S : Backed(Entry(t), S) /\ Remembers(Entry(t))
  BY EntryStarts
<1> HIDE DEF w
<1>3. \A S : AllBacked(table, S) => AllBacked(w, S)
  BY <1>1, <1>2 DEF AllBacked
<1>4. AllRemember(table) => AllRemember(w)
  BY <1>1, <1>2 DEF AllRemember
<1> QED
  BY <1>3, <1>4 DEF w

\* A table in which one entry has been replaced.
LEMMA OneEntry ==
  ASSUME NEW table \in Seq(Entries), NEW i \in DOMAIN table, NEW e \in Entries
  PROVE  /\ [table EXCEPT ![i] = e] \in Seq(Entries)
         /\ DOMAIN [table EXCEPT ![i] = e] = DOMAIN table
         /\ [table EXCEPT ![i] = e][i] = e
         /\ \A j \in DOMAIN table \ {i} : [table EXCEPT ![i] = e][j] = table[j]
  OBVIOUS

LEMMA SkipKeeps ==
  ASSUME DrainInv, UNCHANGED <<disk, changes>>, NEW p \in Miners, NEW t \in pass[p].todo, Skip(p, t)
  PROVE  DrainInv'
<1> DEFINE w == WithEntry(pass[p].table, t)
           i == IndexOf(w, t)
           e == w[i]
           anew == t \in Present /\ ~pass[p].full /\ Rewritten(e, t, pass[p].verify)
           blank == [e EXCEPT !.names = {}]
           table == IF anew THEN [w EXCEPT ![i] = blank] ELSE w
           run == [pass[p] EXCEPT !.todo = @ \ {t}, !.table = table]
<1>1. DiskTypeOK /\ DrainTypeOK /\ AllKept /\ pass[p] \in Passes /\ t \in Transcripts
  BY DEF DrainInv, DrainTypeOK, Passes
<1>2. pass[p].at = "visit" /\ UNCHANGED <<store, passes, plain, missed>> /\ Known' = Known
  BY DEF Skip, Known, Log
<1>3. pass' = [pass EXCEPT ![p] = run]
  <2>1. [w EXCEPT ![i].names = {}] = [w EXCEPT ![i] = blank]
    OBVIOUS
  <2>2. pass' = [pass EXCEPT ![p].todo = @ \ {t}, ![p].table = table]
    BY <2>1 DEF Skip
  <2> HIDE DEF table
  <2> QED
    BY <1>1, <2>2 DEF DrainTypeOK
<1>4. pass[p].table \in Seq(Entries)
  BY <1>1 DEF Passes
<1>5. /\ w \in Seq(Entries) /\ i \in DOMAIN w /\ e.of = t
      /\ \A j \in DOMAIN pass[p].table : j \in DOMAIN w /\ w[j] = pass[p].table[j]
  BY <1>1, <1>4, Listed
<1>6. AllBacked(w, Known \cup pass[p].found)
  BY <1>1, <1>4, ListedKeeps DEF AllKept
<1> HIDE DEF w, i
<1>7. e \in Entries
  BY <1>5
<1> HIDE DEF e
<1>8. blank \in Entries /\ blank.of = t /\ blank.at = e.at /\ blank.hash = e.hash
  BY <1>5, <1>7 DEF Entries
<1>9. anew => disk[t].gen # 0
  <2>1. Backed(e, Known \cup pass[p].found)
    BY <1>5, <1>6 DEF AllBacked, e
  <2> QED
    BY <1>1, <1>5, <1>7, <2>1, NotRewritten
<1>10. Backed(blank, Known \cup pass[p].found) /\ (anew => Remembers(blank))
  <2>1. Backed(e, Known \cup pass[p].found)
    BY <1>5, <1>6 DEF AllBacked, e
  <2> HIDE DEF blank
  <2> QED
    BY <1>5, <1>8, <1>9, <2>1 DEF Backed, Remembers
<1> HIDE DEF anew, blank
<1>11. /\ table \in Seq(Entries) /\ DOMAIN table = DOMAIN w
       /\ \A j \in DOMAIN w : table[j].of = w[j].of /\ table[j].at = w[j].at
       /\ \A j \in DOMAIN w : table[j] = w[j] \/ (anew /\ table[j] = blank)
  <2>1. CASE anew
    BY <1>5, <1>7, <1>8, <2>1, OneEntry DEF e
  <2>2. CASE ~anew
    BY <1>5, <2>2
  <2> QED
    BY <2>1, <2>2
<1> HIDE DEF table
<1>12. /\ run \in Passes /\ run.at = "visit" /\ run.full = pass[p].full /\ run.found = pass[p].found
       /\ run.table = table /\ run.templates = pass[p].templates /\ run.trees = pass[p].trees
  BY <1>1, <1>2, <1>11 DEF Passes
<1> HIDE DEF run
<1>13. AllBacked(run.table, Known' \cup run.found)
  BY <1>2, <1>6, <1>10, <1>11, <1>12 DEF AllBacked
<1>14. ASSUME plain' PROVE plain /\ (\A q \in Miners \ {p} : pass[q].at = "idle") /\ Reading(run)
  <2>1. plain /\ (\A q \in Miners \ {p} : pass[q].at = "idle") /\ Reading(pass[p])
    BY <1>2, <1>14 DEF DrainInv, PlainInv
  <2>2. AllRemember(w)
    BY <1>1, <1>4, <2>1, ListedKeeps DEF Reading, w
  <2>3. AllRemember(run.table)
    BY <1>10, <1>11, <1>12, <2>2 DEF AllRemember
  <2>4. Extends(run.table, store.table)
    BY <1>5, <1>11, <1>12, <2>1 DEF Reading, Extends
  <2>5. Located(run.found, run.table)
    BY <1>5, <1>11, <1>12, <2>1 DEF Reading, Located
  <2> QED
    BY <1>12, <2>1, <2>3, <2>4, <2>5 DEF Reading
<1>15. IsFiniteSet(run.found) /\ passes' \in Nat /\ plain' \in BOOLEAN /\ pass[p].at \notin Flushes
  BY <1>1, <1>2, <1>12 DEF DrainTypeOK, Flushes
<1> QED
  BY <1>2, <1>3, <1>12, <1>13, <1>14, <1>15, PassGoesOn

\* The occurrences of a transcript in some lines but F; those in N have a name.
Finds(t, i, from, to, F, N) ==
  {[index |-> i, of |-> t, gen |-> disk[t].gen, line |-> k, named |-> k \in N] :
     k \in ResultsIn(t, from, to) \ F}

\* Each has its line, and there are finitely many.
LEMMA FoundTypes ==
  ASSUME DiskTypeOK, NEW t \in Transcripts, NEW i \in Nat, NEW from \in Nat, NEW to \in Nat,
         NEW F, NEW N
  PROVE  LET found == Finds(t, i, from, to, F, N) IN
         /\ found \subseteq Occurrences /\ IsFiniteSet(found)
         /\ \A o \in found : o.index = i /\ o.of = t /\ o.line \in ResultsIn(t, from, to)
                             /\ (o.named <=> o.line \in N)
         /\ \A k \in ResultsIn(t, from, to) \ F : \E o \in found : o.of = t /\ o.line = k
<1> DEFINE R == ResultsIn(t, from, to) \ F
           found == Finds(t, i, from, to, F, N)
           O(k) == [index |-> i, of |-> t, gen |-> disk[t].gen, line |-> k, named |-> k \in N]
<1>1. R \subseteq 1..to
  BY DEF ResultsIn
<1>2. disk[t].gen \in Nat
  BY FileTypes
<1>3. \A k \in R : /\ O(k) \in Occurrences /\ O(k).index = i /\ O(k).of = t /\ O(k).line = k
                   /\ (O(k).named <=> k \in N)
  <2>1. SUFFICES ASSUME NEW k \in R
                 PROVE  /\ O(k) \in Occurrences /\ O(k).index = i /\ O(k).of = t /\ O(k).line = k
                        /\ (O(k).named <=> k \in N)
    OBVIOUS
  <2>2. k \in Nat /\ (k \in N) \in BOOLEAN
    BY <1>1
  <2> QED
    BY <1>2, <2>2 DEF Occurrences
<1>4. found = {O(k) : k \in R}
  BY DEF Finds
<1> HIDE DEF O, R, found
<1>5. /\ found \subseteq Occurrences
      /\ \A o \in found : o.index = i /\ o.of = t /\ o.line \in R /\ (o.named <=> o.line \in N)
      /\ \A k \in R : \E o \in found : o.of = t /\ o.line = k
  BY <1>3, <1>4
<1>6. IsFiniteSet(found)
  <2> DEFINE f == [o \in found |-> o.line]
  <2>1. f \in [found -> 1..to]
    BY <1>1, <1>5
  <2>2. \A a, b \in found : f[a] = f[b] => a = b
    BY <1>3, <1>4
  <2>3. IsFiniteSet(1..to)
    BY FS_Interval
  <2> HIDE DEF f
  <2>4. f \in Injection(found, 1..to)
    BY <2>1, <2>2 DEF Injection, IsInjective
  <2> QED
    BY <2>3, <2>4, FS_Injection
<1> QED
  BY <1>5, <1>6 DEF R, found

LEMMA ReadKeeps ==
  ASSUME DrainInv, UNCHANGED <<disk, changes>>, NEW p \in Miners, NEW t \in pass[p].todo,
         ReadTranscript(p, t)
  PROVE  DrainInv'
<1> DEFINE w == WithEntry(pass[p].table, t)
           i == IndexOf(w, t)
           e == w[i]
           verify == pass[p].verify
           anew == ~pass[p].full /\ Rewritten(e, t, verify)
           from == From(e, t, pass[p].full, verify)
           names == IF anew THEN {} ELSE e.names
           blank == [e EXCEPT !.names = IF anew THEN {} ELSE @]
           N == {k \in Nat : Named(t, k, from, names)}
<1>1. DiskTypeOK /\ CallsOK /\ DrainTypeOK /\ AllKept /\ pass[p] \in Passes /\ t \in Transcripts
  BY DEF DrainInv, DrainTypeOK, Passes
<1>2. pass[p].at = "visit" /\ UNCHANGED <<store, passes>>
  BY DEF ReadTranscript
<1>3. PICK to, failed :
        to \in from + 1..Length(t) /\ failed \in SUBSET ResultsIn(t, from, to) /\
        LET found == {[index |-> i, of |-> t, gen |-> disk[t].gen, line |-> k,
                       named |-> Named(t, k, from, names)] : k \in ResultsIn(t, from, to) \ failed}
            read == [of |-> t, at |-> to, hash |-> IF verify THEN disk[t].gen ELSE NoHash,
                     names |-> Newest((names \cup Calls(t, from, to)) \ Answered(t, from, to))]
            more == [pass[p] EXCEPT !.todo = @ \ {t}, !.found = @ \cup found,
                       !.templates = Counted(@, found), !.trees = Counted(@, found)]
        IN \/ /\ pass' = [pass EXCEPT ![p] = [more EXCEPT !.table = [w EXCEPT ![i] = read]]]
              /\ plain' = (plain /\ ~anew)
              /\ missed' = missed \cup {[of |-> t, line |-> k] : k \in failed}
           \/ /\ pass' = [pass EXCEPT ![p] = [more EXCEPT !.table =
                            [w EXCEPT ![i].names = IF anew THEN {} ELSE @]]]
              /\ plain' = FALSE
              /\ UNCHANGED missed
  BY DEF ReadTranscript
<1> DEFINE found == {[index |-> i, of |-> t, gen |-> disk[t].gen, line |-> k,
                      named |-> Named(t, k, from, names)] : k \in ResultsIn(t, from, to) \ failed}
           passed == {[of |-> t, line |-> k] : k \in failed}
           read == [of |-> t, at |-> to, hash |-> IF verify THEN disk[t].gen ELSE NoHash,
                    names |-> Newest((names \cup Calls(t, from, to)) \ Answered(t, from, to))]
           more == [pass[p] EXCEPT !.todo = @ \ {t}, !.found = @ \cup found,
                      !.templates = Counted(@, found), !.trees = Counted(@, found)]
<1>4. \/ /\ pass' = [pass EXCEPT ![p] = [more EXCEPT !.table = [w EXCEPT ![i] = read]]]
         /\ plain' = (plain /\ ~anew)
         /\ missed' = missed \cup passed
      \/ /\ pass' = [pass EXCEPT ![p] = [more EXCEPT !.table = [w EXCEPT ![i] = blank]]]
         /\ plain' = FALSE
         /\ UNCHANGED missed
  <2>1. [w EXCEPT ![i].names = IF anew THEN {} ELSE @] = [w EXCEPT ![i] = blank]
    OBVIOUS
  <2> QED
    BY <1>3, <2>1
<1>5. pass[p].table \in Seq(Entries) /\ pass[p].found \subseteq Occurrences
      /\ pass[p].templates \in Tallies /\ pass[p].trees \in Tallies
  BY <1>1 DEF Passes
<1>6. /\ w \in Seq(Entries) /\ i \in DOMAIN w /\ e.of = t
      /\ \A j \in DOMAIN pass[p].table : j \in DOMAIN w /\ w[j] = pass[p].table[j]
      /\ \A j \in DOMAIN w : j \in DOMAIN pass[p].table \/ w[j] = Entry(t)
  BY <1>1, <1>5, Listed
<1>7. AllBacked(w, Known \cup pass[p].found)
  BY <1>1, <1>5, ListedKeeps DEF AllKept
<1>8. e \in Entries /\ i \in Nat
  BY <1>6
<1>9. Backed(e, Known \cup pass[p].found)
  BY <1>6, <1>7 DEF AllBacked
<1>10. from \in {0, e.at} /\ from \in Nat
  BY <1>8 DEF From, Entries
<1> HIDE DEF w, i, e, from
<1>11. to \in Nat /\ to \in from + 1..Length(t)
  BY <1>1, <1>3, <1>10, FileTypes
<1>12. names \in SUBSET (Nat \X Nat)
  BY <1>8 DEF Entries
<1>13. blank \in Entries /\ blank.of = t /\ blank.at = e.at /\ blank.hash = e.hash
  BY <1>6, <1>8, <1>12 DEF Entries
<1>14. Backed(blank, Known \cup pass[p].found)
  <2> HIDE DEF blank
  <2> QED
    BY <1>6, <1>9, <1>13 DEF Backed
<1> HIDE DEF names
<1> HIDE DEF found
<1>15. /\ found \subseteq Occurrences /\ IsFiniteSet(found)
       /\ \A o \in found : o.index = i /\ o.of = t /\ o.line \in ResultsIn(t, from, to)
                           /\ (o.named <=> o.line \in N)
       /\ \A k \in ResultsIn(t, from, to) \ failed : \E o \in found : o.of = t /\ o.line = k
  <2>1. \A k \in ResultsIn(t, from, to) : k \in Nat
    BY <1>10, <1>11 DEF ResultsIn
  <2>2. \A k \in Nat : Named(t, k, from, names) \in BOOLEAN
    BY DEF Named
  <2>3. \A k \in ResultsIn(t, from, to) : Named(t, k, from, names) = (k \in N)
    BY <2>1, <2>2
  <2> HIDE DEF N
  <2>4. found = Finds(t, i, from, to, failed, N)
    BY <2>3 DEF found, Finds
  <2> DEFINE F == Finds(t, i, from, to, failed, N)
  <2>5. /\ F \subseteq Occurrences /\ IsFiniteSet(F)
        /\ \A o \in F : o.index = i /\ o.of = t /\ o.line \in ResultsIn(t, from, to)
                       /\ (o.named <=> o.line \in N)
        /\ \A k \in ResultsIn(t, from, to) \ failed : \E o \in F : o.of = t /\ o.line = k
    <3>1. DiskTypeOK /\ t \in Transcripts /\ i \in Nat /\ from \in Nat /\ to \in Nat
      BY <1>1, <1>8, <1>10, <1>11
    <3> QED
      BY ONLY <3>1, FoundTypes, SMTT(20)
  <2> QED
    BY <2>4, <2>5
<1>16. read \in Entries /\ read.of = t /\ read.at = to /\ read.hash \in {disk[t].gen, NoHash}
       /\ read.names = Newest((names \cup Calls(t, from, to)) \ Answered(t, from, to))
  <2>1. disk[t].gen \in Nat /\ NoHash \in Nat
    BY <1>1, FileTypes, NoHashNumber
  <2>2. Calls(t, from, to) \subseteq Nat \X Nat
    BY <1>10, <1>11, <2>1 DEF Calls, Call
  <2>3. Newest((names \cup Calls(t, from, to)) \ Answered(t, from, to)) \subseteq Nat \X Nat
    BY <1>12, <2>2 DEF Newest
  <2> QED
    BY <1>1, <1>11, <2>1, <2>3 DEF Entries
<1> HIDE DEF read
<1>17. Backed(read, (Known \cup pass[p].found) \cup (found \cup passed))
  <2> DEFINE both == found \cup passed
  <2>1. ASSUME NEW k \in ResultsIn(t, from, to) PROVE \E o \in both : o.of = t /\ o.line = k
    <3>1. CASE k \in failed
      <4>1. PICK m : m = [of |-> t, line |-> k]
        OBVIOUS
      <4>2. m \in both /\ m.of = t /\ m.line = k
        BY <3>1, <4>1
      <4> QED
        BY <4>2
    <3>2. CASE k \notin failed
      BY <1>15, <2>1, <3>2
    <3> QED
      BY <3>1, <3>2
  <2> HIDE DEF both
  <2>2. /\ DiskTypeOK /\ t \in Transcripts /\ e \in Entries /\ e.of = t
        /\ Backed(e, Known \cup pass[p].found) /\ from \in {0, e.at} /\ to \in from + 1..Length(t)
        /\ (\A k \in ResultsIn(t, from, to) : \E o \in both : o.of = t /\ o.line = k)
        /\ read \in Entries /\ read.of = t /\ read.at = to /\ read.hash \in {disk[t].gen, NoHash}
    BY <1>1, <1>6, <1>8, <1>9, <1>10, <1>11, <1>16, <2>1
  <2>3. Backed(read, (Known \cup pass[p].found) \cup both)
    BY ONLY <2>2, ReadBacks
  <2> QED
    BY <2>3 DEF both
<1> HIDE DEF passed
<1>18. /\ more \in Passes /\ more.at = "visit" /\ more.full = pass[p].full
       /\ more.found = pass[p].found \cup found
       /\ more.templates = Counted(pass[p].templates, found)
       /\ more.trees = Counted(pass[p].trees, found)
  <2>1. Counted(pass[p].templates, found) \in Tallies /\ Counted(pass[p].trees, found) \in Tallies
    BY <1>5, <1>15, TallyTypes
  <2>2. pass[p].found \cup found \in SUBSET Occurrences
    BY <1>5, <1>15
  <2> QED
    BY <1>1, <1>2, <2>1, <2>2 DEF Passes
<1> HIDE DEF more
<1>19. IsFiniteSet(more.found) /\ IsFiniteSet(pass[p].found) /\ IsFiniteSet(Log)
  <2>1. IsFiniteSet(pass[p].found) /\ IsFiniteSet(Log) /\ IsFiniteSet(found)
    BY <1>1, <1>15 DEF DrainTypeOK
  <2>2. IsFiniteSet(pass[p].found \cup found)
    BY <2>1, FS_Union
  <2> QED
    BY <1>18, <2>1, <2>2
<1>20. passes' \in Nat /\ plain' \in BOOLEAN /\ pass[p].at \notin Flushes
  BY <1>1, <1>2, <1>4 DEF DrainTypeOK, Flushes
<1> HIDE DEF blank, anew
<1>21. ASSUME NEW new \in {read, blank}, missed \subseteq missed',
              Backed(new, Known' \cup (pass[p].found \cup found)),
              pass' = [pass EXCEPT ![p] = [more EXCEPT !.table = [w EXCEPT ![i] = new]]],
              plain' => plain /\ ~anew /\ new = read
       PROVE  DrainInv'
  <2> DEFINE table == [w EXCEPT ![i] = new]
             run == [more EXCEPT !.table = table]
  <2>1. new \in Entries /\ new.of = t
    BY <1>13, <1>16, <1>21
  <2>2. /\ table \in Seq(Entries) /\ DOMAIN table = DOMAIN w /\ table[i] = new
        /\ \A j \in DOMAIN w \ {i} : table[j] = w[j]
    BY <1>6, <2>1, OneEntry
  <2>10. \A j \in DOMAIN w : w[j].at \in Nat /\ table[j].at \in Nat
    <3>1. \A j \in DOMAIN w : w[j] \in Entries /\ table[j] \in Entries
      BY <1>6, <2>2
    <3> QED
      BY <3>1 DEF Entries
  <2> HIDE DEF table
  <2>3. /\ run \in Passes /\ run.at = "visit" /\ run.full = pass[p].full
        /\ run.found = pass[p].found \cup found /\ run.table = table
        /\ run.templates = Counted(pass[p].templates, found)
        /\ run.trees = Counted(pass[p].trees, found)
    BY <1>18, <2>2 DEF Passes
  <2>4. pass' = [pass EXCEPT ![p] = run]
    BY <1>21 DEF table
  <2> HIDE DEF run
  <2>5. AllBacked(run.table, Known' \cup run.found)
    <3>1. Known \cup pass[p].found \subseteq Known' \cup run.found
      BY <1>2, <1>21, <2>3 DEF Known, Log
    <3>2. AllBacked(w, Known' \cup run.found)
      BY <1>7, <3>1, BackedMore, CoveredMore
    <3> QED
      BY <1>21, <2>2, <2>3, <3>2 DEF AllBacked
  <2>6. ASSUME plain' PROVE plain /\ (\A q \in Miners \ {p} : pass[q].at = "idle") /\ Reading(run)
    <3>1. plain /\ ~anew /\ new = read
      BY <1>21, <2>6
    <3>2. /\ \A q \in Miners \ {p} : pass[q].at = "idle"
          /\ Reading(pass[p])
      BY <1>2, <3>1 DEF DrainInv, PlainInv
    <3>3. Settled
      BY <1>2, <3>1, <3>2 DEF DrainInv, PlainInv, Flushes
    <3>4. ~pass[p].full /\ from = e.at /\ names = e.names
      BY <3>1, <3>2 DEF Reading, anew, from, From, names
    <3>5. AllRemember(w)
      BY <1>1, <1>5, <3>2, ListedKeeps DEF Reading, w
    <3>6. Remembers(e)
      BY <1>6, <3>5 DEF AllRemember, e
    <3>7. Remembers(read)
      BY <1>1, <1>6, <1>8, <1>11, <1>16, <3>4, <3>6, ReadRemembers
    <3>8. AllRemember(run.table)
      BY <2>2, <2>3, <3>1, <3>5, <3>7 DEF AllRemember
    <3>9. e.at \in Nat /\ e.at <= to
      BY <1>8, <1>10, <1>11, <3>4 DEF Entries
    <3>10. \A j \in DOMAIN w : table[j].of = w[j].of /\ w[j].at <= table[j].at
      BY <1>6, <1>16, <2>2, <2>10, <3>1, <3>9 DEF e
    <3>11. Extends(run.table, store.table)
      <4>1. \A j \in DOMAIN w : w[j].at \in Nat /\ table[j].at \in Nat
        BY <2>10
      <4>2. \A j \in DOMAIN store.table : store.table[j] \in Entries
        BY <1>1 DEF DrainTypeOK
      <4>3. \A j \in DOMAIN store.table : store.table[j].at \in Nat
        BY <4>2 DEF Entries
      <4>4. SUFFICES ASSUME NEW j \in DOMAIN store.table
                     PROVE  j \in DOMAIN table /\ table[j].of = store.table[j].of /\ store.table[j].at <= table[j].at
        BY <2>3 DEF Extends
      <4>5. /\ j \in DOMAIN pass[p].table
            /\ pass[p].table[j].of = store.table[j].of /\ store.table[j].at <= pass[p].table[j].at
        BY <3>2 DEF Reading, Extends
      <4>6. j \in DOMAIN w /\ w[j] = pass[p].table[j]
        BY <1>6, <4>5
      <4>7. j \in DOMAIN table /\ table[j].of = store.table[j].of
        BY <2>2, <3>10, <4>5, <4>6
      <4>8. store.table[j].at <= w[j].at /\ w[j].at <= table[j].at
        BY <3>10, <4>5, <4>6
      <4>9. store.table[j].at \in Nat /\ w[j].at \in Nat /\ table[j].at \in Nat
        BY <4>1, <4>3, <4>6
      <4>10. store.table[j].at <= table[j].at
        BY ONLY <4>8, <4>9
      <4> QED
        BY <4>7, <4>10
    <3>12. \A o \in found : o.index = i /\ o.of = t /\ o.line \in e.at + 1..to
      BY <1>15, <3>4 DEF ResultsIn
    <3>13. Located(run.found, run.table)
      <4>1. \A o \in pass[p].found : o.line \in Nat
        BY <1>5 DEF Occurrences
      <4>2. \A j \in DOMAIN w : w[j].at \in Nat /\ table[j].at \in Nat
        BY <2>10
      <4>3. \A o \in pass[p].found :
              o.index \in DOMAIN table /\ table[o.index].of = o.of /\ o.line <= table[o.index].at
        <5> SUFFICES ASSUME NEW o \in pass[p].found
                     PROVE  o.index \in DOMAIN table /\ table[o.index].of = o.of /\ o.line <= table[o.index].at
          OBVIOUS
        <5>1. /\ o.index \in DOMAIN pass[p].table
              /\ pass[p].table[o.index].of = o.of /\ o.line <= pass[p].table[o.index].at
          BY <3>2 DEF Reading, Located
        <5>2. o.index \in DOMAIN w /\ w[o.index] = pass[p].table[o.index]
          BY <1>6, <5>1
        <5>3. o.index \in DOMAIN table /\ table[o.index].of = o.of
          BY <2>2, <3>10, <5>1, <5>2
        <5>4. o.line <= w[o.index].at /\ w[o.index].at <= table[o.index].at
          BY <3>10, <5>1, <5>2
        <5>5. o.line \in Nat /\ w[o.index].at \in Nat /\ table[o.index].at \in Nat
          BY <4>1, <4>2, <5>2
        <5>6. o.line <= table[o.index].at
          BY ONLY <5>4, <5>5
        <5> QED
          BY <5>3, <5>6
      <4>4. \A o \in found :
              o.index \in DOMAIN table /\ table[o.index].of = o.of /\ o.line <= table[o.index].at
        BY <1>6, <1>16, <2>2, <3>1, <3>9, <3>12
      <4> QED
        BY <2>3, <4>3, <4>4 DEF Located
    <3>14. /\ \A o \in found : i \in DOMAIN store.table => o.line > store.table[i].at
           /\ \A o \in found : o \notin Log \cup pass[p].found
      <4>1. i \in DOMAIN store.table => i \in DOMAIN pass[p].table /\ store.table[i].at <= e.at
                                        /\ store.table[i].at \in Nat
        <5>1. \A j \in DOMAIN store.table : store.table[j] \in Entries
          BY <1>1 DEF DrainTypeOK
        <5> QED
          BY <1>6, <3>2, <5>1 DEF Reading, Extends, Entries, e
      <4>2. \A o \in found : i \in DOMAIN store.table => o.line > store.table[i].at
        BY <3>9, <3>12, <4>1
      <4>3. \A o \in found : o \notin Log
        BY <3>9, <3>3, <3>12, <4>1 DEF Settled, Located
      <4>4. i \in DOMAIN pass[p].table => pass[p].table[i] = e
        BY <1>6 DEF e
      <4>5. \A o \in found : o \notin pass[p].found
        BY <3>2, <3>9, <3>12, <4>4 DEF Reading, Located
      <4> QED
        BY <4>2, <4>3, <4>5
    <3>15. Beyond(run.found, store.table)
      BY <2>3, <3>2, <3>12, <3>14 DEF Reading, Beyond
    <3>16. Attributed(run.found)
      <4>1. \A o \in found : \/ o.named \/ disk[o.of].gen > 0
                             \/ o.line <= Length(o.of) /\ Crowded(o.of, o.line - 1)
        <5>1. SUFFICES ASSUME NEW o \in found, ~o.named, ~(disk[o.of].gen > 0)
                       PROVE  o.line <= Length(o.of) /\ Crowded(o.of, o.line - 1)
          OBVIOUS
        <5>2. o.of = t /\ o.line \in ResultsIn(t, e.at, to) /\ o.line \in Nat /\ o.line \notin N
          BY <1>15, <3>4, <3>9, <3>12, <5>1
        <5>3. ~Named(t, o.line, e.at, e.names)
          BY <3>4, <5>2
        <5>4. to \in e.at + 1..Length(t)
          BY <1>11, <3>4
        <5> QED
          BY <1>1, <1>6, <1>8, <3>6, <5>1, <5>2, <5>3, <5>4, ReadAttributes
      <4> QED
        BY <2>3, <3>2, <4>1 DEF Reading, Attributed
    <3>17. Tallied(run.templates, Log \cup run.found) /\ Tallied(run.trees, Log \cup run.found)
      <4> DEFINE S == Log \cup pass[p].found
      <4>1. IsFiniteSet(S) /\ S \cap found = {} /\ Log \cup run.found = S \cup found
        BY <1>19, <2>3, <3>14, FS_Union
      <4>2. Tallied(pass[p].templates, S) /\ Tallied(pass[p].trees, S)
        BY <3>2 DEF Reading
      <4> HIDE DEF S
      <4>3. Tallied(Counted(pass[p].templates, found), S \cup found)
            /\ Tallied(Counted(pass[p].trees, found), S \cup found)
        BY <1>5, <1>15, <4>1, <4>2, TallyAdds
      <4> QED
        BY <2>3, <4>1, <4>3
    <3> QED
      BY <2>3, <3>1, <3>2, <3>4, <3>8, <3>11, <3>13, <3>15, <3>16, <3>17 DEF Reading
  <2>7. IsFiniteSet(run.found)
    BY <1>18, <1>19, <2>3
  <2> QED
    BY <1>2, <1>20, <1>21, <2>3, <2>4, <2>5, <2>6, <2>7, PassGoesOn
<1>22. ASSUME missed' = missed \cup passed
       PROVE  missed \subseteq missed' /\ Backed(read, Known' \cup (pass[p].found \cup found))
  <2>1. Known' = Known \cup passed
    BY <1>2, <1>22 DEF Known, Log
  <2>2. (Known \cup pass[p].found) \cup (found \cup passed) = Known' \cup (pass[p].found \cup found)
    BY <2>1
  <2> QED
    BY <1>17, <1>22, <2>2
<1>23. ASSUME UNCHANGED missed
       PROVE  missed \subseteq missed' /\ Backed(blank, Known' \cup (pass[p].found \cup found))
  <2>1. Known' = Known
    BY <1>2, <1>23 DEF Known, Log
  <2>2. \A k : (\E o \in Known \cup pass[p].found : o.of = blank.of /\ o.line = k)
             => \E o \in Known' \cup (pass[p].found \cup found) : o.of = blank.of /\ o.line = k
    BY <2>1
  <2> QED
    BY <1>14, <1>23, <2>2 DEF Backed
<1> QED
  BY <1>4, <1>21, <1>22, <1>23

----------------------------------------------------------------------------
(* A pass writes.                                                           *)

\* What remains to show when a pass writes a file, ends or dies.
LEMMA WriteKeeps ==
  ASSUME DrainInv, UNCHANGED <<disk, changes, passes>>, plain' \in BOOLEAN,
         NEW p \in Miners, NEW run \in Passes, IsFiniteSet(run.found), run.at # "visit",
         store' \in [log : Logs, cut : BOOLEAN, templates : Tallies, trees : Tallies, table : Seq(Entries)],
         pass' = [pass EXCEPT ![p] = run],
         IsFiniteSet(Log'), Known \subseteq Known', run.at \in Flushes => Covered(run.found, Known'),
         AllBacked(store'.table, Known'), AllBacked(run.table, Known' \cup run.found),
         plain' =>
           /\ ~store'.cut
           /\ plain /\ \A q \in Miners \ {p} : pass[q].at = "idle"
           /\ \A o \in Log' : store'.log[o] = 1
           /\ Attributed(Log') /\ AllRemember(store'.table)
           /\ run.at = "idle" => Settled'
           /\ run.at \in Flushes => Writing(run)'
  PROVE  DrainInv'
<1>1. DiskTypeOK' /\ CallsOK'
  <2>1. DiskTypeOK /\ CallsOK
    BY DEF DrainInv
  <2> QED
    BY <2>1 DEF DiskTypeOK, CallsOK
<1>2. pass \in [Miners -> Passes]
  BY DEF DrainInv, DrainTypeOK
<1>3. pass'[p] = run /\ \A q \in Miners \ {p} : pass'[q] = pass[q]
  BY <1>2
<1>4. DrainTypeOK'
  <2>1. pass' \in [Miners -> Passes]
    BY <1>2
  <2>2. \A q \in Miners : IsFiniteSet(pass'[q].found)
    BY <1>3 DEF DrainInv, DrainTypeOK
  <2>3. passes' \in Nat
    BY DEF DrainInv, DrainTypeOK
  <2> QED
    BY <2>1, <2>2, <2>3 DEF DrainTypeOK
<1>5. AllKept'
  <2>1. AllKept
    BY DEF DrainInv
  <2>2. AllBacked(store.table, Known)'
    BY DEF AllBacked, Backed, Length
  <2>3. \A q \in Miners : AllBacked(pass[q].table, Known \cup pass[q].found)'
    <3>1. SUFFICES ASSUME NEW q \in Miners PROVE AllBacked(pass[q].table, Known \cup pass[q].found)'
      OBVIOUS
    <3>2. AllBacked(pass'[q].table, Known' \cup pass'[q].found) /\ disk' = disk
      <4>1. CASE q = p
        BY <1>3, <4>1
      <4>2. CASE q # p
        <5>1. pass'[q] = pass[q] /\ AllBacked(pass[q].table, Known \cup pass[q].found)
          BY <1>3, <2>1, <4>2 DEF AllKept
        <5>2. Known \cup pass[q].found \subseteq Known' \cup pass'[q].found
          BY <5>1
        <5> QED
          BY <5>1, <5>2, BackedMore, CoveredMore
      <4> QED
        BY <4>1, <4>2
    <3> QED
      BY ONLY <3>2 DEF AllBacked, Backed, Length
  <2>4. \A q \in Miners : pass'[q].at \in Flushes => Covered(pass'[q].found, Known')
    <3>1. SUFFICES ASSUME NEW q \in Miners, pass'[q].at \in Flushes PROVE Covered(pass'[q].found, Known')
      OBVIOUS
    <3>2. CASE q = p
      BY <1>3, <3>1, <3>2
    <3>3. CASE q # p
      <4>1. Covered(pass[q].found, Known) /\ pass'[q] = pass[q]
        BY <1>3, <2>1, <3>1, <3>3 DEF AllKept
      <4> QED
        BY <4>1 DEF Covered
    <3> QED
      BY <3>2, <3>3
  <2>5. \A q \in Miners : (pass[q].at \in Flushes => Covered(pass[q].found, Known))'
    BY <2>4 DEF Covered
  <2> QED
    BY <2>2, <2>3, <2>5 DEF AllKept
<1>6. PlainInv'
  <2> SUFFICES ASSUME plain' PROVE PlainInv'
    BY DEF PlainInv
  <2>1. /\ \A q \in Miners \ {p} : pass'[q].at = "idle"
        /\ ~store'.cut /\ \A o \in Log' : store'.log[o] = 1
        /\ run.at = "idle" => Settled'
        /\ run.at \in Flushes => Writing(run)'
    BY <1>3
  <2>2. Attributed(Log)' /\ AllRemember(store.table)'
    <3>1. Attributed(Log)'
      BY DEF Attributed, Crowded, Length
    <3>2. AllRemember(store.table)'
      BY DEF AllRemember, Remembers, Crowded, Length
    <3> QED
      BY <3>1, <3>2
  <2>3. \A q, r \in Miners : pass'[q].at # "idle" /\ pass'[r].at # "idle" => q = r
    BY <2>1
  <2>4. run.at = "idle" \/ run.at \in Flushes
    BY DEF Passes
  <2>5. (\A q \in Miners : pass'[q].at \notin Flushes) => Settled'
    BY <1>3, <2>1, <2>4
  <2>6. \A q \in Miners : pass'[q].at # "visit"
    BY <1>3, <2>1, <2>4 DEF Flushes
  <2>7. ASSUME NEW q \in Miners, pass'[q].at \in Flushes PROVE Writing(pass[q])'
    <3>1. q = p
      BY <2>1, <2>7 DEF Flushes
    <3>2. Writing(run)' /\ pass'[q] = run
      BY <1>3, <2>1, <2>7, <3>1
    <3>3. AllRemember(pass[q].table)'
      <4>1. AllRemember(run.table)'
        BY <3>2 DEF Writing
      <4> QED
        BY <3>2, <4>1 DEF AllRemember, Remembers, Crowded, Length
    <3>4. Located(Log, pass[q].table)'
      BY <3>2 DEF Writing, Located
    <3>5. Tallied(pass[q].templates, Log)' /\ Tallied(pass[q].trees, Log)'
      BY <3>2 DEF Writing, Tallied
    <3> QED
      BY <3>2, <3>3, <3>4, <3>5 DEF Writing
  <2> QED
    BY <2>1, <2>2, <2>3, <2>5, <2>6, <2>7 DEF PlainInv
<1> QED
  BY <1>1, <1>4, <1>5, <1>6 DEF DrainInv

\* What appending does to the log: each result that was to go there is in it
\* afterwards, or known to be missing.
LEMMA LogAppended ==
  ASSUME DrainTypeOK, NEW S \in SUBSET Occurrences, IsFiniteSet(S), NEW cut \in BOOLEAN, Appended(S, cut)
  PROVE  /\ store'.table = store.table /\ store'.templates = store.templates
         /\ store'.trees = store.trees /\ store'.cut = cut
         /\ store' \in [log : Logs, cut : BOOLEAN, templates : Tallies, trees : Tallies, table : Seq(Entries)]
         /\ IsFiniteSet(Log') /\ Known \subseteq Known' /\ Covered(S, Known')
         /\ ~store.cut => /\ Log' = Log \cup S
                          /\ (\A o \in Log \ S : store'.log[o] = store.log[o])
                          /\ (\A o \in S \ Log : store'.log[o] = 1)
<1> DEFINE T == S \ Spoilt(S)
           log == store.log (+) SetToBag(T)
<1>1. store' = [store EXCEPT !.log = log, !.cut = cut] /\ missed' = missed \cup Lines(Spoilt(S))
  BY DEF Appended
<1>2. T \in SUBSET Occurrences /\ store.log \in Logs
  BY DEF DrainTypeOK
<1> HIDE DEF T
<1>3. /\ log \in Logs /\ BagToSet(log) = Log \cup T
      /\ \A o \in Log \ T : log[o] = store.log[o]
      /\ \A o \in T \ Log : log[o] = 1
  BY <1>2, LogGrows DEF Log
<1> HIDE DEF log
<1>4. /\ store'.log = log /\ store'.table = store.table /\ store'.templates = store.templates
      /\ store'.trees = store.trees /\ store'.cut = cut
      /\ store' \in [log : Logs, cut : BOOLEAN, templates : Tallies, trees : Tallies, table : Seq(Entries)]
  BY <1>1, <1>3 DEF DrainTypeOK
<1>5. Log' = Log \cup T
  BY <1>3, <1>4 DEF Log
<1>6. IsFiniteSet(Log')
  <2>1. T \in SUBSET S
    BY DEF T
  <2>2. IsFiniteSet(Log) /\ IsFiniteSet(T)
    BY <2>1, FS_Subset DEF DrainTypeOK
  <2>3. IsFiniteSet(Log \cup T)
    BY <2>2, FS_Union
  <2> QED
    BY <1>5, <2>3
<1>7. Known' = (Log \cup T) \cup (missed \cup Lines(Spoilt(S)))
  BY <1>1, <1>5 DEF Known
<1>8. Covered(S, Known')
  <2>1. SUFFICES ASSUME NEW o \in S PROVE \E m \in Known' : m.of = o.of /\ m.line = o.line
    BY DEF Covered
  <2>2. CASE o \in Spoilt(S)
    <3>1. [of |-> o.of, line |-> o.line] \in Lines(Spoilt(S))
      BY <2>2 DEF Lines
    <3> QED
      BY <1>7, <3>1
  <2>3. CASE o \notin Spoilt(S)
    BY <1>7, <2>3 DEF T
  <2> QED
    BY <2>2, <2>3
<1>9. ~store.cut => T = S
  BY DEF T, Spoilt
<1> QED
  BY <1>3, <1>4, <1>5, <1>6, <1>7, <1>8, <1>9 DEF Known

LEMMA FlushLogKeeps ==
  ASSUME DrainInv, UNCHANGED <<disk, changes>>, NEW p \in Miners, FlushLog(p)
  PROVE  DrainInv'
<1>1. DiskTypeOK /\ DrainTypeOK /\ AllKept /\ pass[p] \in Passes
  BY DEF DrainInv, DrainTypeOK
<1>2. pass[p].at = "visit" /\ pass' = [pass EXCEPT ![p].at = "templates"]
      /\ Appended(pass[p].found, store.cut /\ pass[p].found = {}) /\ UNCHANGED <<passes, plain>>
  BY DEF FlushLog
<1>3. PICK run \in Passes :
        /\ run = [pass[p] EXCEPT !.at = "templates"]
        /\ run.at = "templates" /\ run.found = pass[p].found /\ run.table = pass[p].table
        /\ run.templates = pass[p].templates /\ run.trees = pass[p].trees
  <2> DEFINE next == [pass[p] EXCEPT !.at = "templates"]
  <2>1. /\ next \in Passes /\ next.at = "templates"
        /\ next.found = pass[p].found /\ next.table = pass[p].table
        /\ next.templates = pass[p].templates /\ next.trees = pass[p].trees
    BY <1>1 DEF Passes, Flushes
  <2> QED
    BY <2>1
<1>4. pass' = [pass EXCEPT ![p] = run]
  BY <1>1, <1>2, <1>3
<1>5. store.log \in Logs /\ pass[p].found \subseteq Occurrences
  BY <1>1 DEF DrainTypeOK, Passes
<1>6. IsFiniteSet(pass[p].found) /\ (store.cut /\ pass[p].found = {}) \in BOOLEAN
  BY <1>1 DEF DrainTypeOK
<1>7. /\ store'.table = store.table /\ store'.templates = store.templates
      /\ store'.trees = store.trees /\ store'.cut = (store.cut /\ pass[p].found = {})
      /\ store' \in [log : Logs, cut : BOOLEAN, templates : Tallies, trees : Tallies, table : Seq(Entries)]
      /\ IsFiniteSet(Log') /\ Known \subseteq Known' /\ Covered(run.found, Known')
      /\ ~store.cut => /\ Log' = Log \cup run.found
                       /\ (\A o \in Log \ run.found : store'.log[o] = store.log[o])
                       /\ (\A o \in run.found \ Log : store'.log[o] = 1)
  BY <1>1, <1>2, <1>3, <1>5, <1>6, LogAppended
<1>8. IsFiniteSet(run.found) /\ IsFiniteSet(Log')
  BY <1>3, <1>6, <1>7
<1>9. AllBacked(store'.table, Known') /\ AllBacked(run.table, Known' \cup run.found)
  <2>1. AllBacked(store.table, Known) /\ AllBacked(run.table, Known \cup run.found)
    BY <1>1, <1>3 DEF AllKept
  <2>2. Covered(Known, Known') /\ Covered(Known \cup run.found, Known' \cup run.found)
    BY <1>7, CoveredMore
  <2>3. AllBacked(store.table, Known') /\ AllBacked(run.table, Known' \cup run.found)
    BY ONLY <2>1, <2>2, BackedMore
  <2> QED
    BY <1>7, <2>3
<1>10. ASSUME plain'
       PROVE  /\ plain /\ \A q \in Miners \ {p} : pass[q].at = "idle"
              /\ ~store'.cut /\ \A o \in Log' : store'.log[o] = 1
              /\ Attributed(Log') /\ AllRemember(store'.table)
              /\ Writing(run)'
  <2>1. /\ plain /\ \A q \in Miners \ {p} : pass[q].at = "idle"
        /\ Reading(pass[p])
        /\ ~store.cut /\ \A o \in Log : store.log[o] = 1
        /\ Attributed(Log) /\ AllRemember(store.table)
    BY <1>2, <1>10 DEF DrainInv, PlainInv
  <2>2. /\ Log' = Log \cup run.found /\ ~store'.cut
        /\ (\A o \in Log \ run.found : store'.log[o] = store.log[o])
        /\ (\A o \in run.found \ Log : store'.log[o] = 1)
    BY <1>7, <2>1
  <2>3. Settled
    BY <1>2, <2>1 DEF DrainInv, PlainInv, Flushes
  <2>4. Located(Log, run.table)
    <3>1. \A j \in DOMAIN store.table : store.table[j] \in Entries
      BY <1>1 DEF DrainTypeOK
    <3>2. \A j \in DOMAIN run.table : run.table[j] \in Entries
      BY <1>3 DEF Passes
    <3>3. /\ \A j \in DOMAIN store.table : store.table[j].at \in Nat
          /\ \A j \in DOMAIN run.table : run.table[j].at \in Nat
      BY <3>1, <3>2 DEF Entries
    <3>4. \A o \in Log : o.line \in Nat
      BY <1>5 DEF Log, Logs, BagToSet, Occurrences
    <3>5. Extends(run.table, store.table)
      BY <1>3, <2>1 DEF Reading
    <3> QED
      BY <2>3, <3>3, <3>4, <3>5 DEF Settled, Located, Extends
  <2>5. Located(run.found, run.table) /\ Beyond(run.found, store.table) /\ Attributed(run.found)
        /\ AllRemember(run.table)
    BY <1>3, <2>1 DEF Reading
  <2>6. \A o \in run.found : o \notin Log
    <3>1. \A j \in DOMAIN store.table : store.table[j] \in Entries
      BY <1>1 DEF DrainTypeOK
    <3>2. \A j \in DOMAIN store.table : store.table[j].at \in Nat
      BY <3>1 DEF Entries
    <3>3. \A o \in run.found : o.line \in Nat
      BY <1>3 DEF Passes, Occurrences
    <3> QED
      BY <2>3, <2>5, <3>2, <3>3 DEF Settled, Located, Beyond
  <2>7. \A o \in Log' : store'.log[o] = 1
    BY <2>1, <2>6, <2>2
  <2>8. Attributed(Log') /\ Located(Log', run.table)
    BY <2>1, <2>4, <2>5, <2>2 DEF Attributed, Located
  <2>9. Tallied(run.templates, Log') /\ Tallied(run.trees, Log')
    BY <1>3, <2>1, <2>2 DEF Reading
  <2>10. Writing(run)'
    BY <1>3, <2>5, <2>8, <2>9
    DEF Writing, AllRemember, Remembers, Crowded, Length, Located, Tallied
  <2> QED
    BY <1>7, <2>1, <2>7, <2>8, <2>10, <2>2
<1>11. run.at # "visit" /\ run.at # "idle" /\ plain' \in BOOLEAN
  BY <1>1, <1>2, <1>3 DEF DrainTypeOK
<1> QED
  BY <1>2, <1>3, <1>4, <1>7, <1>8, <1>9, <1>10, <1>11, WriteKeeps

LEMMA FlushTemplatesKeeps ==
  ASSUME DrainInv, UNCHANGED <<disk, changes>>, NEW p \in Miners, FlushTemplates(p)
  PROVE  DrainInv'
<1>1. DiskTypeOK /\ DrainTypeOK /\ AllKept /\ pass[p] \in Passes
  BY DEF DrainInv, DrainTypeOK
<1>2. pass[p].at = "templates" /\ pass' = [pass EXCEPT ![p].at = "trees"]
      /\ store' = [store EXCEPT !.templates = pass[p].templates] /\ UNCHANGED <<passes, plain, missed>>
  BY DEF FlushTemplates
<1>3. PICK run \in Passes :
        /\ run = [pass[p] EXCEPT !.at = "trees"]
        /\ run.at = "trees" /\ run.found = pass[p].found /\ run.table = pass[p].table
        /\ run.templates = pass[p].templates /\ run.trees = pass[p].trees
  <2> DEFINE next == [pass[p] EXCEPT !.at = "trees"]
  <2>1. /\ next \in Passes /\ next.at = "trees"
        /\ next.found = pass[p].found /\ next.table = pass[p].table
        /\ next.templates = pass[p].templates /\ next.trees = pass[p].trees
    BY <1>1 DEF Passes, Flushes
  <2> QED
    BY <2>1
<1>4. pass' = [pass EXCEPT ![p] = run]
  BY <1>1, <1>2, <1>3
<1>5. /\ store'.log = store.log /\ store'.cut = store.cut /\ store'.table = store.table /\ store'.templates = run.templates
      /\ store' \in [log : Logs, cut : BOOLEAN, templates : Tallies, trees : Tallies, table : Seq(Entries)]
  BY <1>1, <1>2, <1>3 DEF DrainTypeOK, Passes
<1>6. Log' = Log /\ Known' = Known
  BY <1>2, <1>5 DEF Log, Known
<1>7. IsFiniteSet(run.found) /\ IsFiniteSet(Log') /\ Covered(run.found, Known')
  BY <1>1, <1>2, <1>3, <1>6 DEF DrainTypeOK, AllKept, Flushes
<1>8. AllBacked(store'.table, Known') /\ AllBacked(run.table, Known' \cup run.found)
  BY <1>1, <1>3, <1>5, <1>6 DEF AllKept
<1>9. ASSUME plain'
      PROVE  /\ plain /\ \A q \in Miners \ {p} : pass[q].at = "idle"
             /\ ~store'.cut /\ \A o \in Log' : store'.log[o] = 1
             /\ Attributed(Log') /\ AllRemember(store'.table)
             /\ Writing(run)'
  <2>1. /\ plain /\ \A q \in Miners \ {p} : pass[q].at = "idle"
        /\ Writing(pass[p])
        /\ ~store.cut /\ \A o \in Log : store.log[o] = 1
        /\ Attributed(Log) /\ AllRemember(store.table)
    BY <1>2, <1>9 DEF DrainInv, PlainInv, Flushes
  <2>2. AllRemember(run.table) /\ Located(Log, run.table)
        /\ Tallied(run.templates, Log) /\ Tallied(run.trees, Log)
    BY <1>3, <2>1 DEF Writing
  <2>3. Writing(run)'
    BY <1>3, <1>5, <1>6, <2>2
    DEF Writing, AllRemember, Remembers, Crowded, Length, Located, Tallied
  <2> QED
    BY <1>5, <1>6, <2>1, <2>3
<1>10. run.at # "visit" /\ run.at # "idle" /\ plain' \in BOOLEAN
  BY <1>1, <1>2, <1>3 DEF DrainTypeOK
<1> QED
  BY <1>2, <1>3, <1>4, <1>5, <1>6, <1>7, <1>8, <1>9, <1>10, WriteKeeps

LEMMA FlushTreesKeeps ==
  ASSUME DrainInv, UNCHANGED <<disk, changes>>, NEW p \in Miners, FlushTrees(p)
  PROVE  DrainInv'
<1>1. DiskTypeOK /\ DrainTypeOK /\ AllKept /\ pass[p] \in Passes
  BY DEF DrainInv, DrainTypeOK
<1>2. pass[p].at = "trees" /\ pass' = [pass EXCEPT ![p].at = "save"]
      /\ store' = [store EXCEPT !.trees = pass[p].trees] /\ UNCHANGED <<passes, plain, missed>>
  BY DEF FlushTrees
<1>3. PICK run \in Passes :
        /\ run = [pass[p] EXCEPT !.at = "save"]
        /\ run.at = "save" /\ run.found = pass[p].found /\ run.table = pass[p].table
        /\ run.templates = pass[p].templates /\ run.trees = pass[p].trees
  <2> DEFINE next == [pass[p] EXCEPT !.at = "save"]
  <2>1. /\ next \in Passes /\ next.at = "save"
        /\ next.found = pass[p].found /\ next.table = pass[p].table
        /\ next.templates = pass[p].templates /\ next.trees = pass[p].trees
    BY <1>1 DEF Passes, Flushes
  <2> QED
    BY <2>1
<1>4. pass' = [pass EXCEPT ![p] = run]
  BY <1>1, <1>2, <1>3
<1>5. /\ store'.log = store.log /\ store'.cut = store.cut /\ store'.table = store.table /\ store'.trees = run.trees
      /\ store'.templates = store.templates
      /\ store' \in [log : Logs, cut : BOOLEAN, templates : Tallies, trees : Tallies, table : Seq(Entries)]
  BY <1>1, <1>2, <1>3 DEF DrainTypeOK, Passes
<1>6. Log' = Log /\ Known' = Known
  BY <1>2, <1>5 DEF Log, Known
<1>7. IsFiniteSet(run.found) /\ IsFiniteSet(Log') /\ Covered(run.found, Known')
  BY <1>1, <1>2, <1>3, <1>6 DEF DrainTypeOK, AllKept, Flushes
<1>8. AllBacked(store'.table, Known') /\ AllBacked(run.table, Known' \cup run.found)
  BY <1>1, <1>3, <1>5, <1>6 DEF AllKept
<1>9. ASSUME plain'
      PROVE  /\ plain /\ \A q \in Miners \ {p} : pass[q].at = "idle"
             /\ ~store'.cut /\ \A o \in Log' : store'.log[o] = 1
             /\ Attributed(Log') /\ AllRemember(store'.table)
             /\ Writing(run)'
  <2>1. /\ plain /\ \A q \in Miners \ {p} : pass[q].at = "idle"
        /\ Writing(pass[p])
        /\ ~store.cut /\ \A o \in Log : store.log[o] = 1
        /\ Attributed(Log) /\ AllRemember(store.table)
    BY <1>2, <1>9 DEF DrainInv, PlainInv, Flushes
  <2>2. AllRemember(run.table) /\ Located(Log, run.table) /\ store.templates = run.templates
        /\ Tallied(run.templates, Log) /\ Tallied(run.trees, Log)
    BY <1>2, <1>3, <2>1 DEF Writing
  <2>3. Writing(run)'
    BY <1>3, <1>5, <1>6, <2>2, SMTT(20)
    DEF Writing, AllRemember, Remembers, Crowded, Length, Located, Tallied
  <2> QED
    BY <1>5, <1>6, <2>1, <2>3
<1>10. run.at # "visit" /\ run.at # "idle" /\ plain' \in BOOLEAN
  BY <1>1, <1>2, <1>3 DEF DrainTypeOK
<1> QED
  BY <1>2, <1>3, <1>4, <1>5, <1>6, <1>7, <1>8, <1>9, <1>10, WriteKeeps

LEMMA SaveStateKeeps ==
  ASSUME DrainInv, UNCHANGED <<disk, changes>>, NEW p \in Miners, SaveState(p)
  PROVE  DrainInv'
<1>1. DiskTypeOK /\ DrainTypeOK /\ AllKept /\ pass[p] \in Passes
  BY DEF DrainInv, DrainTypeOK
<1>2. pass[p].at = "save" /\ pass' = [pass EXCEPT ![p] = Resting]
      /\ store' = [store EXCEPT !.table = pass[p].table] /\ UNCHANGED <<passes, plain, missed>>
  BY DEF SaveState
<1>3. PICK run \in Passes : run = Resting
  BY RestingPass
<1>4. pass' = [pass EXCEPT ![p] = run]
  BY <1>2, <1>3
<1>5. /\ store'.log = store.log /\ store'.cut = store.cut /\ store'.table = pass[p].table
      /\ store'.templates = store.templates /\ store'.trees = store.trees
      /\ store' \in [log : Logs, cut : BOOLEAN, templates : Tallies, trees : Tallies, table : Seq(Entries)]
  BY <1>1, <1>2 DEF DrainTypeOK, Passes
<1>6. Log' = Log /\ Known' = Known
  BY <1>2, <1>5 DEF Log, Known
<1>7. /\ run.at = "idle" /\ run.table = <<>> /\ run.found = {}
      /\ IsFiniteSet(run.found) /\ IsFiniteSet(Log')
  BY <1>1, <1>3, <1>6, RestingPass DEF DrainTypeOK
<1>8. AllBacked(store'.table, Known') /\ AllBacked(run.table, Known' \cup run.found)
  <2>1. Covered(pass[p].found, Known) /\ AllBacked(pass[p].table, Known \cup pass[p].found)
    BY <1>1, <1>2 DEF AllKept, Flushes
  <2>2. Covered(Known \cup pass[p].found, Known)
    BY <2>1 DEF Covered
  <2>3. AllBacked(run.table, Known' \cup run.found)
    BY <1>7 DEF AllBacked
  <2> QED
    BY <1>5, <1>6, <2>1, <2>2, <2>3, BackedMore
<1>9. ASSUME plain'
      PROVE  /\ plain /\ \A q \in Miners \ {p} : pass[q].at = "idle"
             /\ ~store'.cut /\ \A o \in Log' : store'.log[o] = 1
             /\ Attributed(Log') /\ AllRemember(store'.table)
             /\ Settled'
  <2>1. /\ plain /\ \A q \in Miners \ {p} : pass[q].at = "idle"
        /\ Writing(pass[p])
        /\ ~store.cut /\ \A o \in Log : store.log[o] = 1
        /\ Attributed(Log)
    BY <1>2, <1>9 DEF DrainInv, PlainInv, Flushes
  <2>2. /\ AllRemember(pass[p].table) /\ Located(Log, pass[p].table)
        /\ Tallied(store.templates, Log) /\ Tallied(store.trees, Log)
    BY <1>2, <2>1 DEF Writing
  <2>3. Settled'
    BY <1>5, <1>6, <2>2 DEF Settled, Located, Tallied
  <2> QED
    BY <1>5, <1>6, <2>1, <2>2, <2>3
<1>10. run.at # "visit" /\ run.at \notin Flushes /\ plain' \in BOOLEAN
  BY <1>1, <1>2, <1>7 DEF DrainTypeOK, Flushes
<1> QED
  BY <1>2, <1>3, <1>4, <1>5, <1>6, <1>7, <1>8, <1>9, <1>10, WriteKeeps

LEMMA PassDiesKeeps ==
  ASSUME DrainInv, UNCHANGED <<disk, changes>>, NEW p \in Miners, PassDies(p)
  PROVE  DrainInv'
<1>1. DrainTypeOK /\ AllKept
  BY DEF DrainInv
<1>2. pass' = [pass EXCEPT ![p] = Resting] /\ plain' = FALSE /\ UNCHANGED <<store, passes, missed>>
  BY DEF PassDies
<1>3. PICK run \in Passes : run = Resting
  BY RestingPass
<1>4. pass' = [pass EXCEPT ![p] = run]
  BY <1>2, <1>3
<1>5. Log' = Log /\ Known' = Known
  BY <1>2 DEF Log, Known
<1>6. /\ run.at = "idle" /\ run.table = <<>> /\ run.found = {}
      /\ IsFiniteSet(run.found) /\ IsFiniteSet(Log')
  BY <1>1, <1>3, <1>5, RestingPass DEF DrainTypeOK
<1>7. AllBacked(store'.table, Known') /\ AllBacked(run.table, Known' \cup run.found)
  <2>1. AllBacked(run.table, Known' \cup run.found)
    BY <1>6 DEF AllBacked
  <2> QED
    BY <1>1, <1>2, <1>5, <2>1 DEF AllKept
<1>8. store' \in [log : Logs, cut : BOOLEAN, templates : Tallies, trees : Tallies, table : Seq(Entries)]
  BY <1>1, <1>2 DEF DrainTypeOK
<1>9. run.at # "visit" /\ run.at \notin Flushes /\ plain' \in BOOLEAN
  BY <1>2, <1>6 DEF Flushes
<1> QED
  BY <1>2, <1>3, <1>4, <1>5, <1>6, <1>7, <1>8, <1>9, WriteKeeps

\* A pass that dies while it appends leaves a beginning of what it found.
LEMMA FlushBreaksKeeps ==
  ASSUME DrainInv, UNCHANGED <<disk, changes>>, NEW p \in Miners, FlushBreaks(p)
  PROVE  DrainInv'
<1>1. DrainTypeOK /\ AllKept /\ pass[p] \in Passes
  BY DEF DrainInv, DrainTypeOK
<1>2. pass' = [pass EXCEPT ![p] = Resting] /\ plain' = FALSE /\ UNCHANGED passes
  BY DEF FlushBreaks
<1>3. PICK part \in Beginnings(pass[p].found), cut \in BOOLEAN : Appended(part, cut \/ (store.cut /\ part = {}))
  BY DEF FlushBreaks
<1>4. part \in SUBSET pass[p].found /\ IsFiniteSet(pass[p].found) /\ pass[p].found \in SUBSET Occurrences
  BY <1>1, <1>3 DEF Beginnings, DrainTypeOK, Passes
<1>5. part \in SUBSET Occurrences /\ IsFiniteSet(part)
  BY <1>4, FS_Subset
<1>6. (cut \/ (store.cut /\ part = {})) \in BOOLEAN
  BY <1>1 DEF DrainTypeOK
<1>7. /\ store'.table = store.table
      /\ store' \in [log : Logs, cut : BOOLEAN, templates : Tallies, trees : Tallies, table : Seq(Entries)]
      /\ IsFiniteSet(Log') /\ Known \subseteq Known'
  BY <1>1, <1>3, <1>5, <1>6, LogAppended
<1>8. PICK run \in Passes : run = Resting
  BY RestingPass
<1>9. pass' = [pass EXCEPT ![p] = run]
  BY <1>2, <1>8
<1>10. run.at = "idle" /\ run.table = <<>> /\ run.found = {} /\ IsFiniteSet(run.found)
  BY <1>8, RestingPass
<1>11. AllBacked(store'.table, Known') /\ AllBacked(run.table, Known' \cup run.found)
  <2>1. AllBacked(store.table, Known')
    BY <1>1, <1>7, BackedMore, CoveredMore DEF AllKept
  <2> QED
    BY <1>7, <1>10, <2>1 DEF AllBacked
<1>12. run.at # "visit" /\ run.at \notin Flushes /\ plain' \in BOOLEAN
  BY <1>2, <1>10 DEF Flushes
<1> QED
  BY <1>2, <1>7, <1>8, <1>9, <1>10, <1>11, <1>12, WriteKeeps

----------------------------------------------------------------------------
(* The miner as a whole.                                                    *)

LEMMA DrainStepKeeps == DrainInv /\ DrainNext /\ UNCHANGED <<disk, changes>> => DrainInv'
<1> SUFFICES ASSUME DrainInv, UNCHANGED <<disk, changes>>, DrainNext PROVE DrainInv'
  OBVIOUS
<1>1. PICK p \in Miners :
        \/ \E o \in Options : StartPass(p, o.full, o.verify, o.limit)
        \/ \E t \in pass[p].todo : Skip(p, t) \/ ReadTranscript(p, t)
        \/ FlushLog(p) \/ FlushBreaks(p) \/ FlushTemplates(p) \/ FlushTrees(p)
        \/ SaveState(p) \/ PassDies(p)
  BY DEF DrainNext
<1>2. CASE \E o \in Options : StartPass(p, o.full, o.verify, o.limit)
  <2>1. PICK o \in Options : StartPass(p, o.full, o.verify, o.limit)
    BY <1>2
  <2>2. o.full \in BOOLEAN /\ o.verify \in BOOLEAN
    BY DrainAssumption DEF DrainAssumption
  <2> QED
    BY <2>1, <2>2, StartPassKeeps
<1>3. CASE \E t \in pass[p].todo : Skip(p, t) \/ ReadTranscript(p, t)
  BY <1>3, SkipKeeps, ReadKeeps
<1> QED
  BY <1>1, <1>2, <1>3, FlushLogKeeps, FlushBreaksKeeps, FlushTemplatesKeeps, FlushTreesKeeps,
     SaveStateKeeps, PassDiesKeeps

\* Any passes, on transcripts that change in any way they can.
drainAll == <<disk, changes, drainVars>>
DrainSpecNext ==
  \/ DrainNext /\ UNCHANGED <<disk, changes>>
  \/ TranscriptsChange /\ UNCHANGED drainVars
DrainSpec == TranscriptsInit /\ DrainInit /\ [][DrainSpecNext]_drainAll

LEMMA DrainInductive == DrainInv /\ [DrainSpecNext]_drainAll => DrainInv'
<1> SUFFICES ASSUME DrainInv, [DrainSpecNext]_drainAll PROVE DrainInv'
  OBVIOUS
<1>1. CASE DrainNext /\ UNCHANGED <<disk, changes>>
  BY <1>1, DrainStepKeeps
<1>2. CASE TranscriptsChange /\ UNCHANGED drainVars
  BY <1>2, ChangeKeepsMiner
<1>3. CASE UNCHANGED drainAll
  <2>1. disk' = disk /\ changes' = changes /\ store' = store /\ pass' = pass
        /\ passes' = passes /\ plain' = plain /\ missed' = missed
    BY <1>3 DEF drainAll, drainVars
  <2>2. DiskTypeOK /\ CallsOK /\ DrainTypeOK /\ AllKept /\ PlainInv
    BY DEF DrainInv
  <2>3. DiskTypeOK' /\ CallsOK' /\ DrainTypeOK'
    BY <2>1, <2>2 DEF DiskTypeOK, CallsOK, DrainTypeOK, Log
  <2>4. AllKept'
    <3>1. AllKept /\ Known' = Known
      BY <2>1, <2>2 DEF Known, Log
    <3> QED
      BY ONLY <2>1, <3>1 DEF AllKept, AllBacked, Backed, Length, Covered
  <2>5. PlainInv'
    <3>1. Log' = Log
      BY <2>1 DEF Log
    <3>2. Settled => Settled'
      BY <2>1, <3>1 DEF Settled, Located, Tallied
    <3>3. (Attributed(Log) => Attributed(Log)') /\ (AllRemember(store.table) => AllRemember(store.table)')
      BY <2>1, <3>1 DEF Attributed, AllRemember, Remembers, Crowded, Length
    <3>4. ASSUME NEW p \in Miners, Reading(pass[p]) PROVE Reading(pass[p])'
      BY <2>1, <3>1, <3>4
      DEF Reading, Attributed, AllRemember, Remembers, Crowded, Length, Extends, Located, Beyond, Tallied
    <3>5. ASSUME NEW p \in Miners, Writing(pass[p]) PROVE Writing(pass[p])'
      BY <2>1, <3>1, <3>5 DEF Writing, AllRemember, Remembers, Crowded, Length, Located, Tallied
    <3> QED
      BY <2>1, <2>2, <3>1, <3>2, <3>3, <3>4, <3>5 DEF PlainInv
  <2> QED
    BY <2>3, <2>4, <2>5 DEF DrainInv
<1> QED
  BY <1>1, <1>2, <1>3 DEF DrainSpecNext

LEMMA CountersFollow == DrainInv => CountersExact
<1> SUFFICES ASSUME DrainInv PROVE CountersExact
  OBVIOUS
<1>1. AllKept /\ PlainInv /\ DrainTypeOK
  BY DEF DrainInv
<1>2. NothingLost
  <2>1. SUFFICES ASSUME NEW i \in DOMAIN store.table, disk[store.table[i].of].gen = 0,
                        NEW k \in ResultsIn(store.table[i].of, 0, store.table[i].at)
                 PROVE  \E o \in BagToSet(store.log) \cup missed : o.of = store.table[i].of /\ o.line = k
    BY DEF NothingLost
  <2>2. Backed(store.table[i], Known)
    BY <1>1 DEF AllKept, AllBacked
  <2>3. k \in 1..store.table[i].at /\ disk[store.table[i].of].lines[k] # Use
    BY DEF ResultsIn
  <2> QED
    BY <2>1, <2>2, <2>3 DEF Backed, Known, Log
<1>3. CountedOnce
  <2>1. SUFFICES ASSUME plain, \A p \in Miners : pass[p].at = "idle"
                 PROVE  /\ \A o \in Log : /\ store.log[o] = 1
                                          /\ store.table[o.index].of = o.of
                                          /\ o.line <= store.table[o.index].at
                                          /\ o.named \/ disk[o.of].gen > 0 \/ Crowded(o.of, o.line - 1)
                        /\ Tallied(store.templates, Log) /\ Tallied(store.trees, Log)
    BY DEF CountedOnce, Tallied, Log
  <2>2. (\A o \in Log : store.log[o] = 1) /\ Attributed(Log) /\ Settled
    BY <1>1, <2>1 DEF PlainInv, Flushes
  <2> QED
    BY <2>2 DEF Attributed, Settled, Located
<1> QED
  BY <1>2, <1>3 DEF CountersExact

\* Whatever passes die, fail or run beside each other, no result below a saved
\* watermark is missing from the log, but for one that failed to cluster or was appended
\* to a line cut short; and as long as none did, each that clustered is there
\* once, with its tool unless too many calls were open, and the counts agree
\* (readTranscript, appendOccurrences, saveReaderState).
THEOREM CountersStayExact == DrainSpec => []CountersExact
<1>1. TranscriptsInit /\ DrainInit => DrainInv
  BY DrainStarts
<1>2. DrainInv /\ [DrainSpecNext]_drainAll => DrainInv'
  BY DrainInductive
<1>3. DrainInv => CountersExact
  BY CountersFollow
<1> QED
  BY <1>1, <1>2, <1>3, PTL DEF DrainSpec

=============================================================================
