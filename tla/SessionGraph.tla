---------------------------- MODULE SessionGraph ----------------------------
(***************************************************************************)
(* What a refresh pass writes to the session graph: the rows it derives    *)
(* from the transcripts, the roll-ups and episodes over them, and the      *)
(* preserved copies of rows that no transcript can produce any more.  A    *)
(* pass walks the corpus, rebuilds the graph from nothing, or visits only  *)
(* the transcripts it is handed; it may be aborted where it yields, and    *)
(* killed anywhere.  The refresh lock admits one pass at a time.           *)
(***************************************************************************)
EXTENDS Transcripts, Bags

CONSTANTS
  SessionOf   \* the session that writes each transcript

ASSUME SessionAssumption == DOMAIN SessionOf = Transcripts

VARIABLES
  row,        \* row[t]: the watermark of a transcript
  rows,       \* the derived rows, as a bag of <<transcript, line>>
  rolled,     \* the rows whose turn the roll-up has ended
  stale,      \* sessions whose requests run past their episodes
  preserved,  \* copies of rows, each with whether its turn had ended
  retired,    \* retired[s]: whether the session's agent is retired, and past the grace
  walk        \* the pass that runs

graphVars == <<row, rows, rolled, stale, preserved, retired, walk>>

Sessions == {SessionOf[t] : t \in Transcripts}
Of(s) == {t \in Transcripts : SessionOf[t] = s}
RowsOf(s) == {r \in BagToSet(rows) : SessionOf[r[1]] = s}

NoRow == [status |-> "none", at |-> 0, gen |-> 0, late |-> FALSE]
NoWalk == [at |-> "idle", kind |-> "delta", sweep |-> FALSE, todo |-> {}, visited |-> {},
           unvisited |-> {}, before |-> [t \in Transcripts |-> 0], touched |-> {}, since |-> 0, amiss |-> {}]

----------------------------------------------------------------------------
(* What a pass starts from.                                                 *)

\* A session none of whose rows names a transcript that is still there.
Unreachable(s) == RowsOf(s) # {} /\ \A r \in RowsOf(s) : row[r[1]].status # "ok"

\* Mutant: a row read after the retire is sealed without a look at its file.
SealedUnseen(t) == retired[SessionOf[t]] = "past" /\ row[t].status = "ok" /\ row[t].late

\* A retired agent's transcript that was read to its end.  A row read before the
\* retire counts only if the file has not been touched since, and is stamped anew.
Sealed(t) ==
  /\ retired[SessionOf[t]] = "past"
  /\ row[t].status = "ok" /\ row[t].at = Length(t)
  /\ row[t].late \/ row[t].gen = disk[t].gen

Stamped(sealed) == [t \in Transcripts |-> IF t \in sealed THEN [row[t] EXCEPT !.late = TRUE] ELSE row[t]]

Offsets == [t \in Transcripts |-> row[t].at]

\* Every session with a turn that no roll-up has ended.
Unfinished == {SessionOf[r[1]] : r \in BagToSet(rows) \ rolled}

RolledUp(sessions) == rolled \cup {r \in BagToSet(rows) : SessionOf[r[1]] \in sessions}

\* A walk over the corpus.  hidden are the sealed transcripts that the watcher
\* has not reported; the caller may limit how many of the others are visited.
StartWalk(hidden, limit, sweep) ==
  /\ walk.at = "idle"
  /\ \A t \in hidden : t \in Present /\ Sealed(t)
  /\ LET visited == Foremost(limit, Present \ hidden)
     IN walk' = [NoWalk EXCEPT !.at = "scan", !.kind = "full", !.sweep = sweep,
          !.todo = visited, !.visited = visited, !.before = Offsets, !.since = changes,
          !.unvisited = {t \in Present \ visited : row[t].status = "ok"},
          !.amiss = {t \in Transcripts \ visited : row[t].status # "ok"}]
  /\ row' = Stamped(hidden)
  /\ rolled' = RolledUp(Unfinished)
  /\ UNCHANGED <<rows, stale, preserved, retired>>

\* A pass over the transcripts that changed, as the watcher named them.
StartDelta(dirty) ==
  /\ walk.at = "idle"
  /\ walk' = [NoWalk EXCEPT !.at = "scan", !.before = Offsets, !.since = changes, !.todo = dirty]
  /\ UNCHANGED <<row, rows, rolled, stale, preserved, retired>>

----------------------------------------------------------------------------
(* A rebuild: keep what cannot be derived again, then reset.                *)

\* Mutant: a row whose turn has not ended is not worth keeping.
CopiesEnded(sessions) ==
  {[row |-> r, ended |-> TRUE] : r \in {x \in BagToSet(rows) \cap rolled : SessionOf[x[1]] \in sessions}}

Copies(sessions) ==
  {[row |-> r, ended |-> r \in rolled] : r \in {x \in BagToSet(rows) : SessionOf[x[1]] \in sessions}}

\* A later copy of a row replaces an earlier one.
PreserveUnreachable ==
  LET new == Copies({s \in Sessions : Unreachable(s)})
  IN preserved' = {p \in preserved : \A n \in new : n.row # p.row} \cup new

StartRebuild ==
  /\ walk.at = "idle"
  /\ PreserveUnreachable
  /\ walk' = [NoWalk EXCEPT !.at = "reset", !.kind = "rebuild"]
  /\ UNCHANGED <<row, rows, rolled, stale, retired>>

\* The watermarks go back to the start; a rebuild seals nothing.
ResetIndex ==
  /\ walk.at = "reset"
  /\ rows' = EmptyBag /\ rolled' = {} /\ stale' = {}
  /\ row' = [t \in Transcripts |-> [row[t] EXCEPT !.at = 0]]
  /\ walk' = [walk EXCEPT !.at = "scan", !.sweep = TRUE, !.todo = Present,
                !.visited = Present, !.since = changes]
  /\ UNCHANGED <<preserved, retired>>

----------------------------------------------------------------------------
(* The scan.                                                                *)

\* A rebuild verifies hashes; otherwise only a file that shrank was visibly rewritten.
Rewound(t) ==
  \/ Length(t) < row[t].at
  \/ walk.kind = "rebuild" /\ row[t].at > 0 /\ row[t].gen # disk[t].gen

Purged(t) == [r \in {x \in BagToSet(rows) : x[1] # t} |-> rows[r]]
Once(bag, new) == [r \in BagToSet(bag) \cup new |-> 1]

Scanned(t, status) ==
  walk' = [walk EXCEPT !.todo = @ \ {t}, !.touched = IF status THEN @ \cup {SessionOf[t]} ELSE @]

\* A file that is gone is marked so, and one with nothing new is left alone.
VisitNothing(t) ==
  /\ t \notin Present \/ (Length(t) = row[t].at /\ ~Rewound(t))
  /\ row' = [row EXCEPT ![t].status = IF t \in Present THEN "ok" ELSE "missing"]
  /\ Scanned(t, FALSE)
  /\ UNCHANGED <<rows, rolled, stale>>

\* A file that was rewritten and has grown is read from the middle of a line.
VisitGarbled(t) ==
  /\ t \in Present /\ row[t].at > 0 /\ Length(t) > row[t].at
  /\ row[t].gen # disk[t].gen /\ ~Rewound(t)
  /\ row' = [row EXCEPT ![t].status = "quarantined"]
  /\ Scanned(t, FALSE)
  /\ UNCHANGED <<rows, rolled, stale>>

\* The new lines become rows and the watermark advances, in one transaction; a
\* rewritten file loses its old rows first.
VisitNew(t) ==
  /\ t \in Present
  /\ \/ Rewound(t)
     \/ Length(t) > row[t].at /\ (row[t].at = 0 \/ row[t].gen = disk[t].gen)
  /\ LET anew == Rewound(t)
         from == IF anew THEN 0 ELSE row[t].at
         old == IF anew THEN Purged(t) ELSE rows
         new == {<<t, k>> : k \in from + 1..Length(t)}
     IN /\ rows' = Once(old, new)
        /\ rolled' = (rolled \cap BagToSet(old)) \ new
        /\ stale' = IF new = {} THEN stale ELSE stale \cup {SessionOf[t]}
  /\ row' = [row EXCEPT ![t] = [status |-> "ok", at |-> Length(t), gen |-> disk[t].gen,
               late |-> retired[SessionOf[t]] # "no"]]
  /\ Scanned(t, TRUE)

Visit ==
  /\ walk.at = "scan"
  /\ \E t \in walk.todo : First(t, walk.todo) /\ (VisitNothing(t) \/ VisitGarbled(t) \/ VisitNew(t))
  /\ UNCHANGED <<preserved, retired>>

\* Mutant: what the walk left out stays missing.
RestoredNone(t) == FALSE

\* The rows of transcripts that the walk left out are taken for missing, since
\* their display path does not resolve, and those that were fine are restored.
Restored(t) == t \in walk.unvisited

MarkMissing ==
  [t \in Transcripts |->
    IF walk.kind = "delta" \/ row[t].status = "none" \/ t \in walk.visited \/ Restored(t) THEN row[t]
    ELSE [row[t] EXCEPT !.status = "missing"]]

\* The sessions that were read are rolled up once the scan is over.
RollUp ==
  /\ walk.at = "scan" /\ walk.todo = {}
  /\ rolled' = RolledUp(walk.touched)
  /\ row' = MarkMissing
  /\ walk' = [walk EXCEPT !.at = "episodes"]
  /\ UNCHANGED <<rows, stale, preserved, retired>>

----------------------------------------------------------------------------
(* Episodes, and the rows that a rebuild could not derive.                  *)

ChangedSince == {SessionOf[t] : t \in {x \in Transcripts : row[x].at # walk.before[x]}}

\* Every session that changed in this pass, and some of the backlog of a sweep.
Episodes ==
  /\ walk.at = "episodes"
  /\ \E batch \in SUBSET (IF walk.sweep THEN stale \ ChangedSince ELSE {}) :
       /\ stale' = (stale \ ChangedSince) \ batch
       /\ walk' = IF walk.kind = "delta" THEN NoWalk
                  ELSE [walk EXCEPT !.at = "replay", !.sweep = walk.sweep /\ stale' = {}]
  /\ UNCHANGED <<row, rows, rolled, preserved, retired>>

\* Mutant: a replay inserts without looking.
AbsentOrNot(p) == TRUE

\* Put back unless the row is there already.
Absent(p) == p.row \notin BagToSet(rows)

ReplayPreserved ==
  /\ walk.at = "replay"
  /\ LET back == {p \in preserved : Absent(p)} IN
       /\ rows' = rows (+) SetToBag({p.row : p \in back})
       /\ rolled' = rolled \cup {p.row : p \in {q \in back : q.ended}}
       /\ stale' = stale \cup {SessionOf[p.row[1]] : p \in back}
  /\ walk' = [walk EXCEPT !.at = "end"]
  /\ UNCHANGED <<row, preserved, retired>>

EndWalk ==
  /\ walk.at = "end" /\ walk' = NoWalk
  /\ UNCHANGED <<row, rows, rolled, stale, preserved, retired>>

----------------------------------------------------------------------------
(* What may come between.                                                   *)

\* A shutdown aborts where the pass yields: after a visit of a delta, around the
\* episodes, before the replay.  A delta still rolls up what it has read.
Abort ==
  /\ \/ walk.at = "scan" /\ walk.kind = "delta" /\ walk.touched # {}
     \/ walk.at \in {"episodes", "replay"}
  /\ rolled' = IF walk.at = "scan" THEN RolledUp(walk.touched) ELSE rolled
  /\ walk' = NoWalk
  /\ UNCHANGED <<row, rows, stale, preserved, retired>>

Kill ==
  /\ walk.at # "idle" /\ walk' = NoWalk
  /\ UNCHANGED <<row, rows, rolled, stale, preserved, retired>>

\* An agent is retired, the grace passes before anyone looks or not, and a later
\* event revives the session.
Retire(s) ==
  /\ \E now \in {"no", "new", "past"} \ {retired[s]} :
       /\ now = "new" => retired[s] = "no"
       /\ retired' = [retired EXCEPT ![s] = now]
  /\ row' = [t \in Transcripts |->
       IF SessionOf[t] = s /\ retired[s] # "new" THEN [row[t] EXCEPT !.late = FALSE] ELSE row[t]]
  /\ UNCHANGED <<rows, rolled, stale, preserved, walk>>

----------------------------------------------------------------------------
GraphInit ==
  /\ TranscriptsInit
  /\ row = [t \in Transcripts |-> NoRow]
  /\ rows = EmptyBag /\ rolled = {} /\ stale = {} /\ preserved = {}
  /\ retired = [s \in Sessions |-> "no"]
  /\ walk = NoWalk

PassStep == ResetIndex \/ Visit \/ RollUp \/ Episodes \/ ReplayPreserved \/ EndWalk

Hideable == {t \in Present : Sealed(t)}

GraphNext ==
  \/ \E hidden \in SUBSET Hideable, limit \in 1..Len(Order), sweep \in BOOLEAN : StartWalk(hidden, limit, sweep)
  \/ \E dirty \in SUBSET Transcripts \ {{}} : StartDelta(dirty)
  \/ StartRebuild
  \/ PassStep

\* A change of the transcripts, or an interruption, each of which counts.
GraphChange ==
  /\ changes < MaxChanges /\ changes' = changes + 1
  /\ Abort \/ Kill \/ \E s \in Sessions : Retire(s)
  /\ UNCHANGED disk

----------------------------------------------------------------------------
Kept(s) == RowsOf(s) \cup {p.row : p \in {q \in preserved : SessionOf[q.row[1]] = s}}
Gone(s) == \A t \in Of(s) : t \notin Present /\ row[t].status # "ok"

\* A session all of whose transcripts are gone, and known to be, loses none of
\* its history, to a rebuild or to one that dies half way.
HistoryKept == [][\A s \in Sessions : Gone(s) => Kept(s) \subseteq Kept(s)']_<<disk, changes, graphVars>>

\* However often rows are derived, preserved and put back: each is there once.
RowsOnce == \A r \in BagToSet(rows) : rows[r] = 1

\* A pass over the corpus leaves the graph whole, whatever aborted or died before
\* it: everything preserved is back, no transcript that was there all along is
\* marked missing (unless it was before, and a limit kept the walk from it), every turn that was derived has been ended, and a sweep that
\* reached everything left no session without its episodes.
WalkSettles ==
  walk.at = "end" =>
    /\ \A p \in preserved : p.row \in BagToSet(rows)
    /\ walk.since = changes =>
         \A t \in Present \ walk.amiss : row[t].status # "missing"
    /\ walk.kind = "full" =>
         \A r \in BagToSet(rows) \ rolled : \E p \in preserved : p.row = r
    /\ walk.sweep => \A s \in stale : \E p \in preserved : SessionOf[p.row[1]] = s

\* A line of a transcript that stays is indexed in the end, also a late line of a
\* retired agent.
LinesIndexed ==
  \A t \in Transcripts : \A k \in 1..MaxLines :
    (t \in Present /\ k <= Length(t)) ~>
      (<<t, k>> \in BagToSet(rows) \/ t \notin Present \/ disk[t].gen > 0)

gvars == <<disk, changes, graphVars>>

GraphSpecNext ==
  \/ GraphNext /\ UNCHANGED <<disk, changes>>
  \/ GraphChange
  \/ TranscriptsChange /\ UNCHANGED graphVars

\* The event loop goes on with a pass it has started, and the daemon's poll walks
\* the whole corpus again and again, whatever other passes take the lock.
GraphSpec ==
  /\ GraphInit
  /\ [][GraphSpecNext]_gvars
  /\ WF_gvars(PassStep /\ UNCHANGED <<disk, changes>>)
  /\ SF_gvars(StartWalk(Hideable, Len(Order), FALSE) /\ UNCHANGED <<disk, changes>>)
=============================================================================
