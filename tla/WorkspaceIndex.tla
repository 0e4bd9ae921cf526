--------------------------- MODULE WorkspaceIndex ---------------------------
(***************************************************************************)
(* The workspace half of the graph: rows, spans and edges derived from the *)
(* files of the active root.  A pass scans the root, reads the files whose *)
(* size and time have changed, writes each batch of them in a transaction, *)
(* deletes what has vanished and derives all edges again.  Meanwhile the   *)
(* files change, some cannot be listed or read, and the pass may be killed *)
(* between any two writes; what the index says must not depend on how it   *)
(* got there.                                                              *)
(***************************************************************************)
EXTENDS Naturals, FiniteSets, Functions

CONSTANTS
  Paths,       \* the files that may be there, in the order of their paths
  IsNote,      \* IsNote[f]: a note, which mentions and shares tags; else a task
  InitiativeOf,\* the initiative whose directory the file is in
  RefOf,       \* what a record of the file is referred to by
  NoteTags,    \* tags of notes
  StartTexts,  \* what the files may say at the start
  Batch,       \* files read and written together
  MaxEdits     \* changes of the files after the start, kills and failures of the disk (a bound)

Files == {Paths[n] : n \in DOMAIN Paths}
Turn(f) == CHOOSE n \in DOMAIN Paths : Paths[n] = f
Notes == {f \in Files : IsNote[f]}

VARIABLES
  root,    \* root[f]: whether the file is there, its size and time as one stamp, and its text
  aside,   \* aside[f]: a copy of it that was moved out of the way
  edits,   \* changes, kills and failures so far
  mark,    \* mark[f]: its watermark: none, and whether it was indexed, at which stamp
  rows,    \* rows[f]: the text that the row of the file was made of
  spans,   \* spans[f]: the text its spans were made of
  edges,   \* the derived relations, [of, relation, to]
  scan,    \* the pass
  whole    \* history: nothing has happened that the index cannot notice

workspaceVars == <<mark, rows, spans, edges, scan, whole>>
filesVars == <<root, aside, edits>>

\* A text does not parse, or it names some tasks and carries some tags.
Malformed == [parses |-> FALSE, names |-> {}, tags |-> {}]
Text(f) ==
  {Malformed} \cup
    (IF IsNote[f] THEN [parses : {TRUE}, names : SUBSET {RefOf[g] : g \in Files \ Notes}, tags : SUBSET NoteTags]
     ELSE [parses : {TRUE}, names : {{}}, tags : {{}}])
ASSUME WorkspaceAssumption ==
  /\ \A m, n \in DOMAIN Paths : Paths[m] = Paths[n] => m = n
  /\ IsNote \in [Files -> BOOLEAN] /\ DOMAIN InitiativeOf = Files /\ DOMAIN RefOf = Files
  /\ \A f \in Notes, g \in Files : RefOf[f] = RefOf[g] => f = g
  /\ \A said \in StartTexts : \A f \in Files : said[f] \in Text(f)
  /\ Batch \in Nat \ {0} /\ MaxEdits \in Nat

NoFile == [there |-> FALSE, stamp |-> 0, text |-> Malformed]
NoMark == [there |-> FALSE, indexed |-> FALSE, stamp |-> 0]
NoScan == [at |-> "idle", full |-> FALSE, seen |-> [f \in Files |-> NoFile.stamp], todo |-> {},
           batch |-> {}, left |-> {}, got |-> [f \in Files |-> Malformed], facts |-> [f \in Files |-> Malformed],
           since |-> 0]
None == Malformed

Present == {f \in Files : root[f].there}
\* The copy of f that comes back cannot be taken for something else that has been,
\* or is being, read there, nor for what is still there when its row has gone.
Told(f) ==
  /\ mark[f].indexed /\ mark[f].stamp = aside[f].stamp => rows[f] = aside[f].text /\ spans[f] = aside[f].text
  /\ scan.at \notin {"batch", "read"}

----------------------------------------------------------------------------
(* The files, which anyone may write, remove, move aside and back.          *)

Edit == edits < MaxEdits /\ edits' = edits + 1

WriteFile(f) ==
  /\ Edit
  /\ \E text \in Text(f) : root' = [root EXCEPT ![f] = [there |-> TRUE, stamp |-> edits + 2, text |-> text]]
  /\ UNCHANGED <<aside, workspaceVars>>

RemoveFile(f) ==
  /\ Edit /\ f \in Present /\ root' = [root EXCEPT ![f].there = FALSE]
  /\ aside' = [aside EXCEPT ![f] = root[f]]
  /\ UNCHANGED workspaceVars

\* A file that comes back keeps its time: an index that has met the path without
\* it, or has read something else there, still holds the watermark of the file.
ReturnFile(f) ==
  /\ Edit /\ aside[f].there /\ root[f] # aside[f]
  /\ root' = [root EXCEPT ![f] = aside[f]]
  /\ aside' = [aside EXCEPT ![f] = NoFile]
  /\ whole' = (whole /\ Told(f))
  /\ UNCHANGED <<mark, rows, spans, edges, scan>>

----------------------------------------------------------------------------
(* A pass.                                                                  *)

\* isUnchanged: the watermark is of this stamp, and of a file that was indexed.
Unchanged(f, seen) == mark[f].indexed /\ mark[f].stamp = seen[f]

StartScan(full) ==
  /\ scan.at = "idle"
  /\ scan' = [NoScan EXCEPT !.at = IF full THEN "reset" ELSE "scan", !.full = full]
  /\ UNCHANGED <<mark, rows, spans, edges, whole>>

\* The reset of what the two halves share, and then of the workspace's own tables.
ResetShared ==
  /\ scan.at = "reset"
  /\ spans' = [f \in Files |-> None] /\ edges' = {}
  /\ scan' = [scan EXCEPT !.at = "own"]
  /\ UNCHANGED <<mark, rows, whole>>

\* Mutant: the rows go, and the watermarks stay.
RewindNot(m) == m
\* rewind: the offset goes, the size and the time stay.
Rewind(m) == [m EXCEPT !.indexed = FALSE]
ResetOwn ==
  /\ scan.at = "own"
  /\ rows' = [f \in Files |-> None] /\ mark' = [f \in Files |-> Rewind(mark[f])]
  /\ scan' = [scan EXCEPT !.at = "scan"] /\ whole' = TRUE
  /\ UNCHANGED <<spans, edges>>

\* Every directory is listed and every file is asked for its size and time; a
\* watermark is made for each that is met, and those that differ are to be read.
Meet(met) ==
  /\ scan.at = "scan"
  /\ LET seen == [f \in Files |-> IF f \in met THEN root[f].stamp ELSE 0]
     IN  /\ scan' = [scan EXCEPT !.at = "batch", !.seen = seen, !.since = edits,
                       !.todo = {f \in met : scan.full \/ ~Unchanged(f, seen)}]
         /\ mark' = [f \in Files |-> [mark[f] EXCEPT !.there = @ \/ f \in met]]
  /\ UNCHANGED <<rows, spans, edges, whole>>

Scan == Meet(Present)
\* A directory that cannot be listed is taken for an empty one, and a file that
\* cannot be asked for one that is not there.
ScanMisses ==
  /\ Edit /\ UNCHANGED <<root, aside>>
  /\ \E met \in SUBSET Present : met # Present /\ Meet(met)

\* The files whose turn comes next.
Soonest(n, files) == {f \in files : Cardinality({g \in files : Turn(g) < Turn(f)}) < n}

NextBatch ==
  /\ scan.at = "batch" /\ scan.todo # {}
  /\ LET batch == Soonest(Batch, scan.todo)
     IN  scan' = [scan EXCEPT !.at = "read", !.todo = @ \ batch, !.batch = batch, !.left = batch, !.got = NoScan.got]
  /\ UNCHANGED <<mark, rows, spans, edges, whole>>

\* The files of a batch are read in any order; one that does not parse, or that
\* has gone since, is a failed attempt.
Read(f, text) ==
  /\ scan.at = "read" /\ f \in scan.left
  /\ scan' = [scan EXCEPT !.left = @ \ {f}, !.got[f] = text]
  /\ UNCHANGED <<mark, rows, spans, edges, whole>>

ReadFile(f) == Read(f, IF f \in Present THEN root[f].text ELSE Malformed)
\* So is one that cannot be read.
ReadFails(f) == Edit /\ UNCHANGED <<root, aside>> /\ Read(f, Malformed)

\* A failed attempt leaves the watermark where it was; any other takes it to the
\* stamp that the scan saw.
Advanced(f) == IF scan.got[f].parses THEN [there |-> TRUE, indexed |-> TRUE, stamp |-> scan.seen[f]] ELSE mark[f]

\* The purge that comes first, and the spans of what was read.
Indexed(f) == scan.got[f]

\* One transaction: rows and spans of every file of the batch are replaced, and
\* those of a failed attempt are gone.
ApplyBatch ==
  /\ scan.at = "read" /\ scan.left = {}
  /\ rows' = [f \in Files |-> IF f \in scan.batch THEN scan.got[f] ELSE rows[f]]
  /\ spans' = [f \in Files |-> IF f \in scan.batch THEN Indexed(f) ELSE spans[f]]
  /\ mark' = [f \in Files |-> IF f \in scan.batch THEN Advanced(f) ELSE mark[f]]
  /\ scan' = [scan EXCEPT !.at = "batch", !.batch = {}, !.got = NoScan.got]
  /\ UNCHANGED <<edges, whole>>

\* A file that the scan has not seen: its row is deleted, then its spans and then
\* its watermark, each for good as soon as it is done.
Vanished == {f \in Files : mark[f].there /\ scan.seen[f] = 0}

StartRemoving ==
  /\ scan.at = "batch" /\ scan.todo = {} /\ scan' = [scan EXCEPT !.at = "vanish"]
  /\ UNCHANGED <<mark, rows, spans, edges, whole>>

PurgeRow(f) ==
  /\ scan.at = "vanish" /\ f \in Vanished
  /\ rows' = [rows EXCEPT ![f] = None] /\ scan' = [scan EXCEPT !.at = "purge", !.batch = {f}]
  /\ UNCHANGED <<mark, spans, edges, whole>>

PurgeSpans ==
  /\ scan.at = "purge"
  /\ spans' = [f \in Files |-> IF f \in scan.batch THEN None ELSE spans[f]]
  /\ scan' = [scan EXCEPT !.at = "forget"]
  /\ UNCHANGED <<mark, rows, edges, whole>>

ForgetMark ==
  /\ scan.at = "forget"
  /\ mark' = [f \in Files |-> IF f \in scan.batch THEN NoMark ELSE mark[f]]
  /\ scan' = [scan EXCEPT !.at = "vanish", !.batch = {}]
  /\ UNCHANGED <<rows, spans, edges, whole>>

\* Tags as the rows have them, bodies as they are on disk by now, which is nothing
\* for a note that has gone, or that cannot be read.
Collect(met) ==
  /\ scan.at = "vanish" /\ Vanished = {}
  /\ scan' = [scan EXCEPT !.at = "edges", !.seen = NoScan.seen, !.facts = [f \in Files |->
                [rows[f] EXCEPT !.names = IF f \in met THEN root[f].text.names ELSE {}]]]
  /\ UNCHANGED <<mark, rows, spans, edges, whole>>

CollectFacts == Collect(Present)
CollectMisses ==
  /\ Edit /\ UNCHANGED <<root, aside>>
  /\ \E met \in SUBSET Present : met # Present /\ Collect(met)

----------------------------------------------------------------------------
(* The relations, a function of the rows and of the facts.                  *)

Held(row) == {[of |-> InitiativeOf[f], relation |-> "holds", to |-> RefOf[f]] : f \in {g \in Files : row[g] # None}}

Mentioned(row, facts) ==
  UNION {{[of |-> RefOf[n], relation |-> "mentions", to |-> r] :
             r \in facts[n].names \cap {RefOf[f] : f \in {g \in Files : row[g] # None}}} :
           n \in {m \in Notes : row[m] # None}}

\* (The cap on how many notes may carry a tag that relates them is left out.)
Shared(row, facts) ==
  {[of |-> RefOf[p[1]], relation |-> "shares_tag", to |-> RefOf[p[2]]] :
     p \in {q \in Notes \X Notes :
              /\ row[q[1]] # None /\ row[q[2]] # None
              /\ InitiativeOf[q[1]] # InitiativeOf[q[2]]
              /\ facts[q[1]].tags \cap facts[q[2]].tags # {}}}

Derived(row, facts) == Held(row) \cup Mentioned(row, facts) \cup Shared(row, facts)

RebuildEdges ==
  /\ scan.at = "edges"
  /\ edges' = Derived(rows, scan.facts)
  /\ scan' = [scan EXCEPT !.at = "done", !.facts = NoScan.facts]
  /\ UNCHANGED <<mark, rows, spans, whole>>

EndScan == scan.at = "done" /\ scan' = NoScan /\ UNCHANGED <<mark, rows, spans, edges, whole>>

\* A kill between the two resets leaves rows without their spans, and one between
\* the three deletions spans or a watermark without the row: the next pass finishes
\* what was begun, unless the file has come back as the watermark has it.
KillScan ==
  /\ Edit /\ scan.at # "idle" /\ scan' = NoScan
  /\ whole' = (/\ whole
               /\ scan.at = "own" => \A f \in Files : rows[f] = None
               /\ scan.at \in {"purge", "forget"} =>
                    \A f \in scan.batch \cap Present : ~Unchanged(f, [g \in Files |-> root[g].stamp]))
  /\ UNCHANGED <<root, aside, mark, rows, spans, edges>>

----------------------------------------------------------------------------
WorkspaceInit ==
  /\ \E said \in StartTexts : root = [f \in Files |-> [there |-> TRUE, stamp |-> 1, text |-> said[f]]]
  /\ aside = [f \in Files |-> NoFile] /\ edits = 0
  /\ mark = [f \in Files |-> NoMark]
  /\ rows = [f \in Files |-> None] /\ spans = [f \in Files |-> None] /\ edges = {}
  /\ scan = NoScan /\ whole = TRUE

PassStep ==
  \/ ResetShared \/ ResetOwn \/ Scan \/ NextBatch \/ ApplyBatch \/ StartRemoving \/ CollectFacts
  \/ PurgeSpans \/ ForgetMark \/ RebuildEdges \/ EndScan
  \/ \E f \in Files : ReadFile(f) \/ PurgeRow(f)

WorkspaceNext ==
  \/ (PassStep \/ \E full \in BOOLEAN : StartScan(full)) /\ UNCHANGED filesVars
  \/ KillScan \/ ScanMisses \/ CollectMisses
  \/ \E f \in Files : WriteFile(f) \/ RemoveFile(f) \/ ReturnFile(f) \/ ReadFails(f)

----------------------------------------------------------------------------
(* Properties.                                                              *)

\* What the files say, without an index, and what it makes of two names.
Said == [f \in Files |-> IF f \in Present THEN root[f].text ELSE None]
Relates(of, relation, to) ==
  \E f \in Files : Said[f] # None /\ to = RefOf[f] /\
    CASE relation = "holds" -> of = InitiativeOf[f]
      [] relation = "mentions" -> \E p \in Notes : of = RefOf[p] /\ to \in Said[p].names
      [] relation = "shares_tag" ->
           \E p \in Notes : /\ of = RefOf[p] /\ InitiativeOf[p] # InitiativeOf[f]
                            /\ Said[p].tags \cap Said[f].tags # {}

\* A pass during which nothing changed or failed leaves exactly what a rebuild would, however
\* the files came to be as they are, wherever earlier passes were killed and whatever they
\* could not list or read.  Not even while a
\* pass runs, or after a kill, is a span found beside a row that was made of another text;
\* and one whose row has gone still has its watermark, by which a pass finds it to delete
\* or to replace (refreshWorkspace, removeVanished, apply).
Converged ==
  /\ \A f \in Files : spans[f] # None => spans[f] = rows[f] \/ (rows[f] = None /\ mark[f].there)
  /\ scan.at = "done" /\ scan.since = edits /\ whole =>
       /\ rows = Said /\ spans = Said
       /\ \A of \in Range(InitiativeOf) \cup Range(RefOf), to \in Range(RefOf), relation \in {"holds", "mentions", "shares_tag"} :
            [of |-> of, relation |-> relation, to |-> to] \in edges <=> Relates(of, relation, to)
=============================================================================
