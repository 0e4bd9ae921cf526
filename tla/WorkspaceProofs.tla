-------------------------- MODULE WorkspaceProofs --------------------------
(***************************************************************************)
(* Two that keep something about the records of the workspace that the     *)
(* disk may have left behind.                                              *)
(*                                                                         *)
(* The index of the workspace converges: a pass during which nothing       *)
(* changed leaves what a rebuild would, for any files, texts and batches.  *)
(* A row is what its file says whenever the watermark is of the file as it *)
(* is.  That outlives kills and further changes, since a changed file has  *)
(* a stamp that no watermark can have yet.                                 *)
(*                                                                         *)
(* Tasks do not depend on themselves: a circle of edges is closed only on  *)
(* an index that has missed a write, or by a tag that is not checked, for  *)
(* any plans, edits and initiatives.  What a call has in its index is as   *)
(* on disk until somebody else writes, also while it runs the lines of one *)
(* task and when their write fails; and edges that do not lead back to     *)
(* where they start close nothing.                                         *)
(*                                                                         *)
(* A plan that has ended well says how the tasks are.  Whatever runs of it *)
(* were killed, failed or are under way, every task is as it was but for   *)
(* what some of the operations say; the last operation on each part of a   *)
(* task decides, so a run of all of them leaves what they say whatever     *)
(* other runs had left of it.                                              *)
(***************************************************************************)
EXTENDS WorkspaceIndex, TaskPlans, FiniteSetTheorems, WellFoundedInduction, TLAPS

----------------------------------------------------------------------------
(* The inductive invariant.                                                 *)

Refs == Range(RefOf)
Facts == [parses : BOOLEAN, names : SUBSET Refs, tags : SUBSET NoteTags]
FileType == [there : BOOLEAN, stamp : Nat, text : Facts]
Stages == {"idle", "reset", "own", "scan", "batch", "read", "vanish", "purge", "forget", "edges", "done"}

RootTypeOK ==
  /\ edits \in Nat
  /\ root \in [Files -> FileType] /\ aside \in [Files -> FileType]
  /\ \A f \in Files : root[f].text \in Text(f) /\ aside[f].text \in Text(f)

IndexTypeOK ==
  /\ mark \in [Files -> [there : BOOLEAN, indexed : BOOLEAN, stamp : Nat]]
  /\ rows \in [Files -> Facts] /\ spans \in [Files -> Facts]
  /\ whole \in BOOLEAN

ScanTypeOK ==
  scan \in [at : Stages, full : BOOLEAN, seen : [Files -> Nat], todo : SUBSET Files, batch : SUBSET Files,
            left : SUBSET Files, got : [Files -> Facts], facts : [Files -> Facts], since : Nat]

\* No stamp is of the future, and a file that is there has one.
StampsPast ==
  /\ \A f \in Files : root[f].stamp <= edits + 1 /\ aside[f].stamp <= edits + 1
  /\ \A f \in Files : mark[f].stamp <= edits + 1 /\ scan.seen[f] <= edits + 1
  /\ \A f \in Files : root[f].there => root[f].stamp >= 1
  /\ \A f \in Files : aside[f].there => aside[f].stamp >= 1
  /\ scan.since <= edits

\* A watermark that is of the file as it is tells that the row is, too, and that the
\* spans are what the row is, unless the file is being deleted.
Deleting == IF scan.at \in {"purge", "forget"} THEN scan.batch ELSE {}
MarksTrue ==
  whole => \A f \in Present \ Deleting :
             Unchanged(f, [g \in Files |-> root[g].stamp]) =>
               rows[f] = root[f].text /\ (scan.at # "own" => spans[f] = root[f].text)

\* There is a batch while it is read, and it is what was taken off the list; or the
\* file that is being deleted.
BatchFits ==
  /\ scan.at \notin {"read", "purge", "forget"} => scan.batch = {}
  /\ \A f \in Deleting : /\ mark[f].there /\ scan.seen[f] = 0 /\ rows[f] = None
                         /\ scan.at = "forget" => spans[f] = None
  /\ scan.at \notin {"batch", "read"} => scan.todo = {}
  /\ scan.todo \cap scan.batch = {}

\* The files that are still to be read are those whose watermark is not theirs.
DueFiles == scan.todo \cup scan.batch
DueDiffer ==
  scan.at \in {"batch", "read"} =>
    /\ \A f \in DueFiles : mark[f].there
    /\ whole => \A f \in DueFiles \cap Present : mark[f].indexed => mark[f].stamp # root[f].stamp

\* What was read of a file that still has the stamp the scan saw is what it says, or
\* nothing, after a failure.
GotTrue ==
  scan.at = "read" /\ whole =>
    \A f \in (scan.batch \ scan.left) \cap Present :
      root[f].stamp = scan.seen[f] =>
        scan.got[f] = root[f].text \/ (~scan.got[f].parses /\ scan.since # edits)

RowsMarked == \A f \in Files : rows[f] # None => mark[f].there

SpansStand ==
  /\ \A f \in Files : spans[f] # None => spans[f] = rows[f] \/ (rows[f] = None /\ mark[f].there)
  /\ scan.at = "own" => \A f \in Files : spans[f] = None

FullAnew == scan.at = "scan" /\ scan.full => \A f \in Files : ~mark[f].indexed

\* How far a pass has come, as long as nothing has changed since its scan.
Quiet == scan.since = edits /\ whole
Progressing ==
  Quiet =>
    /\ scan.at \in {"batch", "read", "vanish", "purge", "forget"} =>
         /\ \A f \in Files : scan.seen[f] = IF f \in Present THEN root[f].stamp ELSE 0
         /\ \A f \in Present : f \notin DueFiles \/ scan.at \notin {"batch", "read"} =>
                                rows[f] = root[f].text /\ spans[f] = root[f].text
    /\ scan.at \in {"edges", "done"} => rows = Said /\ spans = Said
    /\ scan.at = "edges" => scan.facts = Said
    /\ scan.at = "done" => edges = Derived(Said, Said)

WorkspaceInv ==
  /\ RootTypeOK /\ IndexTypeOK /\ ScanTypeOK /\ BatchFits
  /\ StampsPast /\ MarksTrue /\ DueDiffer /\ GotTrue /\ RowsMarked /\ SpansStand /\ FullAnew /\ Progressing

\* The behaviours of the index and of the files beneath it.
allVars == <<filesVars, workspaceVars>>
WorkspaceSpec == WorkspaceInit /\ [][WorkspaceNext]_allVars

\* What a file may say is a set of facts, and what does not parse says nothing.
LEMMA TextsAreFacts == \A f \in Files : Malformed \in Text(f) /\ Text(f) \subseteq Facts
<1>1. Malformed \in Facts
  BY DEF Malformed, Facts
<1>2. {RefOf[g] : g \in Files \ Notes} \subseteq Refs
  BY WorkspaceAssumption DEF Refs, Range
<1>3. [parses : {TRUE}, names : SUBSET {RefOf[g] : g \in Files \ Notes}, tags : SUBSET NoteTags] \subseteq Facts
  BY <1>2 DEF Facts
<1>4. [parses : {TRUE}, names : {{}}, tags : {{}}] \subseteq Facts
  BY DEF Facts
<1> QED
  BY <1>1, <1>3, <1>4 DEF Text

LEMMA NoScanTyped ==
  /\ NoScan \in [at : Stages, full : BOOLEAN, seen : [Files -> Nat], todo : SUBSET Files, batch : SUBSET Files,
                 left : SUBSET Files, got : [Files -> Facts], facts : [Files -> Facts], since : Nat]
  /\ NoScan.at = "idle" /\ ~NoScan.full /\ NoScan.since = 0
  /\ NoScan.todo = {} /\ NoScan.batch = {}
  /\ \A f \in Files : NoScan.seen[f] = 0
<1>1. Malformed \in Facts
  BY DEF Malformed, Facts
<1> QED
  BY <1>1 DEF NoScan, Stages, NoFile

LEMMA WorkspaceStarts == WorkspaceInit => WorkspaceInv
<1> SUFFICES ASSUME WorkspaceInit PROVE WorkspaceInv
  OBVIOUS
<1>1. PICK said \in StartTexts : root = [f \in Files |-> [there |-> TRUE, stamp |-> 1, text |-> said[f]]]
  BY DEF WorkspaceInit
<1>2. \A f \in Files : said[f] \in Text(f) /\ said[f] \in Facts
  BY <1>1, TextsAreFacts, WorkspaceAssumption
<1>3. /\ aside = [f \in Files |-> NoFile] /\ edits = 0
      /\ mark = [f \in Files |-> NoMark]
      /\ rows = [f \in Files |-> None] /\ spans = [f \in Files |-> None]
      /\ scan = NoScan /\ whole = TRUE
  BY DEF WorkspaceInit
<1>4. Malformed \in Facts
  BY DEF Malformed, Facts
<1>5. NoFile \in FileType
  BY <1>4 DEF NoFile, FileType
<1>6. RootTypeOK
  <2>1. root \in [Files -> FileType]
    BY <1>1, <1>2 DEF FileType
  <2>2. aside \in [Files -> FileType] /\ \A f \in Files : aside[f].text = Malformed
    BY <1>3, <1>5 DEF NoFile
  <2> QED
    BY <1>1, <1>2, <1>3, <2>1, <2>2, TextsAreFacts DEF RootTypeOK
<1>7. IndexTypeOK
  BY <1>3, <1>4 DEF IndexTypeOK, NoMark, None
<1>8. ScanTypeOK /\ BatchFits /\ scan.at = "idle" /\ scan.since = 0 /\ \A f \in Files : scan.seen[f] = 0
  BY <1>3, NoScanTyped DEF ScanTypeOK, BatchFits, Deleting
<1>9. StampsPast
  <2>1. \A f \in Files : root[f].stamp = 1 /\ aside[f].stamp = 0 /\ ~aside[f].there /\ mark[f].stamp = 0
    BY <1>1, <1>3 DEF NoFile, NoMark
  <2> QED
    BY <1>3, <1>8, <2>1 DEF StampsPast
<1>10. MarksTrue
  BY <1>3 DEF MarksTrue, Unchanged, NoMark, Present, Deleting
<1>11. RowsMarked /\ SpansStand
  BY <1>3 DEF RowsMarked, SpansStand
<1> QED
  BY <1>6, <1>7, <1>8, <1>9, <1>10, <1>11 DEF WorkspaceInv, DueDiffer, GotTrue, FullAnew, Progressing

----------------------------------------------------------------------------
(* Changes of the files, which count, and kills.                            *)

\* After a change nothing is said any more of a pass that has scanned before it.
LEMMA Disquiets == ASSUME WorkspaceInv, Edit, scan'.since = scan.since \/ scan'.since = 0 PROVE Progressing'
<1>1. edits' = edits + 1 /\ edits \in Nat /\ scan.since <= edits /\ scan.since \in Nat
  BY DEF WorkspaceInv, RootTypeOK, StampsPast, Edit, ScanTypeOK
<1> QED
  BY <1>1 DEF Progressing, Quiet

\* A change of one file, to a text with a stamp that is new, to nothing, or back to
\* what it was when the index can tell.
LEMMA FileChanges ==
  ASSUME WorkspaceInv, Edit, NEW f \in Files, RootTypeOK',
         \A g \in Files \ {f} : root'[g] = root[g] /\ aside'[g] = aside[g],
         UNCHANGED <<mark, rows, spans, edges, scan>>, whole' \in BOOLEAN, whole' => whole,
         root'[f].stamp <= edits + 2 /\ aside'[f].stamp <= edits + 2,
         root'[f].there => root'[f].stamp >= 1,
         aside'[f].there => aside'[f].stamp >= 1,
         whole' /\ root'[f].there =>
           \/ root'[f].stamp = edits + 2
           \/ /\ scan.at \notin {"batch", "read"}
              /\ mark[f].indexed /\ mark[f].stamp = root'[f].stamp =>
                   rows[f] = root'[f].text /\ spans[f] = root'[f].text
  PROVE  WorkspaceInv'
<1>1. edits' = edits + 1 /\ edits \in Nat
  BY DEF WorkspaceInv, RootTypeOK, Edit
<1>2. IndexTypeOK' /\ ScanTypeOK' /\ BatchFits'
  BY DEF WorkspaceInv, IndexTypeOK, ScanTypeOK, BatchFits, Deleting
<1>3. /\ \A g \in Files : mark[g].stamp \in Nat /\ scan.seen[g] \in Nat /\ root[g].stamp \in Nat /\ aside[g].stamp \in Nat
      /\ \A g \in Files : root'[g].stamp \in Nat /\ aside'[g].stamp \in Nat
      /\ scan.since \in Nat
  BY DEF WorkspaceInv, IndexTypeOK, ScanTypeOK, RootTypeOK, FileType
<1>4. StampsPast'
  BY <1>1, <1>3 DEF WorkspaceInv, StampsPast
<1>5. mark[f].stamp # edits + 2 /\ scan.seen[f] # edits + 2
  BY <1>1, <1>3 DEF WorkspaceInv, StampsPast
<1>6. MarksTrue'
  BY <1>5 DEF WorkspaceInv, MarksTrue, Unchanged, Present, Deleting
<1>7. DueDiffer'
  BY <1>5 DEF WorkspaceInv, DueDiffer, DueFiles, Present
<1>8. GotTrue'
  <2>1. scan.since # edits'
    BY <1>1, <1>3 DEF WorkspaceInv, StampsPast
  <2> QED
    BY <1>5, <2>1 DEF WorkspaceInv, GotTrue, Present
<1>9. RowsMarked' /\ SpansStand' /\ FullAnew'
  BY DEF WorkspaceInv, RowsMarked, SpansStand, FullAnew
<1> QED
  BY <1>2, <1>4, <1>6, <1>7, <1>8, <1>9, Disquiets DEF WorkspaceInv

LEMMA WriteKeeps == ASSUME WorkspaceInv, NEW f \in Files, WriteFile(f) PROVE WorkspaceInv'
<1>1. PICK text \in Text(f) : root' = [root EXCEPT ![f] = [there |-> TRUE, stamp |-> edits + 2, text |-> text]]
  BY DEF WriteFile
<1>2. Edit /\ UNCHANGED <<aside, mark, rows, spans, edges, scan, whole>>
  BY DEF WriteFile, workspaceVars
<1>3. RootTypeOK /\ IndexTypeOK /\ edits' = edits + 1 /\ StampsPast
  BY <1>2 DEF WorkspaceInv, Edit
<1>4. text \in Facts
  BY <1>1, TextsAreFacts
<1>5. root' \in [Files -> FileType]
  BY <1>1, <1>3, <1>4 DEF RootTypeOK, FileType
<1>6. /\ root'[f].text = text /\ root'[f].stamp = edits + 2
      /\ \A g \in Files \ {f} : root'[g] = root[g]
  BY <1>1, <1>3 DEF RootTypeOK
<1>7. RootTypeOK'
  BY <1>1, <1>2, <1>3, <1>5, <1>6 DEF RootTypeOK
<1>8. whole' \in BOOLEAN /\ aside'[f].stamp <= edits + 2 /\ (aside'[f].there => aside'[f].stamp >= 1)
      /\ root'[f].stamp <= edits + 2 /\ root'[f].stamp >= 1
  BY <1>2, <1>3, <1>6 DEF IndexTypeOK, StampsPast, RootTypeOK, FileType
<1> QED
  BY <1>2, <1>6, <1>7, <1>8, FileChanges

LEMMA RemoveKeeps == ASSUME WorkspaceInv, NEW f \in Files, RemoveFile(f) PROVE WorkspaceInv'
<1>1. /\ Edit /\ f \in Present /\ root' = [root EXCEPT ![f].there = FALSE]
      /\ aside' = [aside EXCEPT ![f] = root[f]]
      /\ UNCHANGED <<mark, rows, spans, edges, scan, whole>>
  BY DEF RemoveFile, workspaceVars
<1>2. RootTypeOK /\ IndexTypeOK /\ edits' = edits + 1 /\ StampsPast
  BY <1>1 DEF WorkspaceInv, Edit
<1>3. root' \in [Files -> FileType] /\ aside' \in [Files -> FileType]
  BY <1>1, <1>2 DEF RootTypeOK, FileType
<1>4. /\ ~root'[f].there /\ root'[f].stamp = root[f].stamp /\ root'[f].text = root[f].text
      /\ aside'[f] = root[f]
      /\ \A g \in Files \ {f} : root'[g] = root[g] /\ aside'[g] = aside[g]
  BY <1>1, <1>2 DEF RootTypeOK, FileType
<1>5. RootTypeOK'
  BY <1>2, <1>3, <1>4 DEF RootTypeOK
<1>6. /\ whole' \in BOOLEAN /\ root'[f].stamp <= edits + 2 /\ aside'[f].stamp <= edits + 2
      /\ (aside'[f].there => aside'[f].stamp >= 1)
  BY <1>1, <1>2, <1>4 DEF IndexTypeOK, StampsPast, RootTypeOK, FileType
<1> QED
  BY <1>1, <1>4, <1>5, <1>6, FileChanges

LEMMA ReturnKeeps == ASSUME WorkspaceInv, NEW f \in Files, ReturnFile(f) PROVE WorkspaceInv'
<1>1. /\ Edit /\ aside[f].there
      /\ root' = [root EXCEPT ![f] = aside[f]]
      /\ aside' = [aside EXCEPT ![f] = NoFile]
      /\ whole' = (whole /\ Told(f))
      /\ UNCHANGED <<mark, rows, spans, edges, scan>>
  BY DEF ReturnFile
<1>2. RootTypeOK /\ IndexTypeOK /\ edits' = edits + 1 /\ StampsPast
  BY <1>1 DEF WorkspaceInv, Edit
<1>3. NoFile \in FileType /\ NoFile.text \in Text(f)
  BY TextsAreFacts DEF NoFile, FileType
<1>4. root' \in [Files -> FileType] /\ aside' \in [Files -> FileType]
  BY <1>1, <1>2, <1>3 DEF RootTypeOK
<1>5. /\ root'[f] = aside[f] /\ aside'[f] = NoFile
      /\ \A g \in Files \ {f} : root'[g] = root[g] /\ aside'[g] = aside[g]
  BY <1>1, <1>2 DEF RootTypeOK
<1>6. RootTypeOK'
  BY <1>2, <1>3, <1>4, <1>5 DEF RootTypeOK
<1>7. /\ whole' \in BOOLEAN /\ root'[f].stamp <= edits + 2 /\ aside'[f].stamp <= edits + 2
      /\ ~aside'[f].there /\ root'[f].stamp >= 1 /\ (whole' => whole)
  BY <1>1, <1>2, <1>5 DEF IndexTypeOK, StampsPast, RootTypeOK, FileType, NoFile
<1>8. whole' => /\ scan.at \notin {"batch", "read"}
                /\ mark[f].indexed /\ mark[f].stamp = root'[f].stamp =>
                     rows[f] = root'[f].text /\ spans[f] = root'[f].text
  BY <1>1, <1>5 DEF Told
<1> QED
  BY <1>1, <1>5, <1>6, <1>7, <1>8, FileChanges

\* A kill: the pass is forgotten, and what is in the index stays.
LEMMA KillKeeps == WorkspaceInv /\ KillScan => WorkspaceInv'
<1> SUFFICES ASSUME WorkspaceInv, KillScan PROVE WorkspaceInv'
  OBVIOUS
<1>1. /\ Edit /\ scan' = NoScan /\ UNCHANGED <<root, aside, mark, rows, spans, edges>>
      /\ whole' => /\ whole
                   /\ scan.at = "own" => \A f \in Files : rows[f] = None
                   /\ \A f \in Deleting \cap Present : ~Unchanged(f, [g \in Files |-> root[g].stamp])
      /\ whole' \in BOOLEAN
  BY DEF KillScan, Deleting
<1>2. RootTypeOK' /\ IndexTypeOK' /\ edits' = edits + 1 /\ edits \in Nat
  BY <1>1 DEF WorkspaceInv, RootTypeOK, IndexTypeOK, Edit
<1>3. ScanTypeOK' /\ BatchFits' /\ scan'.at = "idle" /\ scan'.since = 0 /\ \A f \in Files : scan'.seen[f] = 0
  BY <1>1, NoScanTyped DEF ScanTypeOK, BatchFits, Deleting
<1>4. \A f \in Files : mark[f].stamp \in Nat /\ root[f].stamp \in Nat /\ aside[f].stamp \in Nat
  BY DEF WorkspaceInv, IndexTypeOK, RootTypeOK, FileType
<1>5. StampsPast'
  BY <1>1, <1>2, <1>3, <1>4 DEF WorkspaceInv, StampsPast
<1>6. MarksTrue'
  <2> SUFFICES ASSUME whole', NEW f \in Present, Unchanged(f, [g \in Files |-> root[g].stamp])
               PROVE  rows[f] = root[f].text /\ spans[f] = root[f].text
    BY <1>1 DEF MarksTrue, Unchanged, Present, Deleting
  <2>1. f \in Files /\ f \notin Deleting
    BY <1>1 DEF Present
  <2>2. rows[f] = root[f].text /\ (scan.at # "own" => spans[f] = root[f].text)
    BY <1>1, <2>1 DEF WorkspaceInv, MarksTrue, Deleting
  <2>3. scan.at = "own" => rows[f] = None /\ spans[f] = None
    BY <1>1, <2>1 DEF WorkspaceInv, SpansStand
  <2> QED
    BY <2>2, <2>3
<1>7. RowsMarked'
  BY <1>1 DEF WorkspaceInv, RowsMarked
<1>8. SpansStand'
  BY <1>1, <1>3 DEF WorkspaceInv, SpansStand
<1> QED
  BY <1>1, <1>2, <1>3, <1>5, <1>6, <1>7, <1>8, Disquiets DEF WorkspaceInv, DueDiffer, GotTrue, FullAnew

----------------------------------------------------------------------------
(* The steps of a pass, between which the files stay as they are.           *)

LEMMA FilesStay ==
  ASSUME WorkspaceInv, UNCHANGED filesVars
  PROVE  /\ RootTypeOK' /\ edits' = edits /\ root' = root /\ aside' = aside
         /\ Present' = Present /\ Said' = Said /\ Present \subseteq Files
         /\ \A f \in Files : root[f].stamp \in Nat /\ aside[f].stamp \in Nat /\ mark[f].stamp \in Nat /\ scan.seen[f] \in Nat
         /\ edits \in Nat
<1>1. edits' = edits /\ root' = root /\ aside' = aside
  BY DEF filesVars
<1> QED
  BY <1>1 DEF WorkspaceInv, RootTypeOK, IndexTypeOK, ScanTypeOK, FileType, Present, Said

\* So they do when the disk fails, which counts.
LEMMA DiskStays ==
  ASSUME WorkspaceInv, UNCHANGED <<root, aside>>, edits' = edits \/ Edit
  PROVE  /\ RootTypeOK' /\ root' = root /\ aside' = aside
         /\ Present' = Present /\ Said' = Said /\ Present \subseteq Files
         /\ \A f \in Files : root[f].stamp \in Nat /\ aside[f].stamp \in Nat /\ mark[f].stamp \in Nat /\ scan.seen[f] \in Nat
         /\ edits \in Nat /\ (edits' = edits \/ edits' = edits + 1) /\ scan.since \in Nat /\ scan.since <= edits
<1>1. edits' = edits \/ edits' = edits + 1
  BY DEF Edit
<1> QED
  BY <1>1 DEF WorkspaceInv, RootTypeOK, IndexTypeOK, ScanTypeOK, FileType, Present, Said, StampsPast

LEMMA StartScanKeeps ==
  ASSUME WorkspaceInv, NEW full \in BOOLEAN, StartScan(full), UNCHANGED filesVars
  PROVE  WorkspaceInv'
<1>1. /\ scan.at = "idle"
      /\ scan' = [NoScan EXCEPT !.at = IF full THEN "reset" ELSE "scan", !.full = full]
      /\ UNCHANGED <<mark, rows, spans, edges, whole>>
  BY DEF StartScan
<1>2. /\ ScanTypeOK' /\ scan'.at = (IF full THEN "reset" ELSE "scan") /\ (scan'.full <=> full)
      /\ scan'.since = 0 /\ BatchFits' /\ \A f \in Files : scan'.seen[f] = 0
  BY <1>1, NoScanTyped DEF ScanTypeOK, Stages, BatchFits, Deleting
<1>3. /\ RootTypeOK' /\ edits' = edits /\ root' = root /\ aside' = aside /\ Present' = Present
      /\ edits \in Nat
  BY FilesStay
<1>4. IndexTypeOK'
  BY <1>1 DEF WorkspaceInv, IndexTypeOK
<1>5. StampsPast'
  BY <1>1, <1>2, <1>3 DEF WorkspaceInv, StampsPast
<1>6. MarksTrue' /\ RowsMarked'
  BY <1>1, <1>2, <1>3 DEF WorkspaceInv, MarksTrue, RowsMarked, Unchanged, Deleting
<1>7. SpansStand'
  BY <1>1, <1>2 DEF WorkspaceInv, SpansStand
<1> QED
  BY <1>2, <1>3, <1>4, <1>5, <1>6, <1>7 DEF WorkspaceInv, DueDiffer, GotTrue, FullAnew, Progressing

LEMMA ResetSharedKeeps == WorkspaceInv /\ ResetShared /\ UNCHANGED filesVars => WorkspaceInv'
<1> SUFFICES ASSUME WorkspaceInv, ResetShared, UNCHANGED filesVars PROVE WorkspaceInv'
  OBVIOUS
<1>1. /\ scan.at = "reset" /\ spans' = [f \in Files |-> None] /\ scan' = [scan EXCEPT !.at = "own"]
      /\ UNCHANGED <<mark, rows, whole>>
  BY DEF ResetShared
<1>2. /\ ScanTypeOK' /\ scan'.at = "own" /\ scan'.since = scan.since /\ scan'.seen = scan.seen /\ BatchFits'
  BY <1>1 DEF WorkspaceInv, ScanTypeOK, Stages, BatchFits, Deleting
<1>3. /\ RootTypeOK' /\ edits' = edits /\ root' = root /\ aside' = aside /\ Present' = Present
  BY FilesStay
<1>4. IndexTypeOK' /\ \A f \in Files : spans'[f] = None
  BY <1>1, TextsAreFacts DEF WorkspaceInv, IndexTypeOK, None
<1>5. StampsPast'
  BY <1>1, <1>2, <1>3 DEF WorkspaceInv, StampsPast
<1>6. MarksTrue' /\ RowsMarked'
  BY <1>1, <1>2, <1>3 DEF WorkspaceInv, MarksTrue, RowsMarked, Unchanged, Deleting
<1>7. SpansStand'
  BY <1>2, <1>4 DEF SpansStand
<1> QED
  BY <1>2, <1>3, <1>4, <1>5, <1>6, <1>7 DEF WorkspaceInv, DueDiffer, GotTrue, FullAnew, Progressing

LEMMA ResetOwnKeeps == WorkspaceInv /\ ResetOwn /\ UNCHANGED filesVars => WorkspaceInv'
<1> SUFFICES ASSUME WorkspaceInv, ResetOwn, UNCHANGED filesVars PROVE WorkspaceInv'
  OBVIOUS
<1>1. /\ scan.at = "own" /\ rows' = [f \in Files |-> None] /\ mark' = [f \in Files |-> Rewind(mark[f])]
      /\ scan' = [scan EXCEPT !.at = "scan"] /\ whole' = TRUE /\ UNCHANGED <<spans, edges>>
  BY DEF ResetOwn
<1>2. /\ ScanTypeOK' /\ scan'.at = "scan" /\ scan'.since = scan.since /\ scan'.seen = scan.seen /\ BatchFits'
  BY <1>1 DEF WorkspaceInv, ScanTypeOK, Stages, BatchFits, Deleting
<1>3. /\ RootTypeOK' /\ edits' = edits /\ root' = root /\ aside' = aside /\ Present' = Present /\ Present \subseteq Files
  BY FilesStay
<1>4. IndexTypeOK /\ \A f \in Files : spans[f] = None
  BY <1>1 DEF WorkspaceInv, SpansStand
<1>5. /\ mark' \in [Files -> [there : BOOLEAN, indexed : BOOLEAN, stamp : Nat]]
      /\ \A f \in Files : ~mark'[f].indexed /\ mark'[f].stamp = mark[f].stamp
  BY <1>1, <1>4 DEF IndexTypeOK, Rewind
<1>6. IndexTypeOK'
  BY <1>1, <1>4, <1>5, TextsAreFacts DEF IndexTypeOK, None
<1>7. StampsPast'
  BY <1>2, <1>3, <1>5 DEF WorkspaceInv, StampsPast
<1>8. MarksTrue' /\ RowsMarked' /\ FullAnew'
  BY <1>1, <1>3, <1>5 DEF MarksTrue, RowsMarked, FullAnew, Unchanged, Deleting
<1>9. SpansStand'
  BY <1>1, <1>2, <1>4 DEF SpansStand
<1> QED
  BY <1>2, <1>3, <1>6, <1>7, <1>8, <1>9 DEF WorkspaceInv, DueDiffer, GotTrue, Progressing

LEMMA MeetKeeps ==
  ASSUME WorkspaceInv, NEW met \in SUBSET Present, Meet(met), UNCHANGED <<root, aside>>,
         (edits' = edits /\ met = Present) \/ Edit
  PROVE  WorkspaceInv'
<1> DEFINE stamps == [f \in Files |-> IF f \in met THEN root[f].stamp ELSE 0]
           due == {f \in met : scan.full \/ ~Unchanged(f, stamps)}
<1>1. /\ scan.at = "scan"
      /\ scan' = [scan EXCEPT !.at = "batch", !.seen = stamps, !.since = edits, !.todo = due]
      /\ mark' = [f \in Files |-> [mark[f] EXCEPT !.there = @ \/ f \in met]]
      /\ UNCHANGED <<rows, spans, edges, whole>>
  BY DEF Meet
<1>2. /\ RootTypeOK' /\ root' = root /\ aside' = aside
      /\ Present' = Present /\ Said' = Said /\ Present \subseteq Files /\ met \subseteq Present
      /\ edits \in Nat /\ (edits' = edits \/ edits' = edits + 1)
      /\ \A f \in Files : root[f].stamp \in Nat /\ aside[f].stamp \in Nat /\ mark[f].stamp \in Nat
  BY DiskStays
<1>3. /\ stamps \in [Files -> Nat] /\ due \subseteq Files /\ due \subseteq met
      /\ \A f \in Files : stamps[f] = (IF f \in met THEN root[f].stamp ELSE 0)
      /\ \A f \in met : f \in due <=> scan.full \/ ~Unchanged(f, stamps)
  BY <1>2
<1> HIDE DEF stamps, due
<1>4. /\ ScanTypeOK' /\ scan'.at = "batch" /\ scan'.since = edits /\ scan'.seen = stamps
      /\ scan'.todo = due /\ scan'.batch = {} /\ (scan'.full <=> scan.full)
  BY <1>1, <1>2, <1>3 DEF WorkspaceInv, ScanTypeOK, Stages, BatchFits, Deleting
<1>5. /\ mark' \in [Files -> [there : BOOLEAN, indexed : BOOLEAN, stamp : Nat]]
      /\ \A f \in Files : /\ mark'[f].indexed <=> mark[f].indexed
                          /\ mark'[f].stamp = mark[f].stamp
                          /\ mark'[f].there <=> mark[f].there \/ f \in met
  BY <1>1 DEF WorkspaceInv, IndexTypeOK
<1>6. IndexTypeOK'
  BY <1>1, <1>5 DEF WorkspaceInv, IndexTypeOK
<1>7. StampsPast'
  <2>1. \A f \in Files : root[f].stamp <= edits + 1 /\ mark[f].stamp <= edits + 1
    BY DEF WorkspaceInv, StampsPast
  <2>2. \A f \in Files : stamps[f] <= edits + 1 /\ stamps[f] \in Nat
    BY <1>2, <1>3, <2>1
  <2>3. /\ \A f \in Files : aside[f].stamp <= edits + 1 /\ (aside[f].there => aside[f].stamp >= 1)
        /\ \A f \in Files : root[f].there => root[f].stamp >= 1
    BY DEF WorkspaceInv, StampsPast
  <2>4. scan'.since <= edits' /\ edits + 1 <= edits' + 1 /\ edits' \in Nat
    BY <1>2, <1>4
  <2>5. \A f \in Files : mark'[f].stamp = mark[f].stamp /\ scan'.seen[f] = stamps[f]
    BY <1>4, <1>5
  <2> QED
    BY <1>2, <2>1, <2>2, <2>3, <2>4, <2>5 DEF StampsPast
<1>8. MarksTrue' /\ RowsMarked'
  <2>1. /\ root' = root /\ rows' = rows /\ spans' = spans /\ (whole' <=> whole) /\ Present' = Present
        /\ Present \subseteq Files /\ Deleting = {} /\ Deleting' = {} /\ scan.at # "own" /\ scan'.at # "own"
        /\ \A f \in Files : (mark'[f].indexed <=> mark[f].indexed) /\ mark'[f].stamp = mark[f].stamp
    BY <1>1, <1>2, <1>4, <1>5 DEF Deleting
  <2>2. MarksTrue'
    BY <2>1 DEF WorkspaceInv, MarksTrue, Unchanged
  <2>3. RowsMarked'
    BY <1>1, <1>5 DEF WorkspaceInv, RowsMarked
  <2> QED
    BY <2>2, <2>3
<1>9. SpansStand'
  BY <1>1, <1>4, <1>5 DEF WorkspaceInv, SpansStand
<1>10. BatchFits' /\ DueFiles' = due
  BY <1>4 DEF BatchFits, DueFiles, Deleting
<1>11. DueDiffer'
  <2>1. \A f \in due : mark'[f].there
    BY <1>2, <1>3, <1>5
  <2>2. \A f \in due : mark[f].indexed => mark[f].stamp # root[f].stamp
    <3>1. CASE scan.full
      BY <1>1, <1>2, <1>3, <3>1 DEF WorkspaceInv, FullAnew
    <3>2. CASE ~scan.full
      BY <1>2, <1>3, <3>2 DEF Unchanged
    <3> QED
      BY <3>1, <3>2
  <2> QED
    BY <1>2, <1>3, <1>5, <1>10, <2>1, <2>2 DEF DueDiffer
<1>12. GotTrue' /\ FullAnew'
  BY <1>4 DEF GotTrue, FullAnew
<1>13. whole => \A f \in met : (rows[f] = root[f].text /\ spans[f] = root[f].text) \/ f \in due
  <2>1. \A f \in met : f \notin due => Unchanged(f, [g \in Files |-> root[g].stamp])
    BY <1>2, <1>3 DEF Unchanged
  <2> QED
    BY <1>1, <1>2, <2>1 DEF WorkspaceInv, MarksTrue, Deleting
<1>14. Progressing'
  <2>1. CASE edits' = edits /\ met = Present
    BY <1>1, <1>2, <1>3, <1>4, <1>10, <1>13, <2>1 DEF Progressing, Quiet
  <2>2. CASE Edit
    BY <1>2, <1>4, <2>2 DEF Progressing, Quiet, Edit
  <2> QED
    BY <2>1, <2>2
<1> QED
  BY <1>2, <1>4, <1>6, <1>7, <1>8, <1>9, <1>10, <1>11, <1>12, <1>14 DEF WorkspaceInv

LEMMA ScanKeeps == WorkspaceInv /\ Scan /\ UNCHANGED filesVars => WorkspaceInv'
  BY MeetKeeps DEF Scan, filesVars

LEMMA ScanMissesKeeps == WorkspaceInv /\ ScanMisses => WorkspaceInv'
  BY MeetKeeps DEF ScanMisses

LEMMA NextBatchKeeps == WorkspaceInv /\ NextBatch /\ UNCHANGED filesVars => WorkspaceInv'
<1> SUFFICES ASSUME WorkspaceInv, NextBatch, UNCHANGED filesVars PROVE WorkspaceInv'
  OBVIOUS
<1> DEFINE batch == Soonest(Batch, scan.todo)
<1>1. /\ scan.at = "batch"
      /\ scan' = [scan EXCEPT !.at = "read", !.todo = @ \ batch, !.batch = batch, !.left = batch, !.got = NoScan.got]
      /\ UNCHANGED <<mark, rows, spans, edges, whole>>
  BY DEF NextBatch
<1>2. batch \subseteq scan.todo /\ scan.todo \subseteq Files /\ scan.batch = {}
  BY <1>1 DEF Soonest, WorkspaceInv, ScanTypeOK, BatchFits, Deleting
<1> HIDE DEF batch
<1>3. NoScan.got \in [Files -> Facts]
  BY TextsAreFacts, NoScanTyped
<1>4. /\ ScanTypeOK' /\ scan'.at = "read" /\ scan'.since = scan.since /\ scan'.seen = scan.seen
      /\ scan'.todo = scan.todo \ batch /\ scan'.batch = batch /\ scan'.left = batch
  BY <1>1, <1>2, <1>3 DEF WorkspaceInv, ScanTypeOK, Stages
<1>5. BatchFits' /\ DueFiles' = DueFiles
  BY <1>2, <1>4 DEF BatchFits, DueFiles, Deleting
<1>6. /\ RootTypeOK' /\ edits' = edits /\ root' = root /\ aside' = aside /\ Present' = Present
  BY FilesStay
<1>7. IndexTypeOK' /\ StampsPast'
  BY <1>1, <1>4, <1>6 DEF WorkspaceInv, IndexTypeOK, StampsPast
<1>8. MarksTrue' /\ RowsMarked' /\ SpansStand' /\ FullAnew'
  BY <1>1, <1>4, <1>6 DEF WorkspaceInv, MarksTrue, RowsMarked, Unchanged, SpansStand, FullAnew, Deleting
<1>9. DueDiffer' /\ GotTrue'
  BY <1>1, <1>4, <1>5, <1>6 DEF WorkspaceInv, DueDiffer, GotTrue
<1>10. Progressing'
  BY <1>1, <1>4, <1>5, <1>6 DEF WorkspaceInv, Progressing, Quiet
<1> QED
  BY <1>4, <1>5, <1>6, <1>7, <1>8, <1>9, <1>10 DEF WorkspaceInv

LEMMA GotKeeps ==
  ASSUME WorkspaceInv, NEW f \in Files, NEW text \in Facts, Read(f, text), UNCHANGED <<root, aside>>,
         \/ edits' = edits /\ (f \in Present => text = root[f].text)
         \/ Edit /\ ~text.parses
  PROVE  WorkspaceInv'
<1>1. /\ scan.at = "read" /\ f \in scan.left
      /\ scan' = [scan EXCEPT !.left = @ \ {f}, !.got[f] = text]
      /\ UNCHANGED <<mark, rows, spans, edges, whole>>
  BY DEF Read
<1>4. /\ ScanTypeOK' /\ scan'.at = "read" /\ scan'.since = scan.since /\ scan'.seen = scan.seen
      /\ scan'.todo = scan.todo /\ scan'.batch = scan.batch /\ scan'.left = scan.left \ {f}
      /\ scan'.got[f] = text /\ \A g \in Files \ {f} : scan'.got[g] = scan.got[g]
  BY <1>1 DEF WorkspaceInv, ScanTypeOK, Stages
<1>5. BatchFits' /\ DueFiles' = DueFiles
  BY <1>1, <1>4 DEF WorkspaceInv, BatchFits, DueFiles, Deleting
<1>6. /\ RootTypeOK' /\ root' = root /\ aside' = aside /\ Present' = Present /\ Present \subseteq Files
      /\ edits \in Nat /\ (edits' = edits \/ edits' = edits + 1) /\ scan.since \in Nat /\ scan.since <= edits
      /\ \A g \in Files : root[g].stamp \in Nat /\ aside[g].stamp \in Nat /\ mark[g].stamp \in Nat /\ scan.seen[g] \in Nat
  BY DiskStays
<1>7. IndexTypeOK' /\ StampsPast'
  BY <1>1, <1>4, <1>6 DEF WorkspaceInv, IndexTypeOK, StampsPast
<1>8. MarksTrue' /\ RowsMarked' /\ SpansStand' /\ FullAnew'
  <2>1. Deleting' = {} /\ Deleting = {}
    BY <1>1, <1>4 DEF Deleting
  <2>2. MarksTrue'
    <3>1. MarksTrue
      BY DEF WorkspaceInv
    <3>2. /\ root' = root /\ Present' = Present /\ scan'.at = scan.at
          /\ mark' = mark /\ rows' = rows /\ spans' = spans /\ whole' = whole
      BY <1>1, <1>4, <1>6
    <3> QED
      BY ONLY <2>1, <3>1, <3>2 DEF MarksTrue, Unchanged
  <2>3. RowsMarked' /\ SpansStand' /\ FullAnew'
    BY <1>1, <1>4 DEF WorkspaceInv, RowsMarked, SpansStand, FullAnew
  <2> QED
    BY <2>2, <2>3
<1>9. DueDiffer'
  BY <1>1, <1>4, <1>5, <1>6 DEF WorkspaceInv, DueDiffer
<1>10. GotTrue'
  <2>1. CASE edits' = edits /\ (f \in Present => text = root[f].text)
    BY <1>1, <1>4, <1>6, <2>1 DEF WorkspaceInv, GotTrue
  <2>2. CASE Edit /\ ~text.parses
    <3>1. scan.since # edits'
      BY <1>6, <2>2 DEF Edit
    <3> QED
      BY <1>1, <1>4, <1>6, <2>2, <3>1 DEF WorkspaceInv, GotTrue
  <2> QED
    BY <2>1, <2>2
<1>11. Progressing'
  <2>1. CASE edits' = edits
    BY <1>1, <1>4, <1>5, <1>6, <2>1 DEF WorkspaceInv, Progressing, Quiet
  <2>2. CASE Edit
    BY <1>4, <2>2, Disquiets
  <2> QED
    BY <2>1, <2>2
<1> QED
  BY <1>4, <1>5, <1>6, <1>7, <1>8, <1>9, <1>10, <1>11 DEF WorkspaceInv

LEMMA ReadKeeps == ASSUME WorkspaceInv, NEW f \in Files, ReadFile(f), UNCHANGED filesVars PROVE WorkspaceInv'
<1> DEFINE text == IF f \in Present THEN root[f].text ELSE Malformed
<1>1. Read(f, text)
  BY DEF ReadFile
<1>2. text \in Facts /\ (f \in Present => text = root[f].text)
  BY TextsAreFacts DEF WorkspaceInv, RootTypeOK
<1> HIDE DEF text
<1> QED
  BY <1>1, <1>2, GotKeeps DEF filesVars

LEMMA ReadFailsKeeps == ASSUME WorkspaceInv, NEW f \in Files, ReadFails(f) PROVE WorkspaceInv'
<1>1. Malformed \in Facts /\ ~Malformed.parses
  BY DEF Malformed, Facts
<1> QED
  BY <1>1, GotKeeps DEF ReadFails

\* A file that was read as the scan saw it gets its row and its watermark together; one
\* that was not keeps a watermark that is not its own.
LEMMA ApplyKeeps == WorkspaceInv /\ ApplyBatch /\ UNCHANGED filesVars => WorkspaceInv'
<1> SUFFICES ASSUME WorkspaceInv, ApplyBatch, UNCHANGED filesVars PROVE WorkspaceInv'
  OBVIOUS
<1>1. /\ scan.at = "read" /\ scan.left = {}
      /\ rows' = [f \in Files |-> IF f \in scan.batch THEN scan.got[f] ELSE rows[f]]
      /\ spans' = [f \in Files |-> IF f \in scan.batch THEN scan.got[f] ELSE spans[f]]
      /\ mark' = [f \in Files |-> IF f \in scan.batch THEN Advanced(f) ELSE mark[f]]
      /\ scan' = [scan EXCEPT !.at = "batch", !.batch = {}, !.got = NoScan.got]
      /\ UNCHANGED <<edges, whole>>
  BY DEF ApplyBatch, Indexed
<1>2. /\ RootTypeOK' /\ edits' = edits /\ root' = root /\ aside' = aside /\ Present' = Present /\ Present \subseteq Files
      /\ \A f \in Files : root[f].stamp \in Nat /\ mark[f].stamp \in Nat /\ scan.seen[f] \in Nat
      /\ edits \in Nat
  BY FilesStay
<1>3. NoScan.got \in [Files -> Facts]
  BY NoScanTyped
<1>4. /\ ScanTypeOK' /\ scan'.at = "batch" /\ scan'.since = scan.since /\ scan'.seen = scan.seen
      /\ scan'.todo = scan.todo /\ scan'.batch = {} /\ (scan'.full <=> scan.full)
  BY <1>1, <1>3 DEF WorkspaceInv, ScanTypeOK, Stages
<1>5. BatchFits' /\ DueFiles' = scan.todo /\ scan.todo \cap scan.batch = {} /\ scan.batch \subseteq Files
  BY <1>4 DEF WorkspaceInv, ScanTypeOK, BatchFits, DueFiles, Deleting
<1>6. /\ scan.got \in [Files -> Facts] /\ \A f \in Files : scan.got[f].parses \in BOOLEAN
      /\ rows \in [Files -> Facts] /\ spans \in [Files -> Facts]
      /\ mark \in [Files -> [there : BOOLEAN, indexed : BOOLEAN, stamp : Nat]]
  BY DEF WorkspaceInv, ScanTypeOK, IndexTypeOK, Facts
<1>7. \A f \in Files : Advanced(f) \in [there : BOOLEAN, indexed : BOOLEAN, stamp : Nat]
  BY <1>2, <1>6 DEF Advanced
<1>8. IndexTypeOK'
  BY <1>1, <1>6, <1>7 DEF WorkspaceInv, IndexTypeOK
<1>9. \A f \in scan.batch :
         /\ rows'[f] = scan.got[f] /\ spans'[f] = scan.got[f] /\ mark[f].there
         /\ scan.got[f].parses => mark'[f].there /\ mark'[f].indexed /\ mark'[f].stamp = scan.seen[f]
         /\ ~scan.got[f].parses => mark'[f] = mark[f]
  BY <1>1, <1>5 DEF Advanced, WorkspaceInv, DueDiffer, DueFiles
<1>10. \A f \in Files \ scan.batch : rows'[f] = rows[f] /\ spans'[f] = spans[f] /\ mark'[f] = mark[f]
  BY <1>1
<1>11. \A f \in Files : mark'[f].stamp \in {scan.seen[f], mark[f].stamp}
  BY <1>5, <1>9, <1>10
<1>12. StampsPast'
  BY <1>2, <1>4, <1>11 DEF WorkspaceInv, StampsPast
<1>13. whole => \A f \in scan.batch \cap Present :
         root[f].stamp = scan.seen[f] =>
           scan.got[f] = root[f].text \/ (~scan.got[f].parses /\ scan.since # edits)
  BY <1>1 DEF WorkspaceInv, GotTrue
<1>14. MarksTrue'
  <2> SUFFICES ASSUME whole, NEW f \in Present, mark'[f].indexed, mark'[f].stamp = root[f].stamp
               PROVE  rows'[f] = root[f].text /\ spans'[f] = root[f].text
    BY <1>1, <1>2 DEF MarksTrue, Unchanged, Deleting
  <2>1. CASE f \in scan.batch /\ scan.got[f].parses
    BY <1>2, <1>9, <1>13, <2>1
  <2>2. CASE f \in scan.batch /\ ~scan.got[f].parses
    <3>1. mark[f].indexed => mark[f].stamp # root[f].stamp
      BY <1>1, <2>2 DEF WorkspaceInv, DueDiffer, DueFiles
    <3> QED
      BY <1>9, <2>2, <3>1
  <2>3. CASE f \notin scan.batch
    BY <1>1, <1>2, <1>10, <2>3 DEF WorkspaceInv, MarksTrue, Unchanged, Deleting
  <2> QED
    BY <2>1, <2>2, <2>3
<1>15. DueDiffer'
  <2>1. \A f \in scan.todo : mark'[f] = mark[f]
    BY <1>5, <1>10 DEF WorkspaceInv, ScanTypeOK
  <2> QED
    BY <1>1, <1>2, <1>5, <2>1 DEF WorkspaceInv, DueDiffer, DueFiles
<1>16. GotTrue' /\ FullAnew'
  BY <1>4 DEF GotTrue, FullAnew
<1>17. RowsMarked'
  BY <1>5, <1>9, <1>10 DEF WorkspaceInv, RowsMarked
<1>18. SpansStand'
  BY <1>4, <1>5, <1>9, <1>10 DEF WorkspaceInv, SpansStand
<1>19. Progressing'
  <2> SUFFICES ASSUME scan.since = edits, whole
               PROVE  /\ \A f \in Files : scan.seen[f] = IF f \in Present THEN root[f].stamp ELSE 0
                      /\ \A f \in Present : (rows'[f] = root[f].text /\ spans'[f] = root[f].text) \/ f \in scan.todo
    BY <1>1, <1>2, <1>4, <1>5 DEF Progressing, Quiet
  <2>1. /\ \A f \in Files : scan.seen[f] = IF f \in Present THEN root[f].stamp ELSE 0
        /\ \A f \in Present : (rows[f] = root[f].text /\ spans[f] = root[f].text) \/ f \in DueFiles
    BY <1>1 DEF WorkspaceInv, Progressing, Quiet
  <2> QED
    BY <1>2, <1>9, <1>10, <1>13, <2>1 DEF DueFiles
<1> QED
  BY <1>2, <1>4, <1>5, <1>8, <1>12, <1>14, <1>15, <1>16, <1>17, <1>18, <1>19 DEF WorkspaceInv

LEMMA StartRemovingKeeps == WorkspaceInv /\ StartRemoving /\ UNCHANGED filesVars => WorkspaceInv'
<1> SUFFICES ASSUME WorkspaceInv, StartRemoving, UNCHANGED filesVars PROVE WorkspaceInv'
  OBVIOUS
<1>1. /\ scan.at = "batch" /\ scan.todo = {} /\ scan' = [scan EXCEPT !.at = "vanish"]
      /\ UNCHANGED <<mark, rows, spans, edges, whole>>
  BY DEF StartRemoving
<1>2. /\ ScanTypeOK' /\ scan'.at = "vanish" /\ scan'.since = scan.since /\ scan'.seen = scan.seen
      /\ scan'.todo = {} /\ scan'.batch = scan.batch
  BY <1>1 DEF WorkspaceInv, ScanTypeOK, Stages
<1>3. BatchFits' /\ DueFiles = {}
  BY <1>1, <1>2 DEF WorkspaceInv, BatchFits, DueFiles, Deleting
<1>4. /\ RootTypeOK' /\ edits' = edits /\ root' = root /\ aside' = aside /\ Present' = Present
  BY FilesStay
<1>5. IndexTypeOK' /\ StampsPast'
  BY <1>1, <1>2, <1>4 DEF WorkspaceInv, IndexTypeOK, StampsPast
<1>6. MarksTrue' /\ RowsMarked' /\ SpansStand' /\ FullAnew'
  BY <1>1, <1>2, <1>4 DEF WorkspaceInv, MarksTrue, RowsMarked, Unchanged, SpansStand, FullAnew, Deleting
<1>7. DueDiffer' /\ GotTrue'
  BY <1>2 DEF DueDiffer, GotTrue
<1>8. Progressing'
  BY <1>1, <1>2, <1>3, <1>4 DEF WorkspaceInv, Progressing, Quiet
<1> QED
  BY <1>2, <1>3, <1>4, <1>5, <1>6, <1>7, <1>8 DEF WorkspaceInv

\* What has vanished loses its row, then its spans and then, unless a kill comes first,
\* its watermark.
LEMMA PurgeRowKeeps ==
  ASSUME WorkspaceInv, NEW f \in Files, PurgeRow(f), UNCHANGED filesVars PROVE WorkspaceInv'
<1>1. /\ scan.at = "vanish" /\ f \in Vanished
      /\ rows' = [rows EXCEPT ![f] = None] /\ scan' = [scan EXCEPT !.at = "purge", !.batch = {f}]
      /\ UNCHANGED <<mark, spans, edges, whole>>
  BY DEF PurgeRow
<1>2. /\ RootTypeOK' /\ edits' = edits /\ root' = root /\ aside' = aside /\ Present' = Present /\ Present \subseteq Files
      /\ edits \in Nat /\ \A g \in Files : root[g].stamp \in Nat
  BY FilesStay
<1>3. /\ ScanTypeOK' /\ scan'.at = "purge" /\ scan'.batch = {f} /\ scan'.seen = scan.seen /\ scan'.todo = scan.todo
      /\ scan'.since = scan.since
  BY <1>1 DEF WorkspaceInv, ScanTypeOK, Stages
<1>4. IndexTypeOK'
  BY <1>1, TextsAreFacts DEF WorkspaceInv, IndexTypeOK, None
<1>5. rows'[f] = None /\ \A g \in Files \ {f} : rows'[g] = rows[g]
  BY <1>1 DEF WorkspaceInv, IndexTypeOK
<1>6. mark[f].there /\ scan.seen[f] = 0 /\ Deleting = {} /\ Deleting' = {f}
  BY <1>1, <1>3 DEF Vanished, Deleting
<1>7. BatchFits' /\ StampsPast' /\ RowsMarked'
  BY <1>1, <1>2, <1>3, <1>5, <1>6 DEF WorkspaceInv, BatchFits, StampsPast, RowsMarked
<1>8. MarksTrue'
  <2> SUFFICES ASSUME whole, NEW g \in Present \ {f}, Unchanged(g, [h \in Files |-> root[h].stamp])
               PROVE  rows'[g] = root[g].text /\ spans[g] = root[g].text
    BY <1>1, <1>2, <1>3, <1>6 DEF MarksTrue, Unchanged
  <2> QED
    BY <1>1, <1>2, <1>5, <1>6 DEF WorkspaceInv, MarksTrue
<1>9. SpansStand'
  BY <1>1, <1>3, <1>5, <1>6 DEF WorkspaceInv, SpansStand
<1>10. DueDiffer' /\ GotTrue' /\ FullAnew'
  BY <1>3 DEF DueDiffer, GotTrue, FullAnew
<1>11. Progressing'
  <2> SUFFICES ASSUME scan.since = edits, whole
               PROVE  /\ \A g \in Files : scan.seen[g] = IF g \in Present THEN root[g].stamp ELSE 0
                      /\ \A g \in Present : rows'[g] = root[g].text /\ spans[g] = root[g].text
    BY <1>1, <1>2, <1>3 DEF Progressing, Quiet
  <2>1. /\ \A g \in Files : scan.seen[g] = IF g \in Present THEN root[g].stamp ELSE 0
        /\ \A g \in Present : rows[g] = root[g].text /\ spans[g] = root[g].text
    BY <1>1 DEF WorkspaceInv, Progressing, Quiet
  <2>2. f \notin Present
    BY <1>2, <1>6, <2>1 DEF WorkspaceInv, StampsPast, Present
  <2> QED
    BY <1>2, <1>5, <2>1, <2>2
<1> QED
  BY <1>2, <1>3, <1>4, <1>7, <1>8, <1>9, <1>10, <1>11 DEF WorkspaceInv

LEMMA PurgeSpansKeeps == WorkspaceInv /\ PurgeSpans /\ UNCHANGED filesVars => WorkspaceInv'
<1> SUFFICES ASSUME WorkspaceInv, PurgeSpans, UNCHANGED filesVars PROVE WorkspaceInv'
  OBVIOUS
<1>1. /\ scan.at = "purge" /\ spans' = [f \in Files |-> IF f \in scan.batch THEN None ELSE spans[f]]
      /\ scan' = [scan EXCEPT !.at = "forget"]
      /\ UNCHANGED <<mark, rows, edges, whole>>
  BY DEF PurgeSpans
<1>2. /\ RootTypeOK' /\ edits' = edits /\ root' = root /\ aside' = aside /\ Present' = Present /\ Present \subseteq Files
      /\ edits \in Nat /\ \A g \in Files : root[g].stamp \in Nat
  BY FilesStay
<1>3. /\ ScanTypeOK' /\ scan'.at = "forget" /\ scan'.batch = scan.batch /\ scan'.seen = scan.seen
      /\ scan'.todo = scan.todo /\ scan'.since = scan.since /\ scan.batch \subseteq Files
  BY <1>1 DEF WorkspaceInv, ScanTypeOK, Stages
<1>4. IndexTypeOK'
  BY <1>1, TextsAreFacts DEF WorkspaceInv, IndexTypeOK, None
<1>5. /\ \A g \in scan.batch : spans'[g] = None
      /\ \A g \in Files \ scan.batch : spans'[g] = spans[g]
  BY <1>1, <1>3
<1>6. Deleting = scan.batch /\ Deleting' = scan.batch
  BY <1>1, <1>3 DEF Deleting
<1>7. BatchFits' /\ StampsPast' /\ RowsMarked'
  BY <1>1, <1>2, <1>3, <1>5, <1>6 DEF WorkspaceInv, BatchFits, StampsPast, RowsMarked
<1>8. MarksTrue'
  <2> SUFFICES ASSUME whole, NEW g \in Present \ scan.batch, Unchanged(g, [h \in Files |-> root[h].stamp])
               PROVE  rows[g] = root[g].text /\ spans'[g] = root[g].text
    BY <1>1, <1>2, <1>3, <1>6 DEF MarksTrue, Unchanged
  <2> QED
    BY <1>1, <1>2, <1>5, <1>6 DEF WorkspaceInv, MarksTrue
<1>9. SpansStand'
  BY <1>1, <1>3, <1>5 DEF WorkspaceInv, SpansStand
<1>10. DueDiffer' /\ GotTrue' /\ FullAnew'
  BY <1>3 DEF DueDiffer, GotTrue, FullAnew
<1>11. Progressing'
  <2> SUFFICES ASSUME scan.since = edits, whole
               PROVE  /\ \A g \in Files : scan.seen[g] = IF g \in Present THEN root[g].stamp ELSE 0
                      /\ \A g \in Present : rows[g] = root[g].text /\ spans'[g] = root[g].text
    BY <1>1, <1>2, <1>3 DEF Progressing, Quiet
  <2>1. /\ \A g \in Files : scan.seen[g] = IF g \in Present THEN root[g].stamp ELSE 0
        /\ \A g \in Present : rows[g] = root[g].text /\ spans[g] = root[g].text
    BY <1>1 DEF WorkspaceInv, Progressing, Quiet
  <2>2. \A g \in scan.batch : scan.seen[g] = 0
    BY <1>6 DEF WorkspaceInv, BatchFits
  <2>3. \A g \in Present : root[g].stamp >= 1
    BY <1>2 DEF WorkspaceInv, StampsPast, Present
  <2>4. \A g \in scan.batch : g \notin Present
    BY <1>2, <1>3, <2>1, <2>2, <2>3
  <2> QED
    BY <1>2, <1>5, <2>1, <2>4
<1> QED
  BY <1>2, <1>3, <1>4, <1>7, <1>8, <1>9, <1>10, <1>11 DEF WorkspaceInv

LEMMA ForgetKeeps == WorkspaceInv /\ ForgetMark /\ UNCHANGED filesVars => WorkspaceInv'
<1> SUFFICES ASSUME WorkspaceInv, ForgetMark, UNCHANGED filesVars PROVE WorkspaceInv'
  OBVIOUS
<1>1. /\ scan.at = "forget" /\ mark' = [f \in Files |-> IF f \in scan.batch THEN NoMark ELSE mark[f]]
      /\ scan' = [scan EXCEPT !.at = "vanish", !.batch = {}]
      /\ UNCHANGED <<rows, spans, edges, whole>>
  BY DEF ForgetMark
<1>2. /\ RootTypeOK' /\ edits' = edits /\ root' = root /\ aside' = aside /\ Present' = Present /\ Present \subseteq Files
      /\ edits \in Nat /\ \A g \in Files : root[g].stamp \in Nat
  BY FilesStay
<1>3. /\ ScanTypeOK' /\ scan'.at = "vanish" /\ scan'.batch = {} /\ scan'.seen = scan.seen
      /\ scan'.todo = scan.todo /\ scan'.since = scan.since /\ scan.batch \subseteq Files
  BY <1>1 DEF WorkspaceInv, ScanTypeOK, Stages
<1>4. IndexTypeOK'
  BY <1>1 DEF WorkspaceInv, IndexTypeOK, NoMark
<1>5. /\ \A g \in scan.batch : mark'[g].stamp = 0 /\ ~mark'[g].indexed
      /\ \A g \in Files \ scan.batch : mark'[g] = mark[g]
  BY <1>1, <1>3 DEF NoMark
<1>12. scan.batch = Deleting
  BY <1>1 DEF Deleting
<1>6. /\ Deleting = scan.batch /\ Deleting' = {}
      /\ \A g \in scan.batch : rows[g] = None /\ spans[g] = None /\ scan.seen[g] = 0
  <2>1. \A g \in Deleting : rows[g] = None /\ spans[g] = None /\ scan.seen[g] = 0
    BY <1>1 DEF WorkspaceInv, BatchFits
  <2> QED
    BY <1>3, <1>12, <2>1 DEF Deleting
<1>7. BatchFits' /\ StampsPast' /\ RowsMarked'
  <2>1. BatchFits'
    BY <1>1, <1>3, <1>6 DEF WorkspaceInv, BatchFits
  <2>2. StampsPast'
    BY <1>2, <1>3, <1>5 DEF WorkspaceInv, StampsPast
  <2>3. RowsMarked'
    BY <1>1, <1>5, <1>6 DEF WorkspaceInv, RowsMarked
  <2> QED
    BY <2>1, <2>2, <2>3
<1>8. MarksTrue'
  <2> SUFFICES ASSUME whole, NEW g \in Present, Unchanged(g, [h \in Files |-> root[h].stamp])'
               PROVE  rows[g] = root[g].text /\ spans[g] = root[g].text
    BY <1>1, <1>2, <1>3 DEF MarksTrue
  <2>1. g \notin scan.batch
    BY <1>2, <1>5 DEF Unchanged
  <2>2. Unchanged(g, [h \in Files |-> root[h].stamp]) /\ g \in Files
    BY <1>2, <1>5, <2>1 DEF Unchanged
  <2> QED
    BY <1>1, <1>6, <2>1, <2>2 DEF WorkspaceInv, MarksTrue
<1>9. SpansStand'
  BY <1>1, <1>3, <1>5, <1>6 DEF WorkspaceInv, SpansStand
<1>10. DueDiffer' /\ GotTrue' /\ FullAnew'
  BY <1>3 DEF DueDiffer, GotTrue, FullAnew
<1>11. Progressing'
  BY <1>1, <1>2, <1>3 DEF WorkspaceInv, Progressing, Quiet
<1> QED
  BY <1>2, <1>3, <1>4, <1>7, <1>8, <1>9, <1>10, <1>11 DEF WorkspaceInv

\* What was collected is what the files say, when nothing changed under the pass: a row
\* stands for a file that is there, and the others have none.
LEMMA BodiesKeep ==
  ASSUME WorkspaceInv, NEW met \in SUBSET Present, Collect(met), UNCHANGED <<root, aside>>,
         (edits' = edits /\ met = Present) \/ Edit
  PROVE  WorkspaceInv'
<1> DEFINE bodies == [f \in Files |-> IF f \in met THEN root[f].text.names ELSE {}]
           facts == [f \in Files |-> [rows[f] EXCEPT !.names = bodies[f]]]
<1>1. /\ scan.at = "vanish" /\ Vanished = {}
      /\ UNCHANGED <<mark, rows, spans, edges, whole>>
  BY DEF Collect
<1>2. scan' = [scan EXCEPT !.at = "edges", !.seen = NoScan.seen, !.facts = facts]
  BY DEF Collect
<1>3. /\ RootTypeOK' /\ root' = root /\ aside' = aside /\ Present' = Present /\ Present \subseteq Files
      /\ Said' = Said /\ edits \in Nat /\ (edits' = edits \/ edits' = edits + 1)
      /\ \A f \in Files : root[f].stamp \in Nat /\ aside[f].stamp \in Nat /\ mark[f].stamp \in Nat
      /\ scan.since \in Nat
  BY DiskStays
<1>4. rows \in [Files -> Facts] /\ spans \in [Files -> Facts] /\ \A f \in Files : root[f].text \in Facts
  BY DEF WorkspaceInv, IndexTypeOK, RootTypeOK, FileType
<1>5. \A f \in Files : bodies[f] = (IF f \in met THEN root[f].text.names ELSE {}) /\ bodies[f] \in SUBSET Refs
  BY <1>4 DEF Facts
<1> HIDE DEF bodies
<1>6. \A f \in Files : /\ facts[f] \in Facts /\ facts[f].names = bodies[f]
                       /\ facts[f].parses = rows[f].parses /\ facts[f].tags = rows[f].tags
  BY <1>4, <1>5 DEF Facts
<1>7. facts \in [Files -> Facts]
  BY <1>6
<1> HIDE DEF facts
<1>8. NoScan.seen \in [Files -> Nat] /\ \A f \in Files : NoScan.seen[f] = 0
  BY NoScanTyped
<1>9. /\ ScanTypeOK' /\ scan'.at = "edges" /\ scan'.since = scan.since /\ scan'.seen = NoScan.seen
      /\ scan'.todo = scan.todo /\ scan'.batch = scan.batch /\ scan'.facts = facts
  BY <1>2, <1>7, <1>8 DEF WorkspaceInv, ScanTypeOK, Stages
<1>10. BatchFits' /\ DueDiffer' /\ GotTrue' /\ FullAnew'
  BY <1>1, <1>9 DEF WorkspaceInv, BatchFits, DueDiffer, GotTrue, FullAnew, Deleting
<1>11. IndexTypeOK' /\ StampsPast'
  BY <1>1, <1>3, <1>8, <1>9 DEF WorkspaceInv, IndexTypeOK, StampsPast
<1>12. MarksTrue' /\ RowsMarked' /\ SpansStand'
  <2>1. MarksTrue'
    BY <1>1, <1>3, <1>9 DEF WorkspaceInv, MarksTrue, Unchanged, Deleting
  <2>2. RowsMarked' /\ SpansStand'
    BY <1>1, <1>3, <1>9 DEF WorkspaceInv, RowsMarked, SpansStand
  <2>3. QED  BY <2>1, <2>2
<1>13. Progressing'
  <2>8. CASE Edit
    BY <1>9, <2>8, Disquiets
  <2> SUFFICES ASSUME edits' = edits, met = Present, scan.since = edits, whole
               PROVE  rows = Said /\ spans = Said /\ facts = Said
    BY <1>1, <1>3, <1>9, <2>8 DEF Progressing, Quiet
  <2>1. \A f \in Files : scan.seen[f] = IF f \in Present THEN root[f].stamp ELSE 0
    BY <1>1 DEF WorkspaceInv, Progressing, Quiet
  <2>2. \A f \in Present : rows[f] = root[f].text /\ spans[f] = root[f].text
    BY <1>1 DEF WorkspaceInv, Progressing, Quiet
  <2>3. \A f \in Files \ Present : rows[f] = None /\ spans[f] = None
    BY <1>1, <2>1 DEF Vanished, WorkspaceInv, RowsMarked, SpansStand
  <2>4. Said \in [Files -> Facts] /\ \A f \in Files : Said[f] = IF f \in Present THEN root[f].text ELSE None
    BY <1>4, TextsAreFacts DEF Said, None
  <2>5. \A f \in Files : rows[f] = Said[f] /\ spans[f] = Said[f]
    BY <1>3, <2>2, <2>3, <2>4
  <2>6. \A f \in Files : facts[f] = Said[f]
    <3> SUFFICES ASSUME NEW f \in Files PROVE facts[f] = Said[f]
      OBVIOUS
    <3>1. rows[f] = IF f \in Present THEN root[f].text ELSE None
      BY <2>2, <2>3
    <3>2. bodies[f] = rows[f].names
      BY <1>3, <1>5, <3>1 DEF None, Malformed
    <3>3. /\ facts[f] \in Facts /\ rows[f] \in Facts
          /\ facts[f].names = rows[f].names /\ facts[f].parses = rows[f].parses /\ facts[f].tags = rows[f].tags
      BY <1>4, <1>6, <3>2
    <3>4. facts[f] = rows[f]
      BY ONLY <3>3 DEF Facts
    <3> QED
      BY <2>5, <3>4
  <2> QED
    BY <1>4, <1>7, <2>4, <2>5, <2>6
<1> QED
  BY <1>3, <1>9, <1>10, <1>11, <1>12, <1>13 DEF WorkspaceInv

LEMMA CollectKeeps == WorkspaceInv /\ CollectFacts /\ UNCHANGED filesVars => WorkspaceInv'
  BY BodiesKeep DEF CollectFacts, filesVars

LEMMA CollectMissesKeeps == WorkspaceInv /\ CollectMisses => WorkspaceInv'
  BY BodiesKeep DEF CollectMisses

LEMMA RebuildKeeps == WorkspaceInv /\ RebuildEdges /\ UNCHANGED filesVars => WorkspaceInv'
<1> SUFFICES ASSUME WorkspaceInv, RebuildEdges, UNCHANGED filesVars PROVE WorkspaceInv'
  OBVIOUS
<1>1. /\ scan.at = "edges" /\ edges' = Derived(rows, scan.facts)
      /\ scan' = [scan EXCEPT !.at = "done", !.facts = NoScan.facts]
      /\ UNCHANGED <<mark, rows, spans, whole>>
  BY DEF RebuildEdges
<1>2. NoScan.facts \in [Files -> Facts]
  BY NoScanTyped
<1>3. /\ ScanTypeOK' /\ scan'.at = "done" /\ scan'.since = scan.since /\ scan'.seen = scan.seen
      /\ scan'.todo = scan.todo /\ scan'.batch = scan.batch
  BY <1>1, <1>2 DEF WorkspaceInv, ScanTypeOK, Stages
<1>4. /\ RootTypeOK' /\ edits' = edits /\ root' = root /\ aside' = aside /\ Present' = Present /\ Said' = Said
  BY FilesStay
<1>5. BatchFits' /\ DueDiffer' /\ GotTrue' /\ FullAnew'
  BY <1>1, <1>3 DEF WorkspaceInv, BatchFits, DueDiffer, GotTrue, FullAnew, Deleting
<1>6. IndexTypeOK' /\ StampsPast'
  BY <1>1, <1>3, <1>4 DEF WorkspaceInv, IndexTypeOK, StampsPast
<1>7. MarksTrue' /\ RowsMarked' /\ SpansStand'
  BY <1>1, <1>3, <1>4 DEF WorkspaceInv, MarksTrue, RowsMarked, Unchanged, SpansStand, Deleting
<1>8. Progressing'
  <2> SUFFICES ASSUME scan.since = edits, whole PROVE rows = Said /\ spans = Said /\ edges' = Derived(Said, Said)
    <3>1. Derived(Said, Said)' = Derived(Said, Said)
      BY <1>4 DEF Derived, Held, Mentioned, Shared
    <3>2. Quiet' => scan.since = edits /\ whole
      BY <1>1, <1>3, <1>4 DEF Quiet
    <3> QED
      BY <1>1, <1>3, <1>4, <3>1, <3>2 DEF Progressing
  <2> QED
    BY <1>1 DEF WorkspaceInv, Progressing, Quiet
<1> QED
  BY <1>3, <1>4, <1>5, <1>6, <1>7, <1>8 DEF WorkspaceInv

LEMMA EndKeeps == WorkspaceInv /\ EndScan /\ UNCHANGED filesVars => WorkspaceInv'
<1> SUFFICES ASSUME WorkspaceInv, EndScan, UNCHANGED filesVars PROVE WorkspaceInv'
  OBVIOUS
<1>1. scan.at = "done" /\ scan' = NoScan /\ UNCHANGED <<mark, rows, spans, edges, whole>>
  BY DEF EndScan
<1>2. /\ RootTypeOK' /\ edits' = edits /\ root' = root /\ aside' = aside /\ Present' = Present
      /\ edits \in Nat
  BY FilesStay
<1>3. /\ ScanTypeOK' /\ BatchFits' /\ scan'.at = "idle" /\ scan'.since = 0 /\ \A f \in Files : scan'.seen[f] = 0
  BY <1>1, NoScanTyped DEF ScanTypeOK, BatchFits, Deleting
<1>4. IndexTypeOK' /\ StampsPast'
  BY <1>1, <1>2, <1>3 DEF WorkspaceInv, IndexTypeOK, StampsPast
<1>5. MarksTrue' /\ RowsMarked' /\ SpansStand'
  BY <1>1, <1>2, <1>3 DEF WorkspaceInv, MarksTrue, RowsMarked, Unchanged, SpansStand, Deleting
<1> QED
  BY <1>2, <1>3, <1>4, <1>5 DEF WorkspaceInv, DueDiffer, GotTrue, FullAnew, Progressing

LEMMA NothingChanges == WorkspaceInv /\ UNCHANGED allVars => WorkspaceInv'
<1> SUFFICES ASSUME WorkspaceInv, UNCHANGED allVars PROVE WorkspaceInv'
  OBVIOUS
<1>1. /\ root' = root /\ aside' = aside /\ edits' = edits /\ mark' = mark /\ rows' = rows /\ spans' = spans
      /\ edges' = edges /\ scan' = scan /\ whole' = whole
  BY DEF allVars, filesVars, workspaceVars
<1>2. Present' = Present /\ Said' = Said /\ DueFiles' = DueFiles
  BY <1>1 DEF Present, Said, DueFiles
<1>3. RootTypeOK' /\ IndexTypeOK' /\ ScanTypeOK' /\ BatchFits' /\ StampsPast'
  BY <1>1 DEF WorkspaceInv, RootTypeOK, IndexTypeOK, ScanTypeOK, BatchFits, StampsPast, Deleting
<1>4. MarksTrue' /\ DueDiffer' /\ GotTrue'
  BY <1>1, <1>2 DEF WorkspaceInv, MarksTrue, Unchanged, DueDiffer, GotTrue, Deleting
<1>5. RowsMarked' /\ SpansStand' /\ FullAnew'
  BY <1>1 DEF WorkspaceInv, RowsMarked, SpansStand, FullAnew
<1>6. Progressing'
  BY <1>1, <1>2 DEF WorkspaceInv, Progressing, Quiet, Derived, Held, Mentioned, Shared
<1> QED
  BY <1>3, <1>4, <1>5, <1>6 DEF WorkspaceInv

LEMMA WorkspaceInductive == WorkspaceInv /\ [WorkspaceNext]_allVars => WorkspaceInv'
<1> SUFFICES ASSUME WorkspaceInv, [WorkspaceNext]_allVars PROVE WorkspaceInv'
  OBVIOUS
<1>1. ASSUME NEW full \in BOOLEAN, StartScan(full), UNCHANGED filesVars PROVE WorkspaceInv'
  BY <1>1, StartScanKeeps
<1>2. ASSUME PassStep, UNCHANGED filesVars PROVE WorkspaceInv'
  BY <1>2, ResetSharedKeeps, ResetOwnKeeps, ScanKeeps, NextBatchKeeps, ReadKeeps, ApplyKeeps, StartRemovingKeeps,
     PurgeRowKeeps, PurgeSpansKeeps, ForgetKeeps, CollectKeeps, RebuildKeeps, EndKeeps DEF PassStep
<1>3. CASE KillScan
  BY <1>3, KillKeeps
<1>4. ASSUME NEW f \in Files, WriteFile(f) \/ RemoveFile(f) \/ ReturnFile(f) \/ ReadFails(f) PROVE WorkspaceInv'
  BY <1>4, WriteKeeps, RemoveKeeps, ReturnKeeps, ReadFailsKeeps
<1>6. CASE ScanMisses \/ CollectMisses
  BY <1>6, ScanMissesKeeps, CollectMissesKeeps
<1>5. CASE UNCHANGED allVars
  BY <1>5, NothingChanges
<1> QED
  BY <1>1, <1>2, <1>3, <1>4, <1>5, <1>6 DEF WorkspaceNext

----------------------------------------------------------------------------
(* The theorems.                                                            *)

\* However files change, come back and vanish and wherever passes are killed, watermarks,
\* rows and spans fit each other, and each stage of an undisturbed pass has done its part
\* (refreshWorkspace).
THEOREM WorkspaceInvariant == WorkspaceSpec => []WorkspaceInv
<1>1. WorkspaceInit => WorkspaceInv
  BY WorkspaceStarts
<1>2. WorkspaceInv /\ [WorkspaceNext]_allVars => WorkspaceInv'
  BY WorkspaceInductive
<1> QED
  BY <1>1, <1>2, PTL DEF WorkspaceSpec

\* The relations that are derived of what the files say are those that they are in.
LEMMA DerivedRelates ==
  ASSUME RootTypeOK, NEW of, NEW to, NEW relation \in {"holds", "mentions", "shares_tag"}
  PROVE  [of |-> of, relation |-> relation, to |-> to] \in Derived(Said, Said) <=> Relates(of, relation, to)
<1> DEFINE row == Said
           edge == [of |-> of, relation |-> relation, to |-> to]
           Standing == {g \in Files : row[g] # None}
<1>1. \A f \in Files : row[f] # None => row[f] \in Text(f)
  BY DEF RootTypeOK, Said
<1>2. \A f \in Files : row[f].names # {} \/ row[f].tags # {} => row[f] # None
  BY DEF None, Malformed
<1>3. \A f \in Files \ Notes : row[f].tags = {}
  <2> SUFFICES ASSUME NEW f \in Files, ~IsNote[f] PROVE row[f].tags = {}
    BY DEF Notes
  <2>1. CASE row[f] = None
    BY <2>1 DEF None, Malformed
  <2>2. CASE row[f] # None
    <3>1. row[f] \in Text(f)
      BY <1>1, <2>2
    <3> HIDE DEF row
    <3>2. row[f] \in {Malformed} \cup [parses : {TRUE}, names : {{}}, tags : {{}}]
      BY <3>1 DEF Text
    <3>3. \A fact \in [parses : {TRUE}, names : {{}}, tags : {{}}] : fact.tags = {}
      OBVIOUS
    <3>4. Malformed.tags = {}
      BY DEF Malformed
    <3> QED
      BY <3>2, <3>3, <3>4
  <2> QED
    BY <2>1, <2>2
<1>4. Notes \subseteq Files
  BY DEF Notes
<1> HIDE DEF row
<1>5. \A o, r, t : edge = [of |-> o, relation |-> r, to |-> t] <=> of = o /\ relation = r /\ to = t
  OBVIOUS
<1> HIDE DEF edge
<1>6. edge \in Held(row) <=> relation = "holds" /\ \E f \in Standing : of = InitiativeOf[f] /\ to = RefOf[f]
  BY <1>5 DEF Held
<1>7. edge \in Mentioned(row, row) <=>
        relation = "mentions" /\ \E n \in Notes : /\ row[n] # None /\ of = RefOf[n] /\ to \in row[n].names
                                                  /\ \E f \in Standing : to = RefOf[f]
  <2> DEFINE Of(n) == {[of |-> RefOf[n], relation |-> "mentions", to |-> r] :
                         r \in row[n].names \cap {RefOf[f] : f \in Standing}}
  <2>1. \A n : edge \in Of(n) <=> /\ relation = "mentions" /\ of = RefOf[n] /\ to \in row[n].names
                                 /\ \E f \in Standing : to = RefOf[f]
    BY <1>5
  <2>2. Mentioned(row, row) = UNION {Of(n) : n \in {m \in Notes : row[m] # None}}
    BY Zenon DEF Mentioned
  <2> HIDE DEF Of
  <2> QED
    BY <2>1, <2>2
<1>8. edge \in Shared(row, row) <=>
        relation = "shares_tag" /\
          \E p, q \in Notes : /\ row[p] # None /\ row[q] # None /\ of = RefOf[p] /\ to = RefOf[q]
                              /\ InitiativeOf[p] # InitiativeOf[q] /\ row[p].tags \cap row[q].tags # {}
  <2> DEFINE Pairs == {q \in Notes \X Notes : /\ row[q[1]] # None /\ row[q[2]] # None
                                              /\ InitiativeOf[q[1]] # InitiativeOf[q[2]]
                                              /\ row[q[1]].tags \cap row[q[2]].tags # {}}
  <2>1. Shared(row, row) = {[of |-> RefOf[p[1]], relation |-> "shares_tag", to |-> RefOf[p[2]]] : p \in Pairs}
    BY DEF Shared
  <2>2. edge \in Shared(row, row) <=> \E p \in Pairs : relation = "shares_tag" /\ of = RefOf[p[1]] /\ to = RefOf[p[2]]
    <3> HIDE DEF Pairs
    <3> QED
      BY ONLY <1>5, <2>1
  <2>3. \A p, q \in Notes : <<p, q>> \in Pairs <=> /\ row[p] # None /\ row[q] # None
                                                  /\ InitiativeOf[p] # InitiativeOf[q]
                                                  /\ row[p].tags \cap row[q].tags # {}
    OBVIOUS
  <2>4. \A p \in Pairs : p[1] \in Notes /\ p[2] \in Notes /\ p = <<p[1], p[2]>>
    OBVIOUS
  <2> HIDE DEF Pairs
  <2>5. edge \in Shared(row, row) <=>
          relation = "shares_tag" /\ \E p, q \in Notes : <<p, q>> \in Pairs /\ of = RefOf[p] /\ to = RefOf[q]
    BY <2>2, <2>4
  <2> QED
    BY <2>3, <2>5
<1>9. CASE relation = "holds"
  <2>1. Relates(of, relation, to) <=> \E f \in Standing : of = InitiativeOf[f] /\ to = RefOf[f]
    BY <1>9 DEF Relates, row
  <2> QED
    BY <1>6, <1>7, <1>8, <1>9, <2>1 DEF Derived, row, edge
<1>10. CASE relation = "mentions"
  <2>1. Relates(of, relation, to) <=>
          \E f \in Standing : to = RefOf[f] /\ \E p \in Notes : of = RefOf[p] /\ to \in row[p].names
    BY <1>10 DEF Relates, row
  <2>2. edge \in Mentioned(row, row) <=> Relates(of, relation, to)
    BY <1>2, <1>4, <1>7, <1>10, <2>1
  <2> QED
    BY <1>6, <1>8, <1>10, <2>2 DEF Derived, row, edge
<1>11. CASE relation = "shares_tag"
  <2>1. Relates(of, relation, to) <=>
          \E f \in Standing : to = RefOf[f] /\ \E p \in Notes : /\ of = RefOf[p] /\ InitiativeOf[p] # InitiativeOf[f]
                                                                /\ row[p].tags \cap row[f].tags # {}
    BY <1>11 DEF Relates, row
  <2>2. ASSUME NEW f \in Standing, NEW p \in Notes, row[p].tags \cap row[f].tags # {}
        PROVE  f \in Notes /\ row[p] # None
    <3>1. row[f].tags # {} /\ row[p].tags # {}
      BY <2>2
    <3> QED
      BY <1>2, <1>3, <1>4, <3>1
  <2>3. edge \in Shared(row, row) <=> Relates(of, relation, to)
    BY <1>4, <1>8, <1>11, <2>1, <2>2
  <2> QED
    BY <1>6, <1>7, <1>11, <2>3 DEF Derived, row, edge
<1> QED
  BY <1>9, <1>10, <1>11

\* A pass during which nothing changed or failed leaves exactly what a rebuild would, rows, spans
\* and relations, whatever happened before; a span is never found beside a row of another text, and one whose row has gone
\* still has its watermark (refreshWorkspace, removeVanished, apply).
THEOREM WorkspaceConverges == WorkspaceSpec => []Converged
<1>1. WorkspaceInv => Converged
  <2> SUFFICES ASSUME WorkspaceInv PROVE Converged
    OBVIOUS
  <2>1. \A f \in Files : spans[f] # None => spans[f] = rows[f] \/ (rows[f] = None /\ mark[f].there)
    BY DEF WorkspaceInv, SpansStand
  <2>2. ASSUME scan.at = "done", scan.since = edits, whole
        PROVE  rows = Said /\ spans = Said /\ edges = Derived(Said, Said)
    BY <2>2 DEF WorkspaceInv, Progressing, Quiet
  <2>3. RootTypeOK
    BY DEF WorkspaceInv
  <2> QED
    BY <2>1, <2>2, <2>3, DerivedRelates DEF Converged
<1> QED
  BY <1>1, WorkspaceInvariant, PTL

----------------------------------------------------------------------------
(* Circles.                                                                 *)

\* What lies on the edges from an id.
From(edge, j) == {m \in Ids : Reaches(edge, j, m)}

LEMMA FromCloses ==
  ASSUME NEW edge, edge \subseteq Ids \X Ids, NEW j \in Ids
  PROVE  j \in From(edge, j) /\ \A e \in edge : e[1] \in From(edge, j) => e[2] \in From(edge, j)
<1>1. j \in From(edge, j)
  BY DEF From, Reaches
<1>2. ASSUME NEW e \in edge, e[1] \in From(edge, j) PROVE e[2] \in From(edge, j)
  BY <1>2 DEF From, Reaches
<1> QED
  BY <1>1, <1>2

\* What is in a set that the edges do not leave stays there.
LEMMA FromWithin ==
  ASSUME NEW edge, NEW j, NEW S \in SUBSET Ids, j \in S, \A e \in edge : e[1] \in S => e[2] \in S
  PROVE  \A m : Reaches(edge, j, m) => m \in S
  BY DEF Reaches

LEMMA MoreReach ==
  ASSUME NEW edge, NEW more, edge \subseteq more, NEW j, NEW i, Reaches(edge, j, i)
  PROVE  Reaches(more, j, i)
  BY DEF Reaches

\* The edges that leave an id do not matter to what reaches it.
LEMMA OutDropped ==
  ASSUME NEW edge, NEW less, NEW j, NEW i, Reaches(edge, j, i), \A e \in edge : e \in less \/ e[1] = i
  PROVE  Reaches(less, j, i)
<1>1. SUFFICES ASSUME NEW S \in SUBSET Ids, j \in S, \A e \in less : e[1] \in S => e[2] \in S, i \notin S PROVE FALSE
  BY DEF Reaches
<1>2. \A e \in edge : e[1] \in S => e[2] \in S
  BY <1>1
<1> QED
  BY <1>1, <1>2 DEF Reaches

\* An id that is given edges to ids that do not lead back to it closes no circle.
LEMMA GrowsAcyclic ==
  ASSUME NEW edge, edge \subseteq Ids \X Ids, ~Cyclic(edge), NEW i \in Ids, NEW D \in SUBSET Ids,
         \A d \in D : ~Reaches(edge, d, i),
         NEW grown, \A e \in grown : e \in edge \/ \E d \in D : e = <<i, d>>
  PROVE  ~Cyclic(grown)
<1>1. SUFFICES ASSUME NEW e \in grown, e[1] \in Ids, Reaches(grown, e[2], e[1]) PROVE FALSE
  BY DEF Cyclic
<1>2. e[2] \in Ids /\ (e \in edge \/ \E d \in D : e = <<i, d>>)
  BY <1>1
<1>3. ~(e \in edge /\ Reaches(edge, e[2], e[1]))
  BY <1>1 DEF Cyclic
<1> DEFINE C == From(edge, e[2])
<1>4. C \subseteq Ids /\ e[2] \in C /\ \A f \in edge : f[1] \in C => f[2] \in C
  BY <1>2, FromCloses DEF From
<1>5. CASE i \notin C
  <2>1. \A f \in grown : f[1] \in C => f[2] \in C
    BY <1>4, <1>5
  <2>2. e[1] \in C
    <3> HIDE DEF C
    <3> QED BY <1>1, <1>4, <2>1, FromWithin
  <2>3. Reaches(edge, e[2], e[1])
    BY <2>2 DEF From
  <2> QED
    BY <2>3, <2>2, <1>3, <1>2, <1>5
<1>6. CASE i \in C
  <2> DEFINE S == C \cup UNION {From(edge, d) : d \in D}
  <2>1. \A d \in D : d \in From(edge, d) /\ \A f \in edge : f[1] \in From(edge, d) => f[2] \in From(edge, d)
    BY FromCloses
  <2>2. S \subseteq Ids /\ e[2] \in S
    BY <1>4 DEF From
  <2>3. \A f \in grown : f[1] \in S => f[2] \in S
    BY <1>4, <2>1
  <2>4. e[1] \in S
    <3> HIDE DEF S
    <3> QED BY <1>1, <2>2, <2>3, FromWithin
  <2>5. CASE e[1] \in C /\ e \in edge
    BY <2>5, <1>3 DEF From
  <2>6. CASE e \notin edge
    BY <2>6, <1>2, <1>6 DEF From
  <2>7. CASE e \in edge /\ \E d \in D : e[1] \in From(edge, d)
    <3>1. PICK d \in D : e[1] \in From(edge, d)
      BY <2>7
    <3>2. e[2] \in From(edge, d)
      BY <3>1, <2>7, <2>1
    <3>3. Reaches(edge, e[2], i)
      BY <1>6 DEF From
    <3>4. i \in From(edge, d)
      <4> DEFINE B == From(edge, d)
      <4>1. B \in SUBSET Ids /\ e[2] \in B /\ \A f \in edge : f[1] \in B => f[2] \in B
        BY <3>2, <2>1 DEF From
      <4> HIDE DEF B
      <4>2. i \in B
        BY <4>1, <3>3, FromWithin
      <4> QED BY <4>2 DEF B
    <3> QED
      BY <3>4 DEF From
  <2> QED
    BY <2>4, <2>5, <2>6, <2>7
<1> QED
  BY <1>5, <1>6

LEMMA LessAcyclic ==
  ASSUME NEW edge, ~Cyclic(edge), NEW less, less \subseteq edge
  PROVE  ~Cyclic(less)
  BY MoreReach DEF Cyclic

----------------------------------------------------------------------------
(* The edges of what is filed.                                              *)

Filings == [Slugs -> [Ids -> Task]]
SlugParents(index, s) == ParentEdges(index, {x \in Everyone(index) : x[1] = s})

\* A parent is filed where its child is, and nowhere else.
AtHome(index) ==
  \A s \in Slugs, i \in Ids :
    index[s][i].there /\ index[s][i].parent # NoId => Homes(index, index[s][i].parent) = {s}

SameThere(index, other) == \A s \in Slugs, i \in Ids : index[s][i].there = other[s][i].there
SameEdges(task, other) == task.parent = other.parent /\ ReadDeps(task) = ReadDeps(other)

LEMMA ReadDepsType ==
  ASSUME NEW task \in Task
  PROVE  ReadDeps(task) \subseteq Ids
  BY PlansAssumption DEF ReadDeps, Task

IsParentEdge(e, index, nodes) ==
  \E s \in Slugs, i \in Ids : <<s, i>> \in nodes /\ index[s][i].parent # NoId /\ e = <<i, index[s][i].parent>>
IsDepEdge(e, index, nodes) ==
  \E s \in Slugs, i \in Ids : <<s, i>> \in nodes /\ \E d \in ReadDeps(index[s][i]) : e = <<i, d>>

LEMMA ParentEdgesAre ==
  ASSUME NEW index, NEW nodes \in SUBSET (Slugs \X Ids), NEW e
  PROVE  IsParentEdge(e, index, nodes) <=> e \in ParentEdges(index, nodes)
<1> USE DEF IsParentEdge
<1>1. ASSUME e \in ParentEdges(index, nodes)
      PROVE  \E s \in Slugs, i \in Ids : <<s, i>> \in nodes /\ index[s][i].parent # NoId /\ e = <<i, index[s][i].parent>>
  <2>1. PICK x \in nodes : index[x[1]][x[2]].parent # NoId /\ e = <<x[2], index[x[1]][x[2]].parent>>
    BY <1>1 DEF ParentEdges
  <2>2. x[1] \in Slugs /\ x[2] \in Ids /\ x = <<x[1], x[2]>>
    OBVIOUS
  <2> QED
    BY <2>1, <2>2
<1>2. ASSUME NEW s \in Slugs, NEW i \in Ids, <<s, i>> \in nodes, index[s][i].parent # NoId, e = <<i, index[s][i].parent>>
      PROVE  e \in ParentEdges(index, nodes)
  <2> DEFINE x == <<s, i>>
  <2>1. x \in nodes /\ x[1] = s /\ x[2] = i
    BY <1>2
  <2> HIDE DEF x
  <2> QED
    BY <1>2, <2>1 DEF ParentEdges
<1> QED
  BY <1>1, <1>2

LEMMA DepEdgesAre ==
  ASSUME NEW index, NEW nodes \in SUBSET (Slugs \X Ids), NEW e
  PROVE  IsDepEdge(e, index, nodes) <=> e \in DepEdges(index, nodes)
<1> USE DEF IsDepEdge
<1>1. ASSUME e \in DepEdges(index, nodes)
      PROVE  \E s \in Slugs, i \in Ids : <<s, i>> \in nodes /\ \E d \in ReadDeps(index[s][i]) : e = <<i, d>>
  <2>1. PICK x \in nodes : \E d \in ReadDeps(index[x[1]][x[2]]) : e = <<x[2], d>>
    BY <1>1 DEF DepEdges
  <2>2. x[1] \in Slugs /\ x[2] \in Ids /\ x = <<x[1], x[2]>>
    OBVIOUS
  <2> QED
    BY <2>1, <2>2
<1>2. ASSUME NEW s \in Slugs, NEW i \in Ids, <<s, i>> \in nodes, NEW d \in ReadDeps(index[s][i]), e = <<i, d>>
      PROVE  e \in DepEdges(index, nodes)
  <2> DEFINE x == <<s, i>>
  <2>1. x \in nodes /\ x[1] = s /\ x[2] = i
    BY <1>2
  <2> HIDE DEF x
  <2> QED
    BY <1>2, <2>1 DEF DepEdges
<1> QED
  BY <1>1, <1>2

LEMMA EdgesTypes ==
  ASSUME NEW index \in Filings, NEW nodes \in SUBSET (Slugs \X Ids)
  PROVE  ParentEdges(index, nodes) \subseteq Ids \X Ids /\ DepEdges(index, nodes) \subseteq Ids \X Ids
<1>1. \A s \in Slugs, i \in Ids : index[s][i] \in Task /\ index[s][i].parent \in Ids \cup {NoId} /\ ReadDeps(index[s][i]) \subseteq Ids
  <2>1. \A s \in Slugs, i \in Ids : index[s][i] \in Task
    BY DEF Filings
  <2> QED
    BY <2>1, ReadDepsType DEF Task
<1>2. ASSUME NEW e \in ParentEdges(index, nodes) PROVE e \in Ids \X Ids
  <2>1. IsParentEdge(e, index, nodes)
    BY ParentEdgesAre
  <2>2. PICK s \in Slugs, i \in Ids : index[s][i].parent # NoId /\ e = <<i, index[s][i].parent>>
    BY <2>1 DEF IsParentEdge
  <2> QED
    BY <2>2, <1>1
<1>3. ASSUME NEW e \in DepEdges(index, nodes) PROVE e \in Ids \X Ids
  <2>1. IsDepEdge(e, index, nodes)
    BY DepEdgesAre
  <2>2. PICK s \in Slugs, i \in Ids : \E d \in ReadDeps(index[s][i]) : e = <<i, d>>
    BY <2>1 DEF IsDepEdge
  <2> QED
    BY <2>2, <1>1
<1> QED
  BY <1>2, <1>3

LEMMA SlugParentsAre ==
  ASSUME NEW index, NEW s \in Slugs, NEW e
  PROVE  e \in SlugParents(index, s) <=>
           \E i \in Ids : index[s][i].there /\ index[s][i].parent # NoId /\ e = <<i, index[s][i].parent>>
<1> DEFINE nodes == {x \in Everyone(index) : x[1] = s}
<1>1. nodes \in SUBSET (Slugs \X Ids) /\ \A t \in Slugs, i \in Ids : <<t, i>> \in nodes <=> t = s /\ index[s][i].there
  BY DEF Everyone
<1> HIDE DEF nodes
<1>2. IsParentEdge(e, index, nodes) <=> e \in ParentEdges(index, nodes)
  BY <1>1, ParentEdgesAre
<1>3. IsParentEdge(e, index, nodes) <=>
        \E i \in Ids : index[s][i].there /\ index[s][i].parent # NoId /\ e = <<i, index[s][i].parent>>
  BY <1>1 DEF IsParentEdge
<1> QED
  BY <1>2, <1>3 DEF SlugParents, nodes

LEMMA AllEdgesAre ==
  ASSUME NEW index, NEW e
  PROVE  /\ e \in ParentEdges(index, Everyone(index)) <=>
              \E s \in Slugs, i \in Ids : index[s][i].there /\ index[s][i].parent # NoId /\ e = <<i, index[s][i].parent>>
         /\ e \in DepEdges(index, Everyone(index)) <=>
              \E s \in Slugs, i \in Ids : index[s][i].there /\ \E d \in ReadDeps(index[s][i]) : e = <<i, d>>
<1>1. Everyone(index) \in SUBSET (Slugs \X Ids) /\ \A t \in Slugs, i \in Ids : <<t, i>> \in Everyone(index) <=> index[t][i].there
  BY DEF Everyone
<1>2. /\ IsParentEdge(e, index, Everyone(index)) <=> e \in ParentEdges(index, Everyone(index))
      /\ IsDepEdge(e, index, Everyone(index)) <=> e \in DepEdges(index, Everyone(index))
  BY <1>1, ParentEdgesAre, DepEdgesAre
<1> HIDE DEF Everyone
<1>3. IsParentEdge(e, index, Everyone(index)) <=>
        \E s \in Slugs, i \in Ids : index[s][i].there /\ index[s][i].parent # NoId /\ e = <<i, index[s][i].parent>>
  BY <1>1 DEF IsParentEdge
<1>4. IsDepEdge(e, index, Everyone(index)) <=>
        \E s \in Slugs, i \in Ids : index[s][i].there /\ \E d \in ReadDeps(index[s][i]) : e = <<i, d>>
  BY <1>1 DEF IsDepEdge
<1> QED
  BY <1>2, <1>3, <1>4

\* Parents at home: a circle of parents is within one initiative.
LEMMA ParentsApart ==
  ASSUME NEW index \in Filings, AtHome(index), \A s \in Slugs : ~Cyclic(SlugParents(index, s))
  PROVE  ~Cyclic(ParentEdges(index, Everyone(index)))
<1> DEFINE E == ParentEdges(index, Everyone(index))
<1>1. SUFFICES ASSUME NEW e \in E, e[1] \in Ids, Reaches(E, e[2], e[1]) PROVE FALSE
  BY DEF Cyclic
<1>2. PICK s \in Slugs, i \in Ids : index[s][i].there /\ index[s][i].parent # NoId /\ e = <<i, index[s][i].parent>>
  BY AllEdgesAre
<1>3. e \in SlugParents(index, s) /\ e[2] \in Ids /\ Homes(index, e[2]) = {s}
  <2>1. index[s][i].parent \in Ids
    BY <1>2 DEF Filings, Task
  <2> QED
    BY <1>2, <2>1, SlugParentsAre DEF AtHome
<1>4. Reaches(SlugParents(index, s), e[2], e[1])
  <2>1. SUFFICES ASSUME NEW S \in SUBSET Ids, e[2] \in S, \A f \in SlugParents(index, s) : f[1] \in S => f[2] \in S
                 PROVE e[1] \in S
    BY DEF Reaches
  <2> DEFINE H == {m \in S : Homes(index, m) = {s}}
  <2>2. H \in SUBSET Ids /\ e[2] \in H
    BY <2>1, <1>3
  <2>3. ASSUME NEW f \in E, f[1] \in H PROVE f[2] \in H
    <3>1. PICK t \in Slugs, j \in Ids : index[t][j].there /\ index[t][j].parent # NoId /\ f = <<j, index[t][j].parent>>
      BY AllEdgesAre
    <3>2. t = s
      BY <3>1, <2>3 DEF Homes
    <3>3. f \in SlugParents(index, s) /\ Homes(index, f[2]) = {s}
      BY <3>1, <3>2, SlugParentsAre DEF AtHome
    <3> QED
      BY <3>3, <2>3, <2>1
  <2> HIDE DEF H, E
  <2>4. e[1] \in H
    BY <2>2, <2>3, <1>1, FromWithin
  <2> QED
    BY <2>4 DEF H
<1> QED
  BY <1>1, <1>3, <1>4 DEF Cyclic

LEMMA ParentsTogether ==
  ASSUME NEW index \in Filings, ~Cyclic(ParentEdges(index, Everyone(index))), NEW s \in Slugs
  PROVE  ~Cyclic(SlugParents(index, s))
<1>1. SlugParents(index, s) \subseteq ParentEdges(index, Everyone(index))
  BY SlugParentsAre, AllEdgesAre
<1> QED
  BY <1>1, LessAcyclic

\* Who has the same edges has the same circles.
LEMMA SameCircles ==
  ASSUME NEW index, NEW other, SameThere(index, other)
  PROVE  /\ (\A s \in Slugs, i \in Ids : index[s][i].there => SameEdges(index[s][i], other[s][i])) =>
              DepEdges(index, Everyone(index)) = DepEdges(other, Everyone(other))
         /\ \A s \in Slugs : (\A i \in Ids : index[s][i].there => SameEdges(index[s][i], other[s][i])) =>
              SlugParents(index, s) = SlugParents(other, s)
<1>1. ASSUME \A s \in Slugs, i \in Ids : index[s][i].there => SameEdges(index[s][i], other[s][i])
      PROVE  DepEdges(index, Everyone(index)) = DepEdges(other, Everyone(other))
  <2>1. \A s \in Slugs, i \in Ids : index[s][i].there = other[s][i].there /\
          (index[s][i].there => ReadDeps(index[s][i]) = ReadDeps(other[s][i]))
    BY <1>1 DEF SameThere, SameEdges
  <2>2. \A e : e \in DepEdges(index, Everyone(index)) <=> e \in DepEdges(other, Everyone(other))
    BY <2>1, AllEdgesAre
  <2> QED
    BY <2>2
<1>2. ASSUME NEW s \in Slugs, \A i \in Ids : index[s][i].there => SameEdges(index[s][i], other[s][i])
      PROVE  SlugParents(index, s) = SlugParents(other, s)
  <2>1. \A i \in Ids : index[s][i].there = other[s][i].there /\
          (index[s][i].there => index[s][i].parent = other[s][i].parent)
    BY <1>2 DEF SameThere, SameEdges
  <2>2. \A e : e \in SlugParents(index, s) <=> e \in SlugParents(other, s)
    BY <2>1, SlugParentsAre
  <2> QED
    BY <2>2
<1> QED
  BY <1>1, <1>2

----------------------------------------------------------------------------
(* A write that was not refused.                                            *)

\* The edges that are new, of which nothing leads back.
LEMMA NotRefused ==
  ASSUME NEW index \in Filings, NEW s \in Slugs, NEW i \in Ids, index[s][i].there,
         NEW parent, NEW dep, ~Refused(index, s, i, parent, dep)
  PROVE  /\ parent # NoId => /\ Homes(index, parent) = {s}
                             /\ ~Reaches(ParentEdges(index, Graph(index, s, i)), parent, i)
         /\ \A d \in dep : d \in ReadDeps(index[s][i]) \/ ~Reaches(DepEdges(index, Graph(index, s, i)), d, i)
<1>1. ASSUME parent # NoId PROVE Homes(index, parent) = {s}
  <2>1. /\ ~(Cardinality(Homes(index, parent)) >= 2)
        /\ \E x \in Graph(index, s, i) : x[2] = parent
        /\ Cardinality(Homes(index, parent)) = 1 => Homes(index, parent) = {s}
    BY <1>1 DEF Refused
  <2>2. Homes(index, parent) # {}
    <3>1. PICK x \in Graph(index, s, i) : x[2] = parent
      BY <2>1
    <3>2. x[1] \in Slugs /\ index[x[1]][x[2]].there
      BY <3>1 DEF Graph
    <3> QED
      BY <3>1, <3>2 DEF Homes
  <2>3. IsFiniteSet(Homes(index, parent))
    BY PlansAssumption, FS_Subset DEF Homes
  <2>4. Cardinality(Homes(index, parent)) \in Nat /\ Cardinality(Homes(index, parent)) # 0
    BY <2>2, <2>3, FS_EmptySet, FS_CardinalityType
  <2> QED
    BY <2>1, <2>4
<1>2. parent # NoId => ~Reaches(ParentEdges(index, Graph(index, s, i)), parent, i)
  BY DEF Refused
<1>3. \A d \in dep : d \in ReadDeps(index[s][i]) \/ ~Reaches(DepEdges(index, Graph(index, s, i)), d, i)
  BY DEF Refused
<1> QED
  BY <1>1, <1>2, <1>3

LEMMA DepsGrow ==
  ASSUME NEW index \in Filings, ~Cyclic(DepEdges(index, Everyone(index))),
         NEW s \in Slugs, NEW i \in Ids, index[s][i].there, NEW next \in Task, next.there,
         \A d \in ReadDeps(next) :
           d \in ReadDeps(index[s][i]) \/ ~Reaches(DepEdges(index, Graph(index, s, i)), d, i)
  PROVE  LET other == [index EXCEPT ![s][i] = next] IN ~Cyclic(DepEdges(other, Everyone(other)))
<1> DEFINE other == [index EXCEPT ![s][i] = next]
           E == DepEdges(index, Everyone(index))
           G == DepEdges(index, Graph(index, s, i))
           D == {d \in ReadDeps(next) : d \notin ReadDeps(index[s][i])}
<1>1. other[s][i] = next /\ \A t \in Slugs, j \in Ids : other[t][j] = index[t][j] \/ (t = s /\ j = i)
  <2>1. \A t \in Slugs : index[t] \in [Ids -> Task] /\ other[t] = IF t = s THEN [index[s] EXCEPT ![i] = next] ELSE index[t]
    BY DEF Filings
  <2> QED
    BY <2>1
<1> HIDE DEF other
<1>2. D \in SUBSET Ids
  BY ReadDepsType
<1>3. ASSUME NEW e \in E PROVE e \in G \/ e[1] = i
  <2>1. PICK t \in Slugs, j \in Ids : index[t][j].there /\ \E d \in ReadDeps(index[t][j]) : e = <<j, d>>
    BY AllEdgesAre
  <2>2. CASE j # i
    <3>1. <<t, j>> \in Graph(index, s, i) /\ Graph(index, s, i) \in SUBSET (Slugs \X Ids)
      BY <2>1, <2>2 DEF Graph
    <3>2. IsDepEdge(e, index, Graph(index, s, i))
      BY <2>1, <3>1 DEF IsDepEdge
    <3> QED
      BY <3>1, <3>2, DepEdgesAre
  <2> QED
    BY <2>1, <2>2
<1>4. \A d \in D : ~Reaches(E, d, i)
  <2> HIDE DEF E, G
  <2>1. \A d \in D : ~Reaches(G, d, i)
    BY DEF G
  <2> QED
    BY <2>1, <1>3, OutDropped
<1> DEFINE grown == DepEdges(other, Everyone(other))
<1>5. ASSUME NEW e \in grown PROVE e \in E \/ \E d \in D : e = <<i, d>>
  <2>1. PICK t \in Slugs, j \in Ids : other[t][j].there /\ \E d \in ReadDeps(other[t][j]) : e = <<j, d>>
    BY AllEdgesAre
  <2>2. PICK d \in ReadDeps(other[t][j]) : e = <<j, d>>
    BY <2>1
  <2>3. CASE t = s /\ j = i
    <3>1. d \in D \/ d \in ReadDeps(index[s][i])
      BY <1>1, <2>2, <2>3
    <3> QED
      BY <3>1, <2>2, <2>3, AllEdgesAre
  <2>4. CASE other[t][j] = index[t][j]
    BY <2>4, <2>1, AllEdgesAre
  <2> QED
    BY <2>3, <2>4, <1>1
<1>6. E \subseteq Ids \X Ids
  <2>1. Everyone(index) \in SUBSET (Slugs \X Ids)
    BY DEF Everyone
  <2> QED
    BY <2>1, EdgesTypes
<1>7. ~Cyclic(grown)
  <2> HIDE DEF D, E, grown
  <2>1. ~Cyclic(E)
    BY DEF E
  <2> QED
    BY ONLY i \in Ids, <2>1, <1>2, <1>4, <1>5, <1>6, GrowsAcyclic
<1> QED
  BY <1>7 DEF other

LEMMA ParentsGrow ==
  ASSUME NEW index \in Filings, NEW s \in Slugs, ~Cyclic(SlugParents(index, s)),
         NEW i \in Ids, index[s][i].there, NEW next \in Task, next.there,
         \/ next.parent = index[s][i].parent
         \/ next.parent \in Ids /\ ~Reaches(ParentEdges(index, Graph(index, s, i)), next.parent, i)
  PROVE  LET other == [index EXCEPT ![s][i] = next] IN ~Cyclic(SlugParents(other, s))
<1> DEFINE other == [index EXCEPT ![s][i] = next]
           E == SlugParents(index, s)
           G == ParentEdges(index, Graph(index, s, i))
           D == {d \in {next.parent} : d # index[s][i].parent}
<1>1. other[s][i] = next /\ \A j \in Ids : other[s][j] = index[s][j] \/ j = i
  BY DEF Filings
<1> HIDE DEF other
<1>2. D \in SUBSET Ids
  OBVIOUS
<1>3. ASSUME NEW e \in E PROVE e \in G
  <2>1. PICK j \in Ids : index[s][j].there /\ index[s][j].parent # NoId /\ e = <<j, index[s][j].parent>>
    BY SlugParentsAre
  <2>2. <<s, j>> \in Graph(index, s, i) /\ Graph(index, s, i) \in SUBSET (Slugs \X Ids)
    BY <2>1 DEF Graph
  <2>3. IsParentEdge(e, index, Graph(index, s, i))
    BY <2>1, <2>2 DEF IsParentEdge
  <2> QED
    BY <2>2, <2>3, ParentEdgesAre
<1>4. \A d \in D : ~Reaches(E, d, i)
  <2> HIDE DEF E, G
  <2>1. \A d \in D : ~Reaches(G, d, i)
    BY DEF G
  <2>2. E \subseteq G
    BY <1>3
  <2> QED
    BY <2>1, <2>2, MoreReach
<1>5. ASSUME NEW e \in SlugParents(other, s) PROVE e \in E \/ \E d \in D : e = <<i, d>>
  <2>1. PICK j \in Ids : other[s][j].there /\ other[s][j].parent # NoId /\ e = <<j, other[s][j].parent>>
    BY SlugParentsAre
  <2>2. CASE j = i /\ next.parent # index[s][i].parent
    BY <1>1, <2>1, <2>2
  <2>3. CASE j # i \/ next.parent = index[s][i].parent
    <3>1. index[s][j].there /\ index[s][j].parent = other[s][j].parent
      BY <2>3, <2>1, <1>1
    <3> QED
      BY <3>1, <2>1, SlugParentsAre
  <2> QED
    BY <2>2, <2>3
<1>6. E \subseteq Ids \X Ids
  <2>1. {x \in Everyone(index) : x[1] = s} \in SUBSET (Slugs \X Ids)
    BY DEF Everyone
  <2> QED
    BY <2>1, EdgesTypes DEF SlugParents
<1>7. ~Cyclic(SlugParents(other, s))
  <2> HIDE DEF D, E
  <2>1. ~Cyclic(E)
    BY DEF E
  <2> QED
    BY <2>1, <1>2, <1>4, <1>5, <1>6, GrowsAcyclic
<1> QED
  BY <1>7 DEF other

----------------------------------------------------------------------------
(* Recursive functions over a range, step by step.                          *)

\* What holds at the start, and from each number to the next, holds up to the last.
LEMMA Upwards ==
  ASSUME NEW N \in Nat, NEW S, 0 \in S, \A n \in 0..(N - 1) : n \in S => n + 1 \in S
  PROVE  0..N \subseteq S
<1> DEFINE bad == {n \in Nat : n <= N /\ n \notin S}
<1>1. SUFFICES ASSUME bad # {} PROVE FALSE
  BY DEF bad
<1>2. PICK n \in bad : \A m \in bad : ~(<<m, n>> \in OpToRel(<, Nat))
  BY <1>1, NatLessThanWellFounded, WFMin
<1>3. n \in Nat /\ n <= N /\ n \notin S /\ n # 0
  BY <1>2
<1>4. n - 1 \in Nat /\ n - 1 <= N /\ n - 1 \in S
  <2>1. n - 1 \in Nat /\ n - 1 <= N /\ n - 1 < n
    BY <1>3
  <2>2. <<n - 1, n>> \in OpToRel(<, Nat)
    BY <2>1, <1>3 DEF OpToRel
  <2> QED
    BY <1>2, <2>1, <2>2
<1> QED
  BY <1>3, <1>4

Follows(f, N, b, F) == f[0] = b /\ \A n \in 1..N : f[n] = F[n][f[n - 1]]

LEMMA FollowerExists ==
  ASSUME NEW N \in Nat, NEW X, NEW b \in X, NEW F \in [1..N -> [X -> X]]
  PROVE  \E f \in [0..N -> X] : Follows(f, N, b, F)
<1> DEFINE S == {n \in 0..N : \E f \in [0..n -> X] : Follows(f, n, b, F)}
<1>1. 0 \in S
  <2> DEFINE f == [n \in 0..0 |-> b]
  <2>1. f \in [0..0 -> X] /\ Follows(f, 0, b, F)
    BY DEF Follows
  <2> HIDE DEF f
  <2> QED
    BY <2>1
<1>2. ASSUME NEW n \in 0..(N - 1), n \in S PROVE n + 1 \in S
  <2>1. PICK f \in [0..n -> X] : Follows(f, n, b, F)
    BY <1>2
  <2> DEFINE g == [m \in 0..(n + 1) |-> IF m = n + 1 THEN F[n + 1][f[n]] ELSE f[m]]
  <2>2. g \in [0..(n + 1) -> X] /\ g[0] = b
    BY <2>1 DEF Follows
  <2>3. ASSUME NEW m \in 1..(n + 1) PROVE g[m] = F[m][g[m - 1]]
    <3>1. n \in Nat /\ m \in 0..(n + 1) /\ m - 1 \in 0..n /\ m - 1 # n + 1 /\ m - 1 \in 0..(n + 1)
      OBVIOUS
    <3>2. g[m - 1] = f[m - 1]
      BY <3>1
    <3>3. CASE m = n + 1
      BY <3>1, <3>2, <3>3
    <3>4. CASE m # n + 1
      <4>1. g[m] = f[m] /\ m \in 1..n
        BY <3>1, <3>4
      <4> QED
        BY <4>1, <3>2, <2>1 DEF Follows
    <3> QED
      BY <3>3, <3>4
  <2> HIDE DEF g
  <2>4. Follows(g, n + 1, b, F)
    BY <2>2, <2>3 DEF Follows
  <2> QED
    BY <2>2, <2>3, <2>4
<1>3. 0..N \subseteq S
  <2> HIDE DEF S
  <2> QED
    BY <1>1, <1>2, Upwards
<1>4. N \in S
  BY <1>3
<1> QED
  BY <1>4

----------------------------------------------------------------------------
(* The operations of a line, and the lines of a plan.                       *)

EdgeNames == {"set_parent", "add_dep"}
Edgeless(ops) == \A n \in DOMAIN ops : ops[n].op \notin EdgeNames
TagsAdded(ops) == {t \in Tags : \E n \in DOMAIN ops : ops[n].op = "add_tag" /\ ops[n].value = t}
FieldHides(task) == task.field \/ task.dep = {}

\* What operations can have made of a task.
Made(task, ops, t) ==
  /\ t \in Task /\ t.there = task.there /\ FieldHides(t) /\ (task.field => t.field)
  /\ t.parent = task.parent \/ t.parent \in Ids
  /\ t.tags \subseteq task.tags \cup TagsAdded(ops)
  /\ Edgeless(ops) => t.field = task.field /\ t.dep = task.dep /\ t.parent = task.parent

LEMMA SteppedMade ==
  ASSUME NEW task \in Task, NEW ops \in Seq(Operation), NEW t, Made(task, ops, t), NEW n \in DOMAIN ops,
         NEW i \in Ids, NEW index
  PROVE  Made(task, ops, Stepped(t, i, ops[n], index))
<1> DEFINE o == ops[n]
           u == Stepped(t, i, o, index)
<1>1. o \in Operation
  OBVIOUS
<1>2. t \in Task
  BY DEF Made
<1> HIDE DEF o
<1>3. CASE o.op = "done"
  <2>1. u = [t EXCEPT !.done = TRUE]
    BY <1>3 DEF Stepped
  <2> HIDE DEF u
  <2>2. u \in Task /\ u.there = t.there /\ u.field = t.field /\ u.dep = t.dep /\ u.parent = t.parent /\ u.tags = t.tags
    BY <2>1, <1>2 DEF Task
  <2>3. Made(task, ops, u)
    BY <2>2 DEF Made, FieldHides
  <2> QED
    BY <2>3 DEF u, o
<1>4. CASE o.op = "append"
  <2>1. o.value \in Lines /\ u = Appended(t, o.value)
    BY <1>4, <1>1 DEF Stepped, Operation
  <2> HIDE DEF u
  <2>2. u \in Task /\ u.there = t.there /\ u.field = t.field /\ u.dep = t.dep /\ u.parent = t.parent /\ u.tags = t.tags
    <3>1. u = t \/ u = [t EXCEPT !.notes = [t.notes EXCEPT ![o.value] = @ + 1]]
      BY <2>1 DEF Appended
    <3>2. [t.notes EXCEPT ![o.value] = @ + 1] \in [Lines -> Nat]
      BY <2>1, <1>2 DEF Task
    <3> QED
      BY <3>1, <3>2, <1>2 DEF Task
  <2>3. Made(task, ops, u)
    BY <2>2 DEF Made, FieldHides
  <2> QED
    BY <2>3 DEF u, o
<1>5. CASE o.op = "add_tag"
  <2>1. o.value \in Tags /\ u = [t EXCEPT !.tags = @ \cup {o.value}]
    BY <1>5, <1>1 DEF Stepped, Operation
  <2> HIDE DEF u
  <2>2. u \in Task /\ u.there = t.there /\ u.field = t.field /\ u.dep = t.dep /\ u.parent = t.parent
          /\ u.tags = t.tags \cup {o.value}
    BY <2>1, <1>2 DEF Task
  <2>3. o.value \in TagsAdded(ops)
    BY <2>1, <1>5 DEF TagsAdded, o
  <2>4. Made(task, ops, u)
    BY <2>2, <2>3 DEF Made, FieldHides
  <2> QED
    BY <2>4 DEF u, o
<1>6. CASE o.op = "remove_tag"
  <2>1. o.value \in Tags /\ u = [t EXCEPT !.tags = @ \ {o.value}]
    BY <1>6, <1>1 DEF Stepped, Operation
  <2> HIDE DEF u
  <2>2. u \in Task /\ u.there = t.there /\ u.field = t.field /\ u.dep = t.dep /\ u.parent = t.parent
          /\ u.tags \subseteq t.tags
    BY <2>1, <1>2 DEF Task
  <2>3. Made(task, ops, u)
    BY <2>2 DEF Made, FieldHides
  <2> QED
    BY <2>3 DEF u, o
<1>7. CASE o.op = "set_parent"
  <2>1. o.value \in Ids /\ u = [t EXCEPT !.parent = o.value]
    BY <1>7, <1>1 DEF Stepped, Operation
  <2> HIDE DEF u
  <2>2. u \in Task /\ u.there = t.there /\ u.field = t.field /\ u.dep = t.dep /\ u.parent \in Ids /\ u.tags = t.tags
    BY <2>1, <1>2 DEF Task
  <2>3. ~Edgeless(ops)
    BY <1>7 DEF Edgeless, EdgeNames, o
  <2>4. Made(task, ops, u)
    BY <2>2, <2>3 DEF Made, FieldHides
  <2> QED
    BY <2>4 DEF u, o
<1>8. CASE o.op = "add_dep"
  <2>1. o.value \in Ids
        /\ u = IF t.field /\ o.value \in t.dep THEN t
               ELSE [t EXCEPT !.field = TRUE, !.dep = Carried(t, i, index) \cup {o.value}]
    BY <1>8, <1>1 DEF Stepped, Operation
  <2> HIDE DEF u
  <2>2. Carried(t, i, index) \subseteq Ids
    <3>1. ReadDeps(t) \subseteq Ids /\ t.dep \subseteq Ids
      BY <1>2, ReadDepsType DEF Task
    <3> QED
      BY <3>1 DEF Carried
  <2>3. ~Edgeless(ops)
    BY <1>8 DEF Edgeless, EdgeNames, o
  <2>4. u \in Task /\ u.there = t.there /\ u.field /\ u.parent = t.parent /\ u.tags = t.tags
    BY <2>1, <2>2, <1>2 DEF Task
  <2>5. Made(task, ops, u)
    BY <2>4, <2>3 DEF Made, FieldHides
  <2> QED
    BY <2>5 DEF u, o
<1>9. o.op \in {"done", "append", "add_tag", "remove_tag", "set_parent", "add_dep"}
  BY <1>1 DEF Operation
<1> QED
  BY <1>3, <1>4, <1>5, <1>6, <1>7, <1>8, <1>9

\* The operations of a line are done one by one.
LEMMA OperatedRuns ==
  ASSUME NEW task \in Task, FieldHides(task), NEW ops \in Seq(Operation), NEW i \in Ids, NEW index
  PROVE  \E r : /\ r[0] = task /\ Operated(task, i, ops, index) = r[Len(ops)]
                /\ \A n \in 1..Len(ops) : r[n] = Stepped(r[n - 1], i, ops[n], index)
                /\ \A n \in 0..Len(ops) : Made(task, ops, r[n])
<1> DEFINE N == Len(ops)
           X == {t \in Task : Made(task, ops, t)}
           F == [n \in 1..N |-> [t \in X |-> Stepped(t, i, ops[n], index)]]
           is(f) == f = [n \in 0..N |-> IF n = 0 THEN task ELSE Stepped(f[n - 1], i, ops[n], index)]
<1>1. N \in Nat /\ DOMAIN ops = 1..N
  OBVIOUS
<1>2. task \in X
  BY DEF Made
<1>3. ASSUME NEW t \in X, NEW n \in 1..N PROVE Stepped(t, i, ops[n], index) \in X
  <2>1. Made(task, ops, Stepped(t, i, ops[n], index))
    BY <1>1, SteppedMade
  <2> QED
    BY <2>1 DEF Made
<1> HIDE DEF N, X
<1>4. F \in [1..N -> [X -> X]]
  BY <1>3
<1>5. PICK f \in [0..N -> X] : f[0] = task /\ \A n \in 1..N : f[n] = F[n][f[n - 1]]
  <2> HIDE DEF F
  <2>1. \E f \in [0..N -> X] : Follows(f, N, task, F)
    BY ONLY <1>1, <1>2, <1>4, FollowerExists
  <2> QED
    BY <2>1 DEF Follows
<1>6. ASSUME NEW n \in 1..N PROVE f[n] = Stepped(f[n - 1], i, ops[n], index)
  <2>1. n - 1 \in 0..N /\ f[n - 1] \in X
    BY <1>1, <1>5
  <2>2. F[n][f[n - 1]] = Stepped(f[n - 1], i, ops[n], index)
    BY <2>1
  <2> QED
    BY <1>5, <2>2
<1>7. is(f)
  BY <1>1, <1>5, <1>6
<1> DEFINE r == CHOOSE g : is(g)
<1>8. is(r)
  BY <1>7
<1>9. Operated(task, i, ops, index) = r[N]
  BY DEF Operated, N
<1>10. r[0] = task /\ \A n \in 1..N : r[n] = Stepped(r[n - 1], i, ops[n], index)
  <2> HIDE DEF r
  <2> QED
    BY <1>1, <1>8
<1> HIDE DEF r, F
<1>11. \A n \in 0..N : r[n] \in X
  <2> DEFINE S == {n \in 0..N : r[n] \in X}
  <2>1. 0 \in S
    BY <1>10, <1>2, <1>1
  <2>2. \A n \in 0..(N - 1) : n \in S => n + 1 \in S
    <3>1. SUFFICES ASSUME NEW n \in 0..(N - 1), r[n] \in X PROVE r[n + 1] \in X /\ n + 1 \in 0..N
      BY DEF S
    <3>2. n + 1 \in 1..N /\ (n + 1) - 1 = n
      BY <1>1
    <3> QED
      BY <3>1, <3>2, <1>10, <1>3
  <2> HIDE DEF S
  <2>3. 0..N \subseteq S
    BY <2>1, <2>2, <1>1, Upwards
  <2> QED
    BY <2>3, <1>1 DEF S
<1> QED
  BY <1>9, <1>10, <1>11 DEF X, N

LEMMA OperatedMade ==
  ASSUME NEW task \in Task, FieldHides(task), NEW ops \in Seq(Operation), NEW i \in Ids, NEW index
  PROVE  Made(task, ops, Operated(task, i, ops, index))
<1>1. Len(ops) \in 0..Len(ops)
  OBVIOUS
<1> QED
  BY <1>1, OperatedRuns

\* The dependencies that operations add are in the field, or stand for tags that they add.
LEMMA MadeDeps ==
  ASSUME NEW task \in Task, FieldHides(task), NEW ops, NEW t, Made(task, ops, t), NEW d \in ReadDeps(t)
  PROVE  \/ d \in ReadDeps(task)
         \/ t.dep # task.dep /\ d \in t.dep
         \/ \E tag \in TagsAdded(ops) : DepOf[tag] # NoId
<1>1. CASE t.field
  BY <1>1 DEF Made, ReadDeps, FieldHides
<1>2. CASE ~t.field
  <2>1. PICK tag \in t.tags : d = DepOf[tag] /\ d # NoId
    BY <1>2 DEF ReadDeps
  <2>2. ~task.field /\ tag \in task.tags \cup TagsAdded(ops)
    BY <1>2, <2>1 DEF Made
  <2> QED
    BY <2>1, <2>2 DEF ReadDeps
<1> QED
  BY <1>1, <1>2

RunType == [task : Task, index : Filings, failed : BOOLEAN]
OldTag(tag) == DepOf[tag] # NoId

\* What lines can have made of a task and of the index, as far as the index is right
\* about the task to begin with.
RanTask(acc, index, task, s, i, added, edgeless) ==
  /\ acc.task.there = task.there /\ FieldHides(acc.task)
  /\ \/ acc.task.parent = task.parent
     \/ acc.task.parent \in Ids /\ (index[s][i].there => Homes(index, acc.task.parent) = {s})
  /\ edgeless => /\ acc.task.field = task.field /\ acc.task.dep = task.dep /\ acc.task.parent = task.parent
                 /\ acc.task.tags \subseteq task.tags \cup added
RanIndex(acc, index, task, s, i, added) ==
  /\ \A t \in Slugs, j \in Ids : acc.index[t][j] = index[t][j] \/ (t = s /\ j = i)
  /\ acc.index[s][i].there = index[s][i].there
  /\ index[s][i].there /\ SameEdges(index[s][i], task) =>
       /\ SameEdges(acc.index[s][i], acc.task)
       /\ ~Cyclic(SlugParents(index, s)) => ~Cyclic(SlugParents(acc.index, s))
       /\ ~Cyclic(DepEdges(index, Everyone(index))) /\ (\A tag \in added : ~OldTag(tag)) =>
            ~Cyclic(DepEdges(acc.index, Everyone(acc.index)))

LEMMA EnteredRan ==
  ASSUME NEW s \in Slugs, NEW i \in Ids, NEW index \in Filings, NEW task \in Task, task.there,
         NEW added, NEW edgeless \in BOOLEAN, NEW acc \in RunType,
         RanTask(acc, index, task, s, i, added, edgeless), RanIndex(acc, index, task, s, i, added),
         NEW line \in PlanLine, TagsAdded(line.ops) \subseteq added, edgeless => Edgeless(line.ops)
  PROVE  LET new == Entered(acc, s, i, line)
         IN  /\ new \in RunType
             /\ RanTask(new, index, task, s, i, added, edgeless) /\ RanIndex(new, index, task, s, i, added)
<1> DEFINE next == Operated(acc.task, i, line.ops, acc.index)
           new == Entered(acc, s, i, line)
<1>1. line.ops \in Seq(Operation) /\ acc.task \in Task /\ acc.index \in Filings /\ FieldHides(acc.task)
  BY DEF PlanLine, RunType, RanTask
<1>2. Made(acc.task, line.ops, next)
  BY <1>1, OperatedMade
<1>3. next \in Task /\ next.there /\ FieldHides(next)
  BY <1>2 DEF Made, RanTask
<1>4. new = IF LineRefused(acc.index, s, i, acc.task, next) THEN [acc EXCEPT !.failed = TRUE]
            ELSE [acc EXCEPT !.task = next, !.index[s][i] = IF acc.index[s][i].there THEN next ELSE @]
  BY DEF Entered
<1> HIDE DEF next, new
<1>5. CASE LineRefused(acc.index, s, i, acc.task, next)
  <2>1. new \in RunType /\ new.task = acc.task /\ new.index = acc.index
    BY <1>4, <1>5 DEF RunType
  <2>2. RanTask(new, index, task, s, i, added, edgeless)
    BY <2>1 DEF RanTask
  <2>3. RanIndex(new, index, task, s, i, added)
    BY <2>1 DEF RanIndex
  <2> QED
    BY <2>1, <2>2, <2>3 DEF new
<1>6. CASE ~LineRefused(acc.index, s, i, acc.task, next)
  <2> DEFINE other == [acc.index EXCEPT ![s][i] = next]
  <2>1. other \in Filings /\ other[s][i] = next
        /\ \A t \in Slugs, j \in Ids : other[t][j] = acc.index[t][j] \/ (t = s /\ j = i)
    <3>1. \A t \in Slugs : acc.index[t] \in [Ids -> Task] /\ other[t] = IF t = s THEN [acc.index[s] EXCEPT ![i] = next] ELSE acc.index[t]
      BY <1>1 DEF Filings
    <3>2. other \in Filings
      BY <1>1, <1>3 DEF Filings
    <3> QED
      BY <3>1, <3>2
  <2>2. new.task = next /\ new.failed = acc.failed
        /\ new.index = IF acc.index[s][i].there THEN other ELSE acc.index
    <3>1. new = [acc EXCEPT !.task = next, !.index[s][i] = IF acc.index[s][i].there THEN next ELSE @]
      BY <1>4, <1>6
    <3>2. CASE acc.index[s][i].there
      BY <3>1, <3>2 DEF RunType
    <3>3. CASE ~acc.index[s][i].there
      <4>1. [acc.index EXCEPT ![s][i] = @] = acc.index
        BY <1>1 DEF Filings
      <4> QED
        BY <3>1, <3>3, <4>1 DEF RunType
    <3> QED
      BY <3>2, <3>3
  <2>3. new = [task |-> next, index |-> new.index, failed |-> new.failed]
    BY <1>4, <1>6 DEF RunType
  <2> HIDE DEF other
  <2>4. new \in RunType
    <3>1. new.index \in Filings /\ new.failed \in BOOLEAN
      BY <2>1, <2>2, <1>1 DEF RunType
    <3> QED
      BY <2>3, <3>1, <1>3 DEF RunType
  <2> DEFINE parent == IF next.parent = acc.task.parent THEN NoId ELSE next.parent
             dep == IF next.dep = acc.task.dep THEN {} ELSE next.dep
  <2>5. (parent = NoId /\ dep = {}) \/ ~Refused(acc.index, s, i, parent, dep)
    BY <1>6 DEF LineRefused
  <2>6. acc.index[s][i].there =>
          /\ next.parent # acc.task.parent =>
               /\ next.parent \in Ids /\ Homes(acc.index, next.parent) = {s}
               /\ ~Reaches(ParentEdges(acc.index, Graph(acc.index, s, i)), next.parent, i)
          /\ next.dep # acc.task.dep => \A d \in next.dep :
               d \in ReadDeps(acc.index[s][i]) \/ ~Reaches(DepEdges(acc.index, Graph(acc.index, s, i)), d, i)
    <3>1. next.parent # acc.task.parent => next.parent \in Ids /\ next.parent # NoId
      BY <1>2, PlansAssumption DEF Made
    <3>2. CASE parent = NoId /\ dep = {}
      BY <3>1, <3>2
    <3>3. CASE ~Refused(acc.index, s, i, parent, dep)
      <4> HIDE DEF parent, dep
      <4>1. acc.index[s][i].there =>
              /\ parent # NoId => /\ Homes(acc.index, parent) = {s}
                                  /\ ~Reaches(ParentEdges(acc.index, Graph(acc.index, s, i)), parent, i)
              /\ \A d \in dep : d \in ReadDeps(acc.index[s][i]) \/ ~Reaches(DepEdges(acc.index, Graph(acc.index, s, i)), d, i)
        BY <3>3, <1>1, NotRefused
      <4> QED
        BY <4>1, <3>1 DEF parent, dep
    <3> QED
      BY <2>5, <3>2, <3>3
  <2> HIDE DEF parent, dep
  <2>7. \A m \in Ids : Homes(acc.index, m) = Homes(index, m)
    <3>1. \A t \in Slugs, j \in Ids : acc.index[t][j].there = index[t][j].there
      BY DEF RanIndex
    <3> QED
      BY <3>1 DEF Homes
  <2>8. RanTask(new, index, task, s, i, added, edgeless)
    <3>1. \/ new.task.parent = task.parent
          \/ new.task.parent \in Ids /\ (index[s][i].there => Homes(index, new.task.parent) = {s})
      BY <1>2, <2>2, <2>6, <2>7 DEF RanTask, RanIndex, Made
    <3>2. edgeless => /\ new.task.field = task.field /\ new.task.dep = task.dep /\ new.task.parent = task.parent
                      /\ new.task.tags \subseteq task.tags \cup added
      BY <2>2, <1>2 DEF RanTask, Made
    <3> QED
      BY <3>1, <3>2, <2>2, <1>3 DEF RanTask
  <2>9. RanIndex(new, index, task, s, i, added)
    <3>1. CASE ~acc.index[s][i].there
      BY <3>1, <2>2 DEF RanIndex
    <3>2. CASE acc.index[s][i].there
      <4>1. new.index = other /\ index[s][i].there
        BY <3>2, <2>2 DEF RanIndex
      <4>2. ASSUME SameEdges(index[s][i], task), ~Cyclic(SlugParents(index, s)) PROVE ~Cyclic(SlugParents(other, s))
        <5>1. ~Cyclic(SlugParents(acc.index, s)) /\ acc.index[s][i].parent = acc.task.parent
          BY <4>1, <4>2 DEF RanIndex, SameEdges
        <5> QED
          BY <5>1, <2>6, <3>2, <1>1, <1>3, ParentsGrow DEF other
      <4>3. ASSUME SameEdges(index[s][i], task), ~Cyclic(DepEdges(index, Everyone(index))), \A tag \in added : ~OldTag(tag)
            PROVE  ~Cyclic(DepEdges(other, Everyone(other)))
        <5>1. ~Cyclic(DepEdges(acc.index, Everyone(acc.index))) /\ ReadDeps(acc.index[s][i]) = ReadDeps(acc.task)
          BY <4>1, <4>3 DEF RanIndex, SameEdges
        <5>2. ASSUME NEW d \in ReadDeps(next)
              PROVE  d \in ReadDeps(acc.index[s][i]) \/ ~Reaches(DepEdges(acc.index, Graph(acc.index, s, i)), d, i)
          <6>1. d \in ReadDeps(acc.task) \/ (next.dep # acc.task.dep /\ d \in next.dep)
            BY <1>1, <1>2, <4>3, MadeDeps DEF OldTag
          <6> QED
            BY <6>1, <5>1, <2>6, <3>2
        <5> QED
          BY <5>1, <5>2, <3>2, <1>1, <1>3, DepsGrow DEF other
      <4>4. /\ \A t \in Slugs, j \in Ids : new.index[t][j] = index[t][j] \/ (t = s /\ j = i)
            /\ new.index[s][i].there = index[s][i].there
        BY <4>1, <2>1, <1>3 DEF RanIndex
      <4>5. SameEdges(new.index[s][i], new.task)
        BY <4>1, <2>1, <2>2 DEF SameEdges
      <4> QED
        BY <4>1, <4>2, <4>3, <4>4, <4>5 DEF RanIndex
    <3> QED
      BY <3>1, <3>2
  <2> QED
    BY <2>4, <2>8, <2>9 DEF new
<1> QED
  BY <1>5, <1>6

Edgy(call) == \E n \in DOMAIN call.lines : EdgeOps(call.lines[n])
TagsOf(p, s, i) == UNION {TagsAdded(Line(p, n).ops) : n \in LinesOf(p, s, i)}

\* The lines of a plan for a task are gone through one by one.
LEMMA TaskRunRuns ==
  ASSUME NEW p \in Procs, proc[p].call \in Plans, proc[p].rest \subseteq Valid(proc[p].call),
         proc[p].index \in Filings, tasks \in Filings,
         NEW s \in Slugs, NEW i \in Ids, tasks[s][i].there, FieldHides(tasks[s][i])
  PROVE  LET N == Len(proc[p].call.lines)
         IN  \E r : /\ r[0] = [task |-> tasks[s][i], index |-> proc[p].index, failed |-> FALSE]
                    /\ TaskRun(p, s, i) = r[N]
                    /\ \A n \in 1..N :
                         r[n] = IF n \in LinesOf(p, s, i) THEN Entered(r[n - 1], s, i, Line(p, n)) ELSE r[n - 1]
                    /\ \A n \in 0..N :
                         /\ r[n] \in RunType
                         /\ RanTask(r[n], proc[p].index, tasks[s][i], s, i, TagsOf(p, s, i), ~Edgy(proc[p].call))
                        /\ RanIndex(r[n], proc[p].index, tasks[s][i], s, i, TagsOf(p, s, i))
<1> DEFINE lines == proc[p].call.lines
           N == Len(lines)
           index == proc[p].index
           task == tasks[s][i]
           added == TagsOf(p, s, i)
           edgeless == ~Edgy(proc[p].call)
           mine == LinesOf(p, s, i)
           start == [task |-> task, index |-> index, failed |-> FALSE]
           Ran(acc) == RanTask(acc, index, task, s, i, added, edgeless) /\ RanIndex(acc, index, task, s, i, added)
           X == {acc \in RunType : Ran(acc)}
           G(n, acc) == IF n \in mine THEN Entered(acc, s, i, lines[n]) ELSE acc
           F == [n \in 1..N |-> [acc \in X |-> G(n, acc)]]
           is(f) == f = [n \in 0..N |-> IF n = 0 THEN start ELSE G(n, f[n - 1])]
<1>1. lines \in Seq(PlanLine) /\ N \in Nat /\ DOMAIN lines = 1..N
  BY PlansAssumption
<1>2. index \in Filings /\ task \in Task /\ task.there /\ FieldHides(task) /\ edgeless \in BOOLEAN
  BY DEF Filings
<1>3. start \in X
  <2>1. start \in RunType /\ start.task = task /\ start.index = index
    BY <1>2 DEF RunType
  <2> HIDE DEF start
  <2>2. Ran(start)
    BY <2>1, <1>2 DEF RanTask, RanIndex
  <2> QED
    BY <2>1, <2>2
<1>4. ASSUME NEW n \in mine PROVE /\ lines[n] \in PlanLine /\ TagsAdded(lines[n].ops) \subseteq added
                                  /\ edgeless => Edgeless(lines[n].ops)
  <2>1. n \in DOMAIN lines /\ lines[n].ok /\ lines[n] \in PlanLine
    BY <1>1 DEF LinesOf, Valid
  <2>2. TagsAdded(lines[n].ops) \subseteq added
    BY DEF TagsOf, Line
  <2>3. edgeless => ~EdgeOps(lines[n])
    BY <2>1 DEF Edgy
  <2>4. edgeless => Edgeless(lines[n].ops)
    BY <2>3, <2>1 DEF EdgeOps, Edgeless, EdgeNames
  <2> QED
    BY <2>1, <2>2, <2>4
<1> HIDE DEF lines, N, index, task, added, edgeless, mine, start
<1>5. ASSUME NEW acc \in X, NEW n \in 1..N PROVE G(n, acc) \in X
  <2>1. CASE n \in mine
    <3>1. acc \in RunType /\ RanTask(acc, index, task, s, i, added, edgeless) /\ RanIndex(acc, index, task, s, i, added)
      OBVIOUS
    <3>2. /\ Entered(acc, s, i, lines[n]) \in RunType
          /\ RanTask(Entered(acc, s, i, lines[n]), index, task, s, i, added, edgeless)
          /\ RanIndex(Entered(acc, s, i, lines[n]), index, task, s, i, added)
      BY ONLY s \in Slugs, i \in Ids, <3>1, <1>2, <2>1, <1>4, EnteredRan
    <3> QED
      BY <2>1, <3>2
  <2>2. CASE n \notin mine
    BY <2>2
  <2> QED
    BY <2>1, <2>2
<1> HIDE DEF X, G
<1>6. F \in [1..N -> [X -> X]]
  BY <1>5
<1>7. PICK f \in [0..N -> X] : f[0] = start /\ \A n \in 1..N : f[n] = F[n][f[n - 1]]
  <2> HIDE DEF F
  <2>1. \E f \in [0..N -> X] : Follows(f, N, start, F)
    BY ONLY <1>1, <1>3, <1>6, FollowerExists
  <2> QED
    BY <2>1 DEF Follows
<1>8. ASSUME NEW n \in 1..N PROVE f[n] = G(n, f[n - 1])
  <2>1. n - 1 \in 0..N /\ f[n - 1] \in X
    BY <1>1, <1>7
  <2>2. F[n][f[n - 1]] = G(n, f[n - 1])
    BY <2>1
  <2> QED
    BY <1>7, <2>2
<1>9. is(f)
  BY <1>1, <1>7, <1>8
<1> DEFINE r == CHOOSE g : is(g)
<1>10. is(r)
  BY <1>9
<1>11. TaskRun(p, s, i) = r[N]
  BY DEF TaskRun, N, G, lines, start, task, index, mine, Line
<1>12. r[0] = start /\ \A n \in 1..N : r[n] = G(n, r[n - 1])
  <2> HIDE DEF r
  <2> QED
    BY <1>1, <1>10
<1> HIDE DEF r, F
<1>13. \A n \in 0..N : r[n] \in X
  <2> DEFINE S == {n \in 0..N : r[n] \in X}
  <2>1. 0 \in S
    BY <1>12, <1>3, <1>1
  <2>2. \A n \in 0..(N - 1) : n \in S => n + 1 \in S
    <3>1. SUFFICES ASSUME NEW n \in 0..(N - 1), r[n] \in X PROVE r[n + 1] \in X /\ n + 1 \in 0..N
      BY DEF S
    <3>2. n + 1 \in 1..N /\ (n + 1) - 1 = n
      BY <1>1
    <3> QED
      BY <3>1, <3>2, <1>12, <1>5, <1>1
  <2> HIDE DEF S
  <2>3. 0..N \subseteq S
    BY <2>1, <2>2, <1>1, Upwards
  <2> QED
    BY <2>3, <1>1 DEF S
<1>14. \A n \in 1..N : r[n] = IF n \in mine THEN Entered(r[n - 1], s, i, Line(p, n)) ELSE r[n - 1]
  BY <1>12 DEF G, lines, Line
<1> QED
  BY <1>11, <1>12, <1>13, <1>14 DEF X, N, lines, start, index, task, added, edgeless, mine

LEMMA TaskRunRan ==
  ASSUME NEW p \in Procs, proc[p].call \in Plans, proc[p].rest \subseteq Valid(proc[p].call),
         proc[p].index \in Filings, tasks \in Filings,
         NEW s \in Slugs, NEW i \in Ids, tasks[s][i].there, FieldHides(tasks[s][i])
  PROVE  LET run == TaskRun(p, s, i)
         IN  /\ run \in RunType
             /\ RanTask(run, proc[p].index, tasks[s][i], s, i, TagsOf(p, s, i), ~Edgy(proc[p].call))
             /\ RanIndex(run, proc[p].index, tasks[s][i], s, i, TagsOf(p, s, i))
<1>1. proc[p].call.lines \in Seq(PlanLine)
  BY PlansAssumption
<1>2. Len(proc[p].call.lines) \in 0..Len(proc[p].call.lines)
  BY <1>1
<1>3. \E r : /\ TaskRun(p, s, i) = r[Len(proc[p].call.lines)]
             /\ \A n \in 0..Len(proc[p].call.lines) :
                  /\ r[n] \in RunType
                  /\ RanTask(r[n], proc[p].index, tasks[s][i], s, i, TagsOf(p, s, i), ~Edgy(proc[p].call))
                  /\ RanIndex(r[n], proc[p].index, tasks[s][i], s, i, TagsOf(p, s, i))
  BY TaskRunRuns
<1> QED
  BY <1>2, <1>3

----------------------------------------------------------------------------
(* The inductive invariant.                                                 *)

CallType ==
  [at : {"idle", "enter", "read", "load", "write", "group", "apply", "report"}, call : Edits \cup Plans \cup {NoValue},
   slug : Slugs \cup {NoValue}, rest : SUBSET Nat, todo : SUBSET (Slugs \X Ids), index : Filings, next : Task,
   failed : BOOLEAN, missed : SUBSET Slugs]

PlansTypeOK ==
  /\ tasks \in Filings
  /\ lock \in [Slugs -> Procs \cup {NoProc}]
  /\ proc \in [Procs -> CallType]
  /\ {crossed, overtaken, tagged} \subseteq BOOLEAN

\* What a call is at, and the lock that it has for it.
Placed(me, q, locks, ts) ==
  /\ me.at # "idle" => me.call \in Edits \cup Plans
  /\ me.at \in {"read", "write"} => me.call \in Edits
  /\ me.at \in {"group", "apply", "report"} => me.call \in Plans
  /\ me.at # "idle" /\ me.call \in Edits => me.slug = me.call.slug
  /\ me.at \in {"enter", "apply"} => me.slug \in Slugs
  /\ me.at = "apply" => locks[me.slug] = q
  /\ me.at \in {"enter", "read"} /\ me.call \in Edits => me.index = NoIndex
  /\ me.at # "idle" /\ me.call \in Plans => me.rest \subseteq Valid(me.call)
  /\ me.at \in {"read", "load", "write"} /\ me.call \in Edits => locks[me.slug] = q
  /\ me.at \in {"load", "write"} /\ me.call \in Edits =>
       ts[me.slug][me.call.id].there /\ me.next = Patched(ts[me.slug][me.call.id], me.call)

\* The index of a call has the task i of the initiative t in it, or knows that it is not there.
HasIn(me, ts, t, i) ==
  \/ me.at = "load" /\ <<t, i>> \notin me.todo
  \/ me.at = "write" /\ AddsEdge(ts[me.slug][me.call.id], me.next)
  \/ me.at \in {"enter", "group", "apply", "report"} /\ me.call \in Plans /\ Edgy(me.call)

\* What it has in it is as on disk, unless the call has missed a write, or is dry.
InStep(me, ts) ==
  \A t \in Slugs, i \in Ids : HasIn(me, ts, t, i) =>
    /\ me.index[t][i].there = ts[t][i].there
    /\ t \notin me.missed /\ ~(me.call \in Plans /\ me.call.dry) /\ ts[t][i].there =>
         SameEdges(me.index[t][i], ts[t][i])

NoCircles(ts) ==
  /\ AtHome(ts) /\ \A s \in Slugs, i \in Ids : FieldHides(ts[s][i])
  /\ overtaken => crossed
  /\ crossed \/ tagged \/ ~Cyclic(DepEdges(ts, Everyone(ts)))
  /\ overtaken \/ \A s \in Slugs : ~Cyclic(SlugParents(ts, s))

PlansInv ==
  /\ PlansTypeOK /\ NoCircles(tasks)
  /\ \A p \in Procs : Placed(proc[p], p, lock, tasks) /\ InStep(proc[p], tasks)

LEMMA NoTaskType == NoTask \in Task /\ NoIndex \in Filings /\ FieldHides(NoTask)
  BY PlansAssumption DEF NoTask, Task, NoIndex, Filings, FieldHides

LEMMA IdleType == Idle \in CallType /\ Idle.at = "idle"
  BY NoTaskType DEF Idle, CallType

LEMMA IdleInStep ==
  ASSUME NEW q, NEW locks, NEW ts
  PROVE  Placed(Idle, q, locks, ts) /\ InStep(Idle, ts)
  BY IdleType DEF Placed, InStep, HasIn

LEMMA KindsApart == Edits \cap Plans = {}
  BY PlansAssumption DEF EditCall

LEMMA InitPlans == PlansInit => PlansInv
<1> SUFFICES ASSUME PlansInit PROVE PlansInv
  OBVIOUS
<1>1. /\ tasks \in Filings /\ AtHome(tasks) /\ \A s \in Slugs, i \in Ids : FieldHides(tasks[s][i])
      /\ ~Cyclic(ParentEdges(tasks, Everyone(tasks))) /\ ~Cyclic(DepEdges(tasks, Everyone(tasks)))
  <2>1. /\ tasks \in [Slugs -> [Ids -> Task]]
        /\ \A s \in Slugs, i \in Ids :
             /\ tasks[s][i].field \/ tasks[s][i].dep = {}
             /\ tasks[s][i].there /\ tasks[s][i].parent # NoId => Homes(tasks, tasks[s][i].parent) = {s}
        /\ ~Cyclic(ParentEdges(tasks, Everyone(tasks))) /\ ~Cyclic(DepEdges(tasks, Everyone(tasks)))
    BY StartTasksAssumption DEF PlansInit
  <2> QED
    BY <2>1 DEF Filings, AtHome, FieldHides
<1>2. PlansTypeOK
  BY <1>1, IdleType DEF PlansInit, PlansTypeOK
<1>3. NoCircles(tasks)
  BY <1>1, ParentsTogether DEF PlansInit, NoCircles
<1>4. \A p \in Procs : Placed(proc[p], p, lock, tasks) /\ InStep(proc[p], tasks)
  BY IdleInStep DEF PlansInit
<1> QED
  BY <1>2, <1>3, <1>4 DEF PlansInv

----------------------------------------------------------------------------
(* Steps that write nothing.                                                *)

LEMMA QuietStep ==
  ASSUME PlansInv, NEW p \in Procs, NEW me \in CallType, NothingWritten,
         proc' = [proc EXCEPT ![p] = me], lock' \in [Slugs -> Procs \cup {NoProc}],
         \A s \in Slugs, q \in Procs : lock[s] = q /\ q # p => lock'[s] = q,
         Placed(me, p, lock', tasks), InStep(me, tasks)
  PROVE  PlansInv'
<1>1. /\ tasks' = tasks /\ crossed' = crossed /\ overtaken' = overtaken /\ tagged' = tagged
      /\ proc \in [Procs -> CallType] /\ proc' \in [Procs -> CallType]
      /\ \A q \in Procs : proc'[q] = IF q = p THEN me ELSE proc[q]
  BY DEF NothingWritten, PlansInv, PlansTypeOK
<1>2. PlansTypeOK'
  BY <1>1 DEF PlansInv, PlansTypeOK
<1>3. NoCircles(tasks)'
  BY <1>1 DEF PlansInv, NoCircles
<1>4. ASSUME NEW q \in Procs PROVE Placed(proc'[q], q, lock', tasks') /\ InStep(proc'[q], tasks')
  <2>1. CASE q = p
    BY <2>1, <1>1
  <2>2. CASE q # p
    <3> DEFINE it == proc[q]
    <3>1. it \in CallType /\ Placed(it, q, lock, tasks) /\ InStep(it, tasks)
      BY <1>1 DEF PlansInv
    <3> HIDE DEF it
    <3>2. it.at \in {"read", "load", "write"} /\ it.call \in Edits => it.slug \in Slugs
      BY <3>1, PlansAssumption DEF Placed, EditCall
    <3>3. Placed(it, q, lock', tasks)
      BY <3>1, <3>2, <2>2 DEF Placed
    <3> QED
      BY <3>1, <3>3, <2>2, <1>1 DEF it
  <2> QED
    BY <2>1, <2>2
<1> QED
  BY <1>2, <1>3, <1>4 DEF PlansInv

\* A call that starts, and one that is over, holds nothing.
LEMMA StartsKeep ==
  ASSUME PlansInv, NEW p \in Procs,
         \/ \E e \in Edits : StartEdit(p, e)
         \/ \E call \in Plans : StartPlan(p, call)
  PROVE  PlansInv'
<1>1. lock \in [Slugs -> Procs \cup {NoProc}] /\ Idle \in CallType
  BY IdleType DEF PlansInv, PlansTypeOK
<1>2. tasks \in Filings
  BY DEF PlansInv, PlansTypeOK
<1>3. ASSUME NEW e \in Edits, StartEdit(p, e) PROVE PlansInv'
  <2> DEFINE me == [Idle EXCEPT !.at = "enter", !.call = e, !.slug = e.slug]
  <2>1. e.slug \in Slugs /\ e \notin Plans
    BY KindsApart, PlansAssumption DEF EditCall
  <2>2. me \in CallType /\ me.at = "enter" /\ me.call = e /\ me.slug = e.slug /\ me.index = NoIndex
    BY <1>1, <2>1 DEF CallType, Idle
  <2>3. proc' = [proc EXCEPT ![p] = me] /\ lock' = lock /\ NothingWritten
    BY <1>3 DEF StartEdit, Set
  <2> HIDE DEF me
  <2>4. Placed(me, p, lock', tasks) /\ InStep(me, tasks)
    BY <2>1, <2>2 DEF Placed, InStep, HasIn
  <2> QED
    BY <1>1, <2>2, <2>3, <2>4, QuietStep
<1>4. ASSUME NEW call \in Plans, StartPlan(p, call) PROVE PlansInv'
  <2> DEFINE reads == IF \E n \in DOMAIN call.lines : EdgeOps(call.lines[n]) THEN Everyone(tasks) ELSE {}
             me == [Idle EXCEPT !.call = call, !.rest = Valid(call), !.failed = Valid(call) # DOMAIN call.lines,
                      !.at = IF reads = {} THEN "group" ELSE "load", !.todo = reads]
  <2>1. call \notin Edits /\ Valid(call) \in SUBSET Nat
    BY KindsApart, PlansAssumption DEF Valid
  <2>2. reads \in SUBSET (Slugs \X Ids) /\ reads \in {{}, Everyone(tasks)} /\ (Edgy(call) => reads = Everyone(tasks))
    BY DEF Everyone, Edgy
  <2>3. proc' = [proc EXCEPT ![p] = me] /\ lock' = lock /\ NothingWritten
    BY <1>4 DEF StartPlan, Set
  <2> HIDE DEF reads
  <2>4. /\ me \in CallType /\ me.call = call /\ me.rest = Valid(call) /\ me.index = NoIndex /\ me.todo = reads
        /\ me.at = IF reads = {} THEN "group" ELSE "load"
    BY <1>1, <2>1, <2>2 DEF CallType, Idle
  <2> HIDE DEF me
  <2>5. Placed(me, p, lock', tasks)
    BY <2>1, <2>4 DEF Placed
  <2>6. InStep(me, tasks)
    <3>1. ASSUME NEW t \in Slugs, NEW i \in Ids, HasIn(me, tasks, t, i)
          PROVE  ~me.index[t][i].there /\ ~tasks[t][i].there
      <4>1. <<t, i>> \notin Everyone(tasks)
        BY <2>1, <2>2, <2>4, <3>1 DEF HasIn
      <4> QED
        BY <4>1, <2>4, <1>2 DEF Everyone, NoIndex, NoTask, Filings, Task
    <3> QED
      BY <3>1, <2>4, <1>2, NoTaskType DEF InStep, Filings, Task
  <2> QED
    BY <1>1, <2>3, <2>4, <2>5, <2>6, QuietStep
<1> QED
  BY <1>3, <1>4

LEMMA FilingWritten ==
  ASSUME NEW ts \in Filings, NEW s \in Slugs, NEW i \in Ids, NEW task \in Task
  PROVE  LET new == [ts EXCEPT ![s][i] = task]
         IN  /\ new \in Filings /\ new[s][i] = task
             /\ \A t \in Slugs, j \in Ids : new[t][j] = ts[t][j] \/ (t = s /\ j = i)
             /\ \A t \in Slugs : t # s => new[t] = ts[t]
<1> DEFINE new == [ts EXCEPT ![s][i] = task]
<1>1. \A t \in Slugs : ts[t] \in [Ids -> Task] /\ new[t] = IF t = s THEN [ts[s] EXCEPT ![i] = task] ELSE ts[t]
  BY DEF Filings
<1>2. new \in Filings
  BY DEF Filings
<1> QED
  BY <1>1, <1>2

LEMMA LoadsKeep ==
  ASSUME PlansInv, NEW p \in Procs, NEW s \in Slugs, NEW i \in Ids, LoadTask(p, s, i)
  PROVE  PlansInv'
<1> DEFINE was == proc[p]
           me == [proc[p] EXCEPT !.index[s][i] = tasks[s][i], !.todo = @ \ {<<s, i>>},
                    !.at = IF proc[p].todo # {<<s, i>>} THEN @
                           ELSE IF proc[p].call.kind = "edit" THEN "write" ELSE "group"]
<1>1. /\ was \in CallType /\ Placed(was, p, lock, tasks) /\ InStep(was, tasks)
      /\ tasks \in Filings /\ lock \in [Slugs -> Procs \cup {NoProc}]
  BY DEF PlansInv, PlansTypeOK
<1>2. was.at = "load" /\ lock' = lock /\ NothingWritten /\ proc' = [proc EXCEPT ![p] = me]
  BY DEF LoadTask, Set
<1>3. was.call \in Edits \cup Plans /\ (was.call \in Edits <=> was.call.kind = "edit")
  BY <1>1, <1>2, PlansAssumption DEF Placed, EditCall
<1>4. /\ me.index = [was.index EXCEPT ![s][i] = tasks[s][i]] /\ me.todo = was.todo \ {<<s, i>>} /\ me.call = was.call
      /\ me.slug = was.slug /\ me.rest = was.rest /\ me.next = was.next /\ me.missed = was.missed
      /\ me.at = IF was.todo # {<<s, i>>} THEN "load" ELSE IF was.call.kind = "edit" THEN "write" ELSE "group"
  BY <1>1, <1>2 DEF CallType
<1>5. /\ me.index \in Filings /\ me.index[s][i] = tasks[s][i]
      /\ \A t \in Slugs, j \in Ids : me.index[t][j] = was.index[t][j] \/ (t = s /\ j = i)
  <2>1. was.index \in Filings /\ tasks[s][i] \in Task
    BY <1>1 DEF CallType, Filings
  <2> HIDE DEF me, was
  <2> QED
    BY <1>4, <2>1, FilingWritten
<1>6. me \in CallType
  <2>1. me = [was EXCEPT !.index = me.index, !.todo = me.todo, !.at = me.at]
    BY <1>1 DEF CallType
  <2>2. me.at \in {"load", "write", "group"} /\ me.todo \in SUBSET (Slugs \X Ids)
    BY <1>1, <1>4 DEF CallType
  <2> HIDE DEF me
  <2> QED
    BY <1>1, <1>5, <2>1, <2>2 DEF CallType
<1> HIDE DEF me, was
<1>7. Placed(me, p, lock, tasks)
  BY <1>1, <1>2, <1>3, <1>4, KindsApart DEF Placed
<1>8. InStep(me, tasks)
  <2>1. SUFFICES ASSUME NEW t \in Slugs, NEW j \in Ids, HasIn(me, tasks, t, j)
                 PROVE  /\ me.index[t][j].there = tasks[t][j].there
                        /\ t \notin me.missed /\ ~(me.call \in Plans /\ me.call.dry) /\ tasks[t][j].there =>
                             SameEdges(me.index[t][j], tasks[t][j])
    BY DEF InStep
  <2>2. CASE t = s /\ j = i
    BY <2>2, <1>5 DEF SameEdges
  <2>3. CASE ~(t = s /\ j = i)
    <3>1. HasIn(was, tasks, t, j)
      BY <2>1, <2>3, <1>2, <1>4 DEF HasIn
    <3>2. me.index[t][j] = was.index[t][j]
      BY <2>3, <1>5
    <3> QED
      BY <3>1, <3>2, <1>1, <1>4 DEF InStep
  <2> QED
    BY <2>2, <2>3
<1> QED
  BY <1>1, <1>2, <1>6, <1>7, <1>8, QuietStep

LEMMA FirstIs ==
  ASSUME NEW rest \in SUBSET Nat, rest # {}
  PROVE  First(rest) \in rest
<1>1. PICK n \in rest : \A m \in rest : ~(<<m, n>> \in OpToRel(<, Nat))
  BY NatLessThanWellFounded, WFMin
<1>2. ASSUME NEW m \in rest, m < n PROVE FALSE
  <2>1. <<m, n>> \in OpToRel(<, Nat)
    BY <1>2 DEF OpToRel
  <2> QED
    BY <1>1, <2>1
<1>3. \A m \in rest : n <= m
  BY <1>2
<1> QED
  BY <1>3 DEF First

LEMMA FirstLine ==
  ASSUME NEW call \in Plans, NEW rest \in SUBSET Valid(call), rest # {}
  PROVE  First(rest) \in rest /\ call.lines[First(rest)] \in PlanLine
<1>1. call.lines \in Seq(PlanLine) /\ rest \in SUBSET Nat
  BY PlansAssumption DEF Valid
<1>2. First(rest) \in rest
  BY <1>1, FirstIs
<1>3. First(rest) \in DOMAIN call.lines
  BY <1>2 DEF Valid
<1> QED
  BY <1>1, <1>2, <1>3

\* The patch of an edit is a task, with the dependencies in the field or as tags.
LEMMA PatchedIs ==
  ASSUME NEW task \in Task, FieldHides(task), NEW e \in Edits
  PROVE  LET next == Patched(task, e)
         IN  /\ next \in Task /\ next.there = task.there /\ FieldHides(next)
             /\ next.parent = task.parent \/ next.parent \in Ids
             /\ \A d \in ReadDeps(next) :
                  \/ d \in ReadDeps(task)
                  \/ next.field /\ next.dep # ReadDeps(task) /\ d \in next.dep
                  \/ e.addTag # NoValue /\ DepOf[e.addTag] # NoId
<1> DEFINE next == Patched(task, e)
           deps == (ReadDeps(task) \cup e.add) \ e.remove
           same == deps = ReadDeps(task)
           notes == [l \in Lines |-> IF l = e.append THEN task.notes[l] + 1 ELSE task.notes[l]]
           tags == (task.tags \cup ({e.addTag} \ {NoValue})) \ {e.removeTag}
           parent == IF e.parent = NoId THEN task.parent ELSE e.parent
           dep == IF same THEN task.dep ELSE deps
           field == task.field \/ ~same
<1>1. e \in EditCall /\ ReadDeps(task) \subseteq Ids
  BY PlansAssumption, ReadDepsType
<1>2. notes \in [Lines -> Nat] /\ tags \subseteq Tags /\ parent \in Ids \cup {NoId} /\ (parent = task.parent \/ parent \in Ids)
      /\ dep \subseteq Ids /\ field \in BOOLEAN /\ task.dep \subseteq Ids
  BY <1>1 DEF EditCall, Task
<1>3. next = [task EXCEPT !.parent = parent, !.field = field, !.dep = dep, !.notes = notes, !.tags = tags]
  BY DEF Patched
<1> HIDE DEF next
<1>4. /\ next \in Task /\ next.there = task.there /\ next.parent = parent /\ next.field = field
      /\ next.dep = dep /\ next.tags = tags
  <2> HIDE DEF notes, tags, parent, dep, field
  <2> QED
    BY <1>2, <1>3 DEF Task
<1>5. FieldHides(next)
  BY <1>4 DEF FieldHides
<1>6. ASSUME NEW d \in ReadDeps(next)
      PROVE  \/ d \in ReadDeps(task)
             \/ next.field /\ next.dep # ReadDeps(task) /\ d \in next.dep
             \/ e.addTag # NoValue /\ DepOf[e.addTag] # NoId
  <2>1. CASE next.field
    BY <2>1 DEF ReadDeps
  <2>2. CASE ~next.field
    <3>1. PICK tag \in tags : d = DepOf[tag] /\ d # NoId
      BY <2>2, <1>4 DEF ReadDeps
    <3>2. ~task.field /\ (tag \in task.tags \/ (tag = e.addTag /\ tag # NoValue))
      BY <2>2, <1>4
    <3> QED
      BY <3>1, <3>2 DEF ReadDeps
  <2> QED
    BY <2>1, <2>2
<1> QED
  BY <1>2, <1>4, <1>5, <1>6 DEF next

LEMMA MovesKeep ==
  ASSUME PlansInv, NEW p \in Procs, NextSlug(p) \/ Enter(p) \/ ReadTask(p) \/ LeaveSlug(p) \/ Report(p) \/ KillCall(p)
  PROVE  PlansInv'
<1> DEFINE was == proc[p]
<1>1. /\ was \in CallType /\ Placed(was, p, lock, tasks) /\ InStep(was, tasks)
      /\ tasks \in Filings /\ lock \in [Slugs -> Procs \cup {NoProc}]
      /\ \A s \in Slugs, i \in Ids : FieldHides(tasks[s][i])
  BY DEF PlansInv, PlansTypeOK, NoCircles
<1>2. CASE NextSlug(p)
  <2>1. was.at = "group" /\ NothingWritten /\ lock' = lock
    BY <1>2 DEF NextSlug
  <2>2. CASE was.rest = {}
    <3> DEFINE me == [was EXCEPT !.at = "report"]
    <3>1. proc' = [proc EXCEPT ![p] = me]
      BY <2>2, <1>2 DEF NextSlug, Set
    <3>2. me \in CallType
      BY <1>1 DEF CallType
    <3>3. Placed(me, p, lock', tasks) /\ InStep(me, tasks)
      BY <1>1, <2>1, KindsApart DEF Placed, InStep, HasIn, CallType
    <3> HIDE DEF me
    <3> QED
      BY <1>1, <2>1, <3>1, <3>2, <3>3, QuietStep
  <2>3. CASE was.rest # {}
    <3> DEFINE slug == Line(p, First(proc[p].rest)).slug
               me == [was EXCEPT !.at = "enter", !.slug = slug]
    <3>1. proc' = [proc EXCEPT ![p] = me]
      BY <2>3, <1>2 DEF NextSlug, Set
    <3>2. slug \in Slugs
      <4>1. was.call \in Plans /\ was.rest \in SUBSET Valid(was.call)
        BY <1>1, <2>1 DEF Placed
      <4>2. was.call.lines[First(was.rest)] \in PlanLine
        BY <4>1, <2>3, FirstLine
      <4> QED
        BY <4>2 DEF PlanLine, Line
    <3> HIDE DEF slug
    <3>3. me \in CallType
      BY <1>1, <3>2 DEF CallType
    <3>4. Placed(me, p, lock', tasks) /\ InStep(me, tasks)
      BY <1>1, <2>1, <3>2, KindsApart DEF Placed, InStep, HasIn, CallType
    <3> HIDE DEF me
    <3> QED
      BY <1>1, <2>1, <3>1, <3>3, <3>4, QuietStep
  <2> QED
    BY <2>2, <2>3
<1>3. CASE Enter(p)
  <2> DEFINE at == IF proc[p].call.kind = "edit" THEN "read" ELSE "apply"
             me == [was EXCEPT !.at = at]
  <2>1. /\ was.at = "enter" /\ NothingWritten /\ lock[was.slug] = NoProc /\ lock' = [lock EXCEPT ![was.slug] = p]
        /\ proc' = [proc EXCEPT ![p] = me]
    BY <1>3 DEF Enter, Set
  <2>2. was.slug \in Slugs /\ was.call \in Edits \cup Plans
    BY <1>1, <2>1 DEF Placed
  <2>3. (was.call \in Edits /\ at = "read") \/ (was.call \in Plans /\ at = "apply")
    BY <2>2, PlansAssumption DEF EditCall
  <2> HIDE DEF at
  <2>4. me \in CallType
    BY <1>1, <2>3 DEF CallType
  <2>5. /\ lock' \in [Slugs -> Procs \cup {NoProc}] /\ lock'[was.slug] = p
        /\ \A s \in Slugs, q \in Procs : lock[s] = q /\ q # p => lock'[s] = q
    BY <1>1, <2>1, <2>2, PlansAssumption
  <2>6. Placed(me, p, lock', tasks) /\ InStep(me, tasks)
    <3>1. /\ me.at = at /\ me.call = was.call /\ me.slug = was.slug /\ me.rest = was.rest /\ me.todo = was.todo
          /\ me.index = was.index /\ me.next = was.next /\ me.missed = was.missed
      BY <1>1 DEF CallType
    <3> HIDE DEF me
    <3>2. Placed(me, p, lock', tasks)
      BY <1>1, <2>1, <2>2, <2>3, <2>5, <3>1, KindsApart DEF Placed
    <3>3. InStep(me, tasks)
      BY <1>1, <2>1, <2>2, <2>3, <3>1, KindsApart DEF InStep, HasIn
    <3> QED
      BY <3>2, <3>3
  <2> HIDE DEF me
  <2> QED
    BY <2>1, <2>4, <2>5, <2>6, QuietStep
<1>4. CASE ReadTask(p)
  <2> DEFINE s == was.slug
             task == tasks[s][was.call.id]
             next == Patched(task, was.call)
  <2>1. was.at = "read" /\ NothingWritten
    BY <1>4 DEF ReadTask
  <2>2. was.call \in Edits /\ was.call \notin Plans /\ s \in Slugs /\ was.call.id \in Ids /\ lock[s] = p
    BY <1>1, <2>1, PlansAssumption, KindsApart DEF Placed, EditCall
  <2>3. CASE ~task.there \/ next = task
    <3>1. proc' = [proc EXCEPT ![p] = Idle] /\ lock' = [lock EXCEPT ![s] = NoProc]
      BY <1>4, <2>3 DEF ReadTask, Set
    <3> QED
      BY <1>1, <2>1, <2>2, <3>1, IdleType, IdleInStep, QuietStep
  <2>4. CASE task.there /\ next # task
    <3> DEFINE at == IF AddsEdge(task, next) THEN "load" ELSE "write"
               todo == IF AddsEdge(task, next) THEN Everyone(tasks) ELSE {}
               me == [was EXCEPT !.next = next, !.at = at, !.todo = todo]
    <3>1. proc' = [proc EXCEPT ![p] = me] /\ lock' = lock
      BY <1>4, <2>4 DEF ReadTask, Set
    <3>2. next \in Task
      BY <1>1, <2>2, PatchedIs DEF Filings
    <3>3. me \in CallType
      <4>1. todo \in SUBSET (Slugs \X Ids)
        BY DEF Everyone
      <4> HIDE DEF next, todo
      <4> QED
        BY <1>1, <3>2, <4>1 DEF CallType
    <3>4. me.at = at /\ me.next = next /\ me.todo = todo /\ me.call = was.call /\ me.slug = s /\ me.index = NoIndex
      BY <1>1, <2>1, <2>2 DEF CallType, Placed
    <3> HIDE DEF me
    <3>5. Placed(me, p, lock', tasks)
      BY <2>2, <2>4, <3>1, <3>4, <1>1, <2>1 DEF Placed
    <3>6. InStep(me, tasks)
      <4> HIDE DEF next
      <4>1. ASSUME NEW t \in Slugs, NEW i \in Ids, HasIn(me, tasks, t, i)
            PROVE  ~me.index[t][i].there /\ ~tasks[t][i].there
        <5>1. <<t, i>> \notin Everyone(tasks)
          BY <2>2, <3>4, <4>1 DEF HasIn
        <5> QED
          BY <5>1, <3>4, <1>1 DEF Everyone, NoIndex, NoTask, Filings, Task
      <4> QED
        BY <4>1, <1>1, <3>3 DEF InStep, Filings, Task, CallType
    <3> QED
      BY <1>1, <2>1, <3>1, <3>3, <3>5, <3>6, QuietStep
  <2> QED
    BY <2>3, <2>4
<1>5. CASE LeaveSlug(p)
  <2> DEFINE me == [was EXCEPT !.at = "group", !.slug = NoValue]
  <2>1. /\ was.at = "apply" /\ NothingWritten /\ lock' = [lock EXCEPT ![was.slug] = NoProc]
        /\ proc' = [proc EXCEPT ![p] = me]
    BY <1>5 DEF LeaveSlug, Set
  <2>2. was.slug \in Slugs /\ was.call \in Plans /\ lock[was.slug] = p /\ was.rest \subseteq Valid(was.call)
    BY <1>1, <2>1 DEF Placed
  <2>3. me \in CallType
    BY <1>1 DEF CallType
  <2>4. Placed(me, p, lock', tasks) /\ InStep(me, tasks)
    BY <1>1, <2>1, <2>2, KindsApart DEF Placed, InStep, HasIn, CallType
  <2> HIDE DEF me
  <2> QED
    BY <1>1, <2>1, <2>2, <2>3, <2>4, QuietStep
<1>6. CASE Report(p)
  <2>1. proc' = [proc EXCEPT ![p] = Idle] /\ lock' = lock /\ NothingWritten
    BY <1>6 DEF Report, Set
  <2> QED
    BY <1>1, <2>1, IdleType, IdleInStep, QuietStep
<1>7. CASE KillCall(p)
  <2>1. /\ proc' = [proc EXCEPT ![p] = Idle] /\ NothingWritten
        /\ lock' = [s \in Slugs |-> IF lock[s] = p THEN NoProc ELSE lock[s]]
    BY <1>7 DEF KillCall, Set
  <2> QED
    BY <1>1, <2>1, IdleType, IdleInStep, QuietStep
<1> QED
  BY <1>2, <1>3, <1>4, <1>5, <1>6, <1>7

----------------------------------------------------------------------------
(* Steps that write.                                                        *)

\* Homes do not depend on anything but what is there.
LEMMA HomesSame ==
  ASSUME NEW ts, NEW other, SameThere(ts, other)
  PROVE  \A m \in Ids : Homes(ts, m) = Homes(other, m)
  BY DEF SameThere, Homes

\* The initiatives that nobody wrote to have the circles that they had.
LEMMA TaskWriteKeeps ==
  ASSUME PlansInv, NEW p \in Procs, NEW s \in Slugs, NEW i \in Ids, NEW task \in Task, NEW checked \in BOOLEAN,
         NEW fields \in CallType, Write(p, s, i, task, checked, fields),
         lock[s] = p, tasks[s][i].there, task.there, FieldHides(task),
         lock' \in [Slugs -> Procs \cup {NoProc}],
         \A t \in Slugs, q \in Procs : lock[t] = q /\ q # p => lock'[t] = q,
         task.parent = tasks[s][i].parent \/ Homes(tasks, task.parent) = {s},
         LET new == [tasks EXCEPT ![s][i] = task]
         IN  /\ (checked /\ s \in proc[p].missed)
                \/ (~Cyclic(SlugParents(tasks, s)) => ~Cyclic(SlugParents(new, s)))
             /\ (checked /\ proc[p].missed # {}) \/ AddsOldTag(proc[p].call, s, i)
                \/ (~Cyclic(DepEdges(tasks, Everyone(tasks))) => ~Cyclic(DepEdges(new, Everyone(new))))
             /\ Placed(fields, p, lock', new) /\ InStep(fields, new)
  PROVE  PlansInv'
<1> DEFINE new == [tasks EXCEPT ![s][i] = task]
           differs == task.parent # tasks[s][i].parent \/ ReadDeps(task) # ReadDeps(tasks[s][i])
           old == AddsOldTag(proc[p].call, s, i)
           after(q) == IF q = p THEN fields
                       ELSE IF differs /\ proc[q].index[s][i].there THEN [proc[q] EXCEPT !.missed = @ \cup {s}]
                       ELSE proc[q]
<1>1. /\ tasks' = new
      /\ crossed' = (crossed \/ (checked /\ proc[p].missed # {}))
      /\ overtaken' = (overtaken \/ (checked /\ s \in proc[p].missed))
      /\ tagged' = (tagged \/ old)
      /\ proc' = [q \in Procs |-> after(q)]
  BY DEF Write
<1>2. /\ tasks \in Filings /\ proc \in [Procs -> CallType] /\ NoCircles(tasks)
      /\ {crossed, overtaken, tagged} \subseteq BOOLEAN
      /\ \A q \in Procs : Placed(proc[q], q, lock, tasks) /\ InStep(proc[q], tasks)
  BY DEF PlansInv, PlansTypeOK
<1>3. /\ new \in Filings /\ new[s][i] = task
      /\ \A t \in Slugs, j \in Ids : new[t][j] = tasks[t][j] \/ (t = s /\ j = i)
      /\ \A t \in Slugs : t # s => new[t] = tasks[t]
  BY <1>2, FilingWritten
<1>4. /\ (checked /\ s \in proc[p].missed)
         \/ (~Cyclic(SlugParents(tasks, s)) => ~Cyclic(SlugParents(new, s)))
      /\ (checked /\ proc[p].missed # {}) \/ old
         \/ (~Cyclic(DepEdges(tasks, Everyone(tasks))) => ~Cyclic(DepEdges(new, Everyone(new))))
      /\ Placed(fields, p, lock', new) /\ InStep(fields, new)
  OBVIOUS
<1> HIDE DEF new
<1>5. SameThere(new, tasks)
  <2>1. new[s][i].there = tasks[s][i].there
    BY <1>2, <1>3 DEF Filings, Task
  <2> QED
    BY <2>1, <1>3 DEF SameThere
<1>6. ASSUME NEW q \in Procs
      PROVE  after(q) \in CallType /\ Placed(after(q), q, lock', new) /\ InStep(after(q), new)
  <2>1. CASE q = p
    BY <2>1, <1>4
  <2>2. CASE q # p
    <3> DEFINE was == proc[q]
               me == after(q)
    <3>1. was \in CallType /\ Placed(was, q, lock, tasks) /\ InStep(was, tasks)
      BY <1>2
    <3>2. /\ me \in CallType /\ was.missed \subseteq me.missed
          /\ me.at = was.at /\ me.call = was.call /\ me.slug = was.slug /\ me.rest = was.rest /\ me.todo = was.todo
          /\ me.index = was.index /\ me.next = was.next
          /\ differs /\ was.index[s][i].there => s \in me.missed
      <4> HIDE DEF differs
      <4>1. me = was \/ me = [was EXCEPT !.missed = was.missed \cup {s}]
        BY <2>2
      <4>2. differs /\ was.index[s][i].there => me = [was EXCEPT !.missed = was.missed \cup {s}]
        BY <2>2
      <4> HIDE DEF me, was
      <4> QED
        BY <4>1, <4>2, <3>1 DEF CallType
    <3> HIDE DEF me, was
    <3>3. was.at \in {"read", "load", "write"} /\ was.call \in Edits =>
            was.slug \in Slugs /\ was.slug # s /\ lock[was.slug] = q /\ was.call.id \in Ids
      BY <3>1, <2>2, PlansAssumption DEF Placed, EditCall
    <3>4. Placed(me, q, lock', new)
      BY <3>1, <3>2, <3>3, <1>3, <2>2 DEF Placed
    <3>5. InStep(me, new)
      <4>1. SUFFICES ASSUME NEW t \in Slugs, NEW j \in Ids, HasIn(me, new, t, j)
                     PROVE  /\ me.index[t][j].there = new[t][j].there
                            /\ t \notin me.missed /\ ~(me.call \in Plans /\ me.call.dry) /\ new[t][j].there =>
                                 SameEdges(me.index[t][j], new[t][j])
        BY DEF InStep
      <4>2. HasIn(was, tasks, t, j)
        <5>1. was.at = "write" => new[was.slug] = tasks[was.slug]
          BY <3>1, <3>3, <1>3 DEF Placed
        <5> QED
          BY <5>1, <4>1, <3>2 DEF HasIn
      <4>3. /\ was.index[t][j].there = tasks[t][j].there
            /\ t \notin was.missed /\ ~(was.call \in Plans /\ was.call.dry) /\ tasks[t][j].there =>
                 SameEdges(was.index[t][j], tasks[t][j])
        BY <4>2, <3>1 DEF InStep
      <4>4. me.index[t][j].there = new[t][j].there
        BY <4>3, <3>2, <1>5 DEF SameThere
      <4>5. CASE ~(t = s /\ j = i)
        <5>1. new[t][j] = tasks[t][j]
          BY <4>5, <1>3
        <5> QED
          BY <5>1, <4>3, <4>4, <3>2
      <4>6. CASE t = s /\ j = i /\ differs
        <5>1. was.index[s][i].there
          BY <4>3, <4>6
        <5> QED
          BY <5>1, <4>4, <4>6, <3>2
      <4>7. CASE t = s /\ j = i /\ ~differs
        <5>1. SameEdges(tasks[s][i], new[s][i])
          BY <4>7, <1>3 DEF SameEdges
        <5> HIDE DEF differs
        <5> QED
          BY <5>1, <4>3, <4>4, <4>7, <3>2, <1>5 DEF SameEdges, SameThere
      <4> QED
        BY <4>5, <4>6, <4>7
    <3> QED
      BY <3>2, <3>4, <3>5 DEF me
  <2> QED
    BY <2>1, <2>2
<1>7. NoCircles(tasks)'
  <2>1. AtHome(new)
    <3>1. SUFFICES ASSUME NEW t \in Slugs, NEW j \in Ids, new[t][j].there, new[t][j].parent # NoId
                   PROVE  Homes(new, new[t][j].parent) = {t}
      BY DEF AtHome
    <3>2. new[t][j].parent \in Ids
      BY <3>1, <1>3 DEF Filings, Task
    <3>3. Homes(tasks, new[t][j].parent) = {t}
      <4>1. \A m \in Ids : tasks[t][m].there /\ tasks[t][m].parent # NoId => Homes(tasks, tasks[t][m].parent) = {t}
        BY <1>2 DEF NoCircles, AtHome
      <4>2. CASE new[t][j] = tasks[t][j]
        BY <4>1, <4>2, <3>1
      <4>3. CASE t = s /\ j = i
        <5>1. tasks[s][i].there /\ task.parent # NoId
          BY <4>3, <3>1, <1>3
        <5> QED
          BY <4>1, <4>3, <5>1, <1>3
      <4> QED
        BY <4>2, <4>3, <1>3
    <3> QED
      BY <3>2, <3>3, <1>5, HomesSame
  <2>2. \A t \in Slugs, j \in Ids : FieldHides(new[t][j])
    BY <1>2, <1>3 DEF NoCircles
  <2>3. overtaken' => crossed'
    BY <1>1, <1>2 DEF NoCircles
  <2>4. crossed' \/ tagged' \/ ~Cyclic(DepEdges(new, Everyone(new)))
    BY <1>1, <1>2, <1>4 DEF NoCircles
  <2>5. overtaken' \/ \A t \in Slugs : ~Cyclic(SlugParents(new, t))
    <3>1. \A t \in Slugs : t # s => SlugParents(new, t) = SlugParents(tasks, t)
      <4>1. \A t \in Slugs : t # s => \A j \in Ids : new[t][j].there => SameEdges(new[t][j], tasks[t][j])
        BY <1>3 DEF SameEdges
      <4> QED
        BY <4>1, <1>5, SameCircles
    <3> QED
      BY <3>1, <1>1, <1>2, <1>4 DEF NoCircles
  <2> QED
    BY <2>1, <2>2, <2>3, <2>4, <2>5, <1>1 DEF NoCircles
<1>8. PlansTypeOK'
  <2>1. proc' \in [Procs -> CallType]
    <3> HIDE DEF after
    <3> QED
      BY <1>1, <1>6
  <2>2. {crossed', overtaken', tagged'} \subseteq BOOLEAN
    BY <1>1
  <2> QED
    BY <2>1, <2>2, <1>1, <1>3 DEF PlansTypeOK
<1>9. \A q \in Procs : Placed(proc'[q], q, lock', tasks') /\ InStep(proc'[q], tasks')
  <2> HIDE DEF after
  <2> QED
    BY <1>1, <1>6
<1> QED
  BY <1>1, <1>7, <1>8, <1>9 DEF PlansInv

\* The circles of the disk are those of an index that agrees with it.
LEMMA AgreeingParents ==
  ASSUME NEW index \in Filings, NEW ts \in Filings, SameThere(index, ts), NEW s \in Slugs, NEW i \in Ids,
         NEW other \in Filings, NEW new \in Filings, SameThere(other, new), SameEdges(other[s][i], new[s][i]),
         \A t \in Slugs, j \in Ids : other[t][j] = index[t][j] \/ (t = s /\ j = i),
         \A t \in Slugs, j \in Ids : new[t][j] = ts[t][j] \/ (t = s /\ j = i),
         \A j \in Ids : ts[s][j].there => SameEdges(index[s][j], ts[s][j]),
         ~Cyclic(SlugParents(index, s)) => ~Cyclic(SlugParents(other, s)), ~Cyclic(SlugParents(ts, s))
  PROVE  ~Cyclic(SlugParents(new, s))
<1>1. \A j \in Ids : index[s][j].there => SameEdges(index[s][j], ts[s][j])
  BY DEF SameThere
<1>2. \A j \in Ids : other[s][j].there => SameEdges(other[s][j], new[s][j])
  <2>1. \A j \in Ids : j # i => new[s][j] = ts[s][j] /\ other[s][j] = index[s][j]
    OBVIOUS
  <2> QED
    BY <1>1, <2>1
<1> QED
  BY <1>1, <1>2, SameCircles

LEMMA AgreeingDeps ==
  ASSUME NEW index \in Filings, NEW ts \in Filings, SameThere(index, ts), NEW s \in Slugs, NEW i \in Ids,
         NEW other \in Filings, NEW new \in Filings, SameThere(other, new), SameEdges(other[s][i], new[s][i]),
         \A t \in Slugs, j \in Ids : other[t][j] = index[t][j] \/ (t = s /\ j = i),
         \A t \in Slugs, j \in Ids : new[t][j] = ts[t][j] \/ (t = s /\ j = i),
         \A t \in Slugs, j \in Ids : ts[t][j].there => SameEdges(index[t][j], ts[t][j]),
         ~Cyclic(DepEdges(index, Everyone(index))) => ~Cyclic(DepEdges(other, Everyone(other))),
         ~Cyclic(DepEdges(ts, Everyone(ts)))
  PROVE  ~Cyclic(DepEdges(new, Everyone(new)))
<1>1. \A t \in Slugs, j \in Ids : index[t][j].there => SameEdges(index[t][j], ts[t][j])
  BY DEF SameThere
<1>2. \A t \in Slugs, j \in Ids : other[t][j].there => SameEdges(other[t][j], new[t][j])
  <2>1. \A t \in Slugs, j \in Ids : ~(t = s /\ j = i) => new[t][j] = ts[t][j] /\ other[t][j] = index[t][j]
    OBVIOUS
  <2> QED
    BY <1>1, <2>1
<1> QED
  BY <1>1, <1>2, SameCircles

LEMMA EditsKeep ==
  ASSUME PlansInv, NEW p \in Procs, WriteTask(p)
  PROVE  PlansInv'
<1> DEFINE was == proc[p]
           s == proc[p].slug
           i == proc[p].call.id
           task == tasks[s][i]
           next == proc[p].next
           index == proc[p].index
           new == [tasks EXCEPT ![s][i] = next]
<1>1. /\ was \in CallType /\ Placed(was, p, lock, tasks) /\ InStep(was, tasks)
      /\ tasks \in Filings /\ lock \in [Slugs -> Procs \cup {NoProc}]
      /\ \A t \in Slugs, j \in Ids : FieldHides(tasks[t][j])
  BY DEF PlansInv, PlansTypeOK, NoCircles
<1>2. was.at = "write" /\ lock' = [lock EXCEPT ![s] = NoProc]
  BY DEF WriteTask
<1>3. /\ was.call \in Edits /\ was.call \notin Plans /\ s \in Slugs /\ i \in Ids /\ lock[s] = p
      /\ task.there /\ next = Patched(task, was.call) /\ was.call.kind = "edit"
  BY <1>1, <1>2, PlansAssumption, KindsApart DEF Placed, EditCall
<1>4. /\ lock' \in [Slugs -> Procs \cup {NoProc}]
      /\ \A t \in Slugs, q \in Procs : lock[t] = q /\ q # p => lock'[t] = q
  BY <1>1, <1>2, <1>3
<1>5. CASE EditRefused(p, task)
  <2>1. proc' = [proc EXCEPT ![p] = Idle] /\ NothingWritten
    BY <1>5 DEF WriteTask, Set
  <2> QED
    BY <1>4, <2>1, IdleType, IdleInStep, QuietStep
<1>6. CASE ~EditRefused(p, task)
  <2> DEFINE checked == AddsEdge(task, next)
             old == AddsOldTag(was.call, s, i)
  <2>1. Write(p, s, i, next, checked, Idle)
    BY <1>6 DEF WriteTask
  <2>2. task \in Task /\ FieldHides(task) /\ index \in Filings
    BY <1>1, <1>3 DEF Filings, CallType
  <2>3. /\ next \in Task /\ next.there /\ FieldHides(next) /\ (next.parent = task.parent \/ next.parent \in Ids)
        /\ \A d \in ReadDeps(next) : d \in ReadDeps(task) \/ (next.field /\ next.dep # ReadDeps(task) /\ d \in next.dep) \/ old
    <3>1. was.call.addTag # NoValue /\ DepOf[was.call.addTag] # NoId => old
      BY <1>3 DEF AddsOldTag
    <3>2. LET n == Patched(task, was.call)
          IN  /\ n \in Task /\ n.there = task.there /\ FieldHides(n) /\ (n.parent = task.parent \/ n.parent \in Ids)
              /\ \A d \in ReadDeps(n) :
                   \/ d \in ReadDeps(task)
                   \/ n.field /\ n.dep # ReadDeps(task) /\ d \in n.dep
                   \/ was.call.addTag # NoValue /\ DepOf[was.call.addTag] # NoId
      BY <2>2, <1>3, PatchedIs
    <3> HIDE DEF old
    <3> QED
      BY <3>1, <3>2, <1>3
  <2>4. /\ new \in Filings /\ new[s][i] = next
        /\ \A t \in Slugs, j \in Ids : new[t][j] = tasks[t][j] \/ (t = s /\ j = i)
    <3> HIDE DEF next, s, i
    <3> QED
      BY ONLY <1>1, <1>3, <2>3, FilingWritten DEF new
  <2> HIDE DEF old
  <2> SUFFICES /\ next.parent = task.parent \/ Homes(tasks, next.parent) = {s}
               /\ (checked /\ s \in was.missed)
                  \/ (~Cyclic(SlugParents(tasks, s)) => ~Cyclic(SlugParents(new, s)))
               /\ (checked /\ was.missed # {}) \/ old
                  \/ (~Cyclic(DepEdges(tasks, Everyone(tasks))) => ~Cyclic(DepEdges(new, Everyone(new))))
    <3>1. Placed(Idle, p, lock', new) /\ InStep(Idle, new)
      BY IdleInStep
    <3>2. checked \in BOOLEAN
      BY DEF AddsEdge
    <3> HIDE DEF checked, next, s, i
    <3>3. /\ PlansInv /\ s \in Slugs /\ i \in Ids /\ next \in Task /\ checked \in BOOLEAN /\ Idle \in CallType
          /\ Write(p, s, i, next, checked, Idle)
          /\ lock[s] = p /\ tasks[s][i].there /\ next.there /\ FieldHides(next)
          /\ lock' \in [Slugs -> Procs \cup {NoProc}]
          /\ \A t \in Slugs, q \in Procs : lock[t] = q /\ q # p => lock'[t] = q
      BY <1>3, <1>4, <2>1, <2>3, <3>2, IdleType
    <3> HIDE DEF task
    <3>4. next.parent = tasks[s][i].parent \/ Homes(tasks, next.parent) = {s}
      BY DEF task
    <3> QED
      BY <3>1, <3>3, <3>4, TaskWriteKeeps DEF old
  <2>5. CASE ~checked
    <3>1. next.parent = task.parent /\ (next.field => next.dep \subseteq ReadDeps(task))
      BY <2>5 DEF AddsEdge
    <3>2. ~Cyclic(SlugParents(tasks, s)) => ~Cyclic(SlugParents(new, s))
      BY <3>1, <1>1, <1>3, <2>3, ParentsGrow
    <3>3. ~old => \A d \in ReadDeps(next) : d \in ReadDeps(task)
      BY <3>1, <2>3
    <3>4. ~old => (~Cyclic(DepEdges(tasks, Everyone(tasks))) => ~Cyclic(DepEdges(new, Everyone(new))))
      BY <3>3, <1>1, <1>3, <2>3, DepsGrow
    <3> QED
      BY <3>1, <3>2, <3>4
  <2>6. CASE checked
    <3> DEFINE parent == IF next.parent = task.parent THEN NoId ELSE next.parent
               dep == IF next.field /\ next.dep # ReadDeps(task) THEN next.dep ELSE {}
               other == [index EXCEPT ![s][i] = next]
    <3>1. ~Refused(index, s, i, parent, dep)
      BY <1>6, <2>6 DEF EditRefused
    <3>2. \A t \in Slugs : /\ \A j \in Ids : index[t][j].there = tasks[t][j].there
                           /\ t \notin was.missed => \A j \in Ids : tasks[t][j].there => SameEdges(index[t][j], tasks[t][j])
      <4>1. \A t \in Slugs, j \in Ids : HasIn(was, tasks, t, j)
        BY <2>6, <1>2 DEF HasIn
      <4> QED
        BY <4>1, <1>1, <1>3 DEF InStep
    <3>3. index[s][i].there /\ SameThere(index, tasks)
      BY <3>2, <1>3 DEF SameThere
    <3>4. /\ parent # NoId => /\ Homes(index, parent) = {s}
                              /\ ~Reaches(ParentEdges(index, Graph(index, s, i)), parent, i)
          /\ \A d \in dep : d \in ReadDeps(index[s][i]) \/ ~Reaches(DepEdges(index, Graph(index, s, i)), d, i)
      <4> HIDE DEF parent, dep
      <4>1. /\ index \in Filings /\ s \in Slugs /\ i \in Ids /\ index[s][i].there
            /\ ~Refused(index, s, i, parent, dep)
        BY <3>1, <3>3, <2>2, <1>3
      <4> QED
        BY ONLY <4>1, NotRefused
    <3>5. next.parent # task.parent => next.parent = parent /\ parent \in Ids /\ parent # NoId
      BY <2>3, PlansAssumption
    <3>6. next.parent = task.parent \/ Homes(tasks, next.parent) = {s}
      <4> HIDE DEF parent
      <4> QED
        BY <3>3, <3>4, <3>5, HomesSame
    <3>7. /\ other \in Filings /\ other[s][i] = next
          /\ \A t \in Slugs, j \in Ids : other[t][j] = index[t][j] \/ (t = s /\ j = i)
      <4> HIDE DEF next, s, i, index
      <4> QED
        BY ONLY <1>3, <2>2, <2>3, FilingWritten DEF other
    <3>8. SameEdges(index[s][i], task) /\ ~Cyclic(SlugParents(index, s)) => ~Cyclic(SlugParents(other, s))
      <4>1. SameEdges(index[s][i], task) =>
              \/ next.parent = index[s][i].parent
              \/ next.parent \in Ids /\ ~Reaches(ParentEdges(index, Graph(index, s, i)), next.parent, i)
        <5> HIDE DEF parent
        <5> QED
          BY <3>4, <3>5 DEF SameEdges
      <4> HIDE DEF parent, dep, next, task, index
      <4> QED
        BY <4>1, <3>3, <2>2, <2>3, <1>3, ParentsGrow
    <3>9. ~old /\ SameEdges(index[s][i], task) /\ ~Cyclic(DepEdges(index, Everyone(index))) =>
            ~Cyclic(DepEdges(other, Everyone(other)))
      <4>1. ~old /\ SameEdges(index[s][i], task) =>
              \A d \in ReadDeps(next) :
                 d \in ReadDeps(index[s][i]) \/ ~Reaches(DepEdges(index, Graph(index, s, i)), d, i)
        BY <3>4, <2>3 DEF SameEdges
      <4> HIDE DEF parent, dep, next, task, index
      <4>2. index \in Filings /\ s \in Slugs /\ i \in Ids /\ index[s][i].there /\ next \in Task /\ next.there
        BY <3>3, <2>2, <2>3, <1>3
      <4>3. SUFFICES ASSUME \A d \in ReadDeps(next) :
                              d \in ReadDeps(index[s][i]) \/ ~Reaches(DepEdges(index, Graph(index, s, i)), d, i),
                            ~Cyclic(DepEdges(index, Everyone(index)))
                     PROVE  ~Cyclic(DepEdges(other, Everyone(other)))
        BY <4>1
      <4> QED
        BY ONLY <4>2, <4>3, DepsGrow
    <3>10. SameThere(other, new) /\ SameThere(tasks, new) /\ SameEdges(other[s][i], new[s][i])
      <4>1. new[s][i].there = tasks[s][i].there
        BY <1>3, <2>2, <2>3, <2>4 DEF Task
      <4> HIDE DEF other, new
      <4>2. \A t \in Slugs, j \in Ids : new[t][j].there = tasks[t][j].there /\ other[t][j].there = new[t][j].there
        BY <4>1, <3>2, <3>7, <2>4
      <4> QED
        BY <4>2, <3>7, <2>4 DEF SameThere, SameEdges
    <3> HIDE DEF other, new, parent, dep, next, index, s, i, checked
    <3>11. ASSUME \A j \in Ids : tasks[s][j].there => SameEdges(index[s][j], tasks[s][j]), ~Cyclic(SlugParents(tasks, s))
           PROVE  ~Cyclic(SlugParents(new, s))
      <4>1. ~Cyclic(SlugParents(index, s)) => ~Cyclic(SlugParents(other, s))
        BY <3>8, <3>11, <1>3
      <4> QED
        BY ONLY <3>3, <3>7, <3>10, <3>11, <4>1, <2>2, <2>4, <1>1, <1>3, AgreeingParents
    <3>12. ASSUME ~old, \A t \in Slugs, j \in Ids : tasks[t][j].there => SameEdges(index[t][j], tasks[t][j]),
                  ~Cyclic(DepEdges(tasks, Everyone(tasks)))
           PROVE  ~Cyclic(DepEdges(new, Everyone(new)))
      <4>1. ~Cyclic(DepEdges(index, Everyone(index))) => ~Cyclic(DepEdges(other, Everyone(other)))
        BY <3>9, <3>12, <1>3
      <4> QED
        BY ONLY <3>3, <3>7, <3>10, <3>12, <4>1, <2>2, <2>4, <1>1, <1>3, AgreeingDeps
    <3> QED
      BY <3>2, <3>6, <3>11, <3>12, <2>6, <1>3
  <2> QED
    BY <2>5, <2>6
<1> QED
  BY <1>5, <1>6

LEMMA AppliesKeep ==
  ASSUME PlansInv, NEW p \in Procs, NEW writes \in BOOLEAN, ApplyTask(p, writes)
  PROVE  PlansInv'
<1> DEFINE was == proc[p]
           s == proc[p].slug
           here == {n \in proc[p].rest : Line(p, n).slug = s}
           i == Line(p, First(here)).id
           task == tasks[s][i]
           index == proc[p].index
           run == TaskRun(p, s, i)
           dirty == tasks[s][i].there /\ run.task # tasks[s][i] /\ ~proc[p].call.dry
           rest == proc[p].rest \ LinesOf(p, s, i)
           failed == proc[p].failed \/ (tasks[s][i].there /\ run.failed) \/ ~writes
           left == IF ~tasks[s][i].there THEN proc[p].index
                   ELSE IF writes THEN run.index
                   ELSE RolledBack(run.index, s, i, run.task, tasks[s][i])
           then == [proc[p] EXCEPT !.rest = rest, !.failed = failed, !.index = left]
<1>1. /\ was \in CallType /\ Placed(was, p, lock, tasks) /\ InStep(was, tasks)
      /\ tasks \in Filings /\ lock \in [Slugs -> Procs \cup {NoProc}]
      /\ \A t \in Slugs, j \in Ids : FieldHides(tasks[t][j])
  BY DEF PlansInv, PlansTypeOK, NoCircles
<1>2. /\ was.at = "apply" /\ here # {} /\ lock' = lock /\ (~writes => dirty)
      /\ IF dirty /\ writes THEN Write(p, s, i, run.task, proc[p].index # NoIndex, then)
         ELSE NothingWritten /\ proc' = [proc EXCEPT ![p] = then]
  BY DEF ApplyTask, Set
<1>3. was.call \in Plans /\ was.call \notin Edits /\ was.rest \subseteq Valid(was.call) /\ s \in Slugs /\ lock[s] = p
      /\ was.call.kind = "apply"
  BY <1>1, <1>2, KindsApart, PlansAssumption DEF Placed
<1>4. i \in Ids
  <2>1. here \in SUBSET Valid(was.call)
    BY <1>3
  <2>2. was.call.lines[First(here)] \in PlanLine
    <3> HIDE DEF here
    <3> QED
      BY <2>1, <1>2, <1>3, FirstLine
  <2> HIDE DEF here
  <2> QED
    BY <2>2 DEF PlanLine, Line
<1>5. task \in Task /\ FieldHides(task) /\ index \in Filings
  BY <1>1, <1>3, <1>4 DEF Filings, CallType
<1> HIDE DEF here, i
<1>6. task.there =>
        /\ run \in RunType
        /\ RanTask(run, index, task, s, i, TagsOf(p, s, i), ~Edgy(was.call))
        /\ RanIndex(run, index, task, s, i, TagsOf(p, s, i))
  BY <1>1, <1>3, <1>4, <1>5, TaskRunRan
<1> HIDE DEF run
<1>7. /\ left \in Filings /\ failed \in BOOLEAN /\ rest \subseteq was.rest
      /\ task.there => /\ \A t \in Slugs, j \in Ids : left[t][j] = index[t][j] \/ (t = s /\ j = i)
                       /\ index[s][i].there => left[s][i] = IF writes THEN run.index[s][i] ELSE task
                       /\ writes => left = run.index
      /\ ~task.there => left = index
  <2>1. CASE ~task.there
    BY <2>1, <1>5
  <2>2. CASE task.there /\ writes
    BY <2>2, <1>6 DEF RunType, RanIndex
  <2>3. CASE task.there /\ ~writes
    <3>1. left = IF run.index[s][i].there THEN [run.index EXCEPT ![s][i] = task] ELSE run.index
      BY <2>3 DEF RolledBack
    <3>2. run.index \in Filings /\ run.index[s][i].there = index[s][i].there
          /\ \A t \in Slugs, j \in Ids : run.index[t][j] = index[t][j] \/ (t = s /\ j = i)
      BY <2>3, <1>6 DEF RunType, RanIndex
    <3> DEFINE back == [run.index EXCEPT ![s][i] = task]
    <3>3. /\ back \in Filings /\ back[s][i] = task
          /\ \A t \in Slugs, j \in Ids : back[t][j] = run.index[t][j] \/ (t = s /\ j = i)
      <4> HIDE DEF s, task
      <4>1. run.index \in Filings /\ s \in Slugs /\ i \in Ids /\ task \in Task
        BY <3>2, <1>3, <1>4, <1>5
      <4> QED
        BY ONLY <4>1, FilingWritten DEF back
    <3>4. left = IF index[s][i].there THEN back ELSE run.index
      BY <3>1, <3>2
    <3> HIDE DEF left, back, s, task, index
    <3> QED
      BY <2>3, <3>2, <3>3, <3>4
  <2> QED
    BY <2>1, <2>2, <2>3
<1> HIDE DEF left, failed, rest
<1>8. then \in CallType /\ then.at = "apply" /\ then.call = was.call /\ then.slug = s /\ then.rest = rest
      /\ then.index = left /\ then.missed = was.missed
  <2>1. rest \in SUBSET Nat
    BY <1>1, <1>7 DEF CallType
  <2> QED
    BY <1>1, <1>2, <1>7, <2>1 DEF CallType
<1> HIDE DEF then
<1>9. \A ts : Placed(then, p, lock', ts)
  <2>1. rest \subseteq Valid(was.call)
    BY <1>3, <1>7
  <2> QED
    BY <1>2, <1>3, <1>8, <2>1 DEF Placed
<1> DEFINE dry == was.call.dry
<1>10. Edgy(was.call) =>
         /\ SameThere(index, tasks)
         /\ ~dry => \A t \in Slugs : t \notin was.missed => \A j \in Ids : tasks[t][j].there => SameEdges(index[t][j], tasks[t][j])
  <2>1. Edgy(was.call) => \A t \in Slugs, j \in Ids : HasIn(was, tasks, t, j)
    BY <1>2, <1>3 DEF HasIn
  <2> QED
    BY <2>1, <1>1, <1>3 DEF InStep, SameThere
<1>11. ASSUME NEW ts \in Filings, \A t \in Slugs, j \in Ids : ts[t][j] = tasks[t][j] \/ (t = s /\ j = i),
              ts[s][i].there = task.there,
              task.there /\ Edgy(was.call) /\ s \notin was.missed /\ ~dry => SameEdges(left[s][i], ts[s][i]),
              ~task.there => ts = tasks
       PROVE  InStep(then, ts)
  <2>1. SUFFICES ASSUME NEW t \in Slugs, Edgy(was.call)
                 PROVE  /\ \A j \in Ids : left[t][j].there = ts[t][j].there
                        /\ t \notin was.missed /\ ~dry => \A j \in Ids : ts[t][j].there => SameEdges(left[t][j], ts[t][j])
    BY <1>3, <1>8 DEF InStep, HasIn
  <2>2. index[t][i].there = tasks[t][i].there /\ index[s][i].there = task.there
    BY <2>1, <1>10, <1>3, <1>4 DEF SameThere
  <2>3. CASE ~task.there
    BY <2>1, <2>3, <1>7, <1>10, <1>11 DEF SameThere
  <2>4. CASE task.there
    <3>1. left[s][i].there = task.there
      BY <2>2, <2>4, <1>6, <1>7 DEF RanIndex
    <3>2. \A j \in Ids : left[t][j].there = ts[t][j].there
      <4>1. SUFFICES ASSUME NEW j \in Ids PROVE left[t][j].there = ts[t][j].there
        OBVIOUS
      <4>2. CASE t = s /\ j = i
        BY <4>2, <3>1, <1>11
      <4>3. CASE ~(t = s /\ j = i)
        <5>1. left[t][j] = index[t][j] /\ ts[t][j] = tasks[t][j]
          BY <4>3, <2>4, <1>7, <1>11
        <5> QED
          BY <5>1, <2>1, <1>10 DEF SameThere
      <4> QED
        BY <4>2, <4>3
    <3>3. ASSUME t \notin was.missed, ~dry, NEW j \in Ids, ts[t][j].there PROVE SameEdges(left[t][j], ts[t][j])
      <4>1. CASE t = s /\ j = i
        BY <4>1, <3>3, <2>1, <2>4, <1>11
      <4>2. CASE ~(t = s /\ j = i)
        <5>1. left[t][j] = index[t][j] /\ ts[t][j] = tasks[t][j]
          BY <4>2, <2>4, <1>7, <1>11
        <5> QED
          BY <5>1, <3>3, <2>1, <1>10
      <4> QED
        BY <4>1, <4>2
    <3> QED
      BY <3>2, <3>3
  <2> QED
    BY <2>3, <2>4
<1>12. CASE ~(dirty /\ writes)
  <2>1. NothingWritten /\ proc' = [proc EXCEPT ![p] = then]
    BY <1>2, <1>12
  <2>2. task.there /\ Edgy(was.call) /\ s \notin was.missed /\ ~dry => SameEdges(left[s][i], task)
    <3>1. SUFFICES ASSUME task.there, Edgy(was.call), s \notin was.missed, ~dry PROVE SameEdges(left[s][i], task)
      OBVIOUS
    <3>2. index[s][i].there /\ SameEdges(index[s][i], task)
      BY <3>1, <1>3, <1>4, <1>10 DEF SameThere
    <3>3. CASE ~writes
      BY <3>1, <3>2, <3>3, <1>7 DEF SameEdges
    <3>4. CASE writes
      <4>1. run.task = task
        BY <3>1, <3>4, <1>12
      <4>2. SameEdges(run.index[s][i], run.task)
        BY <3>1, <3>2, <1>6 DEF RanIndex
      <4> QED
        BY <3>1, <3>2, <3>4, <4>1, <4>2, <1>7
    <3> QED
      BY <3>3, <3>4
  <2>3. InStep(then, tasks)
    BY <2>2, <1>1, <1>11
  <2> QED
    BY <1>1, <1>2, <1>8, <1>9, <2>1, <2>3, QuietStep
<1>13. CASE dirty /\ writes
  <2> DEFINE next == run.task
             checked == proc[p].index # NoIndex
             old == AddsOldTag(was.call, s, i)
             new == [tasks EXCEPT ![s][i] = next]
  <2>1. Write(p, s, i, next, checked, then) /\ task.there /\ ~dry
    BY <1>2, <1>13
  <2>2. next \in Task /\ next.there /\ FieldHides(next) /\ left = run.index /\ run.index \in Filings
    BY <2>1, <1>6, <1>7, <1>13 DEF RunType, RanTask
  <2>3. (\E tag \in TagsOf(p, s, i) : OldTag(tag)) => old
    <3>1. SUFFICES ASSUME NEW n \in LinesOf(p, s, i), NEW tag \in TagsAdded(Line(p, n).ops), OldTag(tag) PROVE old
      BY DEF TagsOf
    <3>2. n \in Valid(was.call) /\ was.call.lines[n].slug = s /\ was.call.lines[n].id = i
      BY <1>3 DEF LinesOf, Line
    <3>3. PICK m \in DOMAIN was.call.lines[n].ops : was.call.lines[n].ops[m].op = "add_tag" /\ was.call.lines[n].ops[m].value = tag
      BY DEF TagsAdded, Line
    <3>4. \E o \in Range(was.call.lines[n].ops) : o.op = "add_tag" /\ DepOf[o.value] # NoId
      BY <3>1, <3>3 DEF Range, OldTag
    <3> QED
      BY <3>2, <3>4, <1>3 DEF AddsOldTag
  <2> HIDE DEF old, next
  <2>4. /\ new \in Filings /\ new[s][i] = next
        /\ \A t \in Slugs, j \in Ids : new[t][j] = tasks[t][j] \/ (t = s /\ j = i)
    <3> HIDE DEF s
    <3> QED
      BY ONLY <1>1, <1>3, <1>4, <2>2, FilingWritten DEF new
  <2>5. RanTask(run, index, task, s, i, TagsOf(p, s, i), ~Edgy(was.call)) /\ RanIndex(run, index, task, s, i, TagsOf(p, s, i))
    BY <2>1, <1>6
  <2>6. InStep(then, new)
    <3>1. Edgy(was.call) /\ s \notin was.missed => SameEdges(left[s][i], next)
      <4>1. SUFFICES ASSUME Edgy(was.call), s \notin was.missed PROVE SameEdges(left[s][i], next)
        OBVIOUS
      <4>2. index[s][i].there /\ SameEdges(index[s][i], task)
        BY <4>1, <2>1, <1>3, <1>4, <1>10 DEF SameThere
      <4> QED
        BY <4>2, <2>2, <2>5 DEF RanIndex, next
    <3>2. new[s][i].there = task.there
      BY <2>1, <2>2, <2>4, <1>5 DEF Task
    <3> HIDE DEF new
    <3> QED
      BY <3>1, <3>2, <2>1, <2>4, <1>11
  <2> SUFFICES /\ next.parent = task.parent \/ Homes(tasks, next.parent) = {s}
               /\ (checked /\ s \in was.missed)
                  \/ (~Cyclic(SlugParents(tasks, s)) => ~Cyclic(SlugParents(new, s)))
               /\ (checked /\ was.missed # {}) \/ old
                  \/ (~Cyclic(DepEdges(tasks, Everyone(tasks))) => ~Cyclic(DepEdges(new, Everyone(new))))
    <3>1. /\ lock' \in [Slugs -> Procs \cup {NoProc}]
          /\ \A t \in Slugs, q \in Procs : lock[t] = q /\ q # p => lock'[t] = q
          /\ checked \in BOOLEAN /\ Placed(then, p, lock', new)
      BY <1>1, <1>2, <1>9
    <3> HIDE DEF checked, s
    <3> QED
      BY <1>3, <1>4, <1>8, <2>1, <2>2, <2>6, <3>1, TaskWriteKeeps DEF old
  <2>7. CASE ~Edgy(was.call)
    <3>1. next.parent = task.parent /\ next.field = task.field /\ next.dep = task.dep
          /\ next.tags \subseteq task.tags \cup TagsOf(p, s, i)
      BY <2>5, <2>7 DEF RanTask, next
    <3>2. ~Cyclic(SlugParents(tasks, s)) => ~Cyclic(SlugParents(new, s))
      BY <3>1, <1>1, <1>3, <1>4, <2>1, <2>2, ParentsGrow
    <3>3. ~old => \A d \in ReadDeps(next) : d \in ReadDeps(task)
      BY <3>1, <2>3 DEF ReadDeps, OldTag
    <3>4. ~old => (~Cyclic(DepEdges(tasks, Everyone(tasks))) => ~Cyclic(DepEdges(new, Everyone(new))))
      BY <3>3, <1>1, <1>3, <1>4, <2>1, <2>2, DepsGrow
    <3> QED
      BY <3>1, <3>2, <3>4
  <2>8. CASE Edgy(was.call)
    <3>1. index[s][i].there /\ SameThere(index, tasks)
      BY <2>1, <2>8, <1>3, <1>4, <1>10 DEF SameThere
    <3>2. checked
      <4>1. ~NoIndex[s][i].there
        BY <1>3, <1>4 DEF NoIndex, NoTask
      <4> QED
        BY <3>1, <4>1
    <3>3. next.parent = task.parent \/ Homes(tasks, next.parent) = {s}
      <4>1. next.parent = task.parent \/ (next.parent \in Ids /\ Homes(index, next.parent) = {s})
        BY <2>5, <3>1 DEF RanTask, next
      <4> QED
        BY <3>1, <4>1, HomesSame
    <3> DEFINE other == run.index
    <3>4. /\ other \in Filings /\ SameThere(other, new) /\ SameThere(tasks, new)
          /\ \A t \in Slugs, j \in Ids : other[t][j] = index[t][j] \/ (t = s /\ j = i)
      <4>1. \A t \in Slugs, j \in Ids : other[t][j] = index[t][j] \/ (t = s /\ j = i)
        BY <2>5 DEF RanIndex
      <4>2. other[s][i].there = index[s][i].there
        BY <2>5 DEF RanIndex
      <4>3. new[s][i].there = tasks[s][i].there
        BY <2>1, <2>2, <2>4, <1>5 DEF Task
      <4> HIDE DEF new, other
      <4>4. ASSUME NEW t \in Slugs, NEW j \in Ids
            PROVE  new[t][j].there = tasks[t][j].there /\ other[t][j].there = new[t][j].there
        <5>1. index[t][j].there = tasks[t][j].there
          BY ONLY <3>1, t \in Slugs, j \in Ids DEF SameThere
        <5>2. CASE t = s /\ j = i
          BY ONLY <4>2, <4>3, <5>1, <5>2
        <5>3. CASE ~(t = s /\ j = i)
          <6>1. new[t][j] = tasks[t][j] /\ other[t][j] = index[t][j]
            BY ONLY <2>4, <4>1, <5>3, t \in Slugs, j \in Ids
          <6> QED
            BY ONLY <5>1, <6>1
        <5> QED
          BY ONLY <5>2, <5>3
      <4> QED
        BY <4>1, <4>4, <2>2 DEF SameThere, other
    <3>5. SameEdges(index[s][i], task) =>
            /\ SameEdges(other[s][i], next)
            /\ ~Cyclic(SlugParents(index, s)) => ~Cyclic(SlugParents(other, s))
            /\ ~Cyclic(DepEdges(index, Everyone(index))) /\ ~old => ~Cyclic(DepEdges(other, Everyone(other)))
      BY <2>3, <2>5, <3>1 DEF RanIndex, next
    <3> HIDE DEF other, new, index, s, checked
    <3>6. ASSUME s \notin was.missed, ~Cyclic(SlugParents(tasks, s)) PROVE ~Cyclic(SlugParents(new, s))
      <4>1. \A j \in Ids : tasks[s][j].there => SameEdges(index[s][j], tasks[s][j])
        BY <3>6, <2>1, <2>8, <1>3, <1>10
      <4>2. SameEdges(other[s][i], new[s][i]) /\ (~Cyclic(SlugParents(index, s)) => ~Cyclic(SlugParents(other, s)))
        BY <4>1, <3>5, <2>1, <2>4, <1>4
      <4> QED
        BY ONLY <3>1, <3>4, <3>6, <4>1, <4>2, <2>4, <1>1, <1>3, <1>4, <1>5, AgreeingParents
    <3>7. ASSUME was.missed = {}, ~old, ~Cyclic(DepEdges(tasks, Everyone(tasks))) PROVE ~Cyclic(DepEdges(new, Everyone(new)))
      <4>1. \A t \in Slugs, j \in Ids : tasks[t][j].there => SameEdges(index[t][j], tasks[t][j])
        BY <3>7, <2>1, <2>8, <1>3, <1>10
      <4>2. SameEdges(other[s][i], new[s][i])
            /\ (~Cyclic(DepEdges(index, Everyone(index))) => ~Cyclic(DepEdges(other, Everyone(other))))
        BY <4>1, <3>5, <3>7, <2>1, <2>4, <1>3, <1>4
      <4> QED
        BY ONLY <3>1, <3>4, <3>7, <4>1, <4>2, <2>4, <1>1, <1>3, <1>4, <1>5, AgreeingDeps
    <3> QED
      BY <3>2, <3>3, <3>6, <3>7
  <2> QED
    BY <2>7, <2>8
<1> QED
  BY <1>12, <1>13

----------------------------------------------------------------------------
LEMMA PlansStep == PlansInv /\ [PlansNext]_plansVars => PlansInv'
<1> SUFFICES ASSUME PlansInv, [PlansNext]_plansVars PROVE PlansInv'
  OBVIOUS
<1>1. ASSUME NEW p \in Procs,
             \/ \E e \in Edits : StartEdit(p, e)
             \/ \E call \in Plans : StartPlan(p, call)
             \/ \E s \in Slugs, i \in Ids : LoadTask(p, s, i)
             \/ NextSlug(p) \/ Enter(p) \/ ReadTask(p) \/ WriteTask(p)
             \/ \E writes \in BOOLEAN : ApplyTask(p, writes)
             \/ LeaveSlug(p) \/ Report(p) \/ KillCall(p)
      PROVE  PlansInv'
  BY <1>1, StartsKeep, LoadsKeep, MovesKeep, EditsKeep, AppliesKeep
<1>2. CASE UNCHANGED plansVars
  <2>1. /\ tasks' = tasks /\ lock' = lock /\ proc' = proc
        /\ crossed' = crossed /\ overtaken' = overtaken /\ tagged' = tagged
    BY <1>2 DEF plansVars
  <2>2. PlansTypeOK' /\ NoCircles(tasks)'
    BY <2>1 DEF PlansInv, PlansTypeOK, NoCircles
  <2>3. \A q \in Procs : Placed(proc'[q], q, lock', tasks') /\ InStep(proc'[q], tasks')
    BY <2>1 DEF PlansInv
  <2> QED
    BY <2>2, <2>3 DEF PlansInv
<1> QED
  BY <1>1, <1>2 DEF PlansNext

\* Every index that a call works with is as the disk is, or the call has missed a write;
\* parents are at home, and circles are closed only as EdgesAcyclic says (loadEdgeIndex,
\* edgeErrors, writeOrRollBack).
THEOREM PlansInvariant == PlansSpec => []PlansInv
<1>1. PlansInit => PlansInv
  BY InitPlans
<1>2. PlansInv /\ [PlansNext]_plansVars => PlansInv'
  BY PlansStep
<1> QED
  BY <1>1, <1>2, PTL DEF PlansSpec

\* A circle of parents or dependencies is only ever closed by a write whose index the disk had
\* left behind, or by a tag that stands for a dependency (assertEdgeWrite, edgeErrors).
THEOREM EdgesStayAcyclic == PlansSpec => []EdgesAcyclic
<1>1. PlansInv => EdgesAcyclic
  <2> SUFFICES ASSUME PlansInv PROVE EdgesAcyclic
    OBVIOUS
  <2>1. tasks \in Filings /\ NoCircles(tasks)
    BY DEF PlansInv, PlansTypeOK
  <2>2. overtaken \/ ~Cyclic(ParentEdges(tasks, Everyone(tasks)))
    BY <2>1, ParentsApart DEF NoCircles
  <2> QED
    BY <2>1, <2>2 DEF NoCircles, EdgesAcyclic
<1> QED
  BY <1>1, PlansInvariant, PTL

----------------------------------------------------------------------------
(* What a plan has made of a task.                                           *)

\* What the operations at the places `at` can have made of a task, all of them or some.
Partly(was, is, plan, at) ==
  /\ is.there = was.there /\ (was.field => is.field) /\ (was.done => is.done)
  /\ is.done => was.done \/ Says(plan, at, {"done"}, {NoValue})
  /\ is.parent = was.parent \/ Says(plan, at, {"set_parent"}, {is.parent})
  /\ \A g \in Tags : g \in is.tags => g \in was.tags \/ Says(plan, at, {"add_tag"}, {g})
  /\ \A g \in Tags : g \in was.tags => g \in is.tags \/ Says(plan, at, {"remove_tag"}, {g})
  /\ \A l \in Lines : \/ is.notes[l] = was.notes[l]
                      \/ was.notes[l] = 0 /\ is.notes[l] = 1 /\ Says(plan, at, {"append"}, {l})
  /\ \A d \in ReadDeps(is) : \/ d \in ReadDeps(was) \/ Says(plan, at, {"add_dep"}, {d})
                             \/ \E g \in Tags : d = DepOf[g] /\ Says(plan, at, {"add_tag"}, {g})

\* And what those at some of the places, which all have been done, have left for sure.
Tagging == {"add_tag", "remove_tag"}
Followed(is, plan, P) ==
  /\ Says(plan, P, {"done"}, {NoValue}) => is.done
  /\ Says(plan, P, {"set_parent"}, Ids) => \E x \in LastOf(plan, P, {"set_parent"}, Ids) : is.parent = OpAt(plan, x).value
  /\ \A g \in Tags : Says(plan, P, Tagging, {g}) =>
       \E x \in LastOf(plan, P, Tagging, {g}) : g \in is.tags <=> OpAt(plan, x).op = "add_tag"
  /\ \A l \in Lines : Says(plan, P, {"append"}, {l}) => is.notes[l] > 0
  /\ \A d \in Ids : Says(plan, P, {"add_dep"}, {d}) => is.field /\ d \in is.dep

\* Places are pairs of numbers.
AtPlaces(plan, at) == at \subseteq Nat \X Nat /\ \A x \in at : OpAt(plan, x) \in Operation

LEMMA SayingIs ==
  ASSUME NEW plan, NEW at, NEW names, NEW values
  PROVE  /\ \A x : x \in Saying(plan, at, names, values) <=> x \in at /\ OpAt(plan, x).op \in names /\ OpAt(plan, x).value \in values
         /\ Says(plan, at, names, values) <=> \E x \in at : OpAt(plan, x).op \in names /\ OpAt(plan, x).value \in values
         /\ \A x : x \in LastOf(plan, at, names, values) <=>
              /\ x \in at /\ OpAt(plan, x).op \in names /\ OpAt(plan, x).value \in values
              /\ ~\E y \in at : OpAt(plan, y).op \in names /\ OpAt(plan, y).value \in values /\ Before(x, y)
  BY DEF Saying, Says, LastOf

\* Of two places one is before the other.
LEMMA PlacesInOrder ==
  ASSUME NEW x \in Nat \X Nat, NEW y \in Nat \X Nat, x # y
  PROVE  (Before(x, y) \/ Before(y, x)) /\ ~(Before(x, y) /\ Before(y, x))
<1>1. x = <<x[1], x[2]>> /\ y = <<y[1], y[2]>> /\ {x[1], x[2], y[1], y[2]} \subseteq Nat
  OBVIOUS
<1> QED
  BY <1>1 DEF Before

\* When everything that a plan says of a task has been done, the task is as the plan says.
LEMMA AllFollowed ==
  ASSUME NEW was \in Task, NEW is \in Task, NEW plan, NEW at, AtPlaces(plan, at),
         Partly(was, is, plan, at), Followed(is, plan, at)
  PROVE  IsAsSaid(was, is, plan, at)
<1>1. is.there = was.there /\ (is.done <=> was.done \/ Says(plan, at, {"done"}, {NoValue}))
  BY DEF Partly, Followed
<1>2. IF Says(plan, at, {"set_parent"}, Ids)
      THEN \E x \in LastOf(plan, at, {"set_parent"}, Ids) : is.parent = OpAt(plan, x).value
      ELSE is.parent = was.parent
  <2>1. ASSUME Says(plan, at, {"set_parent"}, {is.parent}) PROVE Says(plan, at, {"set_parent"}, Ids)
    <3>1. PICK x \in at : OpAt(plan, x).op = "set_parent" /\ OpAt(plan, x).value = is.parent
      BY <2>1, SayingIs
    <3>2. OpAt(plan, x).value \in Ids
      BY <3>1 DEF AtPlaces, Operation
    <3> QED
      BY <3>1, <3>2, SayingIs
  <2> QED
    BY <2>1 DEF Partly, Followed
<1>3. ASSUME NEW g \in Tags
      PROVE  g \in is.tags <=>
               IF Says(plan, at, Tagging, {g}) THEN \E x \in LastOf(plan, at, Tagging, {g}) : OpAt(plan, x).op = "add_tag"
               ELSE g \in was.tags
  <2>1. CASE ~Says(plan, at, Tagging, {g})
    <3>1. ~Says(plan, at, {"add_tag"}, {g}) /\ ~Says(plan, at, {"remove_tag"}, {g})
      BY <2>1, SayingIs DEF Tagging
    <3> QED
      BY <2>1, <3>1 DEF Partly
  <2>2. CASE Says(plan, at, Tagging, {g})
    <3>1. PICK x \in LastOf(plan, at, Tagging, {g}) : g \in is.tags <=> OpAt(plan, x).op = "add_tag"
      BY <2>2 DEF Followed
    <3>2. ASSUME NEW y \in LastOf(plan, at, Tagging, {g}) PROVE y = x
      <4>1. x \in at /\ y \in at /\ ~Before(x, y) /\ ~Before(y, x)
        BY <3>1, <3>2, SayingIs
      <4>2. x \in Nat \X Nat /\ y \in Nat \X Nat
        BY <4>1 DEF AtPlaces
      <4> QED
        BY <4>1, <4>2, PlacesInOrder
    <3> QED
      BY <2>2, <3>1, <3>2
  <2> QED
    BY <2>1, <2>2
<1>4. ASSUME NEW l \in Lines
      PROVE  is.notes[l] = IF Says(plan, at, {"append"}, {l}) /\ was.notes[l] = 0 THEN 1 ELSE was.notes[l]
  <2>1. is.notes[l] \in Nat /\ was.notes[l] \in Nat
    BY DEF Task
  <2> QED
    BY <2>1 DEF Partly, Followed
<1>5. ASSUME NEW d \in Ids, Says(plan, at, {"add_dep"}, {d}) PROVE d \in ReadDeps(is)
  BY <1>5 DEF Followed, ReadDeps
<1>6. ASSUME NEW d \in ReadDeps(is)
      PROVE  \/ d \in ReadDeps(was) \/ d \in {e \in Ids : Says(plan, at, {"add_dep"}, {e})}
             \/ d \in {DepOf[g] : g \in {h \in Tags : Says(plan, at, {"add_tag"}, {h})}}
  <2>1. d \in Ids
    BY ReadDepsType
  <2> QED
    BY <2>1 DEF Partly
<1> QED
  BY <1>1, <1>2, <1>3, <1>4, <1>5, <1>6 DEF IsAsSaid, Tagging

\* What one operation does to each part of a task.
Does(t, o, u) ==
  /\ u \in Task /\ u.there = t.there /\ (t.field => u.field)
  /\ u.done <=> t.done \/ o.op = "done"
  /\ u.parent = IF o.op = "set_parent" THEN o.value ELSE t.parent
  /\ \A g \in Tags : g \in u.tags <=> \/ o.op = "add_tag" /\ o.value = g
                                      \/ g \in t.tags /\ ~(o.op = "remove_tag" /\ o.value = g)
  /\ \A l \in Lines : u.notes[l] = IF o.op = "append" /\ o.value = l /\ t.notes[l] = 0 THEN 1 ELSE t.notes[l]
  /\ t.field => t.dep \subseteq u.dep
  /\ o.op = "add_dep" => u.field /\ o.value \in u.dep
  /\ \A d \in ReadDeps(u) : d \in ReadDeps(t) \/ (o.op = "add_dep" /\ d = o.value) \/ (o.op = "add_tag" /\ d = DepOf[o.value])

LEMMA SteppedDoes ==
  ASSUME NEW t \in Task, NEW o \in Operation, NEW i \in Ids, NEW index
  PROVE  Does(t, o, Stepped(t, i, o, index))
<1> DEFINE u == Stepped(t, i, o, index)
<1>1. CASE o.op = "done"
  <2>1. u = [t EXCEPT !.done = TRUE]
    BY <1>1 DEF Stepped
  <2> HIDE DEF u
  <2>2. /\ u \in Task /\ u.there = t.there /\ u.field = t.field /\ u.dep = t.dep /\ u.parent = t.parent
        /\ u.tags = t.tags /\ u.notes = t.notes /\ u.done = TRUE
    BY <2>1 DEF Task
  <2>3. Does(t, o, u)
    BY <2>2, <1>1 DEF Does, ReadDeps
  <2> QED
    BY <2>3 DEF u
<1>2. CASE o.op = "append"
  <2>1. o.value \in Lines /\ u = Appended(t, o.value)
    BY <1>2 DEF Stepped, Operation
  <2> HIDE DEF u
  <2>2. t.notes \in [Lines -> Nat] /\ \A l \in Lines : t.notes[l] \in Nat
    BY DEF Task
  <2>3. CASE t.notes[o.value] > 0
    <3>1. u = t
      BY <2>1, <2>3 DEF Appended
    <3>2. \A l \in Lines : o.value = l => t.notes[l] # 0
      BY <2>2, <2>3
    <3> QED
      BY <3>1, <3>2, <1>2 DEF Does, u
  <2>4. CASE ~(t.notes[o.value] > 0)
    <3> DEFINE notes == [t.notes EXCEPT ![o.value] = @ + 1]
    <3>1. u = [t EXCEPT !.notes = notes]
      BY <2>1, <2>4 DEF Appended
    <3>2. t.notes[o.value] = 0
      BY <2>1, <2>2, <2>4
    <3>3. notes \in [Lines -> Nat] /\ \A l \in Lines : notes[l] = IF l = o.value THEN 1 ELSE t.notes[l]
      BY <2>1, <2>2, <3>2
    <3> HIDE DEF notes
    <3>4. /\ u \in Task /\ u.there = t.there /\ u.field = t.field /\ u.dep = t.dep /\ u.parent = t.parent
          /\ u.tags = t.tags /\ u.notes = notes /\ u.done = t.done
      BY <3>1, <3>3 DEF Task
    <3>5. \A l \in Lines : u.notes[l] = IF o.op = "append" /\ o.value = l /\ t.notes[l] = 0 THEN 1 ELSE t.notes[l]
      BY <3>2, <3>3, <3>4, <1>2
    <3>6. Does(t, o, u)
      BY <3>4, <3>5, <1>2 DEF Does, ReadDeps
    <3> QED
      BY <3>6 DEF u
  <2> QED
    BY <2>3, <2>4
<1>3. CASE o.op \in {"add_tag", "remove_tag"}
  <2>1. o.value \in Tags /\ u = [t EXCEPT !.tags = IF o.op = "add_tag" THEN @ \cup {o.value} ELSE @ \ {o.value}]
    BY <1>3 DEF Stepped, Operation
  <2> HIDE DEF u
  <2>2. /\ u \in Task /\ u.there = t.there /\ u.field = t.field /\ u.dep = t.dep /\ u.parent = t.parent
        /\ u.notes = t.notes /\ u.done = t.done
        /\ u.tags = IF o.op = "add_tag" THEN t.tags \cup {o.value} ELSE t.tags \ {o.value}
    BY <2>1 DEF Task
  <2>3. \A d \in ReadDeps(u) : d \in ReadDeps(t) \/ (o.op = "add_tag" /\ d = DepOf[o.value])
    BY <2>2 DEF ReadDeps
  <2>4. Does(t, o, u)
    BY <2>2, <2>3, <1>3 DEF Does
  <2> QED
    BY <2>4 DEF u
<1>4. CASE o.op = "set_parent"
  <2>1. o.value \in Ids /\ u = [t EXCEPT !.parent = o.value]
    BY <1>4 DEF Stepped, Operation
  <2> HIDE DEF u
  <2>2. /\ u \in Task /\ u.there = t.there /\ u.field = t.field /\ u.dep = t.dep /\ u.parent = o.value
        /\ u.tags = t.tags /\ u.notes = t.notes /\ u.done = t.done
    BY <2>1 DEF Task
  <2>3. Does(t, o, u)
    BY <2>2, <1>4 DEF Does, ReadDeps
  <2> QED
    BY <2>3 DEF u
<1>5. CASE o.op = "add_dep"
  <2>1. o.value \in Ids
        /\ u = IF t.field /\ o.value \in t.dep THEN t
               ELSE [t EXCEPT !.field = TRUE, !.dep = Carried(t, i, index) \cup {o.value}]
    BY <1>5 DEF Stepped, Operation
  <2> HIDE DEF u
  <2>2. CASE t.field /\ o.value \in t.dep
    <3>1. u = t
      BY <2>1, <2>2
    <3> QED
      BY <3>1, <2>2, <1>5 DEF Does, u
  <2>3. CASE ~(t.field /\ o.value \in t.dep)
    <3>1. Carried(t, i, index) \subseteq ReadDeps(t) /\ (t.field => Carried(t, i, index) = t.dep) /\ ReadDeps(t) \subseteq Ids
      BY ReadDepsType DEF Carried, ReadDeps
    <3>2. /\ u \in Task /\ u.there = t.there /\ u.field = TRUE /\ u.dep = Carried(t, i, index) \cup {o.value}
          /\ u.parent = t.parent /\ u.tags = t.tags /\ u.notes = t.notes /\ u.done = t.done
      BY <2>1, <2>3, <3>1 DEF Task
    <3>3. ReadDeps(u) = u.dep
      BY <3>2 DEF ReadDeps
    <3>4. Does(t, o, u)
      BY <3>1, <3>2, <3>3, <1>5 DEF Does
    <3> QED
      BY <3>4 DEF u
  <2> QED
    BY <2>2, <2>3
<1>6. o.op \in {"done", "append", "add_tag", "remove_tag", "set_parent", "add_dep"}
  BY DEF Operation
<1> QED
  BY <1>1, <1>2, <1>3, <1>4, <1>5, <1>6

\* A place after all those of P is the last, of whatever it says.
LEMMA NextPlace ==
  ASSUME NEW plan, NEW at, AtPlaces(plan, at), NEW P \in SUBSET at, NEW x \in at, \A y \in P : Before(y, x),
         NEW names, NEW values
  PROVE  LET it == OpAt(plan, x).op \in names /\ OpAt(plan, x).value \in values
         IN  /\ it => x \in LastOf(plan, P \cup {x}, names, values)
             /\ ~it => /\ Says(plan, P \cup {x}, names, values) => Says(plan, P, names, values)
                       /\ LastOf(plan, P, names, values) \subseteq LastOf(plan, P \cup {x}, names, values)
<1>1. ASSUME NEW y \in P \cup {x} PROVE ~Before(x, y)
  <2>1. x \in Nat \X Nat /\ y \in Nat \X Nat
    BY DEF AtPlaces
  <2>2. CASE y = x
    <3>1. x[1] \in Nat /\ x[2] \in Nat
      BY <2>1
    <3> QED
      BY <3>1, <2>2 DEF Before
  <2>3. CASE y # x
    BY <2>1, <2>3, PlacesInOrder
  <2> QED
    BY <2>2, <2>3
<1> QED
  BY <1>1, SayingIs

\* One operation more has been done.
LEMMA StepFollows ==
  ASSUME NEW plan, NEW at, AtPlaces(plan, at), NEW P \in SUBSET at, NEW x \in at, \A y \in P : Before(y, x),
         NEW was \in Task, NEW t \in Task, NEW u, Does(t, OpAt(plan, x), u),
         Partly(was, t, plan, at), Followed(t, plan, P)
  PROVE  Partly(was, u, plan, at) /\ Followed(u, plan, P \cup {x})
<1> DEFINE o == OpAt(plan, x)
           Q == P \cup {x}
<1>1. o \in Operation
  BY DEF AtPlaces
<1>2. \A names, values : o.op \in names /\ o.value \in values => Says(plan, at, names, values)
  BY SayingIs
<1>3. \A names, values : o.op \in names /\ o.value \in values => x \in LastOf(plan, Q, names, values)
  BY NextPlace
<1>4. \A names, values : ~(o.op \in names /\ o.value \in values) =>
        /\ Says(plan, Q, names, values) => Says(plan, P, names, values)
        /\ LastOf(plan, P, names, values) \subseteq LastOf(plan, Q, names, values)
  BY NextPlace
<1> HIDE DEF Q
<1>5. Partly(was, u, plan, at)
  <2>1. u.there = was.there /\ (was.field => u.field) /\ (was.done => u.done)
    BY DEF Partly, Does
  <2>2. u.done => was.done \/ Says(plan, at, {"done"}, {NoValue})
    <3>1. o.op = "done" => o.value = NoValue
      BY <1>1 DEF Operation
    <3> QED
      BY <3>1, <1>2 DEF Partly, Does
  <2>3. u.parent = was.parent \/ Says(plan, at, {"set_parent"}, {u.parent})
    BY <1>2 DEF Partly, Does
  <2>4. ASSUME NEW g \in Tags
        PROVE  /\ g \in u.tags => g \in was.tags \/ Says(plan, at, {"add_tag"}, {g})
               /\ g \in was.tags => g \in u.tags \/ Says(plan, at, {"remove_tag"}, {g})
    BY <1>2 DEF Partly, Does
  <2>5. ASSUME NEW l \in Lines
        PROVE  \/ u.notes[l] = was.notes[l]
               \/ was.notes[l] = 0 /\ u.notes[l] = 1 /\ Says(plan, at, {"append"}, {l})
    BY <1>2 DEF Partly, Does
  <2>6. ASSUME NEW d \in ReadDeps(u)
        PROVE  \/ d \in ReadDeps(was) \/ Says(plan, at, {"add_dep"}, {d})
               \/ \E g \in Tags : d = DepOf[g] /\ Says(plan, at, {"add_tag"}, {g})
    <3>1. CASE d \in ReadDeps(t)
      BY <3>1 DEF Partly
    <3>2. CASE o.op = "add_dep" /\ d = o.value
      BY <3>2, <1>2
    <3>3. CASE o.op = "add_tag" /\ d = DepOf[o.value]
      <4>1. o.value \in Tags
        BY <3>3, <1>1 DEF Operation
      <4> QED
        BY <4>1, <3>3, <1>2
    <3> QED
      BY <3>1, <3>2, <3>3 DEF Does
  <2> QED
    BY <2>1, <2>2, <2>3, <2>4, <2>5, <2>6 DEF Partly
<1>6. Followed(u, plan, Q)
  <2>1. Says(plan, Q, {"done"}, {NoValue}) => u.done
    <3>1. CASE o.op = "done"
      BY <3>1 DEF Does
    <3>2. CASE o.op # "done"
      BY <3>2, <1>4 DEF Does, Followed
    <3> QED
      BY <3>1, <3>2
  <2>2. Says(plan, Q, {"set_parent"}, Ids) => \E y \in LastOf(plan, Q, {"set_parent"}, Ids) : u.parent = OpAt(plan, y).value
    <3>1. CASE o.op = "set_parent"
      <4>1. o.value \in Ids
        BY <3>1, <1>1 DEF Operation
      <4> QED
        BY <4>1, <3>1, <1>3 DEF Does
    <3>2. CASE o.op # "set_parent"
      BY <3>2, <1>4 DEF Does, Followed
    <3> QED
      BY <3>1, <3>2
  <2>3. ASSUME NEW g \in Tags, Says(plan, Q, Tagging, {g})
        PROVE  \E y \in LastOf(plan, Q, Tagging, {g}) : g \in u.tags <=> OpAt(plan, y).op = "add_tag"
    <3>1. CASE o.op \in Tagging /\ o.value = g
      <4>1. x \in LastOf(plan, Q, Tagging, {g})
        BY <3>1, <1>3
      <4>2. g \in u.tags <=> o.op = "add_tag"
        BY <3>1 DEF Does, Tagging
      <4> QED
        BY <4>1, <4>2
    <3>2. CASE ~(o.op \in Tagging /\ o.value = g)
      <4>1. Says(plan, P, Tagging, {g}) /\ LastOf(plan, P, Tagging, {g}) \subseteq LastOf(plan, Q, Tagging, {g})
        BY <3>2, <2>3, <1>4
      <4>2. g \in u.tags <=> g \in t.tags
        BY <3>2 DEF Does, Tagging
      <4> QED
        BY <4>1, <4>2 DEF Followed
    <3> QED
      BY <3>1, <3>2
  <2>4. ASSUME NEW l \in Lines, Says(plan, Q, {"append"}, {l}) PROVE u.notes[l] > 0
    <3>1. t.notes[l] \in Nat
      BY DEF Task
    <3>2. CASE o.op = "append" /\ o.value = l
      BY <3>1, <3>2 DEF Does
    <3>3. CASE ~(o.op = "append" /\ o.value = l)
      <4>1. Says(plan, P, {"append"}, {l})
        BY <3>3, <2>4, <1>4
      <4> QED
        BY <4>1, <3>3, <3>1 DEF Does, Followed
    <3> QED
      BY <3>2, <3>3
  <2>5. ASSUME NEW d \in Ids, Says(plan, Q, {"add_dep"}, {d}) PROVE u.field /\ d \in u.dep
    <3>1. CASE o.op = "add_dep" /\ o.value = d
      BY <3>1 DEF Does
    <3>2. CASE ~(o.op = "add_dep" /\ o.value = d)
      <4>1. Says(plan, P, {"add_dep"}, {d})
        BY <3>2, <2>5, <1>4
      <4> QED
        BY <4>1 DEF Does, Followed
    <3> QED
      BY <3>1, <3>2
  <2> QED
    BY <2>1, <2>2, <2>3, <2>4, <2>5 DEF Followed
<1> QED
  BY <1>5, <1>6 DEF Q

\* The lines of a plan for a task.
Mine(plan, s, i) == {n \in Valid(plan) : plan.lines[n].slug = s /\ plan.lines[n].id = i}

LEMMA PlacesAre ==
  ASSUME NEW plan \in Plans, NEW s \in Slugs, NEW i \in Ids
  PROVE  /\ plan.lines \in Seq(PlanLine) /\ Mine(plan, s, i) \subseteq 1..Len(plan.lines)
         /\ \A n \in Mine(plan, s, i) : plan.lines[n] \in PlanLine /\ plan.lines[n].ops \in Seq(Operation)
         /\ \A x : x \in Places(plan, s, i) <=>
              \E n \in Mine(plan, s, i) : \E m \in DOMAIN plan.lines[n].ops : x = <<n, m>>
         /\ AtPlaces(plan, Places(plan, s, i))
<1>1. plan.lines \in Seq(PlanLine)
  BY PlansAssumption
<1>2. Mine(plan, s, i) \subseteq 1..Len(plan.lines)
  BY <1>1 DEF Mine, Valid
<1>3. ASSUME NEW n \in Mine(plan, s, i) PROVE plan.lines[n] \in PlanLine /\ plan.lines[n].ops \in Seq(Operation)
  <2>1. n \in 1..Len(plan.lines)
    BY <1>2
  <2>2. plan.lines[n] \in PlanLine
    BY <1>1, <2>1
  <2> QED
    BY <2>2 DEF PlanLine
<1>4. \A x : x \in Places(plan, s, i) <=>
        \E n \in Mine(plan, s, i) : \E m \in DOMAIN plan.lines[n].ops : x = <<n, m>>
  BY DEF Places, Mine
<1>5. ASSUME NEW x \in Places(plan, s, i) PROVE x \in Nat \X Nat /\ OpAt(plan, x) \in Operation
  <2>1. PICK n \in Mine(plan, s, i) : \E m \in DOMAIN plan.lines[n].ops : x = <<n, m>>
    BY <1>4
  <2>2. plan.lines[n].ops \in Seq(Operation) /\ n \in Nat
    BY <1>2, <1>3
  <2>3. PICK m \in DOMAIN plan.lines[n].ops : x = <<n, m>>
    BY <2>1
  <2>4. m \in Nat /\ plan.lines[n].ops[m] \in Operation
    BY <2>2, <2>3
  <2> QED
    BY <2>2, <2>3, <2>4 DEF OpAt
<1> QED
  BY <1>1, <1>2, <1>3, <1>4, <1>5 DEF AtPlaces

\* The operations of a line, after what the lines before it have left.
LEMMA OperatedFollows ==
  ASSUME NEW plan \in Plans, NEW s \in Slugs, NEW i \in Ids, NEW n \in Mine(plan, s, i),
         NEW P \in SUBSET Places(plan, s, i), \A x \in P : x[1] < n,
         NEW was \in Task, NEW t \in Task, FieldHides(t), NEW index,
         Partly(was, t, plan, Places(plan, s, i)), Followed(t, plan, P)
  PROVE  LET u == Operated(t, i, plan.lines[n].ops, index)
         IN  /\ Partly(was, u, plan, Places(plan, s, i))
             /\ Followed(u, plan, P \cup {x \in Places(plan, s, i) : x[1] = n})
<1> DEFINE ops == plan.lines[n].ops
           at == Places(plan, s, i)
           N == Len(ops)
           Q(m) == P \cup {x \in at : x[1] = n /\ x[2] <= m}
<1>1. /\ ops \in Seq(Operation) /\ AtPlaces(plan, at) /\ n \in Nat /\ N \in Nat /\ DOMAIN ops = 1..N
      /\ \A m \in 1..N : <<n, m>> \in at /\ OpAt(plan, <<n, m>>) = ops[m]
      /\ \A x \in at : x[1] = n => x = <<n, x[2]>> /\ x[2] \in 1..N
  <2>1. /\ ops \in Seq(Operation) /\ AtPlaces(plan, at) /\ n \in Nat
        /\ \A x : x \in at <=> \E k \in Mine(plan, s, i) : \E m \in DOMAIN plan.lines[k].ops : x = <<k, m>>
    BY PlacesAre
  <2> HIDE DEF at
  <2>2. N \in Nat /\ DOMAIN ops = 1..N
    BY <2>1
  <2>3. \A m \in 1..N : <<n, m>> \in at /\ OpAt(plan, <<n, m>>) = ops[m]
    BY <2>1, <2>2 DEF OpAt
  <2>4. ASSUME NEW x \in at, x[1] = n PROVE x = <<n, x[2]>> /\ x[2] \in 1..N
    <3>1. PICK k \in Mine(plan, s, i) : \E m \in DOMAIN plan.lines[k].ops : x = <<k, m>>
      BY <2>1
    <3>2. PICK m \in DOMAIN plan.lines[k].ops : x = <<k, m>>
      BY <3>1
    <3>3. k = n /\ m = x[2]
      BY <3>2, <2>4
    <3> QED
      BY <3>2, <3>3, <2>2
  <2> QED
    BY <2>1, <2>2, <2>3, <2>4
<1> HIDE DEF at
<1>2. PICK r : /\ r[0] = t /\ Operated(t, i, ops, index) = r[N]
               /\ \A m \in 1..N : r[m] = Stepped(r[m - 1], i, ops[m], index)
               /\ \A m \in 0..N : Made(t, ops, r[m])
  <2>1. ops \in Seq(Operation)
    BY <1>1
  <2> HIDE DEF ops
  <2> QED
    BY ONLY <2>1, t \in Task, FieldHides(t), i \in Ids, OperatedRuns
<1>3. \A m \in 0..N : r[m] \in Task
  BY <1>2 DEF Made
<1> HIDE DEF ops, N
<1> DEFINE S == {m \in 0..N : Partly(was, r[m], plan, at) /\ Followed(r[m], plan, Q(m))}
<1>4. 0 \in S
  <2>1. {x \in at : x[1] = n /\ x[2] <= 0} = {}
    BY <1>1
  <2>2. Q(0) = P
    BY <2>1
  <2>3. Partly(was, r[0], plan, at) /\ Followed(r[0], plan, P)
    BY <1>2 DEF at
  <2>4. 0 \in 0..N
    BY <1>1
  <2> HIDE DEF Q
  <2>5. Partly(was, r[0], plan, at) /\ Followed(r[0], plan, Q(0))
    BY <2>2, <2>3
  <2> QED
    BY ONLY <2>4, <2>5
<1>5. ASSUME NEW m \in 0..(N - 1), m \in S PROVE m + 1 \in S
  <2> DEFINE x == <<n, m + 1>>
  <2>1. m + 1 \in 1..N /\ (m + 1) - 1 = m /\ m \in Nat /\ m \in 0..N /\ m + 1 \in 0..N
    BY <1>1
  <2>2. x \in at /\ OpAt(plan, x) = ops[m + 1] /\ ops[m + 1] \in Operation
    BY <1>1, <2>1
  <2>3. Does(r[m], ops[m + 1], r[m + 1])
    <3>1. r[m + 1] = Stepped(r[m], i, ops[m + 1], index) /\ r[m] \in Task
      BY <1>2, <1>3, <2>1
    <3> QED
      BY <3>1, <2>2, SteppedDoes
  <2>4. Q(m) \in SUBSET at /\ \A y \in Q(m) : Before(y, x)
    <3>1. Q(m) \in SUBSET at
      BY DEF at
    <3>2. ASSUME NEW y \in Q(m) PROVE Before(y, x)
      <4>1. CASE y \in P
        BY <4>1 DEF Before
      <4>2. CASE y \notin P
        <5>1. y \in at /\ y[1] = n /\ y[2] <= m
          BY <4>2
        <5>2. y[2] \in Nat
          BY <5>1, <1>1
        <5> QED
          BY <5>1, <5>2, <2>1 DEF Before
      <4> QED
        BY <4>1, <4>2
    <3> QED
      BY <3>1, <3>2
  <2>5. Q(m + 1) = Q(m) \cup {x}
    <3>1. ASSUME NEW y \in Q(m + 1) PROVE y \in Q(m) \cup {x}
      <4>1. CASE y \notin P
        <5>1. y \in at /\ y[1] = n /\ y[2] <= m + 1
          BY <4>1
        <5>2. y = <<n, y[2]>> /\ y[2] \in 1..N
          BY <5>1, <1>1
        <5>3. y[2] = m + 1 \/ y[2] <= m
          BY <5>1, <5>2, <1>1, <2>1
        <5> QED
          BY <5>1, <5>2, <5>3
      <4> QED
        BY <4>1
    <3>2. x \in Q(m + 1)
      BY <2>1, <2>2
    <3>3. ASSUME NEW y \in Q(m) PROVE y \in Q(m + 1)
      <4>1. CASE y \notin P
        <5>1. y \in at /\ y[1] = n /\ y[2] <= m
          BY <4>1
        <5>2. y[2] \in Nat
          BY <5>1, <1>1
        <5>3. y[2] <= m + 1
          BY <5>1, <5>2, <2>1
        <5> QED
          BY <5>1, <5>3
      <4> QED
        BY <4>1
    <3> QED
      BY <3>1, <3>2, <3>3
  <2> HIDE DEF x, Q
  <2>6. Partly(was, r[m], plan, at) /\ Followed(r[m], plan, Q(m))
    BY <1>5
  <2>7. Partly(was, r[m + 1], plan, at) /\ Followed(r[m + 1], plan, Q(m) \cup {x})
    BY ONLY <1>1, <1>3, <2>1, <2>2, <2>3, <2>4, <2>6, StepFollows, was \in Task
  <2> QED
    BY <2>1, <2>5, <2>7
<1>6. 0..N \subseteq S
  <2> HIDE DEF S
  <2> QED
    BY <1>1, <1>4, <1>5, Upwards
<1>7. Partly(was, r[N], plan, at) /\ Followed(r[N], plan, Q(N))
  <2>1. N \in 0..N
    BY <1>1
  <2>2. N \in S
    BY <2>1, <1>6
  <2> QED
    BY <2>2
<1>8. Q(N) = P \cup {x \in at : x[1] = n}
  BY <1>1
<1> QED
  BY <1>2, <1>7, <1>8 DEF at, ops, N

\* The lines of a plan for a task: what a run of them has made of it, and that all of it is
\* done when none was refused.
LEMMA TaskRunFollows ==
  ASSUME NEW p \in Procs, proc[p].call \in Plans, proc[p].rest \subseteq Valid(proc[p].call),
         proc[p].index \in Filings, tasks \in Filings,
         NEW s \in Slugs, NEW i \in Ids, tasks[s][i].there, FieldHides(tasks[s][i]),
         NEW was \in Task, Partly(was, tasks[s][i], proc[p].call, Places(proc[p].call, s, i))
  PROVE  LET run == TaskRun(p, s, i)
             plan == proc[p].call
         IN  /\ Partly(was, run.task, plan, Places(plan, s, i))
             /\ LinesOf(p, s, i) = Mine(plan, s, i) /\ ~run.failed => IsAsSaid(was, run.task, plan, Places(plan, s, i))
<1> DEFINE plan == proc[p].call
           at == Places(plan, s, i)
           N == Len(plan.lines)
           mine == LinesOf(p, s, i)
           all == mine = Mine(plan, s, i)
           UpTo(n) == {x \in at : x[1] <= n}
<1>1. /\ plan \in Plans /\ N \in Nat /\ AtPlaces(plan, at) /\ mine \subseteq Mine(plan, s, i)
      /\ Mine(plan, s, i) \subseteq 1..N /\ \A x \in at : x[1] \in Mine(plan, s, i)
  <2>1. mine \subseteq Mine(plan, s, i)
    BY DEF LinesOf, Mine, Line
  <2>2. /\ plan.lines \in Seq(PlanLine) /\ AtPlaces(plan, at) /\ Mine(plan, s, i) \subseteq 1..N
        /\ \A x : x \in at <=> \E k \in Mine(plan, s, i) : \E m \in DOMAIN plan.lines[k].ops : x = <<k, m>>
    BY PlacesAre
  <2> QED
    BY <2>1, <2>2
<1>2. PICK r : /\ r[0] = [task |-> tasks[s][i], index |-> proc[p].index, failed |-> FALSE]
               /\ TaskRun(p, s, i) = r[N]
               /\ \A n \in 1..N : r[n] = IF n \in mine THEN Entered(r[n - 1], s, i, Line(p, n)) ELSE r[n - 1]
               /\ \A n \in 0..N :
                    /\ r[n] \in RunType
                    /\ RanTask(r[n], proc[p].index, tasks[s][i], s, i, TagsOf(p, s, i), ~Edgy(proc[p].call))
  <2>1. \E r : /\ r[0] = [task |-> tasks[s][i], index |-> proc[p].index, failed |-> FALSE]
               /\ TaskRun(p, s, i) = r[N]
               /\ \A n \in 1..N : r[n] = IF n \in mine THEN Entered(r[n - 1], s, i, Line(p, n)) ELSE r[n - 1]
               /\ \A n \in 0..N :
                    /\ r[n] \in RunType
                    /\ RanTask(r[n], proc[p].index, tasks[s][i], s, i, TagsOf(p, s, i), ~Edgy(proc[p].call))
                    /\ RanIndex(r[n], proc[p].index, tasks[s][i], s, i, TagsOf(p, s, i))
    BY TaskRunRuns
  <2> QED
    BY <2>1
<1>3. \A n \in 0..N : r[n] \in RunType /\ r[n].task \in Task /\ FieldHides(r[n].task)
  BY <1>2 DEF RunType, RanTask
<1>4. \A n \in 1..N : Line(p, n) = plan.lines[n]
  BY DEF Line
<1>5. r[0].task = tasks[s][i]
  BY <1>2
<1>6. Partly(was, tasks[s][i], plan, at)
  OBVIOUS
<1> HIDE DEF N, at, plan, mine
<1> DEFINE Good(n) == /\ Partly(was, r[n].task, plan, at)
                      /\ all /\ ~r[n].failed => Followed(r[n].task, plan, UpTo(n))
           S == {n \in 0..N : Good(n)}
<1>7. 0 \in S
  <2>1. UpTo(0) = {}
    BY <1>1
  <2>2. Followed(r[0].task, plan, {})
    BY SayingIs DEF Followed
  <2> QED
    BY <2>1, <2>2, <1>1, <1>5, <1>6
<1>8. ASSUME NEW n \in 0..(N - 1), n \in S PROVE n + 1 \in S
  <2>1. n \in Nat /\ n \in 0..N /\ n + 1 \in 1..N /\ n + 1 \in 0..N /\ (n + 1) - 1 = n
    BY <1>1
  <2>2. r[n + 1] = IF n + 1 \in mine THEN Entered(r[n], s, i, plan.lines[n + 1]) ELSE r[n]
    BY <1>2, <1>4, <2>1
  <2>3. UpTo(n + 1) = UpTo(n) \cup {x \in at : x[1] = n + 1}
    <3>1. \A x \in at : x[1] <= n + 1 <=> x[1] <= n \/ x[1] = n + 1
      BY <1>1, <2>1
    <3> QED
      BY <3>1
  <2>4. UpTo(n) \in SUBSET at /\ \A x \in UpTo(n) : x[1] < n + 1
    BY <1>1, <2>1
  <2> HIDE DEF UpTo
  <2>5. Good(n)
    BY <1>8
  <2>6. CASE n + 1 \notin mine
    <3>1. r[n + 1] = r[n]
      BY <2>2, <2>6
    <3>2. all => UpTo(n + 1) = UpTo(n)
      BY <2>3, <2>6, <1>1
    <3>3. Good(n + 1)
      BY <3>1, <3>2, <2>5
    <3> QED
      BY <3>3, <2>1
  <2>7. CASE n + 1 \in mine
    <3> DEFINE t == r[n].task
               u == Operated(t, i, plan.lines[n + 1].ops, r[n].index)
    <3>1. \/ r[n + 1].task = t /\ r[n + 1].failed
          \/ r[n + 1].task = u /\ r[n + 1].failed = r[n].failed
      <4>1. r[n + 1] = Entered(r[n], s, i, plan.lines[n + 1]) /\ r[n] \in RunType
        BY <2>1, <2>2, <2>7, <1>3
      <4> QED
        BY <4>1 DEF Entered, RunType
    <3>2. t \in Task /\ FieldHides(t) /\ n + 1 \in Mine(plan, s, i)
      BY <1>1, <1>3, <2>1, <2>7
    <3>3. Partly(was, u, plan, at)
      <4>1. Followed(t, plan, {})
        BY SayingIs DEF Followed
      <4>2. {} \in SUBSET at /\ \A x \in {} : x[1] < n + 1
        OBVIOUS
      <4> HIDE DEF t
      <4> QED
        BY <4>1, <4>2, <3>2, <2>5, <1>1, OperatedFollows DEF at, t
    <3>4. ASSUME all, ~r[n].failed PROVE Followed(u, plan, UpTo(n + 1))
      <4>1. Followed(t, plan, UpTo(n))
        BY <3>4, <2>5
      <4> HIDE DEF t
      <4>2. Partly(was, t, plan, at)
        BY <2>5 DEF t
      <4>3. Followed(u, plan, UpTo(n) \cup {x \in at : x[1] = n + 1})
        BY <4>1, <4>2, <3>2, <2>4, <1>1, OperatedFollows DEF at
      <4> QED
        BY <4>3, <2>3
    <3> HIDE DEF t, u
    <3>5. Good(n + 1)
      BY <3>1, <3>3, <3>4, <2>5 DEF t
    <3> QED
      BY <3>5, <2>1
  <2> QED
    BY <2>6, <2>7
<1>9. 0..N \subseteq S
  <2> HIDE DEF S
  <2> QED
    BY <1>1, <1>7, <1>8, Upwards
<1>10. Good(N)
  <2>1. N \in 0..N
    BY <1>1
  <2>2. N \in S
    BY <2>1, <1>9
  <2> QED
    BY <2>2
<1>11. UpTo(N) = at
  BY <1>1
<1>12. all /\ ~r[N].failed => IsAsSaid(was, r[N].task, plan, at)
  <2>1. N \in 0..N
    BY <1>1
  <2> QED
    BY <2>1, <1>1, <1>3, <1>10, <1>11, AllFollowed
<1> QED
  BY <1>2, <1>10, <1>12 DEF plan, at, mine

----------------------------------------------------------------------------
(* The inductive invariant of the plan that has the root for itself.        *)

AsSaid(b, ts, s, i) ==
  IF b.tasks[s][i].there THEN IsAsSaid(b.tasks[s][i], ts[s][i], b.plan, Places(b.plan, s, i))
  ELSE ts[s][i] = b.tasks[s][i]

\* The lines of a call that are left for a task.
LeftFor(me, s, i) == {n \in me.rest : me.call.lines[n].slug = s /\ me.call.lines[n].id = i}

\* A run of the plan: it does all its lines for a task, or none yet, and if nothing has
\* failed the tasks that it is through with are as the plan says.
GoesOn(me, b, ts) ==
  /\ me.at # "idle" /\ me.call = b.plan
  /\ me.at = "report" => me.rest = {}
  /\ \A s \in Slugs, i \in Ids :
       /\ LeftFor(me, s, i) \in {{}, Mine(b.plan, s, i)}
       /\ LeftFor(me, s, i) = {} /\ ~me.failed /\ ~b.plan.dry => AsSaid(b, ts, s, i)

BaseOK(b, ts, procs) ==
  /\ b \in [plan : Plans \cup {NoValue}, tasks : Filings, runs : SUBSET Procs, ended : BOOLEAN]
  /\ b.plan = NoValue => b.runs = {} /\ ~b.ended
  /\ b.plan # NoValue => \A s \in Slugs, i \in Ids :
                           /\ Partly(b.tasks[s][i], ts[s][i], b.plan, Places(b.plan, s, i))
                           /\ ~b.tasks[s][i].there => ts[s][i] = b.tasks[s][i]
  /\ b.ended => \A s \in Slugs, i \in Ids : AsSaid(b, ts, s, i)
  /\ \A q \in b.runs : GoesOn(procs[q], b, ts)

LandsInv == PlansInv /\ BaseOK(base, tasks, proc)

LEMMA PartlyUntouched == ASSUME NEW t, NEW plan, NEW at PROVE Partly(t, t, plan, at)
  BY DEF Partly

LEMMA NoBaseOK == ASSUME NEW ts, NEW procs PROVE BaseOK(NoBase, ts, procs)
  BY NoTaskType DEF NoBase, BaseOK

LEMMA InitLands == PlansInit => LandsInv
  BY InitPlans, NoBaseOK DEF PlansInit, LandsInv

\* Whoever runs the plan of the base has that plan for its call.
LEMMA RunsPlan ==
  ASSUME LandsInv, NEW p \in base.runs
  PROVE  /\ p \in Procs /\ base.plan \in Plans /\ base.plan # NoValue /\ proc[p].call = base.plan /\ proc[p].at # "idle"
         /\ proc[p].call \notin Edits
<1>1. BaseOK(base, tasks, proc)
  BY DEF LandsInv
<1>2. base.plan # NoValue /\ base.plan \in Plans \cup {NoValue} /\ base.runs \in SUBSET Procs
  BY <1>1 DEF BaseOK
<1>3. GoesOn(proc[p], base, tasks)
  BY <1>1 DEF BaseOK
<1> QED
  BY <1>2, <1>3, KindsApart DEF GoesOn

\* A step of one call that writes nothing.
LEMMA QuietLands ==
  ASSUME LandsInv, PlansInv', NEW p \in Procs, NEW me, proc' = [proc EXCEPT ![p] = me], tasks' = tasks, base' = base,
         p \in base.runs => GoesOn(me, base, tasks)
  PROVE  LandsInv'
<1>1. BaseOK(base, tasks, proc) /\ proc \in [Procs -> CallType]
  BY DEF LandsInv, PlansInv, PlansTypeOK
<1>2. \A q \in Procs : proc'[q] = IF q = p THEN me ELSE proc[q]
  BY <1>1
<1>3. \A q \in base.runs : q \in Procs
  BY <1>1 DEF BaseOK
<1>4. \A q \in base.runs : GoesOn(proc'[q], base, tasks)
  BY <1>1, <1>2, <1>3 DEF BaseOK
<1>5. BaseOK(base, tasks, proc')
  BY <1>1, <1>4 DEF BaseOK
<1> QED
  BY <1>5 DEF LandsInv

\* It goes on with the lines it has.
LEMMA StillGoes ==
  ASSUME NEW me, NEW b, NEW ts, GoesOn(me, b, ts), NEW you, you.call = me.call, you.rest = me.rest,
         you.failed = me.failed, you.at # "idle", you.at = "report" => you.rest = {}
  PROVE  GoesOn(you, b, ts)
  BY DEF GoesOn, LeftFor

LEMMA EditStartLands ==
  ASSUME LandsInv, PlansInv', NEW p \in Procs, NEW e \in Edits, StartEdit(p, e)
  PROVE  LandsInv'
<1>1. proc[p].at = "idle" /\ tasks' = tasks /\ base' = base
  BY DEF StartEdit, NothingWritten
<1>2. p \notin base.runs
  BY <1>1, RunsPlan
<1>3. \E me : proc' = [proc EXCEPT ![p] = me]
  BY DEF StartEdit, Set
<1> QED
  BY <1>1, <1>2, <1>3, QuietLands

LEMMA PlanStartLands ==
  ASSUME LandsInv, PlansInv', NEW p \in Procs, NEW call \in Plans, StartPlan(p, call)
  PROVE  LandsInv'
<1> DEFINE reads == IF \E n \in DOMAIN call.lines : EdgeOps(call.lines[n]) THEN Everyone(tasks) ELSE {}
           me == [Idle EXCEPT !.call = call, !.rest = Valid(call), !.failed = Valid(call) # DOMAIN call.lines,
                    !.at = IF reads = {} THEN "group" ELSE "load", !.todo = reads]
           was == base
           now == IF call = base.plan THEN [base EXCEPT !.runs = @ \cup {p}]
                  ELSE [plan |-> call, tasks |-> tasks, runs |-> {p}, ended |-> FALSE]
<1>1. proc[p].at = "idle" /\ tasks' = tasks /\ base' = now /\ proc' = [proc EXCEPT ![p] = me]
  BY DEF StartPlan, Set, NothingWritten
<1>2. BaseOK(base, tasks, proc) /\ proc \in [Procs -> CallType] /\ tasks \in Filings
  BY DEF LandsInv, PlansInv, PlansTypeOK
<1>3. me.call = call /\ me.rest = Valid(call) /\ me.at \in {"load", "group"}
  BY DEF Idle
<1> HIDE DEF me
<1>4. p \notin base.runs /\ call # NoValue
  BY <1>1, RunsPlan, PlansAssumption
<1>5. \A q \in Procs : proc'[q] = IF q = p THEN me ELSE proc[q]
  BY <1>1, <1>2
<1>6. now.plan = call /\ p \in now.runs
  BY <1>2 DEF BaseOK
<1>7. /\ now \in [plan : Plans \cup {NoValue}, tasks : Filings, runs : SUBSET Procs, ended : BOOLEAN]
      /\ \A s \in Slugs, i \in Ids : /\ Partly(now.tasks[s][i], tasks[s][i], call, Places(call, s, i))
                                     /\ ~now.tasks[s][i].there => tasks[s][i] = now.tasks[s][i]
      /\ now.ended => \A s \in Slugs, i \in Ids : AsSaid(now, tasks, s, i)
      /\ \A q \in now.runs : q # p => q \in base.runs /\ now.tasks = base.tasks /\ call = base.plan
  <2>1. CASE call = base.plan
    <3>1. now.plan = base.plan /\ now.tasks = base.tasks /\ now.runs = base.runs \cup {p} /\ now.ended = base.ended
          /\ now \in [plan : Plans \cup {NoValue}, tasks : Filings, runs : SUBSET Procs, ended : BOOLEAN]
      BY <2>1, <1>2 DEF BaseOK
    <3> HIDE DEF now
    <3>2. /\ \A s \in Slugs, i \in Ids : /\ Partly(base.tasks[s][i], tasks[s][i], call, Places(call, s, i))
                                         /\ ~base.tasks[s][i].there => tasks[s][i] = base.tasks[s][i]
          /\ base.ended => \A s \in Slugs, i \in Ids : AsSaid(base, tasks, s, i)
      BY <2>1, <1>2, <1>4 DEF BaseOK
    <3> QED
      BY <2>1, <3>1, <3>2 DEF AsSaid
  <2>2. CASE call # base.plan
    <3>1. now = [plan |-> call, tasks |-> tasks, runs |-> {p}, ended |-> FALSE]
      BY <2>2
    <3> HIDE DEF now
    <3>2. now \in [plan : Plans \cup {NoValue}, tasks : Filings, runs : SUBSET Procs, ended : BOOLEAN]
      BY ONLY <3>1, <1>2, call \in Plans, p \in Procs
    <3>3. now.tasks = tasks /\ ~now.ended /\ now.runs = {p}
      BY ONLY <3>1
    <3>4. \A s \in Slugs, i \in Ids : Partly(now.tasks[s][i], tasks[s][i], call, Places(call, s, i))
      BY <3>3, PartlyUntouched
    <3> QED
      BY <3>2, <3>3, <3>4
  <2> QED
    BY <2>1, <2>2
<1> HIDE DEF now
<1>8. GoesOn(me, now, tasks)
  <2>1. \A s \in Slugs, i \in Ids : LeftFor(me, s, i) = Mine(call, s, i)
    BY <1>3 DEF LeftFor, Mine
  <2>2. ASSUME NEW s \in Slugs, NEW i \in Ids, Mine(call, s, i) = {} PROVE AsSaid(now, tasks, s, i)
    <3>1. Places(call, s, i) = {} /\ AtPlaces(call, Places(call, s, i))
      BY <2>2, PlacesAre
    <3>2. Partly(now.tasks[s][i], tasks[s][i], call, {}) /\ Followed(tasks[s][i], call, {})
      <4>1. Partly(now.tasks[s][i], tasks[s][i], call, Places(call, s, i))
        BY <1>7
      <4>2. Followed(tasks[s][i], call, {})
        BY SayingIs DEF Followed
      <4> QED
        BY <3>1, <4>1, <4>2
    <3>3. now.tasks[s][i] \in Task /\ tasks[s][i] \in Task
      BY <1>2, <1>7 DEF Filings
    <3>4. IsAsSaid(now.tasks[s][i], tasks[s][i], call, {})
      BY <3>1, <3>2, <3>3, AllFollowed
    <3> QED
      BY <3>1, <3>4, <1>6, <1>7 DEF AsSaid
  <2> QED
    BY <2>1, <2>2, <1>3, <1>6 DEF GoesOn
<1>9. ASSUME NEW q \in now.runs PROVE GoesOn(proc'[q], now, tasks)
  <2>1. CASE q = p
    BY <2>1, <1>5, <1>8
  <2>2. CASE q # p
    <3>1. q \in base.runs /\ now.tasks = base.tasks /\ now.plan = base.plan /\ q \in Procs
      BY <2>2, <1>6, <1>7, <1>2 DEF BaseOK
    <3>2. GoesOn(proc[q], base, tasks)
      BY <3>1, <1>2 DEF BaseOK
    <3>3. GoesOn(proc[q], now, tasks)
      BY <3>1, <3>2 DEF GoesOn, AsSaid
    <3> QED
      BY <3>1, <3>3, <2>2, <1>5
  <2> QED
    BY <2>1, <2>2
<1>10. BaseOK(now, tasks, proc')
  BY <1>4, <1>6, <1>7, <1>9 DEF BaseOK
<1> QED
  BY <1>1, <1>10 DEF LandsInv

\* Steps of a call between its writes.
LEMMA BetweenLands ==
  ASSUME LandsInv, PlansInv', NEW p \in Procs,
         (\E s \in Slugs, i \in Ids : LoadTask(p, s, i)) \/ NextSlug(p) \/ Enter(p) \/ ReadTask(p) \/ LeaveSlug(p)
  PROVE  LandsInv'
<1>1. BaseOK(base, tasks, proc) /\ proc[p] \in CallType /\ Placed(proc[p], p, lock, tasks)
  BY DEF LandsInv, PlansInv, PlansTypeOK
<1>2. tasks' = tasks /\ base' = base
  BY DEF LoadTask, NextSlug, Enter, ReadTask, LeaveSlug, NothingWritten
<1>3. CASE ReadTask(p)
  <2>1. p \notin base.runs
    BY <1>1, <1>3, RunsPlan DEF ReadTask, Placed
  <2>2. \E me : proc' = [proc EXCEPT ![p] = me]
    BY <1>3 DEF ReadTask, Set
  <2> QED
    BY <2>1, <2>2, <1>2, QuietLands
<1>4. CASE ~ReadTask(p)
  <2>1. PICK me : /\ proc' = [proc EXCEPT ![p] = me]
                  /\ me.call = proc[p].call /\ me.rest = proc[p].rest /\ me.failed = proc[p].failed
                  /\ me.at # "idle" /\ (me.at = "report" => me.rest = {})
    <3>1. CASE \E s \in Slugs, i \in Ids : LoadTask(p, s, i)
      <4>1. PICK s \in Slugs, i \in Ids : LoadTask(p, s, i)
        BY <3>1
      <4> DEFINE me == [proc[p] EXCEPT !.index[s][i] = tasks[s][i], !.todo = @ \ {<<s, i>>},
                          !.at = IF proc[p].todo # {<<s, i>>} THEN @
                                 ELSE IF proc[p].call.kind = "edit" THEN "write" ELSE "group"]
      <4>2. proc' = [proc EXCEPT ![p] = me] /\ proc[p].at = "load"
        BY <4>1 DEF LoadTask, Set
      <4>3. /\ me.call = proc[p].call /\ me.rest = proc[p].rest /\ me.failed = proc[p].failed
            /\ me.at \in {"load", "write", "group"}
        BY <4>2, <1>1 DEF CallType
      <4> HIDE DEF me
      <4> QED
        BY <4>2, <4>3
    <3>2. CASE NextSlug(p)
      <4>1. PICK me : /\ proc' = [proc EXCEPT ![p] = me]
                      /\ IF proc[p].rest = {} THEN me = [proc[p] EXCEPT !.at = "report"]
                         ELSE me = [proc[p] EXCEPT !.at = "enter", !.slug = Line(p, First(proc[p].rest)).slug]
        BY <3>2 DEF NextSlug, Set
      <4>2. me.call = proc[p].call /\ me.rest = proc[p].rest /\ me.failed = proc[p].failed
            /\ IF proc[p].rest = {} THEN me.at = "report" ELSE me.at = "enter"
        <5>1. CASE proc[p].rest = {}
          <6>1. me = [proc[p] EXCEPT !.at = "report"]
            BY <4>1, <5>1
          <6> QED
            BY <6>1, <5>1, <1>1 DEF CallType
        <5>2. CASE proc[p].rest # {}
          <6> DEFINE slug == Line(p, First(proc[p].rest)).slug
          <6>1. me = [proc[p] EXCEPT !.at = "enter", !.slug = slug]
            BY <4>1, <5>2
          <6> HIDE DEF slug
          <6> QED
            BY <6>1, <5>2, <1>1 DEF CallType
        <5> QED
          BY <5>1, <5>2
      <4> QED
        BY <4>1, <4>2
    <3>3. CASE Enter(p)
      <4> DEFINE me == [proc[p] EXCEPT !.at = IF proc[p].call.kind = "edit" THEN "read" ELSE "apply"]
      <4>1. proc' = [proc EXCEPT ![p] = me]
        BY <3>3 DEF Enter, Set
      <4>2. /\ me.call = proc[p].call /\ me.rest = proc[p].rest /\ me.failed = proc[p].failed
            /\ me.at \in {"read", "apply"}
        BY <1>1 DEF CallType
      <4> HIDE DEF me
      <4> QED
        BY <4>1, <4>2
    <3>4. CASE LeaveSlug(p)
      <4> DEFINE me == [proc[p] EXCEPT !.at = "group", !.slug = NoValue]
      <4>1. proc' = [proc EXCEPT ![p] = me]
        BY <3>4 DEF LeaveSlug, Set
      <4>2. me.call = proc[p].call /\ me.rest = proc[p].rest /\ me.failed = proc[p].failed /\ me.at = "group"
        BY <1>1 DEF CallType
      <4> HIDE DEF me
      <4> QED
        BY <4>1, <4>2
    <3> QED
      BY <3>1, <3>2, <3>3, <3>4, <1>4
  <2>2. p \in base.runs => GoesOn(me, base, tasks)
    BY <2>1, <1>1, StillGoes DEF BaseOK
  <2> QED
    BY <2>1, <2>2, <1>2, QuietLands
<1> QED
  BY <1>3, <1>4

LEMMA EditLands ==
  ASSUME LandsInv, PlansInv', NEW p \in Procs, WriteTask(p)
  PROVE  LandsInv'
<1>1. p \notin base.runs
  <2>1. proc[p].call \in Edits
    BY DEF WriteTask, LandsInv, PlansInv, Placed
  <2> QED
    BY <2>1, RunsPlan
<1>2. CASE base' = NoBase
  BY <1>2, NoBaseOK DEF LandsInv
<1>3. CASE base' # NoBase
  <2>1. base' = base /\ tasks' = tasks /\ proc' = [proc EXCEPT ![p] = Idle]
    BY <1>3 DEF WriteTask, NothingWritten, Set
  <2> QED
    BY <2>1, <1>1, QuietLands
<1> QED
  BY <1>2, <1>3

\* A run that reports, or is killed, runs no longer; if it reports and nothing has failed, every
\* task is as the plan says.
LEMMA EndLands ==
  ASSUME LandsInv, PlansInv', NEW p \in Procs, Report(p) \/ KillCall(p)
  PROVE  LandsInv'
<1> DEFINE ends == p \in base.runs /\ proc[p].at = "report" /\ ~proc[p].failed /\ ~proc[p].call.dry
<1>1. BaseOK(base, tasks, proc) /\ proc \in [Procs -> CallType]
  BY DEF LandsInv, PlansInv, PlansTypeOK
<1>2. /\ tasks' = tasks /\ proc' = [proc EXCEPT ![p] = Idle]
      /\ \/ base' = [base EXCEPT !.runs = @ \ {p}]
         \/ base' = [base EXCEPT !.runs = @ \ {p}, !.ended = @ \/ ends] /\ ends
  <2>1. CASE KillCall(p)
    BY <2>1 DEF KillCall, NothingWritten, Set
  <2>2. CASE Report(p)
    <3>1. base' = [base EXCEPT !.runs = @ \ {p}, !.ended = @ \/ ends]
      BY <2>2 DEF Report
    <3>2. tasks' = tasks /\ proc' = [proc EXCEPT ![p] = Idle]
      BY <2>2 DEF Report, NothingWritten, Set
    <3>3. CASE ~ends
      <4> HIDE DEF ends
      <4>1. base.ended \in BOOLEAN
        BY <1>1 DEF BaseOK
      <4>2. (base.ended \/ ends) = base.ended
        BY <4>1, <3>3
      <4> QED
        BY <1>1, <3>1, <3>2, <4>2 DEF BaseOK
    <3>4. CASE ends
      BY <3>1, <3>2, <3>4
    <3> QED
      BY <3>3, <3>4
  <2> QED
    BY <2>1, <2>2
<1>3. ends => \A s \in Slugs, i \in Ids : AsSaid(base, tasks, s, i)
  <2> SUFFICES ASSUME ends PROVE \A s \in Slugs, i \in Ids : AsSaid(base, tasks, s, i)
    OBVIOUS
  <2>1. GoesOn(proc[p], base, tasks)
    BY <1>1 DEF BaseOK
  <2>2. proc[p].rest = {} /\ ~proc[p].failed /\ ~base.plan.dry
    BY <2>1 DEF GoesOn
  <2>3. \A s \in Slugs, i \in Ids : LeftFor(proc[p], s, i) = {}
    BY <2>2 DEF LeftFor
  <2> QED
    BY <2>1, <2>2, <2>3 DEF GoesOn
<1>4. base'.plan = base.plan /\ base'.tasks = base.tasks /\ base'.runs = base.runs \ {p}
      /\ (base'.ended => base.ended \/ ends)
      /\ base' \in [plan : Plans \cup {NoValue}, tasks : Filings, runs : SUBSET Procs, ended : BOOLEAN]
  <2>1. base \in [plan : Plans \cup {NoValue}, tasks : Filings, runs : SUBSET Procs, ended : BOOLEAN]
    BY <1>1 DEF BaseOK
  <2> HIDE DEF ends
  <2>2. CASE base' = [base EXCEPT !.runs = @ \ {p}]
    BY <2>1, <2>2
  <2>3. CASE base' = [base EXCEPT !.runs = @ \ {p}, !.ended = @ \/ ends] /\ ends
    <3>1. base' = [base EXCEPT !.runs = base.runs \ {p}, !.ended = TRUE]
      BY <2>1, <2>3
    <3> QED
      BY <2>1, <2>3, <3>1
  <2> QED
    BY <2>2, <2>3, <1>2
<1> HIDE DEF ends
<1>5. \A q \in base'.runs : q # p /\ q \in base.runs /\ proc'[q] = proc[q]
  BY <1>1, <1>2, <1>4 DEF BaseOK
<1>6. \A s \in Slugs, i \in Ids : AsSaid(base', tasks, s, i) <=> AsSaid(base, tasks, s, i)
  BY <1>4 DEF AsSaid
<1>7. \A q \in base'.runs : GoesOn(proc'[q], base', tasks)
  <2> SUFFICES ASSUME NEW q \in base'.runs PROVE GoesOn(proc[q], base', tasks)
    BY <1>5
  <2>1. GoesOn(proc[q], base, tasks)
    BY <1>1, <1>5 DEF BaseOK
  <2> QED
    BY <2>1, <1>4, <1>6 DEF GoesOn
<1>8. ends => base.plan # NoValue
  BY RunsPlan DEF ends
<1>9. BaseOK(base', tasks, proc')
  BY <1>1, <1>3, <1>4, <1>6, <1>7, <1>8 DEF BaseOK
<1> QED
  BY <1>2, <1>9 DEF LandsInv

\* The lines for a task of a plan are done together.
LEMMA ApplyLands ==
  ASSUME LandsInv, PlansInv', NEW p \in Procs, NEW writes \in BOOLEAN, ApplyTask(p, writes)
  PROVE  LandsInv'
<1> DEFINE was == proc[p]
           plan == proc[p].call
           s == proc[p].slug
           here == {n \in proc[p].rest : Line(p, n).slug = s}
           i == Line(p, First(here)).id
           task == tasks[s][i]
           run == TaskRun(p, s, i)
           dirty == tasks[s][i].there /\ run.task # tasks[s][i] /\ ~proc[p].call.dry
           rest == proc[p].rest \ LinesOf(p, s, i)
           failed == proc[p].failed \/ (tasks[s][i].there /\ run.failed) \/ ~writes
           left == IF ~tasks[s][i].there THEN proc[p].index
                   ELSE IF writes THEN run.index
                   ELSE RolledBack(run.index, s, i, run.task, tasks[s][i])
           then == [proc[p] EXCEPT !.rest = rest, !.failed = failed, !.index = left]
<1>1. /\ was \in CallType /\ Placed(was, p, lock, tasks) /\ tasks \in Filings /\ proc \in [Procs -> CallType]
      /\ \A t \in Slugs, j \in Ids : FieldHides(tasks[t][j])
      /\ BaseOK(base, tasks, proc)
  BY DEF LandsInv, PlansInv, PlansTypeOK, NoCircles
<1>2. /\ was.at = "apply" /\ here # {}
      /\ IF dirty /\ writes
         THEN /\ Write(p, s, i, run.task, proc[p].index # NoIndex, then)
              /\ base' = IF p \notin base.runs THEN NoBase
                         ELSE IF run.failed THEN [base EXCEPT !.runs = {p}, !.ended = FALSE] ELSE base
         ELSE NothingWritten /\ proc' = [proc EXCEPT ![p] = then] /\ base' = base
  BY DEF ApplyTask, Set
<1>3. plan \in Plans /\ was.rest \subseteq Valid(plan) /\ s \in Slugs
  BY <1>1, <1>2 DEF Placed
<1>4. i \in Ids /\ First(here) \in LinesOf(p, s, i)
  <2>1. here \in SUBSET Valid(plan)
    BY <1>3
  <2>2. First(here) \in here /\ plan.lines[First(here)] \in PlanLine
    <3> HIDE DEF here
    <3> QED
      BY <2>1, <1>2, <1>3, FirstLine
  <2>3. First(here) \in LinesOf(p, s, i)
    BY <2>2 DEF LinesOf
  <2> HIDE DEF here
  <2> QED
    BY <2>2, <2>3 DEF PlanLine, Line
<1> HIDE DEF here, i
<1>5. task \in Task /\ FieldHides(task) /\ was.index \in Filings
  BY <1>1, <1>3, <1>4 DEF Filings, CallType
<1>6. /\ then.call = plan /\ then.at = "apply" /\ then.rest = rest /\ then.failed = failed
  <2> HIDE DEF rest, failed, left
  <2> QED
    BY <1>1, <1>2 DEF CallType
<1>7. task.there => run.task \in Task
  <2>1. task.there => run \in RunType
    BY <1>1, <1>3, <1>4, <1>5, TaskRunRan
  <2> QED
    BY <2>1 DEF RunType
<1>8. CASE p \notin base.runs
  <2>1. CASE dirty /\ writes
    BY <2>1, <1>2, <1>8, NoBaseOK DEF LandsInv
  <2>2. CASE ~(dirty /\ writes)
    <3>1. tasks' = tasks /\ base' = base /\ proc' = [proc EXCEPT ![p] = then]
      BY <2>2, <1>2 DEF NothingWritten
    <3> HIDE DEF then
    <3> QED
      BY <3>1, <1>8, QuietLands
  <2> QED
    BY <2>1, <2>2
<1>9. CASE p \in base.runs
  <2>1. plan = base.plan /\ GoesOn(was, base, tasks) /\ base.plan # NoValue
    BY <1>1, <1>9, RunsPlan DEF BaseOK
  <2>2. LinesOf(p, s, i) = LeftFor(was, s, i) /\ LeftFor(was, s, i) = Mine(plan, s, i)
    <3>1. LinesOf(p, s, i) = LeftFor(was, s, i)
      BY DEF LinesOf, LeftFor, Line
    <3>2. LeftFor(was, s, i) \in {{}, Mine(plan, s, i)}
      BY <2>1, <1>3, <1>4 DEF GoesOn
    <3> QED
      BY <3>1, <3>2, <1>4
  <2>3. ASSUME NEW t \in Slugs, NEW j \in Ids
        PROVE  LeftFor(then, t, j) = IF t = s /\ j = i THEN {} ELSE LeftFor(was, t, j)
    <3>1. LeftFor(then, t, j) = LeftFor(was, t, j) \ LeftFor(was, s, i)
      BY <2>2, <1>6 DEF LeftFor
    <3> QED
      BY <3>1 DEF LeftFor
  <2>4. /\ Partly(base.tasks[s][i], task, plan, Places(plan, s, i)) /\ base.tasks \in Filings /\ base.tasks[s][i] \in Task
        /\ ~base.tasks[s][i].there => task = base.tasks[s][i]
    BY <1>1, <1>3, <1>4, <2>1 DEF BaseOK, Filings
  <2>5. task.there =>
          /\ Partly(base.tasks[s][i], run.task, plan, Places(plan, s, i))
          /\ ~run.failed => IsAsSaid(base.tasks[s][i], run.task, plan, Places(plan, s, i))
    BY <1>1, <1>3, <1>4, <1>5, <2>2, <2>4, TaskRunFollows
  <2> HIDE DEF run, then
  <2>6. CASE ~(dirty /\ writes)
    <3>1. tasks' = tasks /\ base' = base /\ proc' = [proc EXCEPT ![p] = then]
      BY <2>6, <1>2 DEF NothingWritten
    <3>2. ~failed /\ ~plan.dry => AsSaid(base, tasks, s, i)
      <4> SUFFICES ASSUME ~failed, ~plan.dry PROVE AsSaid(base, tasks, s, i)
        OBVIOUS
      <4>1. base.tasks[s][i].there = task.there
        BY <2>4 DEF Partly
      <4>2. task.there => run.task = task /\ ~run.failed
        BY <2>6
      <4> QED
        BY <4>1, <4>2, <2>1, <2>4, <2>5 DEF AsSaid
    <3>3. failed \/ ~was.failed
      OBVIOUS
    <3>4. GoesOn(then, base, tasks)
      <4>1. ASSUME NEW t \in Slugs, NEW j \in Ids
            PROVE  /\ LeftFor(then, t, j) \in {{}, Mine(base.plan, t, j)}
                   /\ LeftFor(then, t, j) = {} /\ ~then.failed /\ ~base.plan.dry => AsSaid(base, tasks, t, j)
        <5>1. CASE t = s /\ j = i
          BY <5>1, <2>1, <2>3, <3>2, <1>6
        <5>2. CASE ~(t = s /\ j = i)
          BY <5>2, <2>1, <2>3, <3>3, <1>6 DEF GoesOn
        <5> QED
          BY <5>1, <5>2
      <4> QED
        BY <4>1, <2>1, <1>6 DEF GoesOn
    <3> QED
      BY <3>1, <3>4, QuietLands
  <2>7. CASE dirty /\ writes
    <3>1. /\ tasks' = [tasks EXCEPT ![s][i] = run.task]
          /\ base' = IF run.failed THEN [base EXCEPT !.runs = {p}, !.ended = FALSE] ELSE base
          /\ proc'[p] = then
          /\ \A q \in Procs : q # p =>
               \/ proc'[q] = proc[q]
               \/ proc'[q] = [proc[q] EXCEPT !.missed = @ \cup {s}]
      BY <2>7, <1>2, <1>9 DEF Write
    <3>2. /\ tasks' \in Filings /\ tasks'[s][i] = run.task
          /\ \A t \in Slugs, j \in Ids : tasks'[t][j] = tasks[t][j] \/ (t = s /\ j = i)
      <4>1. tasks \in Filings /\ s \in Slugs /\ i \in Ids /\ run.task \in Task
        BY <2>7, <1>1, <1>3, <1>4, <1>7
      <4> HIDE DEF s
      <4> DEFINE new == [tasks EXCEPT ![s][i] = run.task]
      <4>2. /\ new \in Filings /\ new[s][i] = run.task
            /\ \A t \in Slugs, j \in Ids : new[t][j] = tasks[t][j] \/ (t = s /\ j = i)
        BY ONLY <4>1, FilingWritten
      <4>3. tasks' = new
        BY <3>1
      <4> HIDE DEF new
      <4> QED
        BY <4>2, <4>3
    <3>3. \A q \in Procs : q # p =>
            /\ proc'[q].call = proc[q].call /\ proc'[q].rest = proc[q].rest /\ proc'[q].failed = proc[q].failed
            /\ proc'[q].at = proc[q].at
      <4> SUFFICES ASSUME NEW q \in Procs, q # p
                   PROVE  /\ proc'[q].call = proc[q].call /\ proc'[q].rest = proc[q].rest
                          /\ proc'[q].failed = proc[q].failed /\ proc'[q].at = proc[q].at
        OBVIOUS
      <4>1. proc[q] \in CallType
        BY <1>1
      <4>2. proc'[q] = proc[q] \/ proc'[q] = [proc[q] EXCEPT !.missed = @ \cup {s}]
        BY <3>1
      <4> QED
        BY <4>1, <4>2 DEF CallType
    <3>4. \A t \in Slugs, j \in Ids : /\ Partly(base.tasks[t][j], tasks'[t][j], plan, Places(plan, t, j))
                                      /\ ~base.tasks[t][j].there => tasks'[t][j] = base.tasks[t][j]
      <4>1. \A t \in Slugs, j \in Ids : /\ Partly(base.tasks[t][j], tasks[t][j], plan, Places(plan, t, j))
                                        /\ ~base.tasks[t][j].there => tasks[t][j] = base.tasks[t][j]
        BY <1>1, <2>1 DEF BaseOK
      <4>2. base.tasks[s][i].there
        BY <2>4, <2>7 DEF Partly
      <4> QED
        BY <4>1, <4>2, <3>2, <2>5, <2>7
    <3>5. \A t \in Slugs, j \in Ids : AsSaid(base, tasks, t, j) /\ ~(t = s /\ j = i) => AsSaid(base, tasks', t, j)
      BY <3>2 DEF AsSaid
    <3>6. CASE ~run.failed
      <4>1. base' = base
        BY <3>1, <3>6
      <4>2. AsSaid(base, tasks', s, i)
        <5>1. base.tasks[s][i].there
          BY <2>4, <2>7 DEF Partly
        <5> QED
          BY <5>1, <3>2, <3>6, <2>1, <2>5, <2>7 DEF AsSaid
      <4>3. \A t \in Slugs, j \in Ids : AsSaid(base, tasks, t, j) => AsSaid(base, tasks', t, j)
        BY <3>5, <4>2
      <4>4. ASSUME NEW q \in base.runs PROVE GoesOn(proc'[q], base, tasks')
        <5>1. q \in Procs /\ GoesOn(proc[q], base, tasks)
          BY <1>1 DEF BaseOK
        <5>2. CASE q # p
          <6>1. \A t \in Slugs, j \in Ids : LeftFor(proc'[q], t, j) = LeftFor(proc[q], t, j)
            BY <3>3, <5>1, <5>2 DEF LeftFor
          <6> QED
            BY <6>1, <5>1, <5>2, <3>3, <4>3 DEF GoesOn
        <5>3. CASE q = p
          <6>1. failed \/ ~was.failed
            OBVIOUS
          <6>2. ASSUME NEW t \in Slugs, NEW j \in Ids
                PROVE  /\ LeftFor(then, t, j) \in {{}, Mine(base.plan, t, j)}
                       /\ LeftFor(then, t, j) = {} /\ ~then.failed /\ ~base.plan.dry => AsSaid(base, tasks', t, j)
            <7>1. CASE t = s /\ j = i
              BY <7>1, <2>1, <2>3, <4>2
            <7>2. CASE ~(t = s /\ j = i)
              BY <7>2, <2>1, <2>3, <4>3, <6>1, <1>6 DEF GoesOn
            <7> QED
              BY <7>1, <7>2
          <6> QED
            BY <6>2, <5>3, <3>1, <2>1, <1>6 DEF GoesOn
        <5> QED
          BY <5>2, <5>3
      <4>5. BaseOK(base, tasks', proc')
        BY <1>1, <2>1, <3>4, <4>3, <4>4 DEF BaseOK
      <4> QED
        BY <4>1, <4>5 DEF LandsInv
    <3>7. CASE run.failed
      <4> DEFINE now == [base EXCEPT !.runs = {p}, !.ended = FALSE]
      <4>1. base' = now
        BY <3>1, <3>7
      <4>2. /\ now.plan = base.plan /\ now.tasks = base.tasks /\ now.runs = {p} /\ now.ended = FALSE
            /\ now \in [plan : Plans \cup {NoValue}, tasks : Filings, runs : SUBSET Procs, ended : BOOLEAN]
        BY <1>1 DEF BaseOK
      <4> HIDE DEF now
      <4>3. GoesOn(then, now, tasks')
        <5>1. ASSUME NEW t \in Slugs, NEW j \in Ids PROVE LeftFor(then, t, j) \in {{}, Mine(now.plan, t, j)}
          <6>1. LeftFor(was, t, j) \in {{}, Mine(base.plan, t, j)}
            BY <2>1 DEF GoesOn
          <6> QED
            BY <6>1, <2>3, <4>2
        <5>2. then.failed
          BY <2>7, <3>7, <1>6
        <5> QED
          BY <5>1, <5>2, <4>2, <2>1, <1>6 DEF GoesOn
      <4>4. BaseOK(now, tasks', proc')
        BY <2>1, <3>1, <3>4, <4>2, <4>3 DEF BaseOK
      <4> QED
        BY <4>1, <4>4 DEF LandsInv
    <3> QED
      BY <3>6, <3>7
  <2> QED
    BY <2>6, <2>7
<1> QED
  BY <1>8, <1>9

LEMMA LandsStep == LandsInv /\ [PlansNext]_plansVars => LandsInv'
<1> SUFFICES ASSUME LandsInv, [PlansNext]_plansVars PROVE LandsInv'
  OBVIOUS
<1>1. PlansInv'
  BY PlansStep DEF LandsInv
<1>2. ASSUME NEW p \in Procs,
             \/ \E e \in Edits : StartEdit(p, e)
             \/ \E call \in Plans : StartPlan(p, call)
             \/ \E s \in Slugs, i \in Ids : LoadTask(p, s, i)
             \/ NextSlug(p) \/ Enter(p) \/ ReadTask(p) \/ WriteTask(p)
             \/ \E writes \in BOOLEAN : ApplyTask(p, writes)
             \/ LeaveSlug(p) \/ Report(p) \/ KillCall(p)
      PROVE  LandsInv'
  BY <1>1, <1>2, EditStartLands, PlanStartLands, BetweenLands, EditLands, ApplyLands, EndLands
<1>3. CASE UNCHANGED plansVars
  <2>1. tasks' = tasks /\ base' = base /\ proc' = proc
    BY <1>3 DEF plansVars
  <2> QED
    BY <2>1, <1>1 DEF LandsInv
<1> QED
  BY <1>2, <1>3 DEF PlansNext

\* What every file can have become of a plan that has the root for itself, and what its runs,
\* killed, failed and beside each other, have done for sure (applyTask, applySlug, writeReport).
THEOREM LandsInvariant == PlansSpec => []LandsInv
<1>1. PlansInit => LandsInv
  BY InitLands
<1>2. LandsInv /\ [PlansNext]_plansVars => LandsInv'
  BY LandsStep
<1> QED
  BY <1>1, <1>2, PTL DEF PlansSpec

\* A plan that has ended well has said how every task is that is not missing, whatever its other
\* runs did: it can be run again (task.apply).
THEOREM PlansLand == PlansSpec => []PlanLands
<1>1. LandsInv => PlanLands
  BY DEF LandsInv, BaseOK, PlanLands, AsSaid
<1> QED
  BY <1>1, LandsInvariant, PTL
=============================================================================
