------------------------------- MODULE Drain --------------------------------
(***************************************************************************)
(* `miner drain-ingest`: a pass reads what the transcripts have gained,    *)
(* clusters the failed tool results it finds, and writes four files one    *)
(* after the other: the log of occurrences, the templates with their       *)
(* counts, the clustering trees, and last how far it has read.  A pass may *)
(* die between any two of them or in the middle of the first, and nothing  *)
(* stops two passes at once.                                               *)
(***************************************************************************)
EXTENDS Transcripts, Bags

CONSTANTS
  Miners,      \* processes that run a pass
  MaxPending,  \* calls without a result that are remembered across passes
  Options,     \* the options a pass is started with, [full, verify, limit] (a bound)
  MaxPasses    \* passes started (a bound)

ASSUME DrainAssumption ==
  /\ MaxPending \in Nat \ {0} /\ MaxPasses \in Nat
  /\ Options \subseteq [full : BOOLEAN, verify : BOOLEAN, limit : Nat]

VARIABLES
  store,   \* the files of the miner: log, whether its last line is cut, templates, trees, table
  pass,    \* pass[p]: the pass of process p
  passes,  \* how many passes have been started
  plain,   \* history: no pass was cut short, overlapped another, or read anything again
  missed   \* history: results that failed to cluster or went to a cut line

drainVars == <<store, pass, passes, plain, missed>>

NoHash == MaxGen + 1
NoCounts == [named \in BOOLEAN |-> 0]

\* reader-state.json is the table of transcripts: a locator names its transcript
\* by its place in it.
Entry(t) == [of |-> t, at |-> 0, hash |-> NoHash, names |-> {}]
EmptyStore == [log |-> EmptyBag, cut |-> FALSE, templates |-> NoCounts, trees |-> NoCounts, table |-> <<>>]
Resting == [at |-> "idle", full |-> FALSE, verify |-> FALSE, todo |-> {}, table |-> <<>>,
            found |-> {}, templates |-> NoCounts,
            trees |-> NoCounts]

----------------------------------------------------------------------------
(* The table.                                                               *)

IndexOf(table, t) ==
  IF \E i \in DOMAIN table : table[i].of = t
  THEN CHOOSE i \in DOMAIN table : table[i].of = t
  ELSE Len(table) + 1
WithEntry(table, t) ==
  IF \E i \in DOMAIN table : table[i].of = t THEN table ELSE Append(table, Entry(t))

\* The newest names only are carried over.
Newest(names) ==
  {c \in names : Cardinality({d \in names : d[1] > c[1] \/ (d[1] = c[1] /\ d[2] > c[2])}) < MaxPending}

----------------------------------------------------------------------------
(* A pass.                                                                  *)

\* The state and the store are loaded before anything is read; the user may
\* limit how many transcripts are visited, ask for all from the start, and for
\* hashes.
StartPass(p, full, verify, limit) ==
  /\ pass[p].at = "idle" /\ passes < MaxPasses
  /\ pass' = [pass EXCEPT ![p] = [Resting EXCEPT !.at = "visit", !.full = full,
       !.verify = verify,
       !.todo = Foremost(limit, Present),
       !.table = IF full THEN <<>> ELSE store.table,
       !.templates = store.templates, !.trees = store.trees]]
  /\ passes' = passes + 1
  /\ plain' = (plain /\ ~full /\ \A q \in Miners : pass[q].at = "idle")
  /\ UNCHANGED <<store, missed>>

\* resumePoint: where to go on in a file, given its entry.  A full pass starts
\* over without calling that a rewrite; without a hash only a file that has
\* shrunk was visibly rewritten.
Rewritten(e, t, verify) ==
  Length(t) < e.at \/ (verify /\ e.hash # NoHash /\ e.hash # disk[t].gen)
From(e, t, full, verify) == IF full \/ Rewritten(e, t, verify) THEN 0 ELSE e.at

\* The calls and the failed results in the lines after from, up to to.
Call(t, k) == <<disk[t].gen, k>>
Calls(t, from, to) == {Call(t, k) : k \in {j \in from + 1..to : disk[t].lines[j] = Use}}
ResultsIn(t, from, to) == {k \in from + 1..to : disk[t].lines[k] # Use}
Answered(t, from, to) == {Call(t, disk[t].lines[k]) : k \in ResultsIn(t, from, to)}

\* The tool of a result is known when its call was just read, or remembered.
Named(t, k, from, names) ==
  disk[t].lines[k] > from \/ Call(t, disk[t].lines[k]) \in names

Counted(counts, found) ==
  [b \in BOOLEAN |-> counts[b] + Cardinality({o \in found : o.named = b})]

\* A transcript that is gone, or has nothing new, is skipped.
Skip(p, t) ==
  /\ pass[p].at = "visit" /\ First(t, pass[p].todo)
  /\ LET run == pass[p]
         table == WithEntry(run.table, t)
         e == table[IndexOf(table, t)]
     IN /\ t \notin Present \/ Length(t) = From(e, t, run.full, run.verify)
        /\ pass' = [pass EXCEPT ![p].todo = @ \ {t}, ![p].table =
             IF t \in Present /\ ~run.full /\ Rewritten(e, t, run.verify)
             THEN [table EXCEPT ![IndexOf(table, t)].names = {}] ELSE table]
  /\ UNCHANGED <<store, passes, plain, missed>>

Lines(found) == {[of |-> o.of, line |-> o.line] : o \in found}

\* Every line up to some point is read: a call is remembered, a failed result
\* clustered and its call forgotten.  A result that fails to cluster is noted among
\* the errors of the pass, and passed.
ReadTranscript(p, t) ==
  /\ pass[p].at = "visit" /\ First(t, pass[p].todo)
  /\ LET run == pass[p]
         table == WithEntry(run.table, t)
         i == IndexOf(table, t)
         anew == ~run.full /\ Rewritten(table[i], t, run.verify)
         from == From(table[i], t, run.full, run.verify)
         names == IF anew THEN {} ELSE table[i].names
     IN /\ t \in Present
        /\ \E to \in from + 1..Length(t) :
          \E failed \in SUBSET ResultsIn(t, from, to) :
             LET found == {[index |-> i, of |-> t, gen |-> disk[t].gen, line |-> k,
                            named |-> Named(t, k, from, names)] : k \in ResultsIn(t, from, to) \ failed}
                 read == [of |-> t, at |-> to,
                          hash |-> IF run.verify THEN disk[t].gen ELSE NoHash,
                          names |-> Newest((names \cup Calls(t, from, to)) \ Answered(t, from, to))]
                 more == [run EXCEPT !.todo = @ \ {t}, !.found = @ \cup found,
                            !.templates = Counted(@, found), !.trees = Counted(@, found)]
             IN \/ /\ pass' = [pass EXCEPT ![p] = [more EXCEPT !.table = [table EXCEPT ![i] = read]]]
                   /\ plain' = (plain /\ ~anew)
                   /\ missed' = missed \cup {[of |-> t, line |-> k] : k \in failed}
                \* The rest cannot be read: the entry keeps its place.
                \/ /\ pass' = [pass EXCEPT ![p] =
                          [more EXCEPT !.table = [table EXCEPT ![i].names = IF anew THEN {} ELSE @]]]
                   /\ plain' = FALSE
                   /\ UNCHANGED missed
  /\ UNCHANGED <<store, passes>>

----------------------------------------------------------------------------
(* The writes at the end of a pass, in their order.                         *)

\* Mutant: the table is saved before the log is written.
FlushLogLate(p) ==
  /\ pass[p].at \in {"visit", "log"} /\ pass[p].todo = {}
  /\ IF pass[p].at = "visit"
     THEN /\ store' = [store EXCEPT !.table = pass[p].table]
          /\ pass' = [pass EXCEPT ![p].at = "log"]
     ELSE /\ store' = [store EXCEPT !.log = @ (+) SetToBag(pass[p].found)]
          /\ pass' = [pass EXCEPT ![p].at = "templates"]
  /\ UNCHANGED <<passes, plain, missed>>

\* The order in which a pass finds results, and the beginnings of what it found.
Before(o, m) == Place(o.of) < Place(m.of) \/ (o.of = m.of /\ o.line < m.line)
Beginnings(found) == {part \in SUBSET found : \A o \in part, m \in found : Before(m, o) => m \in part}

\* What is found is appended: a line that follows one cut short is lost with it.
Spoilt(found) == IF store.cut THEN {o \in found : \A m \in found : ~Before(m, o)} ELSE {}
Appended(found, cut) ==
  /\ store' = [store EXCEPT !.log = @ (+) SetToBag(found \ Spoilt(found)), !.cut = cut]
  /\ missed' = missed \cup Lines(Spoilt(found))

FlushLog(p) ==
  /\ pass[p].at = "visit" /\ pass[p].todo = {}
  /\ Appended(pass[p].found, store.cut /\ pass[p].found = {})
  /\ pass' = [pass EXCEPT ![p].at = "templates"]
  /\ UNCHANGED <<passes, plain>>

\* The process dies while it appends, or cannot write on, after some of what it
\* found; the line it was at may be cut short.
FlushBreaks(p) ==
  /\ pass[p].at = "visit" /\ pass[p].todo = {}
  /\ \E part \in Beginnings(pass[p].found) \ {pass[p].found}, cut \in BOOLEAN :
       Appended(part, cut \/ (store.cut /\ part = {}))
  /\ pass' = [pass EXCEPT ![p] = Resting]
  /\ plain' = FALSE
  /\ UNCHANGED passes

FlushTemplates(p) ==
  /\ pass[p].at = "templates"
  /\ store' = [store EXCEPT !.templates = pass[p].templates]
  /\ pass' = [pass EXCEPT ![p].at = "trees"]
  /\ UNCHANGED <<passes, plain, missed>>

FlushTrees(p) ==
  /\ pass[p].at = "trees"
  /\ store' = [store EXCEPT !.trees = pass[p].trees]
  /\ pass' = [pass EXCEPT ![p].at = "save"]
  /\ UNCHANGED <<passes, plain, missed>>

SaveState(p) ==
  /\ pass[p].at = "save"
  /\ store' = [store EXCEPT !.table = pass[p].table]
  /\ pass' = [pass EXCEPT ![p] = Resting]
  /\ UNCHANGED <<passes, plain, missed>>

\* The process dies, or one of its writes fails.  Before the first write that
\* leaves nothing behind.
PassDies(p) ==
  /\ pass[p].at \in {"templates", "trees", "save"}
  /\ pass' = [pass EXCEPT ![p] = Resting]
  /\ plain' = FALSE
  /\ UNCHANGED <<store, passes, missed>>

----------------------------------------------------------------------------
DrainInit ==
  /\ store = EmptyStore
  /\ pass = [p \in Miners |-> Resting]
  /\ passes = 0
  /\ plain = TRUE
  /\ missed = {}

DrainNext ==
  \E p \in Miners :
    \/ \E o \in Options : StartPass(p, o.full, o.verify, o.limit)
    \/ \E t \in pass[p].todo : Skip(p, t) \/ ReadTranscript(p, t)
    \/ FlushLog(p)
    \/ FlushBreaks(p)
    \/ FlushTemplates(p)
    \/ FlushTrees(p)
    \/ SaveState(p)
    \/ PassDies(p)

\* Whatever passes died, failed or overlapped: the results below a saved
\* watermark of a file that was never rewritten are in the log, but for those that
\* failed to cluster and the one that was appended to a line cut short.
NothingLost ==
  \A i \in DOMAIN store.table :
    LET e == store.table[i] IN
    e.of \in Present /\ disk[e.of].gen = 0 =>
      \A k \in ResultsIn(e.of, 0, e.at) :
        \E o \in BagToSet(store.log) \cup missed : o.of = e.of /\ o.line = k

\* At some line up to n more calls were open than are remembered.
Crowded(t, n) == \E m \in 0..n : Cardinality(Unanswered(disk[t].lines, m)) > MaxPending

\* As long as no pass was cut short, overlapped another or read anything again,
\* the log is what one pass over everything would have written, however the
\* lines were spread over passes: each result below a watermark that did not fail to
\* cluster once, with its tool, located in its own transcript; the counts and the trees agree with it.
\* (Where no more than MaxPending calls of a transcript had been open.)
CountedOnce ==
  plain /\ (\A p \in Miners : pass[p].at = "idle") =>
    /\ \A o \in BagToSet(store.log) :
         /\ store.log[o] = 1
         /\ store.table[o.index].of = o.of /\ o.line <= store.table[o.index].at
         /\ o.named \/ disk[o.of].gen > 0 \/ Crowded(o.of, o.line - 1)
    /\ \A named \in BOOLEAN :
         LET n == Cardinality({o \in BagToSet(store.log) : o.named = named})
         IN store.templates[named] = n /\ store.trees[named] = n

\* Both: nothing that clustered is missing below a watermark, but for a line lost to
\* one cut short, and nothing is there twice.
CountersExact == NothingLost /\ CountedOnce
=============================================================================
