----------------------------- MODULE Bootstrap ------------------------------
(***************************************************************************)
(* The prompt a session starts from.  open archives the old done tasks and *)
(* then, like prompt, reads the files of the initiative one by one while   *)
(* other sessions change them, asks git and gh about the branches, ranks   *)
(* the notes, and looks for what is related to each loop.  Every source    *)
(* but the brief may fail, and the prompt is put together without it.      *)
(***************************************************************************)
EXTENDS Integers, Sequences, FiniteSets, SequencesExt

CONSTANTS
  NoTarget, NoWorker, NoFacet,
  Starts,      \* initiatives at the start: sessions, tasks, notes, branches, related, ...
  Opens,       \* calls: archives and lists live branches or not, and the facet
  Later,       \* sessions that others may wrap meanwhile
  Repos,
  BulkLimit, LiveLimit, GitLanes,
  HitsTotal, HitsPerLoop, CharsTotal,
  NotesLimit, ForeignCap, WorktreeLimit, TopN, RollupLines,
  MaxMishaps,  \* bound: reads and calls that fail
  MaxChanges   \* bound: changes by other sessions and on GitHub

ASSUME BootstrapAssumption ==
  {BulkLimit, LiveLimit, GitLanes, HitsTotal, HitsPerLoop, CharsTotal, NotesLimit, ForeignCap, WorktreeLimit, TopN,
   MaxMishaps, MaxChanges} \subseteq Nat /\ RollupLines \in Nat \ {0}

\* The heads of pull requests and the names of branches.
HeadsOf(h) == {b.name : b \in Range(h.branches)} \cup (UNION {Range(h.github[r]) : r \in Repos})
Heads == UNION {HeadsOf(h) : h \in Starts}

\* A loop names the session whose file opens it; an id names one file of its directory.
OpensOwn(s) == \A l \in s.opens : l.session = s.id
OnePerId(files) == \A f, g \in files : f.id = g.id => f = g

ASSUME StartsAssumption ==
  /\ \A h \in Starts :
       /\ DOMAIN h = {"brief", "tasks", "archived", "sessions", "notes", "hits", "related", "branches", "github",
                      "siblings", "worktrees"}
       /\ h.branches \in Seq(Range(h.branches)) /\ h.github \in [Repos -> Seq(Heads)]
       /\ OnePerId(h.tasks) /\ OnePerId(h.sessions)
       /\ \A t \in h.tasks : {"id", "status", "stale"} \subseteq DOMAIN t
       /\ \A s \in h.sessions : OpensOwn(s)
  /\ \A s \in Later : OpensOwn(s)

\* There are finitely many files and loops.  A loop has a ref of its own; the search finds
\* nothing twice, and what a hit costs is the length of its line, whichever loop it stands under.
ASSUME RelatedAssumption ==
  \A h \in Starts :
    LET files == h.sessions \cup Later
        loops == UNION {s.opens : s \in files}
        found == UNION {Range(h.related[r]) : r \in DOMAIN h.related}
    IN  /\ IsFiniteSet(files) /\ IsFiniteSet(loops)
        /\ \A l \in loops : l.ref \in DOMAIN h.related /\ l.age \in Nat /\ l.order \in Nat
        /\ \A k, l \in loops : k.ref = l.ref => k = l
        /\ \A r \in DOMAIN h.related :
             /\ h.related[r] \in Seq(found)
             /\ \A i, j \in DOMAIN h.related[r] : h.related[r][i].ref = h.related[r][j].ref => i = j
        /\ \A f, g \in found : f.cost \in Nat \ {0} /\ (f.ref = g.ref => f.cost = g.cost)

VARIABLES
  home,     \* the files of the initiative
  github,   \* github[r]: the heads of the open pull requests of r, newest first
  asm,      \* the assembly
  hitLog,   \* retrieval-hits.jsonl
  seen,     \* history: loops open ever since the assembly began, loops that a session had
            \* closed before, loops whose task is done ever since, branches with, and without,
            \* a pull request all the time, and the directories that failed to be listed
  mishaps,
  moves     \* changes so far

bootstrapVars == <<home, github, asm, hitLog, seen, mishaps, moves>>

Fails == mishaps < MaxMishaps /\ mishaps' = mishaps + 1
Works == mishaps' = mishaps

FirstN(s, n) == [i \in DOMAIN s \cap 1 .. n |-> s[i]]
Rest(s, n) == SubSeq(s, n + 1, Len(s))
Among(s, P(_)) == SelectSeq(s, P)

\* Array.sort: each element once, and none after one that it comes before.
InOrder(S, Before(_, _)) ==
  CHOOSE s \in SetToSeqs(S) : \A i, j \in DOMAIN s : i < j => ~Before(s[j], s[i])

\* The sum of the first n numbers, for each n.
SumTo(q) == LET sum[n \in 0 .. Len(q)] == IF n = 0 THEN 0 ELSE sum[n - 1] + q[n] IN sum

----------------------------------------------------------------------------
(* The ledger of loops, from session files and tasks that have been read.   *)

Resolves(s, o, l) ==
  /\ s.id # o.id /\ o.ended < s.ended
  /\ l.ref \in s.resolves

Resolved(sessions, o, l) == \E s \in sessions : Resolves(s, o, l)

\* isTargetClosed looks among the tasks it is given.
TargetClosed(l, tasks) == \E t \in tasks : t.id = l.target /\ t.status = "done"

OpenLoops(sessions, tasks) ==
  {l \in UNION {o.opens : o \in sessions} :
     \E o \in sessions : l \in o.opens /\ ~Resolved(sessions, o, l) /\ ~TargetClosed(l, tasks)}

OldestFirst(loops) == InOrder(loops, LAMBDA k, l : k.age > l.age \/ (k.age = l.age /\ k.order < l.order))

\* selectFacetLoops, selectFacetTasks
InFacet(t, facet) == facet = NoFacet \/ facet \in t.tags
HiddenLoop(l, tasks, facet) == \E t \in tasks : t.id = l.target /\ ~InFacet(t, facet)

FacetTasks(open, facet) ==
  LET tagged == {t \in open : InFacet(t, facet)} IN IF tagged = {} THEN open ELSE tagged

ByPriority(tasks) == InOrder(tasks, LAMBDA t, u : t.priority < u.priority)

----------------------------------------------------------------------------
(* What the sections make of what was read.                                 *)

NewestFirst(sessions) ==
  InOrder(sessions, LAMBDA s, t : s.ended > t.ended \/ (s.ended = t.ended /\ s.started > t.started))

\* The newest canonical session, or else the newest: a set with at most one member.
Narrative(sessions) ==
  LET canonical == {s \in sessions : s.canonical}
      newest == NewestFirst(IF canonical = {} THEN sessions ELSE canonical)
  IN  IF newest = <<>> THEN {} ELSE {newest[1]}

Parallel(sessions) ==
  {s \in sessions \ Narrative(sessions) : ~s.canonical /\ \A n \in Narrative(sessions) : s.ended > n.ended}

\* buildWorkerRollup: one entry for a spawner, the busiest first.
Rollup(workers) ==
  LET Of(w) == {s \in workers : s.worker.spawner = w}
      Entry(w) == [spawner |-> w, total |-> Cardinality(Of(w)),
                   troubled |-> {s \in Of(w) : s.worker.outcome \in {"no_report", "concerns"}}]
  IN  InOrder({Entry(s.worker.spawner) : s \in workers}, LAMBDA e, f : e.total > f.total)

\* renderWorkerRollup: the spawners with a line, and how many are only counted.
RollupBody(entries) ==
  IF Len(entries) > RollupLines
  THEN [lines |-> FirstN(entries, RollupLines - 1), more |-> Len(entries) - (RollupLines - 1)]
  ELSE [lines |-> entries, more |-> 0]

Worktrees(w) ==
  [lines |-> IF w.registered < WorktreeLimit THEN w.registered ELSE WorktreeLimit,
   more |-> IF w.registered > WorktreeLimit THEN w.registered - WorktreeLimit ELSE 0,
   observed |-> w.observed]

\* fuseByRRF, of the order by date and the order by relevance, with its constant of 60.
Fused(notes, relevant) ==
  LET Place(s, n) == CHOOSE i \in DOMAIN s : s[i] = n
      Weight(i) == 1000000 \div (60 + i)
      Score(n) == Weight(Place(notes, n)) + (IF n \in Range(relevant) THEN Weight(Place(relevant, n)) ELSE 0)
  IN  InOrder(Range(notes), LAMBDA n, m :
        Score(n) > Score(m) \/ (Score(n) = Score(m) /\ Place(notes, n) < Place(notes, m)))

\* rankNotes, from the hits of the index.
Ranking(notes, hits) ==
  IF notes = <<>> \/ hits = <<>> THEN [local |-> notes, foreign |-> <<>>, ranked |-> FALSE]
  ELSE LET Refs(s) == [i \in DOMAIN s |-> s[i].ref]
       IN  [local |-> Fused(notes, Among(Refs(Among(hits, LAMBDA h : h.local)), LAMBDA r : r \in Range(notes))),
            foreign |-> FirstN(Refs(Among(hits, LAMBDA h : ~h.local /\ h.strong)), ForeignCap),
            ranked |-> TRUE]

ShownNotes(ranking) == Range(FirstN(ranking.local, NotesLimit)) \cup Range(ranking.foreign)

----------------------------------------------------------------------------
(* open: the archive of old tasks, then the files, each directory listed    *)
(* once and its files read one by one.                                      *)

NoLive == [bulk |-> <<>>, pr |-> <<>>, git |-> <<>>]
NoRanking == [local |-> <<>>, foreign |-> <<>>, ranked |-> FALSE]
NoContext == [pass |-> 1, at |-> 1, loops |-> <<>>, asked |-> <<>>, hits |-> <<>>, chars |-> CharsTotal]
NoCall == [archives |-> FALSE, live |-> FALSE, facet |-> NoFacet]
NoAssembly ==
  [at |-> "idle", call |-> NoCall, unlisted |-> {}, todo |-> [tasks |-> {}, sessions |-> {}], moving |-> NoTarget,
   tasks |-> {}, sessions |-> {}, bad |-> [tasks |-> 0, sessions |-> 0], rest |-> "unread", live |-> NoLive,
   siblings |-> FALSE, ranking |-> NoRanking, context |-> NoContext, degraded |-> {}]

Runs == asm.at \notin {"idle", "done", "failed"}
Now(h) == OpenLoops(h.sessions, h.tasks)
Filed(h) == UNION {s.opens : s \in h.sessions}

\* Loops that another session closed, and loops whose task is done.
Closed(h) == {l \in Filed(h) : \A o \in h.sessions : l \in o.opens => Resolved(h.sessions, o, l)}
TargetsDone(h) == {l \in Filed(h) : TargetClosed(l, h.tasks)}

NoneSeen == [open |-> {}, closed |-> {}, done |-> {}, had |-> {}, hadNot |-> {}, failed |-> {}]

\* The branches that have an open pull request on GitHub.
Branches == Range(home.branches)
WithPr(g) == {b \in Branches : b.repo \in Repos /\ b.name \in Range(g[b.repo])}

\* open reads the brief, and without one there is no prompt.  The archive has nothing to do
\* when the tasks cannot be listed.
StartOpen(call) ==
  /\ asm.at = "idle"
  /\ \/ /\ home.brief
        /\ \E old \in IF call.archives THEN {home.tasks, {}} ELSE {{}} :
             /\ IF call.archives /\ old # home.tasks THEN Fails ELSE Works
             /\ asm' = [NoAssembly EXCEPT !.at = IF call.archives THEN "archive" ELSE "read", !.call = call,
                                          !.todo.tasks = old, !.unlisted = {"tasks", "sessions"}]
        /\ seen' = [open |-> Now(home), closed |-> Closed(home), done |-> TargetsDone(home),
                    had |-> WithPr(github), hadNot |-> Branches \ WithPr(github), failed |-> {}]
     \/ ~home.brief /\ Works /\ asm' = [asm EXCEPT !.at = "failed"] /\ UNCHANGED seen
  /\ UNCHANGED <<home, github, hitLog, moves>>

\* archiveStaleTasks reads a task, and moves its file if it was done long ago.
ArchiveRead ==
  /\ asm.at = "archive" /\ asm.moving = NoTarget
  /\ IF asm.todo.tasks = {} THEN asm' = [asm EXCEPT !.at = "read"]
     ELSE \E t \in asm.todo.tasks :
            LET now == {u \in home.tasks : u.id = t.id /\ u.status = "done" /\ u.stale}
            IN  asm' = [asm EXCEPT !.todo.tasks = @ \ {t}, !.moving = IF now = {} THEN NoTarget ELSE t.id]
  /\ UNCHANGED <<home, github, hitLog, seen, mishaps, moves>>

Archived(h, id) ==
  [h EXCEPT !.tasks = {t \in @ : t.id # id}, !.archived = @ \cup {t.id : t \in {u \in h.tasks : u.id = id}}]

\* A loop counts as open ever since the assembly began only if it was so at every moment.
SeenNow(h, g) ==
  seen' = [open |-> seen.open \cap Now(h), closed |-> seen.closed, done |-> seen.done \cap TargetsDone(h),
           had |-> seen.had \cap WithPr(g), hadNot |-> seen.hadNot \ WithPr(g), failed |-> seen.failed]

ArchiveMove ==
  /\ asm.at = "archive" /\ asm.moving # NoTarget
  /\ home' = Archived(home, asm.moving)
  /\ SeenNow(home', github)
  /\ asm' = [asm EXCEPT !.moving = NoTarget]
  /\ UNCHANGED <<github, hitLog, mishaps, moves>>

\* A file that cannot be read, or moved, stays where it is.
ArchiveSkips ==
  /\ asm.at = "archive" /\ asm.moving # NoTarget
  /\ Fails
  /\ asm' = [asm EXCEPT !.moving = NoTarget]
  /\ UNCHANGED <<home, github, hitLog, seen, moves>>

\* readdir, of the tasks or of the sessions.
List(dir) ==
  /\ asm.at = "read" /\ dir \in asm.unlisted
  /\ asm' = [asm EXCEPT !.unlisted = @ \ {dir}, !.todo[dir] = home[dir]]
  /\ UNCHANGED <<home, github, hitLog, seen, mishaps, moves>>

\* A directory that cannot be listed passes for an empty one, and nothing is counted.
ListFails(dir) ==
  /\ asm.at = "read" /\ dir \in asm.unlisted
  /\ Fails
  /\ asm' = [asm EXCEPT !.unlisted = @ \ {dir}]
  /\ seen' = [seen EXCEPT !.failed = @ \cup {dir}]
  /\ UNCHANGED <<home, github, hitLog, moves>>

\* Mutant: a file that cannot be read is passed over in silence.
UnreadableSkipped(count) == count

Unreadable(count) == count + 1

\* A file that is gone, does not parse or cannot be read is counted, and the rest is read.
LoadFile(dir) ==
  /\ asm.at = "read" /\ dir \notin asm.unlisted
  /\ \E f \in asm.todo[dir] :
       LET read == {g \in home[dir] : g.id = f.id /\ g.ok}
           left == [asm EXCEPT !.todo[dir] = @ \ {f}]
       IN  \/ read # {} /\ Works /\ asm' = [left EXCEPT ![dir] = @ \cup read]
           \/ (IF read = {} THEN Works ELSE Fails) /\ asm' = [left EXCEPT !.bad[dir] = Unreadable(@)]
  /\ UNCHANGED <<home, github, hitLog, seen, moves>>

\* loadArtifacts and loadNotesFromDir, in one step: nothing here writes to either.
ReadRest ==
  /\ asm.at = "read" /\ asm.rest = "unread"
  /\ \/ Works /\ asm' = [asm EXCEPT !.rest = "read"]
     \/ Fails /\ asm' = [asm EXCEPT !.rest = "bad"]
  /\ UNCHANGED <<home, github, hitLog, seen, moves>>

----------------------------------------------------------------------------
(* defaultLiveStatusFetcher: one list for a repository, and a query for a   *)
(* branch that a full list leaves out, while git is asked in a few lanes.   *)

Unasked == [at |-> "unasked", heads |-> <<>>, complete |-> FALSE]
Shown == FirstN(home.branches, LiveLimit)

EndRead ==
  /\ asm.at = "read" /\ asm.unlisted = {} /\ asm.rest # "unread"
  /\ asm.todo = NoAssembly.todo
  /\ asm' = IF asm.call.live /\ asm.rest = "read" /\ home.branches # <<>>
            THEN [asm EXCEPT !.at = "live",
                             !.live = [bulk |-> [r \in {b.repo : b \in Range(Shown)} \cap Repos |-> Unasked],
                                       pr |-> [i \in DOMAIN Shown |-> "unasked"],
                                       git |-> [i \in DOMAIN Shown |-> "waiting"]]]
            ELSE [asm EXCEPT !.at = "probe"]
  /\ UNCHANGED <<home, github, hitLog, seen, mishaps, moves>>

\* Mutant: a list that is as long as the limit is taken for all there is.
CompleteFull(heads) == Len(heads) <= BulkLimit

Complete(heads) == Len(heads) < BulkLimit

ListRepoPrs(r) ==
  /\ asm.at = "live" /\ r \in DOMAIN asm.live.bulk /\ asm.live.bulk[r].at = "unasked"
  /\ LET heads == FirstN(github[r], BulkLimit)
     IN  \/ /\ Works
            /\ asm' = [asm EXCEPT !.live.bulk[r] = [at |-> "listed", heads |-> heads, complete |-> Complete(heads)]]
         \/ Fails /\ asm' = [asm EXCEPT !.live.bulk[r].at = "failed"]
  /\ UNCHANGED <<home, github, hitLog, seen, moves>>

Answer(i, pr) == asm' = [asm EXCEPT !.live.pr[i] = pr]

\* fetchBranchPrs, for one branch.  A failed query reads as no pull request.
BranchPr(i) ==
  LET b == Shown[i] IN
  /\ asm.at = "live" /\ i \in DOMAIN asm.live.pr /\ asm.live.pr[i] = "unasked"
  /\ \/ b.repo \notin Repos /\ Works /\ Answer(i, "elsewhere")
     \/ /\ b.repo \in Repos /\ asm.live.bulk[b.repo].at # "unasked"
        /\ LET index == asm.live.bulk[b.repo]
           IN  IF b.name \in Range(index.heads) THEN Works /\ Answer(i, "open")
               ELSE IF index.complete THEN Works /\ Answer(i, "none")
               ELSE \/ Works /\ Answer(i, IF b.name \in Range(github[b.repo]) THEN "open" ELSE "none")
                    \/ Fails /\ Answer(i, "failed")
  /\ UNCHANGED <<home, github, hitLog, seen, moves>>

\* mapConcurrent: the next branch, when a lane is free.
GitStart ==
  /\ asm.at = "live"
  /\ Cardinality({i \in DOMAIN asm.live.git : asm.live.git[i] = "running"}) < GitLanes
  /\ \E i \in DOMAIN asm.live.git :
       /\ asm.live.git[i] = "waiting" /\ \A j \in 1 .. (i - 1) : asm.live.git[j] # "waiting"
       /\ asm' = [asm EXCEPT !.live.git[i] = "running"]
  /\ UNCHANGED <<home, github, hitLog, seen, mishaps, moves>>

GitStatus(i) ==
  /\ asm.at = "live" /\ i \in DOMAIN asm.live.git /\ asm.live.git[i] = "running"
  /\ \/ Works /\ asm' = [asm EXCEPT !.live.git[i] = IF Shown[i].present THEN "present" ELSE "missing"]
     \/ Shown[i].present /\ Fails /\ asm' = [asm EXCEPT !.live.git[i] = "missing"]
  /\ UNCHANGED <<home, github, hitLog, seen, moves>>

EndLive ==
  /\ asm.at = "live"
  /\ \A i \in DOMAIN asm.live.pr : asm.live.pr[i] # "unasked" /\ asm.live.git[i] \in {"present", "missing"}
  /\ asm' = [asm EXCEPT !.at = "probe"]
  /\ UNCHANGED <<home, github, hitLog, seen, mishaps, moves>>

----------------------------------------------------------------------------
(* Siblings, notes and what is related to the loops.                        *)

\* A probe that fails finds nobody.
Probe ==
  /\ asm.at = "probe"
  /\ \/ Works /\ asm' = [asm EXCEPT !.at = "rank", !.siblings = asm.call.live /\ home.siblings]
     \/ home.siblings /\ asm.call.live /\ Fails /\ asm' = [asm EXCEPT !.at = "rank"]
  /\ UNCHANGED <<home, github, hitLog, seen, moves>>

\* The loops that are rendered, in the order they are asked about.
Rendered ==
  OldestFirst({l \in OpenLoops(asm.sessions, asm.tasks) : ~HiddenLoop(l, asm.tasks, asm.call.facet)})

RankNotes ==
  /\ asm.at = "rank"
  /\ \E hits \in {home.hits, <<>>} :
       /\ IF hits = home.hits THEN Works ELSE Fails
       /\ asm' = [asm EXCEPT !.at = "hits", !.ranking = Ranking(home.notes, hits), !.context.loops = Rendered]
  /\ UNCHANGED <<home, github, hitLog, seen, moves>>

Context == asm.context
Taken(ref) == {h \in Range(Context.hits) : h.loop = ref}
TakenRefs == {h.ref : h \in Range(Context.hits)}
Left == HitsTotal - Len(Context.hits)
BudgetLeft == Left > 0 /\ Context.chars > 0
Asked(l) == l.ref \in DOMAIN Context.asked

\* What the search ranks for a loop, the best first, and the places of those the loop was offered.
Hits(l) == home.related[l.ref]
Offered(l) == Context.asked[l.ref]

\* Mutant: a loop is asked for no more than it may show.
CandidatesFew == HitsPerLoop

Candidates == HitsTotal + HitsPerLoop - 1

Excluded(l) == ShownNotes(asm.ranking) \cup {l.session} \cup ({l.target} \ {NoTarget})

\* withinBudget: up to the first hit that would overflow.
Within(hits, places, budget) ==
  LET Cost == SumTo([i \in DOMAIN hits |-> IF i \in places THEN hits[i].cost ELSE 0])
  IN  {n \in places : Cost[n] <= budget}

\* The search is asked for as many hits more as there are to leave out.
Page(l, limit) == DOMAIN Hits(l) \cap 1 .. (limit + Cardinality(Excluded(l)))

\* relatedContext: the best hits of the page that the prompt does not show already, but for
\* archived handoffs, which are never served here.
Related(l, limit) ==
  LET kept == {i \in Page(l, limit) : Hits(l)[i].served /\ Hits(l)[i].ref \notin Excluded(l)}
  IN  Within(Hits(l), {i \in kept : Cardinality({j \in kept : j <= i}) <= limit}, CharsTotal)

\* The loop that the round has reached.
Current == Context.loops[Context.at]
HitsOver == Context.pass > HitsPerLoop \/ Context.loops = <<>>
Skips == Cardinality(Taken(Current.ref)) # Context.pass - 1
HasTurn == ~HitsOver /\ ~Skips

Stops == asm' = [asm EXCEPT !.at = "log"]

\* On to the next loop, with these hits.
GoesOn(hits, chars) ==
  LET last == Context.at = Len(Context.loops)
  IN  asm' = [asm EXCEPT !.context =
                [Context EXCEPT !.hits = hits, !.chars = chars, !.at = IF last THEN 1 ELSE @ + 1,
                                !.pass = IF last THEN @ + 1 ELSE @]]

\* What the loop of the round was offered is kept for the rounds to come.
Offering(places) ==
  [Context EXCEPT !.asked = [q \in DOMAIN @ \cup {Current.ref} |-> IF q = Current.ref THEN places ELSE @[q]]]

\* relatedForLoops, up to the next query or the next line.
QueryLoop ==
  /\ asm.at = "hits" /\ HasTurn /\ BudgetLeft /\ ~Asked(Current)
  /\ \/ Works /\ asm' = [asm EXCEPT !.context = Offering(Related(Current, Candidates))]
     \/ Fails /\ asm' = [asm EXCEPT !.context = Offering({}), !.degraded = @ \cup {Current.ref}]
  /\ UNCHANGED <<home, github, hitLog, seen, moves>>

\* The hits the loop was offered that no loop has taken yet.
Free(l) == {i \in Offered(l) : Hits(l)[i].ref \notin TakenRefs}

\* The best of them goes under the loop, or ends the rounds if it would overflow.
Takes(hit) ==
  IF hit.cost > Context.chars THEN Stops
  ELSE GoesOn(Append(Context.hits, [loop |-> Current.ref, ref |-> hit.ref, cost |-> hit.cost]),
              Context.chars - hit.cost)

AllocateOne ==
  /\ asm.at = "hits"
  /\ \/ (HitsOver \/ (HasTurn /\ ~BudgetLeft)) /\ Stops
     \/ ~HitsOver /\ Skips /\ GoesOn(Context.hits, Context.chars)
     \/ /\ HasTurn /\ BudgetLeft /\ Asked(Current)
        /\ \/ Free(Current) = {} /\ GoesOn(Context.hits, Context.chars)
           \/ \E i \in Free(Current) : (\A j \in Free(Current) : i <= j) /\ Takes(Hits(Current)[i])
  /\ UNCHANGED <<home, github, hitLog, seen, mishaps, moves>>

\* hitLogEntries: the loops' hits in the order of the loops, then the foreign notes.
Entries ==
  LET HitsAt(l) == Among(Context.hits, LAMBDA h : h.loop = l.ref)
      Refs(hits) == [i \in DOMAIN hits |-> hits[i].ref]
  IN  FlattenSeq([i \in DOMAIN Context.loops |-> Refs(HitsAt(Context.loops[i]))]) \o asm.ranking.foreign

AppendHitLog ==
  /\ asm.at = "log"
  /\ \/ Works /\ hitLog' = hitLog \o Entries /\ asm' = [asm EXCEPT !.at = "done"]
     \/ Entries # <<>> /\ Fails /\ UNCHANGED hitLog /\ asm' = [asm EXCEPT !.at = "done", !.degraded = @ \cup {"hit-log"}]
  /\ UNCHANGED <<home, github, seen, moves>>

----------------------------------------------------------------------------
(* What is printed once everything has been asked.                          *)

\* renderLiveArtifacts, or the registered branches as they are.
BranchLines ==
  IF asm.rest = "bad" THEN <<>>
  ELSE IF asm.live = NoLive
  THEN [i \in DOMAIN home.branches |-> [branch |-> home.branches[i], git |-> "unasked", pr |-> "unasked"]]
  ELSE [i \in DOMAIN Shown |-> [branch |-> Shown[i], git |-> asm.live.git[i], pr |-> asm.live.pr[i]]]

\* renderFacetedLoops: the loops of the facet, and how many are hidden.
LoopLines ==
  [shown |-> Context.loops, hidden |-> Cardinality(OpenLoops(asm.sessions, asm.tasks)) - Len(Context.loops)]

\* renderTopTasks and the note of the facet about the others.
TaskLines ==
  LET open == {t \in asm.tasks : t.status = "open"}
      tasks == FacetTasks(open, asm.call.facet)
  IN  [shown |-> FirstN(ByPriority(tasks), TopN), hidden |-> Cardinality(open) - Cardinality(tasks)]

\* renderDurableNotes and renderForeignNotes.
NoteLines ==
  [shown |-> FirstN(asm.ranking.local, NotesLimit), older |-> Len(Rest(asm.ranking.local, NotesLimit)),
   foreign |-> asm.ranking.foreign, ranked |-> asm.ranking.ranked]

\* renderParallelSessions: workers by their spawners, the other sessions one by one.
ParallelLines ==
  LET workers == {s \in Parallel(asm.sessions) : s.worker # NoWorker}
  IN  [each |-> Parallel(asm.sessions) \ workers, workers |-> RollupBody(Rollup(workers))]

\* renderClosingInstruction: what to begin with.
FirstThing == IF Context.loops = <<>> THEN "the top task" ELSE "the loops"

Sections ==
  [siblings |-> asm.siblings, loops |-> LoopLines, see |-> Context.hits, last |-> Narrative(asm.sessions),
   parallel |-> ParallelLines, tasks |-> TaskLines, unreadable |-> asm.bad, notes |-> NoteLines,
   artifacts |-> asm.rest, branches |-> BranchLines, worktrees |-> Worktrees(home.worktrees),
   first |-> FirstThing, degraded |-> asm.degraded]

----------------------------------------------------------------------------
(* What others do meanwhile, and the death of the command.                  *)

Changes == Runs /\ moves < MaxChanges /\ moves' = moves + 1

\* Another session completes a task, takes it up again, or opens the initiative too.
TaskMoves(id) ==
  /\ Changes
  /\ \E t \in {u \in home.tasks : u.id = id} :
       \/ \E status \in {"open", "done"} \ {t.status} :
            home' = [home EXCEPT !.tasks = (@ \ {t}) \cup {[t EXCEPT !.status = status, !.stale = FALSE]}]
       \/ t.status = "done" /\ t.stale /\ home' = Archived(home, id)
  /\ SeenNow(home', github)
  /\ UNCHANGED <<github, asm, hitLog, mishaps>>

Wrap(s) ==
  /\ Changes
  /\ s.id \notin {o.id : o \in home.sessions}
  /\ home' = [home EXCEPT !.sessions = @ \cup {s}]
  /\ SeenNow(home', github)
  /\ UNCHANGED <<github, asm, hitLog, mishaps>>

PrMoves(r, head) ==
  /\ Changes /\ asm.at = "live"
  /\ \/ /\ head \notin Range(github[r])
        /\ github' = [github EXCEPT ![r] = <<head>> \o @]
     \/ \E i \in DOMAIN github[r] :
          /\ github[r][i] = head
          /\ github' = [github EXCEPT ![r] = RemoveAt(@, i)]
  /\ SeenNow(home, github')
  /\ UNCHANGED <<home, asm, hitLog, mishaps>>

Kill ==
  /\ Runs /\ Fails
  /\ asm' = [NoAssembly EXCEPT !.at = "failed"]
  /\ UNCHANGED <<home, github, hitLog, seen, moves>>

----------------------------------------------------------------------------

BootstrapInit ==
  /\ home \in Starts
  /\ github = home.github
  /\ asm = NoAssembly /\ hitLog = <<>> /\ seen = NoneSeen /\ mishaps = 0 /\ moves = 0

Assemble ==
  \/ \E call \in Opens : StartOpen(call)
  \/ ArchiveRead \/ ArchiveMove \/ ArchiveSkips
  \/ \E dir \in {"tasks", "sessions"} : List(dir) \/ ListFails(dir) \/ LoadFile(dir)
  \/ ReadRest \/ EndRead
  \/ \E r \in Repos : ListRepoPrs(r)
  \/ \E i \in 1 .. LiveLimit : BranchPr(i) \/ GitStatus(i)
  \/ GitStart \/ EndLive
  \/ Probe \/ RankNotes \/ QueryLoop \/ AllocateOne \/ AppendHitLog \/ Kill

Meanwhile ==
  \/ \E t \in home.tasks : TaskMoves(t.id)
  \/ \E s \in Later : Wrap(s)
  \/ \E b \in Branches : b.repo \in Repos /\ PrMoves(b.repo, b.name)

BootstrapNext == Assemble \/ Meanwhile

BootstrapSpec == BootstrapInit /\ [][BootstrapNext]_bootstrapVars

----------------------------------------------------------------------------
(* Properties.                                                              *)

Done == asm.at = "done"

\* The files are read one by one while others write: a loop that was open from the start of
\* the assembly to its end is in the prompt, shown or counted as hidden, and one that a
\* session had closed before, or whose task was done all the time, is not, unless the prompt
\* says that some file could not be read.  A directory that cannot be listed is not told: then
\* no loop is in the prompt, or none is taken for done with its task, but one that a session
\* had closed does not come back (loadSessionsFromDir, loadTasks, deriveOpenLoopsFrom).
LoopsHonest ==
  LET Told == OpenLoops(asm.sessions, asm.tasks)
  IN  Done /\ asm.bad = NoAssembly.bad =>
        /\ "sessions" \notin seen.failed => seen.open \subseteq Told
        /\ Told \cap seen.closed = {}
        /\ "tasks" \notin seen.failed => Told \cap seen.done = {}

\* A branch is shown with a pull request only if it had one at some time, and without one
\* only if it had none at some time or gh gave no answer, whichever list or query the
\* answer came from and in whatever order they came (defaultLiveStatusFetcher).
LiveTruthful ==
  \A i \in DOMAIN asm.live.pr :
    /\ asm.live.pr[i] = "open" => Shown[i] \notin seen.hadNot
    /\ asm.live.pr[i] = "none" => Shown[i] \notin seen.had

\* The lines under the loops stay within both budgets and name nothing twice, and a loop
\* that was asked about and is left with fewer lines than it may have is so because every
\* hit it has was taken or does not fit what is left: how many candidates a loop is asked
\* for never decides it, unless archived handoffs, which are not served, had a place among
\* them (relatedForLoops, CANDIDATES_PER_LOOP, servedByRelated).
LoopShare ==
  LET Untaken(l) == {h \in Range(Hits(l)) : h.served /\ h.ref \notin TakenRefs \cup Excluded(l)}
      Crowded(l) == \E i \in Page(l, Candidates) : ~Hits(l)[i].served
  IN
  asm.at = "log" =>
    /\ Cardinality(TakenRefs) = Len(Context.hits) /\ Len(Context.hits) <= HitsTotal /\ Context.chars >= 0
    /\ TakenRefs \cap ShownNotes(asm.ranking) = {}
    /\ \A l \in Range(Context.loops) :
         \/ Left = 0 \/ l.ref \in asm.degraded \/ Cardinality(Taken(l.ref)) >= HitsPerLoop
         \/ Untaken(l) = {} \/ Crowded(l)
         \/ \E k \in Range(Context.loops) : \E h \in Untaken(k) : h.cost > Context.chars

\* ... and every worker that ran beside the main track is counted, under its spawner or
\* among the spawners left out, in the lines that the roll-up may take
\* (selectParallelSessions, buildWorkerRollup, renderWorkerRollup).
WorkersTold ==
  Done =>
    LET told == Sections.parallel.workers
        workers == {w \in Parallel(asm.sessions) : w.worker # NoWorker}
    IN  /\ Len(told.lines) + (IF told.more > 0 THEN 1 ELSE 0) <= RollupLines
        /\ Len(told.lines) + told.more = Cardinality({w.worker.spawner : w \in workers})
        /\ SumTo([i \in DOMAIN told.lines |-> told.lines[i].total])[Len(told.lines)]
             = Cardinality({w \in workers : \E e \in Range(told.lines) : e.spawner = w.worker.spawner})

\* Where the prompt leaves something out because of a limit, the limit is used up, and it
\* says how much it leaves out (assembleBootstrap).
LimitsHonest == LoopShare /\ WorkersTold

\* A loop about a task that is done does not come back.  The option that closes it says
\* "Auto-closes `kind: 'task'` loops whose `ref` names a done task" (open-loops.ts:52), but
\* it is asked about the active tasks only.
DoneStaysClosed == Done => \A l \in Range(Context.loops) : l.target \notin home.archived
=============================================================================
