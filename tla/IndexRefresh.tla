---------------------------- MODULE IndexRefresh ----------------------------
(***************************************************************************)
(* How the daemon keeps the session index fresh.                           *)
(*                                                                         *)
(* A watcher reports changed transcripts into the dirty set.  The backstop *)
(* poll triggers full passes, which a drain loop runs one after the other  *)
(* (RefreshScheduler.drain); a reader asks runNow for a delta pass before  *)
(* it reads.  Passes share one refresh lock with other processes, drain    *)
(* the dirty set once they hold it and put it back when they fail.         *)
(*                                                                         *)
(* All of this is one Node event loop: a promise that settles queues the   *)
(* code that awaited it, and that queue runs dry before the next timer or  *)
(* I/O event.  ready is that queue; every other event needs it empty.      *)
(***************************************************************************)
EXTENDS Naturals, Sequences, FiniteSets, SequencesExt

CONSTANTS
  Readers,   \* calls of runNow that may be open at once
  Changes,   \* transcript changes the watchers may report
  Runs,      \* passes that may exist at once
  NoRun,     \* "no pass"
  Drain,     \* the drain loop, where it waits behind a pass
  Other      \* another process holding the refresh lock

ASSUME DrainAssumption == Drain \notin Readers
ASSUME RunAssumption == NoRun \notin Runs /\ Other \notin Runs \cup {NoRun}

VARIABLES
  pending,    \* a full pass is asked for
  drainAt,    \* where the drain loop is; "off" is the flag running cleared
  held,       \* the machine-pressure gate holds passes back
  closed,     \* close() was called
  awaited,    \* the passes close() still waits for
  dbClosed,   \* close() is over and the database handle is gone
  executing,  \* the pass the scheduler tracks
  kind,       \* kind[i]: "full", "delta" or "none" when pass i does not run
  phase,      \* phase[i]: lock, waiting, work, tail
  taken,      \* taken[i]: changes pass i drained
  behind,     \* behind[i]: who awaits the end of pass i, in order
  failed,     \* a failed full pass left a backoff to wait out
  ready,      \* code whose promise has settled, in order
  lockedBy,   \* holder of the refresh lock
  dirty,      \* the dirty set
  reader,     \* reader[r]: idle, joined, behind
  joined,     \* joined[r]: the pass r waits for
  answer,     \* answer[r]: the last answer r got
  reported, indexed,      \* history: changes reported, changes in the index
  before, late,           \* history: what was reported before r called;
                          \*   whether r joined a pass that had drained already
  owed                    \* history: a trigger no full pass has started after

drainVars == <<pending, drainAt, held, failed, owed>>
closeVars == <<closed, awaited, dbClosed>>
passVars  == <<executing, kind, phase, taken, behind, lockedBy>>
readVars  == <<reader, joined, answer, before, late>>
dataVars  == <<dirty, reported, indexed>>
vars == <<drainVars, closeVars, passVars, readVars, dataVars, ready>>

Active == {i \in Runs : kind[i] # "none"}

----------------------------------------------------------------------------

\* The daemon triggers a first full pass as it starts; nothing ran before, so
\* the loop asks the gate at once.
Init ==
  /\ pending = TRUE /\ drainAt = "gate" /\ held = FALSE /\ failed = FALSE /\ owed = TRUE
  /\ closed = FALSE /\ awaited = {} /\ dbClosed = FALSE
  /\ executing = NoRun
  /\ kind = [i \in Runs |-> "none"] /\ phase = [i \in Runs |-> "none"]
  /\ taken = [i \in Runs |-> {}] /\ behind = [i \in Runs |-> <<>>]
  /\ ready = <<>> /\ lockedBy = NoRun
  /\ reader = [r \in Readers |-> "idle"] /\ joined = [r \in Readers |-> NoRun]
  /\ answer = [r \in Readers |-> "none"]
  /\ before = [r \in Readers |-> {}] /\ late = [r \in Readers |-> FALSE]
  /\ dirty = {} /\ reported = {} /\ indexed = {}

\* A timer or I/O event: nothing is queued.
Event == ready = <<>>

\* execute(): a new pass runs and is the one the scheduler tracks.
Execute(i, k) ==
  /\ kind[i] = "none"
  /\ executing' = i
  /\ kind' = [kind EXCEPT ![i] = k]
  /\ phase' = [phase EXCEPT ![i] = "lock"]
  /\ UNCHANGED <<taken, lockedBy>>

\* The watcher reports a change.
Report(c) ==
  /\ Event /\ ~closed /\ c \notin reported
  /\ reported' = reported \cup {c}
  /\ dirty' = dirty \cup {c}
  /\ UNCHANGED <<drainVars, closeVars, passVars, readVars, ready, indexed>>

(* The drain loop.                                                          *)

\* trigger(): the poll asks for a full pass.  A loop that runs already sees the
\* flag when its pass ends; otherwise one starts, inside the idle window or not.
Trigger ==
  /\ Event /\ ~closed
  /\ pending' = TRUE
  /\ owed' = TRUE
  /\ IF drainAt = "off" THEN drainAt' \in {"window", "gate"} ELSE UNCHANGED drainAt
  /\ UNCHANGED <<held, failed, closeVars, passVars, readVars, dataVars, ready>>

\* The idle window is over, or close() cut it short.
WindowEnds ==
  /\ Event /\ drainAt = "window"
  /\ drainAt' = IF closed THEN "off" ELSE "gate"
  /\ UNCHANGED <<pending, held, failed, owed, closeVars, passVars, readVars, dataVars, ready>>

\* The gate holds the pass back: it stays pending, and the gate is asked again
\* after a pause that close() cuts short.
GateHolds ==
  /\ Event /\ drainAt = "gate"
  /\ held' = TRUE
  /\ drainAt' = IF closed THEN "off" ELSE "gatePause"
  /\ UNCHANGED <<pending, failed, owed, closeVars, passVars, readVars, dataVars, ready>>

GatePauseEnds ==
  /\ Event /\ drainAt = "gatePause"
  /\ drainAt' = IF closed THEN "off" ELSE "gate"
  /\ UNCHANGED <<pending, held, failed, owed, closeVars, passVars, readVars, dataVars, ready>>

\* Mutant: the full pass starts beside the pass that is running.
StartFullOverlapping ==
  \/ closed /\ drainAt' = "off" /\ UNCHANGED <<passVars, owed>>
  \/ /\ ~closed /\ drainAt' = "full" /\ owed' = FALSE
     /\ \E i \in Runs : /\ Execute(i, "full")
                        /\ behind' = [behind EXCEPT ![i] = <<Drain>>]

\* Wait while a pass runs; then start the full pass unless close() came first.
StartFull ==
  \/ /\ executing # NoRun
     /\ drainAt' = "behind"
     /\ behind' = [behind EXCEPT ![executing] = Append(@, Drain)]
     /\ UNCHANGED <<executing, kind, phase, taken, lockedBy, owed>>
  \/ /\ executing = NoRun /\ closed
     /\ drainAt' = "off"
     /\ UNCHANGED <<passVars, owed>>
  \/ /\ executing = NoRun /\ ~closed
     /\ drainAt' = "full"
     /\ owed' = FALSE
     /\ \E i \in Runs : /\ Execute(i, "full")
                        /\ behind' = [behind EXCEPT ![i] = <<Drain>>]

\* The gate is open: the request is taken before the pass starts, so that a
\* trigger during the pass asks for another one.
GateOpens ==
  /\ Event /\ drainAt = "gate"
  /\ held' = FALSE
  /\ pending' = FALSE
  /\ StartFull
  /\ UNCHANGED <<failed, closeVars, readVars, dataVars, ready>>

\* Mutant: the request is cleared when the pass ends.
NextRoundClearing ==
  /\ drainAt' = "off"
  /\ pending' = FALSE

\* Another round when a trigger came meanwhile; it begins with the idle window.
NextRound ==
  /\ drainAt' = IF pending /\ ~closed THEN "window" ELSE "off"
  /\ UNCHANGED pending

BackoffEnds ==
  /\ Event /\ drainAt = "backoff"
  /\ NextRound
  /\ UNCHANGED <<held, failed, owed, closeVars, passVars, readVars, dataVars, ready>>

\* The drain loop goes on after the pass it awaited: behind another's pass it
\* looks again; after its own it waits out a backoff or ends the round.
DrainResumes ==
  /\ ready # <<>> /\ Head(ready) = Drain
  /\ ready' = Tail(ready)
  /\ failed' = FALSE
  /\ \/ /\ drainAt = "behind" /\ StartFull
        /\ UNCHANGED pending
     \/ /\ drainAt = "full" /\ failed /\ ~closed
        /\ drainAt' = "backoff"
        /\ UNCHANGED <<pending, owed, passVars>>
     \/ /\ drainAt = "full" /\ ~(failed /\ ~closed)
        /\ NextRound
        /\ UNCHANGED <<owed, passVars>>
  /\ UNCHANGED <<held, closeVars, readVars, dataVars>>

(* A pass.                                                                  *)

\* The pass has the lock and drains the dirty set.
Locked(i) ==
  /\ Event /\ phase[i] \in {"lock", "waiting"} /\ lockedBy = NoRun
  /\ lockedBy' = i
  /\ phase' = [phase EXCEPT ![i] = "work"]
  /\ taken' = [taken EXCEPT ![i] = dirty]
  /\ dirty' = {}
  /\ UNCHANGED <<executing, kind, behind, drainVars, closeVars, readVars, ready, reported, indexed>>

\* Another process holds the lock: a full pass waits and says so.
WaitsForLock(i) ==
  /\ Event /\ phase[i] = "lock" /\ kind[i] = "full" /\ lockedBy # NoRun
  /\ phase' = [phase EXCEPT ![i] = "waiting"]
  /\ UNCHANGED <<executing, kind, taken, behind, lockedBy, drainVars, closeVars, readVars, dataVars, ready>>

\* The readers that joined pass i learn whether it indexed.
AnswerJoined(i, a) ==
  LET waiting == {r \in Readers : reader[r] = "joined" /\ joined[r] = i} IN
  /\ reader' = [r \in Readers |-> IF r \in waiting THEN "idle" ELSE reader[r]]
  /\ answer' = [r \in Readers |-> IF r \in waiting THEN a ELSE answer[r]]
  /\ joined' = [r \in Readers |-> IF r \in waiting THEN NoRun ELSE joined[r]]
  /\ UNCHANGED <<before, late>>

\* A pass reads each file as it finds it: all it drained is in the index now, and
\* of what was reported since, whatever it happened to see.  (A full pass visits
\* the other transcripts too, but skips the sealed ones nobody handed it.)
Indexes(i) ==
  \E seen \in SUBSET dirty : indexed' = indexed \cup taken[i] \cup seen

\* A delta pass has committed what it drained and goes on to the episodes.
Indexed(i) ==
  /\ Event /\ phase[i] = "work" /\ kind[i] = "delta"
  /\ Indexes(i)
  /\ phase' = [phase EXCEPT ![i] = "tail"]
  /\ AnswerJoined(i, "fresh")
  /\ UNCHANGED <<executing, kind, taken, behind, lockedBy, drainVars, closeVars, ready, dirty, reported>>

\* Mutant: only the first of those who await the end of a pass goes on.
AwokenFirst(i) == IF behind[i] = <<>> THEN <<>> ELSE <<Head(behind[i])>>

\* Who goes on when pass i is over, in the order they began to wait.
Awoken(i) == behind[i]

\* Pass i is over: its lock is free, the scheduler forgets it, and those who
\* awaited its end run next.
Over(i) ==
  /\ kind' = [kind EXCEPT ![i] = "none"]
  /\ phase' = [phase EXCEPT ![i] = "none"]
  /\ taken' = [taken EXCEPT ![i] = {}]
  /\ behind' = [behind EXCEPT ![i] = <<>>]
  /\ executing' = IF executing = i THEN NoRun ELSE executing
  /\ lockedBy' = IF lockedBy = i THEN NoRun ELSE lockedBy
  /\ awaited' = awaited \ {i}
  /\ ready' = Awoken(i)
  /\ UNCHANGED <<closed, dbClosed>>

Succeeds(i) ==
  /\ Event
  /\ \/ phase[i] = "tail" /\ UNCHANGED indexed
     \/ phase[i] = "work" /\ kind[i] = "full" /\ Indexes(i)
  /\ Over(i)
  /\ AnswerJoined(i, "fresh")
  /\ UNCHANGED <<drainVars, dirty, reported>>

\* Mutant: what a failed pass drained is not put back.
RestoredNothing(i) == dirty

\* DirtySet.restore: what the pass drained waits again.
Restored(i) == dirty \cup taken[i]

\* An error anywhere in the pass, or the abort of close() at a yield point.
Fails(i) ==
  /\ Event /\ i \in Active
  /\ dirty' = Restored(i)
  /\ failed' = (failed \/ kind[i] = "full")
  /\ Over(i)
  /\ AnswerJoined(i, "stale")
  /\ UNCHANGED <<pending, drainAt, held, owed, reported, indexed>>

\* ELOCKED: a delta pass never waits, a full pass ran out of retries and asks
\* for another round.
LockSkipped(i) ==
  /\ Event /\ lockedBy # NoRun
  /\ \/ phase[i] = "lock" /\ kind[i] = "delta"
     \/ phase[i] = "waiting"
  /\ pending' = (pending \/ kind[i] = "full")
  /\ failed' = (failed \/ kind[i] = "full")
  /\ Over(i)
  /\ AnswerJoined(i, "stale")
  /\ UNCHANGED <<drainAt, held, owed, dataVars>>

(* A reader.                                                                *)

Answer(r, a) ==
  /\ answer' = [answer EXCEPT ![r] = a]
  /\ reader' = [reader EXCEPT ![r] = "idle"]
  /\ joined' = [joined EXCEPT ![r] = NoRun]

Join(r, i) ==
  /\ reader' = [reader EXCEPT ![r] = "joined"]
  /\ joined' = [joined EXCEPT ![r] = i]
  /\ UNCHANGED answer

\* Start a delta pass and wait for it to index.
StartDelta(r) ==
  \E i \in Runs : /\ Execute(i, "delta") /\ Join(r, i)
                  /\ UNCHANGED behind

\* Mutant: a pass past its index step is joined whatever waits undrained.
MustFollowNever == FALSE

\* hasUndrained: changes wait that a pass past its index step has not seen.
MustFollow == dirty # {}

\* ensure(): nothing to index and nothing running is fresh; a held gate or a
\* pass stuck behind another process's lock is stale; a pass that has not
\* indexed yet is joined; a pass that has, while changes wait, is waited out.
Call(r) ==
  /\ Event /\ ~closed /\ reader[r] = "idle"
  /\ before' = [before EXCEPT ![r] = reported]
  /\ late' = [late EXCEPT ![r] = executing # NoRun /\ phase[executing] = "work"]
  /\ \/ /\ dirty = {} /\ drainAt = "off" /\ executing = NoRun
        /\ Answer(r, "fresh")
        /\ UNCHANGED passVars
     \/ /\ ~(dirty = {} /\ drainAt = "off" /\ executing = NoRun)
        /\ \/ /\ held \/ (executing # NoRun /\ phase[executing] = "waiting")
              /\ Answer(r, "stale")
              /\ UNCHANGED passVars
           \/ /\ ~held /\ executing = NoRun
              /\ StartDelta(r)
           \/ /\ ~held /\ executing # NoRun /\ phase[executing] \in {"lock", "work"}
              /\ Join(r, executing)
              /\ UNCHANGED passVars
           \/ /\ ~held /\ executing # NoRun /\ phase[executing] = "tail" /\ ~MustFollow
              /\ Answer(r, "fresh")
              /\ UNCHANGED passVars
           \/ /\ ~held /\ executing # NoRun /\ phase[executing] = "tail" /\ MustFollow
              /\ reader' = [reader EXCEPT ![r] = "behind"]
              /\ behind' = [behind EXCEPT ![executing] = Append(@, r)]
              /\ UNCHANGED <<executing, kind, phase, taken, lockedBy, joined, answer>>
  /\ UNCHANGED <<drainVars, closeVars, dataVars, ready>>

ReaderMayFollow == ~closed

\* A reader goes on after the pass it waited out: another pass that started
\* meanwhile is joined, else it starts a delta pass of its own.
ReaderResumes(r) ==
  /\ ready # <<>> /\ Head(ready) = r
  /\ ready' = Tail(ready)
  /\ \/ /\ ~ReaderMayFollow
        /\ Answer(r, "stale")
        /\ UNCHANGED passVars
     \/ /\ ReaderMayFollow /\ executing # NoRun
        /\ Join(r, executing)
        /\ UNCHANGED passVars
     \/ /\ ReaderMayFollow /\ executing = NoRun
        /\ StartDelta(r)
  /\ UNCHANGED <<before, late, drainVars, closeVars, dataVars>>

\* The budget is spent: the reader reads what there is.
Expires(r) ==
  /\ Event /\ reader[r] # "idle"
  /\ Answer(r, "stale")
  /\ behind' = [i \in Runs |-> Remove(behind[i], r)]
  /\ UNCHANGED <<executing, kind, phase, taken, lockedBy, before, late, drainVars, closeVars,
                 dataVars, ready>>

(* close() and the other processes.                                         *)

Tracked == {executing} \ {NoRun}

\* The hook is uninstalled, the poll and the watchers stop, timers are cut
\* short and the passes see the abort signal; then close waits.
Close ==
  /\ Event /\ ~closed
  /\ closed' = TRUE
  /\ pending' = FALSE
  /\ awaited' = Tracked
  /\ UNCHANGED <<drainAt, held, failed, owed, dbClosed, passVars, readVars, dataVars, ready>>

CloseEnds ==
  /\ Event /\ closed /\ ~dbClosed
  /\ awaited = {} /\ drainAt = "off"
  /\ dbClosed' = TRUE
  /\ UNCHANGED <<closed, awaited, drainVars, passVars, readVars, dataVars, ready>>

OtherLocks ==
  /\ Event /\ lockedBy = NoRun
  /\ lockedBy' = Other
  /\ UNCHANGED <<executing, kind, phase, taken, behind, drainVars, closeVars, readVars, dataVars, ready>>

OtherUnlocks ==
  /\ Event /\ lockedBy = Other
  /\ lockedBy' = NoRun
  /\ UNCHANGED <<executing, kind, phase, taken, behind, drainVars, closeVars, readVars, dataVars, ready>>

----------------------------------------------------------------------------

PassStep(i) ==
  \/ Locked(i) \/ WaitsForLock(i) \/ Indexed(i) \/ Succeeds(i) \/ Fails(i) \/ LockSkipped(i)

DrainStep ==
  \/ WindowEnds \/ GateHolds \/ GatePauseEnds \/ GateOpens \/ BackoffEnds \/ DrainResumes

Next ==
  \/ \E c \in Changes : Report(c)
  \/ Trigger
  \/ DrainStep
  \/ \E i \in Runs : PassStep(i)
  \/ \E r \in Readers : Call(r) \/ ReaderResumes(r) \/ Expires(r)
  \/ Close \/ CloseEnds
  \/ OtherLocks \/ OtherUnlocks

Spec == Init /\ [][Next]_vars

\* The event loop runs what is due: timers fire, promises settle, a pass that
\* runs ends one way or the other.  Nothing is assumed of the poll, the gate, the
\* other processes, or of how a pass ends.
FairSpec ==
  /\ Spec
  /\ WF_vars(DrainStep)
  /\ \A i \in Runs : WF_vars(PassStep(i))
  /\ \A r \in Readers : WF_vars(ReaderResumes(r)) /\ WF_vars(Expires(r))
  /\ WF_vars(CloseEnds)

----------------------------------------------------------------------------
(* Properties                                                               *)

\* Type invariant: every variable holds a value of its kind (the two queues,
\* ready and behind, are typed by what reads them).
TypeOK ==
  /\ {pending, held, closed, dbClosed, failed, owed} \subseteq BOOLEAN
  /\ drainAt \in {"off", "window", "gate", "gatePause", "behind", "full", "backoff"}
  /\ awaited \subseteq Runs
  /\ executing \in Runs \cup {NoRun}
  /\ kind \in [Runs -> {"none", "full", "delta"}]
  /\ phase \in [Runs -> {"none", "lock", "waiting", "work", "tail"}]
  /\ taken \in [Runs -> SUBSET Changes]
  /\ DOMAIN behind = Runs
  /\ lockedBy \in Runs \cup {NoRun, Other}
  /\ dirty \subseteq Changes /\ reported \subseteq Changes /\ indexed \subseteq Changes
  /\ reader \in [Readers -> {"idle", "joined", "behind"}]
  /\ joined \in [Readers -> Runs \cup {NoRun}]
  /\ answer \in [Readers -> {"none", "fresh", "stale"}]
  /\ before \in [Readers -> SUBSET Changes]
  /\ late \in [Readers -> BOOLEAN]

\* The scheduler never runs two passes at once, whether the poll, a reader or a
\* reader that waited another pass out starts them ...
OnePass == Cardinality(Active) <= 1

\* ... and when close() is over no pass works on the database any more.
ClosedQuiet == dbClosed => Active = {}

\* Passes run in turn, and none outlives the database (refreshNow, drain, close).
PassesInTurn == OnePass /\ ClosedQuiet

\* A change the watcher reported is in the index, waits in the dirty set, or is
\* in the hands of a pass that will index it or put it back ...
ChangesKept ==
  \A c \in reported : c \in indexed \/ c \in dirty \/ \E i \in Active : c \in taken[i]

\* ... and a trigger that lands while a pass runs is not swallowed: until a full pass
\* starts after it, the request stays pending or the loop is about to serve it.
TriggersKept == owed => pending \/ drainAt = "behind" \/ closed

\* Neither a failed pass, a lock held elsewhere nor a pass in progress swallows a
\* change or a request (restoreDirty, drain, runFullPass).
NothingSwallowed == ChangesKept /\ TriggersKept

\* A reader that is told "fresh" reads every change reported before it asked,
\* unless it joined a pass that had drained the dirty set already.
FreshCovers ==
  \A r \in Readers : answer[r] = "fresh" /\ reader[r] = "idle" /\ ~late[r] => before[r] \subseteq indexed

\* runNow answers every reader, and close() comes to an end.
CallsEnd ==
  /\ \A r \in Readers : reader[r] # "idle" ~> reader[r] = "idle"
  /\ closed ~> dbClosed

\* A change is indexed in the end if full passes succeed again and again, however
\* many passes of either kind fail or find the lock held in between.
ChangesIndexed ==
  []<><<\E i \in Runs : kind[i] = "full" /\ Succeeds(i)>>_vars
    => \A c \in Changes : c \in reported ~> c \in indexed

=============================================================================
