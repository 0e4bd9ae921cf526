----------------------------- MODULE FocusList -----------------------------
(***************************************************************************)
(* The focused list: the initiatives whose brief says state "focused",     *)
(* ordered by rank.  focus, unfocus, pause, unpause and new change it.     *)
(*                                                                         *)
(* They do not follow the discipline of TaskStore's commands.  Each first  *)
(* reads every brief, one file after another and without any lock, then    *)
(* decides, then takes the locks of the initiatives it will change in      *)
(* sorted order, and writes back the whole briefs it read at the start,    *)
(* with the new state and rank.  new takes no lock at all.                 *)
(*                                                                         *)
(* The processes here run beside those of TaskStore on the same files.     *)
(***************************************************************************)
EXTENDS TaskStore, FiniteSetsExt

CONSTANTS
  Focusers,       \* processes that run the commands of this module
  FocusCommands,  \* which of them they run
  Ranks,          \* ranks a focus command may name
  StartLists      \* initial lists: initiative -> [state, rank]

\* There are finitely many initiatives: one has the highest number.
ASSUME SlugsBounded == \E n \in Slugs \cup {0} : \A s \in Slugs : s <= n
ASSUME FocuserAssumption == Focusers \cap Procs = {} /\ NoProc \notin Focusers
\* A list starts as commands that run one by one leave it.
ASSUME StartAssumption ==
  \A l \in StartLists : \A s, t \in Slugs :
    /\ l[s].state \in States /\ l[s].rank \in Nat
    /\ l[s].state = "focused" /\ l[t].state = "focused" /\ s # t => l[s].rank # l[t].rank
ASSUME RankAssumption == Ranks \subseteq Nat \ {0}
ASSUME FocusCommandAssumption ==
  FocusCommands \subseteq {"focus", "unfocus", "pause", "unpause", "new"}

VARIABLES
  at,       \* at[f]: where process f is
  fjob,     \* fjob[f]: its command, what it read, what it has yet to lock and write
  overlap   \* history: two commands of this module overlapped, or one died

fvars == <<at, fjob, overlap>>

\* locks: initiatives still to be locked; writes: briefs still to be written, each with
\* its initiative.
IdleFocus == [cmd |-> "none", slug |-> 0, rank |-> 0,
              seen |-> [s \in {} |-> BlankBrief], locks |-> {}, writes |-> {}]

FInit ==
  /\ \E l \in StartLists :
       InitWith([s \in Slugs |-> [BlankBrief EXCEPT !.state = l[s].state,
                                                    !.rank = l[s].rank]])
  /\ at = [f \in Focusers |-> "idle"]
  /\ fjob = [f \in Focusers |-> IdleFocus]
  /\ overlap = FALSE

----------------------------------------------------------------------------
(* A command starts and reads every brief.                                  *)

\* focus names a rank or leaves it out (0).
FBegin(f, c, s, r) ==
  /\ at[f] = "idle" /\ f \notin dead /\ ops < MaxOps
  /\ r \in Ranks => c = "focus"
  /\ c = "new" => brief[s].state = "absent"
  /\ fjob' = [fjob EXCEPT ![f] = [IdleFocus EXCEPT !.cmd = c, !.slug = s, !.rank = r]]
  /\ at' = [at EXCEPT ![f] = "load"]
  /\ overlap' = (overlap \/ \E g \in Focusers \ {f} : at[g] # "idle")
  /\ ops' = ops + 1
  /\ UNCHANGED <<brief, tasks, lock, dead, pc, job, issued, acked>>

\* loadAllBriefs and computeNextRank read the briefs one by one, in the order
\* readdir lists the directories, and take no lock.
FLoad(f) ==
  /\ at[f] = "load"
  /\ \E s \in Slugs \ DOMAIN fjob[f].seen :
       fjob' = [fjob EXCEPT ![f].seen =
                  [t \in DOMAIN @ \cup {s} |-> IF t = s THEN brief[s] ELSE @[t]]]
  /\ UNCHANGED <<vars, at, overlap>>

\* The whole list has been read and command c can be decided.
Loaded(f, c) ==
  at[f] = "load" /\ fjob[f].cmd = c /\ DOMAIN fjob[f].seen = Slugs

----------------------------------------------------------------------------
(* What a command decides from the briefs it read.                          *)

Focused(seen) == {s \in DOMAIN seen : seen[s].state = "focused"}

RanksOf(seen, S) == {seen[s].rank : s \in S}

\* The write that gives initiative s a state and a rank, on the brief as read.
Rewrite(seen, s, state, rank) ==
  [slug |-> s, brief |-> [seen[s] EXCEPT !.state = state, !.rank = rank]]

\* The place of s among the initiatives S when they are sorted by rank.
PlaceOf(seen, S, s) ==
  Cardinality({t \in S : \/ seen[t].rank < seen[s].rank
                         \/ seen[t].rank = seen[s].rank /\ t <= s})

Plan(f, locks, writes) ==
  /\ fjob' = [fjob EXCEPT ![f].locks = locks, ![f].writes = writes]
  /\ at' = [at EXCEPT ![f] = "lock"]

\* NotFoundError or UsageError: the command ends and has changed nothing.
Refuse(f) ==
  /\ fjob' = [fjob EXCEPT ![f] = IdleFocus]
  /\ at' = [at EXCEPT ![f] = "idle"]

\* Mutant: the initiative already at the wanted rank keeps it.
ShiftedBelowOnly(rank, desired) == IF rank > desired THEN rank + 1 ELSE rank

Shifted(rank, desired) == IF rank >= desired THEN rank + 1 ELSE rank

\* focus: at the end of the list, or at the rank asked for, with the others at
\* that rank and below moved down.
FocusDecide(f) ==
  LET j == fjob[f]
      others == Focused(j.seen) \ {j.slug}
      desired == IF j.rank = 0 THEN Max(RanksOf(j.seen, others) \cup {0}) + 1
                               ELSE j.rank
      target(s) == IF s = j.slug THEN desired ELSE Shifted(j.seen[s].rank, desired)
      changed == {j.slug} \cup {s \in others : target(s) # j.seen[s].rank}
  IN
  /\ Loaded(f, "focus")
  /\ IF j.seen[j.slug].state = "absent" \/ j.rank > Cardinality(others) + 1
     THEN Refuse(f)
     ELSE Plan(f, changed, {Rewrite(j.seen, s, "focused", target(s)) : s \in changed})
  /\ UNCHANGED <<vars, overlap>>

\* unfocus and pause: the initiative leaves the list and the others are
\* numbered 1, 2, ... in the order of their ranks.
LeaveList(f, state) ==
  LET j == fjob[f]
      others == IF j.seen[j.slug].state = "focused" THEN Focused(j.seen) \ {j.slug} ELSE {}
      place(s) == PlaceOf(j.seen, others, s)
      moved == {s \in others : place(s) # j.seen[s].rank}
  IN Plan(f, {j.slug} \cup moved,
          {Rewrite(j.seen, j.slug, state, 0)}
            \cup {Rewrite(j.seen, s, "focused", place(s)) : s \in moved})

UnfocusDecide(f) ==
  /\ Loaded(f, "unfocus")
  /\ IF fjob[f].seen[fjob[f].slug].state = "focused"
     THEN LeaveList(f, "backburner")
     ELSE Refuse(f)
  /\ UNCHANGED <<vars, overlap>>

PauseDecide(f) ==
  /\ Loaded(f, "pause")
  /\ IF fjob[f].seen[fjob[f].slug].state # "absent"
     THEN LeaveList(f, "paused")
     ELSE Refuse(f)
  /\ UNCHANGED <<vars, overlap>>

UnpauseDecide(f) ==
  LET j == fjob[f] IN
  /\ Loaded(f, "unpause")
  /\ IF j.seen[j.slug].state = "paused"
     THEN Plan(f, {j.slug}, {Rewrite(j.seen, j.slug, "backburner", 0)})
     ELSE Refuse(f)
  /\ UNCHANGED <<vars, overlap>>

\* new: the end of the list; a fresh brief, written without a lock.
NewDecide(f) ==
  LET j == fjob[f]
      rank == Max(RanksOf(j.seen, Focused(j.seen)) \cup {0}) + 1
  IN
  /\ Loaded(f, "new")
  /\ Plan(f, {}, {[slug |-> j.slug,
                   brief |-> [BlankBrief EXCEPT !.state = "focused", !.rank = rank]]})
  /\ UNCHANGED <<vars, overlap>>

----------------------------------------------------------------------------
(* applyLocked: the locks in sorted order, the writes, the locks back.      *)

\* Mutant: the locks are taken in the order the changes were found.
NextLockAny(f, s) == s \in fjob[f].locks

NextLock(f, s) == s \in fjob[f].locks /\ \A t \in fjob[f].locks : s <= t

FLock(f) ==
  /\ at[f] = "lock"
  /\ \E s \in Slugs :
       /\ NextLock(f, s) /\ Takeable(s)
       /\ lock' = [lock EXCEPT ![s] = f]
       /\ fjob' = [fjob EXCEPT ![f].locks = @ \ {s}]
  /\ UNCHANGED <<brief, tasks, dead, pc, job, ops, issued, acked, at, overlap>>

\* The wait for one of the locks timed out: nothing is written.
FGiveUp(f) ==
  /\ at[f] = "lock"
  /\ \E s \in Slugs : NextLock(f, s) /\ lock[s] # NoProc
  /\ fjob' = [fjob EXCEPT ![f].locks = {}, ![f].writes = {}]
  /\ UNCHANGED <<vars, at, overlap>>

\* focus writes in the order of the names; the others first the initiative that
\* leaves, which has no rank, and the rest in the order of their new ranks.
NextWrite(f, w) ==
  /\ w \in fjob[f].writes
  /\ \A v \in fjob[f].writes :
       IF fjob[f].cmd = "focus" THEN w.slug <= v.slug ELSE w.brief.rank <= v.brief.rank

\* One brief is replaced by the copy read at the start, with its new state and
\* rank.
FWrite(f) ==
  /\ at[f] = "lock" /\ fjob[f].locks = {}
  /\ \E w \in fjob[f].writes :
       /\ NextWrite(f, w)
       /\ brief' = [brief EXCEPT ![w.slug] = w.brief]
       /\ fjob' = [fjob EXCEPT ![f].writes = @ \ {w}]
  /\ UNCHANGED <<tasks, lock, dead, pc, job, ops, issued, acked, at, overlap>>

Held(f) == {s \in Slugs : lock[s] = f}

\* The locks are released innermost first, whether the writes succeeded or not.
FUnlock(f) ==
  /\ at[f] = "lock" /\ fjob[f].locks = {} /\ fjob[f].writes = {}
  /\ \E s \in Held(f) :
       /\ \A t \in Held(f) : t <= s
       /\ lock' = [lock EXCEPT ![s] = NoProc]
  /\ UNCHANGED <<brief, tasks, dead, pc, job, ops, issued, acked, fvars>>

FEnd(f) ==
  /\ at[f] = "lock" /\ fjob[f].locks = {} /\ fjob[f].writes = {} /\ Held(f) = {}
  /\ at' = [at EXCEPT ![f] = "idle"]
  /\ fjob' = [fjob EXCEPT ![f] = IdleFocus]
  /\ UNCHANGED <<vars, overlap>>

FCrash(f) ==
  /\ at[f] # "idle" /\ Cardinality(dead) < MaxCrashes
  /\ dead' = dead \cup {f}
  /\ at' = [at EXCEPT ![f] = "idle"]
  /\ fjob' = [fjob EXCEPT ![f] = IdleFocus]
  /\ overlap' = TRUE
  /\ UNCHANGED <<brief, tasks, lock, pc, job, ops, issued, acked>>

----------------------------------------------------------------------------

FStep(f) ==
  \/ FLoad(f)
  \/ FocusDecide(f) \/ UnfocusDecide(f) \/ PauseDecide(f) \/ UnpauseDecide(f)
  \/ NewDecide(f)
  \/ FLock(f) \/ FWrite(f) \/ FUnlock(f) \/ FEnd(f)

FNext ==
  \/ Next /\ UNCHANGED fvars
  \/ \E f \in Focusers :
       \/ \E c \in FocusCommands, s \in Slugs, r \in Ranks \cup {0} : FBegin(f, c, s, r)
       \/ FStep(f)
       \/ FGiveUp(f)
       \/ FCrash(f)

allVars == <<vars, fvars>>

FSpec == FInit /\ [][FNext]_allVars

FFairSpec ==
  /\ FSpec
  /\ \A p \in Procs : WF_allVars(Step(p) /\ UNCHANGED fvars)
  /\ \A f \in Focusers : WF_allVars(FStep(f))

----------------------------------------------------------------------------
(* Properties                                                               *)

\* Type invariant of what decides who waits for whom: the locks, the dead, and where
\* each process is.
FTypeOK ==
  /\ lock \in [Slugs -> Procs \cup Focusers \cup {NoProc}]
  /\ dead \subseteq Procs \cup Focusers
  /\ DOMAIN pc = Procs /\ DOMAIN job = Procs
  /\ at \in [Focusers -> {"idle", "load", "lock"}]
  /\ DOMAIN fjob = Focusers
  /\ \A f \in Focusers : {"slug", "locks"} \subseteq DOMAIN fjob[f] /\ fjob[f].locks \subseteq Slugs
  /\ \A f \in Focusers : at[f] # "idle" => fjob[f].slug \in Slugs
  /\ \A p \in Procs : "slug" \in DOMAIN job[p] /\ (pc[p] # "idle" => job[p].slug \in Slugs)

\* The live processes that wait for initiative s's lock while another holds it.
WaitsFor(h, s) ==
  \/ h \in Procs /\ pc[h] = "wait" /\ job[h].slug = s
  \/ h \in Focusers /\ at[h] = "lock" /\ NextLock(h, s)

\* No set of processes waits on each other in a circle: the sorted order in
\* which a command takes several locks rules it out.
NoWaitCycle ==
  \A H \in (SUBSET (Procs \cup Focusers)) \ {{}} :
    \E h \in H : \A s \in Slugs : WaitsFor(h, s) => lock[s] \notin H \ {h}

\* No two initiatives of a list share a rank.
RanksDistinct(list) ==
  \A s, t \in Focused(list) : s # t => list[s].rank # list[t].rank

\* after is the list as command j was asked to leave it: no two focused initiatives
\* share a rank and the others keep their order; a focused initiative gets the rank
\* asked for, or the end of the list; and once a focused initiative leaves, the ranks
\* are 1, 2, ... without gaps.
AsAsked(j, after) ==
  LET seen == j.seen
      others == Focused(seen) \ {j.slug}
      comes == j.cmd \in {"focus", "new"}
      leaves == j.cmd \in {"unfocus", "pause"} /\ j.slug \in Focused(seen)
  IN
  /\ RanksDistinct(after)
  /\ Focused(after) = IF comes THEN others \cup {j.slug} ELSE others
  /\ \A s, t \in others : seen[s].rank < seen[t].rank <=> after[s].rank < after[t].rank
  /\ comes => IF j.rank # 0 THEN after[j.slug].rank = j.rank
              ELSE \A s \in others : after[s].rank < after[j.slug].rank
  /\ leaves => RanksOf(after, others) = 1..Cardinality(others)

\* The step that writes the last brief of a command on the list.
LastWrite(f) ==
  /\ at[f] = "lock" /\ fjob[f].locks = {}
  /\ fjob[f].writes # {} /\ fjob'[f].writes = {}

\* A command that ran alone did to the list what it was asked, whatever the task
\* commands did to the same briefs meanwhile (applyLocked of focus.ts, unfocus.ts,
\* pause.ts, and new.ts, which takes no lock).
FocusExact ==
  [][\A f \in Focusers : LastWrite(f) /\ ~overlap' => AsAsked(fjob[f], brief')]_allVars

\* A task number is never given out twice, with commands on the list running
\* beside task.add and task.delete (README.md: "monotonic and never reused").
IdsNeverReissuedBeside ==
  [][\A s \in Slugs :
       \A i \in DOMAIN tasks'[s] \ Live(s) : i \notin issued[s]]_allVars

\* Every command on the list that starts ends, without help from the lock
\* timeout.
FocusCommandsEnd == \A f \in Focusers : at[f] # "idle" ~> at[f] = "idle"

=============================================================================
