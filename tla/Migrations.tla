----------------------------- MODULE Migrations -----------------------------
(***************************************************************************)
(* The migrations of the active root, v1 -> v2 -> v3 -> v4, as `setup`     *)
(* runs the whole pending chain and `migrate --apply` one step of it.  The *)
(* version is stamped after the last write of the last step, so that a run *)
(* which is killed starts again from the first: every step must bear being *)
(* run over data it has already changed.  Nothing else writes meanwhile.   *)
(***************************************************************************)
EXTENDS Naturals, Sequences

CONSTANTS
  Slugs,     \* the initiatives, in the order in which they are walked
  Archived,  \* those in an archive: only v1 -> v2 goes there
  Labels,    \* labels of worktrees; a label stands for its path too
  Covered,   \* initiatives with an entry in the proposal
  Dead,      \* those whose entry holds a loop that is dead on arrival
  Misfiled,  \* the known repairs that are due before v3: "retrack", "relocate"
  Versions,  \* versions that a root may have at the start
  Commands,  \* the commands run: "setup", "migrate"
  MaxKills   \* runs that are killed (a bound)

Initiatives == {Slugs[n] : n \in DOMAIN Slugs}
Active == Initiatives \ Archived

\* What is written for the root as a whole is written after the initiatives.
Root == "root"
Position(i) == IF i = Root THEN Len(Slugs) + 1 ELSE CHOOSE n \in DOMAIN Slugs : Slugs[n] = i

CURRENT_VERSION == 4
NoVersion == 0                  \* .schema-version is missing
TornVersion == CURRENT_VERSION + 1  \* it is there, and empty

ASSUME MigrationAssumption ==
  /\ \A m, n \in DOMAIN Slugs : Slugs[m] = Slugs[n] => m = n
  /\ Root \notin Initiatives /\ Archived \subseteq Initiatives /\ Dead \subseteq Covered
  /\ Covered \cap Archived = {}
  /\ Versions \subseteq NoVersion..CURRENT_VERSION
  /\ Misfiled \subseteq {"retrack", "relocate"}
  /\ Commands \subseteq {"setup", "migrate"} /\ MaxKills \in Nat

VARIABLES
  stamp,      \* .schema-version
  artifacts,  \* artifacts[i]: whether it is malformed, has the keys of v1, and its worktrees
  brief,      \* brief[i]: the worktrees it still holds, whether some have no path, and whether its
              \* task_seq or a repair is "due", is "done", or "blocked" by the schema
  sessions,   \* sessions[i]: the synthetic sessions that are there, "open" and "abandon"
  handoff,    \* handoff[i]: whether handoff.md is there
  archive,    \* archive[i]: sources/handoff-archive.md, "none", "torn" or "whole"
  logged,     \* the initiatives whose dropped PRs are in .migrations.log
  repairs,    \* the known repairs that can be made: of the others, the file is not there,
              \* is as it should be, or is left to the operator
  process,    \* the command, how far it is in the chain, and what it has still to write
  unread,     \* a history: <<version, i>> for what the step to a version has passed over in this
              \* run, unable to list or read it, and <<NoVersion, i>> if it took artifacts.yml for empty
  kills       \* runs killed so far

data == <<artifacts, brief, sessions, handoff, archive, logged, repairs>>
migrationVars == <<stamp, data, process, unread, kills>>

NoProcess == [command |-> "none", cursor |-> CURRENT_VERSION, todo |-> {}, dropped |-> {}]

----------------------------------------------------------------------------
(* What each step sets out to write, as pairs <<operation, initiative>>.    *)

\* Mutant: the handoff is removed before it is copied.
RankSwapped ==
  [artifacts |-> 1, open |-> 1, abandon |-> 2, seq |-> 3, copy |-> 5, copied |-> 6, remove |-> 4,
   merge |-> 1, strip |-> 2, log |-> 1, retrack |-> 1, relocate |-> 2, logmoved |-> 1, stamp |-> 1, stamped |-> 2]

\* The order of the writes of one initiative in a step.
Rank ==
  [artifacts |-> 1, open |-> 1, abandon |-> 2, seq |-> 3, copy |-> 4, copied |-> 5, remove |-> 6,
   merge |-> 1, strip |-> 2, log |-> 1, retrack |-> 1, relocate |-> 2, logmoved |-> 1, stamp |-> 1, stamped |-> 2]

Precedes(v, w) ==
  \/ Position(v[2]) < Position(w[2])
  \/ v[2] = w[2] /\ Rank[v[1]] < Rank[w[1]]

ArtifactsPlan(passed) == ({"artifacts"} \X (Initiatives \ passed)) \cup {<<"log", Root>>}

\* The sessions that an entry of the proposal is made into.
Synthetic(i) == {kind \in {"open", "abandon"} : i \in IF kind = "open" THEN Covered ELSE Dead}

\* Mutant: an initiative with one of its sessions is taken to have both.
SessionPlanAny(i) == IF sessions[i] = {} THEN Synthetic(i) ELSE {}

\* A session that is there is skipped; each is looked for on its own.
SessionPlan(i) == Synthetic(i) \ sessions[i]

\* An archive that is there already is not ours to overwrite.
ArchiveHandoff(i) == IF handoff[i] /\ archive[i] = "none" THEN {"copy", "copied", "remove"} ELSE {}

\* A brief that the schema refuses is skipped.
BriefPlan(i) == IF brief[i].backfill = "due" THEN {"seq"} ELSE {}

\* What the proposal says of an initiative is written in any case, for an entry
\* without its initiative stops the run.
OpenLoopsPlan(passed) ==
  {w \in (DOMAIN Rank) \X Active :
     \/ w[1] \in SessionPlan(w[2])
     \/ w[2] \notin passed /\ w[1] \in BriefPlan(w[2]) \cup ArchiveHandoff(w[2])}
  \cup {w \in repairs \X {Root} : Root \notin passed}

WorktreesPlan(passed) == ({"merge", "strip"} \X (Active \ passed)) \cup {<<"logmoved", Root>>}

StampPlan == {"stamp", "stamped"} \X {Root}

----------------------------------------------------------------------------
(* The commands.                                                            *)

\* What a step looks at.  It passes over, without a word, what it cannot list, find
\* or read there: an initiative, its artifacts.yml, its tasks and handoff, its brief.
Reach(cursor) ==
  CASE cursor = 1 -> Initiatives
    [] cursor = 2 -> Active \cup {Root}
    [] cursor = 3 -> Active
    [] OTHER -> {}

Plan(cursor, passed) ==
  CASE cursor = 1 -> ArtifactsPlan(passed)
    [] cursor = 2 -> OpenLoopsPlan(passed)
    [] cursor = 3 -> WorktreesPlan(passed)
    [] OTHER -> StampPlan

Started(command, cursor, passed) ==
  [command |-> command, cursor |-> cursor, todo |-> Plan(cursor, passed), dropped |-> {}]

\* A run that has passed over this much already sets out on a step.
Begin(command, cursor, before) ==
  \E passed \in SUBSET Reach(cursor) :
    /\ process' = Started(command, cursor, passed)
    /\ unread' = before \cup ({cursor + 1} \X passed)

Level(version) == IF version = NoVersion THEN CURRENT_VERSION ELSE version

\* ensureSchemaVersion: a root without a version is new; one with a torn version is refused.
StartSetup ==
  /\ process.command = "none" /\ "setup" \in Commands
  /\ stamp < CURRENT_VERSION
  /\ Begin("setup", Level(stamp), {})
  /\ UNCHANGED <<stamp, data, kills>>

\* One step, v2 -> v3, whatever the version it is run on, which is checked first.
StartMigrate ==
  /\ process.command = "none" /\ "migrate" \in Commands
  /\ stamp = CURRENT_VERSION - 1
  /\ Begin("migrate", 2, {})
  /\ UNCHANGED <<stamp, data, kills>>

\* The proposal may be unreadable, or name an initiative that is not here, and a brief
\* may be past reading: v2 -> v3 then stops before it has written anything.
RejectProposal ==
  /\ process.command # "none" /\ process.todo = {} /\ process.cursor = 1
  /\ process' = NoProcess
  /\ UNCHANGED <<stamp, data, unread, kills>>

\* The next step of the chain; the stamp comes after the last.
NextStep ==
  /\ process.command # "none" /\ process.todo = {} /\ process.cursor < CURRENT_VERSION
  /\ LET cursor == IF process.command = "setup" THEN process.cursor + 1 ELSE CURRENT_VERSION
     IN  Begin(process.command, cursor, unread)
  /\ UNCHANGED <<stamp, data, kills>>

Finish ==
  /\ process.command # "none" /\ process.todo = {} /\ process.cursor = CURRENT_VERSION
  /\ process' = NoProcess
  /\ UNCHANGED <<stamp, data, unread, kills>>

----------------------------------------------------------------------------
(* One write of a step.                                                     *)

Due(op, i) == <<op, i>> \in process.todo /\ \A w \in process.todo : ~Precedes(w, <<op, i>>)
After(op, i) == [process EXCEPT !.todo = @ \ {<<op, i>>}]
Write(op, i) == Due(op, i) /\ process' = After(op, i)

\* A malformed file and one without the keys of v1 are left; any other loses its
\* PRs, which are only remembered.
MigrateArtifacts(i) ==
  /\ Due("artifacts", i)
  /\ LET old == artifacts[i].old /\ ~artifacts[i].garbled
     IN  /\ process' = [After("artifacts", i) EXCEPT !.dropped = IF old THEN @ \cup {i} ELSE @]
         /\ artifacts' = IF old THEN [artifacts EXCEPT ![i].old = FALSE] ELSE artifacts
  /\ UNCHANGED <<stamp, brief, sessions, handoff, archive, logged, repairs, unread, kills>>

AppendLog ==
  /\ Write("log", Root) /\ logged' = logged \cup process.dropped
  /\ UNCHANGED <<stamp, artifacts, brief, sessions, handoff, archive, repairs, unread, kills>>

WriteSession(i) ==
  /\ \E kind \in {"open", "abandon"} : Write(kind, i) /\ sessions' = [sessions EXCEPT ![i] = @ \cup {kind}]
  /\ UNCHANGED <<stamp, artifacts, brief, handoff, archive, logged, repairs, unread, kills>>

\* The brief is written as the schema reads it, which knows nothing of worktrees.
WriteBrief(i) ==
  /\ Write("seq", i)
  /\ brief' = [brief EXCEPT ![i] = [@ EXCEPT !.backfill = "done", !.worktrees = {}, !.pathless = FALSE]]
  /\ UNCHANGED <<stamp, artifacts, sessions, handoff, archive, logged, repairs, unread, kills>>

\* copyFile, of which a kill may leave a part, and then rm.
CopyHandoff(i) ==
  /\ \/ Write("copy", i) /\ archive' = [archive EXCEPT ![i] = "torn"]
     \/ Write("copied", i) /\ archive' = [archive EXCEPT ![i] = "whole"]
  /\ UNCHANGED <<stamp, artifacts, brief, sessions, handoff, logged, repairs, unread, kills>>

RemoveHandoff(i) ==
  /\ Write("remove", i) /\ handoff' = [handoff EXCEPT ![i] = FALSE]
  /\ UNCHANGED <<stamp, artifacts, brief, sessions, archive, logged, repairs, unread, kills>>

\* A session is given a track that the schema knows; a file that is none is moved away.
Repair ==
  /\ \E repair \in {"retrack", "relocate"} : Write(repair, Root) /\ repairs' = repairs \ {repair}
  /\ UNCHANGED <<stamp, artifacts, brief, sessions, handoff, archive, logged, unread, kills>>

\* A swept worktree at the path is given the name; otherwise an entry is added,
\* and the schema refuses a second entry with a name.  A file that is malformed, or
\* fails to be read, is taken for an empty one, and replaced.  An entry without a
\* path is dropped.
Registered(i) == IF artifacts[i].garbled THEN {} ELSE artifacts[i].named
Found(i, fails) == [named |-> IF fails THEN {} ELSE Registered(i),
                    observed |-> IF fails \/ artifacts[i].garbled THEN {} ELSE artifacts[i].observed]
Merged(i, found) ==
  [garbled |-> FALSE, old |-> FALSE,
   named |-> found.named \cup brief[i].worktrees, observed |-> found.observed \ brief[i].worktrees]
Doubled(i, found) == brief[i].worktrees \cap found.named

MergeWorktrees(i) ==
  /\ Write("merge", i)
  /\ \/ brief[i].worktrees = {} /\ UNCHANGED <<artifacts, unread>>
     \/ \E fails \in BOOLEAN :
          /\ brief[i].worktrees # {} /\ Doubled(i, Found(i, fails)) = {}
          /\ artifacts' = [artifacts EXCEPT ![i] = Merged(i, Found(i, fails))]
          /\ unread' = unread \cup {w \in {<<NoVersion, i>>} : fails}
  /\ UNCHANGED <<stamp, brief, sessions, handoff, archive, logged, repairs, kills>>

RefuseMerge(i) ==
  /\ Due("merge", i) /\ Doubled(i, Found(i, FALSE)) # {}
  /\ process' = NoProcess
  /\ UNCHANGED <<stamp, data, unread, kills>>

StripBrief(i) ==
  /\ Write("strip", i) /\ brief' = [brief EXCEPT ![i] = [@ EXCEPT !.worktrees = {}, !.pathless = FALSE]]
  /\ UNCHANGED <<stamp, artifacts, sessions, handoff, archive, logged, repairs, unread, kills>>

LogMoved == Write("logmoved", Root) /\ UNCHANGED <<stamp, data, unread, kills>>

\* writeSchemaVersion: a plain writeFile, which empties the file first.
WriteStamp ==
  /\ \/ Write("stamp", Root) /\ stamp' = TornVersion
     \/ Write("stamped", Root) /\ stamp' = CURRENT_VERSION
  /\ UNCHANGED <<data, unread, kills>>

\* A kill; or a read or a write that fails as the code does not expect, which stops the run.
Kill ==
  /\ process.command # "none" /\ kills < MaxKills
  /\ kills' = kills + 1 /\ process' = NoProcess
  /\ UNCHANGED <<stamp, data, unread>>
----------------------------------------------------------------------------
\* What a root of a version may hold of an initiative: the keys of v1, then the
\* handoff, then worktrees in the brief.
Blank == [garbled |-> FALSE, old |-> FALSE, named |-> {}, observed |-> {}]
PlainBrief == [worktrees |-> {}, pathless |-> FALSE, backfill |-> "done"]
Holdings ==
  [artifacts : [garbled : BOOLEAN, old : BOOLEAN, named : SUBSET Labels, observed : SUBSET Labels],
   brief : [worktrees : SUBSET Labels, pathless : BOOLEAN, backfill : {"done", "due", "blocked"}],
   sessions : SUBSET {"open", "abandon"}, handoff : BOOLEAN]
Possible(version, i) ==
  {h \in Holdings :
    /\ h.artifacts.garbled => h.artifacts = [Blank EXCEPT !.garbled = TRUE]
    /\ h.artifacts.old => version = 1 /\ h.artifacts.named \cup h.artifacts.observed = {}
    /\ h.handoff => version \in 1..2 /\ i \notin Archived
    /\ h.brief.worktrees # {} \/ h.brief.pathless => version \in 1..3
    /\ h.brief.backfill = "due" => version \in 1..2
    /\ i \in Archived => h.brief = PlainBrief
    /\ h.artifacts.named \cap (h.brief.worktrees \cup h.artifacts.observed) = {}
    /\ h.sessions = IF version \in 1..2 \/ i \notin Covered THEN {}
                    ELSE {"open"} \cup {kind \in {"abandon"} : i \in Dead}}

MigrationsInit ==
  /\ stamp \in Versions
  /\ \E root \in [Initiatives -> UNION {Possible(Level(stamp), i) : i \in Initiatives}] :
       /\ \A i \in Initiatives : root[i] \in Possible(Level(stamp), i)
       /\ artifacts = [i \in Initiatives |-> root[i].artifacts]
       /\ brief = [i \in Initiatives |-> root[i].brief]
       /\ sessions = [i \in Initiatives |-> root[i].sessions]
       /\ handoff = [i \in Initiatives |-> root[i].handoff]
  /\ archive = [i \in Initiatives |-> "none"] /\ logged = {}
  /\ repairs = IF Level(stamp) < 3 THEN Misfiled ELSE {}
  /\ process = NoProcess /\ unread = {} /\ kills = 0

MigrationsNext ==
  \/ StartSetup \/ StartMigrate \/ RejectProposal \/ NextStep \/ Finish \/ Kill
  \/ AppendLog \/ Repair \/ LogMoved \/ WriteStamp
  \/ \E i \in Initiatives :
       \/ MigrateArtifacts(i)
       \/ WriteSession(i) \/ WriteBrief(i) \/ CopyHandoff(i) \/ RemoveHandoff(i)
       \/ MergeWorktrees(i) \/ RefuseMerge(i) \/ StripBrief(i)

----------------------------------------------------------------------------
(* Properties.                                                              *)

\* What a root owes to the steps up to a version, but for what has been passed over.
MigratedBut(version, passed) ==
  /\ \A i \in Initiatives :
       /\ version >= 2 => artifacts[i].garbled \/ ~artifacts[i].old \/ <<2, i>> \in passed
       /\ version >= 3 /\ i \notin Archived =>
            /\ i \in Covered => "open" \in sessions[i]
            /\ i \in Dead => "abandon" \in sessions[i]
            /\ brief[i].backfill # "due" \/ <<3, i>> \in passed
            /\ handoff[i] => archive[i] # "none" \/ <<3, i>> \in passed
       /\ version >= 4 => (brief[i].worktrees = {} /\ ~brief[i].pathless) \/ <<4, i>> \in passed
  /\ version >= 3 => repairs = {} \/ <<3, Root>> \in passed

Migrated(version) == MigratedBut(version, unread)

\* Wherever a run is killed and whatever is run again, a handoff is there until all of it
\* is in the archive, which no later run overwrites (archiveHandoff, planHandoff); a named
\* worktree of artifacts.yml stays there, unless v3 -> v4 failed to read the file; and one
\* of a brief goes to artifacts.yml before it leaves the brief, unless the backfill of
\* v2 -> v3 rewrites the brief, which loses it (the order of the two writes of v3 -> v4).
MigrationKeeps ==
  [][\A i \in Initiatives :
       /\ handoff[i] \/ archive[i] = "whole" => handoff'[i] \/ archive'[i] = "whole"
       /\ Registered(i) \subseteq Registered(i)' \/ <<NoVersion, i>> \in unread'
       /\ \/ brief[i].worktrees \subseteq Registered(i)' \cup brief'[i].worktrees
          \/ brief[i].backfill = "due" /\ brief'[i].backfill = "done"]_migrationVars

\* However often it was killed before, a setup that stamps the version has taken the data
\* through every step, but for what the same run could not list, find or read and for the
\* briefs that the schema refuses.  (Steps that skip what an earlier run has written.)
SetupMigrates ==
  [][process.command = "setup" /\ stamp' = CURRENT_VERSION => Migrated(CURRENT_VERSION)]_stamp

\* A version that is stamped has been reached: no step of the chain is left behind it.
\* The comment in `migrate` states this of its own step (src/commands/migrate.ts:153).
StampMeansMigrated == stamp <= CURRENT_VERSION => Migrated(stamp)
=============================================================================
