# A verification of active-work

`active-work` (the `aw` and `active-work` commands, and the daemon behind its MCP
server) keeps a registry of work initiatives as plain files: one directory per
initiative with a brief, tasks, session records, notes and recorded git state. There
is no database server and no owner process: every command is a process of its own, and
agents, a launcher, a dashboard and a daemon run them side by side. What holds the
registry together is a handful of small protocols: a lock file, whole-file
replacement, high-water marks, derived rather than stored state, watermarks over files
that others write, a pid file, and one scheduler. This directory models those protocols
in TLA+, checks them with TLC, and proves the most important results with TLAPS.

Contents:

1. [The system](#1-the-system): components, state, operations, what is hard
2. [The modules](#2-the-modules) and how they correspond to the code
3. [The runs](#3-the-runs): what is checked, within which bounds, under which fairness
4. [The proofs](#4-the-proofs)
5. [Disagreements found](#5-disagreements-found)
6. [What is not modelled](#6-what-is-not-modelled-and-why)
7. [The plan](#7-the-plan)

Paths below are relative to the repository; code paths start at `src/`.

## 1. The system

### Components

| Component | State | Operations | Where | Modules |
|---|---|---|---|---|
| File primitives | lock file `<slug>/.lock`, temporary files | `withFileLock`, `atomicWrite` | `src/utils/fs-atomic.ts` | part of every module that locks |
| Task store | `brief.md` with `task_seq`, `tasks/<ID>.yml` | `task.add/delete/done/edit/reorder`, `set`, `touch` | `src/commands/task-*.ts`, `src/utils/task-seq.ts` | `TaskStore`, `IdAllocator` |
| Focused list | `state` and `rank` in every brief | `focus`, `unfocus`, `pause`, `unpause`, `new` | `src/commands/focus.ts`, `_focus-helpers.ts` | `FocusList` |
| Task apply, edge index | plans over several initiatives, parents and dependencies | `task.apply`, the edge checks of `task.edit` | `src/commands/_task-apply-*.ts`, `src/tasks/edge-index.ts` | `TaskPlans` |
| Wrap and session files | `sessions/*.md`, `sources/notes/*.md`, `artifacts.yml`, `brief.updated` | `wrap`, `session.recover` | `src/commands/wrap.ts`, `src/sessions/`, `src/wrap/sweep.ts` | `SessionLedger` |
| Open loops | none of their own: derived from the session files | `loop.open`, `loop.resolve`, `loops` | `src/sessions/open-loops.ts`, `loop-ledger.ts` | `SessionLedger`, `Bootstrap` |
| Session leases, launcher | one lease file per running session | `acquireLease`, `readLiveLeases`, `withLauncherLease` | `src/sessions/lease.ts`, `launcher-lease.ts` | `Leases` |
| Bootstrap prompt | none; a log of retrieval hits | `open`, `prompt` | `src/commands/open.ts`, `src/bootstrap/` | `Bootstrap` |
| Session index refresh | dirty set, drain loop, passes, refresh lock, in one event loop | `trigger`, `runNow`, `close`, the poll | `src/session-index/scheduler.ts`, `refresh.ts`, `freshness.ts` | `IndexRefresh` |
| Index contents | rows, watermarks, roll-ups, episodes, preserved rows | full, delta and rebuilding passes | `src/session-index/` | `SessionGraph`, `Transcripts` |
| Workspace index | rows, spans and edges of the registry's own files | a pass, a rebuild | `src/workspace-index/` | `WorkspaceIndex` |
| Drain miner | log, counters, clustering trees, reader positions | `miner drain-ingest` | `src/drain/` | `Drain`, `Transcripts` |
| Daemon life cycle | pid file, port, supervisor definition | `mcp serve/stop/restart/status` | `src/server/`, `src/commands/mcp-*.ts` | `DaemonHost` |
| Setup and uninstall | the pieces they install, the supervisor | `setup`, `uninstall`, part of `doctor` | `src/setup/`, `src/commands/setup.ts`, `uninstall.ts` | `Setup` |
| Migrations | `.schema-version`, the layout of every initiative | `setup`, `migrate` | `src/migrations/`, `src/commands/migrate.ts` | `Migrations` |
| Agent-chat hooks | one stashed context per peer | `hooks agent-chat-spawn/complete` | `src/commands/hooks-*.ts`, `src/utils/agent-chat-hook-state.ts` | `AgentHooks` |
| HTTP and MCP surface, dashboard | none | dispatch and rendering | `src/server/`, `src/dashboard/` | |
| Moves of initiatives | whole directories | `archive`, `rename`, `drop`, `fold` | `src/commands/` | |
| Artifacts, sources, facets, deliverables | one file each | add, set, prune | `src/commands/` | |
| Search, decider, discover, lint, reader gate | none to speak of | queries, reports, a pause | various | |

### How they interact

- **Shared files under one lock per initiative.** Almost every writer takes
  `withFileLock(getLockPath(slug))`, reads, decides, writes with `atomicWrite` and
  releases in `finally`. Readers take no lock. The lock is a file created exclusively,
  it counts as stale after 10 s, and a waiter gives up after its timeout.
- **Reads outside the lock.** The focus commands read all briefs before they lock and
  then write back whole what they read; `task.apply` reads the edge index before it
  locks any initiative, and `task.edit` reads the other initiatives without their locks;
  the bootstrap reads everything without a lock; `fold`, `archive` and `rename` do not
  lock at all.
- **Derivation.** Open loops are recomputed from all session files on every read, so a
  session file that appears or disappears opens or closes loops of other files. The two
  indexes and the miner derive rows and counts from files that other programs write, and
  remember by watermarks what they have seen of them.
- **Callbacks.** In the daemon the watcher reports changes, the poll triggers full
  passes, and readers (`freshness.ts`) call `runNow` with a budget; all share the
  scheduler's fields between awaits.
- **Reads that fail.** Most readers take what they cannot list or read for something that is not there: a lease, a
  directory of tasks, a stashed context, an initiative to migrate. The models have these outcomes, and the properties say which of
  them they except.
- **Processes that come and go.** Leases are written by sessions, and swept by whichever
  bootstrap reads them. The daemon is started by hand, by a supervisor, by `restart` and by
  `setup`, and found by its pid file only. agent-chat calls each hook as a process of
  its own.

### What is hard, and what makes each part correct

| Part | Hard behaviour | Correct when |
|---|---|---|
| Task store | interleaved read-modify-write, deaths between two writes, lock take-over | a number is never issued twice, no acknowledged edit is lost, a reorder changes the order as asked and nothing else, every command ends |
| Focused list | stale reads, several locks at once, ranks at the boundary | no circular wait, commands run one at a time leave the list exactly as asked, every command ends |
| Task plans | an index that the disk leaves behind, failed writes, re-runs | no cycle comes from a check that saw the truth, a plan lands once and as a whole |
| Session ledger | failures between the writes of a wrap, roll-back by path, colliding names, equal and future timestamps | reported closes hold, reported files stay, closes form no circle, the latest statement wins, one record per recovered session |
| Leases | a reader judges, then unlinks by path; recycled process ids; signals and kills | a live session keeps its lease and is seen, a dead one's lease goes |
| Bootstrap | a prompt put together from reads at different moments, budgets, lists that hit their limit | it says of loops and branches what was so, and how much it leaves out |
| Index refresh | a reader and the poll at once, failing passes, shutdown in the middle | one pass at a time, no change or trigger lost, "fresh" is true, `close` is final |
| Session graph, workspace index | kills between transactions, rebuilds, files that vanish and return | the index converges on the files, rows that cannot be derived again survive, nothing is there twice |
| Miner | four files written one after the other, deaths between and inside the writes, two passes at once | nothing that clustered is missing below a watermark, a pass alone counts nothing twice |
| Daemon, setup | late removals of the pid file, reused process ids, wizards that break off | the pid file finds the daemon, status does not deny it, success means that every piece is there, a removed daemon stays away |
| Migrations | kills between any two writes, then a run from the first step; files a step passes over | no handoff and no worktree is lost by a kill or a second run, a stamp means migrated |
| Agent-chat hooks | hooks of parent and child, and two completions of one peer, beside each other | a peer is recorded once, under the session that spawned it |

`PROJECT.json` lists the hazards line by line, with the properties that cover them and
the reason where none does.

## 2. The modules

Every module has one action per step that another process, a failure or a death could
fall between. Reading several files under the lock is one step, because every writer of
those files holds the same lock; every write is a step of its own, because a process may
die after it. Variables marked *history* in the modules are not in the code: properties
need them to speak of the past.

A definition named `...Any`, `...Never`, `...Unseen` and the like, with a comment that
starts with `Mutant`, is not part of a model: it is the form that a plausible bug would give to the
definition after it, and the property that must catch it is listed beside it in
`PROJECT.json`.

### IdAllocator and TaskStore

`TaskStore` is the task store. `brief[s]` is the frontmatter of an initiative (`state`,
`rank`, `seq` for `task_seq`, and the edits it carries), `tasks[s]` the task files by
number, `lock[s]` the lock file's owner. A process picks a command (`Begin`), takes the
lock when it is free or its holder died (`Acquire`, `Takeable`), or gives up (`GiveUp`),
walks through the reads and writes of its command, and releases. `AddAllocate` is
`allocateTaskNumber` (the larger of the mark and the highest file, plus one) with the
brief's write, `AddWrite` the task file. `DeleteBump` and `DeleteUnlink` are the two
writes of `task.delete`; the first is needed only for the highest number. `ReorderRead`,
`ReorderShift` and `ReorderTarget` are the file-by-file writes of `task.reorder`. `SetWrite` is `set` of a field other than `state`,
`rank` and `task_seq`: the edit it leaves is what others may lose.
`Crash` may strike anywhere and leaves the lock behind.

`IdAllocator` is what the store promises: numbers are issued and removed and a number
issued once is not issued again. The property `ImplementsAllocator` is the refinement
(`INSTANCE IdAllocator WITH live <- ...`).

A task is its priority, its status and the set of edits it carries. Titles, categories
and deliverables are left out; parents and dependencies are in `TaskPlans`.

### FocusList

`FocusList` extends `TaskStore` on the same briefs and locks, so that its five commands
run beside task commands. `FLoad` reads one brief after another without a lock,
`FocusDecide` and its siblings compute the shifts from what was read (`Plan`), `FLock`
takes the locks in slug order, `FWrite` writes one brief as read plus the change. What the code sorts
is given here by what sorting does: the new rank of an initiative is its place among those that stay (`PlaceOf`), and
the writes still to be made are a set of which `NextWrite` names the next, by name for `focus`, the leaver first and
then by new rank for the others. A list starts with distinct ranks (`StartAssumption`), as
commands that run one after another leave it.

### TaskPlans

Tasks with a parent, dependencies, tags and notes. An edit reads the edge index under the
lock of its own initiative (`ReadTask`, `EditRefused`) and writes (`WriteTask`). A plan
loads one initiative after another, file by file and with no lock at all (`LoadTask`), then takes each
initiative's lock in turn (`Enter`), works out what its lines make of each task (`TaskRun`, a
function along the lines, and `Operated`, one along the operations of a line), checks the result against the index it keeps
(`LineRefused`, `Refused`: parents, dependencies, tasks that are not there or filed
twice), writes task by task (`ApplyTask`; a task that is not there is reported, which is no failure) and takes back the index, not the files, when a
write fails (`RolledBack`). `KillCall` may come anywhere, and a plan may be started again.
`crossed` and `overtaken` are histories: something was written on an index that the disk
had left behind, in another initiative or in the same one. `tagged` is one too: a tag of the old form, which stands for a
dependency (`DepOf`), was added; nothing checks that edge. `base` remembers the tasks from which one plan has had the root
for itself, and whether a run of it has ended well since; an edit or another plan that writes ends it, and a run that
refuses a line and yet writes the others of that task makes it start over.

### SessionLedger

`sessions` maps the name of a session file to its ledger (`opens`, `resolves`, `ended`,
`track`), `notes` the note files, `updated` the brief's date, `artifacts` the recorded
git state. The derivation is written as the code has it: `Closes` is `classifyResolve`
(a resolve counts only for a known loop of another session that ended strictly
earlier), `ClosedBy` the single pass of `applyResolves` over the files in name order,
`OpenLoops` is `deriveOpenLoopsFrom`.

A wrap goes `WrapSession`, `StampBrief`, `FileNote` once per note, `RecordGit`,
`Receipt`; `StampFails`, `NoteFails` and `RecordFails` are its three error paths, and
`Undo` removes one file after the other as the `Promise.all` of `wrap.ts` does. The set of files to
undo is what the `catch` block knows: the session file alone when `fileNotes` threw.
`Receipt` reports as applied the resolves that the derivation counts. `LoopOpen`,
`FindLoop` and `CloseLoop`, `FindTranscript` and `WriteRecovered`, and `NoteAdd` are the
other writers; `FindLoop` and `FindTranscript` are the reads under the lock, with the
early errors.

A file name is a record of the minute, the session id and the suffix that
`pickAvailableFilename` adds; `Sorts` is the order in which `readdir(...).sort()` lists
such names (`S-1.md` before `S.md`). Time counts units within a minute, so that two
sessions can share an instant or a minute. All notes are of one day.

### Leases

Two kinds of session (`aw` with a launcher lease, `open` with a oneshot lease) write, run
under and release a lease; a reader lists the files, judges each (`LooksLive`: age, process
id, command name), and unlinks those it thinks dead. `file[l]` is `none`, `torn` (created
but still empty) or `whole`, because `acquireLease` uses a plain `writeFile`. `pid[l]`
says who has the process id now. A reader may fail to list the directory (`Lists`: it then knows of no lease at all), to read a file or
to look up a name (`Judges`: the lease is then no live one, and goes), or to unlink (`Unlinks`). `blame`, a history, holds the leases of
sessions that start or run which some reader took for dead (`Mistakes`).

### Bootstrap

`open` and `prompt`. `ArchiveRead` and `ArchiveMove` are the archiving on the way; then one read after
another, each a step beside which others write (`Meanwhile`): `List` and `LoadFile` for
tasks and sessions, `ReadRest` for brief and notes. A directory that cannot be listed reads as empty (`ListFails`), a move to the
archive that fails is skipped (`ArchiveSkips`), and a file that cannot be read is named in the prompt (`Unreadable`). `OpenLoops` is the ledger over what was read, with
`TargetClosed` for loops that close with their task. `ListRepoPrs` is the bulk list of pull
requests with its limit, `BranchPr` the query for one branch, `GitStart` and `GitStatus` the
lanes of git calls, `Probe` the siblings, `RankNotes` the fused ranking of notes.
`QueryLoop` and `AllocateOne` are `relatedForLoops`: candidates for each loop, then rounds that
give every loop one hit after another out of a total and a character budget. `Related` is `relatedContext`: the search
answers with a page as long as the limit and the exclusions (`Page`), and what is excluded or an archived handoff (`served`)
drops out of that page. `Sections` is what the prompt
holds in the end. A hit costs its characters; a rendered line is one member of a sequence. What is sorted is given by what
sorting does (`InOrder`), any order among equals.
`seen` is history: the loops open, and the loops whose task is done, ever since the assembly began, those a
session had closed before, and the branches with, or without, a pull request all the time. A loop may also be closed
all the time for one reason after another, by its task first and by a session when the task is taken up again; an assembly
that reads sessions before and tasks after shows it as open, and nothing promises that it does not.

### Transcripts, Drain and SessionGraph

`Transcripts` is the world that two components only read: files to which Claude Code
appends lines, which it rewrites and prunes, and which backups bring back. `gen` tells texts apart.
What a reader has still to visit is a set, of which `First` is next in the order of discovery, and
`Foremost` cuts a set to a limit; lists of work that only shrink are sets with a next member in the other modules too
(`Turn` and `Soonest` in `WorkspaceIndex`, `Due` and `After` in `Migrations`).

`Drain` is a pass of the miner. `StartPass` loads the state, `Skip` and `ReadTranscript`
visit a file from its resume point (`From`: the watermark, or the start if the file has shrunk or its
hash has changed), carrying over the open calls (`Newest`, at most `MaxPending`), and `FlushLog`,
`FlushTemplates`, `FlushTrees`, `SaveState` are the four writes. `PassDies` may come between
any of them, and two miners may run at once. A result that fails to cluster is passed over, since the pass notes the error and its watermark
goes on (`ReadTranscript`; `missed` is the history of such results). `FlushBreaks` is an append to the log that a death or a full disk cuts
short: the last line may be torn (`store.cut`), and the next one that is appended runs into it and is lost (`Spoilt`).

`SessionGraph` is what a pass writes into SQLite. `Visit` brings one transcript up to date
in a transaction (new lines, a rewound watermark, a garbled or a missing file), `RollUp` ends turns,
`Episodes` rebuilds what touches changed sessions. `StartRebuild` copies what cannot be derived
again, `ResetIndex` empties the tables, `ReplayPreserved` puts the copies back. `Sealed` is the rule
by which transcripts of retired agents are not visited. `Abort` and `Kill` may come anywhere;
transactions make a step atomic.

### IndexRefresh

One event loop, one scheduler. `ready` is the queue of code whose promise has settled:
nothing else happens while it is not empty (`Event`), as in the microtask queue.
`drainAt` is where the drain loop of `scheduler.ts` is, `executing` the pass it tracks,
`kind`, `phase` and `taken` the passes, `behind[i]` who awaits pass `i`, in order. The drain
loop waits out its window, the pressure gate (`GateHolds`, `GatePauseEnds`, `GateOpens`), a
delta pass, its own pass and the backoff. A pass
goes `Locked` or `WaitsForLock`, `Indexes`, `Indexed`, `Over`, or `Fails` and puts its
changes back (`Restored`). `Call`, `Join`, `StartDelta`, `ReaderResumes` and `Expires`
are `runNow` and `freshness.ts`; `Close` and `CloseEnds` the shutdown; `OtherLocks` and
`OtherUnlocks` another process at the refresh lock. What a pass does to the rows is
`SessionGraph` and `WorkspaceIndex`; here it is one step that indexes what was drained.

### WorkspaceIndex

`root` is the registry's own files (there or not, one stamp for size and time, the text),
`mark`, `rows`, `spans` and `edges` the tables. A pass lists everything (`Scan`), reads a batch
file by file (`NextBatch`, `ReadFile`), writes it in one transaction (`ApplyBatch`), purges what has
vanished, file by file and each in three deletions of their own (`PurgeRow`, `PurgeSpans`, `ForgetMark`), and derives all edges again
(`CollectFacts`, `RebuildEdges`). A rebuild resets in two steps, `ResetShared` and `ResetOwn`.
A directory that cannot be listed and a file that cannot be asked for its size are met as missing (`ScanMisses`), and their rows are purged; a
file, or the body of a note, that cannot be read fails or is empty (`ReadFails`, `CollectMisses`).
`whole` is history: nothing has happened that watermarks cannot notice (a file brought back with its
old stamp over other contents or over nothing, a kill between the two resets, or one between the deletions of a
file that is back as its watermark has it).

### DaemonHost and Setup

`proc[p]` is the process numbered `p`: its stage, its port, whether the supervisor started it,
whether it was told to end. A daemon goes `Refuse` or `Bind`, `File`, `Watch`, and on SIGTERM `Term`,
`CloseSocket`, `Leave`; `RemovePidFile` removes the entry only when it still names the
caller's pid. `Respawn` is the supervisor. `stop`, `restart` and `status` start with the pid they read
(`Call`) and go on with it: `StopFound`, `Awaited` (the process is gone, or the grace period is
over), `Unfile`, `Spawn`, `ConfirmAlive`, `ConfirmAsk`, `StatusFound`, `StatusProbe`. A number may
be used again, though not while the pid file or a command remembers it (`Fresh`).

`status` asks the port and is answered, or is not although a daemon is there (`StatusProbe`: "unheard"), as the probe is null on any failure.

`Setup` adds the two wizards to that host. The copied skill (`Skills`) is `partial` while its `SKILL.md` is not there, `cut` when that file is
there and others are not: `stepInstallSkill` and the doctor look at that file only (`Marked`), so a copy, or a removal, that broke off behind
it is taken for the skill. `Scaffold` is the steps before the supervisor,
of which any may be the last; `WriteDefinition`, `Reload`, `Enable`, `StartDaemon` the rest
of setup; `RemoveFiles`, `Unsupervise` (the supervisor unloads), `Undefine` (its definition is removed), `StopDaemon`, `DaemonStopped`, `Unregister` is
uninstall. Each may fail or be declined, `Interrupt` may end either, and `Doctor` is the checks of
what setup wires up. In `DaemonHost` alone the supervisor may be told anything at any time; in
`Setup` only the wizard tells it.

### Migrations

What a root holds of an initiative as far as a step reads or writes it, and a process with
the writes it has still to do. `ArtifactsPlan`, `OpenLoopsPlan`, `WorktreesPlan` and `StampPlan`
are the writes of the steps in their order, computed when a step begins, as the code plans before it
applies; each write is an action (`MigrateArtifacts`, `WriteSession`, `WriteBrief`, `Repair`, `CopyHandoff`,
`RemoveHandoff`, `MergeWorktrees`, `StripBrief`, `WriteStamp` and so on), and `Kill` may come
between any two. `StartSetup` runs the chain, `StartMigrate` the one step that the command runs.

A brief holds worktrees, some of which may have no path; its `task_seq`, or a repair of its fields, is `due`, `done`, or `blocked` by what the schema refuses.
`WriteBrief` writes it as the schema reads it, which knows no worktrees. A step passes over what it cannot list, find or read (`Reach`,
`Begin`), and goes on to the stamp: `unread` is the history of what the present run has passed over. `Found` is `artifacts.yml` as v3 → v4 reads it, empty if
it fails to.

### AgentHooks

One process per call of a hook. `PeekParent` and `Stash` are on_spawn, `TakeRead`,
`TakeRemove` and `Wrap` on_complete, whose two calls for one peer may overlap. `Resolve` finds the
initiative from the directory, `WorkerRecord` validates the facts of a report. A context that cannot be read is taken for none (`PeekParent`, `TakeRead`),
and on_complete removes the file all the same. agent-chat itself
(`Spawn`, `Exit`, `Report`) is external.

## 3. The runs

Passing runs:

| Run | Instance | Distinct states | Properties |
|---|---|---|---|
| `task_store` | 2 processes, 1 initiative, any 4 commands, 1 death, up to 2 tasks at the start | 645,318 | `NoLostEdit`, `IdsNeverReissued`, `ImplementsAllocator`, `ReorderExact`, `CommandsEnd` |
| `focus_list` | 2 focus processes, 1 beside them, 3 initiatives, 3 start lists, 1 death | 282,511 | `NoWaitCycle`, `FocusExact`, `FocusCommandsEnd` |
| `session_ledger` | 2 processes, any 3 commands, 2 wraps, 2 transcripts, 1 death, failures anywhere | 1,374,524 | `ResolutionSound`, `AckedClosesHold`, `FilesKept`, `OnlyOpenLoopsResolved`, `RecoveredOnce` |
| `leases` | 2 sessions, 1 reader that scans again and again and may fail | 734,772 | `LiveLeaseKept`, `SeesRunning`, `GhostsGo` |
| `index_refresh` | 2 readers, 2 passes at a time, 1 change, another process, close | 180,906 | `PassesInTurn`, `NothingSwallowed`, `FreshCovers`, `CallsEnd`, `ChangesIndexed` |
| `daemon_host` | 2 process numbers, 2 ports, 1 terminal, every kind and state of supervisor, 1 run of a wizard | 1,047,869 | `Findable`, `StatusTruthful`, `WizardTruthful`, `ShutdownEnds` |
| `batch` | 2 transcripts and 2 miners; or a root of 2 initiatives at any version; or 2 peers | 6,305,248 | `CountersExact`, `MigrationKeeps`, `SetupMigrates`, `PeersRecorded`, `ParentsTrue` |
| `session_graph` | a transcript and its subagent's, 2 lines each, 1 rewrite, 2 changes or interruptions | 290,226 | `RowsOnce`, `WalkSettles`, `HistoryKept`, `LinesIndexed` |
| `workspace` | 3 files; or 2 processes with edits and plans over 2 initiatives; or a prompt from 6 starts | 2,155,299 | `Converged`, `EdgesAcyclic`, `PlanLands`, `LiveTruthful`, `LoopsHonest`, `LimitsHonest` |

What the less obvious properties say:

- `NoLostEdit`: an acknowledged edit is on disk as long as its file is. `ReorderExact`: a
  finished reorder leaves the target alone at the priority asked for, the siblings that were above that place above it, those at or below it behind it, and all of
  them in the order they had. Before its last write, wherever it dies, only priorities have moved, the target stands at its old
  place or the new one, and no sibling has passed another.
- `FocusExact`: as long as commands on the list do not overlap, its ranks are distinct and it
  changes exactly as asked, whatever task commands run beside, `set` of other fields than `state`, `rank` and `task_seq` among them.
- `ResolutionSound`: a loop counts as resolved exactly if some later session says so, the
  latest such statement is the one reported, and sessions do not close each other in a circle.
- `FreshCovers`: a reader told "fresh" reads every change reported before it asked, unless it
  joined a pass that had drained already ([section 5](#5-disagreements-found)).
- `LiveLeaseKept`: a running session keeps its lease until the age limit, unless a reader met
  the file torn, could not read it, or failed to look the command up. `SeesRunning`: a scan that could list the directory reports every
  session that ran from its start to its end, unless some reader made one of these mistakes about it. `GhostsGo`: if scans that can list and unlink
  come again and again, a dead session's lease goes.
- `Findable`: the pid file names each daemon that answers and was not told to stop, unless two daemons on
  two ports have crossed. `StatusTruthful`: "not running" is not said of a daemon that answered throughout,
  unless it did not answer that very probe.
- `WizardTruthful`: a setup that reports success has every piece in place, whatever broke off before it, and the doctor finds none missing; after an
  uninstall that worked nothing starts the daemon again. Of the skill that says that its `SKILL.md` is there, not that all of it is ([section 5](#5-disagreements-found)).
- `CountersExact`: what is below a saved watermark of a text never rewritten is in the log, but for results that failed to cluster and one that ran into a torn
  line ([section 5](#5-disagreements-found)); passes that ran alone to their end
  count what clustered once, under the tool of its call, unless more than `MaxPending` calls had been open earlier in that
  text (`Crowded`): the state keeps the newest only, and says of the others that the tool is unknown.
- `WalkSettles`: a walk that ends has put back everything preserved and left no stale mark, no open
  turn and no session without episodes. `HistoryKept`: a session whose transcripts are gone loses no row.
- `PeersRecorded`: a peer that was known when it exited is recorded, once unless two calls of on_complete overlapped, whatever its payload; only a hook that died, or
  that could not read the context it then removed, loses a record. `ParentsTrue`: a record names the session of the peer that spawned it and
  of no other, and names it if that peer was there and its context could be read.
- `MigrationKeeps`: a handoff goes when all of it is in the archive; a worktree named in `artifacts.yml` stays, unless v3 → v4 failed to read that file; one of a brief stays, or
  goes to `artifacts.yml`, unless the backfill of v2 → v3 rewrote the brief. `SetupMigrates`: a setup that stamps has done all that was due, but for what
  this run passed over and for briefs that the schema refuses.
- `Converged`: a pass during which nothing changed or failed leaves what a rebuild would, however the files and the
  index came to be as they are. At any moment spans are those of the row beside them, or their row has gone and the watermark is still there, by which the next pass
  finds them.
- `EdgesAcyclic`: a cycle was closed by a write whose index the disk had left behind, or one of dependencies by a tag of the
  old form, and never otherwise; one of parents only by a plan, which reads its own initiative before it takes the lock.
- `PlanLands`: once a plan has ended without a failure every task that is there is as its lines say, the last of those that contradict each other
  deciding and a note appended once, however often it runs again, killed or beside itself, until a run of it refuses a line and writes the
  rest of that task. The operations are compared by their places in the plan (`Places`, `LastOf`), not by running them again.
- `LoopsHonest`: unless the prompt names a file it could not read, a loop open throughout is in it; one that a session closed before, or whose task was done
  throughout, is not. A directory that could not be listed is not named ([section 5](#5-disagreements-found)): without the sessions no loop is in the
  prompt, without the tasks loops of done tasks are, and what a session had closed does not come back in either case. `LiveTruthful`: a branch is shown without a pull request only if it had none
  at some time. `LimitsHonest`: how many candidates a loop is asked for never decides what it gets (`LoopShare`), unless archived
  handoffs had a place among them (`Crowded`), and what is left out of the workers is counted (`WorkersTold`).

Runs that show a disagreement: `focus_ids`, `migrate_strands`, `loop_reopens`
([section 5](#5-disagreements-found)).

### Bounds, and why they are enough

- **Task store.** A reissued number needs an add, a delete and an add, and one more
  command to interfere: four commands. Lost edits and exclusion are matters of two
  processes. One death is enough to leave any half-done command behind; the proof
  (section 4) covers every number of each. Priorities collide with one value in `Pris`
  because `add` makes more.
- **Focused list.** A shift that goes wrong needs two neighbours and an insertion, a
  circular wait two commands and two locks (the proof covers any number); the start lists are one
  with room, one with a gap and a full one.
- **Session ledger.** The two wraps are sessions that end at one instant, ahead of the
  clock, and can name each other's loops; either may be wrapped twice. Beside the entries
  of `loop.open`, which end with the clock, this makes name collisions, self-resolves and
  future openers occur. Two closes of one
  loop need three commands. Two transcripts, one of them of a session that may also be
  wrapped late, make both branches of `session.recover` happen. Processes are symmetric,
  and no property is a liveness property, so symmetry is sound. The proof covers every
  number of processes, wraps and transcripts.
- **Leases.** Leases do not touch each other, except that a reader skips its own: two.
  One reader overlaps with every step of a session; the proof covers any number.
- **Index refresh.** A reader that joins and one that starts a pass of its own are two
  readers; the scheduler never has more than two passes unless `PassesInTurn` fails, which a
  third would not make easier. One change is enough because the dirty set is drained
  whole. The proof covers every number of each.
- **Daemon host.** A predecessor and a successor are two numbers, and two ports are enough for
  daemons to cross; at most two daemons live at once. A setup breaks off before its first step
  or half way into the skill (`BreaksAfter`), where something partial stays; the states that
  other breaks leave are the same to everything after. A host where the wizard runs once, over what earlier
  runs left, and one where it never runs are both among the initial states. The proof covers every number of
  processes, ports, terminals and wizard runs.
- **Batch.** The three jobs share no state, so that each behaviour is of one of them. *Miner*: a
  call and its result are two lines; a result whose call lies in an earlier pass, a rewrite and a
  limited pass take two passes and one change after the first reads; two miners overlap in every
  way two passes can; symmetry between them is sound since no property of the run is a liveness property. *Migrations*: an
  initiative of the registry and one in the archive, which only the first step visits; every root that a version admits;
  two kills, so that a run which continues a killed one is killed too; both kinds of known repair, due or not (`Misfiled`). *Hooks*: a parent and a child, each
  completed up to twice, and one hook killed.
- **Session graph.** Two transcripts of one session show what is per transcript and what is per session.
  Two changes after the start are enough for a prune and a return, a rewrite and a retirement, or a change and a
  kill; passes are not bounded.
- **Workspace.** Again three jobs that share no state. *Index*: a batch of two out of three files leaves a second batch; mentions
  and shared tags need two notes in two initiatives; two changes, kills or failures of the disk (`MaxEdits` counts them all), because a kill in the purge of a file that a scan has
  only missed is what a later pass cannot notice; the proof covers any number. *Plans*: four tasks in two initiatives,
  chosen so that two calls close a cycle of parents or of dependencies if the check lets them, and a tag
  of the old form; three plans, one of which turns round an edge that it asks for, so that its next run refuses a line; three
  calls, so that a plan is run again beside an edit; one kill or failed write. *Prompt*: six starts. Four have each more of
  something in one part of the prompt than its limit admits, one has archived handoffs that fill the page a loop is searched, and one
  lacks the brief; two mishaps and two changes by others, because a loop may close and another open. The processes of the plans are symmetric, and all
  properties are invariants, so symmetry is sound.

Deadlock checking is off in all runs: a registry with no command running, or with the
bound on commands used up, has nothing to do.

### Fairness

- **TaskStore, FocusList.** Weak fairness of every process's own next step: a process
  that has begun a command is scheduled again, polls the lock, and is served when the
  holder has released or is dead and stale. It also has its timeout. Nothing forces a
  command to begin or a process to die.
- **IndexRefresh.** Weak fairness of the drain loop, of each pass, of a reader's
  continuation and of its budget timer, and of the end of `close`: all are promises and timers
  of one event loop. The watcher, the poll, the gate, other processes and failures are free.
  `ChangesIndexed` says under which condition a change reaches the index: full passes
  succeed again and again. Without it the code promises nothing, since every pass may fail.
- **Leases.** Weak fairness of the reader's steps and of ageing, which is time passing.
  `GhostsGo` assumes that scans go on, which is what bootstrapping again and again means.
- **DaemonHost.** Weak fairness of `Term`, `CloseSocket` and `Leave`: a daemon that was told to
  end is given processor time, and its shutdown timers fire. An index pass that never
  ends is free (`stuck`).
- **SessionGraph.** Weak fairness of the steps of a pass, and strong fairness of the daemon's full walk: the
  poll asks for it again and again, and it starts at some moment when no other pass holds the lock. Aborts, kills
  and changes are bounded, so they cannot starve it for ever.
- **The others** state no liveness. The commands of `SessionLedger` wait for the same lock as those of
  `TaskStore`, where `CommandsEnd` is checked, and walk a straight line afterwards.

## 4. The proofs

TLAPS proves the following for all values of the constants that satisfy the named
assumptions. Those say little: `NoProc` is not a process, commands are the ones named,
slugs and priorities are numbers, there is a largest slug (`SlugsBounded`; a registry is finite), a
minute is not empty, wraps and transcripts have
well-formed times, the ids `loop.open` draws are not ids of sessions that are wrapped
or recovered (the code draws them at random under a prefix of their own), pids and ports are positive numbers, and a person is not a peer.
One premise is in the model, not in an assumption: `Fresh` gives no process a number that the
pid file or a running command still remembers.

**TaskProofs.** Of the task store: type correctness (`TypeCorrect`), `NumbersNeverReissued`,
`EditsSurvive`, `ReordersAreExact`, and the refinement of `IdAllocator` (`Refinement`).
None of these is inductive. The invariant `IInv` adds three things: a process past the
lock holds it and no dead one is past it (exclusion also across take-over); what a
command remembers from its reads is still on disk while it holds the lock; and the mark,
the files and the numbers being handed out together dominate every number ever issued:
the mark alone does not, as it is raised only when the highest task goes.

Of the focused list: `FocusTypes` and `NoCircleEver`. The invariant `Disciplined` says what locks each
process holds: a task command one at most and none while it waits, a command on the list only ones below the lock it waits for.
In a circle of waiters each lock waited for is then below another, and the highest of them
(`Highest`, from well-foundedness of the numbers and `SlugsBounded`) cannot be.

`ListsAreAsAsked` is the theorem of `FocusExact`. Its invariant `FInv` adds to `Disciplined` that, as long as no two commands on the list
overlapped and none died (`Undisturbed`), the ranks are distinct while nobody is at work on them; that a task command, which writes a whole brief,
writes back the state and rank the disk has (`TaskWrites`); that what a command on the list has read agrees with the disk;
and that its pending writes lead from the list on disk to a goal that is as asked (`Leads`, `Underway`). A
write brings the disk one step towards the same goal and the last one reaches it (`WriteUndisturbed`). That there is such a goal when a command
has decided is arithmetic of ranks (`Decides`): who comes moves the others in order and collides with none (`Comes`), and who leaves
lets the others take the places 1 to n in the order of their ranks (`Leaves`, `Places`).

**SessionLedgerProofs.** `LedgerTypes`, `ClosesHold`, `ReportedFilesStay`,
`ResolvesOpenLoops`, `RecoversOnce`, `NoClosingCircle`, `ResolutionsAreLatest`, `ResolutionsAreSound`. The invariant `LedgerInv` has, beside the types and
exclusion (`Alone`): what a command asked for and has not yet written (`Asked`), that what
it wrote is there and its roll-back names only its own files (`Wrote`), that what it read
under the lock still holds (`Knows`), and, for the history, that files reported to a caller and
files that carry a reported close or its loop are *settled*: no wrap that may still be rolled back
has written them. The argument for a step is then: a write uses a fresh name, so it
touches nothing settled (`WritesFresh`); a removal takes a file of the wrap itself, which
is not settled (`KeepsSettled`); and when a receipt or a release adds to the history, the process leaves
the state in which it could be rolled back, and everybody else sleeps (`AllSettled`).
A new session file never undoes a close because `Closes` reads only the two files
involved (`SessionAdded`, `ClosesStays`). That closes form no circle follows from their types alone: a close goes to
a session that ended strictly earlier, and the earliest end in a circle (`Lowest`) has nothing before it.
That the pass over the files ends at the latest close (`ClosedByIsLast`) is an induction along the order of reading: `ClosedBy` is a
recursive function of a set of files and takes the last of them (`LastFileExists`) off. The function exists by induction on the set (`PassExists`,
over sets rather than numbers by `SetsUpwards`), and one more file keeps what was found the last to close of those read (`OneMoreRead`).

**PromptProofs.** Of the leases: types, `LiveLeasesKept` and `RunningAreSeen`. The invariant `LInv` says, per lease, that
there is no file before its process began, that the file of a running session is whole
unless it was blamed or aged, that a reader about to unlink a lease judged it rightly or the lease is blamed, and
that what a reader thought aged is aged. `SeesRunning` is about a step at the end of a scan, and `SInv` follows each lease
through it (`Followed`): one that was listed and runs still, unblamed and young, is among those to be read or
those found, because a reader that can read it finds its file whole and its process alive, and one that cannot blames it.

Of the prompt: `PromptInvariant`, `LoopsAreHonest`, `LiveIsTruthful`, of `BootstrapSpec`, in which only assemblies and the
writers beside them run. `BootInv` says what an assembly is at each stage (`AssemblyOK`), that the world keeps its ids (`WorldOK`), what
the history implies of the world now (`SeenOK`), what the files read so far and those still to read give together (`ReadOK`:
`Gathered`, `Expected`), and what the lists of pull requests say (`LiveOK`, `ListTrue`). A loop open throughout is then opened by a file that was read or is still
to be read, and what was read has nothing that closes it, since session files stay and a task read as done is no target of such a loop; for one that was closed
the files that opened and closed it are both read, or one of them is counted as unreadable, or the directory was not listed and neither is there. It assumes of the starting files (`StartsAssumption`) that
an id names one file of its directory, as file names do, and that a loop names the session whose file opens it, which is how
`analyzeLoaded` builds it.

And of the lines under the loops and of the workers: `LinesAreShared`, `LimitsAreHonest`. `LoopShare` speaks of the end of the rounds, and `ShareInv`
of their way there: the lines are of different hits, none of which is shown above (`LinesOK`); what has been spent covers the hits taken, priced
in whichever loop's list they stand (`PaidOK`); and a loop that the rounds have passed has a line for each of them or
has nothing left to take (`RoundsOK`). That a loop with nothing left has seen every hit it could have is then counting (`NoneLeft`, `SpentSays`):
either the page held all its hits, or the other loops would have taken more than the total, or the list was cut where a hit
overflowed the budget, and what fits no more in what the loop was offered fits no more in what is left. Prices are summed along a list by a
recursive function (`SumFacts`, `CostsGrow`, `CostsMount`, `CostsOfOneMore`), a sorted sequence of finitely many things exists (`SortingExists`), and the totals
of the spawners with a line and of those only counted cover every worker once (`RollupFacts`, `TotalsCover`, `RollupTells`). `RelatedAssumption` is
what this takes: finitely many files and loops, a ref of its own for each loop, a search that finds nothing twice, and for a hit a positive price that is the same under
every loop, as the rendered line depends on the hit alone.

**IndexRefreshProofs.** `TypesHold`, `PassesRunInTurn`, `NothingIsSwallowed`, `FreshIsTrue`. Three invariants, each on
top of the other. `PassInv`: the pass that runs is the one the scheduler tracks, whoever
started it, and `close` waits for it. `ChangesInv`: a pass holds changes only between its drain and
its end, so that a pass that ends has indexed or returned them. `ReadInv`: a reader that joined a pass early stands
in its queue until it is told, what it must see was reported before it asked, and nobody is early in the queue of a pass past its index step.

**SetupProofs.** `HostTypes`, `EntriesFind`, `StatusIsTrue`, `WizardIsTrue`, all of the specification with the wizard; `HostAlone`
states the first two of `DaemonHost` alone, whose supervisor may be told anything. The invariant `HostInv` needs two facts about commands that work with an
old pid: one that is about to remove an entry found its process dead or told it to end (`Doomed`), and a
process that `status` saw has not been replaced (`SeenBefore`). `WizardInv` says where the wizard is when the pieces are in place
(`Installing`), that with an unloaded supervisor no child of it goes on untold (`Childless`), and what
an uninstall has reached (`Removing`).

**BatchProofs.** Of the hooks: `HookTypesHold`, `PeersAreRecorded`, `ParentsAreTrue`, from `HooksAssumption` (the person who spawns a peer is
none, and facts are absent, invalid, silent or a report). The invariant `HooksInv` follows a context through its life: it
is there from the end of on_spawn until the first on_complete that goes on removes it, so what a hook holds tells what the file can still become (`Timely`);
calls that do not overlap never both hold one (`Once`); and a context that was there at the exit, and that no hook failed to read, stays, or is held by a hook that died or
goes on to record it (`Owes`). `Rightly` says of every copy of a context, on disk or read, what may be said of the peer's
parent; it holds because a parent that runs still has its context.

Of the migrations: `MigrationsKeep` and `SetupsMigrate`. The invariant `MigrationInv` says what holds whatever was killed
before: a handoff goes only when its archive is whole (`ArchivingSafe`, `ArchivedBare`), v3 → v4 takes the worktrees from a brief
only when `artifacts.yml` has them (`StrippingSafe`), what the steps behind a run claim has been done but for what it passed over (`Migrated`), and the writes a process has still
to do cover whatever its steps found and could read (`StepCovers`). The last is what makes a setup that continues a killed one right:
a step plans from what it finds, and what an earlier run has done needs no write.

**TranscriptProofs.** Of the session graph: `GraphInvariant`, `RowsStayOnce`, `WalksSettle`, `HistoryStaysKept`. `GraphInv` says, beside types, that
a row lies below the watermark of its transcript (so that a line read again has no row yet), what a walk has still to
visit (`Reaching`, `Reached`), that rows of ended sessions are rolled up (`TurnsEnded`), and, for a rebuild, that
whatever the reset emptied is preserved, on the disk to be read again, or back in its place (`Safeguarded`, `Swept`, `PutBack`).

Of the miner: `CountersStayExact`. `DrainInv` has two parts. `AllKept` holds always: what the saved
table claims to have read is in the log or `missed`, what a pass in memory claims is there or among what it carries, and by
the time it writes anything but the log the latter is in the log too. `PlainInv` holds while every pass ran alone and to its end: a saved
table and the log, the templates and the trees agree to the line (`Located`, `Tallied`, `Attributed`), and a table remembers
the calls still open below its watermark, except in a crowded text (`AllRemember`). The order of the four writes
is what the first part rests on, and overlapping passes only ever repeat.

**WorkspaceProofs.** Of the workspace index: `WorkspaceInvariant` and `WorkspaceConverges`. `Converged` speaks of the end of a pass,
and the invariant `WorkspaceInv` of its way there: a watermark that names the stamp a file has now belongs to a row that is its text
(`MarksTrue`), so that files that differ from their rows are due (`DueDiffer`), what was read in a batch is true of files
not touched since (`GotTrue`), spans are those of the rows, or of one that a purge has deleted and whose watermark stands (`SpansStand`), stamps only grow (`StampsPast`), and each stage of an
undisturbed pass has done its part (`Progressing`).

Of the plans: `PlansInvariant`, `EdgesStayAcyclic`, `LandsInvariant`, `PlansLand`. They assume of the constants what parsing gives
(`PlansAssumption`: shapes of edits and plans, finitely many initiatives) and of the tasks at the start that nothing is in a circle
yet and a parent is filed where its child is (`StartTasksAssumption`).

`PlansInv` has the types, which lock a call holds (`Placed`), that what a call has in its index of an
initiative is what the disk has there, unless the call has missed a change (`InStep`), and of the tasks (`NoCircles`) that a
parent is filed where its child is and that without a write on an old index or a tag of the old form there is no
circle. An edge that does not lead back closes nothing: `ParentsGrow` and `DepsGrow` take a circle
after the write and give one before it, or a path back along edges that the check saw. `Reaches` says that no set of ids
parts two of them, so that these lemmas only name sets. An index that is in step for the initiative written to sees
every path of parents, because these are at home; for dependencies it must be in step everywhere, and that is the difference between
`overtaken` and `crossed`.

`LandsInv` follows the plan that has the root for itself (`BaseOK`): each task is as it was but for what some operations of
the plan say (`Partly`), as all of them say once a run has ended well, and of a run in progress (`GoesOn`) that it is through with
all its lines for a task or with none, and that the tasks it is through with are as the plan says if nothing has failed. Within one write
a line comes after the other, and each operation makes one place more take its effect (`Followed`),
because the last operation on a part of the task decides it whatever the earlier ones were. It is here that a refused line breaks off: the writes go on without
what that line says. Functions along a sequence are brought under induction over numbers by a set rather than a predicate
(`Upwards`), which every back end can instantiate, and `FollowerExists` gives such a function its equation.

**What stays with TLC.** Liveness under fairness (`CommandsEnd`, `FocusCommandsEnd`,
`CallsEnd`, `ChangesIndexed`, `GhostsGo`, `ShutdownEnds`, `LinesIndexed`), because enabledness and fairness are out of the
prover's reach. Every invariant and every action property of a passing run has a theorem. Algorithms along sequences and sets are written as recursive functions, or by
what they do, so that the lemmas named above reach them.

Five of the proofs changed the model. `CountersExact` once said without exception that an occurrence is counted under its tool; the proof found the
crowded text, which the run's bounds did not reach. `LoopsHonest` once spoke of every loop that was closed
throughout; the proof found the loop that is closed for one reason after another ([section 2](#bootstrap)), which no start of the run showed.
`EdgesAcyclic` once blamed every circle on an old index; the proof found the tag of the old form. `PlanLands` once spoke of every plan that had
ended well; the proof found the run that refuses a line, because its index is old or because a later line of the plan has turned
round an edge that an earlier one asks for again. `LoopShare` once knew no exception either; the proof found the archived handoffs that fill a page ([section 5](#5-disagreements-found)), and
that sorts with ties had been given one order of several. The runs now have such a tag, such a plan and such a page, and without the exceptions TLC finds all three.

## 5. Disagreements found

Three are shown by a run that TLC finds violated:

| Run | What the repository says | What the code does |
|---|---|---|
| `focus_ids` | `README.md:74`: ids are "monotonic and never reused" | `focus` writes back a brief it read before a `task.delete` raised `task_seq` (`src/commands/focus.ts:66`); the next `task.add` issues the deleted number again |
| `migrate_strands` | `src/commands/migrate.ts:153`: stamping a version over data that was not migrated "would strand the artifacts migration forever" | `migrate --apply` on a root at v3 runs v2 → v3 once more and stamps v4 (`migrate.ts:156`): the worktrees of its briefs are stranded |
| `loop_reopens` | `src/sessions/open-loops.ts:52`: auto-closes loops "whose `ref` names a done task" | `open` archives a task that has been done for long before the ledger looks for it (`src/commands/open.ts:207`, `open-loops.ts:353`): its loop is listed again |

The others were met while the modules were written, and the models carry them as the code has them:

| Where | What the repository says | What the code does |
|---|---|---|
| `src/commands/focus.ts:66` | `docs/architecture.md:70`: reading, shifting and writing happen "inside one critical section" | reading and shifting happen before the locks; two focus commands leave one rank twice |
| `src/session-index/scheduler.ts:179` | `scheduler.ts:170`: resolves true once a pass "that drained after this call has indexed" | it also joins a pass that has drained already |
| `src/sessions/lease.ts:257` | `lease.ts:229`: a malformed file "can never become live" | a lease is visible before its contents (`lease.ts:110`), and a reader unlinks it |
| `src/sessions/lease.ts:206` | `lease.ts:225`: keeps "every lease for `slug` that still looks live" | any failure to read a lease counts as malformed, and the lease of a running session is unlinked (`:257`) |
| `src/bootstrap/prompt.ts:276` | `prompt.ts:269`: "dropping it silently shrinks the open list" | it is told of a file; a directory that cannot be listed is taken for an empty one (also `open-loops.ts:227`), and the prompt says nothing of it |
| `src/commands/wrap.ts:510` | `wrap.ts:236`: "a wrap is all-or-nothing" | when the second note fails the first stays behind |
| `src/migrations/v3-to-v4-worktrees.ts:71` | header: "Idempotent" | a run killed between its two writes makes every later run add an entry twice, which the schema refuses |
| `src/migrations/v3-to-v4-worktrees.ts:99` | | an `artifacts.yml` that cannot be read, or does not parse, is replaced by empty lists |
| `src/migrations/v2-to-v3-open-loops.ts:203` | `:185`: "preserves every other field" | the brief is rewritten through a schema that knows no `worktrees` (`src/schemas/brief.ts:79`): a root migrated from v1 or v2 loses them before v3 → v4 could move them |
| `src/migrations/v3-to-v4-worktrees.ts:106` | `src/commands/migrate.ts:153`: no stamp over data that was not migrated | a brief that cannot be read is passed over, as are briefs the schema refuses (`v2-to-v3-open-loops.ts:203`) and directories that cannot be listed (`:127`), and the root is stamped all the same |
| `src/migrations/v1-to-v2-artifacts.ts:216` | header: every dropped PR is logged | the log is written last; a run killed before it loses the record |
| `src/tasks/edge-index.ts:125` | `:112`: a cycle across initiatives must be refused | the index is read without the others' locks: two edits each add half of a cycle |
| `src/commands/task-edit.ts:347` | `src/tasks/edge-index.ts:112`: a cycle must be refused | a tag of the old form stands for a dependency, and adding one is not checked |
| `src/commands/_task-apply-run.ts:118` | `skill/SKILL.md:32`: a plan is idempotent and can be run again | when a later line turns round an edge an earlier one asked for, running it again refuses the earlier line and writes the others of its task |
| `src/bootstrap/prompt.ts:899` | `prompt.test.ts:584` expects `(+2 more)` | the fetcher cuts the list, so the renderer never knows of more |
| `src/search/related.ts:172` | `src/bootstrap/loop-context.ts:65`: so many candidates "always leaves a loop its own two" | the page has room for the exclusions but none for archived handoffs, which drop out of it afterwards: a loop can be left with less than there is |
| `src/session-index/refresh.ts:319` | `:317`: both halves are reset because they share tables | a rebuild killed between the two resets leaves rows without spans and edges for good |
| `src/commands/mcp-restart.ts:108` | `mcp-restart.test.ts:2`: no pid is reported that was not confirmed | any answer on the port confirms the child, also another daemon's |
| `src/drain/tree-store.ts:74` | `:65`: a snapshot that will not parse is discarded | `JSON.parse` is outside the `try`, and every pass stops |
| `src/commands/hooks-agent-chat-complete.ts:145` | `:119`: falls back "rather than losing the session" | the context is removed before `wrap` runs; if that fails the peer is never recorded |
| `src/utils/agent-chat-hook-state.ts:59` | `hooks-agent-chat-complete.ts:119`, as above | a context that could not be read is removed like one that was: the peer is never recorded |
| `src/drain/store.ts:82` | | a line of the log that a death has cut short has no newline; the next line that is appended runs into it, and `readOccurrences` (`:97`) then throws |
| `src/drain/transcript-reader.ts:209` | | a blob that fails to ingest is noted in the counters, and the watermark passes it (`:178`): it is never tried again |
| `src/setup/steps.ts:316` | `skill/references/onboarding.md:43`: "idempotently — safe to re-run" | a copy that breaks off after `SKILL.md` is never completed: the next run says "already installed", and the doctor finds nothing |
| `src/workspace-index/write.ts:107` | | a row, its spans and its watermark are deleted one by one: after a kill in between, a file that is back with its old size and time is never indexed again |
| `src/discover/triaged-log.ts:24` | `drop.ts:7`: refs marked dropped are skipped | the log is read and written back without a lock; of two at once one line is lost |

The passing runs of the same modules say what still holds: the task commands among
themselves never reissue a number, ranks stay distinct when focus commands do not overlap,
`FreshCovers` for readers that did not join late, `LiveLeaseKept` for leases nobody
mistook, `FilesKept` for everything reported, `EdgesAcyclic` where the index was true and no tag stood for an edge, `PlanLands` where no line is refused,
`SetupMigrates` for `setup` where everything could be read, `LimitsHonest` where no archived handoff had a place, `CountersExact` and `Converged` where the watermark could tell.

## 6. What is not modelled, and why

- **A living holder that loses its lock.** A process suspended for more than 10 s inside
  its critical section is taken for dead and resumes beside the new holder. The models
  let only the dead lose a lock; they show what the lock gives when that does not happen.
- **Moves of whole directories** (`archive`, `rename`, `drop`, `fold`). They do not take the lock, and
  `withFileLock` creates the directory of its lock: a writer that waits creates the old directory
  again. Nothing the repository states holds beside them, so that there is no property to check; the hazard is listed.
- **HTTP and MCP dispatch, the dashboard**: they call the same registry commands and render; no state of their own.
- **Search, the decider, discovery, lint, most of the doctor**: queries over what the other modules write.
- **Artifacts, worktrees and their manifest, sources, facets, deliverables, categories**: locked
  read-modify-write of one file, which is `set` and `edit` of `TaskStore` again.
- **The reader gate** only delays a pass where it yields; `IndexRefresh` lets a pass take any time.
- In the task store: `set` of `state`, `rank` and `task_seq`, `task.add` with `--parent` or `--dep` (its check is that of `task.edit`, in `TaskPlans`); in the plans: titles, categories and deliverables, and plans that do not parse as a whole.
- In the session ledger: several initiatives (loops never cross them); loops that close with a merged pull request; malformed files, which a
  person wrote; outcomes and wording; transcripts of live, recent or headless sessions,
  which `session.recover` skips; a transcript's mtime apart from its end; failures of
  `rm`, which passes `force`; the same reference twice in one wrap; and in the runs, more
  than one resolve per wrap.
- In the index refresh: durations and counters of the backoff, error bookkeeping, the death of the daemon (nothing of the scheduler survives it).
- In the session graph: what is extracted from a line (tasks, pull requests, origins), which is parsing. In the miner: clustering, except whether a tool is known.
- In the daemon: the length of grace periods, of which either side may come first; open streams of clients, to which a shutdown gives a time of their own: what it
  waits for here is an index pass, which may be stuck. In setup: prompts and their wording.
- In the leases: that two sessions starting together may miss each other; the code makes
  no promise there.
- In the launcher: arguments, profiles and the picker, which are input handling.
- In the prompt: retrieval scores, which are given; wording and layout of sections.

## 7. The plan

Done, in this order: the task store with its abstract allocator; the focused list on top of
it; the session ledger; the index refresh; the leases; the daemon host and the wizards on it; the miner and the session graph over
common transcripts; the migrations; the agent-chat hooks; the workspace index; plans and the edge index; the prompt. Proofs for all of them, as far as section 4 says.

What would come next:

1. Moves of directories beside locked writers, once the code has a rule for them.
2. Loops that close with pull requests, in `SessionLedger` and `Bootstrap` together.
3. The extraction of episodes and tasks from lines, if a property about them turns up that parsing alone does not decide.
