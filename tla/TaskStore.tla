----------------------------- MODULE TaskStore -----------------------------
(***************************************************************************)
(* The files of an initiative and the commands that change its tasks.      *)
(*                                                                         *)
(* Every initiative has one directory: brief.md, whose frontmatter holds   *)
(* the high-water mark task_seq, and tasks/<ID>.yml, one file per task.    *)
(* task.add, task.delete, task.done, task.edit, task.reorder and set/touch *)
(* run in separate processes.  Each takes the initiative's advisory lock   *)
(* (withFileLock), reads, decides, writes and releases.  A read of several *)
(* files is one step: every writer of those files holds the same lock.     *)
(* Every file write is a step of its own, because a process may die        *)
(* between two writes.  A dead process leaves its lock behind; a waiter    *)
(* takes it over once it is stale.                                         *)
(***************************************************************************)
EXTENDS Naturals, FiniteSets

CONSTANTS
  Procs,        \* processes that run these commands
  Slugs,        \* initiatives, numbered in the order of their sorted names
  NoProc,       \* "nobody holds the lock"
  Commands,     \* the commands the processes run
  Pris,         \* the priorities an argument may name
  MaxExisting,  \* bound: tasks an initiative may have at the start
  MaxOps,       \* bound: commands started
  MaxCrashes    \* bound: processes that die

TaskCommands == {"add", "delete", "done", "append", "reopen", "reorder", "set"}

ASSUME SlugAssumption == Slugs \subseteq Nat
ASSUME ProcAssumption == NoProc \notin Procs
ASSUME PriAssumption  == Pris \subseteq Nat \ {0}
ASSUME CommandAssumption == Commands \subseteq TaskCommands
ASSUME BoundAssumption == {MaxExisting, MaxOps, MaxCrashes} \subseteq Nat

VARIABLES
  brief,   \* brief[s]: frontmatter [state, rank, seq, edits]
  tasks,   \* tasks[s]: task files, number -> [pri, status, notes]
  lock,    \* lock[s]: holder of the advisory lock of s
  dead,    \* processes that died
  pc,      \* pc[p]: where process p is
  job,     \* job[p]: its command, arguments and what it read
  ops,     \* commands started so far
  issued,  \* history: issued[s], every number s ever gave to a task
  acked    \* history: edits whose command reported success

vars == <<brief, tasks, lock, dead, pc, job, ops, issued, acked>>

States == {"absent", "focused", "backburner", "paused", "done"}
Briefs == [state : States, rank : Nat, seq : Nat, edits : SUBSET Procs]
Tasks  == [pri : Nat, status : {"open", "done"}, notes : SUBSET Procs]

\* The number 0 stands for the brief itself where a file is named.
Edits == [slug : Slugs, file : Nat, by : Procs]

NewTask(pri) == [pri |-> pri, status |-> "open", notes |-> {}]

BlankBrief == [state |-> "backburner", rank |-> 0, seq |-> 0, edits |-> {}]

\* What a process remembers: its command and arguments, the brief and the task
\* files it read under the lock, the siblings a reorder still has to write.
NewJob(c, s, i, q) ==
  [cmd |-> c, slug |-> s, id |-> i, pri |-> q,
   brief |-> BlankBrief, tasks |-> [k \in {} |-> NewTask(0)], todo |-> {}]

IdleJob == NewJob("none", 0, 0, 0)

Live(s) == DOMAIN tasks[s]

\* m is the largest of the numbers S, or 0 when there is none.
IsHighest(m, S) == m \in S \cup {0} /\ \A k \in S : k <= m

----------------------------------------------------------------------------
(* Commands start, wait for the lock, and end.                              *)

InitWith(b) ==
  /\ brief = b
  /\ \E n \in [Slugs -> 0..MaxExisting] :
       /\ \A s \in Slugs : b[s].state = "absent" => n[s] = 0
       /\ tasks = [s \in Slugs |-> [i \in 1..n[s] |-> NewTask(i)]]
       /\ issued = [s \in Slugs |-> 1..n[s]]
  /\ lock = [s \in Slugs |-> NoProc]
  /\ dead = {}
  /\ pc = [p \in Procs |-> "idle"]
  /\ job = [p \in Procs |-> IdleJob]
  /\ ops = 0
  /\ acked = {}

Init == InitWith([s \in Slugs |-> BlankBrief])

\* A user runs a command.  add names a priority or leaves it out (0).  On an
\* initiative that does not exist every command fails and changes nothing.
Begin(p, c, s) ==
  /\ pc[p] = "idle" /\ p \notin dead /\ ops < MaxOps
  /\ brief[s].state # "absent"
  /\ \E i \in issued[s] \cup {1}, q \in Pris \cup {0} :
       /\ c \in {"add", "set"} => i = 1
       /\ c = "reorder" => q # 0
       /\ c \notin {"add", "reorder"} => q = 0
       /\ job' = [job EXCEPT ![p] = NewJob(c, s, i, q)]
  /\ pc' = [pc EXCEPT ![p] = "wait"]
  /\ ops' = ops + 1
  /\ UNCHANGED <<brief, tasks, lock, dead, issued, acked>>

\* Mutant: a stale lock is never reclaimed.
TakeableFreeOnly(s) == lock[s] = NoProc

\* A lock can be taken when it is free, or when its holder died and the lock
\* has gone stale.
Takeable(s) == lock[s] = NoProc \/ lock[s] \in dead

\* Mutant: the command runs without waiting for the lock.
AcquireAnyway(p) ==
  /\ pc[p] = "wait"
  /\ lock' = [lock EXCEPT ![job[p].slug] = p]
  /\ pc' = [pc EXCEPT ![p] = "locked"]
  /\ UNCHANGED <<brief, tasks, dead, job, ops, issued, acked>>

Acquire(p) ==
  /\ pc[p] = "wait"
  /\ Takeable(job[p].slug)
  /\ lock' = [lock EXCEPT ![job[p].slug] = p]
  /\ pc' = [pc EXCEPT ![p] = "locked"]
  /\ UNCHANGED <<brief, tasks, dead, job, ops, issued, acked>>

\* LOCK_TIMEOUT_MS passed: the command fails with LockTimeoutError.
GiveUp(p) ==
  /\ pc[p] = "wait"
  /\ lock[job[p].slug] # NoProc
  /\ pc' = [pc EXCEPT ![p] = "idle"]
  /\ job' = [job EXCEPT ![p] = IdleJob]
  /\ UNCHANGED <<brief, tasks, lock, dead, ops, issued, acked>>

\* withFileLock's finally: the lock is released whether the command succeeded
\* or failed.  A set or an append that succeeded is now acknowledged.
Release(p) ==
  LET j == job[p]
      edit == [slug |-> j.slug, by |-> p,
               file |-> IF j.cmd = "append" THEN j.id ELSE 0]
  IN
  /\ pc[p] \in {"finished", "failed"}
  /\ lock' = [lock EXCEPT ![j.slug] = NoProc]
  /\ acked' = acked \cup (IF pc[p] = "finished" /\ j.cmd \in {"set", "append"}
                          THEN {edit} ELSE {})
  /\ pc' = [pc EXCEPT ![p] = "idle"]
  /\ job' = [job EXCEPT ![p] = IdleJob]
  /\ UNCHANGED <<brief, tasks, dead, ops, issued>>

\* The process dies (power loss, SIGKILL) and leaves its lock behind.
Crash(p) ==
  /\ pc[p] # "idle" /\ Cardinality(dead) < MaxCrashes
  /\ dead' = dead \cup {p}
  /\ pc' = [pc EXCEPT ![p] = "idle"]
  /\ job' = [job EXCEPT ![p] = IdleJob]
  /\ UNCHANGED <<brief, tasks, lock, ops, issued, acked>>

Holding(p, c) == pc[p] = "locked" /\ job[p].cmd = c

Fail(p) == pc' = [pc EXCEPT ![p] = "failed"] /\ UNCHANGED job

Finish(p) == pc' = [pc EXCEPT ![p] = "finished"] /\ UNCHANGED job

\* writeYaml: the file of one task is created or replaced.
WriteTask(s, i, task) ==
  tasks' = [tasks EXCEPT ![s] =
              [k \in DOMAIN @ \cup {i} |-> IF k = i THEN task ELSE @[k]]]

----------------------------------------------------------------------------
(* task.add                                                                 *)

Larger(a, b) == IF a < b THEN b ELSE a

\* Mutant: the number comes from the files alone.
NextNumberOnDisk(s, onDisk) == onDisk + 1

\* allocateTaskNumber: above the mark in the brief and above every file.
NextNumber(s, onDisk) == Larger(brief[s].seq, onDisk) + 1

\* The scan of the task files under the lock, and what nextPriority makes of it.
AddAllocate(p) ==
  LET s == job[p].slug
      pris == {tasks[s][i].pri : i \in Live(s)}
      asked == job[p].pri
  IN
  /\ Holding(p, "add")
  /\ \E onDisk \in Live(s) \cup {0}, maxPri \in pris \cup {0} :
       /\ IsHighest(onDisk, Live(s))
       /\ IsHighest(maxPri, pris)
       /\ job' = [job EXCEPT ![p] =
            [[@ EXCEPT !.id = NextNumber(s, onDisk)]
               EXCEPT !.pri = IF asked = 0 THEN maxPri + 1 ELSE asked]]
  /\ pc' = [pc EXCEPT ![p] = "create"]
  /\ UNCHANGED <<brief, tasks, lock, dead, ops, issued, acked>>

AddWrite(p) ==
  LET s == job[p].slug
      n == job[p].id
  IN
  /\ pc[p] = "create"
  /\ WriteTask(s, n, NewTask(job[p].pri))
  /\ issued' = [issued EXCEPT ![s] = @ \cup {n}]
  /\ Finish(p)
  /\ UNCHANGED <<brief, lock, dead, ops, acked>>

(* task.delete                                                              *)

\* Mutant: the mark in the brief is never moved.
NeedsBumpNever(s, n) == FALSE

\* Deleting the highest number would let the next add hand it out again.
NeedsBump(s, n) == IsHighest(n, Live(s)) /\ brief[s].seq < n

\* The task must exist.  Deleting the highest number first moves task_seq up.
DeleteCheck(p) ==
  LET s == job[p].slug
      n == job[p].id
  IN
  /\ Holding(p, "delete")
  /\ \/ n \notin Live(s) /\ Fail(p)
     \/ /\ n \in Live(s)
        /\ pc' = [pc EXCEPT ![p] =
             IF NeedsBump(s, n) THEN "bump" ELSE "unlink"]
        /\ job' = [job EXCEPT ![p] = [@ EXCEPT !.brief = brief[s]]]
  /\ UNCHANGED <<brief, tasks, lock, dead, ops, issued, acked>>

\* The whole frontmatter is written back as it was read, with the new mark.
DeleteBump(p) ==
  /\ pc[p] = "bump"
  /\ brief' = [brief EXCEPT ![job[p].slug] =
                 [job[p].brief EXCEPT !.seq = job[p].id]]
  /\ pc' = [pc EXCEPT ![p] = "unlink"]
  /\ UNCHANGED <<tasks, lock, dead, job, ops, issued, acked>>

DeleteUnlink(p) ==
  LET s == job[p].slug IN
  /\ pc[p] = "unlink"
  /\ tasks' = [tasks EXCEPT ![s] = [k \in Live(s) \ {job[p].id} |-> tasks[s][k]]]
  /\ Finish(p)
  /\ UNCHANGED <<brief, lock, dead, ops, issued, acked>>

(* task.done and task.edit: read the file, write the changed copy.          *)

TaskEdits == {"done", "append", "reopen"}

Edited(task, p, c) ==
  CASE c = "done"   -> [task EXCEPT !.status = "done"]
    [] c = "reopen" -> [task EXCEPT !.status = "open"]
    [] c = "append" -> [task EXCEPT !.notes = @ \cup {p}]

EditRead(p) ==
  LET s == job[p].slug
      n == job[p].id
  IN
  /\ \E c \in TaskEdits : Holding(p, c)
  /\ \/ n \notin Live(s) /\ Fail(p)
     \/ /\ n \in Live(s)
        /\ job' = [job EXCEPT ![p] = [@ EXCEPT !.tasks = tasks[s]]]
        /\ pc' = [pc EXCEPT ![p] = "rewrite"]
  /\ UNCHANGED <<brief, tasks, lock, dead, ops, issued, acked>>

EditWrite(p) ==
  LET j == job[p] IN
  /\ pc[p] = "rewrite"
  /\ WriteTask(j.slug, j.id, Edited(j.tasks[j.id], p, j.cmd))
  /\ Finish(p)
  /\ UNCHANGED <<brief, lock, dead, ops, issued, acked>>

(* task.reorder                                                             *)

\* Mutant: a sibling already at the new priority stays there.
MovedDownBelowOnly(s, n, q) == {i \in Live(s) \ {n} : tasks[s][i].pri > q}

MovedDown(s, n, q) == {i \in Live(s) \ {n} : tasks[s][i].pri >= q}

\* Every task file is read; the siblings at the new priority or below move
\* down one place.  Nothing is written when the priority does not change.
ReorderRead(p) ==
  LET s == job[p].slug
      n == job[p].id
  IN
  /\ Holding(p, "reorder")
  /\ \/ (n \in Live(s) => tasks[s][n].pri = job[p].pri) /\ Fail(p)
     \/ /\ n \in Live(s) /\ tasks[s][n].pri # job[p].pri
        /\ job' = [job EXCEPT ![p] =
             [[@ EXCEPT !.tasks = tasks[s]]
                EXCEPT !.todo = MovedDown(s, n, job[p].pri)]]
        /\ pc' = [pc EXCEPT ![p] = "shift"]
  /\ UNCHANGED <<brief, tasks, lock, dead, ops, issued, acked>>

\* One sibling's file is written, in the order readdir listed them.
ReorderShift(p) ==
  LET j == job[p] IN
  /\ pc[p] = "shift"
  /\ \E i \in j.todo :
       /\ WriteTask(j.slug, i, [j.tasks[i] EXCEPT !.pri = @ + 1])
       /\ job' = [job EXCEPT ![p] = [@ EXCEPT !.todo = j.todo \ {i}]]
  /\ UNCHANGED <<brief, lock, dead, pc, ops, issued, acked>>

\* The moved task's own file comes last.
ReorderTarget(p) ==
  LET j == job[p] IN
  /\ pc[p] = "shift" /\ j.todo = {}
  /\ WriteTask(j.slug, j.id, [j.tasks[j.id] EXCEPT !.pri = j.pri])
  /\ Finish(p)
  /\ UNCHANGED <<brief, lock, dead, ops, issued, acked>>

(* set and touch                                                            *)

SetRead(p) ==
  /\ Holding(p, "set")
  /\ job' = [job EXCEPT ![p] = [@ EXCEPT !.brief = brief[job[p].slug]]]
  /\ pc' = [pc EXCEPT ![p] = "stamp"]
  /\ UNCHANGED <<brief, tasks, lock, dead, ops, issued, acked>>

\* The field that set writes here, or touch's date, is none of state, rank and
\* task_seq: see the README on those.
SetWrite(p) ==
  /\ pc[p] = "stamp"
  /\ brief' = [brief EXCEPT ![job[p].slug] =
                 [job[p].brief EXCEPT !.edits = @ \cup {p}]]
  /\ Finish(p)
  /\ UNCHANGED <<tasks, lock, dead, ops, issued, acked>>

----------------------------------------------------------------------------

\* What a process does by itself once a command has started.
Step(p) ==
  \/ Acquire(p) \/ Release(p)
  \/ AddAllocate(p) \/ AddWrite(p)
  \/ DeleteCheck(p) \/ DeleteBump(p) \/ DeleteUnlink(p)
  \/ EditRead(p) \/ EditWrite(p)
  \/ ReorderRead(p) \/ ReorderShift(p) \/ ReorderTarget(p)
  \/ SetRead(p) \/ SetWrite(p)

Next ==
  \E p \in Procs :
    \/ \E c \in Commands, s \in Slugs : Begin(p, c, s)
    \/ Step(p)
    \/ GiveUp(p)
    \/ Crash(p)

Spec == Init /\ [][Next]_vars

\* A running process keeps taking steps, and a waiter keeps retrying.  Nothing
\* forces a user to start a command, a process to die or a wait to time out.
FairSpec == Spec /\ \A p \in Procs : WF_vars(Step(p))

----------------------------------------------------------------------------
(* Properties                                                               *)

IsJob(j) ==
  /\ j = [cmd |-> j.cmd, slug |-> j.slug, id |-> j.id, pri |-> j.pri,
          brief |-> j.brief, tasks |-> j.tasks, todo |-> j.todo]
  /\ j.id \in Nat /\ j.pri \in Nat
  /\ j.brief \in Briefs
  /\ DOMAIN j.tasks \subseteq Nat
  /\ j.tasks \in [DOMAIN j.tasks -> Tasks]
  /\ j.todo \subseteq Nat

TaskFilesOK ==
  /\ tasks = [s \in Slugs |-> tasks[s]]
  /\ \A s \in Slugs : Live(s) \subseteq Nat /\ tasks[s] \in [Live(s) -> Tasks]

JobsOK ==
  /\ pc \in [Procs -> {"idle", "wait", "locked", "create", "bump", "unlink",
                       "rewrite", "shift", "stamp", "finished", "failed"}]
  /\ job = [p \in Procs |-> job[p]]
  /\ \A p \in Procs :
       /\ IsJob(job[p])
       /\ pc[p] # "idle" => job[p].slug \in Slugs /\ job[p].cmd \in Commands

\* Type invariant: every variable holds a value of its kind.
TypeOK ==
  /\ brief \in [Slugs -> Briefs]
  /\ TaskFilesOK
  /\ JobsOK
  /\ lock \in [Slugs -> Procs \cup {NoProc}]
  /\ dead \subseteq Procs
  /\ ops \in Nat
  /\ issued \in [Slugs -> SUBSET Nat]
  /\ acked \subseteq Edits

\* A number that was given to a task once is never given to another one, in
\* whatever order adds and deletes run and wherever a process dies: the mark in
\* the brief and the files on disk together remember the highest number.
IdsNeverReissued ==
  [][\A s \in Slugs :
       \A i \in DOMAIN tasks'[s] \ Live(s) : i \notin issued[s]]_vars

\* The commands on the task files are, seen from outside, an id allocator that
\* only ever counts up.
Allocator == INSTANCE IdAllocator WITH live <- [s \in Slugs |-> Live(s)]
ImplementsAllocator == Allocator!SpecAlloc

\* An edit whose command reported success is still in the file: a brief field
\* that set or touch wrote, a note line that task.edit --append wrote (unless
\* the task has been deleted since).  No later command writes back a copy it
\* read before the edit.
NoLostEdit ==
  \A e \in acked :
    IF e.file = 0 THEN e.by \in brief[e.slug].edits
    ELSE e.file \in Live(e.slug) => e.by \in tasks[e.slug][e.file].notes

\* The files new against the files old that a reorder of task n to priority q read:
\* nothing but priorities has changed, task n stands where it was or where it is to
\* be, and no sibling has passed another.
OnlyPriorities(old, new, n, q) ==
  /\ DOMAIN new = DOMAIN old
  /\ \A i \in DOMAIN old : new[i].status = old[i].status /\ new[i].notes = old[i].notes
  /\ new[n].pri \in {old[n].pri, q}
  /\ \A i, k \in DOMAIN old \ {n} : old[i].pri < old[k].pri => new[i].pri <= new[k].pri

\* Task n stands at q, alone: the siblings that were above that place are above
\* it, the others behind it, in the order they had.
OrderAsAsked(old, new, n, q) ==
  /\ new[n].pri = q
  /\ \A i \in DOMAIN old \ {n} : IF old[i].pri < q THEN new[i].pri < q ELSE q < new[i].pri
  /\ \A i, k \in DOMAIN old \ {n} : old[i].pri < old[k].pri <=> new[i].pri < new[k].pri

\* task.reorder writes its files one by one.  After each of them, wherever the
\* command dies, only priorities have moved and no sibling has passed another; when
\* the last one is written the order is exactly the one that was asked for.
ReorderExact ==
  [][\A p \in Procs :
       LET j == job[p]
           new == tasks'[j.slug]
       IN
       j.cmd = "reorder" /\ pc[p] = "shift" =>
         /\ OnlyPriorities(j.tasks, new, j.id, j.pri)
         /\ pc'[p] = "finished" => OrderAsAsked(j.tasks, new, j.id, j.pri)]_vars

\* Every command that starts ends, without help from the lock timeout: a lock
\* whose holder died is taken over by a waiter.
CommandsEnd == \A p \in Procs : pc[p] # "idle" ~> pc[p] = "idle"

=============================================================================
