----------------------------- MODULE TaskPlans ------------------------------
(***************************************************************************)
(* Parents and dependencies of tasks, which task.edit and task.apply write *)
(* after a check against an index of every task of the root.  An edit      *)
(* reads the index under the lock of its own initiative; a plan reads it   *)
(* once, before any lock, and keeps it up to date with its own writes.     *)
(* A plan may be killed anywhere, or fail to write, and be run again.      *)
(***************************************************************************)
EXTENDS Naturals, Sequences, FiniteSets, SequencesExt

CONSTANTS
  Procs, NoProc,
  Slugs,       \* initiatives
  Ids, NoId,   \* task ids, which may be filed in several initiatives
  Tags,
  DepOf,       \* DepOf[g]: the dependency that a tag of the old form stands for, or NoId
  Lines,       \* lines of notes
  NoValue,     \* no such argument
  StartTasks,  \* what may be filed at the start
  Edits,       \* task.edit calls, by their arguments
  Plans,       \* task.apply calls, by their parsed plans
  MaxCalls,    \* bound: calls
  MaxFaults    \* bound: kills and failed writes

\* A task, the arguments of an edit, and the lines of a plan.
Task == [there : BOOLEAN, done : BOOLEAN, parent : Ids \cup {NoId}, field : BOOLEAN, dep : SUBSET Ids,
         tags : SUBSET Tags, notes : [Lines -> Nat]]
EditCall == [kind : {"edit"}, slug : Slugs, id : Ids, parent : Ids \cup {NoId}, add : SUBSET Ids, remove : SUBSET Ids,
             append : Lines \cup {NoValue}, addTag : Tags \cup {NoValue}, removeTag : Tags \cup {NoValue}]
Operation == [op : {"done"}, value : {NoValue}] \cup [op : {"append"}, value : Lines]
               \cup [op : {"add_tag", "remove_tag"}, value : Tags] \cup [op : {"set_parent", "add_dep"}, value : Ids]
PlanLine == [slug : Slugs, id : Ids, ops : Seq(Operation), ok : BOOLEAN]

ASSUME PlansAssumption ==
  /\ NoProc \notin Procs /\ NoId \notin Ids /\ NoValue \notin Tags \cup Lines \cup Slugs \cup Plans
  /\ IsFiniteSet(Slugs)
  /\ DepOf \in [Tags -> Ids \cup {NoId}]
  /\ Edits \subseteq EditCall /\ Plans \subseteq [kind : {"apply"}, dry : BOOLEAN, lines : Seq(PlanLine)]
  /\ {MaxCalls, MaxFaults} \subseteq Nat

VARIABLES
  tasks,   \* tasks[s][i]: the file of task i in initiative s
  lock,    \* lock[s]: who holds the lock of the initiative
  proc,    \* proc[p]: what process p does
  calls,   \* calls so far
  faults,  \* kills and failed writes so far
  crossed, \* history: something was written on an index that the disk had left behind
  overtaken, \* history: so it was, about the initiative that was written to
  tagged,  \* history: a tag that stands for a dependency was added
  base     \* history: the plan that has had the root for itself since base.tasks, its
           \* runs since one last wrote half of a task, and whether one of them ended well

plansVars == <<tasks, lock, proc, calls, faults, crossed, overtaken, tagged, base>>

NoTask == [there |-> FALSE, done |-> FALSE, parent |-> NoId, field |-> FALSE, dep |-> {}, tags |-> {},
           notes |-> [l \in Lines |-> 0]]
NoIndex == [s \in Slugs |-> [i \in Ids |-> NoTask]]
NoBase == [plan |-> NoValue, tasks |-> NoIndex, runs |-> {}, ended |-> FALSE]
Idle == [at |-> "idle", call |-> NoValue, slug |-> NoValue, rest |-> {}, todo |-> {}, index |-> NoIndex,
         next |-> NoTask, failed |-> FALSE, missed |-> {}]

----------------------------------------------------------------------------
(* What an edit or a line of a plan makes of a task.                        *)

\* readEdges: the field, or the tags when there is none.
ReadDeps(task) == IF task.field THEN task.dep ELSE {DepOf[g] : g \in task.tags} \ {NoId}

\* patchChange, for an edit: the field starts from what readEdges reads.
Patched(task, e) ==
  LET deps == (ReadDeps(task) \cup e.add) \ e.remove
      same == deps = ReadDeps(task)
  IN  [task EXCEPT !.parent = IF e.parent = NoId THEN @ ELSE e.parent,
                   !.field = @ \/ ~same, !.dep = IF same THEN @ ELSE deps,
                   !.notes = [l \in Lines |-> IF l = e.append THEN @[l] + 1 ELSE @[l]],
                   !.tags = (@ \cup ({e.addTag} \ {NoValue})) \ {e.removeTag}]

AddsEdge(task, next) ==
  next.parent # task.parent \/ (next.field /\ next.dep \ ReadDeps(task) # {})

Homes(index, i) == {s \in Slugs : index[s][i].there}

\* applyEdgeOp, add_dep: other dependencies of the tags are carried into the field only
\* when they name a task that is filed once.
Carried(task, id, index) ==
  IF task.field THEN task.dep
  ELSE {d \in ReadDeps(task) : d # id /\ Cardinality(Homes(index, d)) = 1}

\* Mutant: a line of notes is appended again by every run.
AppendedAgain(task, l) == [task EXCEPT !.notes[l] = @ + 1]

\* A plan appends a line once.
Appended(task, l) == IF task.notes[l] > 0 THEN task ELSE [task EXCEPT !.notes[l] = @ + 1]

Stepped(task, id, o, index) ==
  CASE o.op = "done"       -> [task EXCEPT !.done = TRUE]
    [] o.op = "append"     -> Appended(task, o.value)
    [] o.op = "add_tag"    -> [task EXCEPT !.tags = @ \cup {o.value}]
    [] o.op = "remove_tag" -> [task EXCEPT !.tags = @ \ {o.value}]
    [] o.op = "set_parent" -> [task EXCEPT !.parent = o.value]
    [] o.op = "add_dep"    ->
         IF task.field /\ o.value \in task.dep THEN task
         ELSE [task EXCEPT !.field = TRUE, !.dep = Carried(task, id, index) \cup {o.value}]

----------------------------------------------------------------------------
(* The check of the edges that a write would add.                           *)

\* The tasks that the check sees: of the edited id, only the copy that is edited.
Graph(index, s, i) == {x \in Slugs \X Ids : index[x[1]][x[2]].there /\ (x[2] = i => x[1] = s)}

ParentEdges(index, nodes) ==
  {<<x[2], index[x[1]][x[2]].parent>> : x \in {y \in nodes : index[y[1]][y[2]].parent # NoId}}
DepEdges(index, nodes) == UNION {{<<x[2], d>> : d \in ReadDeps(index[x[1]][x[2]])} : x \in nodes}

\* From one id the edges lead to another: no set of ids that they do not leave parts the two.
Reaches(edge, from, to) ==
  \A S \in SUBSET Ids : from \in S /\ (\A e \in edge : e[1] \in S => e[2] \in S) => to \in S

Everyone(index) == {x \in Slugs \X Ids : index[x[1]][x[2]].there}
Cyclic(edge) == \E i \in Ids : \E e \in edge : e[1] = i /\ Reaches(edge, e[2], i)

\* What is filed at the start was written by such calls: the field hides the tags, a parent
\* is filed where its child is and nowhere else, and nothing is in a circle.
ASSUME StartTasksAssumption ==
  \A start \in StartTasks :
    /\ start \in [Slugs -> [Ids -> Task]]
    /\ \A s \in Slugs, i \in Ids :
         /\ start[s][i].field \/ start[s][i].dep = {}
         /\ start[s][i].there /\ start[s][i].parent # NoId => Homes(start, start[s][i].parent) = {s}
    /\ ~Cyclic(ParentEdges(start, Everyone(start))) /\ ~Cyclic(DepEdges(start, Everyone(start)))

\* An id that is named but unknown, or filed twice; a parent elsewhere; a cycle that
\* the new edge closes.  (An edge that was there already is not blamed.)
Refused(index, s, i, parent, dep) ==
  LET nodes == Graph(index, s, i)
      had == IF index[s][i].there THEN ReadDeps(index[s][i]) ELSE {}
      named == ({parent} \ {NoId}) \cup (dep \ had)
  IN  \/ \E r \in named : Cardinality(Homes(index, r)) >= 2 \/ ~\E x \in nodes : x[2] = r
      \/ parent # NoId /\ Cardinality(Homes(index, parent)) = 1 /\ Homes(index, parent) # {s}
      \/ parent # NoId /\ Reaches(ParentEdges(index, nodes), parent, i)
      \/ \E d \in dep \ had : Reaches(DepEdges(index, nodes), d, i)

\* edgeErrors, for a line of a plan: the fields that it changed.
LineRefused(index, s, i, task, next) ==
  LET parent == IF next.parent = task.parent THEN NoId ELSE next.parent
      dep == IF next.dep = task.dep THEN {} ELSE next.dep
  IN  (parent # NoId \/ dep # {}) /\ Refused(index, s, i, parent, dep)

----------------------------------------------------------------------------
(* One line after the other, for one task.                                  *)

Line(p, n) == proc[p].call.lines[n]

\* The operations of a line, in their order.
Operated(task, id, ops, index) ==
  LET made[n \in 0..Len(ops)] == IF n = 0 THEN task ELSE Stepped(made[n - 1], id, ops[n], index)
  IN  made[Len(ops)]

\* applyEntry on what the lines before it made: [task, index, failed].
Entered(acc, s, i, line) ==
  LET next == Operated(acc.task, i, line.ops, acc.index)
      refused == LineRefused(acc.index, s, i, acc.task, next)
  IN  IF refused THEN [acc EXCEPT !.failed = TRUE]
      ELSE [acc EXCEPT !.task = next, !.index[s][i] = IF acc.index[s][i].there THEN next ELSE @]

\* The lines of a plan that name the same task, in the order of the plan.
LinesOf(p, s, i) == {n \in proc[p].rest : Line(p, n).slug = s /\ Line(p, n).id = i}

TaskRun(p, s, i) ==
  LET run[n \in 0..Len(proc[p].call.lines)] ==
        IF n = 0 THEN [task |-> tasks[s][i], index |-> proc[p].index, failed |-> FALSE]
        ELSE IF n \in LinesOf(p, s, i) THEN Entered(run[n - 1], s, i, Line(p, n)) ELSE run[n - 1]
  IN  run[Len(proc[p].call.lines)]

EdgeOps(line) == line.ok /\ \E n \in DOMAIN line.ops : line.ops[n].op \in {"set_parent", "add_dep"}
Valid(call) == {n \in DOMAIN call.lines : call.lines[n].ok}
First(rest) == CHOOSE n \in rest : \A m \in rest : n <= m

----------------------------------------------------------------------------
(* Steps.                                                                   *)

Set(p, fields) == proc' = [proc EXCEPT ![p] = fields]
NothingWritten == UNCHANGED <<tasks, crossed, overtaken, tagged>>

\* A call gives a task a tag of the old form: a dependency that the check does not look at.
AddsOldTag(call, s, i) ==
  \/ call.kind = "edit" /\ call.addTag # NoValue /\ DepOf[call.addTag] # NoId
  \/ /\ call.kind = "apply"
     /\ \E n \in Valid(call) :
          /\ call.lines[n].slug = s /\ call.lines[n].id = i
          /\ \E o \in Range(call.lines[n].ops) : o.op = "add_tag" /\ DepOf[o.value] # NoId

\* p writes a task, on an index if the write was checked.  When its edges change, every
\* other index that holds the task has missed that.
Write(p, s, i, task, checked, fields) ==
  LET edges == task.parent # tasks[s][i].parent \/ ReadDeps(task) # ReadDeps(tasks[s][i])
  IN  /\ tasks' = [tasks EXCEPT ![s][i] = task]
      /\ crossed' = (crossed \/ (checked /\ proc[p].missed # {}))
      /\ overtaken' = (overtaken \/ (checked /\ s \in proc[p].missed))
      /\ tagged' = (tagged \/ AddsOldTag(proc[p].call, s, i))
      /\ proc' = [q \in Procs |-> IF q = p THEN fields
                    ELSE IF edges /\ proc[q].index[s][i].there THEN [proc[q] EXCEPT !.missed = @ \cup {s}]
                    ELSE proc[q]]

StartEdit(p, e) ==
  /\ proc[p].at = "idle" /\ calls < MaxCalls /\ calls' = calls + 1
  /\ Set(p, [Idle EXCEPT !.at = "enter", !.call = e, !.slug = e.slug])
  /\ NothingWritten /\ UNCHANGED <<lock, faults, base>>

\* readPlan, parsePlan; the index is loaded only for a plan with edges.
StartPlan(p, call) ==
  LET reads == IF \E n \in DOMAIN call.lines : EdgeOps(call.lines[n]) THEN Everyone(tasks) ELSE {} IN
  /\ proc[p].at = "idle" /\ calls < MaxCalls /\ calls' = calls + 1
  /\ Set(p, [Idle EXCEPT !.call = call, !.rest = Valid(call), !.failed = Valid(call) # DOMAIN call.lines,
               !.at = IF reads = {} THEN "group" ELSE "load", !.todo = reads])
  /\ base' = IF call = base.plan THEN [base EXCEPT !.runs = @ \cup {p}]
             ELSE [plan |-> call, tasks |-> tasks, runs |-> {p}, ended |-> FALSE]
  /\ NothingWritten /\ UNCHANGED <<lock, faults>>

\* loadEdgeIndex reads one file after the other, an initiative at a time and without its lock.
\* (No command here adds a task or deletes one.)
LoadTask(p, s, i) ==
  /\ proc[p].at = "load" /\ <<s, i>> \in proc[p].todo
  /\ \A t \in Slugs \ {s} : LET files == {x \in Everyone(tasks) : x[1] = t}
                           IN  files \subseteq proc[p].todo \/ files \cap proc[p].todo = {}
  /\ Set(p, [proc[p] EXCEPT !.index[s][i] = tasks[s][i], !.todo = @ \ {<<s, i>>},
               !.at = IF proc[p].todo # {<<s, i>>} THEN @
                      ELSE IF proc[p].call.kind = "edit" THEN "write" ELSE "group"])
  /\ NothingWritten /\ UNCHANGED <<lock, calls, faults, base>>

\* The next initiative of a plan is that of the first line that is left.
NextSlug(p) ==
  /\ proc[p].at = "group"
  /\ IF proc[p].rest = {} THEN Set(p, [proc[p] EXCEPT !.at = "report"])
     ELSE Set(p, [proc[p] EXCEPT !.at = "enter", !.slug = Line(p, First(proc[p].rest)).slug])
  /\ NothingWritten /\ UNCHANGED <<lock, calls, faults, base>>

Enter(p) ==
  /\ proc[p].at = "enter" /\ lock[proc[p].slug] = NoProc
  /\ lock' = [lock EXCEPT ![proc[p].slug] = p]
  /\ Set(p, [proc[p] EXCEPT !.at = IF proc[p].call.kind = "edit" THEN "read" ELSE "apply"])
  /\ NothingWritten /\ UNCHANGED <<calls, faults, base>>

\* task.edit under its lock: nothing to do, an edge to check first, or a plain write.
ReadTask(p) ==
  LET s == proc[p].slug
      task == tasks[s][proc[p].call.id]
      next == Patched(task, proc[p].call)
  IN  /\ proc[p].at = "read"
      /\ IF ~task.there \/ next = task
         THEN Set(p, Idle) /\ lock' = [lock EXCEPT ![s] = NoProc]
         ELSE /\ Set(p, [proc[p] EXCEPT !.next = next, !.at = IF AddsEdge(task, next) THEN "load" ELSE "write",
                           !.todo = IF AddsEdge(task, next) THEN Everyone(tasks) ELSE {}])
              /\ UNCHANGED lock
      /\ NothingWritten /\ UNCHANGED <<calls, faults, base>>

\* assertEdgeWrite, for an edit: the parent and the field if it changed them.
EditRefused(p, task) ==
  AddsEdge(task, proc[p].next) /\
    Refused(proc[p].index, proc[p].slug, proc[p].call.id,
            IF proc[p].next.parent = task.parent THEN NoId ELSE proc[p].next.parent,
            IF proc[p].next.field /\ proc[p].next.dep # ReadDeps(task) THEN proc[p].next.dep ELSE {})

WriteTask(p) ==
  LET s == proc[p].slug
      i == proc[p].call.id
  IN  /\ proc[p].at = "write"
      /\ IF EditRefused(p, tasks[s][i]) THEN NothingWritten /\ Set(p, Idle) /\ UNCHANGED base
         ELSE Write(p, s, i, proc[p].next, AddsEdge(tasks[s][i], proc[p].next), Idle) /\ base' = NoBase
      /\ lock' = [lock EXCEPT ![s] = NoProc]
      /\ UNCHANGED <<calls, faults>>

\* Mutant: a task that could not be written stays in the index as if it had been.
RolledBackNot(index, s, i, written, original) == [index EXCEPT ![s][i] = written]

\* writeOrRollBack: the index is put back to what the run read from the file.
RolledBack(index, s, i, written, original) ==
  IF index[s][i].there THEN [index EXCEPT ![s][i] = original] ELSE index

\* applyTaskSafely: every line of the task of the first line that is left in this
\* initiative, and one write.  A task that is missing is reported, and is no failure.
ApplyTask(p, writes) ==
  LET s == proc[p].slug
      here == {n \in proc[p].rest : Line(p, n).slug = s}
      i == Line(p, First(here)).id
      run == TaskRun(p, s, i)
      dirty == tasks[s][i].there /\ run.task # tasks[s][i] /\ ~proc[p].call.dry
      then == [proc[p] EXCEPT !.rest = @ \ LinesOf(p, s, i),
                 !.failed = @ \/ (tasks[s][i].there /\ run.failed) \/ ~writes,
                 !.index = IF ~tasks[s][i].there THEN @
                           ELSE IF writes THEN run.index
                           ELSE RolledBack(run.index, s, i, run.task, tasks[s][i])]
  IN  /\ proc[p].at = "apply" /\ here # {}
      /\ ~writes => dirty /\ faults < MaxFaults
      /\ faults' = IF writes THEN faults ELSE faults + 1
      /\ IF dirty /\ writes
         THEN /\ Write(p, s, i, run.task, proc[p].index # NoIndex, then)
              /\ base' = IF p \notin base.runs THEN NoBase
                         ELSE IF run.failed THEN [base EXCEPT !.runs = {p}, !.ended = FALSE] ELSE base
         ELSE NothingWritten /\ Set(p, then) /\ UNCHANGED base
      /\ UNCHANGED <<lock, calls>>

LeaveSlug(p) ==
  /\ proc[p].at = "apply" /\ {n \in proc[p].rest : Line(p, n).slug = proc[p].slug} = {}
  /\ lock' = [lock EXCEPT ![proc[p].slug] = NoProc]
  /\ Set(p, [proc[p] EXCEPT !.at = "group", !.slug = NoValue])
  /\ NothingWritten /\ UNCHANGED <<calls, faults, base>>

Report(p) ==
  /\ proc[p].at = "report"
  /\ base' = [base EXCEPT !.runs = @ \ {p}, !.ended = @ \/ (p \in base.runs /\ ~proc[p].failed /\ ~proc[p].call.dry)]
  /\ Set(p, Idle) /\ NothingWritten /\ UNCHANGED <<lock, calls, faults>>

\* A kill; the lock of the dead is free once it is stale, which waiters outlast.
KillCall(p) ==
  /\ proc[p].at # "idle" /\ faults < MaxFaults /\ faults' = faults + 1
  /\ lock' = [s \in Slugs |-> IF lock[s] = p THEN NoProc ELSE lock[s]]
  /\ base' = [base EXCEPT !.runs = @ \ {p}]
  /\ Set(p, Idle) /\ NothingWritten /\ UNCHANGED calls

PlansInit ==
  /\ tasks \in StartTasks
  /\ lock = [s \in Slugs |-> NoProc] /\ proc = [p \in Procs |-> Idle]
  /\ calls = 0 /\ faults = 0 /\ crossed = FALSE /\ overtaken = FALSE /\ tagged = FALSE /\ base = NoBase

PlansNext ==
  \E p \in Procs :
    \/ \E e \in Edits : StartEdit(p, e)
    \/ \E call \in Plans : StartPlan(p, call)
    \/ \E s \in Slugs, i \in Ids : LoadTask(p, s, i)
    \/ NextSlug(p) \/ Enter(p) \/ ReadTask(p) \/ WriteTask(p)
    \/ \E writes \in BOOLEAN : ApplyTask(p, writes)
    \/ LeaveSlug(p) \/ Report(p) \/ KillCall(p)

PlansSpec == PlansInit /\ [][PlansNext]_plansVars

----------------------------------------------------------------------------
(* Properties.                                                              *)

\* The check is enough, for parents and for dependencies: a cycle is only ever closed
\* by a write whose index the disk had left behind, or by a tag that stands for a dependency and
\* is not checked at all, and a cycle of parents, which are all
\* in one initiative, only by a plan that has read that initiative before it took its
\* lock (writeGraphErrors, assertEdgeWrite, edgeErrors).
EdgesAcyclic ==
  LET parents == Cyclic(ParentEdges(tasks, Everyone(tasks)))
      deps == Cyclic(DepEdges(tasks, Everyone(tasks)))
  IN  (parents => crossed /\ overtaken) /\ (deps => crossed \/ tagged)

\* The operations of a plan on one task, by their places: the line, and where in it.
Places(plan, s, i) ==
  UNION {{<<n, m>> : m \in DOMAIN plan.lines[n].ops} :
           n \in {v \in Valid(plan) : plan.lines[v].slug = s /\ plan.lines[v].id = i}}
OpAt(plan, x) == plan.lines[x[1]].ops[x[2]]
Before(x, y) == x[1] < y[1] \/ (x[1] = y[1] /\ x[2] < y[2])

Saying(plan, at, names, values) == {x \in at : OpAt(plan, x).op \in names /\ OpAt(plan, x).value \in values}
Says(plan, at, names, values) == Saying(plan, at, names, values) # {}
\* The last of them, if there is any.
LastOf(plan, at, names, values) ==
  {x \in Saying(plan, at, names, values) : ~\E y \in Saying(plan, at, names, values) : Before(x, y)}

\* What a plan says at some places, of a task that was `was` when it was first run.
IsAsSaid(was, is, plan, at) ==
  LET added == {d \in Ids : Says(plan, at, {"add_dep"}, {d})}
      tagging == {"add_tag", "remove_tag"}
  IN  /\ is.there = was.there
      /\ is.done <=> was.done \/ Says(plan, at, {"done"}, {NoValue})
      /\ IF Says(plan, at, {"set_parent"}, Ids)
         THEN \E x \in LastOf(plan, at, {"set_parent"}, Ids) : is.parent = OpAt(plan, x).value
         ELSE is.parent = was.parent
      /\ \A g \in Tags : g \in is.tags <=>
           IF Says(plan, at, tagging, {g}) THEN \E x \in LastOf(plan, at, tagging, {g}) : OpAt(plan, x).op = "add_tag"
           ELSE g \in was.tags
      /\ \A l \in Lines : is.notes[l] = IF Says(plan, at, {"append"}, {l}) /\ was.notes[l] = 0 THEN 1 ELSE was.notes[l]
      /\ added \subseteq ReadDeps(is)
      /\ ReadDeps(is) \subseteq ReadDeps(was) \cup added \cup {DepOf[g] : g \in {h \in Tags : Says(plan, at, {"add_tag"}, {h})}}

\* A plan that has ended well says how every task is that is not missing, whatever runs of it were killed or
\* failed before and however often it is run again, beside itself too, until a run of it
\* refuses a line and writes the others of the task: what the run had read of the edges may be
\* old, and a later line may have turned round an edge that an earlier one had asked for.
PlanLands ==
  base.ended => \A s \in Slugs, i \in Ids :
                  IF base.tasks[s][i].there
                  THEN IsAsSaid(base.tasks[s][i], tasks[s][i], base.plan, Places(base.plan, s, i))
                  ELSE tasks[s][i] = base.tasks[s][i]
=============================================================================
