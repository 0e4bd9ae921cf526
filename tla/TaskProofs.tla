----------------------------- MODULE TaskProofs -----------------------------
(***************************************************************************)
(* What TaskStore promises, proved for every set of processes and          *)
(* initiatives and every bound.  The argument: a process past Acquire is   *)
(* alive and is the only one past Acquire on its initiative, so what it    *)
(* read there is still so when it writes; and the mark in the brief        *)
(* together with the files on disk never forgets the highest number.       *)
(* First come the types: a process that is about to write back a task file *)
(* must have read it, which is what PhaseOK adds to TypeOK.                *)
(*                                                                         *)
(* Then, that no set of processes waits on each other's locks in a circle, *)
(* for every number of initiatives and of processes of either kind.  The   *)
(* commands on the list of FocusList take several locks, each in sorted    *)
(* order; the task commands take one and never wait while they hold it.  A *)
(* lock that a waiter of a circle waits for is then below the one its      *)
(* holder waits for, and the highest of them cannot be.                    *)
(***************************************************************************)
EXTENDS FocusList, FiniteSetTheorems, WellFoundedInduction, TLAPS

Inside == {"locked", "create", "bump", "unlink", "rewrite", "shift", "stamp",
           "finished", "failed"}

\* Where a process can be when it remembers j.
Phase(x, j) ==
  /\ x = "create" => j.cmd = "add"
  /\ x \in {"bump", "unlink"} => j.cmd = "delete"
  /\ x = "stamp" => j.cmd = "set"
  /\ x = "rewrite" => j.cmd \in TaskEdits /\ j.id \in DOMAIN j.tasks
  /\ x = "shift" => /\ j.cmd = "reorder"
                    /\ j.id \in DOMAIN j.tasks /\ j.todo \subseteq DOMAIN j.tasks

PhaseOK == \A p \in Procs : Phase(pc[p], job[p])

TInv == TypeOK /\ PhaseOK

----------------------------------------------------------------------------
(* Type correctness                                                         *)

\* What a process remembers stays a job when parts of it are replaced.
LEMMA NewIsJob ==
  ASSUME NEW c, NEW s, NEW i \in Nat, NEW q \in Nat
  PROVE  LET k == NewJob(c, s, i, q)
         IN IsJob(k) /\ k.slug = s /\ k.cmd = c
BY DEF IsJob, NewJob, BlankBrief, NewTask, Briefs, States, Tasks

LEMMA IdleIsJob == IsJob(IdleJob)
BY NewIsJob DEF IdleJob

LEMMA JobId ==
  ASSUME NEW j, IsJob(j), NEW i \in Nat
  PROVE  LET k == [j EXCEPT !.id = i]
         IN IsJob(k) /\ k.slug = j.slug /\ k.cmd = j.cmd
BY DEF IsJob

LEMMA JobPri ==
  ASSUME NEW j, IsJob(j), NEW q \in Nat
  PROVE  LET k == [j EXCEPT !.pri = q]
         IN IsJob(k) /\ k.slug = j.slug /\ k.cmd = j.cmd
BY DEF IsJob

LEMMA JobBrief ==
  ASSUME NEW j, IsJob(j), NEW b \in Briefs
  PROVE  LET k == [j EXCEPT !.brief = b]
         IN IsJob(k) /\ k.slug = j.slug /\ k.cmd = j.cmd
BY DEF IsJob

LEMMA JobTasks ==
  ASSUME NEW j, IsJob(j), NEW D \in SUBSET Nat, NEW f \in [D -> Tasks]
  PROVE  LET k == [j EXCEPT !.tasks = f]
         IN IsJob(k) /\ k.slug = j.slug /\ k.cmd = j.cmd
BY DEF IsJob

LEMMA JobTodo ==
  ASSUME NEW j, IsJob(j), NEW T \in SUBSET Nat
  PROVE  LET k == [j EXCEPT !.todo = T]
         IN IsJob(k) /\ k.slug = j.slug /\ k.cmd = j.cmd
BY DEF IsJob

\* A running process that goes on with the same command keeps the jobs typed.
LEMMA JobStep ==
  ASSUME JobsOK, PhaseOK, NEW p \in Procs, pc[p] # "idle", NEW k, IsJob(k),
         k.slug = job[p].slug, k.cmd = job[p].cmd,
         job' = [job EXCEPT ![p] = k],
         NEW x \in Inside, Phase(x, k), pc' = [pc EXCEPT ![p] = x]
  PROVE  JobsOK' /\ PhaseOK'
<1>1. JobsOK'
  BY DEF JobsOK, Inside
<1>2. \A q \in Procs : Phase(pc'[q], job'[q])
  <2> SUFFICES ASSUME NEW q \in Procs PROVE Phase(pc'[q], job'[q])
    OBVIOUS
  <2>1. CASE q = p
    <3>1. pc'[q] = x /\ job'[q] = k
      BY <2>1 DEF JobsOK
    <3> QED
      BY <3>1
  <2>2. CASE q # p
    <3>1. pc'[q] = pc[q] /\ job'[q] = job[q]
      BY <2>2 DEF JobsOK
    <3> QED
      BY <3>1 DEF PhaseOK
  <2> QED
    BY <2>1, <2>2
<1> QED
  BY <1>1, <1>2 DEF PhaseOK

LEMMA JobEnds ==
  ASSUME JobsOK, PhaseOK, NEW p \in Procs, job' = [job EXCEPT ![p] = IdleJob],
         pc' = [pc EXCEPT ![p] = "idle"]
  PROVE  JobsOK' /\ PhaseOK'
BY IdleIsJob DEF JobsOK, PhaseOK, Phase

LEMMA JobGoesOn ==
  ASSUME JobsOK, PhaseOK, NEW p \in Procs, pc[p] # "idle", UNCHANGED job,
         NEW x \in Inside, Phase(x, job[p]), pc' = [pc EXCEPT ![p] = x]
  PROVE  JobsOK' /\ PhaseOK'
<1>1. IsJob(job[p]) /\ job' = [job EXCEPT ![p] = job[p]]
  BY DEF JobsOK
<1> QED
  BY <1>1, JobStep

\* Replacing one initiative's task files by others.
LEMMA TaskFilesStep ==
  ASSUME TaskFilesOK, NEW s \in Slugs, NEW D \in SUBSET Nat, NEW f \in [D -> Tasks],
         tasks' = [tasks EXCEPT ![s] = f]
  PROVE  TaskFilesOK'
BY DEF TaskFilesOK, Live

LEMMA WriteOne ==
  ASSUME TaskFilesOK, NEW s \in Slugs, NEW i \in Nat, NEW t \in Tasks,
         WriteTask(s, i, t)
  PROVE  TaskFilesOK'
<1> DEFINE f == [k \in DOMAIN tasks[s] \cup {i} |-> IF k = i THEN t ELSE tasks[s][k]]
<1>1. f \in [DOMAIN tasks[s] \cup {i} -> Tasks] /\ DOMAIN tasks[s] \cup {i} \subseteq Nat
  BY DEF TaskFilesOK, Live
<1>2. tasks' = [tasks EXCEPT ![s] = f]
  BY DEF WriteTask
<1> HIDE DEF f
<1> QED
  BY <1>1, <1>2, TaskFilesStep

LEMMA InitType == Init => TInv
<1> SUFFICES ASSUME Init PROVE TInv
  OBVIOUS
<1>1. PICK n \in [Slugs -> 0..MaxExisting] :
        /\ tasks = [s \in Slugs |-> [i \in 1..n[s] |-> NewTask(i)]]
        /\ issued = [s \in Slugs |-> 1..n[s]]
  BY DEF Init, InitWith
<1>2. \A s \in Slugs : Live(s) \subseteq Nat /\ tasks[s] \in [Live(s) -> Tasks]
  BY <1>1 DEF Live, NewTask, Tasks
<1>3. brief \in [Slugs -> Briefs]
  BY DEF Init, InitWith, BlankBrief, Briefs, States
<1>4. issued \in [Slugs -> SUBSET Nat]
  BY <1>1
<1>5. JobsOK /\ PhaseOK
  BY IdleIsJob DEF Init, InitWith, JobsOK, PhaseOK, Phase
<1> QED
  BY <1>1, <1>2, <1>3, <1>4, <1>5, BoundAssumption
     DEF Init, InitWith, TInv, TypeOK, TaskFilesOK

\* Every step of every process keeps the types.
LEMMA StepType ==
  ASSUME TInv, NEW p \in Procs, Step(p)
  PROVE  TInv'
<1> USE DEF TInv, TypeOK, Inside
<1> DEFINE j == job[p]
           s == j.slug
<1>j. IsJob(j) /\ (pc[p] # "idle" => s \in Slugs /\ j.cmd \in Commands) /\ Phase(pc[p], j)
  BY DEF JobsOK, PhaseOK
<1>t. s \in Slugs => Live(s) \subseteq Nat /\ tasks[s] \in [Live(s) -> Tasks]
  BY DEF TaskFilesOK
<1>1. CASE Acquire(p)
  BY <1>1, <1>j, JobGoesOn DEF Acquire, Phase, TaskFilesOK, Live
<1>2. CASE Release(p)
  <2>1. JobsOK' /\ PhaseOK'
    BY <1>2, JobEnds DEF Release
  <2>2. acked' \subseteq Edits
    BY <1>2, <1>j DEF Release, Edits, IsJob
  <2> QED
    BY <1>2, <1>j, <2>1, <2>2 DEF Release, TaskFilesOK, Live
<1>3. CASE AddAllocate(p)
  <2>1. PICK onDisk \in Live(s) \cup {0}, maxPri \in {tasks[s][i].pri : i \in Live(s)} \cup {0} :
          job' = [job EXCEPT ![p] =
            [[@ EXCEPT !.id = NextNumber(s, onDisk)]
               EXCEPT !.pri = IF j.pri = 0 THEN maxPri + 1 ELSE j.pri]]
    BY <1>3 DEF AddAllocate
  <2>2. s \in Slugs /\ onDisk \in Nat /\ maxPri \in Nat
    BY <1>3, <1>j, <1>t DEF AddAllocate, Holding, Tasks
  <2>3. NextNumber(s, onDisk) \in Nat
    BY <2>2 DEF NextNumber, Larger, Briefs
  <2> DEFINE h == [j EXCEPT !.id = NextNumber(s, onDisk)]
  <2>4. IsJob(h) /\ h.slug = s /\ h.cmd = j.cmd
    BY <2>3, <1>j, JobId
  <2> DEFINE q == IF j.pri = 0 THEN maxPri + 1 ELSE j.pri
             k == [h EXCEPT !.pri = q]
  <2>5. job' = [job EXCEPT ![p] = k]
    BY <2>1 DEF JobsOK
  <2>6. q \in Nat
    BY <2>2, <1>j DEF IsJob
  <2> HIDE DEF h, q
  <2>7. IsJob(k) /\ k.slug = s /\ k.cmd = j.cmd
    BY <2>4, <2>6, JobPri
  <2> HIDE DEF k
  <2>9. JobsOK' /\ PhaseOK'
    BY <2>5, <2>7, <1>3, JobStep DEF AddAllocate, Holding, Phase
  <2> QED
    BY <2>9, <1>3 DEF AddAllocate, TaskFilesOK, Live
<1>4. CASE AddWrite(p)
  <2>1. NewTask(j.pri) \in Tasks /\ j.id \in Nat /\ s \in Slugs
    BY <1>4, <1>j DEF AddWrite, NewTask, Tasks, IsJob
  <2>2. TaskFilesOK'
    BY <2>1, <1>4, WriteOne DEF AddWrite
  <2>3. JobsOK' /\ PhaseOK'
    BY <1>4, JobGoesOn DEF AddWrite, Finish, Phase
  <2> QED
    BY <2>1, <2>2, <2>3, <1>4 DEF AddWrite
<1>5. CASE DeleteCheck(p)
  <2>1. CASE Fail(p)
    <3>1. JobsOK' /\ PhaseOK'
      BY <2>1, <1>5, JobGoesOn DEF DeleteCheck, Holding, Fail, Phase
    <3> QED
      BY <3>1, <1>5 DEF DeleteCheck, TaskFilesOK, Live
  <2>2. CASE ~ Fail(p)
    <3> DEFINE k == [j EXCEPT !.brief = brief[s]]
               x == IF NeedsBump(s, j.id) THEN "bump" ELSE "unlink"
    <3>1. job' = [job EXCEPT ![p] = k] /\ pc' = [pc EXCEPT ![p] = x] /\ s \in Slugs
      BY <2>2, <1>5, <1>j DEF DeleteCheck, Holding, JobsOK
    <3>2. IsJob(k) /\ k.slug = s /\ k.cmd = j.cmd
      BY <3>1, <1>j, JobBrief
    <3> HIDE DEF k
    <3>3. JobsOK' /\ PhaseOK'
      BY <3>1, <3>2, <1>5, JobStep DEF DeleteCheck, Holding, Phase
    <3> QED
      BY <3>3, <1>5 DEF DeleteCheck, TaskFilesOK, Live
  <2> QED
    BY <2>1, <2>2
<1>6. CASE DeleteBump(p)
  <2>1. [j.brief EXCEPT !.seq = j.id] \in Briefs
    BY <1>j DEF IsJob, Briefs
  <2>2. JobsOK' /\ PhaseOK'
    BY <1>6, <1>j, JobGoesOn DEF DeleteBump, Phase
  <2> QED
    BY <2>1, <2>2, <1>6 DEF DeleteBump, TaskFilesOK, Live
<1>7. CASE DeleteUnlink(p)
  <2> DEFINE D == Live(s) \ {j.id}
             f == [k \in D |-> tasks[s][k]]
  <2>1. s \in Slugs /\ f \in [D -> Tasks] /\ D \subseteq Nat
    BY <1>7, <1>j, <1>t DEF DeleteUnlink, Live
  <2>2. tasks' = [tasks EXCEPT ![s] = f]
    BY <1>7 DEF DeleteUnlink
  <2> HIDE DEF f, D
  <2>3. TaskFilesOK'
    BY <2>1, <2>2, TaskFilesStep
  <2>4. JobsOK' /\ PhaseOK'
    BY <1>7, JobGoesOn DEF DeleteUnlink, Finish, Phase
  <2> QED
    BY <2>3, <2>4, <1>7 DEF DeleteUnlink
<1>8. CASE EditRead(p)
  <2>0. s \in Slugs /\ pc[p] = "locked" /\ j.cmd \in TaskEdits
    BY <1>8, <1>j DEF EditRead, Holding
  <2>1. CASE Fail(p)
    <3>1. JobsOK' /\ PhaseOK'
      BY <2>0, <2>1, JobGoesOn DEF Fail, Phase
    <3> QED
      BY <3>1, <1>8 DEF EditRead, TaskFilesOK, Live
  <2>2. CASE ~ Fail(p)
    <3> DEFINE k == [j EXCEPT !.tasks = tasks[s]]
    <3>1. job' = [job EXCEPT ![p] = k] /\ pc' = [pc EXCEPT ![p] = "rewrite"] /\ j.id \in Live(s)
      BY <2>2, <1>8 DEF EditRead, JobsOK
    <3>2. IsJob(k) /\ k.slug = s /\ k.cmd = j.cmd
      BY <2>0, <1>j, <1>t, JobTasks
    <3>3. k.id = j.id /\ k.tasks = tasks[s]
      BY <1>j DEF IsJob
    <3> HIDE DEF k
    <3>4. JobsOK' /\ PhaseOK'
      BY <2>0, <3>1, <3>2, <3>3, JobStep DEF Phase, Live
    <3> QED
      BY <3>4, <1>8 DEF EditRead, TaskFilesOK, Live
  <2> QED
    BY <2>1, <2>2
<1>9. CASE EditWrite(p)
  <2>1. s \in Slugs /\ j.id \in Nat /\ j.tasks[j.id] \in Tasks /\ j.cmd \in TaskEdits
    BY <1>9, <1>j DEF EditWrite, Phase, IsJob
  <2>2. Edited(j.tasks[j.id], p, j.cmd) \in Tasks
    BY <2>1 DEF Edited, Tasks, TaskEdits
  <2>3. TaskFilesOK'
    BY <2>1, <2>2, <1>9, WriteOne DEF EditWrite
  <2>4. JobsOK' /\ PhaseOK'
    BY <1>9, JobGoesOn DEF EditWrite, Finish, Phase
  <2> QED
    BY <2>3, <2>4, <1>9 DEF EditWrite
<1>10. CASE ReorderRead(p)
  <2>0. s \in Slugs /\ pc[p] = "locked" /\ j.cmd = "reorder"
    BY <1>10, <1>j DEF ReorderRead, Holding
  <2>1. CASE Fail(p)
    <3>1. JobsOK' /\ PhaseOK'
      BY <2>0, <2>1, JobGoesOn DEF Fail, Phase
    <3> QED
      BY <3>1, <1>10 DEF ReorderRead, TaskFilesOK, Live
  <2>2. CASE ~ Fail(p)
    <3> DEFINE T == MovedDown(s, j.id, j.pri)
               h == [j EXCEPT !.tasks = tasks[s]]
               k == [h EXCEPT !.todo = T]
    <3>1. job' = [job EXCEPT ![p] = k] /\ pc' = [pc EXCEPT ![p] = "shift"] /\ j.id \in Live(s)
      BY <2>2, <1>10 DEF ReorderRead, JobsOK
    <3>2. IsJob(h) /\ h.slug = s /\ h.cmd = j.cmd
      BY <2>0, <1>j, <1>t, JobTasks
    <3>3. h.id = j.id /\ h.tasks = tasks[s]
      BY <1>j DEF IsJob
    <3>4. T \subseteq Live(s) /\ T \subseteq Nat
      BY <2>0, <1>t DEF MovedDown
    <3> HIDE DEF h, T
    <3>5. IsJob(k) /\ k.slug = s /\ k.cmd = j.cmd
      BY <3>2, <3>4, JobTodo
    <3>6. k.id = j.id /\ k.tasks = tasks[s] /\ k.todo = T
      BY <3>2, <3>3 DEF IsJob
    <3> HIDE DEF k
    <3>7. JobsOK' /\ PhaseOK'
      BY <2>0, <3>1, <3>4, <3>5, <3>6, JobStep DEF Phase, Live
    <3> QED
      BY <3>7, <1>10 DEF ReorderRead, TaskFilesOK, Live
  <2> QED
    BY <2>1, <2>2
<1>11. CASE ReorderShift(p)
  <2>0. s \in Slugs /\ pc[p] = "shift" /\ j.cmd = "reorder" /\ j.id \in DOMAIN j.tasks
    BY <1>11, <1>j DEF ReorderShift, Phase
  <2>1. PICK i \in j.todo :
          /\ WriteTask(s, i, [j.tasks[i] EXCEPT !.pri = @ + 1])
          /\ job' = [job EXCEPT ![p] = [@ EXCEPT !.todo = j.todo \ {i}]]
    BY <1>11 DEF ReorderShift
  <2>2. i \in Nat /\ j.tasks[i] \in Tasks
    BY <2>0, <1>j DEF Phase, IsJob
  <2>3. [j.tasks[i] EXCEPT !.pri = @ + 1] \in Tasks
    BY <2>2 DEF Tasks
  <2>4. TaskFilesOK'
    BY <2>0, <2>1, <2>2, <2>3, WriteOne
  <2> DEFINE T == j.todo \ {i}
             k == [j EXCEPT !.todo = T]
  <2>5. job' = [job EXCEPT ![p] = k] /\ pc' = [pc EXCEPT ![p] = "shift"]
    BY <2>0, <2>1, <1>11 DEF ReorderShift, JobsOK
  <2>6. T \in SUBSET Nat /\ T \subseteq DOMAIN j.tasks
    BY <2>0, <1>j DEF Phase, IsJob
  <2>7. IsJob(k) /\ k.slug = s /\ k.cmd = j.cmd
    BY <2>6, <1>j, JobTodo
  <2>8. k.id = j.id /\ k.tasks = j.tasks /\ k.todo = T
    BY <1>j DEF IsJob
  <2> HIDE DEF k, T
  <2>9. Phase("shift", k) /\ "shift" \in Inside /\ pc[p] # "idle"
    BY <2>0, <2>6, <2>7, <2>8 DEF Phase, Inside
  <2>10. JobsOK' /\ PhaseOK'
    BY <2>5, <2>7, <2>9, JobStep
  <2> QED
    BY <2>4, <2>10, <1>11 DEF ReorderShift
<1>12. CASE ReorderTarget(p)
  <2>1. s \in Slugs /\ j.id \in Nat /\ j.tasks[j.id] \in Tasks /\ j.pri \in Nat
    BY <1>12, <1>j DEF ReorderTarget, Phase, IsJob
  <2>2. [j.tasks[j.id] EXCEPT !.pri = j.pri] \in Tasks
    BY <2>1 DEF Tasks
  <2>3. TaskFilesOK'
    BY <2>1, <2>2, <1>12, WriteOne DEF ReorderTarget
  <2>4. JobsOK' /\ PhaseOK'
    BY <1>12, JobGoesOn DEF ReorderTarget, Finish, Phase
  <2> QED
    BY <2>3, <2>4, <1>12 DEF ReorderTarget
<1>13. CASE SetRead(p)
  <2> DEFINE k == [j EXCEPT !.brief = brief[s]]
  <2>1. /\ job' = [job EXCEPT ![p] = k] /\ pc' = [pc EXCEPT ![p] = "stamp"]
        /\ s \in Slugs /\ pc[p] = "locked" /\ j.cmd = "set"
    BY <1>13, <1>j DEF SetRead, Holding, JobsOK
  <2>2. IsJob(k) /\ k.slug = s /\ k.cmd = j.cmd
    BY <2>1, <1>j, JobBrief
  <2> HIDE DEF k
  <2>3. JobsOK' /\ PhaseOK'
    BY <2>1, <2>2, JobStep DEF Phase
  <2> QED
    BY <2>3, <1>13 DEF SetRead, TaskFilesOK, Live
<1>14. CASE SetWrite(p)
  <2>1. [j.brief EXCEPT !.edits = @ \cup {p}] \in Briefs
    BY <1>j DEF IsJob, Briefs
  <2>2. JobsOK' /\ PhaseOK'
    BY <1>14, JobGoesOn DEF SetWrite, Finish, Phase
  <2> QED
    BY <2>1, <2>2, <1>14 DEF SetWrite, TaskFilesOK, Live
<1> QED
  BY <1>1, <1>2, <1>3, <1>4, <1>5, <1>6, <1>7, <1>8, <1>9, <1>10, <1>11,
     <1>12, <1>13, <1>14 DEF Step

\* Starting a command, giving up and dying keep them too.
LEMMA NextType ==
  ASSUME TInv, [Next]_vars
  PROVE  TInv'
<1> USE DEF TInv, TypeOK
<1>1. CASE UNCHANGED vars
  BY <1>1 DEF vars, TaskFilesOK, Live, JobsOK, PhaseOK
<1>2. ASSUME NEW p \in Procs, NEW c \in Commands, NEW s \in Slugs, Begin(p, c, s)
      PROVE  TInv'
  <2>1. PICK i \in issued[s] \cup {1}, q \in Pris \cup {0} :
          job' = [job EXCEPT ![p] = NewJob(c, s, i, q)]
    BY <1>2 DEF Begin
  <2> DEFINE k == NewJob(c, s, i, q)
  <2>2. i \in Nat /\ q \in Nat
    BY PriAssumption
  <2>3. IsJob(k) /\ k.slug = s /\ k.cmd = c
    BY <2>2, NewIsJob
  <2>4. JobsOK'
    BY <2>1, <2>3, <1>2 DEF Begin, JobsOK
  <2>5. PhaseOK'
    BY <2>1, <2>3, <1>2 DEF Begin, JobsOK, PhaseOK, Phase
  <2> QED
    BY <2>4, <2>5, <1>2 DEF Begin, TaskFilesOK, Live
<1>3. ASSUME NEW p \in Procs, GiveUp(p) \/ Crash(p) PROVE TInv'
  <2>1. JobsOK' /\ PhaseOK'
    BY <1>3, JobEnds DEF GiveUp, Crash
  <2> QED
    BY <2>1, <1>3 DEF GiveUp, Crash, TaskFilesOK, Live
<1> QED
  BY <1>1, <1>2, <1>3, StepType DEF Next

\* Every variable always holds a value of its kind, whatever the commands of
\* any number of processes do and wherever they die.
THEOREM TypeCorrect == Spec => []TypeOK
<1>1. Spec => []TInv
  BY InitType, NextType, PTL DEF Spec
<1>2. TInv => TypeOK
  BY DEF TInv
<1> QED
  BY <1>1, <1>2, PTL

----------------------------------------------------------------------------
(* The promises                                                             *)

\* Who is inside a locked section is alive and holds the lock.
LockOK ==
  \A p \in Procs :
    /\ pc[p] # "idle" => p \notin dead
    /\ pc[p] \in Inside => lock[job[p].slug] = p

\* Every number ever issued is at most the mark or the number of a file.
MarkOK ==
  \A s \in Slugs :
    /\ Live(s) \subseteq issued[s]
    /\ 0 \notin issued[s]
    /\ \A i \in issued[s] : i <= brief[s].seq \/ \E k \in Live(s) : i <= k

\* What process p read and decided under the lock is still so.
ReadOK(p) ==
  LET j == job[p]
      s == j.slug
  IN
  /\ pc[p] = "create" => j.id # 0 /\ \A i \in issued[s] : i < j.id
  /\ pc[p] = "bump" => j.brief = brief[s] /\ brief[s].seq < j.id
  /\ (pc[p] = "unlink" /\ \A k \in Live(s) : k <= j.id) => j.id <= brief[s].seq
  /\ pc[p] = "stamp" => j.brief = brief[s]
  /\ pc[p] = "rewrite" => j.id \in Live(s) /\ j.tasks = tasks[s]
  /\ pc[p] = "shift" =>
       /\ DOMAIN j.tasks = Live(s)
       /\ j.id \notin j.todo
       /\ \A i \in j.todo : j.tasks[i].pri >= j.pri
       /\ \A i \in j.todo \cup {j.id} : tasks[s][i] = j.tasks[i]
       /\ \A i \in Live(s) \ (j.todo \cup {j.id}) :
            tasks[s][i] = IF j.tasks[i].pri >= j.pri
                          THEN [j.tasks[i] EXCEPT !.pri = @ + 1]
                          ELSE j.tasks[i]

\* An edit about to be acknowledged is in its file.
EditOK(p) ==
  LET j == job[p] IN
  pc[p] = "finished" =>
    /\ j.cmd = "set" => p \in brief[j.slug].edits
    /\ j.cmd = "append" =>
         /\ j.id \in issued[j.slug]
         /\ j.id \in Live(j.slug) => p \in tasks[j.slug][j.id].notes

\* A note acknowledged was written to a task that was issued its number.
AckIssued == \A e \in acked : e.file # 0 => e.file \in issued[e.slug]

IInv ==
  /\ TInv /\ LockOK /\ MarkOK
  /\ \A p \in Procs : ReadOK(p) /\ EditOK(p)
  /\ AckIssued /\ NoLostEdit

----------------------------------------------------------------------------
(* One process inside a locked section                                      *)

\* Two processes inside are at work on different initiatives.
LEMMA Alone ==
  ASSUME LockOK, NEW p \in Procs, NEW q \in Procs, p # q,
         pc[p] \in Inside, pc[q] \in Inside
  PROVE  job[p].slug # job[q].slug
BY DEF LockOK

\* The actions of a process that has the lock and keeps it.
Within(p) ==
  \/ AddAllocate(p) \/ AddWrite(p)
  \/ DeleteCheck(p) \/ DeleteBump(p) \/ DeleteUnlink(p)
  \/ EditRead(p) \/ EditWrite(p)
  \/ ReorderRead(p) \/ ReorderShift(p) \/ ReorderTarget(p)
  \/ SetRead(p) \/ SetWrite(p)

\* What the two reads that fill several fields of a job leave in it.
LEMMA AddAllocateJob ==
  ASSUME TInv, NEW p \in Procs, AddAllocate(p)
  PROVE  LET s == job[p].slug IN
         /\ job'[p].slug = s /\ job'[p].cmd = job[p].cmd
         /\ \E m \in Live(s) \cup {0} :
              IsHighest(m, Live(s)) /\ job'[p].id = NextNumber(s, m)
<1> DEFINE j == job[p]
           s == j.slug
<1>1. IsJob(j) /\ p \in DOMAIN job
  BY DEF TInv, TypeOK, JobsOK
<1>2. PICK m \in Live(s) \cup {0}, maxPri \in {tasks[s][i].pri : i \in Live(s)} \cup {0} :
        /\ IsHighest(m, Live(s))
        /\ job' = [job EXCEPT ![p] =
             [[@ EXCEPT !.id = NextNumber(s, m)]
                EXCEPT !.pri = IF j.pri = 0 THEN maxPri + 1 ELSE j.pri]]
  BY DEF AddAllocate
<1> DEFINE q == IF j.pri = 0 THEN maxPri + 1 ELSE j.pri
           h == [j EXCEPT !.id = NextNumber(s, m)]
<1>3. job'[p] = [h EXCEPT !.pri = q]
  BY <1>1, <1>2
<1>4. /\ h.slug = s /\ h.cmd = j.cmd /\ h.id = NextNumber(s, m)
      /\ {"slug", "cmd", "id"} \subseteq DOMAIN h
  BY <1>1 DEF IsJob
<1> HIDE DEF h, q
<1> QED
  BY <1>2, <1>3, <1>4

LEMMA ReorderReadJob ==
  ASSUME TInv, NEW p \in Procs, ReorderRead(p), ~ Fail(p)
  PROVE  LET s == job[p].slug IN
         /\ job'[p].slug = s /\ job'[p].cmd = job[p].cmd
         /\ job'[p].id = job[p].id /\ job'[p].pri = job[p].pri
         /\ job'[p].tasks = tasks[s]
         /\ job'[p].todo = MovedDown(s, job[p].id, job[p].pri)
<1> DEFINE j == job[p]
           s == j.slug
           T == MovedDown(s, j.id, j.pri)
           h == [j EXCEPT !.tasks = tasks[s]]
<1>1. IsJob(j) /\ p \in DOMAIN job
  BY DEF TInv, TypeOK, JobsOK
<1>2. job'[p] = [h EXCEPT !.todo = T]
  BY <1>1 DEF ReorderRead
<1>3. /\ h.slug = s /\ h.cmd = j.cmd /\ h.id = j.id /\ h.pri = j.pri /\ h.tasks = tasks[s]
      /\ {"slug", "cmd", "id", "pri", "tasks", "todo"} \subseteq DOMAIN h
  BY <1>1 DEF IsJob
<1> HIDE DEF h
<1> QED
  BY <1>2, <1>3

\* Such an action moves only its own process, on the same initiative, and
\* leaves the files of the other initiatives alone.
LEMMA Untouched ==
  ASSUME TInv, NEW p \in Procs, Within(p)
  PROVE  /\ pc[p] \in Inside /\ pc'[p] \in Inside
         /\ job[p].slug \in Slugs
         /\ job'[p].slug = job[p].slug /\ job'[p].cmd = job[p].cmd
         /\ \A q \in Procs \ {p} : pc'[q] = pc[q] /\ job'[q] = job[q]
         /\ UNCHANGED <<lock, dead, acked>>
         /\ \A t \in Slugs \ {job[p].slug} :
              brief'[t] = brief[t] /\ tasks'[t] = tasks[t] /\ issued'[t] = issued[t]
<1> USE DEF TInv, TypeOK, JobsOK, Inside
<1> DEFINE j == job[p]
<1>0. IsJob(j) /\ (pc[p] # "idle" => j.slug \in Slugs)
  OBVIOUS
<1>1. CASE AddAllocate(p)
  <2>1. job' = [job EXCEPT ![p] = job'[p]]
    BY <1>1 DEF AddAllocate
  <2>2. job'[p].slug = j.slug /\ job'[p].cmd = j.cmd
    BY <1>1, AddAllocateJob
  <2> QED
    BY <1>1, <2>1, <2>2 DEF AddAllocate, Holding
<1>2. CASE AddWrite(p)
  BY <1>2 DEF AddWrite, Finish, WriteTask, TaskFilesOK
<1>3. CASE DeleteCheck(p)
  BY <1>3, <1>0 DEF DeleteCheck, Holding, Fail, IsJob
<1>4. CASE DeleteBump(p)
  BY <1>4 DEF DeleteBump
<1>5. CASE DeleteUnlink(p)
  BY <1>5 DEF DeleteUnlink, Finish, TaskFilesOK
<1>6. CASE EditRead(p)
  BY <1>6, <1>0 DEF EditRead, Holding, Fail, IsJob
<1>7. CASE EditWrite(p)
  BY <1>7 DEF EditWrite, Finish, WriteTask, TaskFilesOK
<1>8. CASE ReorderRead(p)
  <2>1. \A q \in Procs \ {p} : job'[q] = job[q]
    BY <1>8 DEF ReorderRead, Fail
  <2>2. job'[p].slug = j.slug /\ job'[p].cmd = j.cmd
    BY <1>8, ReorderReadJob DEF Fail
  <2> QED
    BY <1>8, <2>1, <2>2 DEF ReorderRead, Holding, Fail
<1>9. CASE ReorderShift(p)
  BY <1>9, <1>0 DEF ReorderShift, WriteTask, TaskFilesOK, IsJob
<1>10. CASE ReorderTarget(p)
  BY <1>10 DEF ReorderTarget, Finish, WriteTask, TaskFilesOK
<1>11. CASE SetRead(p)
  BY <1>11, <1>0 DEF SetRead, Holding, IsJob
<1>12. CASE SetWrite(p)
  BY <1>12 DEF SetWrite, Finish
<1> QED
  BY <1>1, <1>2, <1>3, <1>4, <1>5, <1>6, <1>7, <1>8, <1>9, <1>10, <1>11, <1>12 DEF Within

\* What the others read and acknowledged is out of reach of such an action.
LEMMA Others ==
  ASSUME TInv, LockOK, NEW p \in Procs, Within(p),
         NEW q \in Procs \ {p}, ReadOK(q), EditOK(q)
  PROVE  ReadOK(q)' /\ EditOK(q)'
<1>1. pc'[q] = pc[q] /\ job'[q] = job[q]
  BY Untouched
<1>2. CASE pc[q] \in Inside
  <2> DEFINE t == job[q].slug
  <2>1. t \in Slugs /\ t # job[p].slug
    BY <1>2, Alone, Untouched DEF TInv, TypeOK, JobsOK, Inside
  <2>2. brief'[t] = brief[t] /\ tasks'[t] = tasks[t] /\ issued'[t] = issued[t]
    BY <2>1, Untouched
  <2> QED
    BY <1>1, <2>2 DEF ReadOK, EditOK, Live
<1>3. CASE pc[q] \notin Inside
  BY <1>1, <1>3 DEF ReadOK, EditOK, Inside
<1> QED
  BY <1>2, <1>3

\* Only a process inside holds a lock, whatever a step does.
LEMMA LocksStep ==
  ASSUME TInv, LockOK, [Next]_vars
  PROVE  LockOK'
<1> USE DEF TInv, TypeOK, JobsOK, LockOK, Inside
<1>1. CASE UNCHANGED vars
  BY <1>1 DEF vars
<1>2. ASSUME NEW p \in Procs, NEW c \in Commands, NEW s \in Slugs, Begin(p, c, s)
      PROVE  LockOK'
  BY <1>2 DEF Begin
<1>3. ASSUME NEW p \in Procs, GiveUp(p) \/ Crash(p) PROVE LockOK'
  BY <1>3 DEF GiveUp, Crash
<1>4. ASSUME NEW p \in Procs, Acquire(p) PROVE LockOK'
  BY <1>4, ProcAssumption DEF Acquire, Takeable
<1>5. ASSUME NEW p \in Procs, Release(p) PROVE LockOK'
  <2>1. \A q \in Procs \ {p} : pc[q] \in Inside => job[q].slug # job[p].slug
    BY <1>5, Alone DEF Release
  <2> QED
    BY <1>5, <2>1 DEF Release
<1>6. ASSUME NEW p \in Procs, Within(p) PROVE LockOK'
  <2>1. \A q \in Procs : (pc'[q] \in Inside => pc[q] \in Inside) /\ job'[q].slug = job[q].slug
    BY <1>6, Untouched
  <2> QED
    BY <1>6, <2>1, Untouched
<1> QED
  BY <1>1, <1>2, <1>3, <1>4, <1>5, <1>6 DEF Next, Step, Within

----------------------------------------------------------------------------
(* Every action keeps what a process read, the mark and the edits           *)

Safe == MarkOK /\ AckIssued /\ NoLostEdit

\* An action that only reads, or writes what nobody recorded, keeps Safe.
LEMMA SafeUntouched ==
  ASSUME Safe, UNCHANGED <<brief, tasks, issued, acked>>
  PROVE  Safe'
BY DEF Safe, MarkOK, AckIssued, NoLostEdit, Live

LEMMA AddSafe ==
  ASSUME IInv, NEW p \in Procs, AddAllocate(p) \/ AddWrite(p)
  PROVE  ReadOK(p)' /\ EditOK(p)' /\ Safe'
<1> USE DEF IInv, Safe
<1> DEFINE s == job[p].slug
<1>s. s \in Slugs /\ p \in DOMAIN pc /\ p \in DOMAIN job
  BY Untouched DEF Within, TInv, TypeOK, JobsOK
<1>t. issued[s] \subseteq Nat /\ Live(s) \subseteq Nat /\ brief[s].seq \in Nat
  BY <1>s DEF TInv, TypeOK, TaskFilesOK, Briefs
<1>1. CASE AddAllocate(p)
  <2>1. PICK m \in Live(s) \cup {0} : IsHighest(m, Live(s)) /\ job'[p].id = NextNumber(s, m)
    BY <1>1, AddAllocateJob
  <2>2. job'[p].id # 0 /\ \A i \in issued[s] : i < job'[p].id
    BY <2>1, <1>s, <1>t DEF MarkOK, IsHighest, NextNumber, Larger
  <2>3. pc'[p] = "create" /\ job'[p].slug = s /\ job'[p].cmd = "add" /\ issued' = issued
    BY <1>1, <1>s, AddAllocateJob DEF AddAllocate, Holding
  <2>4. Safe'
    BY <1>1, SafeUntouched DEF AddAllocate
  <2>5. ReadOK(p)'
    BY <2>2, <2>3 DEF ReadOK
  <2>6. EditOK(p)'
    BY <2>3 DEF EditOK
  <2> QED
    BY <2>4, <2>5, <2>6
<1>2. CASE AddWrite(p)
  <2> DEFINE n == job[p].id
  <2>1. n # 0 /\ n \in Nat /\ job[p].cmd = "add" /\ \A i \in issued[s] : i < n
    BY <1>2 DEF AddWrite, ReadOK, TInv, TypeOK, JobsOK, IsJob, PhaseOK, Phase
  <2>2. /\ pc'[p] = "finished" /\ job' = job /\ brief' = brief /\ acked' = acked
        /\ issued' = [issued EXCEPT ![s] = @ \cup {n}]
        /\ \A t \in Slugs \ {s} : tasks'[t] = tasks[t]
        /\ DOMAIN tasks'[s] = Live(s) \cup {n}
        /\ \A k \in Live(s) \ {n} : tasks'[s][k] = tasks[s][k]
    BY <1>2, <1>s DEF AddWrite, Finish, WriteTask, TInv, TypeOK, TaskFilesOK, Live
  <2>3. \A t \in Slugs : Live(t)' = IF t = s THEN Live(t) \cup {n} ELSE Live(t)
    BY <2>2 DEF Live
  <2>4. \A t \in Slugs : issued'[t] = IF t = s THEN issued[t] \cup {n} ELSE issued[t]
    BY <2>2 DEF TInv, TypeOK
  <2>5. MarkOK'
    BY <2>1, <2>2, <2>3, <2>4, <1>t DEF MarkOK
  <2>6. AckIssued'
    BY <2>2, <2>4 DEF AckIssued, TInv, TypeOK, Edits
  <2>7. NoLostEdit'
    <3> SUFFICES ASSUME NEW e \in acked, e.file # 0, e.file \in Live(e.slug)'
                 PROVE  e.by \in tasks'[e.slug][e.file].notes
      BY <2>2 DEF NoLostEdit
    <3>1. e.slug \in Slugs /\ e.file \in issued[e.slug]
      BY DEF AckIssued, TInv, TypeOK, Edits
    <3>2. e.slug = s => e.file # n
      BY <3>1, <2>1, <1>t
    <3>3. e.file \in Live(e.slug) /\ tasks'[e.slug][e.file] = tasks[e.slug][e.file]
      BY <3>1, <3>2, <2>2, <2>3
    <3> QED
      BY <3>3 DEF NoLostEdit
  <2>8. ReadOK(p)' /\ EditOK(p)'
    BY <2>1, <2>2 DEF ReadOK, EditOK
  <2> QED
    BY <2>5, <2>6, <2>7, <2>8
<1> QED
  BY <1>1, <1>2

LEMMA DeleteSafe ==
  ASSUME IInv, NEW p \in Procs, DeleteCheck(p) \/ DeleteBump(p) \/ DeleteUnlink(p)
  PROVE  ReadOK(p)' /\ EditOK(p)' /\ Safe'
<1> USE DEF IInv, Safe
<1> DEFINE s == job[p].slug
           n == job[p].id
<1>s. s \in Slugs /\ p \in DOMAIN pc /\ p \in DOMAIN job /\ n \in Nat
  BY Untouched DEF Within, TInv, TypeOK, JobsOK, IsJob
<1>t. issued[s] \subseteq Nat /\ Live(s) \subseteq Nat /\ brief[s] \in Briefs /\ brief[s].seq \in Nat
  BY <1>s DEF TInv, TypeOK, TaskFilesOK, Briefs
<1>1. CASE DeleteCheck(p)
  <2>1. Safe' /\ UNCHANGED <<brief, tasks>>
    BY <1>1, SafeUntouched DEF DeleteCheck
  <2>2. CASE Fail(p)
    BY <2>1, <2>2, <1>s DEF Fail, ReadOK, EditOK
  <2>3. CASE ~ Fail(p)
    <3>1. IsJob(job[p])
      BY DEF TInv, TypeOK, JobsOK
    <3>2. /\ n \in Live(s) /\ pc'[p] = (IF NeedsBump(s, n) THEN "bump" ELSE "unlink")
          /\ job'[p] = [job[p] EXCEPT !.brief = brief[s]]
      BY <2>3, <1>1, <1>s DEF DeleteCheck
    <3>3. job'[p].slug = s /\ job'[p].id = n /\ job'[p].brief = brief[s]
      BY <3>1, <3>2 DEF IsJob
    <3>4. NeedsBump(s, n) => brief[s].seq < n
      BY DEF NeedsBump
    <3>5. (~ NeedsBump(s, n) /\ \A k \in Live(s) : k <= n) => n <= brief[s].seq
      BY <3>2, <1>s, <1>t DEF NeedsBump, IsHighest
    <3>6. ReadOK(p)'
      BY <3>2, <3>3, <3>4, <3>5, <2>1 DEF ReadOK, Live
    <3> QED
      BY <3>2, <3>6, <2>1 DEF EditOK
  <2> QED
    BY <2>2, <2>3
<1>2. CASE DeleteBump(p)
  <2>1. job[p].brief = brief[s] /\ brief[s].seq < n
    BY <1>2 DEF DeleteBump, ReadOK
  <2>2. /\ pc'[p] = "unlink" /\ UNCHANGED <<tasks, job, issued, acked>>
        /\ \A t \in Slugs \ {s} : brief'[t] = brief[t]
        /\ brief'[s].seq = n /\ brief'[s].edits = brief[s].edits
    BY <1>2, <1>s, <1>t, <2>1 DEF DeleteBump, TInv, TypeOK, Briefs
  <2>3. MarkOK'
    <3>1. \A t \in Slugs : Live(t)' = Live(t)
      BY <2>2 DEF Live
    <3>2. \A t \in Slugs : \A i \in issued[t] : i <= brief[t].seq => i <= brief'[t].seq
      BY <2>1, <2>2, <1>s, <1>t
    <3> QED
      BY <3>1, <3>2, <2>2 DEF MarkOK
  <2>4. AckIssued' /\ NoLostEdit'
    BY <2>2 DEF AckIssued, NoLostEdit, Live, TInv, TypeOK, Edits
  <2>5. ReadOK(p)' /\ EditOK(p)'
    BY <2>2, <1>s DEF ReadOK, EditOK
  <2> QED
    BY <2>3, <2>4, <2>5
<1>3. CASE DeleteUnlink(p)
  <2>1. job[p].cmd = "delete" /\ ((\A k \in Live(s) : k <= n) => n <= brief[s].seq)
    BY <1>3 DEF DeleteUnlink, ReadOK, TInv, PhaseOK, Phase
  <2>2. /\ pc'[p] = "finished" /\ UNCHANGED <<brief, job, issued, acked>>
        /\ \A t \in Slugs \ {s} : tasks'[t] = tasks[t]
        /\ DOMAIN tasks'[s] = Live(s) \ {n}
        /\ \A k \in Live(s) \ {n} : tasks'[s][k] = tasks[s][k]
    BY <1>3, <1>s DEF DeleteUnlink, Finish, TInv, TypeOK, TaskFilesOK, Live
  <2>3. \A t \in Slugs : Live(t)' = IF t = s THEN Live(t) \ {n} ELSE Live(t)
    BY <2>2 DEF Live
  <2>4. \A i \in issued[s] : i <= brief[s].seq \/ \E k \in Live(s) \ {n} : i <= k
    BY <2>1, <1>s, <1>t DEF MarkOK
  <2>5. MarkOK'
    BY <2>2, <2>3, <2>4 DEF MarkOK
  <2>6. AckIssued' /\ NoLostEdit'
    BY <2>2, <2>3 DEF AckIssued, NoLostEdit, TInv, TypeOK, Edits
  <2>7. ReadOK(p)' /\ EditOK(p)'
    BY <2>1, <2>2 DEF ReadOK, EditOK
  <2> QED
    BY <2>5, <2>6, <2>7
<1> QED
  BY <1>1, <1>2, <1>3

\* Writing back a task file with its notes kept changes no number.
LEMMA RewriteSafe ==
  ASSUME IInv, NEW s \in Slugs, NEW i \in Live(s), NEW t, tasks[s][i].notes \subseteq t.notes,
         WriteTask(s, i, t), UNCHANGED <<brief, issued, acked>>
  PROVE  /\ Safe'
         /\ tasks'[s] = [k \in Live(s) |-> IF k = i THEN t ELSE tasks[s][k]]
         /\ \A r \in Slugs \ {s} : tasks'[r] = tasks[r]
<1> USE DEF IInv, Safe
<1>1. /\ tasks'[s] = [k \in Live(s) |-> IF k = i THEN t ELSE tasks[s][k]]
      /\ \A r \in Slugs \ {s} : tasks'[r] = tasks[r]
  <2>1. Live(s) \cup {i} = Live(s)
    OBVIOUS
  <2> QED
    BY <2>1 DEF WriteTask, TInv, TypeOK, TaskFilesOK, Live
<1>2. \A r \in Slugs : Live(r)' = Live(r)
  BY <1>1 DEF Live
<1>3. MarkOK' /\ AckIssued'
  BY <1>2 DEF MarkOK, AckIssued
<1>4. NoLostEdit'
  BY <1>1, <1>2 DEF NoLostEdit, TInv, TypeOK, Edits
<1> QED
  BY <1>1, <1>3, <1>4

LEMMA EditSafe ==
  ASSUME IInv, NEW p \in Procs, EditRead(p) \/ EditWrite(p)
  PROVE  ReadOK(p)' /\ EditOK(p)' /\ Safe'
<1> USE DEF IInv
<1> DEFINE s == job[p].slug
           n == job[p].id
<1>s. s \in Slugs /\ p \in DOMAIN pc /\ p \in DOMAIN job /\ IsJob(job[p])
  BY Untouched DEF Within, TInv, TypeOK, JobsOK
<1>1. CASE EditRead(p)
  <2>1. Safe' /\ UNCHANGED <<brief, tasks>>
    BY <1>1, SafeUntouched DEF EditRead, Safe
  <2>2. CASE Fail(p)
    BY <2>1, <2>2, <1>s DEF Fail, ReadOK, EditOK
  <2>3. CASE ~ Fail(p)
    <3>1. /\ n \in Live(s) /\ pc'[p] = "rewrite"
          /\ job'[p] = [job[p] EXCEPT !.tasks = tasks[s]]
      BY <2>3, <1>1, <1>s DEF EditRead
    <3>2. job'[p].slug = s /\ job'[p].id = n /\ job'[p].tasks = tasks[s]
      BY <3>1, <1>s DEF IsJob
    <3> QED
      BY <3>1, <3>2, <2>1 DEF ReadOK, EditOK, Live
  <2> QED
    BY <2>2, <2>3
<1>2. CASE EditWrite(p)
  <2> DEFINE t == Edited(job[p].tasks[n], p, job[p].cmd)
  <2>1. n \in Live(s) /\ job[p].tasks[n] = tasks[s][n] /\ job[p].cmd \in TaskEdits
    BY <1>2 DEF EditWrite, ReadOK, TInv, PhaseOK, Phase
  <2>2. tasks[s][n] \in Tasks
    BY <2>1, <1>s DEF TInv, TypeOK, TaskFilesOK, Live
  <2>3. tasks[s][n].notes \subseteq t.notes /\ (job[p].cmd = "append" => p \in t.notes)
    BY <2>1, <2>2 DEF Edited, Tasks, TaskEdits
  <2>4. /\ pc'[p] = "finished" /\ UNCHANGED <<brief, job, issued, acked>>
        /\ WriteTask(s, n, t)
    BY <1>2, <1>s DEF EditWrite, Finish
  <2> HIDE DEF t
  <2>5. Safe' /\ tasks'[s][n] = t
    <3>1. Safe' /\ tasks'[s] = [k \in Live(s) |-> IF k = n THEN t ELSE tasks[s][k]]
      <4> HIDE DEF IInv, s, n
      <4> QED
        BY <2>1, <2>3, <2>4, <1>s, RewriteSafe
    <3> QED
      BY <3>1, <2>1
  <2>6. n \in issued[s]
    BY <2>1, <1>s DEF MarkOK
  <2>7. ReadOK(p)'
    BY <2>4 DEF ReadOK
  <2>8. EditOK(p)'
    <3>1. job[p].cmd # "set" /\ job' = job /\ issued' = issued
      BY <2>1, <2>4 DEF TaskEdits
    <3>2. job[p].cmd = "append" => p \in tasks'[s][n].notes
      BY <2>3, <2>5
    <3> QED
      BY <3>1, <3>2, <2>6 DEF EditOK
  <2> QED
    BY <2>5, <2>7, <2>8
<1> QED
  BY <1>1, <1>2

LEMMA ReorderSafe ==
  ASSUME IInv, NEW p \in Procs, ReorderRead(p) \/ ReorderShift(p) \/ ReorderTarget(p)
  PROVE  ReadOK(p)' /\ EditOK(p)' /\ Safe'
<1> USE DEF IInv
<1> DEFINE j == job[p]
           s == j.slug
           n == j.id
<1>s. s \in Slugs /\ p \in DOMAIN pc /\ p \in DOMAIN job /\ IsJob(j) /\ job = [q \in Procs |-> job[q]]
  BY Untouched DEF Within, TInv, TypeOK, JobsOK
<1>1. CASE ReorderRead(p)
  <2>1. Safe' /\ UNCHANGED <<brief, tasks>>
    BY <1>1, SafeUntouched DEF ReorderRead, Safe
  <2>2. CASE Fail(p)
    BY <2>1, <2>2, <1>s DEF Fail, ReadOK, EditOK
  <2>3. CASE ~ Fail(p)
    <3>1. n \in Live(s) /\ pc'[p] = "shift"
      BY <2>3, <1>1, <1>s DEF ReorderRead
    <3>2. /\ job'[p].slug = s /\ job'[p].id = n /\ job'[p].pri = j.pri
          /\ job'[p].tasks = tasks[s] /\ job'[p].todo = MovedDown(s, n, j.pri)
      BY <2>3, <1>1, ReorderReadJob
    <3>3. /\ n \notin MovedDown(s, n, j.pri)
          /\ \A i \in MovedDown(s, n, j.pri) : tasks[s][i].pri >= j.pri
          /\ \A i \in Live(s) \ (MovedDown(s, n, j.pri) \cup {n}) : ~ (tasks[s][i].pri >= j.pri)
      BY DEF MovedDown
    <3>4. Live(s)' = Live(s) /\ DOMAIN tasks[s] = Live(s) /\ tasks' = tasks
      BY ONLY <2>1, <3>2 DEF Live
    <3>5. ReadOK(p)'
      BY ONLY <3>1, <3>2, <3>3, <3>4 DEF ReadOK
    <3> QED
      BY <3>1, <3>5, <2>1 DEF EditOK
  <2> QED
    BY <2>2, <2>3
<1> DEFINE R == \A i \in j.todo \cup {n} : tasks[s][i] = j.tasks[i]
<1>r. pc[p] = "shift" =>
        /\ j.cmd = "reorder" /\ n \in Live(s) /\ DOMAIN j.tasks = Live(s)
        /\ n \notin j.todo /\ j.todo \subseteq Live(s) /\ R
  BY DEF ReadOK, TInv, PhaseOK, Phase
<1>2. CASE ReorderShift(p)
  <2>1. PICK i \in j.todo :
          /\ WriteTask(s, i, [j.tasks[i] EXCEPT !.pri = @ + 1])
          /\ job' = [job EXCEPT ![p] = [@ EXCEPT !.todo = j.todo \ {i}]]
    BY <1>2 DEF ReorderShift
  <2> DEFINE t == [j.tasks[i] EXCEPT !.pri = @ + 1]
  <2>2. i \in Live(s) /\ i # n /\ tasks[s][i] = j.tasks[i] /\ pc[p] = "shift"
    BY <1>2, <1>r DEF ReorderShift
  <2>3. t.notes = tasks[s][i].notes
    BY <2>2, <1>s DEF TInv, TypeOK, TaskFilesOK, Live, Tasks
  <2>4. Safe' /\ tasks'[s] = [k \in Live(s) |-> IF k = i THEN t ELSE tasks[s][k]]
    <3>1. WriteTask(s, i, t) /\ UNCHANGED <<brief, issued, acked>>
      BY <2>1, <1>2 DEF ReorderShift
    <3> HIDE DEF t
    <3> QED
      BY <3>1, <2>2, <2>3, <1>s, RewriteSafe
  <2>5. /\ job'[p].slug = s /\ job'[p].id = n /\ job'[p].pri = j.pri /\ job'[p].cmd = j.cmd
        /\ job'[p].tasks = j.tasks /\ job'[p].todo = j.todo \ {i} /\ pc' = pc
    <3>1. job'[p] = [j EXCEPT !.todo = j.todo \ {i}]
      BY <2>1, <1>s
    <3> QED
      BY <3>1, <1>2, <1>s DEF ReorderShift, IsJob
  <2>6. ReadOK(p)'
    <3>1. DOMAIN tasks'[s] = Live(s)
      BY <2>4
    <3>2. \A k \in Live(s) : tasks'[s][k] = IF k = i THEN t ELSE tasks[s][k]
      BY <2>4
    <3>3. /\ \A k \in j.todo : j.tasks[k].pri >= j.pri
          /\ \A k \in Live(s) \ (j.todo \cup {n}) :
               tasks[s][k] = IF j.tasks[k].pri >= j.pri
                             THEN [j.tasks[k] EXCEPT !.pri = @ + 1] ELSE j.tasks[k]
      BY <2>2 DEF ReadOK
    <3>4. \A k \in (j.todo \ {i}) \cup {n} : tasks'[s][k] = j.tasks[k]
      BY <3>2, <1>r, <2>2
    <3>5. \A k \in Live(s) \ ((j.todo \ {i}) \cup {n}) :
            tasks'[s][k] = IF j.tasks[k].pri >= j.pri
                           THEN [j.tasks[k] EXCEPT !.pri = @ + 1] ELSE j.tasks[k]
      <4> SUFFICES ASSUME NEW k \in Live(s) \ ((j.todo \ {i}) \cup {n})
                   PROVE  tasks'[s][k] = IF j.tasks[k].pri >= j.pri
                           THEN [j.tasks[k] EXCEPT !.pri = @ + 1] ELSE j.tasks[k]
        OBVIOUS
      <4>1. CASE k = i
        BY <4>1, <3>2, <3>3
      <4>2. CASE k # i
        BY <4>2, <3>2, <3>3
      <4> QED
        BY <4>1, <4>2
    <3>6. pc'[p] = "shift" /\ DOMAIN j.tasks = Live(s) /\ n \in Live(s) /\ n \notin j.todo
      BY <2>2, <2>5, <1>r
    <3>7. Live(s)' = Live(s)
      BY ONLY <2>5, <3>1 DEF Live
    <3> QED
      BY ONLY <3>3, <3>4, <3>5, <3>6, <3>7, <2>5 DEF ReadOK
  <2> QED
    BY <2>2, <2>4, <2>5, <2>6 DEF EditOK
<1>3. CASE ReorderTarget(p)
  <2> DEFINE t == [j.tasks[n] EXCEPT !.pri = j.pri]
  <2>1. /\ pc[p] = "shift" /\ pc'[p] = "finished" /\ UNCHANGED <<brief, job, issued, acked>>
        /\ WriteTask(s, n, t)
    BY <1>3, <1>s DEF ReorderTarget, Finish
  <2>2. n \in Live(s) /\ tasks[s][n] = j.tasks[n] /\ j.cmd = "reorder"
    BY <2>1, <1>r
  <2>3. t.notes = tasks[s][n].notes
    BY <2>2, <1>s DEF TInv, TypeOK, TaskFilesOK, Live, Tasks
  <2> HIDE DEF t
  <2>4. Safe'
    BY <2>1, <2>2, <2>3, <1>s, RewriteSafe
  <2> QED
    BY <2>1, <2>2, <2>4 DEF ReadOK, EditOK
<1> QED
  BY <1>1, <1>2, <1>3

LEMMA SetSafe ==
  ASSUME IInv, NEW p \in Procs, SetRead(p) \/ SetWrite(p)
  PROVE  ReadOK(p)' /\ EditOK(p)' /\ Safe'
<1> USE DEF IInv
<1> DEFINE s == job[p].slug
<1>s. /\ s \in Slugs /\ p \in DOMAIN pc /\ p \in DOMAIN job /\ IsJob(job[p])
      /\ brief[s] \in Briefs
  BY Untouched DEF Within, TInv, TypeOK, JobsOK
<1>1. CASE SetRead(p)
  <2>1. Safe' /\ UNCHANGED brief
    BY <1>1, SafeUntouched DEF SetRead, Safe
  <2>2. pc'[p] = "stamp" /\ job'[p] = [job[p] EXCEPT !.brief = brief[s]]
    BY <1>1, <1>s DEF SetRead
  <2>3. job'[p].slug = s /\ job'[p].brief = brief[s]
    BY <2>2, <1>s DEF IsJob
  <2> QED
    BY <2>1, <2>2, <2>3 DEF ReadOK, EditOK
<1>2. CASE SetWrite(p)
  <2>1. job[p].brief = brief[s] /\ job[p].cmd = "set"
    BY <1>2 DEF SetWrite, ReadOK, TInv, PhaseOK, Phase
  <2>2. /\ pc'[p] = "finished" /\ UNCHANGED <<tasks, job, issued, acked>>
        /\ \A t \in Slugs \ {s} : brief'[t] = brief[t]
        /\ brief'[s].seq = brief[s].seq /\ brief'[s].edits = brief[s].edits \cup {p}
    BY <1>2, <1>s, <2>1 DEF SetWrite, Finish, TInv, TypeOK, Briefs
  <2>3. MarkOK' /\ AckIssued'
    BY <2>2 DEF MarkOK, AckIssued, Live
  <2>4. NoLostEdit'
    BY <2>2 DEF NoLostEdit, TInv, TypeOK, Edits, Live
  <2>5. ReadOK(p)' /\ EditOK(p)'
    BY <2>1, <2>2 DEF ReadOK, EditOK
  <2> QED
    BY <2>3, <2>4, <2>5 DEF Safe
<1> QED
  BY <1>1, <1>2

----------------------------------------------------------------------------
(* The inductive invariant and what it gives                                *)

LEMMA InitSafe == Init => IInv
<1> SUFFICES ASSUME Init PROVE IInv
  OBVIOUS
<1>1. PICK n \in [Slugs -> 0..MaxExisting] :
        /\ tasks = [s \in Slugs |-> [i \in 1..n[s] |-> NewTask(i)]]
        /\ issued = [s \in Slugs |-> 1..n[s]]
  BY DEF Init, InitWith
<1>2. \A s \in Slugs : Live(s) = issued[s] /\ issued[s] = 1..n[s]
  BY <1>1 DEF Live
<1>3. MarkOK
  BY <1>2 DEF MarkOK
<1>4. LockOK /\ \A p \in Procs : ReadOK(p) /\ EditOK(p)
  BY DEF Init, InitWith, LockOK, Inside, ReadOK, EditOK
<1>5. AckIssued /\ NoLostEdit
  BY DEF Init, InitWith, AckIssued, NoLostEdit
<1> QED
  BY <1>3, <1>4, <1>5, InitType DEF IInv

\* A step that moves one process to a place where it remembers nothing.
LEMMA Idle ==
  ASSUME IInv, NEW p \in Procs, UNCHANGED <<brief, tasks, issued>>,
         pc'[p] \in {"idle", "wait", "locked"},
         \A q \in Procs \ {p} : pc'[q] = pc[q] /\ job'[q] = job[q]
  PROVE  \A q \in Procs : ReadOK(q)' /\ EditOK(q)'
<1> SUFFICES ASSUME NEW q \in Procs PROVE ReadOK(q)' /\ EditOK(q)'
  OBVIOUS
<1>1. CASE q = p
  BY <1>1 DEF ReadOK, EditOK
<1>2. CASE q # p
  <2>1. pc'[q] = pc[q] /\ job'[q] = job[q] /\ ReadOK(q) /\ EditOK(q)
    BY <1>2 DEF IInv
  <2> QED
    BY <2>1 DEF ReadOK, EditOK, Live
<1> QED
  BY <1>1, <1>2

LEMMA NextSafe ==
  ASSUME IInv, [Next]_vars
  PROVE  IInv'
<1>1. TInv' /\ LockOK'
  BY NextType, LocksStep DEF IInv
<1>j. \A p \in Procs : p \in DOMAIN pc /\ p \in DOMAIN job
  BY DEF IInv, TInv, TypeOK, JobsOK
<1>2. (\A p \in Procs : ReadOK(p)' /\ EditOK(p)') /\ Safe'
  <2>1. CASE UNCHANGED vars
    <3>1. Safe'
      BY <2>1, SafeUntouched DEF vars, IInv, Safe
    <3>2. \A p \in Procs : ReadOK(p)' /\ EditOK(p)'
      BY <2>1 DEF vars, IInv, ReadOK, EditOK, Live
    <3> QED
      BY <3>1, <3>2
  <2>2. ASSUME NEW p \in Procs, NEW c \in Commands, NEW s \in Slugs, Begin(p, c, s)
        PROVE  (\A q \in Procs : ReadOK(q)' /\ EditOK(q)') /\ Safe'
    <3>1. Safe'
      BY <2>2, SafeUntouched DEF Begin, IInv, Safe
    <3>2. pc'[p] = "wait" /\ \A q \in Procs \ {p} : pc'[q] = pc[q] /\ job'[q] = job[q]
      BY <2>2, <1>j DEF Begin
    <3> QED
      BY <2>2, <3>1, <3>2, Idle DEF Begin
  <2>3. ASSUME NEW p \in Procs, GiveUp(p) \/ Crash(p) \/ Acquire(p)
        PROVE  (\A q \in Procs : ReadOK(q)' /\ EditOK(q)') /\ Safe'
    <3>1. UNCHANGED <<brief, tasks, issued, acked>>
      BY <2>3 DEF GiveUp, Crash, Acquire
    <3>2. /\ pc'[p] \in {"idle", "locked"}
          /\ \A q \in Procs \ {p} : pc'[q] = pc[q] /\ job'[q] = job[q]
      BY <2>3, <1>j DEF GiveUp, Crash, Acquire
    <3> QED
      BY <3>1, <3>2, Idle, SafeUntouched DEF IInv, Safe
  <2>4. ASSUME NEW p \in Procs, Release(p)
        PROVE  (\A q \in Procs : ReadOK(q)' /\ EditOK(q)') /\ Safe'
    <3> DEFINE s == job[p].slug
               f == IF job[p].cmd = "append" THEN job[p].id ELSE 0
               edit == [slug |-> s, by |-> p, file |-> f]
    <3>1. UNCHANGED <<brief, tasks, issued>> /\ s \in Slugs /\ p \in DOMAIN pc
      BY <2>4 DEF Release, IInv, TInv, TypeOK, JobsOK
    <3>2. /\ pc'[p] = "idle"
          /\ \A q \in Procs \ {p} : pc'[q] = pc[q] /\ job'[q] = job[q]
      BY <2>4, <1>j DEF Release
    <3>3. \A e \in acked' : \/ e \in acked
                            \/ /\ pc[p] = "finished" /\ job[p].cmd \in {"set", "append"}
                               /\ e = edit
      BY <2>4 DEF Release
    <3>4. MarkOK'
      BY <3>1 DEF MarkOK, IInv, Live
    <3>5. AckIssued'
      <4> SUFFICES ASSUME NEW e \in acked', e.file # 0 PROVE e.file \in issued[e.slug]
        BY <3>1 DEF AckIssued
      <4> QED
        BY <3>3 DEF AckIssued, IInv, EditOK
    <3>6. NoLostEdit'
      <4> SUFFICES ASSUME NEW e \in acked'
                   PROVE  IF e.file = 0 THEN e.by \in brief[e.slug].edits
                          ELSE e.file \in Live(e.slug) => e.by \in tasks[e.slug][e.file].notes
        BY <3>1 DEF NoLostEdit, Live
      <4>1. CASE e \in acked
        BY <4>1 DEF NoLostEdit, IInv
      <4>2. CASE e \notin acked
        <5>1. pc[p] = "finished" /\ job[p].cmd \in {"set", "append"} /\ e = edit
          BY <4>2, <3>3
        <5>2. CASE job[p].cmd = "set"
          BY <5>1, <5>2 DEF IInv, EditOK
        <5>3. CASE job[p].cmd = "append"
          <6>1. /\ job[p].id \in issued[s]
                /\ job[p].id \in Live(s) => p \in tasks[s][job[p].id].notes
            BY <5>1, <5>3 DEF IInv, EditOK
          <6>2. job[p].id # 0
            BY <6>1, <3>1 DEF IInv, MarkOK
          <6>3. e.file = job[p].id /\ e.slug = s /\ e.by = p
            BY <5>1, <5>3
          <6> QED
            BY <6>1, <6>2, <6>3
        <5> QED
          BY <5>1, <5>2, <5>3
      <4> QED
        BY <4>1, <4>2
    <3> QED
      BY <3>1, <3>2, <3>4, <3>5, <3>6, Idle DEF Safe
  <2>5. ASSUME NEW p \in Procs, Within(p)
        PROVE  (\A q \in Procs : ReadOK(q)' /\ EditOK(q)') /\ Safe'
    <3>1. ReadOK(p)' /\ EditOK(p)' /\ Safe'
      BY <2>5, AddSafe, DeleteSafe, EditSafe, ReorderSafe, SetSafe DEF Within
    <3>2. \A q \in Procs \ {p} : ReadOK(q)' /\ EditOK(q)'
      BY <2>5, Others DEF IInv
    <3> QED
      BY <3>1, <3>2
  <2> QED
    BY <2>1, <2>2, <2>3, <2>4, <2>5 DEF Next, Step, Within
<1> QED
  BY <1>1, <1>2 DEF IInv, Safe

\* Nothing a process reads in its locked section goes stale before it writes,
\* and the mark and the files together remember the highest number issued.
THEOREM Invariance == Spec => []IInv
BY InitSafe, NextSafe, PTL DEF Spec

\* An edit that was acknowledged is never overwritten by a stale copy.
THEOREM EditsSurvive == Spec => []NoLostEdit
<1>1. IInv => NoLostEdit
  BY DEF IInv
<1> QED
  BY <1>1, Invariance, PTL

----------------------------------------------------------------------------
(* The store implements the allocator                                       *)

Numbers == [s \in Slugs |-> Live(s)]

\* The three ways a step can treat the numbers in use.
LEMMA NumbersKept ==
  ASSUME UNCHANGED issued, \A s \in Slugs : Live(s)' = Live(s)
  PROVE  UNCHANGED Allocator!avars
BY DEF Allocator!avars

LEMMA NumberAdded ==
  ASSUME IInv, NEW s \in Slugs, NEW n \in Nat, n \notin Live(s), \A m \in issued[s] : m < n,
         issued' = [issued EXCEPT ![s] = @ \cup {n}],
         Live(s)' = Live(s) \cup {n}, \A t \in Slugs \ {s} : Live(t)' = Live(t)
  PROVE  Allocator!NextAlloc
<1>1. Numbers' = [Numbers EXCEPT ![s] = @ \cup {n}]
  BY DEF Numbers
<1>2. n \in Numbers'[s] \ Numbers[s]
  BY DEF Numbers
<1> QED
  BY <1>1, <1>2 DEF Numbers, Allocator!NextAlloc, Allocator!Issue

LEMMA NumberRemoved ==
  ASSUME IInv, NEW s \in Slugs, NEW n \in Live(s), UNCHANGED issued,
         Live(s)' = Live(s) \ {n}, \A t \in Slugs \ {s} : Live(t)' = Live(t)
  PROVE  Allocator!NextAlloc
<1>1. Numbers' = [Numbers EXCEPT ![s] = @ \ {n}]
  BY DEF Numbers
<1>2. n \in Numbers[s] \ Numbers'[s]
  BY DEF Numbers
<1> QED
  BY <1>1, <1>2 DEF Numbers, Allocator!NextAlloc, Allocator!Remove

LEMMA StepRefines ==
  ASSUME IInv, [Next]_vars
  PROVE  [Allocator!NextAlloc]_(Allocator!avars)
<1> USE DEF IInv
<1>1. CASE UNCHANGED vars
  BY <1>1, NumbersKept DEF vars, Live
<1>2. ASSUME NEW p \in Procs,
             (\E c \in Commands, s \in Slugs : Begin(p, c, s)) \/ GiveUp(p) \/ Crash(p)
             \/ Acquire(p) \/ Release(p) \/ AddAllocate(p) \/ DeleteCheck(p) \/ DeleteBump(p)
             \/ EditRead(p) \/ ReorderRead(p) \/ SetRead(p) \/ SetWrite(p)
      PROVE  UNCHANGED Allocator!avars
  <2>1. UNCHANGED <<tasks, issued>>
    BY <1>2 DEF Begin, GiveUp, Crash, Acquire, Release, AddAllocate, DeleteCheck, DeleteBump,
                EditRead, ReorderRead, SetRead, SetWrite
  <2> QED
    BY <2>1, NumbersKept DEF Live
<1>3. ASSUME NEW p \in Procs, AddWrite(p) PROVE Allocator!NextAlloc
  <2> DEFINE s == job[p].slug
             n == job[p].id
  <2>1. s \in Slugs /\ n \in Nat /\ \A m \in issued[s] : m < n
    BY <1>3 DEF AddWrite, ReadOK, TInv, TypeOK, JobsOK, IsJob
  <2>2. n \notin Live(s)
    BY <2>1 DEF MarkOK
  <2>3. /\ issued' = [issued EXCEPT ![s] = @ \cup {n}]
        /\ DOMAIN tasks'[s] = Live(s) \cup {n}
        /\ \A t \in Slugs \ {s} : tasks'[t] = tasks[t]
    BY <2>1, <1>3 DEF AddWrite, WriteTask, TInv, TypeOK, TaskFilesOK, Live
  <2> HIDE DEF s, n
  <2> QED
    BY <2>1, <2>2, <2>3, NumberAdded DEF Live
<1>4. ASSUME NEW p \in Procs, DeleteUnlink(p) PROVE Allocator!NextAlloc \/ UNCHANGED Allocator!avars
  <2> DEFINE s == job[p].slug
             n == job[p].id
  <2>1. /\ s \in Slugs /\ UNCHANGED issued
        /\ DOMAIN tasks'[s] = Live(s) \ {n}
        /\ \A t \in Slugs \ {s} : tasks'[t] = tasks[t]
    BY <1>4 DEF DeleteUnlink, TInv, TypeOK, JobsOK, TaskFilesOK, Live
  <2> HIDE DEF s, n
  <2>2. CASE n \in Live(s)
    BY <2>1, <2>2, NumberRemoved DEF Live
  <2>3. CASE n \notin Live(s)
    BY <2>1, <2>3, NumbersKept DEF Live
  <2> QED
    BY <2>2, <2>3
<1>5. ASSUME NEW p \in Procs, EditWrite(p) \/ ReorderShift(p) \/ ReorderTarget(p)
      PROVE  UNCHANGED Allocator!avars
  <2> DEFINE s == job[p].slug
  <2>1. PICK i, t : i \in Live(s) /\ WriteTask(s, i, t) /\ UNCHANGED issued
    <3>1. CASE EditWrite(p)
      BY <3>1 DEF EditWrite, ReadOK
    <3>2. CASE ReorderShift(p)
      BY <3>2 DEF ReorderShift, ReadOK, TInv, PhaseOK, Phase
    <3>3. CASE ReorderTarget(p)
      <4> DEFINE t == [job[p].tasks[job[p].id] EXCEPT !.pri = job[p].pri]
      <4>1. WriteTask(s, job[p].id, t) /\ UNCHANGED issued /\ pc[p] = "shift"
        BY <3>3 DEF ReorderTarget
      <4>2. job[p].id \in Live(s)
        BY <4>1 DEF ReadOK, TInv, PhaseOK, Phase
      <4> HIDE DEF t
      <4> QED
        BY <4>1, <4>2
    <3> QED
      BY <1>5, <3>1, <3>2, <3>3
  <2>2. s \in Slugs
    BY <1>5, Untouched DEF Within
  <2>3. \A r \in Slugs : DOMAIN tasks'[r] = DOMAIN tasks[r]
    BY <2>1, <2>2 DEF WriteTask, TInv, TypeOK, TaskFilesOK, Live
  <2> QED
    BY <2>1, <2>3, NumbersKept DEF Live
<1> QED
  BY <1>1, <1>2, <1>3, <1>4, <1>5 DEF Next, Step

\* The task files and the mark together are an id allocator that only counts up:
\* every step of the commands is a step of IdAllocator or changes no number.
THEOREM Refinement == Spec => ImplementsAllocator
<1>1. Init => Allocator!InitAlloc
  <2> SUFFICES ASSUME Init PROVE Allocator!InitAlloc
    OBVIOUS
  <2>1. PICK n \in [Slugs -> 0..MaxExisting] :
          /\ tasks = [s \in Slugs |-> [i \in 1..n[s] |-> NewTask(i)]]
          /\ issued = [s \in Slugs |-> 1..n[s]]
    BY DEF Init, InitWith
  <2>2. \A s \in Slugs : Live(s) = 1..n[s]
    BY <2>1 DEF Live
  <2> QED
    BY <2>1, <2>2 DEF Allocator!InitAlloc
<1>2. IInv /\ [Next]_vars => [Allocator!NextAlloc]_(Allocator!avars)
  BY StepRefines
<1> QED
  BY <1>1, <1>2, Invariance, PTL DEF Spec, ImplementsAllocator, Allocator!SpecAlloc

\* No number is ever given to a second task, in whatever order commands run and
\* wherever a process dies.
THEOREM NumbersNeverReissued == Spec => IdsNeverReissued
<1>1. ASSUME IInv, [Next]_vars
      PROVE  \A s \in Slugs : \A i \in DOMAIN tasks'[s] \ Live(s) : i \notin issued[s]
  <2> SUFFICES ASSUME NEW s \in Slugs, NEW i \in DOMAIN tasks'[s] \ Live(s)
               PROVE  i \notin issued[s]
    OBVIOUS
  <2>n. Numbers[s] = Live(s) /\ Numbers'[s] = DOMAIN tasks'[s]
    BY DEF Numbers, Live
  <2>1. CASE UNCHANGED Allocator!avars
    <3>1. Numbers' = Numbers
      BY <2>1 DEF Allocator!avars, Numbers
    <3> QED
      BY <2>n, <3>1
  <2>2. CASE Allocator!NextAlloc
    <3>1. PICK r \in Slugs : Allocator!Issue(r) \/ Allocator!Remove(r)
      BY <2>2 DEF Allocator!NextAlloc
    <3>2. CASE Allocator!Issue(r)
      <4>1. PICK n : Numbers' = [Numbers EXCEPT ![r] = @ \cup {n}] /\ \A m \in issued[r] : m < n
        BY <3>2 DEF Allocator!Issue, Numbers
      <4>2. s = r /\ i = n
        BY <2>n, <4>1 DEF Numbers
      <4> QED
        BY <4>1, <4>2, <1>1 DEF IInv, TInv, TypeOK
    <3>3. CASE Allocator!Remove(r)
      <4>1. PICK n : Numbers' = [Numbers EXCEPT ![r] = @ \ {n}]
        BY <3>3 DEF Allocator!Remove, Numbers
      <4> QED
        BY <2>n, <4>1 DEF Numbers
    <3> QED
      BY <3>1, <3>2, <3>3
  <2> QED
    BY <1>1, <2>1, <2>2, StepRefines
<1> QED
  BY <1>1, Invariance, PTL DEF Spec, IdsNeverReissued

\* A reorder half way: the siblings still to do and task n are as they were.
LEMMA Halfway ==
  ASSUME NEW old, NEW new, NEW n \in DOMAIN old, NEW q \in Nat, NEW todo,
         \A i \in DOMAIN old : old[i] \in Tasks,
         DOMAIN new = DOMAIN old,
         \A i \in todo : old[i].pri >= q,
         \A i \in todo \cup {n} : new[i] = old[i],
         \A i \in DOMAIN old \ (todo \cup {n}) :
           new[i] = IF old[i].pri >= q THEN [old[i] EXCEPT !.pri = @ + 1] ELSE old[i]
  PROVE  OnlyPriorities(old, new, n, q)
<1>1. ASSUME NEW i \in DOMAIN old
      PROVE  /\ new[i].status = old[i].status /\ new[i].notes = old[i].notes
             /\ old[i].pri \in Nat
             /\ new[i].pri \in {old[i].pri, old[i].pri + 1}
             /\ new[i].pri = old[i].pri \/ old[i].pri >= q
  BY DEF Tasks
<1>2. \A i, k \in DOMAIN old \ {n} : old[i].pri < old[k].pri => new[i].pri <= new[k].pri
  BY <1>1
<1> QED
  BY <1>1, <1>2 DEF OnlyPriorities

\* At every step of a reorder only priorities have moved; one that ends leaves the
\* moved task alone at its new priority, its siblings on the side and in the order
\* they had.
THEOREM ReordersAreExact == Spec => ReorderExact
<1>1. ASSUME IInv, [Next]_vars, NEW p \in Procs, pc[p] = "shift", pc'[p] = "finished"
      PROVE  ReorderTarget(p)
  <2>1. p \in DOMAIN pc
    BY <1>1 DEF IInv, TInv, TypeOK, JobsOK
  <2>2. ~ UNCHANGED vars
    BY <1>1 DEF vars
  <2>3. PICK q \in Procs : \/ \E c \in Commands, s \in Slugs : Begin(q, c, s)
                           \/ Step(q) \/ GiveUp(q) \/ Crash(q)
    BY <1>1, <2>2 DEF Next
  <2>4. q = p
    <3>1. CASE \E c \in Commands, s \in Slugs : Begin(q, c, s)
      BY <1>1, <2>1, <3>1 DEF Begin
    <3>2. CASE GiveUp(q) \/ Crash(q) \/ Acquire(q) \/ Release(q)
      BY <1>1, <2>1, <3>2 DEF GiveUp, Crash, Acquire, Release
    <3>3. CASE Within(q)
      BY <1>1, <3>3, Untouched DEF IInv
    <3> QED
      BY <2>3, <3>1, <3>2, <3>3 DEF Step, Within
  <2>5. ~ (Begin(p, "x", 0) \/ GiveUp(p) \/ Crash(p) \/ Acquire(p) \/ Release(p) \/ AddAllocate(p)
           \/ DeleteCheck(p) \/ EditRead(p) \/ ReorderRead(p) \/ SetRead(p))
    BY <1>1, <2>1 DEF Begin, GiveUp, Crash, Acquire, Release, AddAllocate, DeleteCheck,
                      EditRead, ReorderRead, SetRead, Holding
  <2>6. ~ \E c \in Commands, s \in Slugs : Begin(p, c, s)
    BY <1>1 DEF Begin
  <2>7. ~ (AddWrite(p) \/ DeleteBump(p) \/ DeleteUnlink(p) \/ EditWrite(p) \/ SetWrite(p))
    BY <1>1 DEF AddWrite, DeleteBump, DeleteUnlink, EditWrite, SetWrite
  <2>8. ~ ReorderShift(p)
    BY <1>1 DEF ReorderShift
  <2> QED
    BY <2>3, <2>4, <2>5, <2>6, <2>7, <2>8 DEF Step
<1>2. ASSUME IInv, NEW p \in Procs, ReorderTarget(p)
      PROVE  LET j == job[p]
                 new == tasks'[j.slug]
             IN
             OnlyPriorities(j.tasks, new, j.id, j.pri) /\ OrderAsAsked(j.tasks, new, j.id, j.pri)
  <2> DEFINE j == job[p]
             s == j.slug
             n == j.id
             old == j.tasks
             t == [old[n] EXCEPT !.pri = j.pri]
  <2>1. /\ s \in Slugs /\ IsJob(j) /\ pc[p] = "shift" /\ j.todo = {}
        /\ WriteTask(s, n, t)
    BY <1>2, Untouched DEF Within, ReorderTarget, IInv, TInv, TypeOK, JobsOK
  <2>2. n \in Live(s) /\ DOMAIN old = Live(s)
    BY <1>2, <2>1 DEF IInv, ReadOK, TInv, PhaseOK, Phase
  <2>3. \A i \in Live(s) \ {n} :
          tasks[s][i] = IF old[i].pri >= j.pri THEN [old[i] EXCEPT !.pri = @ + 1] ELSE old[i]
    <3>1. ReadOK(p)
      BY <1>2 DEF IInv
    <3> QED
      BY <2>1, <3>1 DEF ReadOK
  <2>4. \A i \in Live(s) : old[i] \in Tasks
    BY <2>1, <2>2 DEF IsJob
  <2>5. tasks'[s] = [k \in Live(s) |-> IF k = n THEN t ELSE tasks[s][k]]
    <3>1. Live(s) \cup {n} = DOMAIN tasks[s]
      BY <2>2 DEF Live
    <3> HIDE DEF t
    <3> QED
      BY <2>1, <3>1, <1>2 DEF WriteTask, IInv, TInv, TypeOK, TaskFilesOK, Live
  <2> DEFINE new == tasks'[s]
  <2>6. /\ DOMAIN new = Live(s) /\ new[n] = t
        /\ \A i \in Live(s) \ {n} : new[i] = tasks[s][i]
    <3> HIDE DEF t
    <3> QED
      BY <2>2, <2>5
  <2>7. t.pri = j.pri /\ t.status = old[n].status /\ t.notes = old[n].notes
    BY <2>2, <2>4 DEF Tasks
  <2>8. ASSUME NEW i \in Live(s) \ {n}
        PROVE  /\ new[i].status = old[i].status /\ new[i].notes = old[i].notes
               /\ old[i].pri \in Nat
               /\ new[i].pri = IF old[i].pri >= j.pri THEN old[i].pri + 1 ELSE old[i].pri
    <3>1. /\ new[i] = IF old[i].pri >= j.pri THEN [old[i] EXCEPT !.pri = @ + 1] ELSE old[i]
          /\ old[i] \in Tasks
      BY <2>3, <2>4, <2>6
    <3> HIDE DEF new, old, j
    <3> QED
      BY <3>1 DEF Tasks
  <2>9. j.pri \in Nat
    BY <2>1 DEF IsJob
  <2> HIDE DEF t, new
  <2>10. \A i \in DOMAIN old : new[i].status = old[i].status /\ new[i].notes = old[i].notes
    BY <2>2, <2>6, <2>7, <2>8
  <2>11. \A i \in Live(s) \ {n} :
           IF old[i].pri < j.pri THEN new[i].pri < j.pri ELSE j.pri < new[i].pri
    BY <2>6, <2>8, <2>9
  <2>12. \A i, k \in Live(s) \ {n} : old[i].pri < old[k].pri <=> new[i].pri < new[k].pri
    BY <2>8, <2>9
  <2>13. \A i, k \in Live(s) \ {n} : old[i].pri < old[k].pri => new[i].pri <= new[k].pri
    BY <2>8, <2>9
  <2>14. OnlyPriorities(old, new, n, j.pri)
    <3> HIDE DEF old, j, n
    <3> QED
      BY <2>2, <2>6, <2>7, <2>10, <2>13 DEF OnlyPriorities
  <2>15. OrderAsAsked(old, new, n, j.pri)
    <3> HIDE DEF old, j, n
    <3> QED
      BY <2>2, <2>6, <2>7, <2>11, <2>12 DEF OrderAsAsked
  <2> QED
    BY <2>14, <2>15 DEF new
<1>3. ASSUME IInv, IInv', [Next]_vars, NEW p \in Procs, pc[p] = "shift", ~ReorderTarget(p)
      PROVE  LET j == job[p] IN OnlyPriorities(j.tasks, tasks'[j.slug], j.id, j.pri)
  <2> DEFINE j == job[p]
             s == j.slug
             new == tasks'[s]
  <2>1. /\ s \in Slugs /\ IsJob(j) /\ ReadOK(p) /\ j.id \in Live(s) /\ DOMAIN j.tasks = Live(s)
    BY <1>3 DEF IInv, ReadOK, TInv, TypeOK, JobsOK, PhaseOK, Phase
  <2>2. /\ j.pri \in Nat /\ \A i \in DOMAIN j.tasks : j.tasks[i] \in Tasks
    BY <2>1 DEF IsJob
  <2> DEFINE Shifting(files, todo) ==
               /\ DOMAIN files = DOMAIN j.tasks
               /\ \A i \in todo : j.tasks[i].pri >= j.pri
               /\ \A i \in todo \cup {j.id} : files[i] = j.tasks[i]
               /\ \A i \in DOMAIN j.tasks \ (todo \cup {j.id}) :
                    files[i] = IF j.tasks[i].pri >= j.pri
                               THEN [j.tasks[i] EXCEPT !.pri = @ + 1] ELSE j.tasks[i]
  <2>3. ASSUME NEW files, NEW todo, Shifting(files, todo)
        PROVE  OnlyPriorities(j.tasks, files, j.id, j.pri)
    <3>1. j.id \in DOMAIN j.tasks
      BY <2>1
    <3> HIDE DEF j
    <3> QED
      BY <2>2, <2>3, <3>1, Halfway
  <2>4. CASE tasks'[s] = tasks[s]
    <3>1. Shifting(tasks[s], j.todo)
      BY <1>3, <2>1 DEF ReadOK, Live
    <3> HIDE DEF Shifting
    <3> QED
      BY <2>3, <2>4, <3>1
  <2>5. CASE ReorderShift(p)
    <3>1. /\ pc'[p] = "shift" /\ p \in DOMAIN job
          /\ \E i \in j.todo : job' = [job EXCEPT ![p] = [@ EXCEPT !.todo = j.todo \ {i}]]
      BY <2>5, <1>3 DEF ReorderShift, IInv, TInv, TypeOK, JobsOK
    <3>2. /\ job'[p].slug = s /\ job'[p].id = j.id /\ job'[p].pri = j.pri
          /\ job'[p].tasks = j.tasks
      BY <2>1, <3>1 DEF IsJob
    <3>3. ReadOK(p)'
      BY <1>3 DEF IInv
    <3>4. Shifting(tasks'[s], job'[p].todo)
      BY <3>1, <3>2, <3>3 DEF ReadOK, Live
    <3> HIDE DEF Shifting
    <3> QED
      BY <2>3, <3>4
  <2>6. CASE \E q \in Procs \ {p} : Within(q)
    <3>1. PICK q \in Procs \ {p} : Within(q)
      BY <2>6
    <3>2. pc[q] \in Inside /\ pc[p] \in Inside
      BY <1>3, <3>1, Untouched DEF IInv, Inside
    <3>3. job[q].slug # s
      BY <1>3, <3>1, <3>2, Alone DEF IInv
    <3>4. tasks'[s] = tasks[s]
      BY <1>3, <2>1, <3>1, <3>3, Untouched DEF IInv
    <3> QED
      BY <2>4, <3>4
  <2>7. CASE Within(p)
    BY <1>3, <2>4, <2>5, <2>7
       DEF Within, AddAllocate, AddWrite, DeleteCheck, DeleteBump, DeleteUnlink, EditRead, EditWrite,
           ReorderRead, SetRead, SetWrite, Holding
  <2>8. CASE UNCHANGED tasks
    BY <2>4, <2>8
  <2> QED
    BY <1>3, <2>6, <2>7, <2>8
       DEF Next, Step, Within, Begin, GiveUp, Crash, Acquire, Release, vars
<1>4. ASSUME IInv, IInv', [Next]_vars
      PROVE  \A p \in Procs :
               LET j == job[p]
                   new == tasks'[j.slug]
               IN
               j.cmd = "reorder" /\ pc[p] = "shift" =>
                 /\ OnlyPriorities(j.tasks, new, j.id, j.pri)
                 /\ pc'[p] = "finished" => OrderAsAsked(j.tasks, new, j.id, j.pri)
  BY <1>1, <1>2, <1>3, <1>4
<1> QED
  BY <1>4, Invariance, PTL DEF Spec, ReorderExact

----------------------------------------------------------------------------
(* Bounded sets of numbers, for what is argued along the order of the locks.*)

\* A set of numbers has a lowest one.
LEMMA Lowest ==
  ASSUME NEW T, T \subseteq Nat, T # {}
  PROVE  \E x \in T : \A y \in T : x <= y
<1>1. PICK x \in T : \A y \in T : ~(<<y, x>> \in OpToRel(<, Nat))
  BY WFMin, NatLessThanWellFounded
<1>2. ASSUME NEW y \in T PROVE x <= y
  <2>1. ~(<<y, x>> \in {ss \in Nat \X Nat : ss[1] < ss[2]})
    BY <1>1 DEF OpToRel
  <2>2. <<y, x>> \in Nat \X Nat
    OBVIOUS
  <2>3. ~(y < x)
    BY <2>1, <2>2
  <2>4. QED  BY <2>3
<1>3. QED  BY <1>2

\* A set of numbers with a bound has a highest one.
LEMMA Highest ==
  ASSUME NEW T, T \subseteq Nat, T # {}, NEW n \in Nat, \A t \in T : t <= n
  PROVE  \E x \in T : \A y \in T : y <= x
<1>. DEFINE Gaps == {k \in Nat : k <= n /\ n - k \in T}
<1>1. ASSUME NEW t \in T PROVE n - t \in Gaps
  <2>1. t \in Nat /\ t <= n
    OBVIOUS
  <2>2. n - t \in Nat /\ n - t <= n /\ n - (n - t) = t
    BY <2>1
  <2>3. QED  BY <2>2
<1>2. Gaps \subseteq Nat /\ Gaps # {}
  BY <1>1
<1>3. \E g \in Gaps : \A h \in Gaps : g <= h
  <2>. HIDE DEF Gaps
  <2>1. QED  BY <1>2, Lowest
<1>4. PICK g \in Gaps : \A h \in Gaps : g <= h
  BY <1>3
<1>5. g \in Nat /\ n - g \in T
  OBVIOUS
<1>6. ASSUME NEW y \in T PROVE y <= n - g
  <2>1. g <= n - y
    BY <1>1, <1>4
  <2>2. y \in Nat
    OBVIOUS
  <2>3. QED  BY <1>5, <2>1, <2>2
<1>7. QED  BY <1>5, <1>6

----------------------------------------------------------------------------
(* What a task command does to the locks.                                   *)

\* The actions of a task command that has its lock and keeps it.
Works(p) ==
  \/ AddAllocate(p) \/ AddWrite(p)
  \/ DeleteCheck(p) \/ DeleteBump(p) \/ DeleteUnlink(p)
  \/ EditRead(p) \/ EditWrite(p)
  \/ ReorderRead(p) \/ ReorderShift(p) \/ ReorderTarget(p)
  \/ SetRead(p) \/ SetWrite(p)

\* Where a task command stands as far as its lock goes.
Stays(p) ==
  /\ pc[p] \notin {"idle", "wait"} /\ pc'[p] \notin {"idle", "wait"}
  /\ job'[p].slug = job[p].slug /\ "slug" \in DOMAIN job'[p]
  /\ DOMAIN pc' = Procs /\ DOMAIN job' = Procs
  /\ \A q \in Procs \ {p} : pc'[q] = pc[q] /\ job'[q] = job[q]
  /\ UNCHANGED <<lock, dead>>

LEMMA WorkStays == ASSUME FTypeOK, NEW p \in Procs, Works(p) PROVE Stays(p)
<1>. USE DEF FTypeOK, Stays, Holding, Fail, Finish
<1>1. CASE AddAllocate(p)
  BY <1>1 DEF AddAllocate
<1>2. CASE AddWrite(p) \/ DeleteBump(p) \/ DeleteUnlink(p) \/ EditWrite(p)
  BY <1>2 DEF AddWrite, DeleteBump, DeleteUnlink, EditWrite
<1>3. CASE DeleteCheck(p)
  BY <1>3 DEF DeleteCheck
<1>4. CASE EditRead(p)
  BY <1>4 DEF EditRead
<1>5. CASE ReorderRead(p)
  <2>1. CASE Fail(p)
    BY <1>5, <2>1 DEF ReorderRead
  <2>2. CASE ~Fail(p)
    <3>1. job'[p].slug = job[p].slug /\ "slug" \in DOMAIN job'[p]
      BY <1>5, <2>2 DEF ReorderRead
    <3>2. /\ pc[p] = "locked" /\ pc'[p] = "shift" /\ UNCHANGED <<lock, dead>>
          /\ DOMAIN pc' = Procs /\ DOMAIN job' = Procs
          /\ \A q \in Procs \ {p} : pc'[q] = pc[q] /\ job'[q] = job[q]
      BY <1>5, <2>2 DEF ReorderRead
    <3> QED
      BY ONLY <3>1, <3>2 DEF Stays
  <2> QED
    BY <2>1, <2>2
<1>6. CASE ReorderShift(p) \/ ReorderTarget(p)
  BY <1>6 DEF ReorderShift, ReorderTarget
<1>7. CASE SetRead(p) \/ SetWrite(p)
  BY <1>7 DEF SetRead, SetWrite
<1>8. QED  BY <1>1, <1>2, <1>3, <1>4, <1>5, <1>6, <1>7 DEF Works

----------------------------------------------------------------------------
(* Who holds a lock.                                                        *)

\* A task command that holds a lock works on that initiative and waits for none.
TaskHolds ==
  \A s \in Slugs, p \in Procs :
    lock[s] = p => p \in dead \/ (pc[p] \notin {"idle", "wait"} /\ job[p].slug = s)

\* A command on the list holds locks below those it has yet to take.
ListHolds ==
  \A s \in Slugs, f \in Focusers :
    lock[s] = f => f \in dead \/ (at[f] = "lock" /\ \A t \in fjob[f].locks : s < t)

DeadIdle == /\ \A p \in Procs \cap dead : pc[p] = "idle"
            /\ \A f \in Focusers \cap dead : at[f] = "idle"

Disciplined == FTypeOK /\ TaskHolds /\ ListHolds /\ DeadIdle

LEMMA InitDisciplined == FInit => Disciplined
<1>. SUFFICES ASSUME FInit PROVE Disciplined
  OBVIOUS
<1>1. /\ lock = [s \in Slugs |-> NoProc] /\ dead = {}
      /\ pc = [p \in Procs |-> "idle"] /\ job = [p \in Procs |-> IdleJob]
      /\ at = [f \in Focusers |-> "idle"] /\ fjob = [f \in Focusers |-> IdleFocus]
  BY DEF FInit, InitWith
<1>2. FTypeOK
  BY <1>1 DEF FTypeOK, IdleJob, NewJob, IdleFocus
<1>3. TaskHolds /\ ListHolds /\ DeadIdle
  BY <1>1, ProcAssumption, FocuserAssumption DEF TaskHolds, ListHolds, DeadIdle
<1>4. QED  BY <1>2, <1>3 DEF Disciplined

\* A step of a task command.
LEMMA TaskStep ==
  ASSUME Disciplined, NEW p \in Procs, UNCHANGED fvars,
         \/ \E c \in Commands, s \in Slugs : Begin(p, c, s)
         \/ Step(p) \/ GiveUp(p) \/ Crash(p)
  PROVE  Disciplined'
<1>. USE ProcAssumption, FocuserAssumption
<1>. USE DEF fvars
<1>1. ASSUME NEW c \in Commands, NEW s \in Slugs, Begin(p, c, s) PROVE Disciplined'
  <2>1. /\ pc[p] = "idle" /\ p \notin dead /\ pc' = [pc EXCEPT ![p] = "wait"]
        /\ \E i : \E q : job' = [job EXCEPT ![p] = NewJob(c, s, i, q)]
        /\ UNCHANGED <<lock, dead>>
    BY <1>1 DEF Begin
  <2>2. FTypeOK'
    BY <2>1 DEF Disciplined, FTypeOK, NewJob
  <2>3. TaskHolds' /\ ListHolds' /\ DeadIdle'
    BY <2>1 DEF Disciplined, FTypeOK, TaskHolds, ListHolds, DeadIdle
  <2>4. QED  BY <2>2, <2>3 DEF Disciplined
<1>2. CASE Acquire(p)
  <2>1. /\ pc[p] = "wait" /\ pc' = [pc EXCEPT ![p] = "locked"]
        /\ lock' = [lock EXCEPT ![job[p].slug] = p] /\ UNCHANGED <<dead, job>>
    BY <1>2 DEF Acquire
  <2>2. FTypeOK'
    BY <2>1 DEF Disciplined, FTypeOK
  <2>3. TaskHolds' /\ ListHolds' /\ DeadIdle'
    BY <2>1 DEF Disciplined, FTypeOK, TaskHolds, ListHolds, DeadIdle
  <2>4. QED  BY <2>2, <2>3 DEF Disciplined
<1>3. CASE Release(p)
  <2>1. /\ pc[p] \in {"finished", "failed"} /\ pc' = [pc EXCEPT ![p] = "idle"]
        /\ lock' = [lock EXCEPT ![job[p].slug] = NoProc] /\ UNCHANGED dead
        /\ job' = [job EXCEPT ![p] = IdleJob]
    BY <1>3 DEF Release
  <2>2. FTypeOK'
    BY <2>1 DEF Disciplined, FTypeOK, IdleJob, NewJob
  <2>3. TaskHolds' /\ ListHolds' /\ DeadIdle'
    BY <2>1 DEF Disciplined, FTypeOK, TaskHolds, ListHolds, DeadIdle
  <2>4. QED  BY <2>2, <2>3 DEF Disciplined
<1>4. CASE GiveUp(p) \/ Crash(p)
  <2>1. /\ pc' = [pc EXCEPT ![p] = "idle"] /\ job' = [job EXCEPT ![p] = IdleJob] /\ UNCHANGED lock
        /\ (pc[p] = "wait" /\ UNCHANGED dead) \/ dead' = dead \cup {p}
    BY <1>4 DEF GiveUp, Crash
  <2>2. FTypeOK'
    BY <2>1 DEF Disciplined, FTypeOK, IdleJob, NewJob
  <2>3. TaskHolds' /\ ListHolds' /\ DeadIdle'
    BY <2>1 DEF Disciplined, FTypeOK, TaskHolds, ListHolds, DeadIdle
  <2>4. QED  BY <2>2, <2>3 DEF Disciplined
<1>5. CASE Works(p)
  <2>1. Stays(p)
    BY <1>5, WorkStays DEF Disciplined
  <2>2. FTypeOK'
    BY <2>1 DEF Disciplined, FTypeOK, Stays
  <2>3. TaskHolds' /\ ListHolds' /\ DeadIdle'
    BY <2>1 DEF Disciplined, FTypeOK, TaskHolds, ListHolds, DeadIdle, Stays
  <2>4. QED  BY <2>2, <2>3 DEF Disciplined
<1>6. QED  BY <1>1, <1>2, <1>3, <1>4, <1>5 DEF Step, Works

\* A command on the list goes on, while it holds nothing or with no more locks to take
\* than it had.
LEMMA ListMoves ==
  ASSUME Disciplined, NEW f \in Focusers,
         NEW j, fjob' = [fjob EXCEPT ![f] = j], {"slug", "locks"} \subseteq DOMAIN j, j.locks \subseteq Slugs,
         NEW place \in {"idle", "load", "lock"}, at' = [at EXCEPT ![f] = place],
         place # "idle" => j.slug \in Slugs /\ f \notin dead,
         UNCHANGED <<lock, dead, pc, job>>,
         \/ \A s \in Slugs : lock[s] # f
         \/ at[f] = "lock" /\ place = "lock" /\ j.locks \subseteq fjob[f].locks
  PROVE  Disciplined'
<1>. USE ProcAssumption, FocuserAssumption
<1>1. FTypeOK'
  BY DEF Disciplined, FTypeOK
<1>2. TaskHolds' /\ DeadIdle'
  BY DEF Disciplined, FTypeOK, TaskHolds, DeadIdle
<1>3. ListHolds'
  BY DEF Disciplined, FTypeOK, ListHolds
<1>4. QED  BY <1>1, <1>2, <1>3 DEF Disciplined

\* A command that has not yet taken or no longer waits for a lock is alive and holds none.
LEMMA HoldsNone ==
  ASSUME Disciplined, NEW f \in Focusers
  PROVE  /\ at[f] # "idle" => f \notin dead
         /\ at[f] # "lock" /\ f \notin dead => \A s \in Slugs : lock[s] # f
  BY DEF Disciplined, ListHolds, DeadIdle

LEMMA IdleFields == {"slug", "locks"} \subseteq DOMAIN IdleFocus /\ IdleFocus.locks = {}
  BY DEF IdleFocus

\* A command that has read the list ends or plans to lock some initiatives.
LEMMA ListDecides ==
  ASSUME Disciplined, NEW f \in Focusers, at[f] = "load", UNCHANGED vars,
         Refuse(f) \/ \E L \in SUBSET Slugs : \E W : Plan(f, L, W)
  PROVE  Disciplined'
<1>1. UNCHANGED <<lock, dead, pc, job>>
  BY DEF vars
<1>2. f \notin dead /\ \A s \in Slugs : lock[s] # f
  BY HoldsNone
<1>3. CASE Refuse(f)
  <2>1. /\ at' = [at EXCEPT ![f] = "idle"] /\ fjob' = [fjob EXCEPT ![f] = IdleFocus]
    BY <1>3 DEF Refuse
  <2>2. QED  BY <1>1, <1>2, <2>1, IdleFields, ListMoves
<1>4. ASSUME NEW L \in SUBSET Slugs, NEW W, Plan(f, L, W) PROVE Disciplined'
  <2>. DEFINE half == [fjob[f] EXCEPT !.locks = L]
              j == [half EXCEPT !.writes = W]
  <2>1. DOMAIN half = DOMAIN fjob[f] /\ half.locks = L /\ half.slug = fjob[f].slug
    BY DEF Disciplined, FTypeOK
  <2>2. DOMAIN j = DOMAIN half /\ j.locks = half.locks /\ j.slug = half.slug
    BY <2>1 DEF Disciplined, FTypeOK
  <2>3. fjob' = [fjob EXCEPT ![f] = j] /\ at' = [at EXCEPT ![f] = "lock"]
    BY <1>4 DEF Plan, Disciplined, FTypeOK
  <2>4. {"slug", "locks"} \subseteq DOMAIN fjob[f] /\ fjob[f].slug \in Slugs
    BY DEF Disciplined, FTypeOK
  <2>. HIDE DEF j, half
  <2>5. QED  BY <1>1, <1>2, <2>1, <2>2, <2>3, <2>4, ListMoves
<1>5. QED  BY <1>3, <1>4

LEMMA DecideStep ==
  ASSUME Disciplined, NEW f \in Focusers,
         FocusDecide(f) \/ UnfocusDecide(f) \/ PauseDecide(f) \/ UnpauseDecide(f) \/ NewDecide(f)
  PROVE  Disciplined'
<1>1. PICK c \in {"focus", "unfocus", "pause", "unpause", "new"} : Loaded(f, c) /\ UNCHANGED vars
  BY DEF FocusDecide, UnfocusDecide, PauseDecide, UnpauseDecide, NewDecide
<1>2. at[f] = "load" /\ DOMAIN fjob[f].seen = Slugs /\ fjob[f].slug \in Slugs
  BY <1>1 DEF Loaded, Disciplined, FTypeOK
<1>3. ASSUME NEW state, LeaveList(f, state) PROVE \E L \in SUBSET Slugs : \E W : Plan(f, L, W)
  BY <1>2, <1>3 DEF LeaveList, Focused
<1>4. Refuse(f) \/ \E L \in SUBSET Slugs : \E W : Plan(f, L, W)
  <2>1. CASE FocusDecide(f)
    BY <1>2, <2>1 DEF FocusDecide, Focused
  <2>2. CASE UnfocusDecide(f) \/ PauseDecide(f)
    BY <1>3, <2>2 DEF UnfocusDecide, PauseDecide
  <2>3. CASE UnpauseDecide(f) \/ NewDecide(f)
    BY <1>2, <2>3 DEF UnpauseDecide, NewDecide
  <2>4. QED  BY <2>1, <2>2, <2>3
<1>5. QED  BY <1>1, <1>2, <1>4, ListDecides

\* The next lock is the lowest of those yet to be taken.
LEMMA LockStep == ASSUME Disciplined, NEW f \in Focusers, FLock(f) PROVE Disciplined'
<1>. USE ProcAssumption, FocuserAssumption, SlugAssumption
<1>1. PICK s \in Slugs :
        /\ at[f] = "lock" /\ NextLock(f, s) /\ lock' = [lock EXCEPT ![s] = f]
        /\ fjob' = [fjob EXCEPT ![f].locks = @ \ {s}] /\ UNCHANGED <<dead, pc, job, at>>
  BY DEF FLock
<1>2. fjob[f].locks \subseteq Nat /\ s \in Nat
  BY DEF Disciplined, FTypeOK
<1>3. ASSUME NEW t \in fjob[f].locks \ {s} PROVE s < t
  BY <1>1, <1>2 DEF NextLock
<1>4. FTypeOK'
  BY <1>1 DEF Disciplined, FTypeOK
<1>5. TaskHolds' /\ DeadIdle'
  BY <1>1 DEF Disciplined, FTypeOK, TaskHolds, DeadIdle
<1>6. ListHolds'
  <2>1. fjob'[f].locks = fjob[f].locks \ {s} /\ \A g \in Focusers \ {f} : fjob'[g] = fjob[g]
    BY <1>1 DEF Disciplined, FTypeOK
  <2>2. QED  BY <1>1, <1>3, <2>1 DEF Disciplined, FTypeOK, ListHolds
<1>7. QED  BY <1>4, <1>5, <1>6 DEF Disciplined

\* A step of a command on the list.
LEMMA ListStep ==
  ASSUME Disciplined, NEW f \in Focusers,
         \/ \E c \in FocusCommands, s \in Slugs, r \in Ranks \cup {0} : FBegin(f, c, s, r)
         \/ FStep(f) \/ FGiveUp(f) \/ FCrash(f)
  PROVE  Disciplined'
<1>. USE ProcAssumption, FocuserAssumption
<1>1. {"slug", "locks"} \subseteq DOMAIN fjob[f] /\ fjob[f].locks \subseteq Slugs
  BY DEF Disciplined, FTypeOK
<1>2. ASSUME NEW c \in FocusCommands, NEW s \in Slugs, NEW r \in Ranks \cup {0}, FBegin(f, c, s, r)
      PROVE  Disciplined'
  <2>. DEFINE j == [IdleFocus EXCEPT !.cmd = c, !.slug = s, !.rank = r]
  <2>1. {"slug", "locks"} \subseteq DOMAIN j /\ j.locks = {} /\ j.slug = s
    BY DEF IdleFocus
  <2>2. /\ at' = [at EXCEPT ![f] = "load"] /\ at[f] = "idle" /\ f \notin dead
        /\ fjob' = [fjob EXCEPT ![f] = j] /\ UNCHANGED <<lock, dead, pc, job>>
    BY <1>2 DEF FBegin
  <2>. HIDE DEF j
  <2>3. QED  BY <2>1, <2>2, HoldsNone, ListMoves
<1>3. CASE FLoad(f)
  <2>1. PICK v : fjob' = [fjob EXCEPT ![f].seen = v]
    BY <1>3 DEF FLoad
  <2>. DEFINE j == [fjob[f] EXCEPT !.seen = v]
  <2>2. {"slug", "locks"} \subseteq DOMAIN j /\ j.locks = fjob[f].locks /\ j.slug = fjob[f].slug
    BY <1>1
  <2>3. fjob' = [fjob EXCEPT ![f] = j]
    BY <2>1
  <2>4. /\ at[f] = "load" /\ at' = [at EXCEPT ![f] = "load"] /\ UNCHANGED <<lock, dead, pc, job>>
        /\ fjob[f].slug \in Slugs
    BY <1>3 DEF FLoad, vars, Disciplined, FTypeOK
  <2>. HIDE DEF j
  <2>5. QED  BY <1>1, <2>2, <2>3, <2>4, HoldsNone, ListMoves
<1>4. CASE FocusDecide(f) \/ UnfocusDecide(f) \/ PauseDecide(f) \/ UnpauseDecide(f) \/ NewDecide(f)
  BY <1>4, DecideStep
<1>5. CASE FLock(f)
  BY <1>5, LockStep
<1>6. CASE FGiveUp(f)
  <2>. DEFINE half == [fjob[f] EXCEPT !.locks = {}]
              j == [half EXCEPT !.writes = {}]
  <2>1. {"slug", "locks"} \subseteq DOMAIN half /\ half.locks = {} /\ half.slug = fjob[f].slug
    BY <1>1
  <2>2. {"slug", "locks"} \subseteq DOMAIN j /\ j.locks = half.locks /\ j.slug = half.slug
    BY <2>1
  <2>3. fjob' = [fjob EXCEPT ![f] = j]
    BY <1>6 DEF FGiveUp, Disciplined, FTypeOK
  <2>4. /\ at[f] = "lock" /\ at' = [at EXCEPT ![f] = "lock"] /\ UNCHANGED <<lock, dead, pc, job>>
        /\ fjob[f].slug \in Slugs
    BY <1>6 DEF FGiveUp, vars, Disciplined, FTypeOK
  <2>. HIDE DEF j, half
  <2>5. QED  BY <2>1, <2>2, <2>3, <2>4, HoldsNone, ListMoves
<1>7. CASE FWrite(f)
  <2>0. PICK w \in fjob[f].writes : fjob' = [fjob EXCEPT ![f].writes = @ \ {w}]
    BY <1>7 DEF FWrite
  <2>. DEFINE j == [fjob[f] EXCEPT !.writes = fjob[f].writes \ {w}]
  <2>1. {"slug", "locks"} \subseteq DOMAIN j /\ j.locks = fjob[f].locks /\ j.slug = fjob[f].slug
    BY <1>1
  <2>2. fjob' = [fjob EXCEPT ![f] = j]
    BY <2>0 DEF Disciplined, FTypeOK
  <2>3. /\ at[f] = "lock" /\ at' = [at EXCEPT ![f] = "lock"] /\ UNCHANGED <<lock, dead, pc, job>>
        /\ fjob[f].slug \in Slugs
    BY <1>7 DEF FWrite, Disciplined, FTypeOK
  <2>. HIDE DEF j
  <2>4. QED  BY <1>1, <2>1, <2>2, <2>3, HoldsNone, ListMoves
<1>8. CASE FUnlock(f)
  <2>1. PICK s \in Slugs : lock' = [lock EXCEPT ![s] = NoProc] /\ UNCHANGED <<dead, pc, job, at, fjob>>
    BY <1>8 DEF FUnlock, Held, fvars
  <2>2. FTypeOK'
    BY <2>1 DEF Disciplined, FTypeOK
  <2>3. TaskHolds' /\ ListHolds' /\ DeadIdle'
    BY <2>1 DEF Disciplined, FTypeOK, TaskHolds, ListHolds, DeadIdle
  <2>4. QED  BY <2>2, <2>3 DEF Disciplined
<1>9. CASE FEnd(f)
  <2>1. /\ at' = [at EXCEPT ![f] = "idle"] /\ fjob' = [fjob EXCEPT ![f] = IdleFocus]
        /\ UNCHANGED <<lock, dead, pc, job>> /\ \A s \in Slugs : lock[s] # f
    BY <1>9 DEF FEnd, Held, vars
  <2>2. QED  BY <2>1, IdleFields, ListMoves
<1>10. CASE FCrash(f)
  <2>1. /\ at' = [at EXCEPT ![f] = "idle"] /\ fjob' = [fjob EXCEPT ![f] = IdleFocus]
        /\ UNCHANGED <<lock, pc, job>> /\ dead' = dead \cup {f}
    BY <1>10 DEF FCrash
  <2>2. FTypeOK'
    BY <2>1, IdleFields DEF Disciplined, FTypeOK
  <2>3. TaskHolds' /\ ListHolds' /\ DeadIdle'
    BY <2>1 DEF Disciplined, FTypeOK, TaskHolds, ListHolds, DeadIdle
  <2>4. QED  BY <2>2, <2>3 DEF Disciplined
<1>11. QED  BY <1>2, <1>3, <1>4, <1>5, <1>6, <1>7, <1>8, <1>9, <1>10 DEF FStep

LEMMA NextDisciplined == ASSUME Disciplined, [FNext]_allVars PROVE Disciplined'
<1>1. CASE UNCHANGED allVars
  BY <1>1 DEF allVars, vars, fvars, Disciplined, FTypeOK, TaskHolds, ListHolds, DeadIdle
<1>2. QED  BY <1>1, TaskStep, ListStep DEF FNext, Next

----------------------------------------------------------------------------
(* No circle.                                                               *)

LEMMA NoCircle == Disciplined => NoWaitCycle
<1>. USE FocuserAssumption, SlugAssumption
<1>1. SUFFICES ASSUME Disciplined, NEW H \in (SUBSET (Procs \cup Focusers)) \ {{}},
                      \A h \in H : \E s \in Slugs : WaitsFor(h, s) /\ lock[s] \in H \ {h}
               PROVE  FALSE
  BY DEF NoWaitCycle
<1>. DEFINE T == {s \in Slugs : \E h \in H : WaitsFor(h, s) /\ lock[s] \in H \ {h}}
<1>2. T # {} /\ T \subseteq Nat
  <2>1. PICK h \in H : TRUE
    <3>1. H # {}
      BY <1>1
    <3>2. QED  BY <3>1
  <2>2. PICK s \in Slugs : WaitsFor(h, s) /\ lock[s] \in H \ {h}
    BY <1>1, <2>1
  <2>3. s \in T
    BY <2>2
  <2>4. QED  BY <2>3
<1>3. PICK s \in T : \A t \in T : t <= s
  <2>1. PICK n \in Nat : \A t \in Slugs : t <= n
    BY SlugsBounded
  <2>. HIDE DEF T
  <2>2. T \subseteq Slugs
    BY DEF T
  <2>3. QED  BY <1>2, <2>1, <2>2, Highest
<1>4. lock[s] \in H
  OBVIOUS
<1>5. PICK t \in Slugs : WaitsFor(lock[s], t) /\ lock[t] \in H \ {lock[s]}
  BY <1>1, <1>4
<1>6. t <= s
  BY <1>3, <1>4, <1>5
<1>7. CASE lock[s] \in Procs
  <2>1. pc[lock[s]] = "wait"
    BY <1>5, <1>7 DEF WaitsFor
  <2>2. lock[s] \in dead
    BY <1>1, <1>7, <2>1 DEF Disciplined, TaskHolds
  <2>3. QED  BY <1>1, <1>7, <2>1, <2>2 DEF Disciplined, DeadIdle
<1>8. CASE lock[s] \in Focusers
  <2>1. at[lock[s]] = "lock" /\ t \in fjob[lock[s]].locks
    BY <1>5, <1>8 DEF WaitsFor, NextLock
  <2>2. s < t
    BY <1>1, <1>8, <2>1 DEF Disciplined, ListHolds, DeadIdle
  <2>3. QED  BY <1>6, <2>2
<1>9. QED  BY <1>1, <1>4, <1>7, <1>8

\* The locks, the dead and the places of the processes hold values of their kinds.
THEOREM FocusTypes == FSpec => []FTypeOK
<1>1. Disciplined /\ [FNext]_allVars => Disciplined'
  BY NextDisciplined
<1>2. Disciplined => FTypeOK
  BY DEF Disciplined
<1>3. QED  BY InitDisciplined, <1>1, <1>2, PTL DEF FSpec

\* No set of processes waits on each other in a circle.
THEOREM NoCircleEver == FSpec => []NoWaitCycle
<1>1. Disciplined /\ [FNext]_allVars => Disciplined'
  BY NextDisciplined
<1>2. QED  BY InitDisciplined, <1>1, NoCircle, PTL DEF FSpec

----------------------------------------------------------------------------
(* What a command decides from the list it read.                            *)

\* Of finitely many numbers one is the highest.
LEMMA HighestOfMany ==
  ASSUME NEW T, T \subseteq Nat, T # {}, IsFiniteSet(T)
  PROVE  \E x \in T : \A y \in T : y <= x
<1>. DEFINE Above(x) == {y \in T : y > x}
            Sizes == {Cardinality(Above(x)) : x \in T}
<1>1. ASSUME NEW x \in T PROVE IsFiniteSet(Above(x)) /\ Cardinality(Above(x)) \in Nat
  <2>1. Above(x) \in SUBSET T
    OBVIOUS
  <2>2. QED  BY <2>1, FS_Subset, FS_CardinalityType
<1>2. PICK x \in T : \A y \in T : Cardinality(Above(x)) <= Cardinality(Above(y))
  <2>1. Sizes \subseteq Nat /\ Sizes # {}
    BY <1>1
  <2>2. \E n \in Sizes : \A m \in Sizes : n <= m
    BY ONLY <2>1, Lowest
  <2>3. QED  BY <2>2
<1>3. ASSUME NEW y \in T, y > x PROVE FALSE
  <2>1. Above(y) \in SUBSET Above(x) /\ y \in Above(x) /\ y \notin Above(y)
    <3>1. x \in Nat /\ y \in Nat
      OBVIOUS
    <3>2. ASSUME NEW z \in Above(y) PROVE z \in Above(x)
      <4>1. z \in T /\ z \in Nat /\ z > y
        OBVIOUS
      <4>2. QED  BY <1>3, <3>1, <4>1
    <3>3. Above(y) \in SUBSET Above(x)
      BY <3>2
    <3>4. y \in Above(x) /\ y \notin Above(y)
      BY <1>3, <3>1
    <3>5. QED  BY <3>3, <3>4
  <2>2. Cardinality(Above(y)) <= Cardinality(Above(x)) /\ Cardinality(Above(y)) # Cardinality(Above(x))
    BY <1>1, <2>1, FS_Subset
  <2>3. QED  BY <1>1, <1>2, <2>2
<1>4. QED  BY <1>3

LEMMA MaxOfMany ==
  ASSUME NEW T, T \subseteq Nat, IsFiniteSet(T)
  PROVE  Max(T \cup {0}) \in Nat /\ \A x \in T : x <= Max(T \cup {0})
<1>1. T \cup {0} \subseteq Nat /\ T \cup {0} # {} /\ IsFiniteSet(T \cup {0})
  BY FS_AddElement
<1>2. \E x \in T \cup {0} : \A y \in T \cup {0} : x >= y
  <2>1. \E x \in T \cup {0} : \A y \in T \cup {0} : y <= x
    BY <1>1, HighestOfMany
  <2>2. QED  BY <1>1, <2>1
<1>3. Max(T \cup {0}) \in T \cup {0} /\ \A y \in T \cup {0} : Max(T \cup {0}) >= y
  BY <1>2 DEF Max
<1>4. QED  BY <1>1, <1>3

\* A list has as many ranks as initiatives at most.
LEMMA RanksFinite ==
  ASSUME NEW S, IsFiniteSet(S), NEW seen
  PROVE  IsFiniteSet(RanksOf(seen, S))
<1>. DEFINE rank == [s \in S |-> seen[s].rank]
<1>1. rank \in Surjection(S, RanksOf(seen, S))
  BY DEF Surjection, RanksOf
<1>2. QED  BY <1>1, FS_Surjection

\* The places of a list without two equal ranks are 1, 2, ... in the order of the ranks.
LEMMA Places ==
  ASSUME NEW S, S \subseteq Nat, IsFiniteSet(S), NEW seen, \A s \in S : seen[s].rank \in Nat,
         \A s, t \in S : s # t => seen[s].rank # seen[t].rank
  PROVE  /\ \A s \in S : PlaceOf(seen, S, s) \in Nat
         /\ \A s, t \in S : seen[s].rank < seen[t].rank <=> PlaceOf(seen, S, s) < PlaceOf(seen, S, t)
         /\ {PlaceOf(seen, S, s) : s \in S} = 1..Cardinality(S)
<1>. DEFINE upTo(s) == {t \in S : \/ seen[t].rank < seen[s].rank
                                  \/ seen[t].rank = seen[s].rank /\ t <= s}
            N == Cardinality(S)
            place == [s \in S |-> PlaceOf(seen, S, s)]
<1>1. ASSUME NEW s \in S
      PROVE  /\ upTo(s) \in SUBSET S /\ s \in upTo(s) /\ IsFiniteSet(upTo(s))
             /\ place[s] = Cardinality(upTo(s)) /\ place[s] \in 1..N /\ N \in Nat
  <2>1. upTo(s) \in SUBSET S /\ s \in upTo(s)
    <3>1. upTo(s) \in SUBSET S
      BY Zenon
    <3>2. s <= s
      <4>1. s \in Nat
        BY Zenon
      <4>2. QED  BY ONLY <4>1
    <3>3. s \in upTo(s)
      BY <3>2, Zenon
    <3>4. QED  BY <3>1, <3>3
  <2>2. place[s] = Cardinality(upTo(s))
    <3>1. place[s] = PlaceOf(seen, S, s)
      OBVIOUS
    <3>2. PlaceOf(seen, S, s) = Cardinality(upTo(s))
      BY Zenon DEF PlaceOf
    <3>. HIDE DEF place, upTo
    <3>3. QED  BY <3>1, <3>2
  <2>. HIDE DEF upTo
  <2>3. /\ IsFiniteSet(upTo(s)) /\ Cardinality(upTo(s)) <= N /\ N \in Nat
        /\ Cardinality(upTo(s)) \in Nat /\ Cardinality(upTo(s)) # 0
    BY <2>1, FS_Subset, FS_CardinalityType, FS_EmptySet
  <2>4. QED  BY <2>1, <2>2, <2>3
<1>2. \A s \in S : place[s] \in Nat
  <2>. HIDE DEF upTo, place, N
  <2>1. QED  BY <1>1
<1>3. ASSUME NEW s \in S, NEW t \in S, seen[s].rank < seen[t].rank PROVE place[s] < place[t]
  <2>1. upTo(s) \in SUBSET upTo(t) /\ t \notin upTo(s) /\ t \in upTo(t)
    <3>1. seen[s].rank \in Nat /\ seen[t].rank \in Nat
      OBVIOUS
    <3>2. ASSUME NEW u \in upTo(s) PROVE u \in upTo(t)
      <4>0. u \in S /\ (seen[u].rank < seen[s].rank \/ seen[u].rank = seen[s].rank)
        OBVIOUS
      <4>1. u \in S /\ seen[u].rank \in Nat /\ seen[u].rank <= seen[s].rank
        BY <3>1, <4>0
      <4>2. seen[u].rank < seen[t].rank
        BY <1>3, <3>1, <4>1
      <4>3. QED  BY <4>1, <4>2
    <3>3. t \notin upTo(s)
      BY <1>3, <3>1
    <3>4. QED  BY <1>1, <3>2, <3>3
  <2>. HIDE DEF upTo, place
  <2>2. Cardinality(upTo(s)) <= Cardinality(upTo(t)) /\ Cardinality(upTo(s)) # Cardinality(upTo(t))
    BY <1>1, <2>1, FS_Subset
  <2>3. place[s] = Cardinality(upTo(s)) /\ place[t] = Cardinality(upTo(t)) /\ place[s] \in Nat /\ place[t] \in Nat
    BY <1>1, <1>2
  <2>4. QED  BY ONLY <2>2, <2>3
<1>4. \A s, t \in S : seen[s].rank < seen[t].rank <=> place[s] < place[t]
  <2>. HIDE DEF place
  <2>1. ASSUME NEW s \in S, NEW t \in S, place[s] < place[t] PROVE seen[s].rank < seen[t].rank
    <3>0. place[s] \in Nat /\ place[t] \in Nat
      BY <1>2
    <3>1. place[s] \in Nat /\ place[t] \in Nat /\ s # t
      BY <2>1, <3>0
    <3>2. ~(seen[t].rank < seen[s].rank)
      BY <1>3, <2>1, <3>1
    <3>3. seen[s].rank \in Nat /\ seen[t].rank \in Nat /\ seen[s].rank # seen[t].rank
      BY <3>1
    <3>4. QED  BY <3>2, <3>3
  <2>2. QED  BY <1>3, <2>1
<1>5. place \in Injection(S, 1..N)
  <2>1. place \in [S -> 1..N]
    BY <1>1
  <2>2. ASSUME NEW s \in S, NEW t \in S, s # t PROVE place[s] # place[t]
    <3>. HIDE DEF place
    <3>1. seen[s].rank \in Nat /\ seen[t].rank \in Nat /\ seen[s].rank # seen[t].rank
      BY <2>2
    <3>2. seen[s].rank < seen[t].rank \/ seen[t].rank < seen[s].rank
      BY <3>1
    <3>3. place[s] \in Nat /\ place[t] \in Nat
      BY <1>2
    <3>4. place[s] < place[t] \/ place[t] < place[s]
      BY <1>3, <3>2
    <3>5. QED  BY <3>3, <3>4
  <2>. HIDE DEF place
  <2>3. QED  BY <2>1, <2>2 DEF Injection, IsInjective
<1>6. place \in Surjection(S, 1..N)
  <2>1. N \in Nat
    BY FS_CardinalityType
  <2>2. IsFiniteSet(1..N) /\ Cardinality(1..N) = N
    BY <2>1, FS_Interval
  <2>. HIDE DEF place
  <2>3. QED  BY <1>5, <2>2, FS_Injection
<1>7. {place[s] : s \in S} = 1..N
  <2>. HIDE DEF place
  <2>1. QED  BY <1>6 DEF Surjection
<1>8. QED  BY <1>1, <1>4, <1>7

\* A brief as far as the list goes, and two briefs that are the same as far as it goes.
IsBrief(b) == {"state", "rank"} \subseteq DOMAIN b /\ b.state \in States /\ b.rank \in Nat
Alike(a, b) == a.state = b.state /\ a.rank = b.rank

\* The whole list as some command may read it.
WholeList(list) ==
  /\ DOMAIN list = Slugs
  /\ \A s \in Slugs : IsBrief(list[s])
  /\ RanksDistinct(list)

Goals == [Slugs -> [state : States, rank : Nat]]

\* The writes W lead from the list to the goal, and the goal is what j was asked for.
Leads(j, W, list, goal) ==
  /\ AsAsked(j, goal)
  /\ \A w \in W : Alike(goal[w.slug], w.brief)
  /\ \A s \in Slugs : (\A w \in W : w.slug # s) => Alike(goal[s], list[s])

\* What command j may write; new takes no lock and writes its own brief alone.
Writable(j, W) ==
  /\ \A w \in W : w.slug \in Slugs /\ IsBrief(w.brief) /\ w.brief.state # "absent"
  /\ j.cmd = "new" => \A v, w \in W : v = w /\ w.slug = j.slug

\* The initiatives to lock and the writes are as a command that was asked for j decides.
Decided(j, L, W) ==
  /\ L \in SUBSET Slugs
  /\ Writable(j, W)
  /\ j.cmd # "new" => \A w \in W : w.slug \in L
  /\ \E goal \in Goals : Leads(j, W, j.seen, goal)

LEMMA RewriteIs ==
  ASSUME NEW seen, NEW s \in DOMAIN seen, IsBrief(seen[s]), NEW state \in States, NEW rank \in Nat
  PROVE  LET w == Rewrite(seen, s, state, rank)
         IN  w.slug = s /\ IsBrief(w.brief) /\ w.brief.state = state /\ w.brief.rank = rank
<1>. DEFINE half == [seen[s] EXCEPT !.state = state]
            b == [half EXCEPT !.rank = rank]
<1>1. DOMAIN half = DOMAIN seen[s] /\ half.state = state
  BY DEF IsBrief
<1>2. DOMAIN b = DOMAIN half /\ b.state = half.state /\ b.rank = rank
  BY <1>1 DEF IsBrief
<1>3. Rewrite(seen, s, state, rank) = [slug |-> s, brief |-> b]
  BY DEF Rewrite, IsBrief
<1>. HIDE DEF b, half
<1>4. QED  BY <1>1, <1>2, <1>3 DEF IsBrief

LEMMA StatesAre == "focused" \in States /\ "backburner" \in States /\ "paused" \in States
  BY DEF States

LEMMA SlugsFinite == IsFiniteSet(Slugs) /\ \A S \in SUBSET Slugs : IsFiniteSet(S)
<1>1. PICK n \in Nat : \A s \in Slugs : s <= n
  BY SlugsBounded, SlugAssumption
<1>2. IsFiniteSet(Slugs)
  BY <1>1, SlugAssumption, FS_BoundedSetOfNaturals
<1>3. QED  BY <1>2, FS_Subset

\* The end of a list is behind all its ranks.
LEMMA EndOfList ==
  ASSUME NEW list, WholeList(list), NEW S \in SUBSET Slugs
  PROVE  LET last == Max(RanksOf(list, S) \cup {0})
         IN  last \in Nat /\ \A s \in S : list[s].rank <= last
<1>1. RanksOf(list, S) \subseteq Nat /\ \A s \in S : list[s].rank \in RanksOf(list, S)
  BY DEF RanksOf, WholeList, IsBrief
<1>2. IsFiniteSet(RanksOf(list, S))
  BY SlugsFinite, RanksFinite
<1>3. QED  BY <1>1, <1>2, MaxOfMany

\* What keeps the order of distinct numbers one way keeps it both ways.
LEMMA OrderKept ==
  ASSUME NEW S, NEW old, \A s \in S : old[s].rank \in Nat, NEW rank, \A s \in S : rank[s] \in Nat,
         \A s, t \in S : s # t => old[s].rank # old[t].rank,
         \A s, t \in S : old[s].rank < old[t].rank => rank[s] < rank[t]
  PROVE  \A s, t \in S : /\ s # t => rank[s] # rank[t]
                         /\ old[s].rank < old[t].rank <=> rank[s] < rank[t]
<1>. SUFFICES ASSUME NEW s \in S, NEW t \in S
              PROVE  /\ s # t => rank[s] # rank[t]
                     /\ old[s].rank < old[t].rank <=> rank[s] < rank[t]
  OBVIOUS
<1>1. rank[s] \in Nat /\ rank[t] \in Nat /\ old[s].rank \in Nat /\ old[t].rank \in Nat
  OBVIOUS
<1>2. CASE s = t
  BY <1>1, <1>2
<1>3. CASE s # t
  <2>1. old[s].rank # old[t].rank
    BY <1>3
  <2>2. old[s].rank < old[t].rank \/ old[t].rank < old[s].rank
    BY <1>1, <2>1
  <2>3. (old[s].rank < old[t].rank => rank[s] < rank[t]) /\ (old[t].rank < old[s].rank => rank[t] < rank[s])
    OBVIOUS
  <2>4. QED  BY <1>1, <2>2, <2>3
<1>4. QED  BY <1>2, <1>3

\* In the goal an initiative has come to the list, at a rank that the others have made free.
ComesAt(j, others, rank, goal) ==
  /\ j.cmd \in {"focus", "new"} /\ WholeList(j.seen) /\ j.slug \in Slugs
  /\ others = Focused(j.seen) \ {j.slug}
  /\ goal \in Goals /\ \A s \in others \cup {j.slug} : rank[s] \in Nat /\ goal[s].rank = rank[s]
  /\ \A s \in Slugs : goal[s].state = IF s = j.slug THEN "focused" ELSE j.seen[s].state
  /\ \A s, t \in others : j.seen[s].rank < j.seen[t].rank => rank[s] < rank[t]
  /\ \A s \in others : rank[s] # rank[j.slug]
  /\ j.rank # 0 => rank[j.slug] = j.rank
  /\ j.rank = 0 => \A s \in others : rank[s] < rank[j.slug]

LEMMA Comes ==
  ASSUME NEW j, NEW others, NEW rank, NEW goal, ComesAt(j, others, rank, goal)
  PROVE  AsAsked(j, goal)
<1>. USE DEF ComesAt
<1>1. /\ DOMAIN goal = Slugs /\ others \subseteq Slugs
      /\ \A s \in others : j.seen[s].state = "focused" /\ j.seen[s].rank \in Nat /\ s # j.slug
      /\ \A s \in Slugs : goal[s].state = IF s = j.slug THEN "focused" ELSE j.seen[s].state
      /\ \A s \in others \cup {j.slug} : goal[s].rank = rank[s] /\ rank[s] \in Nat
  BY DEF WholeList, IsBrief, Focused, Goals
<1>2. Focused(goal) = others \cup {j.slug}
  BY <1>1 DEF Focused, WholeList
<1>3. \A s, t \in others : s # t => j.seen[s].rank # j.seen[t].rank
  BY DEF WholeList, RanksDistinct
<1>4. \A s, t \in others : /\ s # t => rank[s] # rank[t]
                           /\ j.seen[s].rank < j.seen[t].rank <=> rank[s] < rank[t]
  <2>1. \A s \in others : j.seen[s].rank \in Nat
    BY <1>1
  <2>2. \A s \in others : rank[s] \in Nat
    BY <1>1
  <2>3. \A s, t \in others : j.seen[s].rank < j.seen[t].rank => rank[s] < rank[t]
    OBVIOUS
  <2>4. QED  BY ONLY <1>3, <2>1, <2>2, <2>3, OrderKept
<1>5. \A s, t \in others : j.seen[s].rank < j.seen[t].rank <=> goal[s].rank < goal[t].rank
  BY <1>1, <1>4
<1>6. RanksDistinct(goal)
  BY <1>1, <1>2, <1>4 DEF RanksDistinct
<1>7. IF j.rank # 0 THEN goal[j.slug].rank = j.rank
      ELSE \A s \in others : goal[s].rank < goal[j.slug].rank
  BY <1>1
<1>8. QED  BY <1>2, <1>5, <1>6, <1>7 DEF AsAsked

\* In the goal an initiative has left the list, or was not on it, and the others keep their
\* order.
LeavesBehind(j, others, state, rank, goal) ==
  /\ j.cmd \in {"unfocus", "pause", "unpause"} /\ WholeList(j.seen) /\ j.slug \in Slugs
  /\ others = Focused(j.seen) \ {j.slug}
  /\ goal \in Goals /\ \A s \in others : rank[s] \in Nat /\ goal[s].rank = rank[s]
  /\ state # "focused"
  /\ \A s \in Slugs : goal[s].state = IF s = j.slug THEN state ELSE j.seen[s].state
  /\ \A s, t \in others : j.seen[s].rank < j.seen[t].rank => rank[s] < rank[t]
  /\ j.cmd # "unpause" /\ j.slug \in Focused(j.seen) => {rank[s] : s \in others} = 1..Cardinality(others)

LEMMA Leaves ==
  ASSUME NEW j, NEW others, NEW state, NEW rank, NEW goal, LeavesBehind(j, others, state, rank, goal)
  PROVE  AsAsked(j, goal)
<1>. USE DEF LeavesBehind
<1>1. /\ DOMAIN goal = Slugs /\ others \subseteq Slugs
      /\ \A s \in others : j.seen[s].state = "focused" /\ j.seen[s].rank \in Nat /\ s # j.slug
      /\ \A s \in Slugs : goal[s].state = IF s = j.slug THEN state ELSE j.seen[s].state
      /\ \A s \in others : goal[s].rank = rank[s] /\ rank[s] \in Nat
  BY DEF WholeList, IsBrief, Focused, Goals
<1>2. Focused(goal) = others
  BY <1>1 DEF Focused, WholeList
<1>3. \A s, t \in others : s # t => j.seen[s].rank # j.seen[t].rank
  BY DEF WholeList, RanksDistinct
<1>4. \A s, t \in others : /\ s # t => rank[s] # rank[t]
                           /\ j.seen[s].rank < j.seen[t].rank <=> rank[s] < rank[t]
  <2>1. \A s \in others : j.seen[s].rank \in Nat
    BY <1>1
  <2>2. \A s \in others : rank[s] \in Nat
    BY <1>1
  <2>3. \A s, t \in others : j.seen[s].rank < j.seen[t].rank => rank[s] < rank[t]
    OBVIOUS
  <2>4. QED  BY ONLY <1>3, <2>1, <2>2, <2>3, OrderKept
<1>5. \A s, t \in others : j.seen[s].rank < j.seen[t].rank <=> goal[s].rank < goal[t].rank
  BY <1>1, <1>4
<1>6. RanksDistinct(goal)
  BY <1>1, <1>2, <1>4 DEF RanksDistinct
<1>7. RanksOf(goal, others) = {rank[s] : s \in others}
  BY <1>1 DEF RanksOf
<1>8. QED  BY <1>2, <1>5, <1>6, <1>7 DEF AsAsked

\* focus: at the rank asked for, or at the end.
LEMMA FocusDecides ==
  ASSUME NEW f, FocusDecide(f), fjob[f].slug \in Slugs, fjob[f].rank \in Nat, WholeList(fjob[f].seen)
  PROVE  Refuse(f) \/ \E L, W : Plan(f, L, W) /\ Decided(fjob[f], L, W)
<1>. DEFINE j == fjob[f]
            others == Focused(j.seen) \ {j.slug}
            last == Max(RanksOf(j.seen, others) \cup {0})
            desired == IF j.rank = 0 THEN last + 1 ELSE j.rank
            target(s) == IF s = j.slug THEN desired ELSE Shifted(j.seen[s].rank, desired)
            changed == {j.slug} \cup {s \in others : target(s) # j.seen[s].rank}
            W == {Rewrite(j.seen, s, "focused", target(s)) : s \in changed}
            rank == [s \in Slugs |-> target(s)]
            goal == [s \in Slugs |-> [state |-> IF s = j.slug THEN "focused" ELSE j.seen[s].state,
                                      rank |-> IF s \in others \cup {j.slug} THEN rank[s]
                                               ELSE j.seen[s].rank]]
<1>1. j.cmd = "focus" /\ (Refuse(f) \/ Plan(f, changed, W))
  BY DEF FocusDecide, Loaded
<1>2. /\ j.slug \in Slugs /\ j.rank \in Nat /\ WholeList(j.seen) /\ DOMAIN j.seen = Slugs
      /\ others \subseteq Slugs /\ \A s \in Slugs : IsBrief(j.seen[s]) /\ j.seen[s].rank \in Nat
      /\ \A s \in others : j.seen[s].state = "focused" /\ s # j.slug
  BY DEF WholeList, IsBrief, Focused
<1>. HIDE DEF j, others
<1>3. last \in Nat /\ \A s \in others : j.seen[s].rank <= last
  BY <1>2, EndOfList
<1>. HIDE DEF last
<1>4. desired \in Nat /\ (j.rank = 0 => \A s \in others : j.seen[s].rank < desired) /\ (j.rank # 0 => desired = j.rank)
  BY <1>2, <1>3
<1>. HIDE DEF desired
<1>5. \A s \in Slugs : target(s) \in Nat /\ (s # j.slug => target(s) = Shifted(j.seen[s].rank, desired))
  BY <1>2, <1>4 DEF Shifted
<1>6. target(j.slug) = desired /\ \A s \in others : target(s) # desired
  <2>1. ASSUME NEW s \in others PROVE Shifted(j.seen[s].rank, desired) # desired
    <3>1. j.seen[s].rank \in Nat
      BY <1>2
    <3>2. QED  BY <1>4, <3>1 DEF Shifted
  <2>2. QED  BY <1>2, <1>5, <2>1
<1>7. ASSUME NEW s \in others, NEW t \in others, j.seen[s].rank < j.seen[t].rank PROVE target(s) < target(t)
  <2>1. j.seen[s].rank \in Nat /\ j.seen[t].rank \in Nat
    BY <1>2
  <2>2. Shifted(j.seen[s].rank, desired) < Shifted(j.seen[t].rank, desired)
    BY <1>4, <1>7, <2>1 DEF Shifted
  <2>3. QED  BY <1>2, <1>5, <2>2
<1>8. j.rank = 0 => \A s \in others : target(s) < desired
  <2>1. ASSUME j.rank = 0, NEW s \in others PROVE Shifted(j.seen[s].rank, desired) < desired
    <3>1. j.seen[s].rank \in Nat /\ j.seen[s].rank < desired
      BY <1>2, <1>4, <2>1
    <3>2. QED  BY <1>4, <3>1 DEF Shifted
  <2>2. QED  BY <1>2, <1>5, <2>1
<1>. HIDE DEF target
<1>9. /\ rank \in [Slugs -> Nat] /\ \A s \in Slugs : rank[s] = target(s)
      /\ \A s, t \in others : j.seen[s].rank < j.seen[t].rank => rank[s] < rank[t]
      /\ \A s \in others : rank[s] # rank[j.slug]
      /\ IF j.rank # 0 THEN rank[j.slug] = j.rank ELSE \A s \in others : rank[s] < rank[j.slug]
  BY <1>2, <1>4, <1>5, <1>6, <1>7, <1>8
<1>. HIDE DEF rank
<1>10. goal \in Goals /\ AsAsked(j, goal)
  <2>1. j.cmd \in {"focus", "new"} /\ WholeList(j.seen) /\ j.slug \in Slugs
    BY <1>1, <1>2
  <2>2. others = Focused(j.seen) \ {j.slug}
    BY DEF others
  <2>3. goal \in Goals
    BY <1>2, <1>9, StatesAre DEF Goals, IsBrief
  <2>4. /\ \A s \in Slugs : goal[s].state = IF s = j.slug THEN "focused" ELSE j.seen[s].state
        /\ \A s \in others \cup {j.slug} : goal[s].rank = rank[s]
    BY <1>2
  <2>. HIDE DEF goal
  <2>. HIDE DEF goal
  <2>5. ComesAt(j, others, rank, goal)
    BY <1>2, <1>4, <1>9, <2>1, <2>2, <2>3, <2>4 DEF ComesAt
  <2>6. QED  BY <2>3, <2>5, Comes
<1>11. ASSUME NEW s \in changed
       PROVE  LET w == Rewrite(j.seen, s, "focused", target(s))
              IN  w.slug = s /\ IsBrief(w.brief) /\ w.brief.state = "focused" /\ w.brief.rank = target(s)
  <2>1. s \in Slugs /\ s \in DOMAIN j.seen /\ IsBrief(j.seen[s]) /\ target(s) \in Nat
    BY <1>2, <1>5
  <2>2. QED  BY <2>1, StatesAre, RewriteIs
<1>12. changed \in SUBSET Slugs /\ \A s \in changed : goal[s].state = "focused" /\ goal[s].rank = target(s)
  BY <1>2, <1>9
<1>13. \A s \in Slugs \ changed : Alike(goal[s], j.seen[s])
  BY <1>2, <1>9 DEF Alike
<1>. HIDE DEF changed, goal
<1>14. /\ \A w \in W : w.slug \in changed /\ IsBrief(w.brief) /\ w.brief.state # "absent"
                       /\ Alike(goal[w.slug], w.brief)
       /\ \A s \in changed : \E w \in W : w.slug = s
  BY <1>11, <1>12 DEF Alike
<1>. HIDE DEF W
<1>15. Decided(j, changed, W)
  BY <1>1, <1>10, <1>12, <1>13, <1>14 DEF Decided, Writable, Leads
<1>16. QED  BY <1>1, <1>15 DEF j

\* new: at the end.
LEMMA NewDecides ==
  ASSUME NEW f, NewDecide(f), fjob[f].slug \in Slugs, fjob[f].rank = 0, WholeList(fjob[f].seen)
  PROVE  \E L, W : Plan(f, L, W) /\ Decided(fjob[f], L, W)
<1>. DEFINE j == fjob[f]
            others == Focused(j.seen) \ {j.slug}
            last == Max(RanksOf(j.seen, Focused(j.seen)) \cup {0})
            fresh == [BlankBrief EXCEPT !.state = "focused", !.rank = last + 1]
            W == {[slug |-> j.slug, brief |-> fresh]}
            rank == [s \in Slugs |-> IF s = j.slug THEN last + 1 ELSE j.seen[s].rank]
            goal == [s \in Slugs |-> [state |-> IF s = j.slug THEN "focused" ELSE j.seen[s].state,
                                      rank |-> IF s \in others \cup {j.slug} THEN rank[s]
                                               ELSE j.seen[s].rank]]
<1>1. j.cmd = "new" /\ Plan(f, {}, W)
  BY DEF NewDecide, Loaded
<1>2. /\ j.slug \in Slugs /\ j.rank = 0 /\ WholeList(j.seen) /\ DOMAIN j.seen = Slugs
      /\ Focused(j.seen) \in SUBSET Slugs /\ others \subseteq Focused(j.seen) /\ j.slug \notin others
      /\ \A s \in Slugs : IsBrief(j.seen[s]) /\ j.seen[s].rank \in Nat
  BY DEF WholeList, IsBrief, Focused
<1>. HIDE DEF j, others
<1>3. last \in Nat /\ \A s \in Focused(j.seen) : j.seen[s].rank <= last
  BY <1>2, EndOfList
<1>. HIDE DEF last
<1>4. IsBrief(fresh) /\ fresh.state = "focused" /\ fresh.rank = last + 1
  BY <1>3, StatesAre DEF IsBrief, BlankBrief
<1>. HIDE DEF fresh
<1>5. /\ rank \in [Slugs -> Nat] /\ rank[j.slug] = last + 1
      /\ \A s \in others : rank[s] = j.seen[s].rank /\ rank[s] \in Nat /\ rank[s] < last + 1
  BY <1>2, <1>3
<1>. HIDE DEF rank
<1>6. /\ \A s, t \in others : j.seen[s].rank < j.seen[t].rank => rank[s] < rank[t]
      /\ \A s \in others : rank[s] # rank[j.slug] /\ rank[s] < rank[j.slug]
  BY <1>3, <1>5
<1>7. goal \in Goals /\ AsAsked(j, goal)
  <2>1. j.cmd \in {"focus", "new"} /\ WholeList(j.seen) /\ j.slug \in Slugs
    BY <1>1, <1>2
  <2>2. others = Focused(j.seen) \ {j.slug}
    BY DEF others
  <2>3. goal \in Goals
    BY <1>2, <1>5, StatesAre DEF Goals, IsBrief
  <2>4. /\ \A s \in Slugs : goal[s].state = IF s = j.slug THEN "focused" ELSE j.seen[s].state
        /\ \A s \in others \cup {j.slug} : goal[s].rank = rank[s]
    BY <1>2
  <2>. HIDE DEF goal
  <2>. HIDE DEF goal
  <2>5. ComesAt(j, others, rank, goal)
    BY <1>2, <1>3, <1>5, <1>6, <2>1, <2>2, <2>3, <2>4 DEF ComesAt
  <2>6. QED  BY <2>3, <2>5, Comes
<1>8. /\ goal[j.slug].state = "focused" /\ goal[j.slug].rank = last + 1
      /\ \A s \in Slugs \ {j.slug} : Alike(goal[s], j.seen[s])
  BY <1>2, <1>5 DEF Alike
<1>. HIDE DEF goal
<1>9. Decided(j, {}, W)
  BY <1>1, <1>2, <1>4, <1>7, <1>8 DEF Decided, Writable, Leads, Alike
<1>10. QED  BY <1>1, <1>9 DEF j

\* unfocus and pause: the others move up, in their order.
LEMMA LeaveDecides ==
  ASSUME NEW f, NEW state \in {"backburner", "paused"}, LeaveList(f, state),
         fjob[f].cmd \in {"unfocus", "pause"}, fjob[f].slug \in Slugs, WholeList(fjob[f].seen)
  PROVE  \E L, W : Plan(f, L, W) /\ Decided(fjob[f], L, W)
<1>. DEFINE j == fjob[f]
            others == IF j.seen[j.slug].state = "focused" THEN Focused(j.seen) \ {j.slug} ELSE {}
            rest == Focused(j.seen) \ {j.slug}
            place(s) == PlaceOf(j.seen, others, s)
            moved == {s \in others : place(s) # j.seen[s].rank}
            first == Rewrite(j.seen, j.slug, state, 0)
            W == {first} \cup {Rewrite(j.seen, s, "focused", place(s)) : s \in moved}
            rank == [s \in Slugs |-> IF s \in others THEN place(s) ELSE j.seen[s].rank]
            goal == [s \in Slugs |-> [state |-> IF s = j.slug THEN state ELSE j.seen[s].state,
                                      rank |-> IF s = j.slug THEN 0 ELSE rank[s]]]
<1>1. j.cmd \in {"unfocus", "pause"} /\ Plan(f, {j.slug} \cup moved, W)
  BY DEF LeaveList
<1>2. /\ j.slug \in Slugs /\ WholeList(j.seen) /\ DOMAIN j.seen = Slugs
      /\ others \subseteq rest /\ rest \subseteq Slugs /\ j.slug \notin rest
      /\ rest = Focused(j.seen) \ {j.slug}
      /\ (j.slug \in Focused(j.seen) => others = rest) /\ (j.slug \notin Focused(j.seen) => others = {})
      /\ \A s \in Slugs : IsBrief(j.seen[s]) /\ j.seen[s].rank \in Nat
      /\ \A s \in rest : j.seen[s].state = "focused"
      /\ \A s, t \in rest : s # t => j.seen[s].rank # j.seen[t].rank
      /\ state \in States /\ state # "focused" /\ state # "absent"
  BY StatesAre DEF WholeList, IsBrief, Focused, RanksDistinct
<1>. HIDE DEF j, others, rest
<1>3. /\ \A s \in others : place(s) \in Nat
      /\ \A s, t \in others : j.seen[s].rank < j.seen[t].rank <=> place(s) < place(t)
      /\ {place(s) : s \in others} = 1..Cardinality(others)
  <2>1. others \subseteq Nat /\ IsFiniteSet(others) /\ \A s \in others : j.seen[s].rank \in Nat
    BY <1>2, SlugAssumption, SlugsFinite
  <2>2. \A s, t \in others : s # t => j.seen[s].rank # j.seen[t].rank
    BY <1>2
  <2>3. QED  BY <2>1, <2>2, Places
<1>. HIDE DEF place
<1>4. /\ \A s \in Slugs : rank[s] \in Nat
      /\ \A s \in others : rank[s] = place(s)
      /\ \A s \in Slugs \ others : rank[s] = j.seen[s].rank
  BY <1>2, <1>3
<1>5. \A s, t \in rest : j.seen[s].rank < j.seen[t].rank => rank[s] < rank[t]
  <2>1. CASE others = rest
    BY <1>3, <1>4, <2>1
  <2>2. CASE others = {}
    BY <1>2, <1>4, <2>2
  <2>3. QED  BY <1>2, <2>1, <2>2
<1>6. j.slug \in Focused(j.seen) => {rank[s] : s \in rest} = 1..Cardinality(rest)
  <2>1. SUFFICES ASSUME others = rest PROVE {rank[s] : s \in rest} = 1..Cardinality(rest)
    BY <1>2
  <2>2. {rank[s] : s \in others} = {place(s) : s \in others}
    BY <1>4
  <2>3. QED  BY <1>3, <2>1, <2>2
<1>. HIDE DEF rank
<1>7. /\ goal \in Goals
      /\ \A s \in Slugs : goal[s].state = IF s = j.slug THEN state ELSE j.seen[s].state
      /\ goal[j.slug].rank = 0 /\ \A s \in Slugs \ {j.slug} : goal[s].rank = rank[s]
  BY <1>2, <1>4 DEF Goals, IsBrief
<1>. HIDE DEF goal
<1>8. AsAsked(j, goal)
  <2>1. LeavesBehind(j, rest, state, rank, goal)
    BY <1>1, <1>2, <1>4, <1>5, <1>6, <1>7 DEF LeavesBehind
  <2>2. QED  BY <2>1, Leaves
<1>9. first.slug = j.slug /\ IsBrief(first.brief) /\ first.brief.state = state /\ first.brief.rank = 0
  BY <1>2, RewriteIs
<1>10. ASSUME NEW s \in moved
       PROVE  LET w == Rewrite(j.seen, s, "focused", place(s))
              IN  w.slug = s /\ IsBrief(w.brief) /\ w.brief.state = "focused" /\ w.brief.rank = place(s)
  <2>1. s \in DOMAIN j.seen /\ IsBrief(j.seen[s]) /\ place(s) \in Nat
    BY <1>2, <1>3
  <2>2. QED  BY <2>1, StatesAre, RewriteIs
<1>11. /\ moved \subseteq rest
       /\ \A s \in moved : goal[s].state = "focused" /\ goal[s].rank = place(s)
       /\ \A s \in Slugs \ ({j.slug} \cup moved) : Alike(goal[s], j.seen[s])
  BY <1>2, <1>4, <1>7 DEF Alike
<1>. HIDE DEF moved, first
<1>12. /\ \A w \in W : /\ w.slug \in {j.slug} \cup moved /\ IsBrief(w.brief) /\ w.brief.state # "absent"
                       /\ Alike(goal[w.slug], w.brief)
       /\ \A s \in {j.slug} \cup moved : \E w \in W : w.slug = s
  BY <1>2, <1>7, <1>9, <1>10, <1>11 DEF Alike
<1>. HIDE DEF W
<1>13. Decided(j, {j.slug} \cup moved, W)
  BY <1>1, <1>2, <1>7, <1>8, <1>11, <1>12 DEF Decided, Writable, Leads
<1>14. QED  BY <1>1, <1>13 DEF j

\* unpause: to the backburner, and the list stays as it is.
LEMMA UnpauseDecides ==
  ASSUME NEW f, UnpauseDecide(f), fjob[f].slug \in Slugs, WholeList(fjob[f].seen)
  PROVE  Refuse(f) \/ \E L, W : Plan(f, L, W) /\ Decided(fjob[f], L, W)
<1>. DEFINE j == fjob[f]
            others == Focused(j.seen) \ {j.slug}
            first == Rewrite(j.seen, j.slug, "backburner", 0)
            rank == [s \in Slugs |-> IF s = j.slug THEN 0 ELSE j.seen[s].rank]
            goal == [s \in Slugs |-> [state |-> IF s = j.slug THEN "backburner" ELSE j.seen[s].state,
                                      rank |-> rank[s]]]
<1>1. j.cmd = "unpause" /\ (Refuse(f) \/ Plan(f, {j.slug}, {first}))
  BY DEF UnpauseDecide, Loaded
<1>2. /\ j.slug \in Slugs /\ WholeList(j.seen) /\ DOMAIN j.seen = Slugs
      /\ others \subseteq Slugs /\ j.slug \notin others /\ others = Focused(j.seen) \ {j.slug}
      /\ \A s \in Slugs : IsBrief(j.seen[s]) /\ j.seen[s].rank \in Nat
      /\ "backburner" \in States
  BY StatesAre DEF WholeList, IsBrief, Focused
<1>. HIDE DEF j, others
<1>3. \A s \in Slugs : rank[s] \in Nat /\ (s # j.slug => rank[s] = j.seen[s].rank) /\ rank[j.slug] = 0
  BY <1>2
<1>. HIDE DEF rank
<1>4. /\ goal \in Goals
      /\ \A s \in Slugs : /\ goal[s].state = IF s = j.slug THEN "backburner" ELSE j.seen[s].state
                          /\ goal[s].rank = rank[s]
  BY <1>2, <1>3 DEF Goals, IsBrief
<1>. HIDE DEF goal
<1>5. AsAsked(j, goal)
  <2>1. LeavesBehind(j, others, "backburner", rank, goal)
    BY <1>1, <1>2, <1>3, <1>4 DEF LeavesBehind
  <2>2. QED  BY <2>1, Leaves
<1>6. first.slug = j.slug /\ IsBrief(first.brief) /\ first.brief.state = "backburner" /\ first.brief.rank = 0
  BY <1>2, RewriteIs
<1>. HIDE DEF first
<1>7. Decided(j, {j.slug}, {first})
  BY <1>1, <1>2, <1>3, <1>4, <1>5, <1>6 DEF Decided, Writable, Leads, Alike
<1>8. QED  BY <1>1, <1>7 DEF j

\* A command that read the whole list ends or goes on to what it was asked for.
LEMMA Decides ==
  ASSUME NEW f, fjob[f].slug \in Slugs, fjob[f].rank \in Nat, fjob[f].rank # 0 => fjob[f].cmd = "focus",
         WholeList(fjob[f].seen),
         FocusDecide(f) \/ UnfocusDecide(f) \/ PauseDecide(f) \/ UnpauseDecide(f) \/ NewDecide(f)
  PROVE  Refuse(f) \/ \E L, W : Plan(f, L, W) /\ Decided(fjob[f], L, W)
<1>1. CASE FocusDecide(f)
  BY <1>1, FocusDecides
<1>2. CASE UnfocusDecide(f)
  <2>1. fjob[f].cmd = "unfocus" /\ (Refuse(f) \/ LeaveList(f, "backburner"))
    BY <1>2 DEF UnfocusDecide, Loaded
  <2>2. QED  BY <2>1, LeaveDecides
<1>3. CASE PauseDecide(f)
  <2>1. fjob[f].cmd = "pause" /\ (Refuse(f) \/ LeaveList(f, "paused"))
    BY <1>3 DEF PauseDecide, Loaded
  <2>2. QED  BY <2>1, LeaveDecides
<1>4. CASE UnpauseDecide(f)
  BY <1>4, UnpauseDecides
<1>5. CASE NewDecide(f)
  <2>1. fjob[f].rank = 0
    BY <1>5 DEF NewDecide, Loaded
  <2>2. QED  BY <1>5, <2>1, NewDecides
<1>6. QED  BY <1>1, <1>2, <1>3, <1>4, <1>5

----------------------------------------------------------------------------
(* A command that runs alone, beside the task commands.                     *)

BriefsOK == DOMAIN brief = Slugs /\ \A s \in Slugs : IsBrief(brief[s])

\* A task command writes back the state and rank that are on disk, under the lock.
TaskWrites(p) ==
  /\ {"cmd", "slug", "brief"} \subseteq DOMAIN job[p]
  /\ pc[p] # "idle" => brief[job[p].slug].state # "absent"
  /\ pc[p] \notin {"idle", "wait"} => lock[job[p].slug] = p
  /\ pc[p] \in {"bump", "stamp"} =>
       IsBrief(job[p].brief) /\ Alike(job[p].brief, brief[job[p].slug])

\* What command f remembers, and what it has still to do.
Underway(f) ==
  LET j == fjob[f] IN
  /\ {"cmd", "slug", "rank", "seen", "locks", "writes"} \subseteq DOMAIN j
  /\ j.rank \in Nat /\ (j.rank # 0 => j.cmd = "focus")
  /\ DOMAIN j.seen \subseteq Slugs
  /\ j.cmd = "new" /\ (at[f] = "load" \/ j.writes # {}) => brief[j.slug].state = "absent"
  /\ at[f] = "load" => \A s \in DOMAIN j.seen : IsBrief(j.seen[s]) /\ Alike(j.seen[s], brief[s])
  /\ at[f] = "lock" /\ j.writes # {} =>
       /\ Writable(j, j.writes)
       /\ j.cmd # "new" => \A w \in j.writes : w.slug \in j.locks \/ lock[w.slug] = f
       /\ \E goal \in Goals : Leads(j, j.writes, brief, goal)

\* No command has begun to write.
NoneWrites == \A f \in Focusers : at[f] = "lock" /\ fjob[f].locks = {} => fjob[f].writes = {}

Undisturbed ==
  /\ Focusers \cap dead = {}
  /\ \A f, g \in Focusers : at[f] # "idle" /\ at[g] # "idle" => f = g
  /\ BriefsOK /\ \A p \in Procs : TaskWrites(p)
  /\ \A f \in Focusers : at[f] # "idle" => Underway(f)
  /\ NoneWrites => RanksDistinct(brief)

FInv == Disciplined /\ (~overlap => Undisturbed)

LEMMA InitFInv == FInit => FInv
<1>. SUFFICES ASSUME FInit PROVE FInv
  OBVIOUS
<1>1. PICK l \in StartLists :
        InitWith([s \in Slugs |-> [BlankBrief EXCEPT !.state = l[s].state, !.rank = l[s].rank]])
  BY DEF FInit
<1>2. /\ brief = [s \in Slugs |-> [BlankBrief EXCEPT !.state = l[s].state, !.rank = l[s].rank]]
      /\ dead = {} /\ pc = [p \in Procs |-> "idle"] /\ job = [p \in Procs |-> IdleJob]
      /\ at = [f \in Focusers |-> "idle"]
  BY <1>1 DEF FInit, InitWith
<1>3. \A s \in Slugs : IsBrief(brief[s]) /\ brief[s].state = l[s].state /\ brief[s].rank = l[s].rank
  BY <1>2, StartAssumption DEF IsBrief, BlankBrief
<1>4. BriefsOK
  BY <1>2, <1>3 DEF BriefsOK
<1>5. RanksDistinct(brief)
  <2>1. \A s, t \in Slugs : l[s].state = "focused" /\ l[t].state = "focused" /\ s # t => l[s].rank # l[t].rank
    BY StartAssumption
  <2>2. DOMAIN brief = Slugs
    BY <1>2
  <2>3. QED  BY <1>3, <2>1, <2>2 DEF RanksDistinct, Focused
<1>6. \A p \in Procs : TaskWrites(p)
  BY <1>2 DEF TaskWrites, IdleJob, NewJob
<1>7. QED  BY <1>2, <1>4, <1>5, <1>6, InitDisciplined DEF FInv, Undisturbed

LEMMA AlikeDistinct ==
  ASSUME NEW list, NEW goal, DOMAIN list = DOMAIN goal,
         \A s \in DOMAIN list : Alike(list[s], goal[s]), RanksDistinct(goal)
  PROVE  RanksDistinct(list)
  BY DEF RanksDistinct, Focused, Alike

\* What a step of a task command must leave alone, for the commands on the list.
Unseen ==
  /\ UNCHANGED fvars
  /\ BriefsOK' /\ \A s \in Slugs : Alike(brief'[s], brief[s])
  /\ \A s \in Slugs, f \in Focusers : lock[s] = f => lock'[s] = f

LEMMA ListUndisturbed ==
  ASSUME Disciplined, Undisturbed, Unseen
  PROVE  (\A f \in Focusers : at[f] # "idle" => Underway(f))' /\ (NoneWrites => RanksDistinct(brief))'
<1>. USE DEF Unseen, fvars
<1>1. ASSUME NEW f \in Focusers, at[f] # "idle" PROVE Underway(f)'
  <2>1. Underway(f) /\ fjob[f].slug \in Slugs
    BY <1>1 DEF Undisturbed, Disciplined, FTypeOK
  <2>2. at'[f] = at[f] /\ fjob'[f] = fjob[f]
    OBVIOUS
  <2>3. \A s \in Slugs : brief'[s].state = brief[s].state /\ brief'[s].rank = brief[s].rank
    BY DEF Alike
  <2>4. ASSUME at[f] = "lock", fjob[f].writes # {}
        PROVE  \E goal \in Goals : Leads(fjob[f], fjob[f].writes, brief', goal)
    <3>1. PICK goal \in Goals : Leads(fjob[f], fjob[f].writes, brief, goal)
      BY <2>1, <2>4 DEF Underway
    <3>2. Leads(fjob[f], fjob[f].writes, brief', goal)
      BY <2>3, <3>1 DEF Leads, Alike
    <3>3. QED  BY <3>2
  <2>5. at[f] = "lock" /\ fjob[f].writes # {} /\ fjob[f].cmd # "new"
          => \A w \in fjob[f].writes : w.slug \in fjob[f].locks \/ lock'[w.slug] = f
    BY <2>1 DEF Underway, Writable
  <2>6. at[f] = "load" => \A s \in DOMAIN fjob[f].seen : Alike(fjob[f].seen[s], brief'[s])
    BY <2>1, <2>3 DEF Underway, Alike
  <2>7. QED  BY <2>1, <2>2, <2>3, <2>4, <2>5, <2>6 DEF Underway
<1>2. ASSUME NoneWrites' PROVE RanksDistinct(brief)'
  <2>1. RanksDistinct(brief)
    BY <1>2 DEF NoneWrites, Undisturbed
  <2>2. DOMAIN brief' = DOMAIN brief /\ \A s \in DOMAIN brief' : Alike(brief'[s], brief[s])
    BY DEF Undisturbed, BriefsOK
  <2>3. RanksDistinct(brief')
    BY <2>1, <2>2, AlikeDistinct
  <2>4. QED  BY <2>3 DEF RanksDistinct, Focused
<1>3. QED  BY <1>1, <1>2

\* A task command at work changes no state and no rank.
LEMMA WorkUnseen ==
  ASSUME FTypeOK, BriefsOK, NEW p \in Procs, TaskWrites(p), Works(p)
  PROVE  /\ BriefsOK' /\ \A s \in Slugs : Alike(brief'[s], brief[s])
         /\ {"cmd", "slug", "brief"} \subseteq DOMAIN job'[p]
         /\ pc'[p] \in {"bump", "stamp"} =>
              IsBrief(job'[p].brief) /\ Alike(job'[p].brief, brief'[job[p].slug])
<1>. USE DEF FTypeOK
<1>1. DOMAIN pc = Procs /\ DOMAIN job = Procs /\ {"cmd", "slug", "brief"} \subseteq DOMAIN job[p]
  BY DEF TaskWrites
<1>2. ASSUME UNCHANGED brief
      PROVE  BriefsOK' /\ \A s \in Slugs : Alike(brief'[s], brief[s])
  BY <1>2 DEF BriefsOK, Alike
<1>3. ASSUME NEW b, IsBrief(b), Alike(b, brief[job[p].slug]), brief' = [brief EXCEPT ![job[p].slug] = b]
      PROVE  BriefsOK' /\ \A s \in Slugs : Alike(brief'[s], brief[s])
  BY <1>3 DEF BriefsOK, Alike
<1>4. CASE DeleteBump(p)
  <2>. DEFINE b == [job[p].brief EXCEPT !.seq = job[p].id]
  <2>1. /\ pc[p] = "bump" /\ pc' = [pc EXCEPT ![p] = "unlink"] /\ job' = job
        /\ brief' = [brief EXCEPT ![job[p].slug] = b]
    BY <1>4 DEF DeleteBump
  <2>2. IsBrief(job[p].brief) /\ Alike(job[p].brief, brief[job[p].slug])
    BY <2>1 DEF TaskWrites
  <2>3. IsBrief(b) /\ Alike(b, brief[job[p].slug])
    BY <2>2 DEF IsBrief, Alike
  <2>. HIDE DEF b
  <2>4. BriefsOK' /\ \A s \in Slugs : Alike(brief'[s], brief[s])
    BY <1>3, <2>1, <2>3
  <2>5. QED  BY <1>1, <2>1, <2>4
<1>5. CASE SetWrite(p)
  <2>. DEFINE b == [job[p].brief EXCEPT !.edits = @ \cup {p}]
  <2>1. /\ pc[p] = "stamp" /\ pc' = [pc EXCEPT ![p] = "finished"] /\ job' = job
        /\ brief' = [brief EXCEPT ![job[p].slug] = b]
    BY <1>5 DEF SetWrite, Finish
  <2>2. IsBrief(job[p].brief) /\ Alike(job[p].brief, brief[job[p].slug])
    BY <2>1 DEF TaskWrites
  <2>3. IsBrief(b) /\ Alike(b, brief[job[p].slug])
    BY <2>2 DEF IsBrief, Alike
  <2>. HIDE DEF b
  <2>4. BriefsOK' /\ \A s \in Slugs : Alike(brief'[s], brief[s])
    BY <1>3, <2>1, <2>3
  <2>5. QED  BY <1>1, <2>1, <2>4
<1>6. CASE DeleteCheck(p) \/ SetRead(p)
  <2>1. /\ UNCHANGED brief /\ pc[p] = "locked" /\ job[p].slug \in Slugs
        /\ \/ job' = job /\ pc' = [pc EXCEPT ![p] = "failed"]
           \/ job' = [job EXCEPT ![p] = [@ EXCEPT !.brief = brief[job[p].slug]]]
    BY <1>6 DEF DeleteCheck, SetRead, Fail, Holding
  <2>. DEFINE j == [job[p] EXCEPT !.brief = brief[job[p].slug]]
  <2>2. DOMAIN j = DOMAIN job[p] /\ j.brief = brief[job[p].slug]
    BY <1>1
  <2>3. (job'[p] = job[p] /\ pc'[p] = "failed") \/ job'[p] = j
    BY <1>1, <2>1
  <2>. HIDE DEF j
  <2>4. IsBrief(brief[job[p].slug]) /\ Alike(brief[job[p].slug], brief[job[p].slug])
    BY <2>1 DEF BriefsOK, Alike
  <2>5. QED  BY <1>1, <1>2, <2>1, <2>2, <2>3, <2>4
<1>7. CASE AddAllocate(p)
  <2>1. /\ UNCHANGED brief /\ pc' = [pc EXCEPT ![p] = "create"]
        /\ \E i : \E q : job' = [job EXCEPT ![p] = [[@ EXCEPT !.id = i] EXCEPT !.pri = q]]
    BY <1>7 DEF AddAllocate
  <2>2. PICK i, q : job' = [job EXCEPT ![p] = [[@ EXCEPT !.id = i] EXCEPT !.pri = q]]
    BY <2>1
  <2>3. DOMAIN job'[p] = DOMAIN job[p]
    BY <1>1, <2>2
  <2>4. QED  BY <1>1, <1>2, <2>1, <2>3
<1>8. CASE ReorderRead(p)
  <2>1. /\ UNCHANGED brief
        /\ \/ job' = job /\ pc' = [pc EXCEPT ![p] = "failed"]
           \/ /\ pc' = [pc EXCEPT ![p] = "shift"]
              /\ \E i : \E q : job' = [job EXCEPT ![p] = [[@ EXCEPT !.tasks = i] EXCEPT !.todo = q]]
    BY <1>8 DEF ReorderRead, Fail
  <2>2. CASE job' = job /\ pc' = [pc EXCEPT ![p] = "failed"]
    BY <1>1, <1>2, <2>1, <2>2
  <2>3. CASE \E i : \E q : job' = [job EXCEPT ![p] = [[@ EXCEPT !.tasks = i] EXCEPT !.todo = q]]
    <3>1. PICK i, q : job' = [job EXCEPT ![p] = [[@ EXCEPT !.tasks = i] EXCEPT !.todo = q]]
      BY <2>3
    <3>2. DOMAIN job'[p] = DOMAIN job[p]
      BY <1>1, <3>1
    <3>3. pc'[p] \in {"failed", "shift"}
      BY <1>1, <2>1
    <3>4. QED  BY <1>1, <1>2, <2>1, <3>2, <3>3
  <2>4. QED  BY <2>1, <2>2, <2>3
<1>9. CASE EditRead(p)
  <2>1. /\ UNCHANGED brief
        /\ \/ job' = job /\ pc' = [pc EXCEPT ![p] = "failed"]
           \/ /\ pc' = [pc EXCEPT ![p] = "rewrite"]
              /\ \E i : job' = [job EXCEPT ![p] = [@ EXCEPT !.tasks = i]]
    BY <1>9 DEF EditRead, Fail
  <2>2. DOMAIN job'[p] = DOMAIN job[p] /\ pc'[p] \in {"failed", "rewrite"}
    BY <1>1, <2>1
  <2>3. QED  BY <1>1, <1>2, <2>1, <2>2
<1>10. CASE ReorderShift(p)
  <2>1. /\ UNCHANGED <<brief, pc>> /\ pc[p] = "shift"
        /\ \E i : job' = [job EXCEPT ![p] = [@ EXCEPT !.todo = i]]
    BY <1>10 DEF ReorderShift
  <2>2. DOMAIN job'[p] = DOMAIN job[p]
    BY <1>1, <2>1
  <2>3. QED  BY <1>1, <1>2, <2>1, <2>2
<1>11. CASE AddWrite(p) \/ DeleteUnlink(p) \/ EditWrite(p) \/ ReorderTarget(p)
  <2>1. UNCHANGED <<brief, job>> /\ pc' = [pc EXCEPT ![p] = "finished"]
    BY <1>11 DEF AddWrite, DeleteUnlink, EditWrite, ReorderTarget, Finish
  <2>2. QED  BY <1>1, <1>2, <2>1
<1>12. QED  BY <1>4, <1>5, <1>6, <1>7, <1>8, <1>9, <1>10, <1>11 DEF Works

\* A step of a task command leaves the commands on the list undisturbed.
LEMMA TaskUndisturbed ==
  ASSUME Disciplined, Undisturbed, NEW p \in Procs, UNCHANGED fvars,
         \/ \E c \in Commands, s \in Slugs : Begin(p, c, s)
         \/ Step(p) \/ GiveUp(p) \/ Crash(p)
  PROVE  Undisturbed'
<1>. USE ProcAssumption, FocuserAssumption
<1>1. /\ DOMAIN pc = Procs /\ DOMAIN job = Procs /\ lock \in [Slugs -> Procs \cup Focusers \cup {NoProc}]
      /\ \A q \in Procs : pc[q] # "idle" => job[q].slug \in Slugs
      /\ \A q \in Procs \cap dead : pc[q] = "idle"
      /\ Focusers \cap dead = {} /\ p \notin Focusers
      /\ BriefsOK /\ \A q \in Procs : TaskWrites(q)
  BY DEF Disciplined, FTypeOK, DeadIdle, Undisturbed
<1>2. ASSUME Focusers \cap dead' = {}, \A q \in Procs : TaskWrites(q)', Unseen
      PROVE  Undisturbed'
  BY <1>2, ListUndisturbed DEF Undisturbed, Unseen, fvars
<1>3. UNCHANGED brief => BriefsOK' /\ \A s \in Slugs : Alike(brief'[s], brief[s])
  BY <1>1 DEF BriefsOK, Alike
<1>4. ASSUME NEW c \in Commands, NEW s \in Slugs, Begin(p, c, s) PROVE Undisturbed'
  <2>1. /\ brief[s].state # "absent" /\ pc' = [pc EXCEPT ![p] = "wait"] /\ UNCHANGED <<brief, lock, dead>>
        /\ \E i, q : job' = [job EXCEPT ![p] = NewJob(c, s, i, q)]
    BY <1>4 DEF Begin
  <2>2. Unseen
    BY <1>3, <2>1 DEF Unseen
  <2>3. \A q \in Procs : TaskWrites(q)'
    BY <1>1, <2>1 DEF TaskWrites, NewJob
  <2>4. QED  BY <1>1, <1>2, <2>1, <2>2, <2>3
<1>5. CASE Acquire(p)
  <2>1. /\ pc[p] = "wait" /\ pc' = [pc EXCEPT ![p] = "locked"] /\ Takeable(job[p].slug)
        /\ lock' = [lock EXCEPT ![job[p].slug] = p] /\ UNCHANGED <<brief, dead, job>>
    BY <1>5 DEF Acquire
  <2>2. \A f \in Focusers : lock[job[p].slug] # f
    BY <1>1, <2>1 DEF Takeable
  <2>3. \A q \in Procs : lock[job[p].slug] = q => pc[q] = "idle"
    BY <1>1, <2>1 DEF Takeable
  <2>4. Unseen
    BY <1>1, <1>3, <2>1, <2>2 DEF Unseen
  <2>5. ASSUME NEW q \in Procs PROVE TaskWrites(q)'
    <3>1. TaskWrites(q) /\ (pc[q] # "idle" => job[q].slug \in Slugs) /\ job[p].slug \in Slugs
      BY <1>1, <2>1
    <3>2. CASE q = p
      BY <1>1, <2>1, <3>1, <3>2 DEF TaskWrites
    <3>3. CASE q # p
      BY <1>1, <2>1, <2>3, <3>1, <3>3 DEF TaskWrites
    <3>4. QED  BY <3>2, <3>3
  <2>6. QED  BY <1>1, <1>2, <2>1, <2>4, <2>5
<1>6. CASE Release(p)
  <2>1. /\ pc[p] \in {"finished", "failed"} /\ pc' = [pc EXCEPT ![p] = "idle"]
        /\ job' = [job EXCEPT ![p] = IdleJob]
        /\ lock' = [lock EXCEPT ![job[p].slug] = NoProc] /\ UNCHANGED <<brief, dead>>
    BY <1>6 DEF Release
  <2>2. lock[job[p].slug] = p
    BY <1>1, <2>1 DEF TaskWrites
  <2>3. Unseen
    BY <1>1, <1>3, <2>1, <2>2 DEF Unseen
  <2>4. ASSUME NEW q \in Procs PROVE TaskWrites(q)'
    <3>1. TaskWrites(q) /\ (pc[q] # "idle" => job[q].slug \in Slugs) /\ job[p].slug \in Slugs
      BY <1>1, <2>1
    <3>2. CASE q = p
      BY <1>1, <2>1, <3>1, <3>2 DEF TaskWrites, IdleJob, NewJob
    <3>3. CASE q # p
      BY <1>1, <2>1, <2>2, <3>1, <3>3 DEF TaskWrites
    <3>4. QED  BY <3>2, <3>3
  <2>5. QED  BY <1>1, <1>2, <2>1, <2>3, <2>4
<1>7. CASE GiveUp(p) \/ Crash(p)
  <2>1. /\ pc' = [pc EXCEPT ![p] = "idle"] /\ job' = [job EXCEPT ![p] = IdleJob]
        /\ UNCHANGED <<brief, lock>> /\ dead' \subseteq dead \cup {p}
    BY <1>7 DEF GiveUp, Crash
  <2>2. Unseen
    BY <1>3, <2>1 DEF Unseen
  <2>3. \A q \in Procs : TaskWrites(q)'
    BY <1>1, <2>1 DEF TaskWrites, IdleJob, NewJob
  <2>4. QED  BY <1>1, <1>2, <2>1, <2>2, <2>3
<1>8. CASE Works(p)
  <2>1. Stays(p)
    BY <1>8, WorkStays DEF Disciplined
  <2>2. /\ BriefsOK' /\ \A s \in Slugs : Alike(brief'[s], brief[s])
        /\ {"cmd", "slug", "brief"} \subseteq DOMAIN job'[p]
        /\ pc'[p] \in {"bump", "stamp"} =>
             IsBrief(job'[p].brief) /\ Alike(job'[p].brief, brief'[job[p].slug])
    BY <1>1, <1>8, WorkUnseen DEF Disciplined
  <2>3. Unseen
    BY <2>1, <2>2 DEF Unseen, Stays
  <2>4. ASSUME NEW q \in Procs PROVE TaskWrites(q)'
    <3>1. /\ TaskWrites(q) /\ job[p].slug \in Slugs
          /\ pc[q] # "idle" => job[q].slug \in Slugs /\ Alike(brief'[job[q].slug], brief[job[q].slug])
      BY <1>1, <2>1, <2>2 DEF Stays
    <3>2. CASE q = p
      BY <2>1, <2>2, <3>1, <3>2 DEF TaskWrites, Stays, Alike
    <3>3. CASE q # p
      BY <2>1, <3>1, <3>3 DEF TaskWrites, Stays, Alike
    <3>4. QED  BY <3>2, <3>3
  <2>5. QED  BY <1>1, <1>2, <2>1, <2>3, <2>4 DEF Stays
<1>9. QED  BY <1>4, <1>5, <1>6, <1>7, <1>8 DEF Step, Works

Fields == {"cmd", "slug", "rank", "seen", "locks", "writes"}

\* What a command is asked for is not in its locks and writes.
LEMMA SameAsked ==
  ASSUME NEW j, NEW k, k.cmd = j.cmd, k.slug = j.slug, k.rank = j.rank, k.seen = j.seen, NEW list
  PROVE  AsAsked(j, list) => AsAsked(k, list)
  BY DEF AsAsked

LEMMA JobLocks ==
  ASSUME NEW j, Fields \subseteq DOMAIN j, NEW L
  PROVE  LET k == [j EXCEPT !.locks = L]
         IN  /\ k.cmd = j.cmd /\ k.slug = j.slug /\ k.rank = j.rank /\ k.seen = j.seen
             /\ k.locks = L /\ k.writes = j.writes /\ Fields \subseteq DOMAIN k
  BY DEF Fields

LEMMA JobWrites ==
  ASSUME NEW j, Fields \subseteq DOMAIN j, NEW W
  PROVE  LET k == [j EXCEPT !.writes = W]
         IN  /\ k.cmd = j.cmd /\ k.slug = j.slug /\ k.rank = j.rank /\ k.seen = j.seen
             /\ k.locks = j.locks /\ k.writes = W /\ Fields \subseteq DOMAIN k
  BY DEF Fields

\* One command on the list moves while the others are idle.
LEMMA OneMoves ==
  ASSUME Disciplined, Undisturbed, NEW f \in Focusers,
         NEW place, at' = [at EXCEPT ![f] = place],
         \A g \in Focusers \ {f} : at[g] = "idle",
         dead' = dead, BriefsOK', \A q \in Procs : TaskWrites(q)',
         place # "idle" => Underway(f)',
         (place = "lock" /\ fjob'[f].locks = {} => fjob'[f].writes = {}) => RanksDistinct(brief')
  PROVE  Undisturbed'
<1>1. at'[f] = place /\ \A g \in Focusers \ {f} : at'[g] = "idle"
  BY DEF Disciplined, FTypeOK
<1>2. Focusers \cap dead' = {} /\ \A g, h \in Focusers : at'[g] # "idle" /\ at'[h] # "idle" => g = h
  BY <1>1 DEF Undisturbed
<1>3. \A g \in Focusers : at'[g] # "idle" => Underway(g)'
  BY <1>1
<1>4. NoneWrites' => RanksDistinct(brief')
  BY <1>1 DEF NoneWrites
<1>5. QED  BY <1>2, <1>3, <1>4 DEF Undisturbed

\* What a process on the list has read, locked and planned is about the files on disk.
LEMMA StandsAlone ==
  ASSUME Disciplined, Undisturbed, NEW f \in Focusers
  PROVE  /\ at[f] # "idle" => /\ \A g \in Focusers \ {f} : at[g] = "idle"
                              /\ Underway(f) /\ fjob[f].slug \in Slugs /\ Fields \subseteq DOMAIN fjob[f]
         /\ fjob[f].locks \subseteq Slugs /\ f \notin Procs
         /\ (\A g \in Focusers \ {f} : at[g] = "idle")
              /\ ~(at[f] = "lock" /\ fjob[f].locks = {} /\ fjob[f].writes # {}) => RanksDistinct(brief)
<1>1. at[f] # "idle" => /\ \A g \in Focusers \ {f} : at[g] = "idle"
                        /\ Underway(f) /\ fjob[f].slug \in Slugs
  BY DEF Disciplined, FTypeOK, Undisturbed
<1>2. Underway(f) => Fields \subseteq DOMAIN fjob[f]
  BY DEF Underway, Fields
<1>3. (\A g \in Focusers \ {f} : at[g] = "idle")
        /\ ~(at[f] = "lock" /\ fjob[f].locks = {} /\ fjob[f].writes # {}) => RanksDistinct(brief)
  BY DEF Undisturbed, NoneWrites
<1>4. fjob[f].locks \subseteq Slugs /\ f \notin Procs
  BY FocuserAssumption DEF Disciplined, FTypeOK
<1>5. QED  BY <1>1, <1>2, <1>3, <1>4

\* A step that leaves briefs, locks and task commands alone.
LEMMA OthersStay ==
  ASSUME Undisturbed, UNCHANGED <<brief, lock, pc, job>>
  PROVE  BriefsOK' /\ \A q \in Procs : TaskWrites(q)'
  BY DEF Undisturbed, BriefsOK, TaskWrites

LEMMA BeginUndisturbed ==
  ASSUME Disciplined, Undisturbed, NEW f \in Focusers, ~overlap',
         NEW c \in FocusCommands, NEW s \in Slugs, NEW r \in Ranks \cup {0}, FBegin(f, c, s, r)
  PROVE  Undisturbed'
<1>. DEFINE j == [IdleFocus EXCEPT !.cmd = c, !.slug = s, !.rank = r]
<1>1. /\ at[f] = "idle" /\ at' = [at EXCEPT ![f] = "load"] /\ fjob' = [fjob EXCEPT ![f] = j]
      /\ r \in Ranks => c = "focus"
      /\ c = "new" => brief[s].state = "absent"
      /\ \A g \in Focusers \ {f} : at[g] = "idle"
      /\ UNCHANGED <<brief, lock, dead, pc, job>>
  BY DEF FBegin
<1>2. /\ j.cmd = c /\ j.slug = s /\ j.rank = r /\ DOMAIN j.seen = {} /\ j.locks = {} /\ j.writes = {}
      /\ Fields \subseteq DOMAIN j
  BY DEF IdleFocus, Fields
<1>. HIDE DEF j
<1>3. r \in Nat /\ (r # 0 => c = "focus")
  BY <1>1, RankAssumption
<1>4. at'[f] = "load" /\ fjob'[f] = j
  BY <1>1 DEF Disciplined, FTypeOK
<1>5. Underway(f)'
  BY <1>1, <1>2, <1>3, <1>4 DEF Underway, Fields
<1>6. RanksDistinct(brief')
  BY <1>1, StandsAlone
<1>7. BriefsOK' /\ \A q \in Procs : TaskWrites(q)'
  BY <1>1, OthersStay
<1>8. QED  BY <1>1, <1>5, <1>6, <1>7, OneMoves

LEMMA LoadUndisturbed ==
  ASSUME Disciplined, Undisturbed, NEW f \in Focusers, FLoad(f)
  PROVE  Undisturbed'
<1>1. PICK s \in Slugs \ DOMAIN fjob[f].seen :
        fjob' = [fjob EXCEPT ![f].seen = [t \in DOMAIN @ \cup {s} |-> IF t = s THEN brief[s] ELSE @[t]]]
  BY DEF FLoad
<1>. DEFINE seen == [t \in DOMAIN fjob[f].seen \cup {s} |-> IF t = s THEN brief[s] ELSE fjob[f].seen[t]]
            j == [fjob[f] EXCEPT !.seen = seen]
<1>2. at[f] = "load" /\ UNCHANGED <<brief, lock, dead, pc, job, at>>
  BY DEF FLoad, vars
<1>3. /\ \A g \in Focusers \ {f} : at[g] = "idle"
      /\ Underway(f) /\ fjob[f].slug \in Slugs /\ Fields \subseteq DOMAIN fjob[f]
      /\ RanksDistinct(brief) /\ f \notin Procs
  BY <1>2, StandsAlone
<1>4. at' = [at EXCEPT ![f] = "load"] /\ fjob' = [fjob EXCEPT ![f] = j] /\ at'[f] = "load"
  BY <1>1, <1>2 DEF Disciplined, FTypeOK
<1>5. /\ j.cmd = fjob[f].cmd /\ j.slug = fjob[f].slug /\ j.rank = fjob[f].rank /\ j.seen = seen
      /\ j.locks = fjob[f].locks /\ j.writes = fjob[f].writes /\ Fields \subseteq DOMAIN j
  BY <1>3 DEF Fields
<1>6. DOMAIN seen \subseteq Slugs /\ \A t \in DOMAIN seen : IsBrief(seen[t]) /\ Alike(seen[t], brief[t])
  BY <1>2, <1>3 DEF Underway, Undisturbed, BriefsOK, Alike
<1>7. fjob'[f] = j
  BY <1>4 DEF Disciplined, FTypeOK
<1>. HIDE DEF j, seen
<1>8. Underway(f)'
  BY <1>2, <1>3, <1>4, <1>5, <1>6, <1>7 DEF Underway, Fields
<1>9. BriefsOK' /\ \A q \in Procs : TaskWrites(q)'
  BY <1>2, OthersStay
<1>10. QED  BY <1>2, <1>3, <1>4, <1>8, <1>9, OneMoves

LEMMA DecideUndisturbed ==
  ASSUME Disciplined, Undisturbed, NEW f \in Focusers,
         FocusDecide(f) \/ UnfocusDecide(f) \/ PauseDecide(f) \/ UnpauseDecide(f) \/ NewDecide(f)
  PROVE  Undisturbed'
<1>1. at[f] = "load" /\ DOMAIN fjob[f].seen = Slugs /\ UNCHANGED <<brief, lock, dead, pc, job>>
  BY DEF FocusDecide, UnfocusDecide, PauseDecide, UnpauseDecide, NewDecide, Loaded, vars
<1>2. /\ \A g \in Focusers \ {f} : at[g] = "idle"
      /\ Underway(f) /\ fjob[f].slug \in Slugs /\ Fields \subseteq DOMAIN fjob[f]
      /\ RanksDistinct(brief)
  BY <1>1, StandsAlone
<1>3. \A s \in Slugs : IsBrief(fjob[f].seen[s]) /\ Alike(fjob[f].seen[s], brief[s])
  BY <1>1, <1>2 DEF Underway
<1>4. WholeList(fjob[f].seen)
  <2>1. DOMAIN brief = Slugs
    BY DEF Undisturbed, BriefsOK
  <2>2. RanksDistinct(fjob[f].seen)
    BY <1>1, <1>2, <1>3, <2>1, AlikeDistinct
  <2>3. QED  BY <1>1, <1>3, <2>2 DEF WholeList
<1>5. BriefsOK' /\ \A q \in Procs : TaskWrites(q)'
  BY <1>1, OthersStay
<1>6. Refuse(f) \/ \E L, W : Plan(f, L, W) /\ Decided(fjob[f], L, W)
  BY <1>2, <1>4, Decides DEF Underway
<1>7. CASE Refuse(f)
  <2>1. fjob' = [fjob EXCEPT ![f] = IdleFocus] /\ at' = [at EXCEPT ![f] = "idle"]
    BY <1>7 DEF Refuse
  <2>2. QED  BY <1>1, <1>2, <1>5, <2>1, OneMoves
<1>8. ASSUME NEW L, NEW W, Plan(f, L, W), Decided(fjob[f], L, W) PROVE Undisturbed'
  <2>. DEFINE half == [fjob[f] EXCEPT !.locks = L]
              j == [half EXCEPT !.writes = W]
  <2>1. at' = [at EXCEPT ![f] = "lock"] /\ fjob' = [fjob EXCEPT ![f] = j]
    BY <1>2, <1>8 DEF Plan, Disciplined, FTypeOK, Fields
  <2>2. /\ half.cmd = fjob[f].cmd /\ half.slug = fjob[f].slug /\ half.rank = fjob[f].rank
        /\ half.seen = fjob[f].seen /\ half.locks = L /\ Fields \subseteq DOMAIN half
    BY <1>2, JobLocks
  <2>. HIDE DEF half
  <2>3. /\ j.cmd = fjob[f].cmd /\ j.slug = fjob[f].slug /\ j.rank = fjob[f].rank
        /\ j.seen = fjob[f].seen /\ j.locks = L /\ j.writes = W /\ Fields \subseteq DOMAIN j
    BY <2>2, JobWrites
  <2>. HIDE DEF j
  <2>4. at'[f] = "lock" /\ fjob'[f] = j
    BY <2>1 DEF Disciplined, FTypeOK
  <2>5. PICK goal \in Goals : Leads(fjob[f], W, fjob[f].seen, goal)
    BY <1>8 DEF Decided
  <2>6. Leads(j, W, brief, goal)
    <3>1. AsAsked(j, goal)
      BY <2>3, <2>5, SameAsked DEF Leads
    <3>2. QED  BY <1>3, <2>5, <3>1 DEF Leads, Alike
  <2>7. Writable(j, W) /\ (j.cmd # "new" => \A w \in W : w.slug \in j.locks)
    BY <1>8, <2>3 DEF Decided, Writable
  <2>8. Underway(f)'
    BY <1>1, <1>2, <2>3, <2>4, <2>6, <2>7 DEF Underway, Fields
  <2>9. QED  BY <1>1, <1>2, <1>5, <2>1, <2>8, OneMoves
<1>9. QED  BY <1>6, <1>7, <1>8

LEMMA LockUndisturbed ==
  ASSUME Disciplined, Undisturbed, NEW f \in Focusers, FLock(f)
  PROVE  Undisturbed'
<1>1. PICK s \in Slugs :
        /\ at[f] = "lock" /\ NextLock(f, s) /\ Takeable(s) /\ lock' = [lock EXCEPT ![s] = f]
        /\ fjob' = [fjob EXCEPT ![f].locks = @ \ {s}] /\ UNCHANGED <<brief, dead, pc, job, at>>
  BY DEF FLock
<1>. DEFINE j == [fjob[f] EXCEPT !.locks = fjob[f].locks \ {s}]
<1>2. /\ \A g \in Focusers \ {f} : at[g] = "idle"
      /\ Underway(f) /\ fjob[f].slug \in Slugs /\ Fields \subseteq DOMAIN fjob[f] /\ f \notin Procs
      /\ s \in fjob[f].locks /\ RanksDistinct(brief)
  BY <1>1, StandsAlone DEF NextLock
<1>3. at' = [at EXCEPT ![f] = "lock"] /\ fjob' = [fjob EXCEPT ![f] = j]
  BY <1>1 DEF Disciplined, FTypeOK
<1>4. /\ j.cmd = fjob[f].cmd /\ j.slug = fjob[f].slug /\ j.rank = fjob[f].rank
      /\ j.seen = fjob[f].seen /\ j.locks = fjob[f].locks \ {s} /\ j.writes = fjob[f].writes
      /\ Fields \subseteq DOMAIN j
  BY <1>2, JobLocks
<1>. HIDE DEF j
<1>5. at'[f] = "lock" /\ fjob'[f] = j
  BY <1>3 DEF Disciplined, FTypeOK
<1>6. lock'[s] = f /\ \A t \in Slugs \ {s} : lock'[t] = lock[t]
  BY <1>1 DEF Disciplined, FTypeOK
<1>7. j.writes # {} => /\ Writable(j, j.writes)
                       /\ j.cmd # "new" => \A w \in j.writes : w.slug \in j.locks \/ lock'[w.slug] = f
                       /\ \E goal \in Goals : Leads(j, j.writes, brief, goal)
  <2>1. SUFFICES ASSUME j.writes # {}
                 PROVE  /\ Writable(j, j.writes)
                        /\ j.cmd # "new" => \A w \in j.writes : w.slug \in j.locks \/ lock'[w.slug] = f
                        /\ \E goal \in Goals : Leads(j, j.writes, brief, goal)
    OBVIOUS
  <2>2. /\ Writable(fjob[f], j.writes)
        /\ j.cmd # "new" => \A w \in j.writes : w.slug \in fjob[f].locks \/ lock[w.slug] = f
    BY <1>1, <1>2, <1>4, <2>1 DEF Underway
  <2>3. PICK goal \in Goals : Leads(fjob[f], j.writes, brief, goal)
    BY <1>1, <1>2, <1>4, <2>1 DEF Underway
  <2>4. Leads(j, j.writes, brief, goal)
    BY <1>4, <2>3, SameAsked DEF Leads
  <2>5. Writable(j, j.writes)
    BY <1>4, <2>2 DEF Writable
  <2>6. j.cmd # "new" => \A w \in j.writes : w.slug \in j.locks \/ lock'[w.slug] = f
    BY <1>4, <1>6, <2>2, <2>5 DEF Writable
  <2>7. QED  BY <2>4, <2>5, <2>6
<1>8. Underway(f)'
  BY <1>1, <1>2, <1>4, <1>5, <1>7 DEF Underway, Fields
<1>9. BriefsOK'
  BY <1>1 DEF Undisturbed, BriefsOK
<1>10. ASSUME NEW q \in Procs PROVE TaskWrites(q)'
  <2>1. TaskWrites(q) /\ (pc[q] # "idle" => job[q].slug \in Slugs) /\ (q \in dead => pc[q] = "idle")
    BY DEF Undisturbed, Disciplined, FTypeOK, DeadIdle
  <2>2. pc[q] \notin {"idle", "wait"} => job[q].slug # s
    BY <1>1, <2>1, ProcAssumption DEF TaskWrites, Takeable
  <2>3. QED  BY <1>1, <1>6, <2>1, <2>2 DEF TaskWrites
<1>11. QED  BY <1>1, <1>2, <1>3, <1>8, <1>9, <1>10, OneMoves

LEMMA GiveUpUndisturbed ==
  ASSUME Disciplined, Undisturbed, NEW f \in Focusers, FGiveUp(f)
  PROVE  Undisturbed'
<1>1. /\ at[f] = "lock" /\ \E s \in Slugs : NextLock(f, s)
      /\ fjob' = [fjob EXCEPT ![f].locks = {}, ![f].writes = {}]
      /\ UNCHANGED <<brief, lock, dead, pc, job, at>>
  BY DEF FGiveUp, vars
<1>. DEFINE half == [fjob[f] EXCEPT !.locks = {}]
            j == [half EXCEPT !.writes = {}]
<1>2. /\ \A g \in Focusers \ {f} : at[g] = "idle"
      /\ Underway(f) /\ fjob[f].slug \in Slugs /\ Fields \subseteq DOMAIN fjob[f]
      /\ RanksDistinct(brief)
  BY <1>1, StandsAlone DEF NextLock
<1>3. at' = [at EXCEPT ![f] = "lock"] /\ fjob' = [fjob EXCEPT ![f] = j]
  BY <1>1, <1>2 DEF Disciplined, FTypeOK, Fields
<1>4. /\ half.cmd = fjob[f].cmd /\ half.slug = fjob[f].slug /\ half.rank = fjob[f].rank
      /\ half.seen = fjob[f].seen /\ half.locks = {} /\ Fields \subseteq DOMAIN half
  BY <1>2, JobLocks
<1>. HIDE DEF half
<1>5. /\ j.cmd = fjob[f].cmd /\ j.slug = fjob[f].slug /\ j.rank = fjob[f].rank
      /\ j.seen = fjob[f].seen /\ j.writes = {} /\ Fields \subseteq DOMAIN j
  BY <1>4, JobWrites
<1>. HIDE DEF j
<1>6. at'[f] = "lock" /\ fjob'[f] = j
  BY <1>3 DEF Disciplined, FTypeOK
<1>7. Underway(f)'
  BY <1>2, <1>5, <1>6 DEF Underway, Fields
<1>8. BriefsOK' /\ \A q \in Procs : TaskWrites(q)'
  BY <1>1, OthersStay
<1>9. QED  BY <1>1, <1>2, <1>3, <1>7, <1>8, OneMoves

\* A write takes the list nearer to the goal, and the last one reaches it.
LEMMA WriteUndisturbed ==
  ASSUME Disciplined, Undisturbed, NEW f \in Focusers, FWrite(f)
  PROVE  Undisturbed' /\ (fjob'[f].writes = {} => AsAsked(fjob[f], brief'))
<1>1. PICK w \in fjob[f].writes :
        /\ at[f] = "lock" /\ fjob[f].locks = {}
        /\ brief' = [brief EXCEPT ![w.slug] = w.brief]
        /\ fjob' = [fjob EXCEPT ![f].writes = @ \ {w}] /\ UNCHANGED <<lock, dead, pc, job, at>>
  BY DEF FWrite
<1>. DEFINE W == fjob[f].writes \ {w}
            j == [fjob[f] EXCEPT !.writes = W]
<1>2. /\ \A g \in Focusers \ {f} : at[g] = "idle"
      /\ Underway(f) /\ fjob[f].slug \in Slugs /\ Fields \subseteq DOMAIN fjob[f] /\ f \notin Procs
  BY <1>1, StandsAlone
<1>3. /\ Writable(fjob[f], fjob[f].writes)
      /\ fjob[f].cmd # "new" => \A v \in fjob[f].writes : lock[v.slug] = f
      /\ fjob[f].cmd = "new" => brief[fjob[f].slug].state = "absent"
  BY <1>1, <1>2 DEF Underway
<1>4. PICK goal \in Goals : Leads(fjob[f], fjob[f].writes, brief, goal)
  BY <1>1, <1>2 DEF Underway
<1>5. at' = [at EXCEPT ![f] = "lock"] /\ fjob' = [fjob EXCEPT ![f] = j]
  BY <1>1 DEF Disciplined, FTypeOK
<1>6. /\ j.cmd = fjob[f].cmd /\ j.slug = fjob[f].slug /\ j.rank = fjob[f].rank
      /\ j.seen = fjob[f].seen /\ j.locks = {} /\ j.writes = W /\ Fields \subseteq DOMAIN j
  BY <1>1, <1>2, JobWrites
<1>. HIDE DEF j
<1>7. at'[f] = "lock" /\ fjob'[f] = j
  BY <1>5 DEF Disciplined, FTypeOK
<1>8. /\ w.slug \in Slugs /\ IsBrief(w.brief) /\ w.brief.state # "absent" /\ Alike(goal[w.slug], w.brief)
      /\ DOMAIN brief = Slugs /\ DOMAIN brief' = Slugs /\ brief'[w.slug] = w.brief
      /\ \A s \in Slugs \ {w.slug} : brief'[s] = brief[s]
  BY <1>1, <1>3, <1>4 DEF Writable, Leads, Undisturbed, BriefsOK
<1>9. BriefsOK'
  BY <1>8 DEF Undisturbed, BriefsOK
<1>10. Leads(j, W, brief', goal)
  <2>1. AsAsked(j, goal)
    BY <1>4, <1>6, SameAsked DEF Leads
  <2>2. \A v \in W : Alike(goal[v.slug], v.brief)
    BY <1>4 DEF Leads
  <2>3. ASSUME NEW s \in Slugs, \A v \in W : v.slug # s PROVE Alike(goal[s], brief'[s])
    <3>1. CASE s = w.slug
      BY <1>8, <3>1
    <3>2. CASE s # w.slug
      <4>1. \A v \in fjob[f].writes : v.slug # s
        BY <2>3, <3>2
      <4>2. QED  BY <1>4, <1>8, <3>2, <4>1 DEF Leads
    <3>3. QED  BY <3>1, <3>2
  <2>4. QED  BY <2>1, <2>2, <2>3 DEF Leads
<1>11. W = {} => AsAsked(fjob[f], brief') /\ RanksDistinct(brief')
  <2>1. SUFFICES ASSUME W = {} PROVE AsAsked(fjob[f], brief') /\ RanksDistinct(brief')
    OBVIOUS
  <2>2. AsAsked(fjob[f], goal) /\ DOMAIN goal = Slugs /\ \A s \in Slugs : Alike(goal[s], brief'[s])
    BY <1>4, <1>10, <2>1 DEF Leads, Goals
  <2>3. Focused(brief') = Focused(goal)
    BY <1>8, <2>2 DEF Focused, Alike
  <2>4. Focused(fjob[f].seen) \subseteq Slugs
    BY <1>2 DEF Underway, Focused
  <2>5. \A s \in Slugs : brief'[s].rank = goal[s].rank
    BY <2>2 DEF Alike
  <2>6. RanksDistinct(brief')
    BY <1>8, <2>2, AlikeDistinct DEF AsAsked, Alike
  <2>7. RanksOf(brief', Focused(fjob[f].seen) \ {fjob[f].slug}) = RanksOf(goal, Focused(fjob[f].seen) \ {fjob[f].slug})
    BY <2>4, <2>5 DEF RanksOf
  <2>. DEFINE others == Focused(fjob[f].seen) \ {fjob[f].slug}
  <2>8. \A s \in others \cup {fjob[f].slug} : brief'[s].rank = goal[s].rank
    BY <1>2, <2>4, <2>5
  <2>9. AsAsked(fjob[f], brief')
    BY <2>2, <2>3, <2>6, <2>7, <2>8 DEF AsAsked
  <2>10. QED  BY <2>6, <2>9
<1>12. /\ Writable(j, W)
       /\ j.cmd # "new" => \A v \in W : v.slug \in j.locks \/ lock[v.slug] = f
       /\ j.cmd = "new" => W = {}
  BY <1>3, <1>6 DEF Writable
<1>. HIDE DEF W
<1>13. Underway(f)'
  BY <1>1, <1>2, <1>6, <1>7, <1>10, <1>12 DEF Underway, Fields
<1>14. ASSUME NEW q \in Procs PROVE TaskWrites(q)'
  <2>1. TaskWrites(q) /\ (pc[q] # "idle" => job[q].slug \in Slugs)
    BY DEF Undisturbed, Disciplined, FTypeOK
  <2>2. pc[q] \notin {"idle", "wait"} => job[q].slug # w.slug
    <3>1. CASE fjob[f].cmd = "new"
      BY <1>3, <2>1, <3>1 DEF TaskWrites, Writable
    <3>2. CASE fjob[f].cmd # "new"
      BY <1>2, <1>3, <2>1, <3>2 DEF TaskWrites
    <3>3. QED  BY <3>1, <3>2
  <2>3. pc[q] # "idle" => brief'[job[q].slug].state # "absent"
    BY <1>8, <2>1 DEF TaskWrites
  <2>4. QED  BY <1>1, <1>8, <2>1, <2>2, <2>3 DEF TaskWrites
<1>15. Undisturbed'
  <2>1. fjob'[f].writes = {} => RanksDistinct(brief')
    BY <1>6, <1>7, <1>11
  <2>2. fjob'[f].locks = {}
    BY <1>6, <1>7
  <2>3. QED  BY <1>1, <1>2, <1>5, <1>9, <1>13, <1>14, <2>1, <2>2, OneMoves
<1>16. QED  BY <1>6, <1>7, <1>11, <1>15

LEMMA UnlockUndisturbed ==
  ASSUME Disciplined, Undisturbed, NEW f \in Focusers, FUnlock(f)
  PROVE  Undisturbed'
<1>1. PICK s \in Slugs :
        /\ at[f] = "lock" /\ fjob[f].locks = {} /\ fjob[f].writes = {}
        /\ lock[s] = f /\ lock' = [lock EXCEPT ![s] = NoProc] /\ UNCHANGED <<brief, dead, pc, job, at, fjob>>
  BY DEF FUnlock, Held, fvars
<1>2. /\ \A g \in Focusers \ {f} : at[g] = "idle"
      /\ Underway(f) /\ f \notin Procs /\ RanksDistinct(brief)
  BY <1>1, StandsAlone
<1>3. at' = [at EXCEPT ![f] = "lock"]
  BY <1>1 DEF Disciplined, FTypeOK
<1>4. Underway(f)'
  BY <1>1, <1>2 DEF Underway
<1>5. BriefsOK'
  BY <1>1 DEF Undisturbed, BriefsOK
<1>6. ASSUME NEW q \in Procs PROVE TaskWrites(q)'
  <2>1. TaskWrites(q) /\ (pc[q] # "idle" => job[q].slug \in Slugs)
    BY DEF Undisturbed, Disciplined, FTypeOK
  <2>2. pc[q] \notin {"idle", "wait"} => lock'[job[q].slug] = lock[job[q].slug]
    BY <1>1, <1>2, <2>1 DEF TaskWrites, Disciplined, FTypeOK
  <2>3. QED  BY <1>1, <2>1, <2>2 DEF TaskWrites
<1>7. QED  BY <1>1, <1>2, <1>3, <1>4, <1>5, <1>6, OneMoves

LEMMA EndUndisturbed ==
  ASSUME Disciplined, Undisturbed, NEW f \in Focusers, FEnd(f)
  PROVE  Undisturbed'
<1>1. /\ at[f] = "lock" /\ fjob[f].locks = {} /\ fjob[f].writes = {}
      /\ at' = [at EXCEPT ![f] = "idle"] /\ fjob' = [fjob EXCEPT ![f] = IdleFocus]
      /\ UNCHANGED <<brief, lock, dead, pc, job>>
  BY DEF FEnd, vars
<1>2. (\A g \in Focusers \ {f} : at[g] = "idle") /\ RanksDistinct(brief)
  BY <1>1, StandsAlone
<1>3. BriefsOK' /\ \A q \in Procs : TaskWrites(q)'
  BY <1>1, OthersStay
<1>4. QED  BY <1>1, <1>2, <1>3, OneMoves

LEMMA NextFInv == ASSUME FInv, [FNext]_allVars PROVE FInv'
<1>1. Disciplined'
  BY NextDisciplined DEF FInv
<1>2. CASE UNCHANGED allVars
  BY <1>2 DEF allVars, vars, fvars, FInv, Disciplined, FTypeOK, TaskHolds, ListHolds, DeadIdle, Undisturbed,
     BriefsOK, TaskWrites, Underway, NoneWrites
<1>3. CASE FNext
  <2>1. SUFFICES ASSUME ~overlap' PROVE Undisturbed'
    BY <1>1 DEF FInv
  <2>2. CASE Next /\ UNCHANGED fvars
    <3>1. Undisturbed
      BY <2>1, <2>2 DEF FInv, fvars
    <3>2. PICK p \in Procs : \/ \E c \in Commands, s \in Slugs : Begin(p, c, s)
                             \/ Step(p) \/ GiveUp(p) \/ Crash(p)
      BY <2>2 DEF Next
    <3>3. QED  BY <2>2, <3>1, <3>2, TaskUndisturbed DEF FInv
  <2>3. ASSUME NEW f \in Focusers,
               \/ \E c \in FocusCommands, s \in Slugs, r \in Ranks \cup {0} : FBegin(f, c, s, r)
               \/ FStep(f) \/ FGiveUp(f) \/ FCrash(f)
        PROVE  Undisturbed'
    <3>1. ~overlap
      BY <2>1, <2>3 DEF FStep, FBegin, FLoad, FocusDecide, UnfocusDecide, PauseDecide, UnpauseDecide, NewDecide,
         FLock, FWrite, FUnlock, FEnd, FGiveUp, FCrash, fvars
    <3>2. Disciplined /\ Undisturbed
      BY <3>1 DEF FInv
    <3>3. ~FCrash(f)
      BY <2>1 DEF FCrash
    <3>4. QED
      BY <2>1, <2>3, <3>2, <3>3, BeginUndisturbed, LoadUndisturbed, DecideUndisturbed, LockUndisturbed,
         GiveUpUndisturbed, WriteUndisturbed, UnlockUndisturbed, EndUndisturbed DEF FStep
  <2>4. QED  BY <1>3, <2>2, <2>3 DEF FNext
<1>4. QED  BY <1>2, <1>3

\* As long as commands on the list do not overlap: whatever the task commands do beside
\* them, each command on the list does to it what it was asked.
THEOREM ListsAreAsAsked == FSpec => FocusExact
<1>1. ASSUME FInv, [FNext]_allVars, NEW f \in Focusers, LastWrite(f), ~overlap'
      PROVE  AsAsked(fjob[f], brief')
  <2>1. /\ at[f] = "lock" /\ fjob[f].locks = {} /\ fjob[f].writes # {} /\ fjob'[f].writes = {}
    BY <1>1 DEF LastWrite
  <2>2. fjob' # fjob
    BY <2>1
  <2>3. PICK g \in Focusers :
          \/ \E c \in FocusCommands, s \in Slugs, r \in Ranks \cup {0} : FBegin(g, c, s, r)
          \/ FStep(g) \/ FGiveUp(g) \/ FCrash(g)
    BY <1>1, <2>2 DEF FNext, allVars, fvars
  <2>4. ~overlap
    BY <1>1, <2>3 DEF FStep, FBegin, FLoad, FocusDecide, UnfocusDecide, PauseDecide, UnpauseDecide, NewDecide,
       FLock, FWrite, FUnlock, FEnd, FGiveUp, FCrash, fvars
  <2>5. Disciplined /\ Undisturbed
    BY <1>1, <2>4 DEF FInv
  <2>6. g = f
    <3>1. SUFFICES ASSUME g # f PROVE FALSE
      OBVIOUS
    <3>2. at[g] = "idle"
      BY <2>1, <2>5, <3>1 DEF Undisturbed
    <3>3. ~(FStep(g) \/ FGiveUp(g) \/ FCrash(g))
      BY <3>2 DEF FStep, FLoad, FocusDecide, UnfocusDecide, PauseDecide, UnpauseDecide, NewDecide, Loaded,
         FLock, FWrite, FUnlock, FEnd, FGiveUp, FCrash
    <3>4. \A c, s, r : ~FBegin(g, c, s, r)
      BY <1>1, <2>1, <3>1 DEF FBegin
    <3>5. QED  BY <2>3, <3>3, <3>4
  <2>7. FWrite(f)
    <3>1. ~FEnd(f) /\ ~FUnlock(f) /\ ~FLock(f) /\ ~FGiveUp(f) /\ ~FLoad(f)
      BY <2>1 DEF FEnd, FUnlock, FLock, FGiveUp, FLoad, NextLock
    <3>2. ~(FocusDecide(f) \/ UnfocusDecide(f) \/ PauseDecide(f) \/ UnpauseDecide(f) \/ NewDecide(f))
      BY <2>1 DEF FocusDecide, UnfocusDecide, PauseDecide, UnpauseDecide, NewDecide, Loaded
    <3>3. ~FCrash(f) /\ \A c, s, r : ~FBegin(f, c, s, r)
      BY <1>1, <2>1 DEF FCrash, FBegin
    <3>4. QED  BY <2>3, <2>6, <3>1, <3>2, <3>3 DEF FStep
  <2>8. QED  BY <2>1, <2>5, <2>7, WriteUndisturbed
<1>2. FInv /\ [FNext]_allVars => [\A f \in Focusers : LastWrite(f) /\ ~overlap' => AsAsked(fjob[f], brief')]_allVars
  BY <1>1
<1>3. FInv /\ [FNext]_allVars => FInv'
  BY NextFInv
<1>4. QED  BY InitFInv, <1>2, <1>3, PTL DEF FSpec, FocusExact

=============================================================================
