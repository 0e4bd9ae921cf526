------------------------- MODULE IndexRefreshProofs -------------------------
(***************************************************************************)
(* Proofs about the refresh of the session index, for every set of         *)
(* readers, changes and passes: passes run in turn, nothing is swallowed,  *)
(* and a reader told "fresh" reads what was reported before it asked.      *)
(***************************************************************************)
EXTENDS IndexRefresh, FiniteSetTheorems, TLAPS

----------------------------------------------------------------------------
(* Types.                                                                   *)

LEMMA InitTypes == Init => TypeOK
<1>. SUFFICES ASSUME Init PROVE TypeOK
  OBVIOUS
<1>1. {pending, held, closed, dbClosed, failed, owed} \subseteq BOOLEAN
  BY DEF Init
<1>2. /\ taken \in [Runs -> SUBSET Changes] /\ before \in [Readers -> SUBSET Changes]
      /\ late \in [Readers -> BOOLEAN] /\ DOMAIN behind = Runs
  BY DEF Init
<1>3. QED  BY <1>1, <1>2 DEF Init, TypeOK

LEMMA StartTypes ==
  ASSUME TypeOK, StartFull
  PROVE  /\ drainAt' \in {"off", "behind", "full"} /\ owed' \in BOOLEAN
         /\ executing' \in Runs \cup {NoRun}
         /\ kind' \in [Runs -> {"none", "full", "delta"}]
         /\ phase' \in [Runs -> {"none", "lock", "waiting", "work", "tail"}]
         /\ taken' = taken /\ lockedBy' = lockedBy /\ DOMAIN behind' = Runs
<1>1. drainAt' \in {"off", "behind", "full"} /\ owed' \in BOOLEAN
  BY DEF TypeOK, StartFull
<1>2. executing' \in Runs \cup {NoRun} /\ taken' = taken /\ lockedBy' = lockedBy
  BY DEF TypeOK, StartFull, Execute, passVars
<1>3. kind' \in [Runs -> {"none", "full", "delta"}]
  BY DEF TypeOK, StartFull, Execute, passVars
<1>4. phase' \in [Runs -> {"none", "lock", "waiting", "work", "tail"}]
  BY DEF TypeOK, StartFull, Execute, passVars
<1>5. DOMAIN behind' = Runs
  BY DEF TypeOK, StartFull, passVars
<1>6. QED  BY <1>1, <1>2, <1>3, <1>4, <1>5

LEMMA DrainTypes == ASSUME TypeOK, DrainStep PROVE TypeOK'
<1>1. CASE WindowEnds \/ GateHolds \/ GatePauseEnds
  BY <1>1 DEF TypeOK, WindowEnds, GateHolds, GatePauseEnds, closeVars, passVars, readVars, dataVars
<1>2. CASE GateOpens
  BY <1>2, StartTypes DEF TypeOK, GateOpens, closeVars, readVars, dataVars
<1>3. CASE BackoffEnds
  BY <1>3 DEF TypeOK, BackoffEnds, NextRound, closeVars, passVars, readVars, dataVars
<1>4. CASE DrainResumes
  <2>1. drainAt' \in {"off", "window", "behind", "full", "backoff"} /\ owed' \in BOOLEAN /\ pending' = pending
    BY <1>4, StartTypes DEF TypeOK, DrainResumes, NextRound
  <2>2. /\ executing' \in Runs \cup {NoRun}
        /\ kind' \in [Runs -> {"none", "full", "delta"}]
        /\ phase' \in [Runs -> {"none", "lock", "waiting", "work", "tail"}]
        /\ taken' = taken /\ lockedBy' = lockedBy /\ DOMAIN behind' = Runs
    BY <1>4, StartTypes DEF TypeOK, DrainResumes, NextRound, passVars
  <2>3. QED  BY <1>4, <2>1, <2>2 DEF TypeOK, DrainResumes, closeVars, readVars, dataVars
<1>5. QED  BY <1>1, <1>2, <1>3, <1>4 DEF DrainStep

\* Pass i is over.
LEMMA OverTypes ==
  ASSUME TypeOK, NEW i \in Runs, Over(i), NEW a \in {"fresh", "stale"}, AnswerJoined(i, a)
  PROVE  /\ kind' \in [Runs -> {"none", "full", "delta"}]
         /\ phase' \in [Runs -> {"none", "lock", "waiting", "work", "tail"}]
         /\ taken' \in [Runs -> SUBSET Changes] /\ DOMAIN behind' = Runs
         /\ executing' \in Runs \cup {NoRun} /\ lockedBy' \in Runs \cup {NoRun, Other}
         /\ awaited' \subseteq Runs /\ closed' = closed /\ dbClosed' = dbClosed
         /\ reader' \in [Readers -> {"idle", "joined", "behind"}]
         /\ joined' \in [Readers -> Runs \cup {NoRun}]
         /\ answer' \in [Readers -> {"none", "fresh", "stale"}]
         /\ before' = before /\ late' = late
  BY DEF TypeOK, Over, AnswerJoined

LEMMA IndexesTypes ==
  ASSUME TypeOK, NEW i \in Runs, Indexes(i)
  PROVE  indexed' \subseteq Changes
  BY DEF TypeOK, Indexes

LEMMA PassTypes == ASSUME TypeOK, NEW i \in Runs, PassStep(i) PROVE TypeOK'
<1>1. CASE Locked(i)
  BY <1>1 DEF TypeOK, Locked, drainVars, closeVars, readVars
<1>2. CASE WaitsForLock(i)
  BY <1>2 DEF TypeOK, WaitsForLock, drainVars, closeVars, readVars, dataVars
<1>3. CASE Indexed(i)
  BY <1>3, IndexesTypes DEF TypeOK, Indexed, AnswerJoined, drainVars, closeVars
<1>4. CASE Succeeds(i)
  <2>1. indexed' \subseteq Changes
    BY <1>4, IndexesTypes DEF Succeeds, TypeOK
  <2>2. QED  BY <1>4, <2>1, OverTypes DEF TypeOK, Succeeds, drainVars
<1>5. CASE Fails(i)
  <2>1. dirty' \subseteq Changes
    BY <1>5 DEF Fails, TypeOK, Restored
  <2>2. QED  BY <1>5, <2>1, OverTypes DEF TypeOK, Fails
<1>6. CASE LockSkipped(i)
  BY <1>6, OverTypes DEF TypeOK, LockSkipped, dataVars
<1>7. QED  BY <1>1, <1>2, <1>3, <1>4, <1>5, <1>6 DEF PassStep

LEMMA ReaderTypes ==
  ASSUME TypeOK, NEW r \in Readers, Call(r) \/ ReaderResumes(r) \/ Expires(r)
  PROVE  TypeOK'
<1>1. CASE Call(r)
  <2>1. before' \in [Readers -> SUBSET Changes] /\ late' \in [Readers -> BOOLEAN]
    BY <1>1 DEF Call, TypeOK
  <2>2. /\ reader' \in [Readers -> {"idle", "joined", "behind"}]
        /\ joined' \in [Readers -> Runs \cup {NoRun}]
        /\ answer' \in [Readers -> {"none", "fresh", "stale"}]
    <3>1. \/ /\ \E a \in {"fresh", "stale"} : Answer(r, a)
          \/ \E i \in Runs : Join(r, i)
          \/ reader' = [reader EXCEPT ![r] = "behind"] /\ UNCHANGED <<joined, answer>>
      BY <1>1 DEF Call, StartDelta, TypeOK
    <3>2. QED  BY <3>1 DEF Answer, Join, TypeOK
  <2>3. /\ executing' \in Runs \cup {NoRun}
        /\ kind' \in [Runs -> {"none", "full", "delta"}]
        /\ phase' \in [Runs -> {"none", "lock", "waiting", "work", "tail"}]
        /\ taken' = taken /\ lockedBy' = lockedBy /\ DOMAIN behind' = Runs
    <3>1. \/ UNCHANGED passVars
          \/ UNCHANGED behind /\ \E i \in Runs : Execute(i, "delta")
          \/ /\ behind' = [behind EXCEPT ![executing] = Append(@, r)]
             /\ UNCHANGED <<executing, kind, phase, taken, lockedBy>>
      BY <1>1 DEF Call, StartDelta, TypeOK
    <3>2. QED  BY <3>1 DEF Execute, passVars, TypeOK
  <2>4. QED  BY <1>1, <2>1, <2>2, <2>3 DEF TypeOK, Call, drainVars, closeVars, dataVars
<1>2. CASE ReaderResumes(r)
  <2>1. /\ \/ Answer(r, "stale")
           \/ \E i \in Runs : Join(r, i)
        /\ \/ UNCHANGED passVars
           \/ UNCHANGED behind /\ \E i \in Runs : Execute(i, "delta")
        /\ UNCHANGED <<before, late, drainVars, closeVars, dataVars>>
    BY <1>2 DEF ReaderResumes, StartDelta, TypeOK
  <2>2. /\ reader' \in [Readers -> {"idle", "joined", "behind"}]
        /\ joined' \in [Readers -> Runs \cup {NoRun}]
        /\ answer' \in [Readers -> {"none", "fresh", "stale"}]
    BY <2>1 DEF Answer, Join, TypeOK
  <2>3. /\ executing' \in Runs \cup {NoRun}
        /\ kind' \in [Runs -> {"none", "full", "delta"}]
        /\ phase' \in [Runs -> {"none", "lock", "waiting", "work", "tail"}]
        /\ taken' = taken /\ lockedBy' = lockedBy /\ DOMAIN behind' = Runs
    BY <2>1 DEF Execute, passVars, TypeOK
  <2>4. QED  BY <2>1, <2>2, <2>3 DEF TypeOK, drainVars, closeVars, dataVars
<1>3. CASE Expires(r)
  BY <1>3 DEF TypeOK, Expires, Answer, drainVars, closeVars, dataVars
<1>4. QED  BY <1>1, <1>2, <1>3

LEMMA NextTypes == ASSUME TypeOK, [Next]_vars PROVE TypeOK'
<1>1. ASSUME NEW c \in Changes, Report(c) PROVE TypeOK'
  BY <1>1 DEF TypeOK, Report, drainVars, closeVars, passVars, readVars
<1>2. CASE Trigger
  BY <1>2 DEF TypeOK, Trigger, closeVars, passVars, readVars, dataVars
<1>3. CASE Close \/ CloseEnds
  BY <1>3 DEF TypeOK, Close, CloseEnds, Tracked, drainVars, passVars, readVars, dataVars
<1>4. CASE OtherLocks \/ OtherUnlocks
  BY <1>4 DEF TypeOK, OtherLocks, OtherUnlocks, drainVars, closeVars, readVars, dataVars
<1>5. CASE UNCHANGED vars
  BY <1>5 DEF TypeOK, vars, drainVars, closeVars, passVars, readVars, dataVars
<1>6. QED
  BY <1>1, <1>2, <1>3, <1>4, <1>5, DrainTypes, PassTypes, ReaderTypes DEF Next

\* Every variable holds a value of its kind.
THEOREM TypesHold == Spec => []TypeOK
<1>1. TypeOK /\ [Next]_vars => TypeOK'
  BY NextTypes
<1>2. QED  BY InitTypes, <1>1, PTL DEF Spec

----------------------------------------------------------------------------
(* The pass the scheduler tracks is the one that runs, and close() awaits it. *)

PassesTracked ==
  \A i \in Runs : /\ kind[i] # "none" <=> executing = i
                  /\ phase[i] # "none" <=> executing = i

CloseWaits ==
  /\ closed => executing = NoRun \/ executing \in awaited
  /\ dbClosed => closed /\ executing = NoRun

\* What a step does to the passes: nothing that these two facts see, start one where
\* none runs and close() has not come, move one on, or end the one that runs.
Starts == ~closed /\ executing = NoRun /\ \E i \in Runs, k \in {"full", "delta"} : Execute(i, k)
MovesOn ==
  /\ \E i \in Runs, p \in {"waiting", "work", "tail"} : phase[i] # "none" /\ phase' = [phase EXCEPT ![i] = p]
  /\ UNCHANGED <<executing, kind>>
Ends == \E i \in Runs : executing = i /\ Over(i)

LEMMA PassMoves ==
  ASSUME TypeOK, PassesTracked, [Next]_vars
  PROVE  \/ /\ \/ Starts \/ MovesOn \/ UNCHANGED <<executing, kind, phase>>
            /\ \/ UNCHANGED closeVars
               \/ ~closed /\ closed' /\ awaited' = Tracked /\ UNCHANGED <<dbClosed, executing, kind, phase>>
               \/ closed /\ awaited = {} /\ dbClosed' /\ UNCHANGED <<closed, awaited, executing, kind, phase>>
         \/ Ends
<1>1. ASSUME NEW c \in Changes, Report(c) PROVE UNCHANGED <<executing, kind, phase, closeVars>>
  BY <1>1 DEF Report, passVars
<1>2. CASE Trigger \/ OtherLocks \/ OtherUnlocks \/ UNCHANGED vars
  BY <1>2 DEF Trigger, OtherLocks, OtherUnlocks, vars, passVars
<1>3. CASE Close \/ CloseEnds
  BY <1>3 DEF Close, CloseEnds, passVars
<1>4. CASE DrainStep
  <2>1. ASSUME StartFull PROVE Starts \/ UNCHANGED <<executing, kind, phase>>
    BY <2>1 DEF StartFull, Starts, passVars
  <2>2. QED
    BY <1>4, <2>1 DEF DrainStep, WindowEnds, GateHolds, GatePauseEnds, GateOpens, BackoffEnds, DrainResumes, passVars
<1>5. ASSUME NEW i \in Runs, PassStep(i)
      PROVE  Ends \/ (MovesOn /\ UNCHANGED closeVars)
  <2>1. CASE Locked(i) \/ WaitsForLock(i) \/ Indexed(i)
    BY <1>5, <2>1 DEF Locked, WaitsForLock, Indexed, MovesOn
  <2>2. CASE Succeeds(i) \/ Fails(i) \/ LockSkipped(i)
    <3>1. Over(i) /\ (phase[i] # "none" \/ kind[i] # "none")
      BY <2>2 DEF Succeeds, Fails, LockSkipped, Active
    <3>2. QED  BY <3>1 DEF PassesTracked, Ends
  <2>3. QED  BY <1>5, <2>1, <2>2 DEF PassStep
<1>6. ASSUME NEW r \in Readers, Call(r) \/ ReaderResumes(r) \/ Expires(r)
      PROVE  (Starts \/ UNCHANGED <<executing, kind, phase>>) /\ UNCHANGED closeVars
  BY <1>6 DEF Call, ReaderResumes, Expires, ReaderMayFollow, StartDelta, Starts, passVars
<1>7. QED  BY <1>1, <1>2, <1>3, <1>4, <1>5, <1>6 DEF Next

PassInv == TypeOK /\ PassesTracked /\ CloseWaits

LEMMA InitPasses == Init => PassInv
  BY InitTypes, RunAssumption DEF Init, PassInv, PassesTracked, CloseWaits

LEMMA NextPasses == ASSUME PassInv, [Next]_vars PROVE PassInv'
<1>. USE RunAssumption
<1>1. TypeOK'
  BY NextTypes DEF PassInv
<1>2. CASE Starts /\ UNCHANGED closeVars
  BY <1>1, <1>2 DEF Starts, Execute, PassInv, PassesTracked, CloseWaits, closeVars, TypeOK
<1>3. CASE MovesOn /\ UNCHANGED closeVars
  BY <1>1, <1>3 DEF MovesOn, PassInv, PassesTracked, CloseWaits, closeVars, TypeOK
<1>4. CASE Ends
  BY <1>1, <1>4 DEF Ends, Over, PassInv, PassesTracked, CloseWaits, TypeOK
<1>5. CASE /\ UNCHANGED <<executing, kind, phase>>
           /\ \/ UNCHANGED closeVars
              \/ ~closed /\ closed' /\ awaited' = Tracked /\ UNCHANGED dbClosed
              \/ closed /\ awaited = {} /\ dbClosed' /\ UNCHANGED <<closed, awaited>>
  BY <1>1, <1>5 DEF PassInv, PassesTracked, CloseWaits, closeVars, Tracked
<1>6. QED  BY <1>2, <1>3, <1>4, <1>5, PassMoves DEF PassInv

\* Passes run in turn, and none runs once close() is over.
THEOREM PassesRunInTurn == Spec => []PassesInTurn
<1>1. PassInv => PassesInTurn
  <2>1. ASSUME PassInv PROVE Cardinality(Active) <= 1
    <3>1. Active = {} \/ Active = {executing}
      BY <2>1 DEF PassInv, PassesTracked, Active
    <3>2. Cardinality({}) = 0 /\ Cardinality({executing}) = 1
      BY FS_EmptySet, FS_Singleton
    <3>3. QED  BY <3>1, <3>2
  <2>2. ASSUME PassInv, dbClosed PROVE Active = {}
    BY <2>2, RunAssumption DEF PassInv, PassesTracked, CloseWaits, Active
  <2>3. QED  BY <2>1, <2>2 DEF PassesInTurn, OnePass, ClosedQuiet
<1>2. PassInv /\ [Next]_vars => PassInv'
  BY NextPasses
<1>3. QED  BY InitPasses, <1>1, <1>2, PTL DEF Spec

----------------------------------------------------------------------------
(* What was reported or asked for is not lost.                              *)

\* A pass holds changes only while it has the lock; past its index step they are in
\* the index.
TakenHeld ==
  \A i \in Runs : /\ phase[i] \in {"none", "lock", "waiting"} => taken[i] = {}
                  /\ phase[i] = "tail" => taken[i] \subseteq indexed

ChangesInv == PassInv /\ TakenHeld /\ ChangesKept

LEMMA InitChanges == Init => ChangesInv
  BY InitPasses DEF Init, ChangesInv, TakenHeld, ChangesKept

\* A step that leaves the changes alone, or starts a pass.
LEMMA ChangesUntouched ==
  ASSUME ChangesInv, Starts \/ UNCHANGED <<kind, phase>>, UNCHANGED <<taken, dataVars>>
  PROVE  TakenHeld' /\ ChangesKept'
<1>. USE RunAssumption DEF PassInv, PassesTracked, TypeOK
<1>1. TakenHeld'
  BY DEF ChangesInv, TakenHeld, Starts, Execute, dataVars
<1>2. ChangesKept'
  BY DEF ChangesInv, TakenHeld, ChangesKept, Starts, Execute, dataVars, Active
<1>3. QED  BY <1>1, <1>2

\* Pass i is over, and what it had drained is in the index or waits again.
LEMMA OverKeeps ==
  ASSUME ChangesInv, NEW i \in Runs, Over(i), reported' = reported,
         indexed \subseteq indexed', dirty \subseteq dirty', taken[i] \subseteq indexed' \cup dirty'
  PROVE  TakenHeld' /\ ChangesKept'
<1>1. TakenHeld'
  BY DEF ChangesInv, TakenHeld, Over, PassInv, TypeOK
<1>2. ChangesKept'
  BY DEF ChangesInv, ChangesKept, Over, Active, PassInv, TypeOK
<1>3. QED  BY <1>1, <1>2

LEMMA PassChanges == ASSUME ChangesInv, NEW i \in Runs, PassStep(i) PROVE TakenHeld' /\ ChangesKept'
<1>1. CASE Locked(i)
  <2>1. TakenHeld'
    BY <1>1 DEF ChangesInv, PassInv, TypeOK, TakenHeld, Locked
  <2>2. ChangesKept'
    BY <1>1 DEF ChangesInv, PassInv, PassesTracked, TypeOK, TakenHeld, ChangesKept, Locked, Active
  <2>3. QED  BY <2>1, <2>2
<1>2. CASE WaitsForLock(i)
  <2>1. TakenHeld'
    BY <1>2 DEF ChangesInv, PassInv, TypeOK, TakenHeld, WaitsForLock, dataVars
  <2>2. UNCHANGED <<kind, taken, dataVars>>
    BY <1>2 DEF WaitsForLock
  <2>3. QED  BY <2>1, <2>2 DEF ChangesInv, ChangesKept, Active, dataVars
<1>3. CASE Indexed(i)
  BY <1>3 DEF ChangesInv, PassInv, TypeOK, TakenHeld, ChangesKept, Indexed, Indexes, Active
<1>4. CASE Succeeds(i)
  <2>1. indexed \subseteq indexed' /\ taken[i] \subseteq indexed'
    BY <1>4 DEF Succeeds, Indexes, ChangesInv, TakenHeld
  <2>2. Over(i) /\ reported' = reported /\ dirty' = dirty
    BY <1>4 DEF Succeeds
  <2>3. QED  BY <2>1, <2>2, OverKeeps
<1>5. CASE Fails(i)
  <2>1. Over(i) /\ reported' = reported /\ indexed' = indexed /\ dirty' = dirty \cup taken[i]
    BY <1>5 DEF Fails, Restored
  <2>2. QED  BY <2>1, OverKeeps
<1>6. CASE LockSkipped(i)
  <2>1. taken[i] = {}
    BY <1>6 DEF LockSkipped, ChangesInv, TakenHeld
  <2>2. QED  BY <1>6, <2>1, OverKeeps DEF LockSkipped, dataVars
<1>7. QED  BY <1>1, <1>2, <1>3, <1>4, <1>5, <1>6 DEF PassStep

LEMMA NextChanges == ASSUME ChangesInv, [Next]_vars PROVE ChangesInv'
<1>1. PassInv'
  BY NextPasses DEF ChangesInv
<1>2. ASSUME NEW c \in Changes, Report(c) PROVE TakenHeld' /\ ChangesKept'
  BY <1>2 DEF ChangesInv, TakenHeld, ChangesKept, Report, Active, passVars
<1>3. CASE Trigger \/ Close \/ CloseEnds \/ OtherLocks \/ OtherUnlocks \/ UNCHANGED vars
  BY <1>1, <1>3, ChangesUntouched DEF ChangesInv, Trigger, Close, CloseEnds, OtherLocks, OtherUnlocks, vars, passVars
<1>4. CASE DrainStep
  <2>1. ASSUME StartFull PROVE (Starts \/ UNCHANGED <<kind, phase>>) /\ UNCHANGED taken
    BY <2>1 DEF StartFull, Starts, Execute, passVars
  <2>2. (Starts \/ UNCHANGED <<kind, phase>>) /\ UNCHANGED <<taken, dataVars>>
    BY <1>4, <2>1 DEF DrainStep, WindowEnds, GateHolds, GatePauseEnds, GateOpens, BackoffEnds, DrainResumes, passVars
  <2>3. QED  BY <1>1, <2>2, ChangesUntouched DEF ChangesInv
<1>5. ASSUME NEW r \in Readers, Call(r) \/ ReaderResumes(r) \/ Expires(r)
      PROVE  TakenHeld' /\ ChangesKept'
  <2>1. (Starts \/ UNCHANGED <<kind, phase>>) /\ UNCHANGED <<taken, dataVars>>
    <3>1. ASSUME StartDelta(r), executing = NoRun, ~closed PROVE Starts /\ UNCHANGED taken
      BY <3>1 DEF StartDelta, Starts, Execute
    <3>2. CASE Call(r)
      BY <3>1, <3>2 DEF Call, passVars
    <3>3. CASE ReaderResumes(r)
      BY <3>1, <3>3 DEF ReaderResumes, ReaderMayFollow, passVars
    <3>4. CASE Expires(r)
      BY <3>4 DEF Expires
    <3>5. QED  BY <1>5, <3>2, <3>3, <3>4
  <2>2. QED  BY <2>1, ChangesUntouched
<1>6. QED  BY <1>1, <1>2, <1>3, <1>4, <1>5, PassChanges DEF Next, ChangesInv

LEMMA NextTriggers == ASSUME TypeOK, TriggersKept, [Next]_vars PROVE TriggersKept'
<1>1. ASSUME NEW c \in Changes, Report(c) PROVE TriggersKept'
  BY <1>1 DEF TriggersKept, Report, drainVars, closeVars
<1>2. CASE Trigger \/ Close \/ CloseEnds \/ OtherLocks \/ OtherUnlocks \/ UNCHANGED vars
  BY <1>2 DEF TriggersKept, Trigger, Close, CloseEnds, OtherLocks, OtherUnlocks, vars, drainVars, closeVars
<1>3. CASE DrainStep
  <2>1. ASSUME StartFull PROVE drainAt' = "behind" \/ closed \/ ~owed'
    BY <2>1 DEF StartFull
  <2>2. CASE GateOpens
    BY <2>1, <2>2 DEF TriggersKept, GateOpens, closeVars
  <2>3. CASE DrainResumes
    <3>1. pending' = pending /\ closed' = closed
      BY <2>3 DEF DrainResumes, NextRound, closeVars
    <3>2. StartFull \/ (owed' = owed /\ drainAt # "behind")
      BY <2>3 DEF DrainResumes, passVars
    <3>3. QED  BY <2>1, <3>1, <3>2 DEF TriggersKept
  <2>4. QED
    BY <1>3, <2>2, <2>3 DEF DrainStep, TriggersKept, WindowEnds, GateHolds, GatePauseEnds, BackoffEnds, NextRound, closeVars
<1>4. ASSUME NEW i \in Runs, PassStep(i) PROVE TriggersKept'
  BY <1>4 DEF TriggersKept, PassStep, Locked, WaitsForLock, Indexed, Succeeds, Fails, LockSkipped, Over,
              drainVars, closeVars, TypeOK
<1>5. ASSUME NEW r \in Readers, Call(r) \/ ReaderResumes(r) \/ Expires(r) PROVE TriggersKept'
  BY <1>5 DEF TriggersKept, Call, ReaderResumes, Expires, drainVars, closeVars
<1>6. QED  BY <1>1, <1>2, <1>3, <1>4, <1>5 DEF Next

\* Neither a failed pass, a lock held elsewhere nor a pass in progress swallows a
\* change or a request.
THEOREM NothingIsSwallowed == Spec => []NothingSwallowed
<1>1. Init => ChangesInv /\ TriggersKept
  BY InitChanges DEF Init, TriggersKept
<1>2. ChangesInv /\ TriggersKept /\ [Next]_vars => ChangesInv' /\ TriggersKept'
  BY NextChanges, NextTriggers DEF ChangesInv, PassInv
<1>3. ChangesInv /\ TriggersKept => NothingSwallowed
  BY DEF ChangesInv, NothingSwallowed
<1>4. QED  BY <1>1, <1>2, <1>3, PTL DEF Spec

----------------------------------------------------------------------------
(* What a reader is told.                                                   *)

\* While promises wait to be served, the pass that runs has just started.
QueueEarly == ready # <<>> => executing = NoRun \/ phase[executing] = "lock"

\* A reader that joined waits for the pass that runs, which has not indexed yet; once
\* that pass has drained the dirty set, what was reported before the reader asked is in
\* its hands or in the index, unless the reader came later.
JoinedWaits ==
  \A r \in Readers : reader[r] = "joined" =>
    /\ joined[r] \in Runs /\ executing = joined[r]
    /\ phase[joined[r]] \in {"lock", "waiting", "work"}
    /\ phase[joined[r]] = "work" /\ ~late[r] => before[r] \subseteq indexed \cup taken[joined[r]]

BeforeReported == \A r \in Readers : before[r] \subseteq reported

ReadersOK == QueueEarly /\ BeforeReported /\ JoinedWaits /\ FreshCovers

ReadInv == ChangesInv /\ ReadersOK

LEMMA InitReaders == Init => ReadInv
  BY InitChanges DEF Init, ReadInv, ReadersOK, QueueEarly, BeforeReported, JoinedWaits, FreshCovers

\* When nothing waits undrained and no pass holds anything, all of it is in the index.
LEMMA AllIndexed ==
  ASSUME ChangesInv, dirty = {}, executing = NoRun \/ phase[executing] = "tail"
  PROVE  reported \subseteq indexed
<1>1. ASSUME NEW i \in Active PROVE taken[i] \subseteq indexed
  BY <1>1, RunAssumption DEF ChangesInv, PassInv, PassesTracked, TakenHeld, Active
<1>2. QED  BY <1>1 DEF ChangesInv, ChangesKept

\* A step that leaves readers, data and passes alone, or starts a pass.
LEMMA ReadersUntouched ==
  ASSUME ReadInv, UNCHANGED <<readVars, taken, dirty, indexed>>, reported \subseteq reported',
         Starts \/ UNCHANGED <<executing, phase>>, ready' # <<>> => ready # <<>>
  PROVE  ReadersOK'
<1>. USE RunAssumption DEF ReadInv, ReadersOK, ChangesInv, PassInv, TypeOK, readVars
<1>1. QueueEarly'
  <2>1. CASE Starts
    BY <2>1 DEF QueueEarly, Starts, Execute
  <2>2. CASE UNCHANGED <<executing, phase>>
    BY <2>2 DEF QueueEarly
  <2>3. QED  BY <2>1, <2>2
<1>2. BeforeReported' /\ FreshCovers'
  BY DEF BeforeReported, FreshCovers
<1>3. JoinedWaits'
  BY DEF JoinedWaits, Starts, Execute
<1>4. QED  BY <1>1, <1>2, <1>3

\* Pass i ends or has indexed: those who joined it learn how it went.
LEMMA JoinedLearn ==
  ASSUME ReadInv, NEW i \in Runs, executing = i, NEW a \in {"fresh", "stale"}, AnswerJoined(i, a),
         indexed \subseteq indexed', reported' = reported,
         a = "fresh" => phase[i] = "tail" \/ (phase[i] = "work" /\ taken[i] \subseteq indexed')
  PROVE  BeforeReported' /\ JoinedWaits' /\ FreshCovers'
<1>. USE DEF ReadInv, ReadersOK, ChangesInv, PassInv, TypeOK, AnswerJoined
<1>1. BeforeReported'
  BY DEF BeforeReported
<1>2. \A r \in Readers : reader'[r] # "joined"
  BY DEF JoinedWaits
<1>3. ASSUME NEW r \in Readers, reader[r] = "joined", a = "fresh", ~late[r] PROVE before[r] \subseteq indexed'
  BY <1>3 DEF JoinedWaits
<1>4. FreshCovers'
  BY <1>3 DEF FreshCovers, JoinedWaits
<1>5. QED  BY <1>1, <1>2, <1>4 DEF JoinedWaits

LEMMA PassReaders == ASSUME ReadInv, NEW i \in Runs, PassStep(i) PROVE ReadersOK'
<1>. USE DEF ReadInv, ChangesInv, PassInv
<1>1. phase[i] # "none" \/ kind[i] # "none" => executing = i
  BY DEF PassesTracked
<1>2. CASE Locked(i)
  <2>1. executing = i /\ taken[i] = {}
    BY <1>1, <1>2 DEF Locked, TakenHeld
  <2>2. ASSUME NEW r \in Readers PROVE before[r] \subseteq indexed \cup dirty
    BY <2>1 DEF ReadersOK, BeforeReported, ChangesKept, PassesTracked, Active
  <2>3. JoinedWaits'
    BY <1>2, <2>1, <2>2 DEF Locked, ReadersOK, JoinedWaits, readVars, TypeOK
  <2>4. QueueEarly' /\ BeforeReported' /\ FreshCovers'
    BY <1>2 DEF Locked, Event, ReadersOK, QueueEarly, BeforeReported, FreshCovers, readVars
  <2>5. QED  BY <2>3, <2>4 DEF ReadersOK
<1>3. CASE WaitsForLock(i)
  <2>1. JoinedWaits'
    BY <1>3 DEF WaitsForLock, ReadersOK, JoinedWaits, readVars, dataVars, TypeOK
  <2>2. QueueEarly' /\ BeforeReported' /\ FreshCovers'
    BY <1>3 DEF WaitsForLock, Event, ReadersOK, QueueEarly, BeforeReported, FreshCovers, readVars, dataVars
  <2>3. QED  BY <2>1, <2>2 DEF ReadersOK
<1>4. CASE Indexed(i)
  <2>1. BeforeReported' /\ JoinedWaits' /\ FreshCovers'
    BY <1>1, <1>4, JoinedLearn DEF Indexed, Indexes
  <2>2. QueueEarly'
    BY <1>4 DEF Indexed, Event, QueueEarly
  <2>3. QED  BY <2>1, <2>2 DEF ReadersOK
<1>5. CASE Succeeds(i) \/ Fails(i) \/ LockSkipped(i)
  <2>1. executing = i
    BY <1>1, <1>5 DEF Succeeds, Fails, LockSkipped, Active
  <2>2. ASSUME Succeeds(i) PROVE BeforeReported' /\ JoinedWaits' /\ FreshCovers'
    <3>1. /\ indexed \subseteq indexed' /\ reported' = reported /\ AnswerJoined(i, "fresh")
          /\ phase[i] = "tail" \/ (phase[i] = "work" /\ taken[i] \subseteq indexed')
      BY <2>2 DEF Succeeds, Indexes
    <3>2. QED  BY <2>1, <3>1, JoinedLearn
  <2>3. ASSUME Fails(i) \/ LockSkipped(i) PROVE BeforeReported' /\ JoinedWaits' /\ FreshCovers'
    <3>1. indexed' = indexed /\ reported' = reported /\ AnswerJoined(i, "stale")
      BY <2>3 DEF Fails, LockSkipped, dataVars
    <3>2. QED  BY <2>1, <3>1, JoinedLearn
  <2>4. QueueEarly'
    BY <1>5, <2>1 DEF Succeeds, Fails, LockSkipped, Over, QueueEarly
  <2>5. QED  BY <1>5, <2>2, <2>3, <2>4 DEF ReadersOK
<1>6. QED  BY <1>2, <1>3, <1>4, <1>5 DEF PassStep

LEMMA CallOK == ASSUME ReadInv, NEW r \in Readers, Call(r) PROVE ReadersOK'
<1>. USE RunAssumption DEF ReadInv, ReadersOK, ChangesInv, PassInv, TypeOK
<1>1. QueueEarly'
  BY DEF Call, Event, QueueEarly
<1>2. /\ before' = [before EXCEPT ![r] = reported]
      /\ late' = [late EXCEPT ![r] = executing # NoRun /\ phase[executing] = "work"]
      /\ UNCHANGED <<indexed, reported, taken>>
  BY DEF Call, StartDelta, Execute, dataVars, passVars
<1>3. BeforeReported'
  BY <1>2 DEF BeforeReported
<1>4. CASE /\ Answer(r, "stale") \/ (Answer(r, "fresh") /\ reported \subseteq indexed)
           /\ UNCHANGED <<executing, phase>>
  <2>1. JoinedWaits'
    BY <1>2, <1>4 DEF Answer, JoinedWaits
  <2>2. FreshCovers'
    BY <1>2, <1>4 DEF Answer, FreshCovers
  <2>3. QED  BY <1>1, <1>3, <2>1, <2>2
<1>5. CASE executing = NoRun /\ StartDelta(r)
  <2>1. PICK i \in Runs : Execute(i, "delta") /\ Join(r, i)
    BY <1>5 DEF StartDelta
  <2>2. JoinedWaits'
    BY <1>2, <1>5, <2>1 DEF Execute, Join, JoinedWaits
  <2>3. FreshCovers'
    BY <1>2, <2>1 DEF Join, FreshCovers
  <2>4. QED  BY <1>1, <1>3, <2>2, <2>3
<1>6. CASE /\ executing # NoRun /\ phase[executing] \in {"lock", "work"} /\ Join(r, executing)
           /\ UNCHANGED <<executing, phase>>
  <2>1. JoinedWaits'
    <3>1. ASSUME NEW s \in Readers, s # r PROVE UNCHANGED <<reader[s], joined[s], before[s], late[s]>>
      BY <1>2, <1>6, <3>1 DEF Join
    <3>2. reader'[r] = "joined" /\ joined'[r] = executing
      BY <1>6 DEF Join
    <3>3. phase[executing] = "work" => late'[r]
      BY <1>2, <1>6
    <3>4. QED  BY <1>2, <1>6, <3>1, <3>2, <3>3 DEF JoinedWaits
  <2>2. FreshCovers'
    BY <1>2, <1>6 DEF Join, FreshCovers
  <2>3. QED  BY <1>1, <1>3, <2>1, <2>2
<1>7. CASE reader' = [reader EXCEPT ![r] = "behind"] /\ UNCHANGED <<executing, phase, joined, answer>>
  <2>1. JoinedWaits'
    BY <1>2, <1>7 DEF JoinedWaits
  <2>2. FreshCovers'
    BY <1>2, <1>7 DEF FreshCovers
  <2>3. QED  BY <1>1, <1>3, <2>1, <2>2
<1>8. dirty = {} /\ (executing = NoRun \/ phase[executing] = "tail") => reported \subseteq indexed
  BY AllIndexed
<1>9. QED
  BY <1>4, <1>5, <1>6, <1>7, <1>8 DEF Call, MustFollow, passVars

LEMMA ResumesOK == ASSUME ReadInv, NEW r \in Readers, ReaderResumes(r) PROVE ReadersOK'
<1>. USE RunAssumption DEF ReadInv, ReadersOK, ChangesInv, PassInv, TypeOK
<1>1. ready # <<>> /\ UNCHANGED <<before, late, indexed, reported>>
  BY DEF ReaderResumes, dataVars
<1>2. CASE Answer(r, "stale") /\ UNCHANGED passVars
  <2>1. QueueEarly' /\ BeforeReported'
    BY <1>1, <1>2 DEF QueueEarly, BeforeReported, passVars
  <2>2. JoinedWaits'
    BY <1>1, <1>2 DEF Answer, JoinedWaits, passVars
  <2>3. FreshCovers'
    BY <1>1, <1>2 DEF Answer, FreshCovers
  <2>4. QED  BY <2>1, <2>2, <2>3
<1>3. CASE executing # NoRun /\ Join(r, executing) /\ UNCHANGED passVars
  <2>1. QueueEarly' /\ BeforeReported'
    BY <1>1, <1>3 DEF QueueEarly, BeforeReported, passVars
  <2>2. phase[executing] = "lock"
    BY <1>1, <1>3 DEF QueueEarly
  <2>3. JoinedWaits'
    BY <1>1, <1>3, <2>2 DEF Join, JoinedWaits, passVars
  <2>4. FreshCovers'
    BY <1>1, <1>3 DEF Join, FreshCovers
  <2>5. QED  BY <2>1, <2>3, <2>4
<1>4. CASE executing = NoRun /\ StartDelta(r)
  <2>1. PICK i \in Runs : Execute(i, "delta") /\ Join(r, i)
    BY <1>4 DEF StartDelta
  <2>2. QueueEarly' /\ BeforeReported'
    BY <1>1, <1>4, <2>1 DEF QueueEarly, BeforeReported, Execute
  <2>3. JoinedWaits'
    BY <1>1, <1>4, <2>1 DEF Execute, Join, JoinedWaits
  <2>4. FreshCovers'
    BY <1>1, <2>1 DEF Join, FreshCovers
  <2>5. QED  BY <2>2, <2>3, <2>4
<1>5. QED  BY <1>2, <1>3, <1>4 DEF ReaderResumes

LEMMA ExpiresOK == ASSUME ReadInv, NEW r \in Readers, Expires(r) PROVE ReadersOK'
<1>. USE DEF ReadInv, ReadersOK, ChangesInv, PassInv, TypeOK
<1>1. /\ ready' = <<>> /\ Answer(r, "stale")
      /\ UNCHANGED <<executing, phase, taken, before, late, indexed, reported>>
  BY DEF Expires, Event, dataVars
<1>2. QueueEarly' /\ BeforeReported'
  BY <1>1 DEF QueueEarly, BeforeReported
<1>3. JoinedWaits'
  BY <1>1 DEF Answer, JoinedWaits
<1>4. FreshCovers'
  BY <1>1 DEF Answer, FreshCovers
<1>5. QED  BY <1>2, <1>3, <1>4

LEMMA NextReaders == ASSUME ReadInv, [Next]_vars PROVE ReadInv'
<1>1. ChangesInv'
  BY NextChanges DEF ReadInv
<1>2. ASSUME NEW c \in Changes, Report(c) PROVE ReadersOK'
  <2>1. /\ UNCHANGED <<readVars, executing, phase, taken, indexed, ready>>
        /\ reported \subseteq reported'
    BY <1>2 DEF Report, passVars
  <2>2. QED  BY <2>1 DEF ReadInv, ReadersOK, QueueEarly, BeforeReported, JoinedWaits, FreshCovers, readVars
<1>3. ASSUME Trigger \/ Close \/ CloseEnds \/ OtherLocks \/ OtherUnlocks \/ UNCHANGED vars PROVE ReadersOK'
  BY <1>3, ReadersUntouched DEF Trigger, Close, CloseEnds, OtherLocks, OtherUnlocks, vars, passVars, dataVars
<1>4. ASSUME DrainStep PROVE ReadersOK'
  <2>1. ASSUME StartFull PROVE (Starts \/ UNCHANGED <<executing, phase>>) /\ UNCHANGED taken
    BY <2>1 DEF StartFull, Starts, Execute, passVars
  <2>2. /\ Starts \/ UNCHANGED <<executing, phase>>
        /\ UNCHANGED <<readVars, taken, dataVars>>
        /\ ready' # <<>> => ready # <<>>
    BY <1>4, <2>1 DEF DrainStep, WindowEnds, GateHolds, GatePauseEnds, GateOpens, BackoffEnds, DrainResumes, passVars
  <2>3. QED  BY <2>2, ReadersUntouched DEF dataVars
<1>5. QED
  BY <1>1, <1>2, <1>3, <1>4, PassReaders, CallOK, ResumesOK, ExpiresOK DEF Next, ReadInv

\* A reader told "fresh" reads every change reported before it asked, unless it joined
\* a pass that had drained the dirty set already.
THEOREM FreshIsTrue == Spec => []FreshCovers
<1>1. ReadInv /\ [Next]_vars => ReadInv'
  BY NextReaders
<1>2. ReadInv => FreshCovers
  BY DEF ReadInv, ReadersOK
<1>3. QED  BY InitReaders, <1>1, <1>2, PTL DEF Spec

=============================================================================
