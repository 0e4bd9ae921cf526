---------------------------- MODULE BatchProofs ----------------------------
(***************************************************************************)
(* The jobs that run beside everything else.                               *)
(*                                                                         *)
(* Whatever hooks of any number of peers run beside each other and die, a  *)
(* peer is recorded once, if it was known, and under its own parent.  A    *)
(* context appears once, when on_spawn ends, and goes once, when the first *)
(* on_complete that runs on removes it: what a hook holds tells what the   *)
(* file can still become.                                                  *)
(*                                                                         *)
(* Wherever migrations are killed, nothing of an initiative is lost on the *)
(* way: each step leaves what the rest of its chain still needs.           *)
(***************************************************************************)
EXTENDS Migrations, AgentHooks, FiniteSetTheorems, TLAPS

----------------------------------------------------------------------------
(* Agent hooks: the inductive invariant.                                    *)

Sessions == {Session(q) : q \in Peers}
Contexts == [slugs : SUBSET Parsed, session : Sessions, parent : SUBSET Sessions]

HookTypes ==
  /\ agent \in [Peers -> [at : {"absent", "running", "exited"}, parent : Peers \cup {Human}, cwd : Cwds]]
  /\ contexts \in [Peers -> SUBSET Contexts]
  /\ spawnHook \in [Peers ->
       [at : {"idle", "called", "peeked", "stashed", "unmatched", "dead"}, parent : SUBSET Sessions]]
  /\ endHook \in [Peers -> [Ends ->
       [at : {"idle", "called", "read", "taken", "unknown", "recorded", "dead"}, context : SUBSET Contexts]]]
  /\ seen \in [Peers -> [matched : BOOLEAN, parent : BOOLEAN, overlap : BOOLEAN]]
  /\ \A r \in recorded : r.peer \in Peers /\ r.by \in Ends

Unseen(p) == ~seen[p].matched /\ ~seen[p].parent /\ ~seen[p].overlap

\* When the context of a peer is there, and when it can be held.
Timely(p) ==
  /\ agent[p].at = "absent" => spawnHook[p].at = "idle" /\ Unseen(p)
  /\ agent[p].at # "exited" => ~seen[p].matched /\ \A n \in Ends : endHook[p][n].at = "idle"
  /\ agent[p].at = "running" /\ Stashed(p) => contexts[p] # {}
  /\ contexts[p] # {} => Stashed(p)
  /\ \A n \in Ends :
       /\ endHook[p][n].context # {} => endHook[p][n].at \in {"read", "taken"} /\ Stashed(p)
       /\ endHook[p][n].at = "taken" => endHook[p][n].context # {}
       /\ endHook[p][n].at \in {"taken", "recorded"} => contexts[p] = {} /\ Stashed(p)

\* What may be said of the parent of p.
Right(p, parent) ==
  LET q == agent[p].parent IN
  /\ parent \subseteq {Session(q)}
  /\ q = Human => parent = {}
  /\ seen[p].parent => parent = {Session(q)}

Rightly(p) ==
  /\ seen[p].parent => agent[p].parent \in Peers
  /\ seen[p].parent /\ spawnHook[p].at = "called" =>
       agent[agent[p].parent].at = "running" /\ Stashed(agent[p].parent)
  /\ spawnHook[p].at = "peeked" => Right(p, spawnHook[p].parent)
  /\ \A c \in contexts[p] : c.session = Session(p) /\ Right(p, c.parent)
  /\ \A n \in Ends : \A c \in endHook[p][n].context : c.session = Session(p) /\ Right(p, c.parent)

\* Of two calls of on_complete that do not overlap one holds the context.
Holds(p, n) == endHook[p][n].context # {} \/ endHook[p][n].at = "recorded"
Once(p) ==
  ~seen[p].overlap =>
    /\ \A m, n \in Running(p) : m = n
    /\ \A m, n \in Ends : Holds(p, m) /\ Holds(p, n) => m = n

\* A context that was there at the exit is there until one call has it for good.
Owes(p) ==
  seen[p].matched =>
    /\ Stashed(p)
    /\ \/ /\ contexts[p] # {}
          /\ \A n \in Ends :
               \/ endHook[p][n].at \in {"idle", "called", "dead"}
               \/ endHook[p][n].at = "read" /\ endHook[p][n].context # {}
       \/ \E n \in Ends : endHook[p][n].at \in {"taken", "dead", "recorded"}

PeersInv == \A p \in Peers : Timely(p) /\ Rightly(p) /\ Once(p) /\ Owes(p)

RecordsInv ==
  /\ \A r \in recorded :
       /\ endHook[r.peer][r.by].at = "recorded"
       /\ r.session = Session(r.peer) /\ Right(r.peer, r.parent)
  /\ \A r, s \in recorded : r.peer = s.peer /\ r.by = s.by => r = s
  /\ \A p \in Peers, n \in Ends :
       endHook[p][n].at = "recorded" => \E r \in recorded : r.peer = p /\ r.by = n

HooksInv == HookTypes /\ PeersInv /\ RecordsInv

----------------------------------------------------------------------------

LEMMA InitHooks == HooksInit => HooksInv
<1>. SUFFICES ASSUME HooksInit PROVE HooksInv
  OBVIOUS
<1>1. (CHOOSE c \in Cwds : TRUE) \in Cwds
  BY HooksAssumption
<1>2. HookTypes
  BY <1>1 DEF HooksInit, HookTypes, NothingSeen
<1>3. PeersInv
  BY DEF HooksInit, PeersInv, Timely, Unseen, Rightly, Once, Owes, Holds, Running, Stashed, NothingSeen
<1>4. RecordsInv
  BY DEF HooksInit, RecordsInv
<1>5. QED  BY <1>2, <1>3, <1>4 DEF HooksInv

\* A step that leaves a peer's own state alone keeps what is said of the peer, unless it
\* takes back what the peer saw, or its parent from beside it.
Own(p) == <<agent[p], contexts[p], spawnHook[p], endHook[p], seen[p]>>

LEMMA Others ==
  ASSUME HooksInv, HookTypes', NEW p \in Peers, UNCHANGED Own(p),
         seen[p].parent /\ spawnHook[p].at = "called" =>
           agent[agent[p].parent]'.at = "running" /\ spawnHook[agent[p].parent]'.at = "stashed"
  PROVE  (Timely(p) /\ Rightly(p) /\ Once(p) /\ Owes(p))'
<1>1. /\ agent'[p] = agent[p] /\ contexts'[p] = contexts[p] /\ spawnHook'[p] = spawnHook[p]
      /\ endHook'[p] = endHook[p] /\ seen'[p] = seen[p]
  BY DEF Own
<1>2. Timely(p) /\ Rightly(p) /\ Once(p) /\ Owes(p)
  BY DEF HooksInv, PeersInv
<1>3. Timely(p)'
  BY <1>1, <1>2 DEF Timely, Unseen, Stashed
<1>4. Rightly(p)'
  BY <1>1, <1>2 DEF Rightly, Right, Stashed
<1>5. Once(p)'
  BY <1>1, <1>2 DEF Once, Running, Holds
<1>6. Owes(p)'
  BY <1>1, <1>2 DEF Owes, Stashed
<1>7. QED  BY <1>3, <1>4, <1>5, <1>6

\* The records stay right as long as nothing is unsaid and no peer gets another parent.
LEMMA RecordsStay ==
  ASSUME HooksInv, HookTypes', UNCHANGED recorded,
         \A p \in Peers : /\ agent[p].at # "absent" => agent'[p].parent = agent[p].parent
                          /\ agent[p].at # "absent" /\ seen'[p].parent => seen[p].parent
                          /\ \A n \in Ends : endHook[p][n].at = "recorded" <=> endHook'[p][n].at = "recorded"
  PROVE  RecordsInv'
<1>1. RecordsInv /\ HookTypes /\ \A p \in Peers : Timely(p)
  BY DEF HooksInv, PeersInv
<1>2. ASSUME NEW r \in recorded
      PROVE  /\ endHook'[r.peer][r.by].at = "recorded"
             /\ r.session = Session(r.peer) /\ Right(r.peer, r.parent)'
  <2>1. r.peer \in Peers /\ r.by \in Ends
    BY <1>1 DEF HookTypes
  <2>2. agent[r.peer].at # "absent"
    BY <1>1, <2>1 DEF Timely, RecordsInv
  <2>3. QED  BY <1>1, <2>1, <2>2 DEF RecordsInv, Right
<1>3. QED  BY <1>1, <1>2 DEF RecordsInv

LEMMA SpawnHooks == ASSUME HooksInv, NEW p \in Peers, Spawn(p) PROVE HooksInv'
<1>1. PICK q \in Peers \cup {Human}, cwd \in Cwds :
        /\ q # Human => agent[q].at = "running"
        /\ agent' = [agent EXCEPT ![p] = [at |-> "running", parent |-> q, cwd |-> cwd]]
        /\ seen' = [seen EXCEPT ![p].parent = q # Human /\ Stashed(q)]
  BY DEF Spawn
<1>2. /\ agent[p].at = "absent" /\ spawnHook' = [spawnHook EXCEPT ![p].at = "called"]
      /\ UNCHANGED <<contexts, endHook, recorded>>
  BY DEF Spawn
<1>3. HookTypes /\ \A r \in Peers : Timely(r) /\ Rightly(r)
  BY DEF HooksInv, PeersInv
<1>4. HookTypes'
  <2>1. agent' \in [Peers -> [at : {"absent", "running", "exited"}, parent : Peers \cup {Human}, cwd : Cwds]]
    BY <1>1, <1>3 DEF HookTypes
  <2>2. (q # Human /\ Stashed(q)) \in BOOLEAN
    BY DEF Stashed
  <2>3. seen' \in [Peers -> [matched : BOOLEAN, parent : BOOLEAN, overlap : BOOLEAN]]
    BY <1>1, <1>3, <2>2 DEF HookTypes
  <2>4. spawnHook \in [Peers ->
          [at : {"idle", "called", "peeked", "stashed", "unmatched", "dead"}, parent : SUBSET Sessions]]
    BY <1>3 DEF HookTypes
  <2>5. spawnHook' \in [Peers ->
          [at : {"idle", "called", "peeked", "stashed", "unmatched", "dead"}, parent : SUBSET Sessions]]
    BY <1>2, <2>4
  <2>6. QED  BY <1>2, <1>3, <2>1, <2>3, <2>5 DEF HookTypes
<1>5. ASSUME NEW r \in Peers \ {p} PROVE (Timely(r) /\ Rightly(r) /\ Once(r) /\ Owes(r))'
  <2>1. UNCHANGED Own(r)
    BY <1>1, <1>2, <1>3 DEF Own, HookTypes
  <2>2. seen[r].parent /\ spawnHook[r].at = "called" =>
          /\ agent[agent[r].parent].at = "running" /\ spawnHook[agent[r].parent].at = "stashed"
          /\ agent[r].parent \in Peers
    BY <1>3 DEF Rightly, Stashed
  <2>3. seen[r].parent /\ spawnHook[r].at = "called" =>
          agent[agent[r].parent]'.at = "running" /\ spawnHook[agent[r].parent]'.at = "stashed"
    BY <1>1, <1>2, <1>3, <2>1, <2>2 DEF HookTypes, Own
  <2>4. QED  BY <1>4, <2>1, <2>3, Others
<1>6. /\ contexts[p] = {} /\ ~seen[p].matched /\ ~seen[p].overlap
      /\ \A n \in Ends : endHook[p][n].at = "idle" /\ endHook[p][n].context = {}
  BY <1>2, <1>3 DEF Timely, Unseen, Stashed
<1>7. /\ agent'[p] = [at |-> "running", parent |-> q, cwd |-> cwd] /\ spawnHook'[p].at = "called"
      /\ agent'[p].parent = q /\ contexts'[p] = {} /\ endHook'[p] = endHook[p]
      /\ ~seen'[p].matched /\ ~seen'[p].overlap /\ (seen'[p].parent <=> q # Human /\ Stashed(q))
  <2>1. seen'[p] = [seen[p] EXCEPT !.parent = q # Human /\ Stashed(q)]
    BY <1>1, <1>3 DEF HookTypes
  <2>2. seen[p] \in [matched : BOOLEAN, parent : BOOLEAN, overlap : BOOLEAN]
    BY <1>3 DEF HookTypes
  <2>3. seen'[p].matched = seen[p].matched /\ seen'[p].overlap = seen[p].overlap
    BY <2>1, <2>2
  <2>4. seen'[p].parent <=> q # Human /\ Stashed(q)
    BY <2>1, <2>2
  <2>5. agent'[p] = [at |-> "running", parent |-> q, cwd |-> cwd] /\ spawnHook'[p].at = "called"
    BY <1>1, <1>2, <1>3 DEF HookTypes
  <2>6. QED  BY <1>2, <1>6, <2>3, <2>4, <2>5
<1>8. Timely(p)'
  BY <1>6, <1>7 DEF Timely, Unseen, Stashed
<1>9. Rightly(p)'
  <2>1. q # Human => q # p /\ q \in Peers /\ agent'[q] = agent[q] /\ spawnHook'[q] = spawnHook[q]
    BY <1>1, <1>2, <1>3 DEF HookTypes
  <2>2. seen'[p].parent => /\ agent'[p].parent \in Peers /\ agent'[agent'[p].parent].at = "running"
                           /\ spawnHook'[agent'[p].parent].at = "stashed"
    BY <1>1, <1>7, <2>1 DEF Stashed
  <2>3. QED  BY <1>6, <1>7, <2>2 DEF Rightly, Stashed
<1>10. Once(p)' /\ Owes(p)'
  BY <1>6, <1>7 DEF Once, Owes, Running, Holds
<1>11. RecordsInv'
  BY <1>1, <1>2, <1>3, <1>4, RecordsStay DEF HookTypes
<1>12. QED  BY <1>4, <1>5, <1>8, <1>9, <1>10, <1>11 DEF HooksInv, PeersInv

LEMMA ExitHooks == ASSUME HooksInv, NEW p \in Peers, Exit(p) PROVE HooksInv'
<1>1. /\ agent[p].at = "running" /\ agent' = [agent EXCEPT ![p].at = "exited"]
      /\ UNCHANGED <<contexts, spawnHook, endHook, recorded>>
  BY DEF Exit
<1>2. seen' = [q \in Peers |->
                 IF q = p THEN [seen[q] EXCEPT !.matched = Stashed(p)]
                 ELSE [seen[q] EXCEPT !.parent = @ /\ (agent[q].parent = p => Stashed(q))]]
  BY DEF Exit
<1>3. HookTypes /\ \A q \in Peers : Timely(q) /\ Rightly(q) /\ Once(q) /\ Owes(q)
  BY DEF HooksInv, PeersInv
<1>4. \A q \in Peers :
        /\ agent'[q].parent = agent[q].parent
        /\ agent'[q].at = IF q = p THEN "exited" ELSE agent[q].at
        /\ seen'[q].parent => seen[q].parent /\ (q # p /\ agent[q].parent = p => Stashed(q))
        /\ seen'[q].overlap <=> seen[q].overlap
        /\ seen'[q].matched => IF q = p THEN Stashed(p) ELSE seen[q].matched
  <2>1. TAKE q \in Peers
  <2>2. agent'[q].parent = agent[q].parent /\ agent'[q].at = IF q = p THEN "exited" ELSE agent[q].at
    BY <1>1, <1>3 DEF HookTypes
  <2>3. seen[q] \in [matched : BOOLEAN, parent : BOOLEAN, overlap : BOOLEAN]
    BY <1>3 DEF HookTypes
  <2>4. CASE q = p
    <3>1. seen'[q] = [seen[q] EXCEPT !.matched = Stashed(p)]
      BY <1>2, <2>4
    <3>2. QED  BY <2>2, <2>3, <2>4, <3>1
  <2>5. CASE q # p
    <3>1. seen'[q] = [seen[q] EXCEPT !.parent = @ /\ (agent[q].parent = p => Stashed(q))]
      BY <1>2, <2>5
    <3>2. QED  BY <2>2, <2>3, <2>5, <3>1
  <2>6. QED  BY <2>4, <2>5
<1>5. HookTypes'
  <2>1. \A q \in Peers : seen'[q] \in [matched : BOOLEAN, parent : BOOLEAN, overlap : BOOLEAN]
    BY <1>2, <1>3 DEF HookTypes, Stashed
  <2>2. seen' \in [Peers -> [matched : BOOLEAN, parent : BOOLEAN, overlap : BOOLEAN]]
    BY <1>2, <2>1
  <2>3. agent \in [Peers -> [at : {"absent", "running", "exited"}, parent : Peers \cup {Human}, cwd : Cwds]]
    BY <1>3 DEF HookTypes
  <2>4. agent' \in [Peers -> [at : {"absent", "running", "exited"}, parent : Peers \cup {Human}, cwd : Cwds]]
    BY <1>1, <2>3
  <2>5. QED  BY <1>1, <1>3, <2>2, <2>4 DEF HookTypes
<1>6. ASSUME NEW q \in Peers PROVE Timely(q)'
  <2>1. Timely(q) /\ Timely(p)
    BY <1>3
  <2>2. CASE q = p
    BY <1>1, <1>4, <2>1, <2>2 DEF Timely, Unseen, Stashed
  <2>3. CASE q # p
    BY <1>1, <1>4, <2>1, <2>3 DEF Timely, Unseen, Stashed
  <2>4. QED  BY <2>2, <2>3
<1>7. ASSUME NEW q \in Peers PROVE Rightly(q)'
  <2>1. agent'[q].parent = agent[q].parent
    BY <1>3, <1>4 DEF HookTypes
  <2>2. \A parent : Right(q, parent) => Right(q, parent)'
    BY <1>4, <2>1 DEF Right
  <2>3. seen'[q].parent => agent'[q].parent \in Peers
    BY <1>3, <1>4, <2>1 DEF Rightly
  <2>4. ASSUME seen'[q].parent, spawnHook[q].at = "called"
        PROVE  agent'[agent'[q].parent].at = "running" /\ spawnHook[agent'[q].parent].at = "stashed"
    <3>1. /\ seen[q].parent /\ agent[q].parent \in Peers
          /\ agent[agent[q].parent].at = "running" /\ spawnHook[agent[q].parent].at = "stashed"
      BY <1>3, <1>4, <2>4 DEF Rightly, Stashed
    <3>2. agent[q].parent # p
      BY <1>4, <2>4, <3>1 DEF Stashed
    <3>3. QED  BY <1>4, <2>1, <3>1, <3>2
  <2>5. QED  BY <1>1, <1>3, <2>2, <2>3, <2>4 DEF Rightly, Stashed
<1>8. ASSUME NEW q \in Peers PROVE Once(q)'
  <2>1. Once(q) /\ (seen'[q].overlap <=> seen[q].overlap)
    BY <1>3, <1>4
  <2>2. QED  BY <1>1, <2>1 DEF Once, Running, Holds
<1>9. ASSUME NEW q \in Peers PROVE Owes(q)'
  <2>1. Owes(q) /\ Timely(p)
    BY <1>3
  <2>2. CASE q = p
    BY <1>1, <1>4, <2>1, <2>2 DEF Owes, Stashed, Timely
  <2>3. CASE q # p
    BY <1>1, <1>4, <2>1, <2>3 DEF Owes, Stashed
  <2>4. QED  BY <2>2, <2>3
<1>10. RecordsInv'
  <2>1. \A q \in Peers : agent'[q].parent = agent[q].parent /\ (seen'[q].parent => seen[q].parent)
    BY <1>4
  <2>2. QED  BY <1>1, <1>5, <2>1, RecordsStay
<1>11. QED  BY <1>5, <1>6, <1>7, <1>8, <1>9, <1>10 DEF HooksInv, PeersInv

LEMMA ReportHooks == ASSUME HooksInv, NEW p \in Peers, Report(p) PROVE HooksInv'
<1>1. PICK n \in Ends : endHook[p][n].at = "idle" /\ endHook' = [endHook EXCEPT ![p][n].at = "called"]
  BY DEF Report
<1>2. /\ agent[p].at = "exited" /\ seen' = [seen EXCEPT ![p].overlap = @ \/ Running(p) # {}]
      /\ UNCHANGED <<agent, contexts, spawnHook, recorded>>
  BY DEF Report
<1>3. HookTypes /\ \A q \in Peers : Timely(q) /\ Rightly(q) /\ Once(q) /\ Owes(q)
  BY DEF HooksInv, PeersInv
<1>4. HookTypes'
  <2>1. (seen[p].overlap \/ Running(p) # {}) \in BOOLEAN
    BY <1>3 DEF HookTypes
  <2>2. seen' \in [Peers -> [matched : BOOLEAN, parent : BOOLEAN, overlap : BOOLEAN]]
    BY <1>2, <1>3, <2>1 DEF HookTypes
  <2>3. [endHook[p][n] EXCEPT !.at = "called"] = [at |-> "called", context |-> endHook[p][n].context]
    <3>1. endHook[p][n] \in
            [at : {"idle", "called", "read", "taken", "unknown", "recorded", "dead"}, context : SUBSET Contexts]
      BY <1>3 DEF HookTypes
    <3>2. QED  BY <3>1
  <2>4. endHook' \in [Peers -> [Ends ->
          [at : {"idle", "called", "read", "taken", "unknown", "recorded", "dead"}, context : SUBSET Contexts]]]
    BY <1>1, <1>3, <2>3 DEF HookTypes
  <2>5. QED  BY <1>2, <1>3, <2>2, <2>4 DEF HookTypes
<1>5. \A q \in Peers : /\ seen'[q].matched = seen[q].matched /\ seen'[q].parent = seen[q].parent
                       /\ q # p => seen'[q] = seen[q] /\ endHook'[q] = endHook[q]
  BY <1>1, <1>2, <1>3 DEF HookTypes
<1>6. /\ endHook'[p][n].at = "called" /\ endHook'[p][n].context = endHook[p][n].context
      /\ \A m \in Ends \ {n} : endHook'[p][m] = endHook[p][m]
      /\ seen'[p].overlap = (seen[p].overlap \/ Running(p) # {})
  BY <1>1, <1>2, <1>3 DEF HookTypes
<1>7. ASSUME NEW q \in Peers \ {p} PROVE (Timely(q) /\ Rightly(q) /\ Once(q) /\ Owes(q))'
  <2>1. UNCHANGED Own(q)
    BY <1>2, <1>5 DEF Own
  <2>2. QED  BY <1>2, <1>3, <1>4, <2>1, Others DEF Rightly, Stashed
<1>8. Timely(p)'
  BY <1>1, <1>2, <1>3, <1>5, <1>6 DEF Timely, Unseen, Stashed
<1>9. Rightly(p)'
  BY <1>1, <1>2, <1>3, <1>5, <1>6 DEF Rightly, Right, Stashed
<1>10. Once(p)'
  <2>1. ASSUME ~seen'[p].overlap PROVE \A m \in Ends \ {n} : m \notin Running(p)'
    BY <1>6, <2>1 DEF Running
  <2>2. \A m \in Ends : Holds(p, m)' => Holds(p, m)
    BY <1>1, <1>6 DEF Holds
  <2>3. QED  BY <1>3, <1>6, <2>1, <2>2 DEF Once, Running
<1>11. Owes(p)'
  BY <1>1, <1>2, <1>3, <1>5, <1>6 DEF Owes, Stashed
<1>12. RecordsInv'
  <2>1. \A q \in Peers, m \in Ends : endHook[q][m].at = "recorded" <=> endHook'[q][m].at = "recorded"
    BY <1>1, <1>5, <1>6
  <2>2. QED  BY <1>2, <1>4, <1>5, <2>1, RecordsStay
<1>13. QED  BY <1>4, <1>7, <1>8, <1>9, <1>10, <1>11, <1>12 DEF HooksInv, PeersInv

LEMMA ParentKnown ==
  ASSUME HooksInv, NEW p \in Peers, spawnHook[p].at = "called"
  PROVE  ParentSession(p) \subseteq Sessions /\ Right(p, ParentSession(p))
<1>1. HookTypes /\ \A q \in Peers : Timely(q) /\ Rightly(q)
  BY DEF HooksInv, PeersInv
<1>2. CASE agent[p].parent = Human
  BY <1>1, <1>2, HooksAssumption DEF ParentSession, Right, Rightly
<1>3. CASE agent[p].parent # Human
  <2>1. agent[p].parent \in Peers
    BY <1>1, <1>3 DEF HookTypes
  <2>2. ParentSession(p) = {c.session : c \in contexts[agent[p].parent]}
    BY <1>3 DEF ParentSession
  <2>3. \A c \in contexts[agent[p].parent] : c.session = Session(agent[p].parent)
    BY <1>1, <2>1 DEF Rightly
  <2>4. ParentSession(p) \subseteq {Session(agent[p].parent)}
    BY <2>2, <2>3
  <2>5. seen[p].parent => contexts[agent[p].parent] # {}
    BY <1>1, <2>1 DEF Rightly, Timely
  <2>6. QED  BY <1>3, <2>1, <2>2, <2>4, <2>5 DEF Right, Sessions
<1>4. QED  BY <1>2, <1>3

\* What a read that may fail takes back from what was seen of a peer.
LEMMA LessSeen ==
  ASSUME HookTypes, NEW p \in Peers, NEW read \in BOOLEAN
  PROVE  /\ seen' = [seen EXCEPT ![p].parent = @ /\ read] =>
              /\ seen'[p].matched = seen[p].matched /\ seen'[p].overlap = seen[p].overlap
              /\ seen'[p].parent <=> (seen[p].parent /\ read)
              /\ \A q \in Peers \ {p} : seen'[q] = seen[q]
              /\ seen' \in [Peers -> [matched : BOOLEAN, parent : BOOLEAN, overlap : BOOLEAN]]
         /\ seen' = [seen EXCEPT ![p].matched = @ /\ read] =>
              /\ seen'[p].parent = seen[p].parent /\ seen'[p].overlap = seen[p].overlap
              /\ seen'[p].matched <=> (seen[p].matched /\ read)
              /\ \A q \in Peers \ {p} : seen'[q] = seen[q]
              /\ seen' \in [Peers -> [matched : BOOLEAN, parent : BOOLEAN, overlap : BOOLEAN]]
<1>1. seen[p] \in [matched : BOOLEAN, parent : BOOLEAN, overlap : BOOLEAN]
  BY DEF HookTypes
<1>2. /\ (seen[p].parent /\ read) \in BOOLEAN
      /\ (seen[p].matched /\ read) \in BOOLEAN
  OBVIOUS
<1>3. ASSUME NEW less \in [matched : BOOLEAN, parent : BOOLEAN, overlap : BOOLEAN],
             seen' = [seen EXCEPT ![p] = less]
      PROVE  /\ seen'[p] = less /\ \A q \in Peers \ {p} : seen'[q] = seen[q]
             /\ seen' \in [Peers -> [matched : BOOLEAN, parent : BOOLEAN, overlap : BOOLEAN]]
  BY <1>3 DEF HookTypes
<1>4. ASSUME seen' = [seen EXCEPT ![p].parent = @ /\ read]
      PROVE  /\ seen'[p].matched = seen[p].matched /\ seen'[p].overlap = seen[p].overlap
             /\ seen'[p].parent <=> (seen[p].parent /\ read)
             /\ \A q \in Peers \ {p} : seen'[q] = seen[q]
             /\ seen' \in [Peers -> [matched : BOOLEAN, parent : BOOLEAN, overlap : BOOLEAN]]
  <2>. DEFINE less == [seen[p] EXCEPT !.parent = seen[p].parent /\ read]
  <2>1. less \in [matched : BOOLEAN, parent : BOOLEAN, overlap : BOOLEAN]
    BY <1>1, <1>2
  <2>2. less.matched = seen[p].matched /\ less.overlap = seen[p].overlap
    BY <1>1
  <2>3. less.parent <=> (seen[p].parent /\ read)
    BY <1>1
  <2>4. seen' = [seen EXCEPT ![p] = less]
    BY <1>4
  <2>. HIDE DEF less
  <2>5. QED  BY <1>3, <2>1, <2>2, <2>3, <2>4
<1>5. ASSUME seen' = [seen EXCEPT ![p].matched = @ /\ read]
      PROVE  /\ seen'[p].parent = seen[p].parent /\ seen'[p].overlap = seen[p].overlap
             /\ seen'[p].matched <=> (seen[p].matched /\ read)
             /\ \A q \in Peers \ {p} : seen'[q] = seen[q]
             /\ seen' \in [Peers -> [matched : BOOLEAN, parent : BOOLEAN, overlap : BOOLEAN]]
  <2>. DEFINE less == [seen[p] EXCEPT !.matched = seen[p].matched /\ read]
  <2>1. less \in [matched : BOOLEAN, parent : BOOLEAN, overlap : BOOLEAN]
    BY <1>1, <1>2
  <2>2. less.parent = seen[p].parent /\ less.overlap = seen[p].overlap
    BY <1>1
  <2>3. less.matched <=> (seen[p].matched /\ read)
    BY <1>1
  <2>4. seen' = [seen EXCEPT ![p] = less]
    BY <1>5
  <2>. HIDE DEF less
  <2>5. QED  BY <1>3, <2>1, <2>2, <2>3, <2>4
<1>6. QED  BY <1>4, <1>5

LEMMA PeekHooks == ASSUME HooksInv, NEW p \in Peers, PeekParent(p) PROVE HooksInv'
<1>1. PICK parent \in {ParentSession(p), {}} :
        /\ spawnHook' =
             [spawnHook EXCEPT ![p] =
                IF Resolve(agent[p].cwd) = {} THEN [at |-> "unmatched", parent |-> {}]
                ELSE [at |-> "peeked", parent |-> parent]]
        /\ seen' = [seen EXCEPT ![p].parent = @ /\ parent = ParentSession(p)]
  BY DEF PeekParent
<1>2. spawnHook[p].at = "called" /\ UNCHANGED <<agent, contexts, endHook, recorded>>
  BY DEF PeekParent
<1>3. HookTypes /\ \A q \in Peers : Timely(q) /\ Rightly(q) /\ Once(q) /\ Owes(q)
  BY DEF HooksInv, PeersInv
<1>12. parent \subseteq Sessions
  BY <1>1, <1>2, ParentKnown
<1>13. \E hook \in {[at |-> "unmatched", parent |-> {}], [at |-> "peeked", parent |-> parent]} :
         spawnHook' = [spawnHook EXCEPT ![p] = hook]
  BY <1>1
<1>14. PICK hook \in {[at |-> "unmatched", parent |-> {}], [at |-> "peeked", parent |-> parent]} :
         spawnHook' = [spawnHook EXCEPT ![p] = hook]
  BY <1>13
<1>15. /\ seen'[p].matched = seen[p].matched /\ seen'[p].overlap = seen[p].overlap
       /\ seen'[p].parent <=> (seen[p].parent /\ parent = ParentSession(p))
       /\ \A q \in Peers \ {p} : seen'[q] = seen[q]
       /\ seen' \in [Peers -> [matched : BOOLEAN, parent : BOOLEAN, overlap : BOOLEAN]]
  BY <1>1, <1>3, LessSeen
<1>4. HookTypes'
  <2>1. spawnHook' \in [Peers ->
          [at : {"idle", "called", "peeked", "stashed", "unmatched", "dead"}, parent : SUBSET Sessions]]
    BY <1>14, <1>12, <1>3 DEF HookTypes
  <2>2. QED  BY <1>2, <1>3, <1>15, <2>1 DEF HookTypes
<1>5. spawnHook'[p] = hook /\ \A q \in Peers \ {p} : spawnHook'[q] = spawnHook[q]
  BY <1>14, <1>3 DEF HookTypes
<1>6. ASSUME NEW q \in Peers \ {p} PROVE (Timely(q) /\ Rightly(q) /\ Once(q) /\ Owes(q))'
  <2>1. UNCHANGED Own(q)
    BY <1>2, <1>5, <1>15 DEF Own
  <2>2. QED  BY <1>2, <1>3, <1>4, <1>5, <2>1, Others DEF Rightly, Stashed
<1>7. Timely(p)'
  BY <1>14, <1>15, <1>2, <1>3, <1>5 DEF Timely, Unseen, Stashed
<1>8. Rightly(p)'
  <2>1. Right(p, ParentSession(p))
    BY <1>2, ParentKnown
  <2>2. agent'[p] = agent[p] /\ (seen'[p].parent => seen[p].parent /\ parent = ParentSession(p))
    BY <1>2, <1>15
  <2>3. spawnHook'[p].parent = {} \/ spawnHook'[p].parent = ParentSession(p)
    BY <1>1, <1>14, <1>5
  <2>4. spawnHook'[p].at = "peeked" => spawnHook'[p].parent = parent
    BY <1>14, <1>5
  <2>5. (spawnHook[p].at = "peeked" => Right(p, spawnHook[p].parent))'
    BY <2>1, <2>2, <2>3, <2>4 DEF Right
  <2>6. Rightly(p)
    BY <1>3
  <2>7. spawnHook'[p].at \in {"unmatched", "peeked"}
    BY <1>14, <1>5
  <2>8. QED  BY <1>2, <2>2, <2>5, <2>6, <2>7 DEF Rightly, Right
<1>9. Once(p)' /\ Owes(p)'
  BY <1>2, <1>3, <1>5, <1>15 DEF Once, Owes, Running, Holds, Stashed
<1>10. RecordsInv'
  <2>1. \A q \in Peers : seen'[q].parent => seen[q].parent
    BY <1>15
  <2>2. QED  BY <1>2, <1>4, <2>1, RecordsStay
<1>11. QED  BY <1>4, <1>6, <1>7, <1>8, <1>9, <1>10 DEF HooksInv, PeersInv

LEMMA StashHooks == ASSUME HooksInv, NEW p \in Peers, Stash(p) PROVE HooksInv'
<1>. DEFINE context == [slugs |-> Resolve(agent[p].cwd), session |-> Session(p), parent |-> spawnHook[p].parent]
<1>1. /\ contexts' = [contexts EXCEPT ![p] = {context}]
      /\ spawnHook' = [spawnHook EXCEPT ![p] = [at |-> "stashed", parent |-> {}]]
      /\ spawnHook[p].at = "peeked" /\ UNCHANGED <<agent, endHook, recorded, seen>>
  BY DEF Stash
<1>2. HookTypes /\ \A q \in Peers : Timely(q) /\ Rightly(q) /\ Once(q) /\ Owes(q)
  BY DEF HooksInv, PeersInv
<1>3. Resolve(agent[p].cwd) \subseteq Parsed
  BY DEF Resolve
<1>4. context \in Contexts /\ context.session = Session(p) /\ context.parent = spawnHook[p].parent
  BY <1>2, <1>3 DEF HookTypes, Contexts, Sessions
<1>. HIDE DEF context
<1>5. HookTypes'
  BY <1>1, <1>2, <1>4 DEF HookTypes
<1>6. /\ contexts'[p] = {context} /\ spawnHook'[p] = [at |-> "stashed", parent |-> {}]
      /\ \A q \in Peers \ {p} : contexts'[q] = contexts[q] /\ spawnHook'[q] = spawnHook[q]
  BY <1>1, <1>2 DEF HookTypes
<1>7. ASSUME NEW q \in Peers \ {p} PROVE (Timely(q) /\ Rightly(q) /\ Once(q) /\ Owes(q))'
  <2>1. UNCHANGED Own(q)
    BY <1>1, <1>6 DEF Own
  <2>2. QED  BY <1>1, <1>2, <1>5, <1>6, <2>1, Others DEF Rightly, Stashed
<1>8. /\ agent[p].at # "absent" /\ ~seen[p].matched
      /\ \A n \in Ends : endHook[p][n].context = {} /\ endHook[p][n].at \notin {"taken", "recorded"}
  BY <1>1, <1>2 DEF Timely, Stashed, Owes
<1>9. Timely(p)'
  <2>1. Timely(p)
    BY <1>2
  <2>2. QED  BY <1>1, <1>6, <1>8, <2>1 DEF Timely, Unseen, Stashed
<1>10. Rightly(p)'
  <2>1. Right(p, context.parent)
    BY <1>1, <1>2, <1>4 DEF Rightly
  <2>2. QED  BY <1>1, <1>2, <1>4, <1>6, <1>8, <2>1 DEF Rightly, Right
<1>11. Once(p)' /\ Owes(p)'
  BY <1>1, <1>2, <1>8 DEF Once, Owes, Running, Holds
<1>12. RecordsInv'
  BY <1>1, <1>5, RecordsStay
<1>13. QED  BY <1>5, <1>7, <1>9, <1>10, <1>11, <1>12 DEF HooksInv, PeersInv

\* What a step of one on_complete leaves alone.
LEMMA OneEnd ==
  ASSUME HooksInv, HookTypes', NEW p \in Peers, NEW n \in Ends, NEW hook,
         endHook' = [endHook EXCEPT ![p][n] = hook], UNCHANGED <<agent, spawnHook>>,
         \A q \in Peers \ {p} : contexts'[q] = contexts[q] /\ seen'[q] = seen[q]
  PROVE  /\ endHook'[p][n] = hook /\ \A m \in Ends \ {n} : endHook'[p][m] = endHook[p][m]
         /\ \A q \in Peers \ {p} :
              endHook'[q] = endHook[q] /\ (Timely(q) /\ Rightly(q) /\ Once(q) /\ Owes(q))'
<1>1. HookTypes /\ \A q \in Peers : Timely(q) /\ Rightly(q)
  BY DEF HooksInv, PeersInv
<1>2. /\ endHook'[p][n] = hook /\ \A m \in Ends \ {n} : endHook'[p][m] = endHook[p][m]
      /\ \A q \in Peers \ {p} : endHook'[q] = endHook[q]
  BY <1>1 DEF HookTypes
<1>3. ASSUME NEW q \in Peers \ {p} PROVE (Timely(q) /\ Rightly(q) /\ Once(q) /\ Owes(q))'
  <2>1. UNCHANGED Own(q)
    BY <1>2 DEF Own
  <2>2. QED  BY <1>1, <2>1, Others DEF Rightly, Stashed
<1>4. QED  BY <1>2, <1>3

LEMMA ReadHooks ==
  ASSUME HooksInv, NEW p \in Peers, NEW n \in Ends, TakeRead(p, n) PROVE HooksInv'
<1>12. PICK context \in {contexts[p], {}} :
         /\ endHook' = [endHook EXCEPT ![p][n] = [at |-> "read", context |-> context]]
         /\ seen' = [seen EXCEPT ![p].matched = @ /\ context = contexts[p]]
  BY DEF TakeRead, ReadContext
<1>. DEFINE hook == [at |-> "read", context |-> context]
<1>1. /\ endHook[p][n].at = "called" /\ endHook' = [endHook EXCEPT ![p][n] = hook]
      /\ UNCHANGED <<agent, contexts, spawnHook, recorded>>
  BY <1>12 DEF TakeRead
<1>2. HookTypes /\ \A q \in Peers : Timely(q) /\ Rightly(q) /\ Once(q) /\ Owes(q)
  BY DEF HooksInv, PeersInv
<1>13. /\ seen'[p].parent = seen[p].parent /\ seen'[p].overlap = seen[p].overlap
       /\ seen'[p].matched <=> (seen[p].matched /\ context = contexts[p])
       /\ \A q \in Peers \ {p} : seen'[q] = seen[q]
       /\ seen' \in [Peers -> [matched : BOOLEAN, parent : BOOLEAN, overlap : BOOLEAN]]
  BY <1>12, <1>2, LessSeen
<1>14. hook \in [at : {"read"}, context : SUBSET Contexts] /\ (context # {} => context = contexts[p])
  BY <1>12, <1>2 DEF HookTypes
<1>3. HookTypes'
  BY <1>1, <1>2, <1>13, <1>14 DEF HookTypes
<1>4. /\ endHook'[p][n] = hook /\ \A m \in Ends \ {n} : endHook'[p][m] = endHook[p][m]
      /\ \A q \in Peers \ {p} :
           endHook'[q] = endHook[q] /\ (Timely(q) /\ Rightly(q) /\ Once(q) /\ Owes(q))'
  BY <1>1, <1>3, <1>13, OneEnd
<1>5. agent[p].at = "exited" /\ endHook[p][n].context = {}
  BY <1>1, <1>2 DEF Timely
<1>6. Timely(p)'
  BY <1>1, <1>2, <1>4, <1>5, <1>13, <1>14 DEF Timely, Unseen, Stashed
<1>7. Rightly(p)'
  BY <1>1, <1>2, <1>4, <1>13, <1>14 DEF Rightly, Right, Stashed
<1>8. Once(p)'
  <2>1. Running(p)' = Running(p) /\ n \in Running(p)
    BY <1>1, <1>4 DEF Running
  <2>2. SUFFICES ASSUME ~seen[p].overlap PROVE \A m, k \in Ends : Holds(p, m)' /\ Holds(p, k)' => m = k
    BY <1>1, <1>2, <1>13, <2>1 DEF Once
  <2>3. \A m, k \in Running(p) : m = k
    BY <1>2, <2>2 DEF Once
  <2>4. \A m \in Ends \ {n} : Holds(p, m)' <=> Holds(p, m)
    BY <1>4 DEF Holds
  <2>5. ASSUME NEW m \in Ends \ {n}, Holds(p, m), Holds(p, n)' PROVE FALSE
    <3>1. contexts[p] # {}
      BY <1>4, <1>14, <2>5 DEF Holds
    <3>2. endHook[p][m].at # "recorded"
      BY <1>2, <3>1 DEF Timely
    <3>3. m \in Running(p)
      BY <1>2, <2>5, <3>2 DEF Holds, Timely, Running
    <3>4. QED  BY <2>1, <2>3, <2>5, <3>3
  <2>6. \A m, k \in Ends : Holds(p, m) /\ Holds(p, k) => m = k
    BY <1>2, <2>2 DEF Once
  <2>7. QED  BY <2>4, <2>5, <2>6
<1>9. Owes(p)'
  BY <1>1, <1>2, <1>4, <1>13 DEF Owes, Stashed
<1>10. RecordsInv'
  <2>1. \A q \in Peers, m \in Ends : endHook[q][m].at = "recorded" <=> endHook'[q][m].at = "recorded"
    BY <1>1, <1>4
  <2>2. \A q \in Peers : seen'[q].parent = seen[q].parent
    BY <1>13
  <2>3. QED  BY <1>1, <1>3, <2>1, <2>2, RecordsStay
<1>11. QED  BY <1>3, <1>4, <1>6, <1>7, <1>8, <1>9, <1>10 DEF HooksInv, PeersInv

LEMMA RemoveHooks ==
  ASSUME HooksInv, NEW p \in Peers, NEW n \in Ends, TakeRemove(p, n) PROVE HooksInv'
<1>1. HookTypes /\ \A q \in Peers : Timely(q) /\ Rightly(q) /\ Once(q) /\ Owes(q)
  BY DEF HooksInv, PeersInv
<1>. DEFINE hook == [at |-> IF endHook[p][n].context = {} THEN "unknown" ELSE "taken",
                     context |-> endHook[p][n].context]
<1>2. /\ endHook[p][n].at = "read" /\ contexts' = [contexts EXCEPT ![p] = {}]
      /\ UNCHANGED <<agent, spawnHook, recorded, seen>>
  BY DEF TakeRemove, WithoutContext
<1>3. endHook' = [endHook EXCEPT ![p][n] = hook]
  <2>1. endHook[p][n] \in
          [at : {"idle", "called", "read", "taken", "unknown", "recorded", "dead"}, context : SUBSET Contexts]
    BY <1>1 DEF HookTypes
  <2>2. [endHook[p][n] EXCEPT !.at = hook.at] = hook
    BY <2>1
  <2>3. endHook' = [endHook EXCEPT ![p][n] = [endHook[p][n] EXCEPT !.at = hook.at]]
    BY <1>1 DEF TakeRemove, HookTypes
  <2>4. QED  BY <2>2, <2>3
<1>4. HookTypes'
  BY <1>1, <1>2, <1>3 DEF HookTypes
<1>5. contexts'[p] = {} /\ \A q \in Peers \ {p} : contexts'[q] = contexts[q]
  BY <1>1, <1>2 DEF HookTypes
<1>6. /\ endHook'[p][n] = hook /\ \A m \in Ends \ {n} : endHook'[p][m] = endHook[p][m]
      /\ \A q \in Peers \ {p} :
           endHook'[q] = endHook[q] /\ (Timely(q) /\ Rightly(q) /\ Once(q) /\ Owes(q))'
  <2>. HIDE DEF hook
  <2>. QED  BY <1>2, <1>3, <1>4, <1>5, OneEnd
<1>7. agent[p].at = "exited"
  BY <1>1, <1>2 DEF Timely, HookTypes
<1>8. Timely(p)'
  BY <1>1, <1>2, <1>5, <1>6, <1>7 DEF Timely, Unseen, Stashed
<1>9. Rightly(p)'
  BY <1>1, <1>2, <1>5, <1>6 DEF Rightly, Right, Stashed
<1>10. Once(p)'
  <2>1. \A m \in Ends : /\ m \in Running(p)' => m \in Running(p)
                        /\ Holds(p, m)' => Holds(p, m)
    BY <1>2, <1>6 DEF Running, Holds
  <2>2. QED  BY <1>1, <1>2, <2>1 DEF Once, Running
<1>11. Owes(p)'
  BY <1>1, <1>2, <1>5, <1>6 DEF Owes, Stashed
<1>12. RecordsInv'
  <2>1. \A q \in Peers, m \in Ends : endHook[q][m].at = "recorded" <=> endHook'[q][m].at = "recorded"
    BY <1>2, <1>6
  <2>2. QED  BY <1>2, <1>4, <2>1, RecordsStay
<1>13. QED  BY <1>4, <1>6, <1>8, <1>9, <1>10, <1>11, <1>12 DEF HooksInv, PeersInv

\* wrap accepts whatever the hook built from a payload.
LEMMA RecordAccepted == ASSUME NEW payload \in Payloads PROVE Acceptable(WorkerRecord(payload))
<1>1. payload.facts \in {"absent", "invalid", "silent", "report"}
  BY HooksAssumption
<1>2. CASE payload.facts \in {"absent", "invalid"}
  BY <1>2 DEF WorkerRecord, Acceptable
<1>3. CASE payload.facts \in {"silent", "report"}
  BY <1>3 DEF WorkerRecord, Acceptable, NoOutcome
<1>4. QED  BY <1>1, <1>2, <1>3

LEMMA WrapHooks ==
  ASSUME HooksInv, NEW p \in Peers, NEW n \in Ends, Wrap(p, n) PROVE HooksInv'
<1>1. PICK payload \in Payloads :
        LET worker == WorkerRecord(payload)
            filed == Acceptable(worker)
        IN /\ recorded' = recorded \cup {r \in {PeerRecord(p, n, worker)} : filed}
           /\ endHook' = [endHook EXCEPT ![p][n] =
                            [at |-> IF filed THEN "recorded" ELSE "refused", context |-> {}]]
  BY DEF Wrap
<1>. DEFINE record == PeerRecord(p, n, WorkerRecord(payload))
            hook == [at |-> "recorded", context |-> {}]
<1>2. /\ recorded' = recorded \cup {record} /\ endHook' = [endHook EXCEPT ![p][n] = hook]
      /\ endHook[p][n].at = "taken" /\ UNCHANGED <<agent, contexts, spawnHook, seen>>
  BY <1>1, RecordAccepted DEF Wrap
<1>3. HookTypes /\ \A q \in Peers : Timely(q) /\ Rightly(q) /\ Once(q) /\ Owes(q)
  BY DEF HooksInv, PeersInv
<1>4. record.peer = p /\ record.by = n /\ record.session = Session(p) /\ Right(p, record.parent)
  <2>1. PICK c \in endHook[p][n].context : c = CHOOSE d \in endHook[p][n].context : TRUE
    BY <1>2, <1>3 DEF Timely
  <2>2. c.session = Session(p) /\ Right(p, c.parent)
    BY <1>3 DEF Rightly
  <2>3. record.peer = p /\ record.by = n /\ record.session = c.session /\ record.parent = c.parent
    BY <2>1 DEF PeerRecord
  <2>4. QED  BY <2>2, <2>3
<1>. HIDE DEF record
<1>5. HookTypes'
  BY <1>2, <1>3, <1>4 DEF HookTypes
<1>6. /\ endHook'[p][n] = hook /\ \A m \in Ends \ {n} : endHook'[p][m] = endHook[p][m]
      /\ \A q \in Peers \ {p} :
           endHook'[q] = endHook[q] /\ (Timely(q) /\ Rightly(q) /\ Once(q) /\ Owes(q))'
  BY <1>2, <1>5, OneEnd
<1>7. Timely(p)'
  BY <1>2, <1>3, <1>6 DEF Timely, Unseen, Stashed
<1>8. Rightly(p)'
  BY <1>2, <1>3, <1>6 DEF Rightly, Right, Stashed
<1>9. Once(p)'
  <2>1. \A m \in Ends : /\ m \in Running(p)' => m \in Running(p)
                        /\ Holds(p, m)' => Holds(p, m)
    BY <1>2, <1>3, <1>6 DEF Running, Holds, Timely
  <2>2. QED  BY <1>2, <1>3, <2>1 DEF Once, Running
<1>10. Owes(p)'
  BY <1>2, <1>3, <1>6 DEF Owes, Stashed
<1>11. RecordsInv'
  <2>1. RecordsInv
    BY DEF HooksInv
  <2>2. \A r \in recorded : ~(r.peer = p /\ r.by = n)
    BY <1>2, <2>1 DEF RecordsInv
  <2>3. \A r \in recorded : r.peer \in Peers /\ r.by \in Ends
    BY <1>3 DEF HookTypes
  <2>4. ASSUME NEW r \in recorded'
        PROVE  /\ endHook'[r.peer][r.by].at = "recorded"
               /\ r.session = Session(r.peer) /\ Right(r.peer, r.parent)'
    <3>1. CASE r = record
      BY <1>2, <1>4, <1>6, <3>1 DEF Right
    <3>2. CASE r \in recorded
      BY <1>2, <1>6, <2>1, <2>2, <2>3, <3>2 DEF RecordsInv, Right
    <3>3. QED  BY <1>2, <3>1, <3>2
  <2>5. \A r, s \in recorded' : r.peer = s.peer /\ r.by = s.by => r = s
    BY <1>2, <1>4, <2>1, <2>2 DEF RecordsInv
  <2>6. ASSUME NEW q \in Peers, NEW m \in Ends, endHook'[q][m].at = "recorded"
        PROVE  \E r \in recorded' : r.peer = q /\ r.by = m
    <3>1. CASE q = p /\ m = n
      BY <1>2, <1>4, <3>1
    <3>2. CASE ~(q = p /\ m = n)
      <4>1. endHook[q][m].at = "recorded"
        BY <1>6, <2>6, <3>2
      <4>2. QED  BY <1>2, <2>1, <4>1 DEF RecordsInv
    <3>3. QED  BY <3>1, <3>2
  <2>7. QED  BY <2>4, <2>5, <2>6 DEF RecordsInv
<1>12. QED  BY <1>5, <1>6, <1>7, <1>8, <1>9, <1>10, <1>11 DEF HooksInv, PeersInv

LEMMA DeathHooks == ASSUME HooksInv, NEW p \in Peers, HookDies(p) PROVE HooksInv'
<1>1. HookTypes /\ \A q \in Peers : Timely(q) /\ Rightly(q) /\ Once(q) /\ Owes(q)
  BY DEF HooksInv, PeersInv
<1>2. UNCHANGED <<agent, contexts, recorded, seen>>
  BY DEF HookDies
<1>3. CASE /\ spawnHook[p].at \in {"called", "peeked"} /\ UNCHANGED endHook
           /\ spawnHook' = [spawnHook EXCEPT ![p] = [at |-> "dead", parent |-> {}]]
  <2>1. HookTypes'
    BY <1>1, <1>2, <1>3 DEF HookTypes
  <2>2. spawnHook'[p].at = "dead" /\ \A q \in Peers \ {p} : spawnHook'[q] = spawnHook[q]
    BY <1>1, <1>3 DEF HookTypes
  <2>3. ASSUME NEW q \in Peers \ {p} PROVE (Timely(q) /\ Rightly(q) /\ Once(q) /\ Owes(q))'
    <3>1. UNCHANGED Own(q)
      BY <1>2, <1>3, <2>2 DEF Own
    <3>2. seen[q].parent /\ spawnHook[q].at = "called" => agent[q].parent \in Peers \ {p}
      BY <1>1, <1>3 DEF Rightly, Stashed
    <3>3. QED  BY <1>1, <1>2, <2>1, <2>2, <3>1, <3>2, Others DEF Rightly, Stashed
  <2>4. (Timely(p) /\ Rightly(p))'
    BY <1>1, <1>2, <1>3, <2>2 DEF Timely, Rightly, Right, Stashed
  <2>5. (Once(p) /\ Owes(p))'
    BY <1>1, <1>2, <1>3, <2>2 DEF Once, Owes, Running, Holds, Stashed
  <2>6. RecordsInv'
    BY <1>2, <1>3, <2>1, RecordsStay
  <2>7. QED  BY <2>1, <2>3, <2>4, <2>5, <2>6 DEF HooksInv, PeersInv
<1>4. ASSUME NEW n \in Running(p), UNCHANGED spawnHook,
             endHook' = [endHook EXCEPT ![p][n] = [at |-> "dead", context |-> {}]]
      PROVE  HooksInv'
  <2>1. n \in Ends /\ endHook[p][n].at \in {"called", "read", "taken"}
    BY <1>4 DEF Running
  <2>2. HookTypes'
    BY <1>1, <1>2, <1>4, <2>1 DEF HookTypes
  <2>3. /\ endHook'[p][n] = [at |-> "dead", context |-> {}]
        /\ \A m \in Ends \ {n} : endHook'[p][m] = endHook[p][m]
        /\ \A q \in Peers \ {p} :
             endHook'[q] = endHook[q] /\ (Timely(q) /\ Rightly(q) /\ Once(q) /\ Owes(q))'
    <3>. DEFINE hook == [at |-> "dead", context |-> {}]
    <3>1. endHook' = [endHook EXCEPT ![p][n] = hook]
      BY <1>4
    <3>. HIDE DEF hook
    <3>2. /\ endHook'[p][n] = hook /\ \A m \in Ends \ {n} : endHook'[p][m] = endHook[p][m]
          /\ \A q \in Peers \ {p} :
               endHook'[q] = endHook[q] /\ (Timely(q) /\ Rightly(q) /\ Once(q) /\ Owes(q))'
      BY <1>2, <1>4, <2>1, <2>2, <3>1, OneEnd
    <3>3. QED  BY <3>2 DEF hook
  <2>4. (Timely(p) /\ Rightly(p))'
    BY <1>1, <1>2, <1>4, <2>1, <2>3 DEF Timely, Rightly, Right, Stashed
  <2>5. Once(p)'
    <3>1. \A m \in Ends : /\ m \in Running(p)' => m \in Running(p)
                          /\ Holds(p, m)' => Holds(p, m)
      BY <2>1, <2>3 DEF Running, Holds
    <3>2. QED  BY <1>1, <1>2, <3>1 DEF Once, Running
  <2>6. Owes(p)'
    BY <1>1, <1>2, <1>4, <2>1, <2>3 DEF Owes, Stashed
  <2>7. RecordsInv'
    <3>1. \A q \in Peers, m \in Ends : endHook[q][m].at = "recorded" <=> endHook'[q][m].at = "recorded"
      BY <2>1, <2>3
    <3>2. QED  BY <1>2, <2>2, <3>1, RecordsStay
  <2>8. QED  BY <2>2, <2>3, <2>4, <2>5, <2>6, <2>7 DEF HooksInv, PeersInv
<1>5. QED  BY <1>3, <1>4 DEF HookDies

LEMMA NextHooks == ASSUME HooksInv, [HooksNext]_hookVars PROVE HooksInv'
<1>1. CASE UNCHANGED hookVars
  <2>1. HookTypes' /\ RecordsInv'
    BY <1>1 DEF hookVars, HooksInv, HookTypes, RecordsInv, Right
  <2>2. \A p \in Peers : UNCHANGED Own(p)
    BY <1>1 DEF hookVars, Own
  <2>3. \A p \in Peers : Rightly(p)
    BY DEF HooksInv, PeersInv
  <2>4. PeersInv'
    BY <1>1, <2>1, <2>2, <2>3, Others DEF hookVars, PeersInv, Rightly, Stashed
  <2>5. QED  BY <2>1, <2>4 DEF HooksInv
<1>2. QED
  BY <1>1, SpawnHooks, ExitHooks, ReportHooks, PeekHooks, StashHooks, ReadHooks, RemoveHooks, WrapHooks,
     DeathHooks DEF HooksNext

----------------------------------------------------------------------------

\* Every variable of the hooks holds a value of its kind.
THEOREM HookTypesHold == HooksSpec => []HookTypes
<1>1. HooksInv => HookTypes
  BY DEF HooksInv
<1>2. QED  BY <1>1, InitHooks, NextHooks, PTL DEF HooksSpec

\* A record names the session of the peer that spawned it, and of no other, however many
\* hooks run beside each other, and it names it when that peer was known, ran until on_spawn
\* had ended and its file could be read (hooks-agent-chat-spawn, hooks-agent-chat-complete).
THEOREM ParentsAreTrue == HooksSpec => []ParentsTrue
<1>1. HooksInv => ParentsTrue
  <2>1. SUFFICES ASSUME HooksInv, NEW r \in recorded
                 PROVE  LET q == agent[r.peer].parent
                        IN  /\ r.session = Session(r.peer)
                            /\ r.parent \subseteq {Session(q)} /\ (q = Human => r.parent = {})
                            /\ seen[r.peer].parent => r.parent = {Session(q)}
    BY DEF ParentsTrue
  <2>2. r.session = Session(r.peer) /\ Right(r.peer, r.parent)
    BY <2>1 DEF HooksInv, RecordsInv
  <2>3. QED  BY <2>2 DEF Right
<1>2. QED  BY <1>1, InitHooks, NextHooks, PTL DEF HooksSpec

\* A peer that was known when it exited is recorded when its on_complete has ended, unless
\* a hook died or could not read the file it then removed (readSpawnContext), and recorded
\* once unless two calls of on_complete overlapped.
THEOREM PeersAreRecorded == HooksSpec => []PeersRecorded
<1>1. ASSUME HooksInv, NEW p \in Peers PROVE "refused" \notin Said(p)
  <2>1. ASSUME NEW n \in Ends PROVE endHook[p][n].at # "refused"
    <3>1. endHook[p][n] \in
            [at : {"idle", "called", "read", "taken", "unknown", "recorded", "dead"}, context : SUBSET Contexts]
      BY <1>1 DEF HooksInv, HookTypes
    <3>2. QED  BY <3>1
  <2>2. QED  BY <2>1 DEF Said
<1>2. ASSUME HooksInv, NEW p \in Peers, seen[p].matched, Running(p) = {},
             Said(p) \cap {"unknown", "recorded"} # {}
      PROVE  RecordsOf(p) # {} \/ "dead" \in Said(p)
  <2>1. HookTypes /\ Owes(p) /\ RecordsInv
    BY <1>2 DEF HooksInv, PeersInv
  <2>2. PICK m \in Ends : endHook[p][m].at \in {"unknown", "recorded"}
    BY <1>2 DEF Said
  <2>3. PICK n \in Ends : endHook[p][n].at \in {"taken", "dead", "recorded"}
    BY <1>2, <2>1, <2>2 DEF Owes
  <2>4. CASE endHook[p][n].at = "taken"
    BY <1>2, <2>4 DEF Running
  <2>5. CASE endHook[p][n].at = "dead"
    BY <2>5 DEF Said
  <2>6. CASE endHook[p][n].at = "recorded"
    BY <2>1, <2>6 DEF RecordsInv, RecordsOf
  <2>7. QED  BY <2>3, <2>4, <2>5, <2>6
<1>3. ASSUME HooksInv, NEW p \in Peers, ~seen[p].overlap PROVE Cardinality(RecordsOf(p)) <= 1
  <2>1. HookTypes /\ Once(p) /\ RecordsInv
    BY <1>3 DEF HooksInv, PeersInv
  <2>2. \A r, s \in RecordsOf(p) : r = s
    BY <1>3, <2>1 DEF Once, Holds, RecordsInv, RecordsOf, HookTypes
  <2>3. CASE RecordsOf(p) = {}
    BY <2>3, FS_EmptySet
  <2>4. ASSUME NEW r \in RecordsOf(p) PROVE Cardinality(RecordsOf(p)) <= 1
    <3>1. RecordsOf(p) = {r}
      BY <2>2, <2>4
    <3>2. QED  BY <3>1, FS_Singleton
  <2>5. QED  BY <2>3, <2>4
<1>4. HooksInv => PeersRecorded
  BY <1>1, <1>2, <1>3 DEF PeersRecorded
<1>5. QED  BY <1>4, InitHooks, NextHooks, PTL DEF HooksSpec

----------------------------------------------------------------------------
(* Migrations: the inductive invariant.                                     *)

\* What one initiative owes to each step of the chain.
ArtifactsDone(i) == artifacts[i].garbled \/ ~artifacts[i].old
SessionsDone(i) ==
  /\ i \in Covered => "open" \in sessions[i]
  /\ i \in Dead => "abandon" \in sessions[i]
BriefDone(i) == brief[i].backfill # "due"
HandoffDone(i) == handoff[i] => archive[i] # "none"
WorktreesDone(i) == brief[i].worktrees = {} /\ ~brief[i].pathless

Briefs == [worktrees : SUBSET Labels, pathless : BOOLEAN, backfill : {"done", "due", "blocked"}]

DataTypeOK ==
  /\ artifacts \in [Initiatives -> [garbled : BOOLEAN, old : BOOLEAN, named : SUBSET Labels, observed : SUBSET Labels]]
  /\ brief \in [Initiatives -> Briefs]
  /\ sessions \in [Initiatives -> SUBSET {"open", "abandon"}]
  /\ handoff \in [Initiatives -> BOOLEAN]
  /\ archive \in [Initiatives -> {"none", "torn", "whole"}]
  /\ repairs \subseteq {"retrack", "relocate"}

\* What the second step of the chain may write.
LoopOps == {"open", "abandon", "seq", "copy", "copied", "remove", "retrack", "relocate"}

ProcessTypeOK ==
  /\ process \in [command : {"none", "setup", "migrate"}, cursor : 1..CURRENT_VERSION,
                  todo : SUBSET ((DOMAIN Rank) \X (Initiatives \cup {Root})), dropped : SUBSET Initiatives]
  /\ process.cursor = 1 => process.todo \subseteq ArtifactsPlan({})
  /\ process.cursor = 3 => process.todo \subseteq WorktreesPlan({})
  /\ process.cursor = 4 => process.todo \subseteq StampPlan
  /\ process.cursor = 2 => \A w \in process.todo : w[1] \in LoopOps

Pending(op, i) == <<op, i>> \in process.todo

\* A handoff that a step has started to archive is there until it is removed, and
\* is removed only once the archive is whole.
ArchivingSafe ==
  \A i \in Initiatives :
    /\ Pending("copy", i) => Pending("copied", i)
    /\ Pending("copied", i) => Pending("remove", i)
    /\ Pending("remove", i) => handoff[i] /\ (Pending("copied", i) \/ archive[i] = "whole")

\* A brief is stripped only of what is registered, and rewritten only if that is due.
StrippingSafe ==
  \A i \in Initiatives :
    /\ Pending("seq", i) => brief[i].backfill = "due"
    /\ Pending("merge", i) => Pending("strip", i)
    /\ Pending("strip", i) => Pending("merge", i) \/ brief[i].worktrees \subseteq Registered(i)

ArchivedBare == \A i \in Archived : WorktreesDone(i)

\* What a step owes is done, passed over, or still to be written.
StepCovers ==
  /\ \A i \in Initiatives :
       /\ process.cursor = 1 => ArtifactsDone(i) \/ <<2, i>> \in unread \/ Pending("artifacts", i)
       /\ process.cursor = 2 /\ i \notin Archived =>
            /\ i \in Covered => "open" \in sessions[i] \/ Pending("open", i)
            /\ i \in Dead => "abandon" \in sessions[i] \/ Pending("abandon", i)
            /\ BriefDone(i) \/ <<3, i>> \in unread \/ Pending("seq", i)
            /\ HandoffDone(i) \/ <<3, i>> \in unread \/ Pending("copy", i)
       /\ process.cursor = 3 => WorktreesDone(i) \/ <<4, i>> \in unread \/ Pending("strip", i)
  /\ process.cursor = 2 => \A repair \in repairs : <<3, Root>> \in unread \/ Pending(repair, Root)

MigrationInv ==
  /\ stamp \in NoVersion..TornVersion /\ DataTypeOK /\ ProcessTypeOK
  /\ ArchivingSafe /\ StrippingSafe /\ ArchivedBare
  /\ stamp < CURRENT_VERSION => MigratedBut(Level(stamp), {})
  /\ process.command = "setup" => Migrated(process.cursor) /\ StepCovers

----------------------------------------------------------------------------
(* Migrations: the initial states.                                          *)

\* What a version owes, in the parts in which the steps see to it.
LEMMA InParts ==
  ASSUME NEW version, NEW passed
  PROVE  MigratedBut(version, passed) <=>
         /\ \A i \in Initiatives :
              /\ version >= 2 => ArtifactsDone(i) \/ <<2, i>> \in passed
              /\ version >= 3 /\ i \notin Archived =>
                   /\ SessionsDone(i)
                   /\ BriefDone(i) \/ <<3, i>> \in passed
                   /\ HandoffDone(i) \/ <<3, i>> \in passed
              /\ version >= 4 => WorktreesDone(i) \/ <<4, i>> \in passed
         /\ version >= 3 => repairs = {} \/ <<3, Root>> \in passed
  BY DEF MigratedBut, ArtifactsDone, SessionsDone, BriefDone, HandoffDone, WorktreesDone

LEMMA MigrationsStart == MigrationsInit => MigrationInv
<1> SUFFICES ASSUME MigrationsInit PROVE MigrationInv
  OBVIOUS
<1>1. stamp \in NoVersion..CURRENT_VERSION
  BY MigrationAssumption DEF MigrationsInit
<1>2. Level(stamp) \in 1..CURRENT_VERSION
  BY <1>1 DEF Level, NoVersion, CURRENT_VERSION
<1> DEFINE version == Level(stamp)
<1>3. PICK root \in [Initiatives -> UNION {Possible(Level(stamp), i) : i \in Initiatives}] :
       /\ \A i \in Initiatives : root[i] \in Possible(version, i)
       /\ artifacts = [i \in Initiatives |-> root[i].artifacts]
       /\ brief = [i \in Initiatives |-> root[i].brief]
       /\ sessions = [i \in Initiatives |-> root[i].sessions]
       /\ handoff = [i \in Initiatives |-> root[i].handoff]
  BY DEF MigrationsInit
<1>4. /\ archive = [i \in Initiatives |-> "none"] /\ process = NoProcess
      /\ repairs = IF version < 3 THEN Misfiled ELSE {}
  BY DEF MigrationsInit
<1>5. \A i \in Initiatives : root[i] \in Holdings
  BY <1>3 DEF Possible
<1>6. DataTypeOK
  <2>1. repairs \subseteq {"retrack", "relocate"}
    BY <1>4, MigrationAssumption
  <2> QED
    BY <1>3, <1>4, <1>5, <2>1 DEF DataTypeOK, Holdings, Briefs
<1>7. process.todo = {} /\ process.cursor = CURRENT_VERSION /\ process.command = "none" /\ ProcessTypeOK
  BY <1>4 DEF NoProcess, ProcessTypeOK, CURRENT_VERSION
<1>8. ArchivingSafe /\ StrippingSafe
  BY <1>7 DEF ArchivingSafe, StrippingSafe, Pending
<1>9. \A i \in Initiatives :
        /\ artifacts[i].old => version = 1
        /\ handoff[i] => version \in 1..2
        /\ WorktreesDone(i) \/ version \in 1..3
        /\ BriefDone(i) \/ version \in 1..2
        /\ i \in Archived => brief[i] = PlainBrief
        /\ sessions[i] = IF version \in 1..2 \/ i \notin Covered THEN {}
                         ELSE {"open"} \cup {kind \in {"abandon"} : i \in Dead}
  <2>1. TAKE i \in Initiatives
  <2>2. root[i] \in Possible(version, i)
    BY <1>3
  <2>3. /\ root[i].artifacts.old => version = 1
        /\ root[i].handoff => version \in 1..2 /\ i \notin Archived
        /\ root[i].brief.worktrees # {} \/ root[i].brief.pathless => version \in 1..3
        /\ root[i].brief.backfill = "due" => version \in 1..2
        /\ i \in Archived => root[i].brief = PlainBrief
        /\ root[i].sessions = IF version \in 1..2 \/ i \notin Covered THEN {}
                              ELSE {"open"} \cup {kind \in {"abandon"} : i \in Dead}
    BY <2>2 DEF Possible
  <2> QED
    BY <1>3, <2>3 DEF WorktreesDone, BriefDone
<1>10. ArchivedBare
  BY <1>9, MigrationAssumption DEF ArchivedBare, WorktreesDone, PlainBrief
<1>11. MigratedBut(version, {})
  <2>1. \A i \in Initiatives :
          /\ version >= 2 => ArtifactsDone(i)
          /\ version >= 3 /\ i \notin Archived => SessionsDone(i) /\ BriefDone(i) /\ HandoffDone(i)
          /\ version >= 4 => WorktreesDone(i)
    <3>1. TAKE i \in Initiatives
    <3>2. i \in Dead => i \in Covered
      BY MigrationAssumption
    <3>3. version >= 2 => ~artifacts[i].old
      BY <1>2, <1>9
    <3>4. version >= 3 => version \notin 1..2
      BY <1>2
    <3>5. version >= 3 => BriefDone(i) /\ ~handoff[i]
      BY <1>9, <3>4
    <3>6. version >= 3 /\ i \in Covered => sessions[i] = {"open"} \cup {kind \in {"abandon"} : i \in Dead}
      BY <1>9, <3>4
    <3>7. version >= 4 => WorktreesDone(i)
      BY <1>2, <1>9
    <3> QED
      BY <3>2, <3>3, <3>5, <3>6, <3>7 DEF ArtifactsDone, SessionsDone, HandoffDone
  <2>2. version >= 3 => repairs = {}
    BY <1>2, <1>4
  <2> QED
    BY <2>1, <2>2, InParts
<1> QED
  BY <1>1, <1>6, <1>7, <1>8, <1>10, <1>11 DEF MigrationInv, NoVersion, TornVersion, CURRENT_VERSION

----------------------------------------------------------------------------
(* Migrations: the commands.                                                *)

\* What is planned for a step is all that the step owes.
LEMMA PlansCover ==
  ASSUME DataTypeOK, ArchivedBare, NEW command \in {"setup", "migrate"}, NEW cursor \in 1..CURRENT_VERSION,
         NEW passed \in SUBSET Reach(cursor), process' = Started(command, cursor, passed),
         {cursor + 1} \X passed \subseteq unread', UNCHANGED data
  PROVE  ProcessTypeOK' /\ ArchivingSafe' /\ StrippingSafe' /\ StepCovers'
<1> DEFINE plan == Plan(cursor, passed)
<1>1. process'.todo = plan /\ process'.cursor = cursor
  BY DEF Started
<1>2. UNCHANGED <<artifacts, brief, sessions, handoff, archive, repairs>>
  BY DEF data
<1>3. /\ cursor = 1 => plan = ArtifactsPlan(passed)
      /\ cursor = 2 => plan = OpenLoopsPlan(passed)
      /\ cursor = 3 => plan = WorktreesPlan(passed)
      /\ cursor = 4 => plan = StampPlan
  BY DEF Plan
<1>4. Active \subseteq Initiatives
  BY DEF Active
<1>5. \A w \in OpenLoopsPlan(passed) :
        w \in (DOMAIN Rank) \X (Initiatives \cup {Root}) /\ w[1] \in LoopOps
  <2>1. \A i : /\ SessionPlan(i) \subseteq LoopOps /\ BriefPlan(i) \subseteq LoopOps
              /\ ArchiveHandoff(i) \subseteq LoopOps
    BY DEF SessionPlan, Synthetic, BriefPlan, ArchiveHandoff, LoopOps
  <2>2. LoopOps \subseteq DOMAIN Rank /\ repairs \subseteq LoopOps
    BY DEF LoopOps, Rank, DataTypeOK
  <2> QED
    BY <1>4, <2>1, <2>2 DEF OpenLoopsPlan
<1>6. /\ ArtifactsPlan(passed) \subseteq (DOMAIN Rank) \X (Initiatives \cup {Root})
      /\ ArtifactsPlan(passed) \subseteq ArtifactsPlan({})
      /\ WorktreesPlan(passed) \subseteq (DOMAIN Rank) \X (Initiatives \cup {Root})
      /\ WorktreesPlan(passed) \subseteq WorktreesPlan({})
      /\ StampPlan \subseteq (DOMAIN Rank) \X (Initiatives \cup {Root})
  BY <1>4 DEF ArtifactsPlan, WorktreesPlan, StampPlan, Rank
<1>7. cursor = 1 \/ cursor = 2 \/ cursor = 3 \/ cursor = 4
  BY DEF CURRENT_VERSION
<1>8. plan \in SUBSET ((DOMAIN Rank) \X (Initiatives \cup {Root}))
  BY <1>3, <1>5, <1>6, <1>7
<1>9. ProcessTypeOK'
  BY <1>1, <1>3, <1>5, <1>6, <1>8 DEF ProcessTypeOK, Started
<1>10. \A i \in Initiatives, op \in {"copy", "copied", "remove"} :
         <<op, i>> \in plan <=> cursor = 2 /\ i \in Active \ passed /\ handoff[i] /\ archive[i] = "none"
  <2>1. TAKE i \in Initiatives, op \in {"copy", "copied", "remove"}
  <2>2. <<op, i>> \notin ArtifactsPlan(passed) /\ <<op, i>> \notin WorktreesPlan(passed) /\ <<op, i>> \notin StampPlan
    BY DEF ArtifactsPlan, WorktreesPlan, StampPlan
  <2>3. /\ op \notin SessionPlan(i) /\ op \notin BriefPlan(i)
        /\ op \in ArchiveHandoff(i) <=> handoff[i] /\ archive[i] = "none"
    BY DEF BriefPlan, SessionPlan, Synthetic, ArchiveHandoff
  <2>4. <<op, i>> \in OpenLoopsPlan(passed) <=> i \in Active \ passed /\ op \in ArchiveHandoff(i)
    BY <2>3, MigrationAssumption DEF OpenLoopsPlan, Rank
  <2> QED
    BY <1>3, <1>7, <2>2, <2>3, <2>4
<1>11. ArchivingSafe'
  BY <1>1, <1>2, <1>10 DEF ArchivingSafe, Pending
<1>12. \A i \in Initiatives, op \in {"merge", "strip"} : <<op, i>> \in plan <=> cursor = 3 /\ i \in Active \ passed
  <2>1. TAKE i \in Initiatives, op \in {"merge", "strip"}
  <2>2. <<op, i>> \notin ArtifactsPlan(passed) /\ <<op, i>> \notin OpenLoopsPlan(passed) /\ <<op, i>> \notin StampPlan
    BY <1>5 DEF ArtifactsPlan, StampPlan, LoopOps
  <2>3. <<op, i>> \in WorktreesPlan(passed) <=> i \in Active \ passed
    BY DEF WorktreesPlan
  <2> QED
    BY <1>3, <1>7, <2>2, <2>3
<1>13. StrippingSafe'
  <2>1. \A i \in Initiatives : <<"seq", i>> \in plan => brief[i].backfill = "due"
    <3>1. \A i \in Initiatives :
            <<"seq", i>> \notin ArtifactsPlan(passed) /\ <<"seq", i>> \notin WorktreesPlan(passed) /\ <<"seq", i>> \notin StampPlan
      BY DEF ArtifactsPlan, WorktreesPlan, StampPlan
    <3>2. \A i \in Initiatives : <<"seq", i>> \in OpenLoopsPlan(passed) => "seq" \in BriefPlan(i)
      BY MigrationAssumption DEF OpenLoopsPlan, SessionPlan, Synthetic, ArchiveHandoff
    <3> QED
      BY <1>3, <1>7, <3>1, <3>2 DEF BriefPlan
  <2> QED
    BY <1>1, <1>2, <1>12, <2>1 DEF StrippingSafe, Pending
<1>14. StepCovers'
  <2>1. /\ \A i \in Initiatives :
             /\ cursor = 1 => i \in passed \/ <<"artifacts", i>> \in plan
             /\ cursor = 3 => WorktreesDone(i) \/ i \in passed \/ <<"strip", i>> \in plan
             /\ cursor = 2 /\ i \notin Archived =>
                  /\ i \in Covered => "open" \in sessions[i] \/ <<"open", i>> \in plan
                  /\ i \in Dead => "abandon" \in sessions[i] \/ <<"abandon", i>> \in plan
                  /\ BriefDone(i) \/ i \in passed \/ <<"seq", i>> \in plan
                  /\ HandoffDone(i) \/ i \in passed \/ <<"copy", i>> \in plan
        /\ cursor = 2 => \A repair \in repairs : Root \in passed \/ <<repair, Root>> \in plan
    <3>1. ASSUME NEW i \in Initiatives
          PROVE  /\ cursor = 1 => i \in passed \/ <<"artifacts", i>> \in plan
                 /\ cursor = 3 => WorktreesDone(i) \/ i \in passed \/ <<"strip", i>> \in plan
                 /\ cursor = 2 /\ i \notin Archived =>
                      /\ i \in Covered => "open" \in sessions[i] \/ <<"open", i>> \in plan
                      /\ i \in Dead => "abandon" \in sessions[i] \/ <<"abandon", i>> \in plan
                      /\ BriefDone(i) \/ i \in passed \/ <<"seq", i>> \in plan
                      /\ HandoffDone(i) \/ i \in passed \/ <<"copy", i>> \in plan
      <4>1. cursor = 1 => i \in passed \/ <<"artifacts", i>> \in plan
        BY <1>3 DEF ArtifactsPlan
      <4>2. i \notin Archived =>
              /\ \A op \in {"open", "abandon"} : op \in SessionPlan(i) => <<op, i>> \in OpenLoopsPlan(passed)
              /\ \A op \in {"seq", "copy"} : i \notin passed /\ op \in BriefPlan(i) \cup ArchiveHandoff(i)
                                          => <<op, i>> \in OpenLoopsPlan(passed)
        BY DEF OpenLoopsPlan, Active, Rank
      <4>3. /\ i \in Covered => "open" \in sessions[i] \/ "open" \in SessionPlan(i)
            /\ i \in Dead => "abandon" \in sessions[i] \/ "abandon" \in SessionPlan(i)
            /\ BriefDone(i) \/ "seq" \in BriefPlan(i)
            /\ HandoffDone(i) \/ "copy" \in ArchiveHandoff(i)
        BY DEF SessionPlan, Synthetic, BriefPlan, ArchiveHandoff, BriefDone, HandoffDone
      <4>4. i \in Archived => WorktreesDone(i)
        BY DEF ArchivedBare
      <4>5. cursor = 3 /\ i \notin Archived => i \in passed \/ <<"strip", i>> \in plan
        BY <1>12 DEF Active
      <4> QED
        BY <1>3, <4>1, <4>2, <4>3, <4>4, <4>5
    <3>2. cursor = 2 => \A repair \in repairs : Root \in passed \/ <<repair, Root>> \in plan
      BY <1>3 DEF OpenLoopsPlan
    <3> QED
      BY <3>1, <3>2
  <2>2. \A i : i \in passed => <<cursor + 1, i>> \in unread'
    OBVIOUS
  <2>3. /\ cursor = 1 => \A i : i \in passed => <<2, i>> \in unread'
        /\ cursor = 2 => \A i : i \in passed => <<3, i>> \in unread'
        /\ cursor = 3 => \A i : i \in passed => <<4, i>> \in unread'
    BY <2>2
  <2>4. \A i \in Initiatives : /\ (ArtifactsDone(i)' <=> ArtifactsDone(i)) /\ (BriefDone(i)' <=> BriefDone(i))
                             /\ (HandoffDone(i)' <=> HandoffDone(i)) /\ (WorktreesDone(i)' <=> WorktreesDone(i))
    BY <1>2 DEF ArtifactsDone, BriefDone, HandoffDone, WorktreesDone
  <2> HIDE DEF plan
  <2> QED
    BY <1>1, <1>2, <2>1, <2>3, <2>4 DEF StepCovers, Pending
<1> QED
  BY <1>9, <1>11, <1>13, <1>14

\* A run that is over has nothing to write.
LEMMA NothingPending ==
  ASSUME process' = NoProcess
  PROVE  ProcessTypeOK' /\ ArchivingSafe' /\ StrippingSafe' /\ process'.command = "none"
<1>1. process'.todo = {} /\ process'.command = "none"
  BY DEF NoProcess
<1> QED
  BY <1>1 DEF NoProcess, ProcessTypeOK, CURRENT_VERSION, ArchivingSafe, StrippingSafe, Pending

\* What holds of the data goes on holding when no data is written.
LEMMA DataUnchanged ==
  ASSUME MigrationInv, UNCHANGED data
  PROVE  /\ DataTypeOK' /\ ArchivedBare'
         /\ \A version, passed, more : MigratedBut(version, passed) /\ passed \subseteq more
                                      => MigratedBut(version, more)'
<1>1. UNCHANGED <<artifacts, brief, sessions, handoff, archive, repairs>>
  BY DEF data
<1>2. DataTypeOK' /\ ArchivedBare'
  BY <1>1 DEF MigrationInv, DataTypeOK, ArchivedBare, WorktreesDone
<1>3. ASSUME NEW version, NEW passed, NEW more, MigratedBut(version, passed), passed \subseteq more
      PROVE  MigratedBut(version, more)'
  BY <1>1, <1>3 DEF MigratedBut
<1> QED
  BY <1>2, <1>3

LEMMA CommandsKeep ==
  ASSUME MigrationInv, UNCHANGED <<stamp, data>>,
         \/ process' = NoProcess
         \/ \E command \in {"setup", "migrate"}, cursor \in 1..CURRENT_VERSION : \E before :
              /\ Begin(command, cursor, before)
              /\ command = "setup" => MigratedBut(cursor, before)
  PROVE  MigrationInv'
<1>1. /\ DataTypeOK' /\ ArchivedBare'
      /\ \A version, passed, more : MigratedBut(version, passed) /\ passed \subseteq more => MigratedBut(version, more)'
  BY DataUnchanged
<1>2. stamp' \in NoVersion..TornVersion /\ (stamp < CURRENT_VERSION => MigratedBut(Level(stamp), {}))'
  <2>1. stamp < CURRENT_VERSION => MigratedBut(Level(stamp), {})
    BY DEF MigrationInv
  <2>2. ASSUME stamp < CURRENT_VERSION PROVE MigratedBut(Level(stamp), {})'
    <3>1. \A version : version = Level(stamp) => MigratedBut(version, {})'
      BY <1>1, <2>1, <2>2
    <3> QED
      BY <3>1 DEF MigratedBut, Level
  <2>3. stamp' = stamp /\ stamp \in NoVersion..TornVersion
    BY DEF MigrationInv
  <2> QED
    BY <2>2, <2>3
<1>3. CASE process' = NoProcess
  BY <1>1, <1>2, <1>3, NothingPending DEF MigrationInv
<1>4. ASSUME NEW command \in {"setup", "migrate"}, NEW cursor \in 1..CURRENT_VERSION, NEW before,
             Begin(command, cursor, before), command = "setup" => MigratedBut(cursor, before)
      PROVE  MigrationInv'
  <2>1. DataTypeOK /\ ArchivedBare /\ UNCHANGED data
    BY DEF MigrationInv
  <2>2. PICK passed \in SUBSET Reach(cursor) :
          /\ process' = Started(command, cursor, passed)
          /\ unread' = before \cup ({cursor + 1} \X passed)
    BY <1>4 DEF Begin
  <2>3. ProcessTypeOK' /\ ArchivingSafe' /\ StrippingSafe' /\ StepCovers'
    BY <2>1, <2>2, PlansCover
  <2>4. process'.command = command /\ process'.cursor = cursor
    BY <2>2 DEF Started
  <2>5. command = "setup" => \A more : more = unread' => MigratedBut(cursor, more)'
    BY <1>1, <1>4, <2>2
  <2>6. (process.command = "setup" => Migrated(process.cursor))'
    BY <2>4, <2>5 DEF Migrated, MigratedBut
  <2> QED
    BY <1>1, <1>2, <2>3, <2>6 DEF MigrationInv
<1> QED
  BY <1>3, <1>4

\* A step that has written everything has done what it owes.
LEMMA StepDone ==
  ASSUME MigrationInv, process.command = "setup", process.todo = {}, process.cursor < CURRENT_VERSION
  PROVE  MigratedBut(process.cursor + 1, unread)
<1>1. process.cursor \in {1, 2, 3}
  BY DEF MigrationInv, ProcessTypeOK, CURRENT_VERSION
<1>2. MigratedBut(process.cursor, unread) /\ StepCovers /\ \A op, i : ~Pending(op, i)
  BY DEF MigrationInv, Migrated, Pending
<1> DEFINE before == process.cursor
<1>3. /\ \A i \in Initiatives :
           /\ before >= 2 => ArtifactsDone(i) \/ <<2, i>> \in unread
           /\ before >= 3 /\ i \notin Archived =>
                /\ SessionsDone(i)
                /\ BriefDone(i) \/ <<3, i>> \in unread
                /\ HandoffDone(i) \/ <<3, i>> \in unread
      /\ before >= 3 => repairs = {} \/ <<3, Root>> \in unread
  BY <1>2, InParts
<1>4. /\ \A i \in Initiatives :
           /\ before = 1 => ArtifactsDone(i) \/ <<2, i>> \in unread
           /\ before = 2 /\ i \notin Archived =>
                /\ SessionsDone(i)
                /\ BriefDone(i) \/ <<3, i>> \in unread
                /\ HandoffDone(i) \/ <<3, i>> \in unread
           /\ before = 3 => WorktreesDone(i) \/ <<4, i>> \in unread
      /\ before = 2 => repairs = {} \/ <<3, Root>> \in unread
  BY <1>2 DEF StepCovers, SessionsDone
<1>5. /\ \A i \in Initiatives :
           /\ before + 1 >= 2 => ArtifactsDone(i) \/ <<2, i>> \in unread
           /\ before + 1 >= 3 /\ i \notin Archived =>
                /\ SessionsDone(i)
                /\ BriefDone(i) \/ <<3, i>> \in unread
                /\ HandoffDone(i) \/ <<3, i>> \in unread
           /\ before + 1 >= 4 => WorktreesDone(i) \/ <<4, i>> \in unread
      /\ before + 1 >= 3 => repairs = {} \/ <<3, Root>> \in unread
  BY <1>1, <1>3, <1>4
<1> QED
  BY <1>5, InParts

LEMMA ControlKeeps ==
  ASSUME MigrationInv, StartSetup \/ StartMigrate \/ RejectProposal \/ NextStep \/ Finish \/ Kill
  PROVE  MigrationInv'
<1>1. CASE StartSetup
  <2>1. Begin("setup", Level(stamp), {}) /\ stamp < CURRENT_VERSION /\ UNCHANGED <<stamp, data>>
    BY <1>1 DEF StartSetup
  <2>2. Level(stamp) \in 1..CURRENT_VERSION /\ MigratedBut(Level(stamp), {})
    BY <2>1 DEF MigrationInv, Level, NoVersion, TornVersion, CURRENT_VERSION
  <2> QED
    BY <2>1, <2>2, CommandsKeep
<1>2. CASE StartMigrate
  <2>1. Begin("migrate", 2, {}) /\ UNCHANGED <<stamp, data>>
    BY <1>2 DEF StartMigrate
  <2> QED
    BY <2>1, CommandsKeep DEF CURRENT_VERSION
<1>3. CASE RejectProposal \/ Finish \/ Kill
  BY <1>3, CommandsKeep DEF RejectProposal, Finish, Kill
<1>4. CASE NextStep
  <2>1. /\ process.command # "none" /\ process.todo = {} /\ process.cursor < CURRENT_VERSION
        /\ Begin(process.command, IF process.command = "setup" THEN process.cursor + 1 ELSE CURRENT_VERSION, unread)
        /\ UNCHANGED <<stamp, data>>
    BY <1>4 DEF NextStep
  <2>2. process.command \in {"setup", "migrate"} /\ process.cursor \in 1..CURRENT_VERSION
    BY <2>1 DEF MigrationInv, ProcessTypeOK
  <2>3. CASE process.command = "setup"
    <3>1. process.cursor + 1 \in 1..CURRENT_VERSION
      BY <2>1, <2>2 DEF CURRENT_VERSION
    <3>2. MigratedBut(process.cursor + 1, unread) /\ Begin("setup", process.cursor + 1, unread)
      BY <2>1, <2>3, StepDone
    <3> QED
      BY <2>1, <3>1, <3>2, CommandsKeep
  <2>4. CASE process.command # "setup"
    <3>1. Begin("migrate", CURRENT_VERSION, unread)
      BY <2>1, <2>2, <2>4
    <3> QED
      BY <2>1, <3>1, CommandsKeep DEF CURRENT_VERSION
  <2> QED
    BY <2>3, <2>4
<1> QED
  BY <1>1, <1>2, <1>3, <1>4

----------------------------------------------------------------------------
(* Migrations: the writes.                                                  *)

\* A write takes itself off what is pending; what comes before it is no longer there.
LEMMA Writing ==
  ASSUME ProcessTypeOK, NEW op, NEW i, Due(op, i),
         process' \in [command : {process.command}, cursor : {process.cursor}, todo : {After(op, i).todo},
                      dropped : SUBSET Initiatives]
  PROVE  /\ ProcessTypeOK' /\ Pending(op, i)
         /\ process'.cursor = process.cursor /\ process'.command = process.command
         /\ \A o, j : Pending(o, j)' <=> Pending(o, j) /\ (o # op \/ j # i)
         /\ \A o : Pending(o, i) => ~(Rank[o] < Rank[op])
<1>1. After(op, i).todo = process.todo \ {<<op, i>>}
  BY DEF ProcessTypeOK, After
<1>2. /\ process'.todo = process.todo \ {<<op, i>>}
      /\ process'.cursor = process.cursor /\ process'.command = process.command
  BY <1>1
<1>3. ProcessTypeOK'
  BY <1>1, <1>2 DEF ProcessTypeOK, ArtifactsPlan, WorktreesPlan, StampPlan, Active
<1>4. \A o, j : Pending(o, j)' <=> Pending(o, j) /\ (o # op \/ j # i)
  BY <1>2 DEF Pending
<1>5. Pending(op, i) /\ \A o : Pending(o, i) => ~(Rank[o] < Rank[op])
  BY DEF Due, Pending, Precedes
<1> QED
  BY <1>2, <1>3, <1>4, <1>5

LEMMA PlainWrite ==
  ASSUME ProcessTypeOK, NEW op, NEW i, Write(op, i)
  PROVE  /\ ProcessTypeOK' /\ Pending(op, i)
         /\ process'.cursor = process.cursor /\ process'.command = process.command
         /\ \A o, j : Pending(o, j)' <=> Pending(o, j) /\ (o # op \/ j # i)
         /\ \A o : Pending(o, i) => ~(Rank[o] < Rank[op])
<1>1. After(op, i) \in [command : {process.command}, cursor : {process.cursor}, todo : {After(op, i).todo},
                        dropped : SUBSET Initiatives]
  BY DEF ProcessTypeOK, After
<1>2. Due(op, i) /\ process' = After(op, i)
  BY DEF Write
<1> QED
  BY <1>1, <1>2, Writing

\* In which step an operation on an initiative may be pending.
LEMMA PendingWhen ==
  ASSUME ProcessTypeOK, NEW i
  PROVE  /\ Pending("artifacts", i) => process.cursor = 1
         /\ Pending("log", i) => process.cursor = 1
         /\ \A op \in LoopOps : Pending(op, i) => process.cursor = 2
         /\ \A op \in {"merge", "strip", "logmoved"} : Pending(op, i) => process.cursor = 3
         /\ \A op \in {"stamp", "stamped"} : Pending(op, i) => process.cursor = 4
<1>1. process.cursor \in {1, 2, 3, 4}
  BY DEF ProcessTypeOK, CURRENT_VERSION
<1>2. ASSUME NEW op, Pending(op, i)
      PROVE  /\ process.cursor = 1 => op \in {"artifacts", "log"}
             /\ process.cursor = 2 => op \in LoopOps
             /\ process.cursor = 3 => op \in {"merge", "strip", "logmoved"}
             /\ process.cursor = 4 => op \in {"stamp", "stamped"}
  BY <1>2 DEF Pending, ProcessTypeOK, ArtifactsPlan, WorktreesPlan, StampPlan
<1> QED
  BY <1>1, <1>2 DEF LoopOps

\* What one initiative has been taken through is not taken back.
Stays(i) ==
  /\ ArtifactsDone(i) => ArtifactsDone(i)'
  /\ SessionsDone(i) => SessionsDone(i)'
  /\ BriefDone(i) => BriefDone(i)'
  /\ HandoffDone(i) => HandoffDone(i)'
  /\ WorktreesDone(i) => WorktreesDone(i)'

LEMMA MigratedStays ==
  ASSUME \A i \in Initiatives : Stays(i), repairs' \subseteq repairs
  PROVE  \A version, passed, more : MigratedBut(version, passed) /\ passed \subseteq more
                                  => MigratedBut(version, more)'
<1>1. SUFFICES ASSUME NEW version, NEW passed, NEW more, MigratedBut(version, passed), passed \subseteq more
               PROVE  MigratedBut(version, more)'
  OBVIOUS
<1>2. /\ \A i \in Initiatives :
           /\ version >= 2 => ArtifactsDone(i) \/ <<2, i>> \in more
           /\ version >= 3 /\ i \notin Archived =>
                /\ SessionsDone(i)
                /\ BriefDone(i) \/ <<3, i>> \in more
                /\ HandoffDone(i) \/ <<3, i>> \in more
           /\ version >= 4 => WorktreesDone(i) \/ <<4, i>> \in more
      /\ version >= 3 => repairs = {} \/ <<3, Root>> \in more
  BY <1>1, InParts
<1>3. /\ \A i \in Initiatives :
           /\ version >= 2 => ArtifactsDone(i)' \/ <<2, i>> \in more
           /\ version >= 3 /\ i \notin Archived =>
                /\ SessionsDone(i)'
                /\ BriefDone(i)' \/ <<3, i>> \in more
                /\ HandoffDone(i)' \/ <<3, i>> \in more
           /\ version >= 4 => WorktreesDone(i)' \/ <<4, i>> \in more
      /\ version >= 3 => repairs' = {} \/ <<3, Root>> \in more
  BY <1>2 DEF Stays
<1> QED
  BY <1>3 DEF MigratedBut, ArtifactsDone, SessionsDone, BriefDone, HandoffDone, WorktreesDone

\* A write of an initiative that takes back nothing, and whose part of the data
\* and of the invariant is as it should be, keeps the invariant.
LEMMA WriteKeeps ==
  ASSUME MigrationInv, stamp' = stamp, unread \subseteq unread', DataTypeOK', ProcessTypeOK',
         process'.command = process.command, process'.cursor = process.cursor,
         ArchivingSafe', StrippingSafe', ArchivedBare',
         \A i \in Initiatives : Stays(i), repairs' \subseteq repairs,
         StepCovers => StepCovers'
  PROVE  MigrationInv'
<1>1. \A version, passed, more : MigratedBut(version, passed) /\ passed \subseteq more => MigratedBut(version, more)'
  BY MigratedStays
<1>2. (stamp < CURRENT_VERSION => MigratedBut(Level(stamp), {}))'
  <2>1. stamp < CURRENT_VERSION => MigratedBut(Level(stamp), {})
    BY DEF MigrationInv
  <2>2. ASSUME stamp < CURRENT_VERSION PROVE MigratedBut(Level(stamp), {})'
    <3>1. \A version : version = Level(stamp) => MigratedBut(version, {})'
      BY <1>1, <2>1, <2>2
    <3> QED
      BY <3>1 DEF MigratedBut, Level
  <2> QED
    BY <2>2
<1>3. (process.command = "setup" => Migrated(process.cursor))'
  <2>1. process.command = "setup" => MigratedBut(process.cursor, unread)
    BY DEF MigrationInv, Migrated
  <2>2. process.command = "setup" =>
          \A version, more : version = process.cursor /\ more = unread' => MigratedBut(version, more)'
    BY <1>1, <2>1
  <2> QED
    BY <2>2 DEF Migrated, MigratedBut
<1> QED
  BY <1>2, <1>3 DEF MigrationInv

LEMMA MigrateArtifactsKeeps ==
  ASSUME MigrationInv, NEW i \in Initiatives, MigrateArtifacts(i)
  PROVE  MigrationInv'
<1> DEFINE old == artifacts[i].old /\ ~artifacts[i].garbled
<1>1. DataTypeOK /\ ProcessTypeOK
  BY DEF MigrationInv
<1>2. /\ Due("artifacts", i)
      /\ process' = [After("artifacts", i) EXCEPT !.dropped = IF old THEN @ \cup {i} ELSE @]
      /\ artifacts' = IF old THEN [artifacts EXCEPT ![i].old = FALSE] ELSE artifacts
      /\ UNCHANGED <<stamp, brief, sessions, handoff, archive, repairs, unread>>
  BY DEF MigrateArtifacts
<1>3. process' \in [command : {process.command}, cursor : {process.cursor}, todo : {After("artifacts", i).todo},
                    dropped : SUBSET Initiatives]
  BY <1>1, <1>2 DEF ProcessTypeOK, After
<1>4. /\ ProcessTypeOK' /\ process'.cursor = process.cursor /\ process'.command = process.command
      /\ \A o, j : Pending(o, j)' <=> Pending(o, j) /\ (o # "artifacts" \/ j # i)
  BY <1>1, <1>2, <1>3, Writing
<1>5. /\ artifacts' \in [Initiatives -> [garbled : BOOLEAN, old : BOOLEAN, named : SUBSET Labels, observed : SUBSET Labels]]
      /\ \A j \in Initiatives : /\ artifacts'[j].garbled <=> artifacts[j].garbled
                                /\ artifacts'[j].named = artifacts[j].named
                                /\ ArtifactsDone(j) => ArtifactsDone(j)'
      /\ ArtifactsDone(i)'
  <2>1. artifacts \in [Initiatives -> [garbled : BOOLEAN, old : BOOLEAN, named : SUBSET Labels, observed : SUBSET Labels]]
    BY <1>1 DEF DataTypeOK
  <2>2. CASE old
    <3>1. artifacts' = [artifacts EXCEPT ![i].old = FALSE]
      BY <1>2, <2>2
    <3>2. artifacts' \in [Initiatives -> [garbled : BOOLEAN, old : BOOLEAN, named : SUBSET Labels, observed : SUBSET Labels]]
      BY <2>1, <3>1
    <3>3. \A j \in Initiatives : /\ artifacts'[j].garbled <=> artifacts[j].garbled
                                 /\ artifacts'[j].named = artifacts[j].named
                                 /\ artifacts'[j].old <=> artifacts[j].old /\ j # i
      BY <2>1, <3>1
    <3>4. \A j \in Initiatives : ArtifactsDone(j) => ArtifactsDone(j)'
      BY <2>1, <3>2, <3>3 DEF ArtifactsDone
    <3>5. ArtifactsDone(i)'
      BY <2>1, <3>2, <3>3 DEF ArtifactsDone
    <3> QED
      BY <3>2, <3>3, <3>4, <3>5
  <2>3. CASE ~old
    BY <1>2, <2>1, <2>3 DEF ArtifactsDone
  <2> QED
    BY <2>2, <2>3
<1>6. DataTypeOK'
  BY <1>1, <1>2, <1>5 DEF DataTypeOK
<1>7. ArchivingSafe' /\ StrippingSafe' /\ ArchivedBare'
  BY <1>2, <1>4, <1>5 DEF MigrationInv, ArchivingSafe, StrippingSafe, ArchivedBare, WorktreesDone, Registered
<1>8. \A j \in Initiatives : Stays(j) /\ (ArtifactsDone(j) => ArtifactsDone(j)')
                            /\ (BriefDone(j) => BriefDone(j)') /\ (HandoffDone(j) => HandoffDone(j)')
                            /\ (WorktreesDone(j) => WorktreesDone(j)')
  BY <1>2, <1>5 DEF Stays, SessionsDone, BriefDone, HandoffDone, WorktreesDone
<1>9. StepCovers => StepCovers'
  BY <1>2, <1>4, <1>5, <1>8, MigrationAssumption DEF StepCovers
<1> QED
  BY <1>2, <1>4, <1>5, <1>6, <1>7, <1>8, <1>9, WriteKeeps

\* What is written into one place of the session or archive data.
Backfilled(i) == [brief[i] EXCEPT !.backfill = "done", !.worktrees = {}, !.pathless = FALSE]
LoopWrite(op, i) ==
  /\ Write(op, i) /\ UNCHANGED <<stamp, artifacts, repairs, unread>> /\ DataTypeOK'
  /\ \A j \in Initiatives \ {i} : /\ brief'[j] = brief[j] /\ sessions'[j] = sessions[j]
                                /\ handoff'[j] = handoff[j] /\ archive'[j] = archive[j]
  /\ brief'[i] = IF op = "seq" THEN Backfilled(i) ELSE brief[i]
  /\ sessions[i] \subseteq sessions'[i]
  /\ op \in {"open", "abandon"} => op \in sessions'[i]
  /\ handoff'[i] <=> handoff[i] /\ op # "remove"
  /\ archive'[i] = IF op = "copy" THEN "torn" ELSE IF op = "copied" THEN "whole" ELSE archive[i]

LEMMA LoopWritesKeep ==
  ASSUME MigrationInv, NEW i \in Initiatives, NEW op \in {"open", "abandon", "seq", "copied", "copy", "remove"},
         LoopWrite(op, i)
  PROVE  MigrationInv'
<1> USE DEF LoopWrite
<1>1. ProcessTypeOK /\ process.cursor = 2
  BY PlainWrite, PendingWhen DEF MigrationInv, LoopOps
<1>2. /\ ProcessTypeOK' /\ Pending(op, i)
      /\ process'.cursor = process.cursor /\ process'.command = process.command
      /\ \A o, j : Pending(o, j)' <=> Pending(o, j) /\ (o # op \/ j # i)
      /\ \A o : Pending(o, i) => ~(Rank[o] < Rank[op])
  BY <1>1, PlainWrite
<1>3. /\ Rank["copy"] = 4 /\ Rank["copied"] = 5 /\ Rank["remove"] = 6
  BY DEF Rank
<1>4. ArchivingSafe'
  <2>1. SUFFICES ASSUME NEW j \in Initiatives
        PROVE  /\ Pending("copy", j)' => Pending("copied", j)'
               /\ Pending("copied", j)' => Pending("remove", j)'
               /\ Pending("remove", j)' => handoff'[j] /\ (Pending("copied", j)' \/ archive'[j] = "whole")
    BY DEF ArchivingSafe
  <2>2. /\ Pending("copy", j) => Pending("copied", j)
        /\ Pending("copied", j) => Pending("remove", j)
        /\ Pending("remove", j) => handoff[j] /\ (Pending("copied", j) \/ archive[j] = "whole")
    BY DEF MigrationInv, ArchivingSafe
  <2>3. CASE j # i
    BY <1>2, <2>2, <2>3
  <2>4. CASE j = i
    <3>1. op = "copied" => ~Pending("copy", i)
      BY <1>2, <1>3
    <3>2. op = "remove" => ~Pending("copied", i)
      BY <1>2, <1>3
    <3> QED
      BY <1>2, <2>2, <2>4, <3>1, <3>2
  <2> QED
    BY <2>3, <2>4
<1>5. StrippingSafe'
  <2>1. SUFFICES ASSUME NEW j \in Initiatives
        PROVE  ~Pending("merge", j)' /\ ~Pending("strip", j)' /\ (Pending("seq", j)' => brief'[j].backfill = "due")
    BY DEF StrippingSafe
  <2>2. ~Pending("merge", j) /\ ~Pending("strip", j)
    BY <1>1, PendingWhen
  <2>3. Pending("seq", j) => brief[j].backfill = "due"
    BY DEF MigrationInv, StrippingSafe
  <2>4. Pending("seq", j)' => j # i \/ op # "seq"
    BY <1>2
  <2> QED
    BY <1>2, <2>2, <2>3, <2>4
<1>6. \A j \in Initiatives :
        /\ SessionsDone(j) => SessionsDone(j)'
        /\ ArtifactsDone(j) => ArtifactsDone(j)'
        /\ BriefDone(j) \/ (op = "seq" /\ j = i) => BriefDone(j)'
        /\ HandoffDone(j) \/ (op = "copy" /\ j = i) => HandoffDone(j)'
        /\ WorktreesDone(j) => WorktreesDone(j)'
  <2>1. TAKE j \in Initiatives
  <2>2. CASE j # i
    BY <2>2 DEF SessionsDone, ArtifactsDone, BriefDone, HandoffDone, WorktreesDone
  <2>3. CASE j = i
    <3>1. brief[i] \in Briefs
      BY DEF MigrationInv, DataTypeOK
    <3>2. /\ BriefDone(j) \/ op = "seq" => BriefDone(j)'
          /\ WorktreesDone(j) => WorktreesDone(j)'
      BY <2>3, <3>1 DEF BriefDone, WorktreesDone, Briefs, Backfilled
    <3>3. (SessionsDone(j) => SessionsDone(j)') /\ (ArtifactsDone(j) => ArtifactsDone(j)')
      BY <2>3 DEF SessionsDone, ArtifactsDone
    <3>4. HandoffDone(j) \/ op = "copy" => HandoffDone(j)'
      BY <2>3 DEF HandoffDone
    <3> QED
      BY <3>2, <3>3, <3>4
  <2> QED
    BY <2>2, <2>3
<1>7. ArchivedBare'
  BY <1>6, MigrationAssumption DEF MigrationInv, ArchivedBare
<1>8. StepCovers => StepCovers'
  <2>1. SUFFICES ASSUME StepCovers PROVE StepCovers'
    OBVIOUS
  <2>2. ASSUME NEW j \in Initiatives, j \notin Archived
        PROVE  /\ j \in Covered => "open" \in sessions'[j] \/ Pending("open", j)'
               /\ j \in Dead => "abandon" \in sessions'[j] \/ Pending("abandon", j)'
               /\ BriefDone(j)' \/ <<3, j>> \in unread' \/ Pending("seq", j)'
               /\ HandoffDone(j)' \/ <<3, j>> \in unread' \/ Pending("copy", j)'
    <3>1. /\ j \in Covered => "open" \in sessions[j] \/ Pending("open", j)
          /\ j \in Dead => "abandon" \in sessions[j] \/ Pending("abandon", j)
          /\ BriefDone(j) \/ <<3, j>> \in unread \/ Pending("seq", j)
          /\ HandoffDone(j) \/ <<3, j>> \in unread \/ Pending("copy", j)
      BY <1>1, <2>1, <2>2 DEF StepCovers
    <3>2. sessions[j] \subseteq sessions'[j]
      BY <2>2
    <3>3. \A kind \in {"open", "abandon"} : op = kind /\ j = i => kind \in sessions'[j]
      OBVIOUS
    <3> QED
      BY <1>2, <1>6, <2>2, <3>1, <3>2, <3>3
  <2>3. \A repair \in repairs' : <<3, Root>> \in unread' \/ Pending(repair, Root)'
    BY <1>1, <1>2, <2>1, MigrationAssumption DEF StepCovers
  <2> QED
    BY <1>1, <1>2, <2>2, <2>3 DEF StepCovers
<1>9. \A j \in Initiatives : Stays(j)
  BY <1>6 DEF Stays
<1> QED
  BY <1>2, <1>4, <1>5, <1>7, <1>8, <1>9, WriteKeeps

LEMMA LoopActionsKeep ==
  ASSUME MigrationInv, NEW i \in Initiatives,
         WriteSession(i) \/ WriteBrief(i) \/ CopyHandoff(i) \/ RemoveHandoff(i)
  PROVE  MigrationInv'
<1>1. DataTypeOK
  BY DEF MigrationInv
<1>2. CASE WriteSession(i)
  <2>1. PICK kind \in {"open", "abandon"} : Write(kind, i) /\ sessions' = [sessions EXCEPT ![i] = @ \cup {kind}]
    BY <1>2 DEF WriteSession
  <2>2. UNCHANGED <<stamp, artifacts, brief, handoff, archive, repairs, unread>>
    BY <1>2 DEF WriteSession
  <2>3. DataTypeOK'
    BY <1>1, <2>1, <2>2 DEF DataTypeOK
  <2>4. sessions'[i] = sessions[i] \cup {kind} /\ \A j \in Initiatives \ {i} : sessions'[j] = sessions[j]
    BY <1>1, <2>1 DEF DataTypeOK
  <2>5. /\ \A j \in Initiatives \ {i} : /\ brief'[j] = brief[j] /\ sessions'[j] = sessions[j]
                                     /\ handoff'[j] = handoff[j] /\ archive'[j] = archive[j]
        /\ kind # "seq" /\ brief'[i] = brief[i]
        /\ sessions[i] \subseteq sessions'[i] /\ kind \in sessions'[i]
        /\ kind # "remove" /\ (handoff'[i] <=> handoff[i])
        /\ kind # "copy" /\ kind # "copied" /\ archive'[i] = archive[i]
    BY <2>2, <2>4
  <2>6. LoopWrite(kind, i)
    BY <2>1, <2>2, <2>3, <2>5 DEF LoopWrite
  <2> QED
    BY <2>6, LoopWritesKeep
<1>3. CASE WriteBrief(i)
  <2>1. Write("seq", i) /\ brief' = [brief EXCEPT ![i] = Backfilled(i)]
    BY <1>3 DEF WriteBrief, Backfilled
  <2>2. UNCHANGED <<stamp, artifacts, sessions, handoff, archive, repairs, unread>>
    BY <1>3 DEF WriteBrief
  <2>3. brief \in [Initiatives -> Briefs] /\ Backfilled(i) \in Briefs
    <3>1. brief \in [Initiatives -> Briefs]
      BY <1>1 DEF DataTypeOK
    <3>2. brief[i] \in Briefs
      BY <3>1
    <3> QED
      BY <3>1, <3>2 DEF Briefs, Backfilled
  <2>4. brief' \in [Initiatives -> Briefs]
    BY <2>1, <2>3
  <2>5. DataTypeOK'
    BY <1>1, <2>2, <2>4 DEF DataTypeOK
  <2>6. brief'[i] = Backfilled(i) /\ \A j \in Initiatives \ {i} : brief'[j] = brief[j]
    BY <2>1, <2>3
  <2>7. handoff'[i] <=> handoff[i]
    BY <2>2
  <2>8. LoopWrite("seq", i)
    BY <2>1, <2>2, <2>5, <2>6, <2>7 DEF LoopWrite
  <2> QED
    BY <2>8, LoopWritesKeep
<1>4. CASE CopyHandoff(i)
  <2>1. PICK op \in {"copy", "copied"} :
          Write(op, i) /\ archive' = [archive EXCEPT ![i] = IF op = "copy" THEN "torn" ELSE "whole"]
    BY <1>4 DEF CopyHandoff
  <2>2. UNCHANGED <<stamp, artifacts, brief, sessions, handoff, repairs, unread>>
    BY <1>4 DEF CopyHandoff
  <2>3. DataTypeOK'
    BY <1>1, <2>1, <2>2 DEF DataTypeOK
  <2>4. /\ archive'[i] = IF op = "copy" THEN "torn" ELSE "whole"
        /\ \A j \in Initiatives \ {i} : archive'[j] = archive[j]
    BY <1>1, <2>1 DEF DataTypeOK
  <2>5. handoff'[i] <=> handoff[i]
    BY <2>2
  <2>6. LoopWrite(op, i)
    BY <2>1, <2>2, <2>3, <2>4, <2>5 DEF LoopWrite
  <2> QED
    BY <2>6, LoopWritesKeep
<1>5. CASE RemoveHandoff(i)
  <2>1. Write("remove", i) /\ handoff' = [handoff EXCEPT ![i] = FALSE]
        /\ UNCHANGED <<stamp, artifacts, brief, sessions, archive, repairs, unread>>
    BY <1>5 DEF RemoveHandoff
  <2>2. DataTypeOK'
    BY <1>1, <2>1 DEF DataTypeOK
  <2>3. ~handoff'[i] /\ \A j \in Initiatives \ {i} : handoff'[j] = handoff[j]
    BY <1>1, <2>1 DEF DataTypeOK
  <2>4. LoopWrite("remove", i)
    BY <2>1, <2>2, <2>3 DEF LoopWrite
  <2> QED
    BY <2>4, LoopWritesKeep
<1> QED
  BY <1>2, <1>3, <1>4, <1>5

LEMMA MergeKeeps ==
  ASSUME MigrationInv, NEW i \in Initiatives, MergeWorktrees(i)
  PROVE  MigrationInv'
<1>1. Write("merge", i) /\ UNCHANGED <<stamp, brief, sessions, handoff, archive, repairs>> /\ unread \subseteq unread'
  BY DEF MergeWorktrees
<1>2. DataTypeOK /\ ProcessTypeOK /\ process.cursor = 3
  BY <1>1, PlainWrite, PendingWhen DEF MigrationInv
<1>3. /\ ProcessTypeOK' /\ Pending("merge", i)
      /\ process'.cursor = process.cursor /\ process'.command = process.command
      /\ \A o, j : Pending(o, j)' <=> Pending(o, j) /\ (o # "merge" \/ j # i)
  BY <1>1, <1>2, PlainWrite
<1>4. /\ artifacts' \in [Initiatives -> [garbled : BOOLEAN, old : BOOLEAN, named : SUBSET Labels, observed : SUBSET Labels]]
      /\ \A j \in Initiatives \ {i} : artifacts'[j] = artifacts[j]
      /\ brief[i].worktrees \subseteq Registered(i)' /\ (ArtifactsDone(i) => ArtifactsDone(i)')
  <2>1. CASE brief[i].worktrees = {} /\ UNCHANGED artifacts
    BY <1>2, <2>1 DEF DataTypeOK, ArtifactsDone
  <2>2. ASSUME NEW fails \in BOOLEAN, artifacts' = [artifacts EXCEPT ![i] = Merged(i, Found(i, fails))]
        PROVE  /\ artifacts' \in [Initiatives -> [garbled : BOOLEAN, old : BOOLEAN, named : SUBSET Labels,
                                                 observed : SUBSET Labels]]
               /\ \A j \in Initiatives \ {i} : artifacts'[j] = artifacts[j]
               /\ brief[i].worktrees \subseteq Registered(i)' /\ (ArtifactsDone(i) => ArtifactsDone(i)')
    <3>1. /\ artifacts \in [Initiatives -> [garbled : BOOLEAN, old : BOOLEAN, named : SUBSET Labels,
                                            observed : SUBSET Labels]]
          /\ brief[i].worktrees \subseteq Labels
      BY <1>2 DEF DataTypeOK, Briefs
    <3>2. Found(i, fails).named \subseteq Labels /\ Found(i, fails).observed \subseteq Labels
      BY <3>1 DEF Found, Registered
    <3>3. /\ Merged(i, Found(i, fails)) \in [garbled : BOOLEAN, old : BOOLEAN, named : SUBSET Labels,
                                             observed : SUBSET Labels]
          /\ brief[i].worktrees \subseteq Merged(i, Found(i, fails)).named
          /\ ~Merged(i, Found(i, fails)).garbled /\ ~Merged(i, Found(i, fails)).old
      BY <3>1, <3>2 DEF Merged
    <3>4. artifacts'[i] = Merged(i, Found(i, fails)) /\ \A j \in Initiatives \ {i} : artifacts'[j] = artifacts[j]
      BY <2>2, <3>1
    <3> QED
      BY <2>2, <3>1, <3>3, <3>4 DEF Registered, ArtifactsDone
  <2> QED
    BY <2>1, <2>2 DEF MergeWorktrees
<1>5. DataTypeOK'
  BY <1>1, <1>2, <1>4 DEF DataTypeOK
<1>6. \A j \in Initiatives : /\ Stays(j) /\ (WorktreesDone(j)' <=> WorktreesDone(j))
  BY <1>1, <1>4 DEF Stays, ArtifactsDone, SessionsDone, BriefDone, HandoffDone, WorktreesDone
<1>7. ArchivingSafe' /\ ArchivedBare'
  BY <1>1, <1>3 DEF MigrationInv, ArchivingSafe, ArchivedBare, WorktreesDone
<1>8. StrippingSafe'
  <2>1. SUFFICES ASSUME NEW j \in Initiatives
        PROVE  /\ Pending("seq", j)' => brief'[j].backfill = "due"
               /\ Pending("merge", j)' => Pending("strip", j)'
               /\ Pending("strip", j)' => Pending("merge", j)' \/ brief'[j].worktrees \subseteq Registered(j)'
    BY DEF StrippingSafe
  <2>2. CASE j = i
    BY <1>1, <1>3, <1>4, <2>2 DEF MigrationInv, StrippingSafe
  <2>3. CASE j # i
    BY <1>1, <1>3, <1>4, <2>3 DEF MigrationInv, StrippingSafe, Registered
  <2> QED
    BY <2>2, <2>3
<1>9. StepCovers => StepCovers'
  BY <1>1, <1>2, <1>3, <1>6 DEF StepCovers
<1> QED
  BY <1>1, <1>3, <1>5, <1>6, <1>7, <1>8, <1>9, WriteKeeps

LEMMA StripKeeps ==
  ASSUME MigrationInv, NEW i \in Initiatives, StripBrief(i)
  PROVE  MigrationInv'
<1>1. /\ Write("strip", i) /\ UNCHANGED <<stamp, artifacts, sessions, handoff, archive, repairs, unread>>
      /\ brief' = [brief EXCEPT ![i] = [@ EXCEPT !.worktrees = {}, !.pathless = FALSE]]
  BY DEF StripBrief
<1>2. DataTypeOK /\ ProcessTypeOK /\ process.cursor = 3
  BY <1>1, PlainWrite, PendingWhen DEF MigrationInv
<1>3. /\ ProcessTypeOK' /\ Pending("strip", i)
      /\ process'.cursor = process.cursor /\ process'.command = process.command
      /\ \A o, j : Pending(o, j)' <=> Pending(o, j) /\ (o # "strip" \/ j # i)
      /\ \A o : Pending(o, i) => ~(Rank[o] < Rank["strip"])
  BY <1>1, <1>2, PlainWrite
<1>4. ~Pending("merge", i)
  BY <1>3 DEF Rank
<1>5. DataTypeOK'
  <2>1. brief \in [Initiatives -> Briefs]
    BY <1>2 DEF DataTypeOK
  <2>2. [brief[i] EXCEPT !.worktrees = {}, !.pathless = FALSE] \in Briefs
    BY <2>1 DEF Briefs
  <2>3. brief' = [brief EXCEPT ![i] = [brief[i] EXCEPT !.worktrees = {}, !.pathless = FALSE]]
    BY <1>1
  <2>4. brief' \in [Initiatives -> Briefs]
    BY <2>1, <2>2, <2>3
  <2> QED
    BY <1>1, <1>2, <2>4 DEF DataTypeOK
<1>6. /\ brief'[i].worktrees = {} /\ ~brief'[i].pathless /\ brief'[i].backfill = brief[i].backfill
      /\ \A j \in Initiatives \ {i} : brief'[j] = brief[j]
  BY <1>1, <1>2 DEF DataTypeOK, Briefs
<1>7. \A j \in Initiatives : Stays(j) /\ (WorktreesDone(j) \/ j = i => WorktreesDone(j)')
  BY <1>1, <1>6 DEF Stays, ArtifactsDone, SessionsDone, BriefDone, HandoffDone, WorktreesDone
<1>8. ArchivingSafe' /\ ArchivedBare'
  BY <1>1, <1>3, <1>7, MigrationAssumption DEF MigrationInv, ArchivingSafe, ArchivedBare
<1>9. StrippingSafe'
  BY <1>1, <1>3, <1>4, <1>6 DEF MigrationInv, StrippingSafe, Registered
<1>10. StepCovers => StepCovers'
  BY <1>1, <1>2, <1>3, <1>7 DEF StepCovers
<1> QED
  BY <1>1, <1>3, <1>5, <1>7, <1>8, <1>9, <1>10, WriteKeeps

\* A write for the whole root leaves the initiatives alone.
LEMMA RootWritesKeep ==
  ASSUME MigrationInv, AppendLog \/ Repair \/ LogMoved \/ WriteStamp
  PROVE  MigrationInv'
<1>1. PICK op \in {"log", "retrack", "relocate", "logmoved", "stamp", "stamped"} :
        /\ Write(op, Root)
        /\ stamp' = IF op = "stamp" THEN TornVersion ELSE IF op = "stamped" THEN CURRENT_VERSION ELSE stamp
        /\ repairs' = repairs \ ({op} \cap {"retrack", "relocate"})
        /\ UNCHANGED <<artifacts, brief, sessions, handoff, archive, unread>>
  <2>1. CASE AppendLog
    <3>1. Write("log", Root) /\ UNCHANGED <<stamp, repairs, artifacts, brief, sessions, handoff, archive, unread>>
      BY <2>1 DEF AppendLog
    <3> QED
      BY <3>1
  <2>2. CASE Repair
    <3>1. PICK repair \in {"retrack", "relocate"} : Write(repair, Root) /\ repairs' = repairs \ {repair}
      BY <2>2 DEF Repair
    <3>2. UNCHANGED <<stamp, artifacts, brief, sessions, handoff, archive, unread>>
      BY <2>2 DEF Repair
    <3> QED
      BY <3>1, <3>2
  <2>3. CASE LogMoved
    <3>1. Write("logmoved", Root) /\ UNCHANGED <<stamp, repairs, artifacts, brief, sessions, handoff, archive, unread>>
      BY <2>3 DEF LogMoved, data
    <3> QED
      BY <3>1
  <2>4. CASE WriteStamp
    <3>1. UNCHANGED <<repairs, artifacts, brief, sessions, handoff, archive, unread>>
      BY <2>4 DEF WriteStamp, data
    <3>2. \/ Write("stamp", Root) /\ stamp' = TornVersion
          \/ Write("stamped", Root) /\ stamp' = CURRENT_VERSION
      BY <2>4 DEF WriteStamp
    <3> QED
      BY <3>1, <3>2
  <2> QED
    BY <2>1, <2>2, <2>3, <2>4
<1>2. ProcessTypeOK
  BY DEF MigrationInv
<1>3. /\ ProcessTypeOK' /\ process'.cursor = process.cursor /\ process'.command = process.command
      /\ \A o, j : Pending(o, j)' <=> Pending(o, j) /\ (o # op \/ j # Root)
  BY <1>1, <1>2, PlainWrite
<1>4. \A j \in Initiatives : j # Root
  BY MigrationAssumption
<1>5. DataTypeOK' /\ ArchivedBare'
  BY <1>1 DEF MigrationInv, DataTypeOK, ArchivedBare, WorktreesDone
<1>6. ArchivingSafe' /\ StrippingSafe'
  BY <1>1, <1>3, <1>4 DEF MigrationInv, ArchivingSafe, StrippingSafe, Registered
<1>7. \A j \in Initiatives :
        /\ Stays(j) /\ (ArtifactsDone(j)' <=> ArtifactsDone(j)) /\ (BriefDone(j)' <=> BriefDone(j))
        /\ (HandoffDone(j)' <=> HandoffDone(j)) /\ (WorktreesDone(j)' <=> WorktreesDone(j))
  BY <1>1 DEF Stays, ArtifactsDone, SessionsDone, BriefDone, HandoffDone, WorktreesDone
<1>8. StepCovers => StepCovers'
  BY <1>1, <1>3, <1>4, <1>7 DEF StepCovers, MigrationInv, DataTypeOK
<1>9. \A version, passed, more : MigratedBut(version, passed) /\ passed \subseteq more => MigratedBut(version, more)'
  BY <1>1, <1>7, MigratedStays
<1>10. (stamp < CURRENT_VERSION => MigratedBut(Level(stamp), {}))' /\ stamp' \in NoVersion..TornVersion
  <2>1. stamp' \in NoVersion..TornVersion
    BY <1>1 DEF MigrationInv, CURRENT_VERSION, TornVersion, NoVersion
  <2>2. ASSUME stamp' < CURRENT_VERSION PROVE MigratedBut(Level(stamp), {})'
    <3>1. stamp' = stamp
      BY <1>1, <2>2 DEF CURRENT_VERSION, TornVersion
    <3>2. \A version : version = Level(stamp) => MigratedBut(version, {})'
      BY <1>9, <2>2, <3>1 DEF MigrationInv
    <3>3. Level(stamp)' = Level(stamp)
      BY <3>1 DEF Level
    <3> QED
      BY <3>2, <3>3 DEF MigratedBut
  <2> QED
    BY <2>1, <2>2
<1>11. (process.command = "setup" => Migrated(process.cursor))'
  <2>1. process.command = "setup" => \A version, more : version = process.cursor /\ more = unread' => MigratedBut(version, more)'
    BY <1>1, <1>9 DEF MigrationInv, Migrated
  <2> QED
    BY <1>3, <2>1 DEF Migrated, MigratedBut
<1> QED
  BY <1>3, <1>5, <1>6, <1>8, <1>10, <1>11 DEF MigrationInv

LEMMA RefuseKeeps ==
  ASSUME MigrationInv, NEW i \in Initiatives, RefuseMerge(i)
  PROVE  MigrationInv'
  BY CommandsKeep DEF RefuseMerge

----------------------------------------------------------------------------
(* Migrations: the theorems.                                                *)

\* The behaviours of the migrations.
MigrationSpec == MigrationsInit /\ [][MigrationsNext]_migrationVars

LEMMA MigrationInductive == MigrationInv /\ [MigrationsNext]_migrationVars => MigrationInv'
<1> SUFFICES ASSUME MigrationInv, [MigrationsNext]_migrationVars PROVE MigrationInv'
  OBVIOUS
<1>1. CASE MigrationsNext
  <2>1. CASE StartSetup \/ StartMigrate \/ RejectProposal \/ NextStep \/ Finish \/ Kill
    BY <2>1, ControlKeeps
  <2>2. CASE AppendLog \/ Repair \/ LogMoved \/ WriteStamp
    BY <2>2, RootWritesKeep
  <2>3. ASSUME NEW i \in Initiatives, MigrateArtifacts(i) PROVE MigrationInv'
    BY <2>3, MigrateArtifactsKeeps
  <2>4. ASSUME NEW i \in Initiatives, WriteSession(i) \/ WriteBrief(i) \/ CopyHandoff(i) \/ RemoveHandoff(i)
        PROVE  MigrationInv'
    BY <2>4, LoopActionsKeep
  <2>5. ASSUME NEW i \in Initiatives, MergeWorktrees(i) \/ RefuseMerge(i) \/ StripBrief(i) PROVE MigrationInv'
    BY <2>5, MergeKeeps, RefuseKeeps, StripKeeps
  <2> QED
    BY <1>1, <2>1, <2>2, <2>3, <2>4, <2>5 DEF MigrationsNext
<1>2. CASE UNCHANGED migrationVars
  <2>1. UNCHANGED <<stamp, process, artifacts, brief, sessions, handoff, archive, repairs, unread>>
    BY <1>2 DEF migrationVars, data
  <2>2. DataTypeOK' /\ ProcessTypeOK' /\ ArchivedBare' /\ ArchivingSafe' /\ StrippingSafe'
    BY <2>1 DEF MigrationInv, DataTypeOK, ProcessTypeOK, ArchivedBare, WorktreesDone, ArchivingSafe, StrippingSafe,
         Pending, Registered
  <2>3. StepCovers => StepCovers'
    BY <2>1 DEF StepCovers, ArtifactsDone, BriefDone, HandoffDone, WorktreesDone, Pending
  <2>4. \A j \in Initiatives : Stays(j)
    BY <2>1 DEF Stays, ArtifactsDone, SessionsDone, BriefDone, HandoffDone, WorktreesDone
  <2>5. stamp' = stamp /\ unread \subseteq unread' /\ repairs' \subseteq repairs
        /\ process'.command = process.command /\ process'.cursor = process.cursor
    BY <2>1
  <2> QED
    BY <2>2, <2>3, <2>4, <2>5, WriteKeeps
<1> QED
  BY <1>1, <1>2

LEMMA MigrationInvariant == MigrationSpec => []MigrationInv
  BY MigrationsStart, MigrationInductive, PTL DEF MigrationSpec

\* What one write does to a handoff and to the worktrees of an initiative.
HandoffKept(i) == handoff[i] \/ archive[i] = "whole" => handoff'[i] \/ archive'[i] = "whole"
NamesKept(i) == Registered(i) \subseteq Registered(i)' \/ <<NoVersion, i>> \in unread'
WorktreesKept(i) ==
  \/ brief[i].worktrees \subseteq Registered(i)' \cup brief'[i].worktrees
  \/ brief[i].backfill = "due" /\ brief'[i].backfill = "done"

LEMMA NothingTaken ==
  ASSUME MigrationInv, MigrationsNext, NEW i \in Initiatives
  PROVE  HandoffKept(i) /\ NamesKept(i) /\ WorktreesKept(i)
<1>1. DataTypeOK /\ ProcessTypeOK /\ ArchivingSafe /\ StrippingSafe
  BY DEF MigrationInv
<1>2. CASE UNCHANGED <<artifacts, brief, handoff, archive>>
  BY <1>2 DEF Registered, HandoffKept, NamesKept, WorktreesKept
<1>3. ASSUME NEW j \in Initiatives, MigrateArtifacts(j) PROVE Registered(i)' = Registered(i) /\ UNCHANGED <<brief, handoff, archive>>
  <2>1. artifacts' = artifacts \/ artifacts' = [artifacts EXCEPT ![j].old = FALSE]
    BY <1>3 DEF MigrateArtifacts
  <2> QED
    BY <1>1, <1>3, <2>1 DEF DataTypeOK, MigrateArtifacts, Registered
<1>4. ASSUME NEW j \in Initiatives, WriteBrief(j) PROVE WorktreesKept(i) /\ UNCHANGED <<artifacts, handoff, archive>>
  <2>1. UNCHANGED <<artifacts, handoff, archive>> /\ Pending("seq", j)
    BY <1>1, <1>4, PlainWrite DEF WriteBrief
  <2>2. brief[j].backfill = "due"
    BY <1>1, <2>1 DEF StrippingSafe
  <2>3. /\ i # j => brief'[i] = brief[i]
        /\ i = j => brief'[i].backfill = "done"
    BY <1>1, <1>4 DEF DataTypeOK, Briefs, WriteBrief
  <2> QED
    BY <2>1, <2>2, <2>3 DEF WorktreesKept
<1>5. ASSUME NEW j \in Initiatives, CopyHandoff(j)
      PROVE  HandoffKept(i) /\ UNCHANGED <<artifacts, brief>>
  <2>1. PICK op \in {"copy", "copied"} : Write(op, j) /\ archive' = [archive EXCEPT ![j] = IF op = "copy" THEN "torn" ELSE "whole"]
    BY <1>5 DEF CopyHandoff
  <2>2. Pending(op, j)
    BY <1>1, <2>1, PlainWrite
  <2>3. handoff[j]
    BY <1>1, <2>2 DEF ArchivingSafe
  <2> QED
    BY <1>1, <1>5, <2>1, <2>3 DEF DataTypeOK, CopyHandoff, HandoffKept
<1>6. ASSUME NEW j \in Initiatives, RemoveHandoff(j)
      PROVE  HandoffKept(i) /\ UNCHANGED <<artifacts, brief>>
  <2>1. Pending("remove", j) /\ \A o : Pending(o, j) => ~(Rank[o] < Rank["remove"])
    BY <1>1, <1>6, PlainWrite DEF RemoveHandoff
  <2>2. archive[j] = "whole"
    BY <1>1, <2>1 DEF ArchivingSafe, Rank
  <2> QED
    BY <1>1, <1>6, <2>2 DEF DataTypeOK, RemoveHandoff, HandoffKept
<1>7. ASSUME NEW j \in Initiatives, MergeWorktrees(j)
      PROVE  NamesKept(i) /\ UNCHANGED <<brief, handoff, archive>>
  <2>1. UNCHANGED <<brief, handoff, archive>>
    BY <1>7 DEF MergeWorktrees
  <2>2. CASE artifacts' = artifacts
    <3>1. Registered(i)' = Registered(i)
      BY <2>2 DEF Registered
    <3> QED
      BY <2>1, <3>1 DEF NamesKept
  <2>3. ASSUME NEW fails \in BOOLEAN, artifacts' = [artifacts EXCEPT ![j] = Merged(j, Found(j, fails))],
               fails => <<NoVersion, j>> \in unread'
        PROVE  NamesKept(i)
    <3>1. artifacts'[i] = IF i = j THEN Merged(j, Found(j, fails)) ELSE artifacts[i]
      BY <1>1, <2>3 DEF DataTypeOK
    <3>2. CASE i = j /\ fails
      BY <2>3, <3>2 DEF NamesKept
    <3>3. CASE i = j /\ ~fails
      BY <3>1, <3>3 DEF NamesKept, Registered, Found, Merged
    <3>4. CASE i # j
      BY <3>1, <3>4 DEF NamesKept, Registered
    <3> QED
      BY <3>2, <3>3, <3>4
  <2> QED
    BY <1>7, <2>1, <2>2, <2>3 DEF MergeWorktrees
<1>8. ASSUME NEW j \in Initiatives, StripBrief(j)
      PROVE  WorktreesKept(i) /\ UNCHANGED <<artifacts, handoff, archive>>
  <2>1. Pending("strip", j) /\ \A o : Pending(o, j) => ~(Rank[o] < Rank["strip"])
    BY <1>1, <1>8, PlainWrite DEF StripBrief
  <2>2. brief[j].worktrees \subseteq Registered(j)
    BY <1>1, <2>1 DEF StrippingSafe, Rank
  <2>3. i # j => brief'[i] = brief[i]
    BY <1>1, <1>8 DEF DataTypeOK, StripBrief
  <2> QED
    BY <1>8, <2>2, <2>3 DEF StripBrief, WorktreesKept, Registered
<1>9. \/ UNCHANGED <<artifacts, brief, handoff, archive>>
      \/ \E j \in Initiatives : \/ MigrateArtifacts(j) \/ WriteBrief(j) \/ CopyHandoff(j) \/ RemoveHandoff(j)
                                \/ MergeWorktrees(j) \/ StripBrief(j)
  BY DEF MigrationsNext, StartSetup, StartMigrate, RejectProposal, NextStep, Finish, Kill, AppendLog, Repair, LogMoved,
         WriteStamp, WriteSession, RefuseMerge, data
<1> QED
  BY <1>2, <1>3, <1>4, <1>5, <1>6, <1>7, <1>8, <1>9 DEF Registered, HandoffKept, NamesKept, WorktreesKept

\* No write of any run of any migration, killed and repeated as it may be, takes away a
\* handoff that is not archived, a worktree of artifacts.yml unless v3 -> v4 failed to read
\* the file, or one of a brief that is not registered, unless the backfill of v2 -> v3
\* rewrites that brief (archiveHandoff, applyInitiative, migrateOne).
THEOREM MigrationsKeep == MigrationSpec => MigrationKeeps
<1>1. MigrationInv /\ [MigrationsNext]_migrationVars =>
        [\A i \in Initiatives :
           /\ handoff[i] \/ archive[i] = "whole" => handoff'[i] \/ archive'[i] = "whole"
           /\ Registered(i) \subseteq Registered(i)' \/ <<NoVersion, i>> \in unread'
           /\ \/ brief[i].worktrees \subseteq Registered(i)' \cup brief'[i].worktrees
              \/ brief[i].backfill = "due" /\ brief'[i].backfill = "done"]_migrationVars
  BY NothingTaken DEF HandoffKept, NamesKept, WorktreesKept
<1> QED
  BY <1>1, MigrationInvariant, PTL DEF MigrationSpec, MigrationKeeps

\* A setup that stamps the version has taken the data of every initiative through
\* every step of the chain, whatever runs were killed before it, but for what it could
\* not list, find or read itself and for the briefs that the schema refuses (runMigrations).
THEOREM SetupsMigrate == MigrationSpec => SetupMigrates
<1>1. MigrationInv /\ [MigrationsNext]_migrationVars =>
        [process.command = "setup" /\ stamp' = CURRENT_VERSION => Migrated(CURRENT_VERSION)]_stamp
  <2>1. SUFFICES ASSUME MigrationInv, MigrationsNext, stamp' # stamp, process.command = "setup"
                 PROVE  Migrated(CURRENT_VERSION)
    BY DEF migrationVars
  <2>2. WriteStamp
    BY <2>1 DEF MigrationsNext, StartSetup, StartMigrate, RejectProposal, NextStep, Finish, Kill, AppendLog, Repair,
         LogMoved, MigrateArtifacts, WriteSession, WriteBrief, CopyHandoff, RemoveHandoff, MergeWorktrees, RefuseMerge, StripBrief
  <2>3. PICK op \in {"stamp", "stamped"} : Write(op, Root)
    BY <2>2 DEF WriteStamp
  <2>4. Pending(op, Root) /\ ProcessTypeOK
    BY <2>1, <2>3, PlainWrite DEF MigrationInv
  <2>5. process.cursor = CURRENT_VERSION
    BY <2>4, PendingWhen DEF CURRENT_VERSION
  <2> QED
    BY <2>1, <2>5 DEF MigrationInv
<1> QED
  BY <1>1, MigrationInvariant, PTL DEF MigrationSpec, SetupMigrates

============================================================================
