----------------------------- MODULE AgentHooks -----------------------------
(***************************************************************************)
(* The two lifecycle hooks that agent-chat calls for the peers it runs.    *)
(* `hooks agent-chat-spawn` finds the initiative a peer was spawned for    *)
(* and stashes a file about it; `hooks agent-chat-complete` takes that     *)
(* file when the peer has exited and records the peer with `wrap`.  Every  *)
(* call is a process of its own, so the hooks of one peer, and those of a  *)
(* peer and its parent, run beside each other, and each may be killed.     *)
(*                                                                         *)
(* agent-chat is external: it spawns a peer from a peer that runs or from  *)
(* a person's session, calls on_spawn once and on_complete at most twice   *)
(* (an exit may first be inferred), and never uses an agent id again.      *)
(***************************************************************************)
EXTENDS Naturals, FiniteSets, FiniteSetsExt

CONSTANTS
  Peers,         \* agent ids
  Human,         \* a spawner that is no peer of agent-chat
  Repos,         \* the initiatives
  Parsed,        \* those whose brief parses
  Cwds,          \* [Repos -> SUBSET Nat]: the depths of the worktrees around a directory
  Payloads,      \* what an on_complete may carry: [facts, mentions, action]
  MaxHookKills   \* how many hooks may be killed

NoOutcome == "none"

ASSUME HooksAssumption ==
  /\ Human \notin Peers /\ Cwds # {}
  /\ \A y \in Payloads : y.facts \in {"absent", "invalid", "silent", "report"}
  /\ MaxHookKills \in Nat

VARIABLES
  agent,      \* agent[p]: state, parent and directory of the peer
  contexts,   \* the file stashed for each peer, as a set of at most one context
  spawnHook,  \* the on_spawn process of each peer
  endHook,    \* the on_complete processes of each peer
  recorded,   \* the sessions that wrap filed
  hookKills,  \* how many hooks were killed
  seen        \* history: what the record of each peer owes, see below

hookVars == <<agent, contexts, spawnHook, endHook, recorded, hookKills, seen>>

Session(p) == <<"session of", p>>  \* the session_id of the payload of on_spawn
Ends == 1 .. 2

----------------------------------------------------------------------------
(* Finding the initiative and reading a report.                            *)

\* resolveSlugFromCwd: the deepest registered worktree around the directory,
\* if it belongs to one initiative only.
Resolve(cwd) ==
  LET depths == UNION {cwd[i] : i \in Parsed}
      owners == {i \in Parsed : depths # {} /\ Max(depths) \in cwd[i]}
  IN IF Cardinality(owners) = 1 THEN owners ELSE {}

\* closedTaskIds: a task is closed by a report that says so right next to its id.
ClosedTaskIds(mentions) == {m.task : m \in {n \in mentions : n.how = "closed"}}

\* Mutant: facts that do not validate are passed on as they came.
WorkerRecordUnchecked(payload) ==
  IF payload.facts = "absent" THEN {}
  ELSE {[facts |-> payload.facts,
         resolves |-> ClosedTaskIds(payload.mentions),
         outcome |-> IF payload.facts = "report" THEN NoOutcome ELSE "exited-no-report",
         action |-> payload.facts = "silent" /\ payload.action]}

\* workerRecordFromPayload: no record without facts or with facts that do not
\* validate, which then get the one-line body.
WorkerRecord(payload) ==
  IF payload.facts \in {"absent", "invalid"} THEN {}
  ELSE {[facts |-> payload.facts,
         resolves |-> ClosedTaskIds(payload.mentions),
         outcome |-> IF payload.facts = "report" THEN NoOutcome ELSE "exited-no-report",
         action |-> payload.facts = "silent" /\ payload.action]}

\* WorkerRecordSchema, which wrap applies to --facts.
Acceptable(worker) ==
  \A r \in worker :
    /\ r.facts \in {"report", "silent"}
    /\ r.facts = "report" <=> r.outcome = NoOutcome

----------------------------------------------------------------------------
(* The peers.                                                              *)

Stashed(p) == spawnHook[p].at = "stashed"

\* seen[p].matched: on_spawn had ended with a match when the peer exited, and no
\* on_complete has failed to read the file.
\* seen[p].parent: the parent was known when it spawned the peer, ran until the
\* peer's on_spawn had ended, and its file could be read.
\* seen[p].overlap: on_complete was called while another on_complete ran.
NothingSeen == [matched |-> FALSE, parent |-> FALSE, overlap |-> FALSE]
Running(p) == {n \in Ends : endHook[p][n].at \in {"called", "read", "taken"}}

Spawn(p) ==
  /\ agent[p].at = "absent"
  /\ \E q \in Peers \cup {Human}, cwd \in Cwds :
       /\ q # Human => agent[q].at = "running"
       /\ agent' = [agent EXCEPT ![p] = [at |-> "running", parent |-> q, cwd |-> cwd]]
       /\ seen' = [seen EXCEPT ![p].parent = q # Human /\ Stashed(q)]
  /\ spawnHook' = [spawnHook EXCEPT ![p].at = "called"]
  /\ UNCHANGED <<contexts, endHook, recorded, hookKills>>

Exit(p) ==
  /\ agent[p].at = "running"
  /\ agent' = [agent EXCEPT ![p].at = "exited"]
  /\ seen' = [q \in Peers |->
                IF q = p THEN [seen[q] EXCEPT !.matched = Stashed(p)]
                ELSE [seen[q] EXCEPT !.parent = @ /\ (agent[q].parent = p => Stashed(q))]]
  /\ UNCHANGED <<contexts, spawnHook, endHook, recorded, hookKills>>

\* agent-chat reports the exit, once more perhaps after it had inferred it.
Report(p) ==
  /\ agent[p].at = "exited"
  /\ \E n \in Ends :
       /\ endHook[p][n].at = "idle"
       /\ \A k \in 1 .. n - 1 : endHook[p][k].at # "idle"
       /\ endHook' = [endHook EXCEPT ![p][n].at = "called"]
  /\ seen' = [seen EXCEPT ![p].overlap = @ \/ Running(p) # {}]
  /\ UNCHANGED <<agent, contexts, spawnHook, recorded, hookKills>>

----------------------------------------------------------------------------
(* on_spawn.                                                               *)

\* Mutant: peeks with the peer's own id.
ParentSessionOwn(p) == {c.session : c \in contexts[p]}

\* peekSpawnContext(parent): the parent's context tells its session.
ParentSession(p) ==
  IF agent[p].parent = Human THEN {} ELSE {c.session : c \in contexts[agent[p].parent]}

\* A directory of no initiative, or a payload without one, ends the hook.  A
\* context that cannot be read is taken for one that is not there.
PeekParent(p) ==
  /\ spawnHook[p].at = "called"
  /\ \E parent \in {ParentSession(p), {}} :
       /\ spawnHook' =
            [spawnHook EXCEPT ![p] =
               IF Resolve(agent[p].cwd) = {} THEN [at |-> "unmatched", parent |-> {}]
               ELSE [at |-> "peeked", parent |-> parent]]
       /\ seen' = [seen EXCEPT ![p].parent = @ /\ parent = ParentSession(p)]
  /\ UNCHANGED <<agent, contexts, endHook, recorded, hookKills>>

Stash(p) ==
  /\ spawnHook[p].at = "peeked"
  /\ contexts' = [contexts EXCEPT ![p] =
                    {[slugs |-> Resolve(agent[p].cwd), session |-> Session(p),
                      parent |-> spawnHook[p].parent]}]
  /\ spawnHook' = [spawnHook EXCEPT ![p] = [at |-> "stashed", parent |-> {}]]
  /\ UNCHANGED <<agent, endHook, recorded, hookKills, seen>>

----------------------------------------------------------------------------
(* on_complete.                                                            *)

\* readSpawnContext
ReadContext(p) == contexts[p]

WithoutContext(p) == [contexts EXCEPT ![p] = {}]

\* A file that cannot be read is taken for one that is not there.
TakeRead(p, n) ==
  /\ endHook[p][n].at = "called"
  /\ \E context \in {ReadContext(p), {}} :
       /\ endHook' = [endHook EXCEPT ![p][n] = [at |-> "read", context |-> context]]
       /\ seen' = [seen EXCEPT ![p].matched = @ /\ context = ReadContext(p)]
  /\ UNCHANGED <<agent, contexts, spawnHook, recorded, hookKills>>

\* The file is removed, whether or not it could be read; without a context the
\* hook has nothing to record.
TakeRemove(p, n) ==
  /\ endHook[p][n].at = "read"
  /\ contexts' = WithoutContext(p)
  /\ endHook' = [endHook EXCEPT ![p][n].at =
                   IF endHook[p][n].context = {} THEN "unknown" ELSE "taken"]
  /\ UNCHANGED <<agent, spawnHook, recorded, hookKills, seen>>

PeerRecord(p, n, worker) ==
  LET c == CHOOSE c \in endHook[p][n].context : TRUE
  IN [peer |-> p, by |-> n, slugs |-> c.slugs, session |-> c.session, parent |-> c.parent,
      worker |-> worker]

\* handleOnComplete runs `wrap` and fails when it does.
Wrap(p, n) ==
  /\ endHook[p][n].at = "taken"
  /\ \E payload \in Payloads :
       LET worker == WorkerRecord(payload)
           filed == Acceptable(worker)
       IN /\ recorded' = recorded \cup {r \in {PeerRecord(p, n, worker)} : filed}
          /\ endHook' = [endHook EXCEPT ![p][n] =
                           [at |-> IF filed THEN "recorded" ELSE "refused", context |-> {}]]
  /\ UNCHANGED <<agent, contexts, spawnHook, hookKills, seen>>

\* A hook is killed, or fails: the wrap it runs does for a reason of its own, or
\* the file cannot be written, parsed or removed.  (A wrap that ends well after
\* its hook was killed is one that ended before.)
HookDies(p) ==
  /\ hookKills < MaxHookKills
  /\ \/ /\ spawnHook[p].at \in {"called", "peeked"}
        /\ spawnHook' = [spawnHook EXCEPT ![p] = [at |-> "dead", parent |-> {}]]
        /\ UNCHANGED endHook
     \/ /\ \E n \in Running(p) :
             endHook' = [endHook EXCEPT ![p][n] = [at |-> "dead", context |-> {}]]
        /\ UNCHANGED spawnHook
  /\ hookKills' = hookKills + 1
  /\ UNCHANGED <<agent, contexts, recorded, seen>>

----------------------------------------------------------------------------
HooksInit ==
  /\ agent = [p \in Peers |-> [at |-> "absent", parent |-> Human, cwd |-> CHOOSE c \in Cwds : TRUE]]
  /\ contexts = [p \in Peers |-> {}]
  /\ spawnHook = [p \in Peers |-> [at |-> "idle", parent |-> {}]]
  /\ endHook = [p \in Peers |-> [n \in Ends |-> [at |-> "idle", context |-> {}]]]
  /\ recorded = {}
  /\ hookKills = 0
  /\ seen = [p \in Peers |-> NothingSeen]

HooksNext ==
  \E p \in Peers :
    \/ Spawn(p) \/ Exit(p) \/ Report(p)
    \/ PeekParent(p) \/ Stash(p)
    \/ \E n \in Ends : TakeRead(p, n) \/ TakeRemove(p, n) \/ Wrap(p, n)
    \/ HookDies(p)

HooksSpec == HooksInit /\ [][HooksNext]_hookVars

----------------------------------------------------------------------------
RecordsOf(p) == {r \in recorded : r.peer = p}
Said(p) == {endHook[p][n].at : n \in Ends}

\* A peer whose on_spawn had ended with a match before it exited is recorded
\* when its on_complete has ended, whatever the payload held: wrap refuses
\* nothing the hook built from it, and only a hook that died, or that could not
\* read the file it then removed, loses a record.  A second on_complete records
\* the peer again only if it ran beside the first.
PeersRecorded ==
  \A p \in Peers :
    /\ "refused" \notin Said(p)
    /\ seen[p].matched /\ Running(p) = {} /\ Said(p) \cap {"unknown", "recorded"} # {} =>
         RecordsOf(p) # {} \/ "dead" \in Said(p)
    /\ Cardinality(RecordsOf(p)) <= 1 \/ seen[p].overlap

\* A record names the session of the peer that spawned it and of no other, and
\* it does name it when that peer was known, ran until on_spawn had ended and
\* had a file that could be read, even if the parent was recorded, and
\* forgotten, long before its child.
ParentsTrue ==
  \A r \in recorded :
    LET q == agent[r.peer].parent IN
    /\ r.session = Session(r.peer)
    /\ r.parent \subseteq {Session(q)} /\ (q = Human => r.parent = {})
    /\ seen[r.peer].parent => r.parent = {Session(q)}
=============================================================================
