---------------------------- MODULE MCWorkspace -----------------------------
(***************************************************************************)
(* The records of the workspace as three of their users see them: the pass *)
(* that indexes them, the plans and edits that write tasks, and the prompt *)
(* that is put together from them.  Each behaviour is of one of the three, *)
(* which share no state.                                                   *)
(***************************************************************************)
EXTENDS WorkspaceIndex, TaskPlans, Bootstrap, TLC

CONSTANTS a, a2, e1, e2, g, h1, h2, h3, k, k1, k2, k3, k4, l, m, n0, n1, n2, n3, o1, o2, o3, p1, p2, r, s1, s2, s3, s4, s5, u, v, w, x, y, z

\* The files that are indexed: a task and two notes.
MCPaths == <<k, n0, m>>
MCIsNote == (k :> FALSE) @@ (n0 :> TRUE) @@ (m :> TRUE)
MCInitiativeOf == (k :> a) @@ (n0 :> a) @@ (m :> a2)
MCRefOf == (k :> k) @@ (n0 :> n0) @@ (m :> m)
MCText(names, tags) == [parses |-> TRUE, names |-> names, tags |-> tags]
MCTexts == {(k :> MCText({}, {})) @@ (n0 :> MCText({k}, {g})) @@ (m :> MCText({}, {g}))}

----------------------------------------------------------------------------
\* k1 to k3 are filed in a, with an old tag by which k2 depends on k4; k4 is in a2.  The third
\* plan turns round an edge that it asked for, so that a later run of it refuses the line,
\* and names a task that is missing.  The processes are alike.
MCSymmetry == Permutations(Procs)
MCDepOf == (g :> k4) @@ (x :> NoId)
MCTask == [NoTask EXCEPT !.there = TRUE]
MCTasks ==
  {[s \in Slugs |-> [i \in Ids |->
      IF s = a2 THEN IF i = k4 THEN MCTask ELSE NoTask
      ELSE CASE i = k2 -> [MCTask EXCEPT !.tags = {g}]
             [] i \in {k1, k3} -> MCTask
             [] OTHER -> NoTask]]}

MCEdit(s, i) == [kind |-> "edit", slug |-> s, id |-> i, parent |-> NoId, add |-> {}, remove |-> {},
                 append |-> NoValue, addTag |-> NoValue, removeTag |-> NoValue]
MCEdits ==
  {[MCEdit(a2, k4) EXCEPT !.add = {k2}], [MCEdit(a, k2) EXCEPT !.parent = k3], [MCEdit(a, k3) EXCEPT !.parent = k1],
   [MCEdit(a, k2) EXCEPT !.remove = {k4}, !.append = l]}

Op(name, value) == [op |-> name, value |-> value]
MCLine(s, i, ops) == [slug |-> s, id |-> i, ops |-> ops, ok |-> TRUE]
MCPlans ==
  {[kind |-> "apply", dry |-> FALSE, lines |->
      <<MCLine(a, k1, <<Op("set_parent", k3)>>), MCLine(a2, k4, <<Op("append", l), Op("done", NoValue)>>),
        MCLine(a, k2, <<Op("set_parent", k1), Op("add_tag", x)>>), MCLine(a, k1, <<Op("add_dep", k4)>>),
        MCLine(a, k2, <<Op("add_tag", g)>>)>>],
   [kind |-> "apply", dry |-> FALSE, lines |->
      <<MCLine(a2, k4, <<Op("add_dep", k1)>>), MCLine(a, k2, <<Op("append", l), Op("remove_tag", g)>>),
        MCLine(a, k3, <<Op("set_parent", k2)>>)>>],
   [kind |-> "apply", dry |-> FALSE, lines |->
      <<MCLine(a, k2, <<Op("add_tag", x)>>), MCLine(a, k2, <<Op("set_parent", k3), Op("remove_tag", x)>>),
        MCLine(a, k2, <<Op("set_parent", k1)>>), MCLine(a, k3, <<Op("set_parent", k2)>>),
        MCLine(a, k4, <<Op("done", NoValue)>>)>>]}

----------------------------------------------------------------------------
MCLoop(ref, target, session, age, order) ==
  [ref |-> ref, target |-> target, session |-> session, age |-> age, order |-> order]
MCSession(id, canonical, ended, opens, resolves) ==
  [id |-> id, ok |-> TRUE, canonical |-> canonical, ended |-> ended, started |-> ended, worker |-> NoWorker,
   opens |-> opens, resolves |-> resolves]
MCTaskOf(id, status, stale, tags, priority) ==
  [id |-> id, ok |-> TRUE, status |-> status, stale |-> stale, tags |-> tags, priority |-> priority]
MCEmpty ==
  [brief |-> TRUE, tasks |-> {}, archived |-> {}, sessions |-> {}, notes |-> <<>>, hits |-> <<>>,
   related |-> [o \in {o1, o2, o3, e2} |-> <<>>], branches |-> <<>>, github |-> (r :> <<>>),
   siblings |-> FALSE, worktrees |-> [registered |-> 0, observed |-> 0]]

\* Loops about tasks, of which one is done and old.
MCFiles ==
  [MCEmpty EXCEPT
    !.tasks = {MCTaskOf(k1, "done", TRUE, {}, 1), MCTaskOf(k2, "open", FALSE, {g}, 2)},
    !.sessions = {MCSession(s1, TRUE, 1, {MCLoop(o1, k1, s1, 9, 1), MCLoop(o2, k2, s1, 9, 2)}, {}),
                  MCSession(s2, FALSE, 2, {MCLoop(o3, NoTarget, s2, 8, 1)}, {})}]
MCLater == {MCSession(s3, TRUE, 4, {}, {o1, o2}), MCSession(s5, FALSE, 4, {MCLoop(e2, k1, s5, 0, 1)}, {o3})}

\* More branches in one repository than a list holds, and one that has none.
MCBranch(repo, name, present) == [repo |-> repo, name |-> name, present |-> present]
MCLive ==
  [MCEmpty EXCEPT !.branches = <<MCBranch(r, x, TRUE), MCBranch(r, y, TRUE), MCBranch(e1, z, FALSE), MCBranch(r, u, TRUE)>>,
                  !.github = (r :> <<v, x, y>>), !.siblings = TRUE]

\* Three loops and what is related to them, where hits are shared, shown as notes or long,
\* and a session file that does not parse.
MCHit(ref, cost) == [ref |-> ref, cost |-> cost, served |-> ref \notin {h1, h2, h3}]
MCNote(ref, local, strong) == [ref |-> ref, local |-> local, strong |-> strong]
MCHits ==
  [MCEmpty EXCEPT
    !.sessions = {MCSession(s1, TRUE, 1, {MCLoop(o1, NoTarget, s1, 9, 1), MCLoop(o2, NoTarget, s1, 9, 2),
                                          MCLoop(o3, NoTarget, s1, 9, 3)}, {}),
                  [MCSession(s4, FALSE, 3, {}, {}) EXCEPT !.ok = FALSE]},
    !.notes = <<n1, n2, n3>>,
    !.hits = <<MCNote(n3, TRUE, TRUE), MCNote(u, FALSE, TRUE), MCNote(n1, TRUE, FALSE), MCNote(w, FALSE, FALSE)>>,
    !.related = (o1 :> <<MCHit(s1, 1), MCHit(n3, 1), MCHit(x, 1), MCHit(y, 1)>>)
             @@ (o2 :> <<MCHit(x, 1), MCHit(y, 1), MCHit(z, 1), MCHit(v, 1), MCHit(n2, 2)>>)
             @@ (o3 :> <<MCHit(x, 1), MCHit(u, 1), MCHit(z, 1), MCHit(k1, 3), MCHit(k2, 1)>>) @@ (e2 :> <<>>)]

\* A loop whose page archived handoffs take up, and that has one more hit behind it.
MCCrowded ==
  [MCHits EXCEPT
    !.notes = <<>>, !.hits = <<>>,
    !.related = (o1 :> <<MCHit(x, 1)>>) @@ (o2 :> <<MCHit(y, 1)>>) @@ (e2 :> <<>>)
             @@ (o3 :> <<MCHit(s1, 1), MCHit(h1, 1), MCHit(h2, 1), MCHit(h3, 1), MCHit(x, 1), MCHit(y, 1),
                         MCHit(k1, 1), MCHit(k2, 1)>>)]

\* Workers of three spawners beside a session of the main track.
MCWorker(id, ended, spawner, outcome) ==
  [MCSession(id, FALSE, ended, {}, {}) EXCEPT !.worker = [spawner |-> spawner, outcome |-> outcome]]
MCWorkers ==
  [MCEmpty EXCEPT
    !.sessions = {MCSession(s1, TRUE, 2, {}, {}), MCWorker(s2, 3, u, "merged"), MCWorker(s3, 4, v, "no_report"),
                  MCWorker(s4, 4, v, "concerns"), MCWorker(s5, 5, w, "open_pr")},
    !.tasks = {MCTaskOf(k2, "open", FALSE, {g}, 2), MCTaskOf(k1, "open", FALSE, {}, 1)},
    !.worktrees = [registered |-> 3, observed |-> 1]]

MCStarts == {MCFiles, MCLive, MCHits, MCCrowded, MCWorkers, [MCEmpty EXCEPT !.brief = FALSE]}
MCCall(archives, live, facet) == [archives |-> archives, live |-> live, facet |-> facet]
MCOpens == {MCCall(TRUE, TRUE, NoFacet), MCCall(FALSE, FALSE, NoFacet), MCCall(TRUE, FALSE, g)}

----------------------------------------------------------------------------

VARIABLE job

vars == <<filesVars, workspaceVars, plansVars, bootstrapVars, job>>

Init ==
  /\ WorkspaceInit /\ PlansInit /\ BootstrapInit
  /\ \/ job = "prompt"
     \/ job \in {"index", "plans"} /\ home = MCFiles

IndexStep == job = "index" /\ WorkspaceNext /\ UNCHANGED <<plansVars, bootstrapVars, job>>
PlansStep == job = "plans" /\ PlansNext /\ UNCHANGED <<filesVars, workspaceVars, bootstrapVars, job>>
PromptStep == job = "prompt" /\ BootstrapNext /\ UNCHANGED <<filesVars, workspaceVars, plansVars, job>>

Spec == Init /\ [][IndexStep \/ PlansStep \/ PromptStep]_vars
=============================================================================
