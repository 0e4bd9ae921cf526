------------------------------ MODULE MCBatch -------------------------------
(***************************************************************************)
(* Three jobs that other programs or people start: the migration of a      *)
(* root, the ingest of the transcripts and the hooks of agent-chat.  Each  *)
(* behaviour is of one of them, since they touch nothing of each other.    *)
(***************************************************************************)
EXTENDS Drain, Migrations, AgentHooks, TLC

CONSTANTS t1, t2, m1, m2, a, z, l, p1, p2, h, x, y

MCOrder == <<t1, t2>>
MCMiners == {m1, m2}
MCOption(full, verify, limit) == [full |-> full, verify |-> verify, limit |-> limit]
MCOptions == {MCOption(FALSE, FALSE, 2), MCOption(FALSE, TRUE, 1), MCOption(TRUE, FALSE, 2)}
MCSlugs == <<a, z>>
MCPeers == {p1, p2}
MCRepos == {a, z, l}
\* Around a directory the deepest worktree is of z, or as deep as a's; l, whose
\* brief does not parse, is deeper still.
MCCwds == {[i \in MCRepos |-> CASE i = a -> {1} [] i = z -> {depth} [] i = l -> {3}] : depth \in {1, 2}}
MCMentions == {[task |-> x, how |-> "closed"], [task |-> y, how |-> "conditional"]}
MCPayload(facts, mentions) == [facts |-> facts, mentions |-> mentions, action |-> facts = "silent"]
MCPayloads ==
  {MCPayload(f, {}) : f \in {"absent", "invalid", "silent"}} \cup {MCPayload("report", MCMentions)}
MCSymmetry == Permutations(MCMiners)

VARIABLE job

vars == <<disk, changes, drainVars, migrationVars, hookVars, job>>

NoDrain == disk = [t \in Transcripts |-> NoTranscript] /\ changes = 0
NoMigration ==
  /\ stamp = NoVersion /\ repairs = {} /\ unread = {} /\ logged = {} /\ process = NoProcess /\ kills = 0
  /\ artifacts = [i \in Initiatives |-> Blank]
  /\ brief = [i \in Initiatives |-> PlainBrief]
  /\ sessions = [i \in Initiatives |-> {}]
  /\ handoff = [i \in Initiatives |-> FALSE]
  /\ archive = [i \in Initiatives |-> "none"]

Init ==
  /\ DrainInit /\ HooksInit
  /\ \/ job = "drain" /\ TranscriptsInit /\ NoMigration
     \/ job = "migrate" /\ NoDrain /\ MigrationsInit
     \/ job = "peers" /\ NoDrain /\ NoMigration

DrainStep ==
  /\ job = "drain"
  /\ \/ DrainNext /\ UNCHANGED <<disk, changes>>
     \/ TranscriptsChange /\ UNCHANGED drainVars
  /\ UNCHANGED <<migrationVars, hookVars, job>>

MigrationStep ==
  /\ job = "migrate" /\ MigrationsNext
  /\ UNCHANGED <<disk, changes, drainVars, hookVars, job>>

HooksStep ==
  /\ job = "peers" /\ HooksNext
  /\ UNCHANGED <<disk, changes, drainVars, migrationVars, job>>

Spec == Init /\ [][DrainStep \/ MigrationStep \/ HooksStep]_vars
=============================================================================
