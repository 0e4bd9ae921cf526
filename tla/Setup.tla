------------------------------- MODULE Setup --------------------------------
(***************************************************************************)
(* `active-work setup` and `active-work uninstall` on the host of          *)
(* DaemonHost: the wizard puts its files in place, installs the supervisor *)
(* and starts the daemon; uninstall takes it all back.  A step may fail,   *)
(* be declined, or be the last before the wizard is interrupted, and       *)
(* everybody else goes on meanwhile.                                       *)
(*                                                                         *)
(* The files of the first eight steps and the registration are the         *)
(* wizard's own: only the doctor looks at them.  Those steps are one       *)
(* action, which stops after any of them.                                  *)
(***************************************************************************)
EXTENDS DaemonHost, Sequences

CONSTANTS
  Wizard,      \* the terminal in which the wizard runs
  AgentChat,   \* agent-chat is installed on this host
  BreaksAfter, \* the steps after which a setup may break off (a bound)
  MaxWizards   \* how often the wizard is started, on a host where it is (a bound)

ASSUME SetupAssumption ==
  /\ Wizard \in Clients /\ AgentChat \in BOOLEAN
  /\ BreaksAfter \subseteq 0..7 /\ MaxWizards \in Nat

VARIABLES
  home,   \* the pieces in place, and the state of the copied skill
  wiz     \* the wizard: where it is, what it said last, what went wrong before

allVars == <<vars, home, wiz>>

\* runSetup's steps before the supervisor, in order.  The registration with
\* Claude Code never fails a setup and is looked at by nobody here.
Ordered == <<"check-node", "create-active-root", "write-schema-version", "write-config-stub",
             "install-skill", "install-command", "register-mcp", "register-agent-chat-hooks">>
MayFail(i) == Ordered[i] # "register-mcp"

\* What the steps leave behind, beside the skill; a step finds its piece and
\* goes on, or puts it there.  All the sources of the package are present.
Files == {"create-active-root", "write-schema-version", "write-config-stub", "install-command"}
Hooks == IF AgentChat THEN {"register-agent-chat-hooks"} ELSE {}
Pieces == Files \cup Hooks
Removable == {"install-skill", "install-command"}

\* The copied skill: cut when its SKILL.md is there but not all of the rest, partial
\* when only other files are.
Skills == {"none", "partial", "cut", "whole"}
Marked(skill) == skill \in {"cut", "whole"}

\* tools: every step of this uninstall was confirmed and has worked; stray:
\* history, a loaded supervisor could not be unloaded; ports: what the user says
\* to `mcp serve`, one port on a host where the wizard runs (a bound).
Quiet == [at |-> "idle", said |-> "nothing", tools |-> TRUE, stray |-> FALSE,
          left |-> MaxWizards, ports |-> {DefaultPort}]
Unused == [Quiet EXCEPT !.left = 0, !.ports = Ports]

\* What earlier runs of the wizard may have left when the host was last booted:
\* a setup that broke off after n steps, or one that reached the supervisor,
\* after which an uninstall may have failed to unload it.
Leftover(n, skill) == [has |-> {Ordered[i] : i \in 1..n} \cap Pieces, skill |-> skill]
BrokenSetups == {Leftover(n, "none") : n \in BreaksAfter} \cup {Leftover(4, skill) : skill \in {"partial", "cut"}}
WholeSetup == Leftover(Len(Ordered), "whole")

SetupInit ==
  /\ HostInit
  /\ sup \in Supervisors
  /\ sup.kind = "none" => Unsupervised(sup)
  /\ \/ /\ home \in BrokenSetups
        /\ Unsupervised(sup)
        /\ wiz = Quiet
     \/ /\ home = WholeSetup
        /\ wiz = Unused
     \/ /\ home = WholeSetup
        /\ wiz = [Quiet EXCEPT !.stray = sup.loaded /\ sup.text = "none"]
  /\ file.port \in wiz.ports \cup {NoPort}

Steps(at) == wiz' = [wiz EXCEPT !.at = at]
Ends(said) == wiz' = [wiz EXCEPT !.at = "idle", !.said = said, !.tools = TRUE]

----------------------------------------------------------------------------
(* setup                                                                    *)

\* Mutant: any file in the skill's directory counts as the skill.
CopiedOnce(skill) == IF skill = "none" THEN {"whole"} ELSE {skill}

\* The skill is copied unless SKILL.md is there, whatever else is not; a copy that
\* breaks off has put any of its files there.
Copied(skill) == IF Marked(skill) THEN {skill} ELSE {"whole"}
BrokenOff(skill) == IF Marked(skill) THEN {skill} ELSE {skill, "partial", "cut", "whole"}

\* The steps from the first to the n-th have succeeded; a failure of one of them
\* fails the whole setup.
Scaffold(n) ==
  /\ wiz.at = "idle" /\ cli[Wizard].at = "idle" /\ wiz.left > 0
  /\ \E skill \in IF n >= 5 THEN Copied(home.skill)
                  ELSE IF n = 4 THEN BrokenOff(home.skill) ELSE {home.skill} :
       home' = [has |-> home.has \cup ({Ordered[i] : i \in 1..n} \cap Pieces), skill |-> skill]
  /\ wiz' = [wiz EXCEPT !.at = IF n = Len(Ordered) THEN "supervise" ELSE "idle",
               !.said = "nothing", !.left = @ - 1]
  /\ UNCHANGED vars

\* No supervisor on this platform, or the user declines it.
SuperviseNot ==
  /\ wiz.at = "supervise"
  /\ Steps("daemon")
  /\ UNCHANGED <<vars, home>>

\* The definition is rendered and written unless it is there already; launchd
\* leaves a loaded agent alone then.
WriteDefinition(same) ==
  /\ wiz.at = "supervise" /\ sup.kind # "none"
  /\ same => sup.text = "written"
  /\ Steps(IF same /\ sup.kind = "launchd" /\ IsActive THEN "daemon" ELSE "reload")
  /\ Rewritten("written")
  /\ UNCHANGED home

\* daemon-reload changes nothing; bootout ends what runs.  Without the tool, or
\* after an error, setup goes on without a supervisor.
Reload ==
  /\ wiz.at = "reload"
  /\ \/ /\ Steps("daemon")
        /\ UNCHANGED vars
     \/ /\ Steps("enable")
        /\ IF sup.kind = "launchd" THEN Unload(sup.text) ELSE UNCHANGED vars
  /\ UNCHANGED home

Enable ==
  /\ wiz.at = "enable"
  /\ \/ /\ Steps("daemon")
        /\ UNCHANGED vars
     \/ Steps("daemon") /\ Load(sup.text)
  /\ UNCHANGED home

\* A supervised daemon needs no start; with --yes it is not started either, and
\* the user may decline.
StartDaemon ==
  /\ wiz.at = "daemon"
  /\ \/ UNCHANGED vars
     \/ ~IsActive /\ Serve(DefaultPort)
  /\ Ends("installed")
  /\ UNCHANGED home

----------------------------------------------------------------------------
(* uninstall                                                                *)

\* What a removal of the skill leaves that breaks off.
Remains(skill) == {skill} \cup (IF Marked(skill) THEN {"cut", "partial"} ELSE {})

\* The skill and the command go, unless the user keeps them or a removal fails.
RemoveFiles(gone) ==
  /\ wiz.at = "idle" /\ cli[Wizard].at = "idle" /\ wiz.left > 0
  /\ \E skill \in IF "install-skill" \in gone THEN {"none"} ELSE Remains(home.skill) :
       home' = [has |-> home.has \ gone, skill |-> skill]
  /\ wiz' = [wiz EXCEPT !.at = "unsupervise", !.said = "nothing", !.left = @ - 1,
               !.tools = gone = Removable]
  /\ UNCHANGED vars

\* Without a definition on disk there is nothing to do.  The supervisor unloads, or cannot,
\* which is noted and no more.
Unsupervise ==
  /\ wiz.at = "unsupervise"
  /\ \/ /\ sup.kind = "none" \/ sup.text = "none"
        /\ Steps("stop")
        /\ UNCHANGED vars
     \/ /\ sup.text # "none"
        /\ wiz' = [wiz EXCEPT !.at = "stop", !.tools = FALSE]
        /\ UNCHANGED vars
     \/ /\ sup.text # "none"
        /\ wiz' = [wiz EXCEPT !.at = "undefine", !.tools = FALSE]
        /\ UNCHANGED vars
     \/ /\ sup.text # "none" /\ Unload(sup.text)
        /\ Steps("undefine")
  /\ UNCHANGED home

\* The definition is removed all the same, if it can be.
Undefine ==
  /\ wiz.at = "undefine"
  /\ \/ /\ Rewritten("none")
        /\ wiz' = [wiz EXCEPT !.at = "stop", !.stray = @ \/ sup.loaded]
     \/ /\ wiz' = [wiz EXCEPT !.at = "stop", !.tools = FALSE]
        /\ UNCHANGED vars
  /\ UNCHANGED home

StopDaemon ==
  /\ wiz.at = "stop"
  /\ \/ Steps("stopping") /\ Call(Wizard, "stop")
     \/ wiz' = [wiz EXCEPT !.at = "unregister", !.tools = FALSE] /\ UNCHANGED vars
  /\ UNCHANGED home

DaemonStopped ==
  /\ wiz.at = "stopping" /\ cli[Wizard].at = "idle"
  /\ Steps("unregister")
  /\ UNCHANGED <<vars, home>>

Unregister ==
  /\ wiz.at = "unregister"
  /\ Ends(IF wiz.tools THEN "removed" ELSE "nothing")
  /\ UNCHANGED <<vars, home>>

\* The wizard is interrupted; a child it waits for runs on.
Interrupt ==
  /\ wiz.at # "idle"
  /\ Ends("nothing")
  /\ UNCHANGED <<vars, home>>

----------------------------------------------------------------------------
(* The doctor's checks of what setup wires up.                              *)

Doctor ==
  [root |-> IF "create-active-root" \notin home.has THEN "fail"
            ELSE IF "write-schema-version" \notin home.has THEN "warn" ELSE "ok",
   skill |-> IF Marked(home.skill) THEN "ok" ELSE "warn",
   supervision |-> IF sup.kind = "none" \/ IsActive THEN "ok" ELSE "warn"]

----------------------------------------------------------------------------
WizardNext ==
  \/ \E n \in {m \in BreaksAfter : MayFail(m + 1)} \cup {Len(Ordered)} : Scaffold(n)
  \/ SuperviseNot
  \/ \E same \in BOOLEAN : WriteDefinition(same)
  \/ Reload
  \/ Enable
  \/ StartDaemon
  \/ \E gone \in SUBSET Removable : RemoveFiles(gone)
  \/ Unsupervise \/ Undefine
  \/ StopDaemon
  \/ DaemonStopped
  \/ Unregister
  \/ Interrupt

\* The user at the terminals, and everything that goes on by itself.
HostNext ==
  /\ \/ \E q \in wiz.ports : Serve(q)
     \/ \E c \in Clients, cmd \in Commands : (c = Wizard => wiz.at = "idle") /\ Call(c, cmd)
     \/ Runs
  /\ UNCHANGED <<home, wiz>>

SetupNext == WizardNext \/ HostNext

SetupSpec == SetupInit /\ [][SetupNext]_allVars /\ HostFairness

\* A setup that reports success has every piece in place, whatever failed, was
\* declined or was interrupted in the runs before it, and the doctor finds no
\* fault with the files.  That says nothing of the rest of a skill whose copy, or
\* whose removal, broke off when SKILL.md was there: both look at that file only.
SetupComplete ==
  wiz.said = "installed" =>
    /\ Pieces \subseteq home.has
    /\ Doctor.root = "ok" /\ Doctor.skill = "ok"

\* After an uninstall in which everything was confirmed and every tool worked
\* nothing starts the daemon again, and none that a supervisor started goes on
\* unless an earlier uninstall removed the definition of a supervisor that it
\* could not unload.
UninstallQuiet ==
  wiz.said = "removed" /\ ~wiz.stray =>
    ~sup.loaded /\ \A p \in Children : proc[p].term

\* What the wizard says at its end is so: see the two parts above.
WizardTruthful == SetupComplete /\ UninstallQuiet
=============================================================================
