----------------------------- MODULE DaemonHost -----------------------------
(***************************************************************************)
(* The daemon of one host: the processes that run `mcp serve`, the pid     *)
(* file by which `mcp stop`, `mcp restart`, `mcp status` and the doctor    *)
(* find them, and the supervisor (systemd or launchd) that starts a new    *)
(* one whenever the last has gone.                                         *)
(*                                                                         *)
(* Nothing orders these actors.  A daemon that leaves removes its pid file *)
(* after its socket has closed, so that a successor may have filed itself  *)
(* already; a command acts on a pid it read a while ago; the system may    *)
(* give the number of a dead daemon to a process of somebody else.         *)
(***************************************************************************)
EXTENDS Naturals, FiniteSets

CONSTANTS
  Pids,          \* process numbers (a bound: no daemon starts while all are in use)
  Ports,         \* ports a daemon may be told to use
  DefaultPort,   \* where it listens when told nothing
  Clients        \* terminals in which the mcp commands run

ASSUME DaemonAssumption ==
  /\ Pids \subseteq Nat \ {0} /\ Ports \subseteq Nat \ {0}
  /\ DefaultPort \in Ports

VARIABLES
  proc,     \* proc[p]: the process numbered p
  file,     \* the pid file: the pid and the port it records
  sup,      \* the platform's supervisor: its definition on disk, and whether it is loaded
  allowed,  \* the factory host lease lets this host run a daemon
  cli,      \* cli[c]: the mcp command that runs in terminal c
  crossed   \* history: a daemon filed itself over one that runs on another port

vars == <<proc, file, sup, allowed, cli, crossed>>

NoPid == 0
NoPort == 0    \* what a pid file without metadata records
NoFile == [pid |-> NoPid, port |-> NoPort]

\* boot: on the way to its socket; bound: it listens and /health answers 503;
\* filed: its pid file is written and /health answers 200; serving: its signal
\* handlers are installed too; closing: it waits for the index watch; closed:
\* its socket is shut; other: a process that is no daemon has the number.
Stages == {"none", "boot", "bound", "filed", "serving", "closing", "closed", "other"}
Processes == [st : Stages, port : Ports, sup : BOOLEAN, term : BOOLEAN, stuck : BOOLEAN]
NoProcess == [st |-> "none", port |-> DefaultPort, sup |-> FALSE,
              term |-> FALSE, stuck |-> FALSE]

Idle == [at |-> "idle", cmd |-> "none", pid |-> NoPid, port |-> DefaultPort,
         new |-> NoPid, seen |-> {}]

Live(p) == p \in Pids /\ proc[p].st # "none"
Answers(p) == proc[p].st \in {"filed", "serving", "closing"}
Answered(q) == \E p \in Pids : Answers(p) /\ proc[p].port = q
Taken(q) == \E p \in Pids : (Answers(p) \/ proc[p].st = "bound") /\ proc[p].port = q

\* A daemon that answers and that nobody has asked to stop.
Steady(p) == proc[p].st \in {"filed", "serving"} /\ ~proc[p].term

----------------------------------------------------------------------------
(* The host lease: which hosts may run a daemon.                            *)

LeaseReads == {"absent", "unreadable", "empty", "this host", "another host"}
CheckHostLease(read) == read \in {"absent", "this host"}

----------------------------------------------------------------------------
(* The pid file.                                                            *)

WritePidFile(p, q) == file' = [pid |-> p, port |-> q]

\* Mutant: whatever is there is removed.
RemovePidFileAny(p) == file' = NoFile

\* removePidFile: only when the file still names the pid the caller means.
RemovePidFile(p) == file' = IF file.pid = p THEN NoFile ELSE file

----------------------------------------------------------------------------
(* Processes.                                                               *)

\* Numbers that no process has and no file or command remembers; the lowest is
\* given out next.
Fresh == {p \in Pids : /\ ~Live(p) /\ p # file.pid
                       /\ \A c \in Clients : p \notin {cli[c].pid, cli[c].new} \cup cli[c].seen}
NextPid(p) == p \in Fresh /\ \A q \in Fresh : p <= q

Started(p, q, s) ==
  [proc EXCEPT ![p] = [st |-> "boot", port |-> q, sup |-> s, term |-> FALSE, stuck |-> FALSE]]
Ended(p) == [proc EXCEPT ![p] = NoProcess]
Signalled(p) == [proc EXCEPT ![p].term = TRUE]

\* `mcp serve`, in the foreground or detached.
Serve(q) ==
  \E p \in Pids :
    /\ NextPid(p)
    /\ proc' = Started(p, q, FALSE)
    /\ UNCHANGED <<file, sup, allowed, cli, crossed>>

\* The host is not on the lease, the port is taken, or the daemon package finds
\* that the pid file names a living process.
Refuse(p) ==
  /\ proc[p].st = "boot"
  /\ ~allowed \/ Taken(proc[p].port) \/ Live(file.pid)
  /\ proc' = Ended(p)
  /\ UNCHANGED <<file, sup, allowed, cli, crossed>>

Bind(p) ==
  /\ proc[p].st = "boot"
  /\ allowed
  /\ ~Taken(proc[p].port)
  /\ proc' = [proc EXCEPT ![p].st = "bound"]
  /\ UNCHANGED <<file, sup, allowed, cli, crossed>>

File(p) ==
  /\ proc[p].st = "bound"
  /\ proc' = [proc EXCEPT ![p].st = "filed"]
  /\ WritePidFile(p, proc[p].port)
  /\ crossed' = (crossed \/ \E o \in Pids \ {p} : Steady(o))
  /\ UNCHANGED <<sup, allowed, cli>>

\* runDaemon starts the index watch and installs its handlers.
Watch(p) ==
  /\ proc[p].st = "filed"
  /\ proc' = [proc EXCEPT ![p].st = "serving"]
  /\ UNCHANGED <<file, sup, allowed, cli, crossed>>

\* SIGTERM arrives.  Before the handlers are there it kills; afterwards it
\* starts the shutdown, once.  The index pass that runs then may be stuck.
Term(p) ==
  /\ proc[p].term
  /\ \/ /\ proc[p].st \in {"boot", "bound", "filed", "other"}
        /\ proc' = Ended(p)
     \/ /\ proc[p].st = "serving"
        /\ \E s \in BOOLEAN :
             proc' = [proc EXCEPT ![p].st = "closing", ![p].stuck = s]
  /\ UNCHANGED <<file, sup, allowed, cli, crossed>>

\* closeIndexWatch: the watch has closed, or the cap has passed; then the
\* socket is shut.
WatchCloses(p) == proc[p].st = "closing" /\ ~proc[p].stuck
WatchCapped(p) == proc[p].st = "closing"
\* Mutant: the shutdown waits for the watch without a cap.
CloseSocketUncapped(p) ==
  /\ WatchCloses(p)
  /\ proc' = [proc EXCEPT ![p].st = "closed"]
  /\ UNCHANGED <<file, sup, allowed, cli, crossed>>

CloseSocket(p) ==
  /\ WatchCloses(p) \/ WatchCapped(p)
  /\ proc' = [proc EXCEPT ![p].st = "closed"]
  /\ UNCHANGED <<file, sup, allowed, cli, crossed>>

\* handle.close resolves once the daemon's own pid file is gone.
Leave(p) ==
  /\ proc[p].st = "closed"
  /\ RemovePidFile(p)
  /\ proc' = Ended(p)
  /\ UNCHANGED <<sup, allowed, cli, crossed>>

Crash(p) ==
  /\ Live(p)
  /\ proc' = Ended(p)
  /\ UNCHANGED <<file, sup, allowed, cli, crossed>>

----------------------------------------------------------------------------
(* The supervisor.                                                          *)

Children == {p \in Pids : Live(p) /\ proc[p].sup}

\* Restart=always, KeepAlive: whenever its process has gone it starts another.
Respawn ==
  /\ sup.loaded /\ Children = {}
  /\ \E p \in Pids : NextPid(p) /\ proc' = Started(p, DefaultPort, TRUE)
  /\ UNCHANGED <<file, sup, allowed, cli, crossed>>

\* enable --now, bootstrap: nothing happens to a process that runs already.
Load(text) ==
  /\ sup.kind # "none"
  /\ sup' = [sup EXCEPT !.text = text, !.loaded = TRUE]
  /\ UNCHANGED <<proc, file, allowed, cli, crossed>>

\* disable --now, bootout: the process is told to end.
Unload(text) ==
  /\ sup.kind # "none"
  /\ sup' = [sup EXCEPT !.text = text, !.loaded = FALSE]
  /\ proc' = [p \in Pids |-> IF p \in Children THEN [proc[p] EXCEPT !.term = TRUE] ELSE proc[p]]
  /\ UNCHANGED <<file, allowed, cli, crossed>>

\* The definition changes on disk and the supervisor is not told.
Rewritten(text) ==
  /\ sup.kind # "none"
  /\ sup' = [sup EXCEPT !.text = text]
  /\ UNCHANGED <<proc, file, allowed, cli, crossed>>

\* is-active asks after the process, launchctl print after the definition.
IsActive == sup.loaded /\ (sup.kind = "systemd" => Children # {})

Kinds == {"systemd", "launchd", "none"}
Texts == {"none", "written"}
Supervisors == [kind : Kinds, text : Texts, loaded : BOOLEAN]
Unsupervised(s) == s.text = "none" /\ ~s.loaded

----------------------------------------------------------------------------
(* mcp stop, mcp restart and mcp status.                                    *)

Goes(c, at) == cli' = [cli EXCEPT ![c].at = at]
Returns(c) == cli' = [cli EXCEPT ![c] = Idle]

\* readPidFile, the first thing each command does.
Call(c, cmd) ==
  /\ cli[c].at = "idle"
  /\ LET run == [Idle EXCEPT !.cmd = cmd, !.pid = file.pid,
                   !.port = IF file = NoFile THEN DefaultPort ELSE file.port,
                   !.seen = IF cmd = "status"
                            THEN {p \in Pids : Steady(p) /\ proc[p].port = DefaultPort}
                            ELSE {}]
     IN cli' = [cli EXCEPT ![c] =
          IF file # NoFile THEN [run EXCEPT !.at = "found"]
          ELSE [stop |-> Idle, restart |-> [run EXCEPT !.at = "spawn"],
                status |-> [run EXCEPT !.at = "probe"]][cmd]]
  /\ UNCHANGED <<proc, file, sup, allowed, crossed>>

\* The recorded process is dead: its file goes; or it is told to end, which is
\* an error when it is somebody else's.
StopFound(c) ==
  /\ cli[c].at = "found" /\ cli[c].cmd \in {"stop", "restart"}
  /\ IF Live(cli[c].pid)
     THEN \/ proc' = Signalled(cli[c].pid) /\ Goes(c, "await")
          \/ proc[cli[c].pid].st = "other" /\ Returns(c) /\ UNCHANGED proc
     ELSE Goes(c, "unfile") /\ UNCHANGED proc
  /\ UNCHANGED <<file, sup, allowed, crossed>>

\* It has gone, or the time for it is over: stop leaves it alone, restart kills.
Awaited(c) ==
  /\ cli[c].at = "await"
  /\ \/ ~Live(cli[c].pid) /\ Goes(c, "unfile") /\ UNCHANGED proc
     \/ cli[c].cmd = "stop" /\ Goes(c, "unfile") /\ UNCHANGED proc
     \/ /\ cli[c].cmd = "restart" /\ Live(cli[c].pid)
        /\ proc' = Ended(cli[c].pid)
        /\ Goes(c, "unfile")
     \/ cli[c].cmd = "restart" /\ Returns(c) /\ UNCHANGED proc
  /\ UNCHANGED <<file, sup, allowed, crossed>>

Unfile(c) ==
  /\ cli[c].at = "unfile"
  /\ RemovePidFile(cli[c].pid)
  /\ IF cli[c].cmd = "restart"
     THEN cli' = [cli EXCEPT ![c].at = "spawn", ![c].pid = NoPid]
     ELSE Returns(c)
  /\ UNCHANGED <<proc, sup, allowed, crossed>>

\* The successor starts on the recorded port, or on the one asked for; told to
\* use port 0 it rejects its arguments and is gone at once.
Spawn(c) ==
  /\ cli[c].at = "spawn"
  /\ \/ \E p \in Pids, q \in {cli[c].port, DefaultPort} \ {NoPort} :
          /\ NextPid(p)
          /\ proc' = Started(p, q, FALSE)
          /\ cli' = [cli EXCEPT ![c].at = "confirm", ![c].new = p, ![c].port = q]
     \/ cli[c].port = NoPort /\ Returns(c) /\ UNCHANGED proc
  /\ UNCHANGED <<file, sup, allowed, crossed>>

\* confirmStarted looks whether the child lives, and then asks the port.
ConfirmAlive(c) ==
  /\ cli[c].at = "confirm"
  /\ IF Live(cli[c].new) THEN Goes(c, "ask") ELSE Returns(c)
  /\ UNCHANGED <<proc, file, sup, allowed, crossed>>

\* Somebody answers: the restart succeeded; else it tries again until its time
\* is over.
ConfirmAsk(c) ==
  /\ cli[c].at = "ask"
  /\ \/ Returns(c)
     \/ ~Answered(cli[c].port) /\ Goes(c, "confirm")
  /\ UNCHANGED <<proc, file, sup, allowed, crossed>>

\* Where status looks: a file without a port sends it to the default one.
Probed(c) == IF cli[c].port = NoPort THEN DefaultPort ELSE cli[c].port

\* status and the doctor: a living process is running, whatever it answers; a
\* dead one, or none, sends them to the port.
StatusFound(c) ==
  /\ cli[c].at = "found" /\ cli[c].cmd = "status"
  /\ Goes(c, IF Live(cli[c].pid) THEN "up" ELSE "probe")
  /\ UNCHANGED <<proc, file, sup, allowed, crossed>>

\* Mutant: no pid file, no daemon.
StatusProbeFileOnly(c) ==
  /\ cli[c].at = "probe"
  /\ Goes(c, "down")
  /\ UNCHANGED <<proc, file, sup, allowed, crossed>>

\* probeHealth is null on any failure: a daemon that answers may go unheard.
StatusProbe(c) ==
  /\ cli[c].at = "probe"
  /\ \E at \in IF Answered(Probed(c)) THEN {"up", "unheard"} ELSE {"down"} : Goes(c, at)
  /\ UNCHANGED <<proc, file, sup, allowed, crossed>>

StatusReturns(c) ==
  /\ cli[c].at \in {"up", "down", "unheard"}
  /\ Returns(c)
  /\ UNCHANGED <<proc, file, sup, allowed, crossed>>

\* The terminal is closed.
Abandon(c) ==
  /\ cli[c].at # "idle"
  /\ Returns(c)
  /\ UNCHANGED <<proc, file, sup, allowed, crossed>>

Commands == {"stop", "restart", "status"}

----------------------------------------------------------------------------
\* A host may start with the pid file of a daemon that died with the last boot,
\* written with or without a port; its number may belong to another process now.
HostInit ==
  /\ \/ file = NoFile /\ proc = [p \in Pids |-> NoProcess]
     \/ \E p \in Pids, q \in {NoPort} \cup Ports, st \in {"none", "other"} :
          /\ \A o \in Pids : p <= o
          /\ file = [pid |-> p, port |-> q]
          /\ proc = [o \in Pids |-> IF o = p THEN [NoProcess EXCEPT !.st = st] ELSE NoProcess]
  /\ \E read \in LeaseReads : allowed = CheckHostLease(read)
  /\ cli = [c \in Clients |-> Idle]
  /\ crossed = FALSE

Init == HostInit /\ sup \in Supervisors /\ (sup.kind = "none" => Unsupervised(sup))

Daemon(p) == Refuse(p) \/ Bind(p) \/ File(p) \/ Watch(p) \/ Term(p) \/ CloseSocket(p) \/ Leave(p)
Advance(c) ==
  \/ StopFound(c) \/ Awaited(c) \/ Unfile(c) \/ Spawn(c) \/ ConfirmAlive(c) \/ ConfirmAsk(c)
  \/ StatusFound(c) \/ StatusProbe(c) \/ StatusReturns(c)

\* What goes on by itself, and what a supervisor may be told.
Runs ==
  \/ \E p \in Pids : Daemon(p) \/ Crash(p)
  \/ Respawn
  \/ \E c \in Clients : Advance(c) \/ Abandon(c)
Told == \E t \in Texts : Load(t) \/ Unload(t) \/ Rewritten(t)

Next ==
  \/ \E q \in Ports : Serve(q)
  \/ \E c \in Clients, cmd \in Commands : Call(c, cmd)
  \/ Runs
  \/ Told

Spec == Init /\ [][Next]_vars

\* A daemon that has been told to end is given the time to do so.
HostFairness == \A p \in Pids : WF_vars(Term(p)) /\ WF_vars(CloseSocket(p)) /\ WF_vars(Leave(p))

FairSpec == Spec /\ HostFairness

----------------------------------------------------------------------------
TypeOK ==
  /\ proc \in [Pids -> Processes]
  /\ file \in {NoFile} \cup [pid : Pids, port : {NoPort} \cup Ports]
  /\ sup \in Supervisors
  /\ allowed \in BOOLEAN
  /\ cli \in [Clients ->
       [at : {"idle", "found", "await", "unfile", "spawn", "confirm", "ask",
              "probe", "up", "down", "unheard"},
        cmd : Commands \cup {"none"}, pid : Pids \cup {NoPid},
        port : Ports \cup {NoPort}, new : Pids \cup {NoPid}, seen : SUBSET Pids]]
  /\ crossed \in BOOLEAN

\* A daemon that answers and that nobody has told to stop is the one the pid
\* file names, so that stop and restart find it, unless daemons on two ports
\* have crossed: no predecessor that leaves late, no stop, restart or death
\* takes its entry away.
Findable == \A p \in Pids : Steady(p) => file.pid = p \/ crossed

\* status (and the doctor) does not say "not running" while a daemon answers the
\* default port that already did when status read the pid file, unless the
\* entry it found there sent it to another port or the probe that reached the
\* daemon failed (which reads as "not running" too).
StatusTruthful ==
  \A c \in Clients :
    cli[c].at = "down" /\ Probed(c) = DefaultPort => \A p \in cli[c].seen : ~Steady(p)

\* A daemon that was sent SIGTERM ends, whatever its index pass does.
ShutdownEnds ==
  \A p \in Pids : (proc[p].term /\ proc[p].st # "other") ~> ~Live(p)
=============================================================================
