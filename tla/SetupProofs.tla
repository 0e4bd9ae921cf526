---------------------------- MODULE SetupProofs -----------------------------
(***************************************************************************)
(* The pid file finds the daemon, status does not deny one that answers,   *)
(* and the wizard tells the truth at its end: proved for every number of   *)
(* processes, ports and terminals.                                         *)
(*                                                                         *)
(* Findable is not inductive: a command removes an entry by a pid that it  *)
(* read a while ago.  What makes it safe is that the number cannot belong  *)
(* to another daemon by then (Doomed), and what makes status truthful is   *)
(* that a daemon it saw is still the same one, or gone (SeenBefore).       *)
(***************************************************************************)
EXTENDS Setup, TLAPS

\* A command removes the entry of a process only when it found it dead, or has
\* told it to end.
Doomed ==
  \A c \in Clients :
    /\ cli[c].at \in {"found", "await", "unfile"} => cli[c].pid \in Pids
    /\ cli[c].at \in {"await", "unfile"} =>
         proc[cli[c].pid].st = "none" \/ proc[cli[c].pid].term

\* The daemons that answered when status began have not been replaced.
Past == {"filed", "serving", "closing", "closed"}
SeenBefore ==
  \A c \in Clients : \A p \in cli[c].seen :
    /\ proc[p].st \in Past \cup {"none"}
    /\ Steady(p) => proc[p].port = DefaultPort
    /\ cli[c].at = "down" /\ Probed(c) = DefaultPort => ~Steady(p)

HostInv == TypeOK /\ Findable /\ Doomed /\ SeenBefore

\* The wizard's own state, as far as the host depends on it.
Places == {"idle", "supervise", "reload", "enable", "daemon", "unsupervise", "undefine",
           "stop", "stopping", "unregister"}
Sayings == {"nothing", "installed", "removed"}
WizardStates ==
  [at : Places, said : Sayings, tools : BOOLEAN, stray : BOOLEAN, left : Nat,
   ports : SUBSET Ports]
WizardKind == wiz \in WizardStates

\* What happens to a process between two states: it starts under a number nobody
\* remembers, it ends, or it goes on and does not answer again once it closes.
Follows(p) ==
  \/ p \in Fresh
  \/ proc'[p].st = "none"
  \/ /\ proc'[p].port = proc[p].port
     /\ proc[p].st # "none"
     /\ proc[p].term => proc'[p].term
     /\ proc[p].st \in Past => proc'[p].st \in Past /\ (Steady(p)' => Steady(p))

----------------------------------------------------------------------------
(* What all the steps have in common.                                       *)

\* A number that is handed out is no process's, and in nobody's mind.
LEMMA FreshIsForgotten ==
  ASSUME NEW p \in Fresh
  PROVE  /\ p \in Pids /\ proc[p].st = "none"
         /\ \A c \in Clients : p # cli[c].pid /\ p \notin cli[c].seen
BY DEF Fresh, Live

\* Who is dead or told to end stays so as long as a command remembers it.
LEMMA Condemned ==
  ASSUME HostInv, NEW c \in Clients, cli[c].pid \in Pids, Follows(cli[c].pid),
         proc[cli[c].pid].st = "none" \/ proc[cli[c].pid].term
  PROVE  proc'[cli[c].pid].st = "none" \/ proc'[cli[c].pid].term
BY FreshIsForgotten DEF Follows

\* A daemon that status saw does not answer elsewhere, and not again.
LEMMA Watched ==
  ASSUME HostInv, NEW c \in Clients, NEW p \in cli[c].seen, \A o \in Pids : Follows(o)
  PROVE  /\ proc'[p].st \in Past \cup {"none"}
         /\ Steady(p)' => Steady(p) /\ proc'[p].port = DefaultPort
<1>1. p \in Pids
  BY DEF HostInv, TypeOK
<1>2. p \notin Fresh /\ Follows(p)
  BY <1>1, FreshIsForgotten
<1>3. /\ proc[p].st \in Past \cup {"none"}
      /\ Steady(p) => proc[p].port = DefaultPort
  BY DEF HostInv, SeenBefore
<1>4. CASE proc'[p].st = "none"
  BY <1>4 DEF Steady
<1>5. CASE proc'[p].st # "none"
  BY <1>2, <1>3, <1>5 DEF Follows
<1> QED
  BY <1>4, <1>5

\* Steps of processes alone disturb no command.
LEMMA CommandsStand ==
  ASSUME HostInv, cli' = cli, \A p \in Pids : Follows(p)
  PROVE  Doomed' /\ SeenBefore'
<1>1. Doomed'
  BY Condemned DEF HostInv, Doomed
<1>2. \A c \in Clients : Probed(c)' = Probed(c)
  BY DEF Probed
<1>3. SeenBefore'
  BY <1>2, Watched DEF HostInv, SeenBefore
<1> QED
  BY <1>1, <1>3

\* One command goes on, to r.
LEMMA CommandMoves ==
  ASSUME HostInv, NEW c \in Clients, NEW r, cli' = [cli EXCEPT ![c] = r],
         \A p \in Pids : Follows(p),
         r.at \in {"found", "await", "unfile"} => r.pid \in Pids,
         r.at \in {"await", "unfile"} => proc'[r.pid].st = "none" \/ proc'[r.pid].term,
         \A p \in r.seen :
           /\ proc'[p].st \in Past \cup {"none"}
           /\ Steady(p)' => proc'[p].port = DefaultPort
           /\ r.at = "down" /\ Probed(c)' = DefaultPort => ~Steady(p)'
  PROVE  Doomed' /\ SeenBefore'
<1>1. cli'[c] = r /\ \A d \in Clients \ {c} : cli'[d] = cli[d]
  BY DEF HostInv, TypeOK
<1>2. Doomed'
  BY <1>1, Condemned DEF HostInv, Doomed
<1>3. \A d \in Clients \ {c} : Probed(d)' = Probed(d)
  BY <1>1 DEF Probed
<1>4. ASSUME NEW d \in Clients \ {c}, NEW p \in cli[d].seen
      PROVE  /\ proc'[p].st \in Past \cup {"none"}
             /\ Steady(p)' => proc'[p].port = DefaultPort
             /\ cli[d].at = "down" /\ Probed(d)' = DefaultPort => ~Steady(p)'
  BY <1>3, <1>4, Watched DEF HostInv, SeenBefore
<1>5. ASSUME NEW p \in r.seen
      PROVE  /\ proc'[p].st \in Past \cup {"none"}
             /\ Steady(p)' => proc'[p].port = DefaultPort
             /\ r.at = "down" /\ Probed(c)' = DefaultPort => ~Steady(p)'
  BY <1>5
<1>6. SeenBefore'
  BY <1>1, <1>4, <1>5 DEF SeenBefore
<1> QED
  BY <1>2, <1>6

\* A process that a step leaves alone.
LEMMA SameFollows ==
  ASSUME NEW o, proc'[o] = proc[o]
  PROVE  Follows(o) /\ (Steady(o)' <=> Steady(o))
BY DEF Follows, Steady

\* A process that starts has not been filed, and changes nothing else.
LEMMA StartKeeps ==
  ASSUME HostInv, NEW q \in Ports, NEW s \in BOOLEAN, NEW p \in Pids, NextPid(p),
         proc' = Started(p, q, s), UNCHANGED <<file, sup, allowed, cli, crossed>>
  PROVE  HostInv'
<1>1. p \in Fresh
  BY DEF NextPid
<1>2. TypeOK'
  BY DEF HostInv, TypeOK, Started, Processes, Stages
<1>3. Findable'
  BY DEF HostInv, TypeOK, Findable, Started, Steady
<1>4. \A o \in Pids : Follows(o)
  <2>1. ASSUME NEW o \in Pids \ {p} PROVE proc'[o] = proc[o]
    BY <2>1 DEF HostInv, TypeOK, Started
  <2> QED
    BY <1>1, <2>1, SameFollows DEF Follows
<1> QED
  BY <1>2, <1>3, <1>4, CommandsStand DEF HostInv

\* A process ends and its entry, if any, may go with it.
LEMMA EndKeeps ==
  ASSUME HostInv, NEW p \in Pids, proc' = Ended(p),
         UNCHANGED file \/ RemovePidFile(p), UNCHANGED <<sup, allowed, cli, crossed>>
  PROVE  HostInv'
<1>1. TypeOK'
  BY DaemonAssumption DEF HostInv, TypeOK, Ended, NoProcess, Processes, Stages, RemovePidFile
<1>2. \A o \in Pids \ {p} : proc'[o] = proc[o]
  BY DEF HostInv, TypeOK, Ended
<1>3. proc'[p].st = "none"
  BY DEF HostInv, TypeOK, Ended, NoProcess
<1>4. Findable'
  BY <1>2, <1>3 DEF HostInv, TypeOK, Findable, Steady, RemovePidFile
<1>5. \A o \in Pids : Follows(o)
  BY <1>2, <1>3, SameFollows DEF Follows
<1> QED
  BY <1>1, <1>4, <1>5, CommandsStand DEF HostInv

\* A process goes on: it binds its port, begins to serve, closes, or is told to
\* end.
LEMMA AgeKeeps ==
  ASSUME HostInv, NEW p \in Pids, proc[p].st # "none",
         NEW s \in Stages, NEW t \in BOOLEAN, NEW k \in BOOLEAN,
         s # "none",
         proc' = [proc EXCEPT ![p].st = s, ![p].term = t, ![p].stuck = k],
         proc[p].term => t,
         proc[p].st \in Past => s \in Past,
         s \in {"filed", "serving"} => proc[p].st \in {"filed", "serving"},
         UNCHANGED <<file, sup, allowed, cli, crossed>>
  PROVE  HostInv'
<1>1. proc[p] \in Processes
  BY DEF HostInv, TypeOK
<1>2. \A o \in Pids \ {p} : proc'[o] = proc[o]
  BY DEF HostInv, TypeOK
<1>3. proc'[p] = [st |-> s, port |-> proc[p].port, sup |-> proc[p].sup, term |-> t, stuck |-> k]
  BY <1>1 DEF HostInv, TypeOK, Processes
<1>4. TypeOK'
  <2>1. proc' \in [Pids -> Processes]
    BY <1>1, <1>2, <1>3 DEF HostInv, TypeOK, Processes
  <2> QED
    BY <2>1 DEF HostInv, TypeOK
<1>5. Steady(p)' => Steady(p)
  BY <1>1, <1>3 DEF Steady, Processes
<1>6. Findable'
  BY <1>2, <1>5 DEF HostInv, Findable, Steady
<1>7. Follows(p)
  BY <1>3, <1>5 DEF Follows
<1>8. \A o \in Pids : Follows(o)
  BY <1>2, <1>7, SameFollows
<1> QED
  BY <1>4, <1>6, <1>8, CommandsStand DEF HostInv

----------------------------------------------------------------------------
(* The steps of daemons and of the supervisor.                              *)

LEMMA FileKeeps ==
  ASSUME HostInv, NEW p \in Pids, File(p)
  PROVE  HostInv'
<1>1. proc[p] \in Processes /\ proc[p].st = "bound"
  BY DEF HostInv, TypeOK, File
<1>2. \A o \in Pids \ {p} : proc'[o] = proc[o]
  BY DEF HostInv, TypeOK, File
<1>3. proc'[p] = [proc[p] EXCEPT !.st = "filed"]
  BY DEF HostInv, TypeOK, File
<1>4. TypeOK'
  <2>1. proc' \in [Pids -> Processes]
    BY <1>1, <1>2, <1>3 DEF HostInv, TypeOK, File, Processes, Stages
  <2>2. file' \in {NoFile} \cup [pid : Pids, port : {NoPort} \cup Ports]
    BY <1>1 DEF File, WritePidFile, Processes
  <2>3. crossed' \in BOOLEAN /\ UNCHANGED <<sup, allowed, cli>>
    BY DEF File
  <2> QED
    BY <2>1, <2>2, <2>3 DEF HostInv, TypeOK
<1>5. Findable'
  BY <1>2 DEF Findable, Steady, File, WritePidFile
<1>6. \A o \in Pids : Follows(o)
  <2>1. Follows(p)
    BY <1>1, <1>3 DEF Follows, Processes, Past
  <2> QED
    BY <1>2, <2>1, SameFollows
<1> QED
  BY <1>4, <1>5, <1>6, CommandsStand DEF HostInv, File

LEMMA TermKeeps ==
  ASSUME HostInv, NEW p \in Pids, Term(p)
  PROVE  HostInv'
<1>1. CASE proc' = Ended(p)
  BY <1>1, EndKeeps DEF Term
<1>2. CASE proc[p].st = "serving" /\ \E s \in BOOLEAN :
             proc' = [proc EXCEPT ![p].st = "closing", ![p].stuck = s]
  <2>1. PICK s \in BOOLEAN : proc' = [proc EXCEPT ![p].st = "closing", ![p].stuck = s]
    BY <1>2
  <2>2. proc' = [proc EXCEPT ![p].st = "closing", ![p].term = proc[p].term, ![p].stuck = s]
    BY <2>1 DEF HostInv, TypeOK, Processes
  <2>3. proc[p].term \in BOOLEAN /\ "closing" \in Stages
    BY DEF HostInv, TypeOK, Processes, Stages
  <2> QED
    BY <1>2, <2>2, <2>3, AgeKeeps DEF Term, Past
<1> QED
  BY <1>1, <1>2 DEF Term

LEMMA OneDaemonKeeps ==
  ASSUME HostInv, NEW p \in Pids, Daemon(p) \/ Crash(p)
  PROVE  HostInv'
<1>1. proc[p] \in Processes
  BY DEF HostInv, TypeOK
<1>2. ASSUME NEW s \in {"bound", "serving", "closed"}, proc' = [proc EXCEPT ![p].st = s]
      PROVE  proc' = [proc EXCEPT ![p].st = s, ![p].term = proc[p].term, ![p].stuck = proc[p].stuck]
  BY <1>1, <1>2 DEF HostInv, TypeOK, Processes
<1>3. proc[p].term \in BOOLEAN /\ proc[p].stuck \in BOOLEAN
  BY <1>1 DEF Processes
<1>4. {"bound", "serving", "closed"} \subseteq Stages \ {"none"}
  BY DEF Stages
<1>5. CASE Refuse(p) \/ Crash(p) \/ Leave(p)
  BY <1>5, EndKeeps DEF Refuse, Crash, Leave
<1>6. CASE Bind(p)
  <2>1. proc[p].st = "boot" /\ proc' = [proc EXCEPT ![p].st = "bound"]
    BY <1>6 DEF Bind
  <2>2. proc' = [proc EXCEPT ![p].st = "bound", ![p].term = proc[p].term, ![p].stuck = proc[p].stuck]
    BY <1>2, <2>1
  <2>3. UNCHANGED <<file, sup, allowed, cli, crossed>>
    BY <1>6 DEF Bind
  <2>4. "bound" \in Stages /\ proc[p].st \notin Past
    BY <2>1 DEF Stages, Past
  <2>5. proc[p].st # "none" /\ "bound" # "none" /\ "bound" \notin {"filed", "serving"}
    BY <2>1
  <2> QED
    BY <1>3, <2>2, <2>3, <2>4, <2>5, AgeKeeps
<1>7. CASE Watch(p)
  <2>1. /\ proc[p].st = "filed" /\ proc' = [proc EXCEPT ![p].st = "serving"]
        /\ UNCHANGED <<file, sup, allowed, cli, crossed>>
    BY <1>7 DEF Watch
  <2>2. proc' = [proc EXCEPT ![p].st = "serving", ![p].term = proc[p].term, ![p].stuck = proc[p].stuck]
    BY <1>2, <2>1
  <2>3. "serving" \in Stages /\ "serving" \in Past /\ proc[p].st # "none"
    BY <1>4, <2>1 DEF Past
  <2> QED
    BY <1>3, <2>1, <2>2, <2>3, AgeKeeps
<1>8. CASE CloseSocket(p)
  <2>1. /\ proc[p].st = "closing" /\ proc' = [proc EXCEPT ![p].st = "closed"]
        /\ UNCHANGED <<file, sup, allowed, cli, crossed>>
    BY <1>8 DEF CloseSocket, WatchCloses, WatchCapped
  <2>2. proc' = [proc EXCEPT ![p].st = "closed", ![p].term = proc[p].term, ![p].stuck = proc[p].stuck]
    BY <1>2, <2>1
  <2>3. "closed" \in Stages /\ "closed" \in Past /\ proc[p].st # "none"
    BY <1>4, <2>1 DEF Past
  <2> QED
    BY <1>3, <2>1, <2>2, <2>3, AgeKeeps
<1> QED
  BY <1>5, <1>6, <1>7, <1>8, FileKeeps, TermKeeps DEF Daemon

LEMMA RespawnKeeps ==
  ASSUME HostInv, Respawn
  PROVE  HostInv'
<1>1. PICK p \in Pids : NextPid(p) /\ proc' = Started(p, DefaultPort, TRUE)
  BY DEF Respawn
<1> QED
  BY <1>1, StartKeeps, DaemonAssumption DEF Respawn

LEMMA ServeKeeps ==
  ASSUME HostInv, NEW q \in Ports, Serve(q)
  PROVE  HostInv'
<1>1. PICK p \in Pids : NextPid(p) /\ proc' = Started(p, q, FALSE)
  BY DEF Serve
<1> QED
  BY <1>1, StartKeeps DEF Serve

\* The supervisor is told something; at most its daemons are told to end.
LEMMA ToldKeeps ==
  ASSUME HostInv, NEW text \in Texts, Load(text) \/ Unload(text) \/ Rewritten(text)
  PROVE  HostInv'
<1>1. sup' \in Supervisors
  BY DEF HostInv, TypeOK, Load, Unload, Rewritten, Supervisors
<1>2. ASSUME NEW o \in Pids
      PROVE  proc'[o] = proc[o] \/ (Live(o) /\ proc'[o] = [proc[o] EXCEPT !.term = TRUE])
  BY DEF HostInv, TypeOK, Load, Unload, Rewritten, Children
<1>3. TypeOK'
  <2>1. ASSUME NEW o \in Pids PROVE proc'[o] \in Processes
    BY <1>2 DEF HostInv, TypeOK, Processes
  <2>2. proc' = [o \in Pids |-> proc'[o]]
    BY DEF HostInv, TypeOK, Load, Unload, Rewritten
  <2>3. proc' \in [Pids -> Processes]
    BY <2>1, <2>2
  <2> QED
    BY <1>1, <2>3 DEF HostInv, TypeOK, Load, Unload, Rewritten
<1>4. \A o \in Pids : proc[o] \in Processes
  BY DEF HostInv, TypeOK
<1>5. \A o \in Pids : Steady(o)' => Steady(o)
  BY <1>2, <1>4 DEF Steady, Processes
<1>6. Findable'
  BY <1>5 DEF HostInv, Findable, Load, Unload, Rewritten
<1>7. \A o \in Pids : proc[o].st = "none" => proc'[o].st = "none"
  BY <1>2 DEF Live
<1>8. ASSUME NEW o \in Pids PROVE Follows(o)
  <2>1. CASE proc[o].st = "none"
    BY <1>7, <2>1 DEF Follows
  <2>2. CASE proc[o].st # "none"
    <3>1. proc'[o].st = proc[o].st /\ proc'[o].port = proc[o].port /\ (proc[o].term => proc'[o].term)
      BY <1>2, <1>4 DEF Processes
    <3> QED
      BY <1>5, <2>2, <3>1 DEF Follows
  <2> QED
    BY <2>1, <2>2
<1> QED
  BY <1>3, <1>6, <1>8, CommandsStand DEF HostInv, Load, Unload, Rewritten

----------------------------------------------------------------------------
(* The steps of the commands.                                               *)

CommandKind ==
  [at : {"idle", "found", "await", "unfile", "spawn", "confirm", "ask", "probe", "up", "down",
         "unheard"},
   cmd : Commands \cup {"none"}, pid : Pids \cup {NoPid},
   port : Ports \cup {NoPort}, new : Pids \cup {NoPid}, seen : SUBSET Pids]

\* Commands that change no process, no entry and no supervisor keep what is said
\* about those.
LEMMA OnlyCommands ==
  ASSUME HostInv, cli' \in [Clients -> CommandKind],
         UNCHANGED <<proc, file, sup, allowed, crossed>>
  PROVE  TypeOK' /\ Findable' /\ \A p \in Pids : Follows(p)
BY SameFollows DEF HostInv, TypeOK, CommandKind, Findable, Steady

\* A command goes to its next step, while processes may go on.
LEMMA GoesKeeps ==
  ASSUME HostInv, NEW c \in Clients, NEW at, [cli[c] EXCEPT !.at = at] \in CommandKind,
         Goes(c, at), \A p \in Pids : Follows(p),
         at \in {"found", "await", "unfile"} => cli[c].pid \in Pids,
         at \in {"await", "unfile"} => proc'[cli[c].pid].st = "none" \/ proc'[cli[c].pid].term,
         at = "down" /\ Probed(c) = DefaultPort => ~Answered(DefaultPort) /\ proc' = proc
  PROVE  cli' \in [Clients -> CommandKind] /\ Doomed' /\ SeenBefore'
<1> DEFINE r == [cli[c] EXCEPT !.at = at]
<1>1. cli[c] \in CommandKind
  BY DEF HostInv, TypeOK, CommandKind
<1>2. /\ r.at = at /\ r.pid = cli[c].pid /\ r.seen = cli[c].seen /\ r.port = cli[c].port
  BY <1>1 DEF CommandKind
<1>3. cli' = [cli EXCEPT ![c] = r]
  BY DEF Goes
<1>4. cli' \in [Clients -> CommandKind]
  BY <1>3 DEF HostInv, TypeOK, CommandKind
<1>5. Probed(c)' = Probed(c)
  BY <1>2, <1>3 DEF HostInv, TypeOK, Probed
<1>6. ASSUME NEW p \in cli[c].seen
      PROVE  /\ proc'[p].st \in Past \cup {"none"}
             /\ Steady(p)' => proc'[p].port = DefaultPort
             /\ at = "down" /\ Probed(c)' = DefaultPort => ~Steady(p)'
  <2>1. /\ proc'[p].st \in Past \cup {"none"}
        /\ Steady(p)' => Steady(p) /\ proc'[p].port = DefaultPort
    BY <1>6, Watched
  <2>2. p \in Pids
    BY <1>1, <1>6 DEF CommandKind
  <2>3. ASSUME at = "down", Probed(c) = DefaultPort, Steady(p)'
        PROVE  FALSE
    <3>1. ~Answered(DefaultPort) /\ proc' = proc /\ Steady(p) /\ proc[p].port = DefaultPort
      BY <2>1, <2>3
    <3> QED
      BY <2>2, <3>1 DEF Answered, Answers, Steady
  <2> QED
    BY <1>5, <2>1, <2>3
<1> HIDE DEF r
<1>7. /\ r.at \in {"found", "await", "unfile"} => r.pid \in Pids
      /\ r.at \in {"await", "unfile"} => proc'[r.pid].st = "none" \/ proc'[r.pid].term
  BY <1>2
<1>8. ASSUME NEW p \in r.seen
      PROVE  /\ proc'[p].st \in Past \cup {"none"}
             /\ Steady(p)' => proc'[p].port = DefaultPort
             /\ r.at = "down" /\ Probed(c)' = DefaultPort => ~Steady(p)'
  BY <1>2, <1>6, <1>8
<1>9. Doomed' /\ SeenBefore'
  BY <1>3, <1>7, <1>8, CommandMoves
<1> QED
  BY <1>4, <1>9

LEMMA IdleKind ==
  Idle \in CommandKind /\ Idle.seen = {} /\ Idle.at = "idle"
BY DaemonAssumption DEF CommandKind, Idle

\* A command returns.
LEMMA ReturnsKeeps ==
  ASSUME HostInv, NEW c \in Clients, Returns(c), \A p \in Pids : Follows(p)
  PROVE  cli' \in [Clients -> CommandKind] /\ Doomed' /\ SeenBefore'
<1>1. Idle \in CommandKind /\ Idle.seen = {} /\ Idle.at = "idle"
  BY IdleKind
<1>2. cli' = [cli EXCEPT ![c] = Idle]
  BY DEF Returns
<1>3. cli' \in [Clients -> CommandKind]
  BY <1>1, <1>2 DEF HostInv, TypeOK, CommandKind
<1> QED
  BY <1>1, <1>2, <1>3, CommandMoves

\* A command takes a step and touches nothing else.
LEMMA PureKeeps ==
  ASSUME HostInv, NEW c \in Clients, UNCHANGED <<proc, file, sup, allowed, crossed>>,
         \/ Returns(c)
         \/ \E at \in {"ask", "confirm", "probe", "up", "down", "unheard"} :
              /\ Goes(c, at)
              /\ at = "down" /\ Probed(c) = DefaultPort => ~Answered(DefaultPort)
         \/ Goes(c, "unfile") /\ cli[c].pid \in Pids
              /\ (proc[cli[c].pid].st = "none" \/ proc[cli[c].pid].term)
  PROVE  HostInv'
<1>1. \A p \in Pids : Follows(p)
  BY SameFollows
<1>2. cli[c] \in CommandKind
  BY DEF HostInv, TypeOK, CommandKind
<1>3. CASE Returns(c)
  <2>1. cli' \in [Clients -> CommandKind] /\ Doomed' /\ SeenBefore'
    BY <1>1, <1>3, ReturnsKeeps
  <2> QED
    BY <2>1, OnlyCommands DEF HostInv
<1>4. ASSUME NEW at \in {"ask", "confirm", "probe", "up", "down", "unheard"}, Goes(c, at),
             at = "down" /\ Probed(c) = DefaultPort => ~Answered(DefaultPort)
      PROVE  HostInv'
  <2>1. [cli[c] EXCEPT !.at = at] \in CommandKind
    BY <1>2 DEF CommandKind
  <2>2. at \notin {"found", "await", "unfile"}
    OBVIOUS
  <2>3. cli' \in [Clients -> CommandKind] /\ Doomed' /\ SeenBefore'
    BY <1>1, <1>4, <2>1, <2>2, GoesKeeps
  <2> QED
    BY <2>3, OnlyCommands DEF HostInv
<1>5. CASE Goes(c, "unfile") /\ cli[c].pid \in Pids
              /\ (proc[cli[c].pid].st = "none" \/ proc[cli[c].pid].term)
  <2>1. [cli[c] EXCEPT !.at = "unfile"] \in CommandKind
    BY <1>2 DEF CommandKind
  <2>2. cli' \in [Clients -> CommandKind] /\ Doomed' /\ SeenBefore'
    BY <1>1, <1>5, <2>1, GoesKeeps
  <2> QED
    BY <2>2, OnlyCommands DEF HostInv
<1> QED
  BY <1>3, <1>4, <1>5

LEMMA CallKeeps ==
  ASSUME HostInv, NEW c \in Clients, NEW cmd \in Commands, Call(c, cmd)
  PROVE  HostInv'
<1> DEFINE seen == IF cmd = "status"
                   THEN {p \in Pids : Steady(p) /\ proc[p].port = DefaultPort} ELSE {}
           port == IF file = NoFile THEN DefaultPort ELSE file.port
           run == [Idle EXCEPT !.cmd = cmd, !.pid = file.pid, !.port = port, !.seen = seen]
           Run(at) == [run EXCEPT !.at = at]
           r == IF file # NoFile THEN Run("found")
                ELSE [stop |-> Idle, restart |-> Run("spawn"), status |-> Run("probe")][cmd]
<1>1. cli' = [cli EXCEPT ![c] = r]
  BY DEF Call
<1>2. file \in {NoFile} \cup [pid : Pids, port : {NoPort} \cup Ports]
  BY DEF HostInv, TypeOK
<1>3. /\ file.pid \in Pids \cup {NoPid} /\ port \in Ports \cup {NoPort}
      /\ file # NoFile => file.pid \in Pids
  BY <1>2, DaemonAssumption DEF NoFile
<1>4. seen \subseteq Pids
  OBVIOUS
<1> HIDE DEF seen, port
<1>5. run \in CommandKind /\ run.pid = file.pid /\ run.seen = seen
  <2>1. file.pid \in Pids \cup {NoPid} /\ port \in Ports \cup {NoPort} /\ seen \in SUBSET Pids
    BY <1>3, <1>4
  <2> QED
    BY <2>1, IdleKind DEF CommandKind
<1> HIDE DEF run
<1>6. ASSUME NEW at \in {"found", "spawn", "probe"}
      PROVE  /\ Run(at) \in CommandKind /\ Run(at).at = at
             /\ Run(at).pid = file.pid /\ Run(at).seen = seen
  BY <1>5 DEF CommandKind
<1> HIDE DEF Run
<1>7. /\ r \in CommandKind
      /\ r.at \in {"found", "idle", "spawn", "probe"}
      /\ r.at = "found" => r.pid \in Pids
      /\ r.seen \subseteq seen
  <2>1. CASE file # NoFile
    BY <1>3, <1>6, <2>1
  <2>2. CASE file = NoFile
    <3>1. r \in {Idle, Run("spawn"), Run("probe")}
      BY <2>2 DEF Commands
    <3> QED
      BY <1>6, <3>1, IdleKind
  <2> QED
    BY <2>1, <2>2
<1> HIDE DEF r
<1>8. cli' \in [Clients -> CommandKind]
  BY <1>1, <1>7 DEF HostInv, TypeOK, CommandKind
<1>9. UNCHANGED <<proc, file, sup, allowed, crossed>>
  BY DEF Call
<1>10. TypeOK' /\ Findable' /\ \A p \in Pids : Follows(p)
  BY <1>8, <1>9, OnlyCommands
<1>11. ASSUME NEW p \in r.seen
       PROVE  /\ proc'[p].st \in Past \cup {"none"}
              /\ Steady(p)' => proc'[p].port = DefaultPort
  BY <1>7, <1>9 DEF seen, Steady, Past
<1>12. Doomed' /\ SeenBefore'
  BY <1>1, <1>7, <1>10, <1>11, CommandMoves
<1> QED
  BY <1>10, <1>12 DEF HostInv

\* A process is told to end, or killed, while the command that does it goes on.
LEMMA KillKeeps ==
  ASSUME HostInv, NEW p \in Pids, Live(p), proc' = Signalled(p) \/ proc' = Ended(p),
         cli' \in [Clients -> CommandKind],
         UNCHANGED <<file, sup, allowed, crossed>>
  PROVE  /\ TypeOK' /\ Findable' /\ \A o \in Pids : Follows(o)
         /\ proc'[p].st = "none" \/ proc'[p].term
<1>1. proc[p] \in Processes /\ proc[p].st # "none"
  BY DEF HostInv, TypeOK, Live
<1>2. \A o \in Pids \ {p} : proc'[o] = proc[o]
  BY DEF HostInv, TypeOK, Signalled, Ended
<1>3. proc'[p] = [proc[p] EXCEPT !.term = TRUE] \/ proc'[p] = NoProcess
  BY DEF HostInv, TypeOK, Signalled, Ended
<1>4. proc'[p] \in Processes /\ ~Steady(p)'
  <2>1. CASE proc'[p] = [proc[p] EXCEPT !.term = TRUE]
    BY <1>1, <2>1 DEF Processes, Steady
  <2>2. CASE proc'[p] = NoProcess
    BY <2>2, DaemonAssumption DEF Processes, Stages, NoProcess, Steady
  <2> QED
    BY <1>3, <2>1, <2>2
<1>5. proc' \in [Pids -> Processes]
  BY <1>4 DEF HostInv, TypeOK, Signalled, Ended
<1>6. TypeOK'
  BY <1>5 DEF HostInv, TypeOK, CommandKind
<1>7. Findable'
  BY <1>2, <1>4, SameFollows DEF HostInv, Findable
<1>8. Follows(p)
  BY <1>1, <1>3, <1>4 DEF Follows, Processes, NoProcess
<1>9. \A o \in Pids : Follows(o)
  BY <1>2, <1>8, SameFollows
<1> QED
  BY <1>1, <1>3, <1>6, <1>7, <1>9 DEF Processes, NoProcess

LEMMA StopFoundKeeps ==
  ASSUME HostInv, NEW c \in Clients, StopFound(c)
  PROVE  HostInv'
<1>1. cli[c].pid \in Pids /\ cli[c] \in CommandKind
  BY DEF HostInv, Doomed, TypeOK, CommandKind, StopFound
<1>2. CASE Live(cli[c].pid) /\ proc' = Signalled(cli[c].pid) /\ Goes(c, "await")
  <2>1. [cli[c] EXCEPT !.at = "await"] \in CommandKind
    BY <1>1 DEF CommandKind
  <2>2. cli' \in [Clients -> CommandKind]
    BY <1>2, <2>1 DEF HostInv, TypeOK, Goes, CommandKind
  <2>3. UNCHANGED <<file, sup, allowed, crossed>>
    BY DEF StopFound
  <2>4. /\ TypeOK' /\ Findable' /\ \A o \in Pids : Follows(o)
        /\ proc'[cli[c].pid].st = "none" \/ proc'[cli[c].pid].term
    BY <1>1, <1>2, <2>2, <2>3, KillKeeps
  <2>5. Doomed' /\ SeenBefore'
    BY <1>1, <1>2, <2>1, <2>4, GoesKeeps
  <2> QED
    BY <2>4, <2>5 DEF HostInv
<1>3. CASE Live(cli[c].pid) /\ proc[cli[c].pid].st = "other" /\ Returns(c) /\ UNCHANGED proc
  BY <1>3, PureKeeps DEF StopFound
<1>4. CASE ~Live(cli[c].pid) /\ Goes(c, "unfile") /\ UNCHANGED proc
  <2>1. proc[cli[c].pid].st = "none"
    BY <1>1, <1>4 DEF Live
  <2> QED
    BY <1>1, <1>4, <2>1, PureKeeps DEF StopFound
<1> QED
  BY <1>2, <1>3, <1>4 DEF StopFound

LEMMA AwaitedKeeps ==
  ASSUME HostInv, NEW c \in Clients, Awaited(c)
  PROVE  HostInv'
<1>1. /\ cli[c].pid \in Pids /\ cli[c] \in CommandKind
      /\ proc[cli[c].pid].st = "none" \/ proc[cli[c].pid].term
  BY DEF HostInv, Doomed, TypeOK, CommandKind, Awaited
<1>2. CASE Goes(c, "unfile") /\ UNCHANGED proc
  BY <1>1, <1>2, PureKeeps DEF Awaited
<1>3. CASE Returns(c) /\ UNCHANGED proc
  BY <1>3, PureKeeps DEF Awaited
<1>4. CASE Live(cli[c].pid) /\ proc' = Ended(cli[c].pid) /\ Goes(c, "unfile")
  <2>1. [cli[c] EXCEPT !.at = "unfile"] \in CommandKind
    BY <1>1 DEF CommandKind
  <2>2. cli' \in [Clients -> CommandKind]
    BY <1>4, <2>1 DEF HostInv, TypeOK, Goes, CommandKind
  <2>3. UNCHANGED <<file, sup, allowed, crossed>>
    BY DEF Awaited
  <2>4. /\ TypeOK' /\ Findable' /\ \A o \in Pids : Follows(o)
        /\ proc'[cli[c].pid].st = "none" \/ proc'[cli[c].pid].term
    BY <1>1, <1>4, <2>2, <2>3, KillKeeps
  <2>5. Doomed' /\ SeenBefore'
    BY <1>1, <1>4, <2>1, <2>4, GoesKeeps
  <2> QED
    BY <2>4, <2>5 DEF HostInv
<1> QED
  BY <1>2, <1>3, <1>4 DEF Awaited

\* The entry that goes is that of a process which is dead or told to end.
LEMMA UnfileKeeps ==
  ASSUME HostInv, NEW c \in Clients, Unfile(c)
  PROVE  HostInv'
<1> DEFINE r == IF cli[c].cmd = "restart" THEN [cli[c] EXCEPT !.at = "spawn", !.pid = NoPid]
                ELSE Idle
<1>1. /\ cli[c].pid \in Pids /\ cli[c] \in CommandKind
      /\ proc[cli[c].pid].st = "none" \/ proc[cli[c].pid].term
  BY DEF HostInv, Doomed, TypeOK, CommandKind, Unfile
<1>2. cli' = [cli EXCEPT ![c] = r]
  BY <1>1 DEF Unfile, Returns, HostInv, TypeOK, CommandKind
<1>3. /\ r \in CommandKind /\ r.at \in {"idle", "spawn"}
      /\ r.seen \subseteq cli[c].seen
  BY <1>1, IdleKind DEF CommandKind
<1> HIDE DEF r
<1>4. UNCHANGED <<proc, sup, allowed, crossed>>
  BY DEF Unfile
<1>5. \A p \in Pids : Follows(p)
  BY <1>4, SameFollows
<1>6. TypeOK'
  BY <1>2, <1>3, <1>4 DEF HostInv, TypeOK, CommandKind, Unfile, RemovePidFile
<1>7. Findable'
  BY <1>1, <1>4 DEF HostInv, Findable, Steady, Unfile, RemovePidFile
<1>8. Doomed' /\ SeenBefore'
  BY <1>2, <1>3, <1>5, Watched, CommandMoves
<1> QED
  BY <1>6, <1>7, <1>8 DEF HostInv

LEMMA SpawnKeeps ==
  ASSUME HostInv, NEW c \in Clients, Spawn(c)
  PROVE  HostInv'
<1>1. cli[c] \in CommandKind /\ UNCHANGED <<file, sup, allowed, crossed>>
  BY DEF HostInv, TypeOK, CommandKind, Spawn
<1>2. CASE Returns(c) /\ UNCHANGED proc
  BY <1>1, <1>2, PureKeeps
<1>3. ASSUME NEW p \in Pids, NEW q \in {cli[c].port, DefaultPort} \ {NoPort},
             NextPid(p), proc' = Started(p, q, FALSE),
             cli' = [cli EXCEPT ![c].at = "confirm", ![c].new = p, ![c].port = q]
      PROVE  HostInv'
  <2> DEFINE r == [cli[c] EXCEPT !.at = "confirm", !.new = p, !.port = q]
  <2>1. q \in Ports
    BY <1>1, DaemonAssumption DEF CommandKind
  <2>2. cli' = [cli EXCEPT ![c] = r]
    BY <1>1, <1>3 DEF HostInv, TypeOK, CommandKind
  <2>3. r \in CommandKind /\ r.at = "confirm" /\ r.seen = cli[c].seen
    BY <1>1, <2>1 DEF CommandKind
  <2> HIDE DEF r
  <2>4. \A o \in Pids \ {p} : proc'[o] = proc[o]
    BY <1>3 DEF HostInv, TypeOK, Started
  <2>5. \A o \in Pids : Follows(o)
    BY <1>3, <2>4, SameFollows DEF NextPid, Follows
  <2>6. proc'[p] = [st |-> "boot", port |-> q, sup |-> FALSE, term |-> FALSE, stuck |-> FALSE]
    BY <1>3 DEF HostInv, TypeOK, Started
  <2>7. proc'[p] \in Processes /\ ~Steady(p)'
    BY <2>1, <2>6 DEF Processes, Stages, Steady
  <2>8. TypeOK'
    <3>1. proc' \in [Pids -> Processes]
      BY <1>3, <2>7 DEF HostInv, TypeOK, Started
    <3>2. cli' \in [Clients -> CommandKind]
      BY <2>2, <2>3 DEF HostInv, TypeOK, CommandKind
    <3> QED
      BY <1>1, <3>1, <3>2 DEF HostInv, TypeOK, CommandKind
  <2>9. Findable'
    BY <1>1, <2>4, <2>7, SameFollows DEF HostInv, Findable
  <2>10. Doomed' /\ SeenBefore'
    BY <2>2, <2>3, <2>5, Watched, CommandMoves
  <2> QED
    BY <2>8, <2>9, <2>10 DEF HostInv
<1> QED
  BY <1>2, <1>3 DEF Spawn

\* status says "down" only after nobody answered where it looked.
LEMMA StatusProbeKeeps ==
  ASSUME HostInv, NEW c \in Clients, StatusProbe(c)
  PROVE  HostInv'
<1>1. CASE Answered(Probed(c))
  <2>1. PICK at \in {"up", "unheard"} : Goes(c, at)
    BY <1>1 DEF StatusProbe
  <2>2. UNCHANGED <<proc, file, sup, allowed, crossed>>
    BY DEF StatusProbe
  <2> QED
    BY <2>1, <2>2, PureKeeps
<1>2. CASE ~Answered(Probed(c))
  BY <1>2, PureKeeps DEF StatusProbe
<1> QED
  BY <1>1, <1>2

LEMMA AdvanceKeeps ==
  ASSUME HostInv, NEW c \in Clients, Advance(c) \/ Abandon(c)
  PROVE  HostInv'
<1>1. CASE ConfirmAlive(c)
  BY <1>1, PureKeeps DEF ConfirmAlive
<1>2. CASE ConfirmAsk(c)
  BY <1>2, PureKeeps DEF ConfirmAsk
<1>3. CASE StatusFound(c)
  BY <1>3, PureKeeps DEF StatusFound
<1>4. CASE StatusReturns(c) \/ Abandon(c)
  BY <1>4, PureKeeps DEF StatusReturns, Abandon
<1> QED
  BY <1>1, <1>2, <1>3, <1>4, StopFoundKeeps, AwaitedKeeps, UnfileKeeps, SpawnKeeps,
     StatusProbeKeeps DEF Advance

LEMMA RunsKeep ==
  ASSUME HostInv, Runs
  PROVE  HostInv'
BY OneDaemonKeeps, RespawnKeeps, AdvanceKeeps DEF Runs

----------------------------------------------------------------------------
(* The host with any supervisor, told anything at any time.                 *)

LEMMA HostStarts ==
  ASSUME HostInit, sup \in Supervisors
  PROVE  HostInv
<1>1. Idle \in CommandKind /\ Idle.seen = {} /\ Idle.at = "idle"
  BY IdleKind
<1>2. NoProcess \in Processes
  BY DaemonAssumption DEF NoProcess, Processes, Stages
<1>3. proc \in [Pids -> Processes] /\ \A p \in Pids : proc[p].st \in {"none", "other"}
  <2>1. CASE file = NoFile /\ proc = [p \in Pids |-> NoProcess]
    BY <1>2, <2>1 DEF NoProcess
  <2>2. ASSUME NEW p \in Pids, NEW st \in {"none", "other"},
               proc = [o \in Pids |-> IF o = p THEN [NoProcess EXCEPT !.st = st] ELSE NoProcess]
        PROVE  proc \in [Pids -> Processes] /\ \A o \in Pids : proc[o].st \in {"none", "other"}
    <3>1. [NoProcess EXCEPT !.st = st] \in Processes /\ [NoProcess EXCEPT !.st = st].st = st
      BY <1>2 DEF Processes, Stages
    <3> QED
      BY <1>2, <2>2, <3>1 DEF NoProcess
  <2> QED
    BY <2>1, <2>2 DEF HostInit
<1>4. TypeOK
  <2>1. file \in {NoFile} \cup [pid : Pids, port : {NoPort} \cup Ports]
    BY DEF HostInit
  <2>2. allowed \in BOOLEAN
    <3>1. PICK read \in LeaseReads : allowed = CheckHostLease(read)
      BY DEF HostInit
    <3>2. (read \in {"absent", "this host"}) \in BOOLEAN
      OBVIOUS
    <3>3. CheckHostLease(read) \in BOOLEAN
      BY <3>2 DEF CheckHostLease
    <3> QED
      BY <3>1, <3>3, Zenon
  <2>3. cli \in [Clients -> CommandKind] /\ crossed \in BOOLEAN
    BY <1>1 DEF HostInit
  <2> QED
    BY <1>3, <2>1, <2>2, <2>3 DEF TypeOK, CommandKind
<1>5. Findable
  BY <1>3 DEF Findable, Steady
<1>6. \A c \in Clients : cli[c].at = "idle" /\ cli[c].seen = {}
  BY <1>1 DEF HostInit
<1>7. Doomed /\ SeenBefore
  BY <1>6 DEF Doomed, SeenBefore
<1> QED
  BY <1>4, <1>5, <1>7 DEF HostInv

LEMMA HostStep ==
  ASSUME HostInv, [Next]_vars
  PROVE  HostInv'
<1>1. CASE Next
  BY <1>1, ServeKeeps, CallKeeps, RunsKeep, ToldKeeps DEF Next, Told
<1>2. CASE UNCHANGED vars
  BY <1>2, SameFollows
     DEF vars, HostInv, TypeOK, Findable, Doomed, SeenBefore, Steady, Probed
<1> QED
  BY <1>1, <1>2

----------------------------------------------------------------------------
(* The same host with the wizard.                                           *)

LEMMA WizardStarts ==
  ASSUME SetupInit
  PROVE  HostInv /\ WizardKind
<1>1. Quiet \in WizardStates
  BY DaemonAssumption, SetupAssumption DEF Quiet, WizardStates, Places, Sayings
<1>2. Unused \in WizardStates
  BY <1>1 DEF Unused, WizardStates
<1>3. sup.loaded \in BOOLEAN
  BY DEF SetupInit, Supervisors
<1>4. [Quiet EXCEPT !.stray = sup.loaded /\ sup.text = "none"] \in WizardStates
  BY <1>1, <1>3 DEF WizardStates
<1> QED
  BY <1>1, <1>2, <1>4, HostStarts DEF SetupInit, WizardKind

\* Whatever the wizard does to the host, somebody else may do as well.
LEMMA WizardTouchesHost ==
  ASSUME HostInv, WizardKind, WizardNext
  PROVE  HostInv'
<1>1. CASE UNCHANGED vars
  BY <1>1, HostStep
<1>2. ASSUME NEW same \in BOOLEAN, WriteDefinition(same) PROVE HostInv'
  BY <1>2, ToldKeeps DEF WriteDefinition, Texts
<1>3. sup.text \in Texts
  BY DEF HostInv, TypeOK, Supervisors
<1>4. CASE Reload
  BY <1>1, <1>3, <1>4, ToldKeeps DEF Reload
<1>5. CASE Enable
  BY <1>1, <1>3, <1>5, ToldKeeps DEF Enable
<1>6. CASE StartDaemon
  BY <1>1, <1>6, ServeKeeps, DaemonAssumption DEF StartDaemon
<1>7. CASE Unsupervise
  BY <1>1, <1>3, <1>7, ToldKeeps DEF Unsupervise
<1>9. CASE Undefine
  BY <1>1, <1>9, ToldKeeps DEF Undefine, Texts
<1>8. CASE StopDaemon
  BY <1>1, <1>8, CallKeeps, SetupAssumption DEF StopDaemon, Commands
<1> QED
  BY <1>1, <1>2, <1>4, <1>5, <1>6, <1>7, <1>8, <1>9
     DEF WizardNext, Scaffold, SuperviseNot, RemoveFiles, DaemonStopped, Unregister, Interrupt

\* What may be said of the wizard's state after it changed.
LEMMA WizardMoves ==
  ASSUME wiz \in WizardStates, NEW at \in Places
  PROVE  /\ [wiz EXCEPT !.at = at] \in WizardStates
         /\ \A tools \in BOOLEAN : [wiz EXCEPT !.at = at, !.tools = tools] \in WizardStates
         /\ \A stray \in BOOLEAN : [wiz EXCEPT !.at = at, !.stray = stray] \in WizardStates
         /\ \A said \in Sayings, tools \in BOOLEAN :
              [wiz EXCEPT !.at = at, !.said = said, !.tools = tools] \in WizardStates
         /\ \A said \in Sayings, left \in Nat :
              [wiz EXCEPT !.at = at, !.said = said, !.left = left] \in WizardStates
         /\ \A said \in Sayings, left \in Nat, tools \in BOOLEAN :
              [wiz EXCEPT !.at = at, !.said = said, !.left = left, !.tools = tools]
                \in WizardStates
BY DEF WizardStates

\* The wizard never changes which ports the user may ask for.
LEMMA WizardStaysKind ==
  ASSUME HostInv, WizardKind, WizardNext
  PROVE  WizardKind'
<1>1. sup.loaded \in BOOLEAN /\ wiz \in WizardStates
  BY DEF HostInv, TypeOK, Supervisors, WizardKind
<1>2. wiz.stray \in BOOLEAN /\ wiz.left \in Nat /\ (wiz.left > 0 => wiz.left - 1 \in Nat)
  BY <1>1 DEF WizardStates
<1>3. /\ {"idle", "supervise", "reload", "enable", "daemon", "unsupervise", "undefine",
          "stop", "stopping", "unregister"} = Places
      /\ {"nothing", "installed", "removed"} = Sayings
  BY DEF Places, Sayings
<1>4. ASSUME NEW at \in Places, Steps(at) PROVE wiz' \in WizardStates
  BY <1>1, <1>4, WizardMoves DEF Steps
<1>5. ASSUME NEW said \in Sayings, Ends(said) PROVE wiz' \in WizardStates
  <2>1. wiz' = [wiz EXCEPT !.at = "idle", !.said = said, !.tools = TRUE]
    BY <1>5 DEF Ends
  <2>2. "idle" \in Places /\ TRUE \in BOOLEAN
    BY DEF Places
  <2> QED
    BY <1>1, <1>2, <1>5, <2>1, <2>2, WizardMoves
<1>6. ASSUME NEW n, Scaffold(n) PROVE wiz' \in WizardStates
  <2>1. PICK at \in {"idle", "supervise"} :
          wiz' = [wiz EXCEPT !.at = at, !.said = "nothing", !.left = @ - 1]
    BY <1>6 DEF Scaffold
  <2>2. wiz' = [wiz EXCEPT !.at = at, !.said = "nothing", !.left = wiz.left - 1]
    BY <1>1, <2>1 DEF WizardStates
  <2>3. wiz.left - 1 \in Nat /\ at \in Places /\ "nothing" \in Sayings
    BY <1>2, <1>6, <2>1 DEF Scaffold, Places, Sayings
  <2> QED
    BY <1>1, <2>2, <2>3, WizardMoves
<1>7. ASSUME NEW gone, RemoveFiles(gone) PROVE wiz' \in WizardStates
  <2>1. PICK tools \in BOOLEAN : wiz' =
          [wiz EXCEPT !.at = "unsupervise", !.said = "nothing", !.left = @ - 1, !.tools = tools]
    <3>1. (gone = Removable) \in BOOLEAN
      OBVIOUS
    <3> QED
      BY <1>7, <3>1 DEF RemoveFiles
  <2>2. wiz' = [wiz EXCEPT !.at = "unsupervise", !.said = "nothing", !.left = wiz.left - 1,
                  !.tools = tools]
    BY <1>1, <2>1 DEF WizardStates
  <2>3. wiz.left - 1 \in Nat /\ "unsupervise" \in Places /\ "nothing" \in Sayings
    BY <1>2, <1>7 DEF RemoveFiles, Places, Sayings
  <2> QED
    BY <1>1, <2>2, <2>3, WizardMoves
<1>8. ASSUME NEW at \in {"stop", "undefine", "unregister"}, wiz' = [wiz EXCEPT !.at = at, !.tools = FALSE]
      PROVE  wiz' \in WizardStates
  BY <1>1, <1>3, <1>8, WizardMoves
<1>9. ASSUME wiz' = [wiz EXCEPT !.at = "stop", !.stray = @ \/ sup.loaded]
      PROVE  wiz' \in WizardStates
  <2>1. wiz' = [wiz EXCEPT !.at = "stop", !.stray = wiz.stray \/ sup.loaded]
    BY <1>1, <1>9 DEF WizardStates
  <2>2. (wiz.stray \/ sup.loaded) \in BOOLEAN /\ "stop" \in Places
    BY <1>3
  <2> QED
    BY <1>1, <2>1, <2>2, WizardMoves
<1>10. CASE Unsupervise \/ Undefine
  BY <1>3, <1>4, <1>8, <1>9, <1>10 DEF Unsupervise, Undefine, WizardKind
<1>11. CASE StopDaemon
  BY <1>3, <1>4, <1>8, <1>11 DEF StopDaemon, WizardKind
<1>12. CASE SuperviseNot \/ (\E same \in BOOLEAN : WriteDefinition(same)) \/ Reload \/ Enable
  BY <1>3, <1>4, <1>12 DEF SuperviseNot, WriteDefinition, Reload, Enable, WizardKind
<1>13. CASE DaemonStopped
  BY <1>3, <1>4, <1>13 DEF DaemonStopped, WizardKind
<1>14. CASE StartDaemon \/ Unregister \/ Interrupt
  BY <1>3, <1>5, <1>14 DEF StartDaemon, Unregister, Interrupt, WizardKind
<1> QED
  BY <1>6, <1>7, <1>10, <1>11, <1>12, <1>13, <1>14 DEF WizardNext, WizardKind

LEMMA WizardStep ==
  ASSUME HostInv, WizardKind, [SetupNext]_allVars
  PROVE  HostInv' /\ WizardKind'
<1>1. CASE WizardNext
  BY <1>1, WizardTouchesHost, WizardStaysKind
<1>2. CASE HostNext
  <2>1. HostInv'
    BY <1>2, ServeKeeps, CallKeeps, RunsKeep DEF HostNext, WizardKind, WizardStates
  <2> QED
    BY <1>2, <2>1 DEF HostNext, WizardKind
<1>3. CASE UNCHANGED allVars
  BY <1>3, HostStep DEF allVars, WizardKind
<1> QED
  BY <1>1, <1>2, <1>3 DEF SetupNext

----------------------------------------------------------------------------
(* The theorems.                                                            *)

\* Every variable of the host holds a value of its kind, the wizard beside it.
THEOREM HostTypes == SetupSpec => []TypeOK
<1>1. SetupInit => HostInv /\ WizardKind
  BY WizardStarts
<1>2. HostInv /\ WizardKind /\ [SetupNext]_allVars => HostInv' /\ WizardKind'
  BY WizardStep
<1>3. HostInv => TypeOK
  BY DEF HostInv
<1> QED
  BY <1>1, <1>2, <1>3, PTL DEF SetupSpec

\* A daemon that answers and that nobody told to stop is the one the pid file
\* names, unless daemons on two ports have crossed.
THEOREM EntriesFind == SetupSpec => []Findable
<1>1. SetupInit => HostInv /\ WizardKind
  BY WizardStarts
<1>2. HostInv /\ WizardKind /\ [SetupNext]_allVars => HostInv' /\ WizardKind'
  BY WizardStep
<1>3. HostInv => Findable
  BY DEF HostInv
<1> QED
  BY <1>1, <1>2, <1>3, PTL DEF SetupSpec

\* status never denies a daemon that answered the default port when it read the
\* pid file, does so still and answers its probe.
THEOREM StatusIsTrue == SetupSpec => []StatusTruthful
<1>1. SetupInit => HostInv /\ WizardKind
  BY WizardStarts
<1>2. HostInv /\ WizardKind /\ [SetupNext]_allVars => HostInv' /\ WizardKind'
  BY WizardStep
<1>3. HostInv => StatusTruthful
  BY DEF HostInv, SeenBefore, StatusTruthful
<1> QED
  BY <1>1, <1>2, <1>3, PTL DEF SetupSpec

\* Without the wizard too, however often a supervisor is told to load and unload.
THEOREM HostAlone == Spec => [](Findable /\ StatusTruthful)
<1>1. Init => HostInv
  BY HostStarts DEF Init
<1>2. HostInv /\ [Next]_vars => HostInv'
  BY HostStep
<1>3. HostInv => Findable /\ StatusTruthful
  BY DEF HostInv, SeenBefore, StatusTruthful
<1> QED
  BY <1>1, <1>2, <1>3, PTL DEF Spec

----------------------------------------------------------------------------
(* What the wizard says at its end.  Two facts carry it: whoever is past    *)
(* the files has them all, and a supervisor that is not loaded has no       *)
(* process that was not told to end.                                        *)

Whole == Pieces \subseteq home.has /\ Marked(home.skill)

Installing ==
  /\ wiz.at # "idle" => wiz.said = "nothing"
  /\ wiz.at \in {"supervise", "reload", "enable", "daemon"} \/ wiz.said = "installed" => Whole
  /\ wiz.at \in {"reload", "enable"} => sup.text = "written"

Childless == ~sup.loaded => \A p \in Pids : Live(p) /\ proc[p].sup => proc[p].term

\* A definition that went while its supervisor was loaded is remembered as stray,
\* or the wizard never runs.
Removing ==
  /\ sup.kind = "none" => ~sup.loaded
  /\ sup.text = "none" /\ sup.loaded =>
       wiz.stray \/ (wiz.left = 0 /\ wiz.at = "idle" /\ wiz.said = "nothing")
  /\ \/ wiz.at \in {"undefine", "stop", "stopping", "unregister"} /\ wiz.tools
     \/ wiz.said = "removed"
     => wiz.stray \/ ~sup.loaded

WizardInv == Installing /\ Childless /\ Removing

\* No step of a daemon or of a command makes a process the supervisor's.
Orphans ==
  \A o \in Pids : proc'[o].st # "none" /\ proc'[o].sup =>
    proc[o].st # "none" /\ proc[o].sup /\ (proc[o].term => proc'[o].term)

LEMMA DaemonsStayWhose ==
  ASSUME HostInv, NEW p \in Pids, Daemon(p) \/ Crash(p)
  PROVE  Orphans
<1>1. proc \in [Pids -> Processes]
  BY DEF HostInv, TypeOK
<1>2. CASE proc' = Ended(p)
  BY <1>1, <1>2 DEF Ended, NoProcess, Orphans
<1>3. ASSUME NEW s, proc' = [proc EXCEPT ![p].st = s], proc[p].st # "none"
      PROVE  Orphans
  BY <1>1, <1>3 DEF Orphans, Processes
<1>4. ASSUME NEW s, NEW k, proc' = [proc EXCEPT ![p].st = s, ![p].stuck = k], proc[p].st # "none"
      PROVE  Orphans
  BY <1>1, <1>4 DEF Orphans, Processes
<1>5. CASE Term(p)
  BY <1>2, <1>4, <1>5 DEF Term
<1>6. CASE Bind(p) \/ File(p) \/ Watch(p)
  BY <1>3, <1>6 DEF Bind, File, Watch
<1>7. CASE CloseSocket(p)
  BY <1>3, <1>7 DEF CloseSocket, WatchCloses, WatchCapped
<1>8. CASE Refuse(p) \/ Leave(p) \/ Crash(p)
  BY <1>2, <1>8 DEF Refuse, Leave, Crash
<1> QED
  BY <1>5, <1>6, <1>7, <1>8 DEF Daemon

LEMMA StartedAlone ==
  ASSUME HostInv, NEW p \in Pids, NEW q \in Ports, proc' = Started(p, q, FALSE)
  PROVE  Orphans
BY DEF HostInv, TypeOK, Started, Orphans

LEMMA CommandsStayWhose ==
  ASSUME HostInv, NEW c \in Clients, Advance(c) \/ Abandon(c)
  PROVE  Orphans
<1>1. proc \in [Pids -> Processes] /\ cli[c] \in CommandKind
  BY DEF HostInv, TypeOK, CommandKind
<1>2. CASE UNCHANGED proc
  BY <1>2 DEF Orphans
<1>3. CASE StopFound(c) \/ Awaited(c)
  <2>1. cli[c].pid \in Pids
    BY <1>3 DEF HostInv, Doomed, StopFound, Awaited
  <2>2. CASE Live(cli[c].pid) /\ proc' = Signalled(cli[c].pid)
    BY <1>1, <2>1, <2>2 DEF Signalled, Orphans, Processes, Live
  <2>3. CASE proc' = Ended(cli[c].pid)
    BY <1>1, <2>1, <2>3 DEF Ended, NoProcess, Orphans
  <2> QED
    BY <1>2, <1>3, <2>2, <2>3 DEF StopFound, Awaited
<1>4. CASE Spawn(c)
  <2>1. ASSUME NEW p \in Pids, NEW q \in {cli[c].port, DefaultPort} \ {NoPort},
               proc' = Started(p, q, FALSE)
        PROVE  Orphans
    BY <1>1, <2>1, StartedAlone, DaemonAssumption DEF CommandKind
  <2> QED
    BY <1>2, <1>4, <2>1 DEF Spawn
<1> QED
  BY <1>2, <1>3, <1>4 DEF Advance, Abandon, Unfile, ConfirmAlive, ConfirmAsk, StatusFound,
     StatusProbe, StatusReturns

\* Everybody else leaves the wizard's promises alone.
LEMMA HostKeepsWizard ==
  ASSUME HostInv, WizardKind, WizardInv, HostNext
  PROVE  WizardInv'
<1>1. UNCHANGED <<sup, home, wiz>>
  BY DEF HostNext, Serve, Call, Runs, Daemon, Refuse, Bind, File, Watch, Term, CloseSocket,
     Leave, Crash, Respawn, Advance, Abandon, StopFound, Awaited, Unfile, Spawn, ConfirmAlive,
     ConfirmAsk, StatusFound, StatusProbe, StatusReturns
<1>2. Orphans \/ Respawn
  <2>1. ASSUME NEW q \in wiz.ports, Serve(q) PROVE Orphans
    BY <2>1, StartedAlone DEF Serve, WizardKind, WizardStates
  <2>2. ASSUME NEW c \in Clients, NEW cmd \in Commands, Call(c, cmd) PROVE Orphans
    BY <2>2 DEF Call, Orphans
  <2> QED
    BY <2>1, <2>2, DaemonsStayWhose, CommandsStayWhose DEF HostNext, Runs
<1>3. Childless'
  BY <1>1, <1>2 DEF WizardInv, Childless, Orphans, Live, Respawn
<1> QED
  BY <1>1, <1>3 DEF WizardInv, Installing, Whole, Removing

\* The eight steps together put every piece in place.
LEMMA AllSteps == Pieces \subseteq {Ordered[i] : i \in 1..Len(Ordered)} \cap Pieces
<1>1. Len(Ordered) = 8
  BY DEF Ordered
<1>2. /\ Ordered[2] = "create-active-root" /\ Ordered[3] = "write-schema-version"
      /\ Ordered[4] = "write-config-stub" /\ Ordered[6] = "install-command"
      /\ Ordered[8] = "register-agent-chat-hooks"
  BY DEF Ordered
<1>3. {2, 3, 4, 6, 8} \subseteq 1..8
  OBVIOUS
<1> HIDE DEF Ordered
<1> QED
  BY <1>1, <1>2, <1>3 DEF Pieces, Files, Hooks

LEMMA WizardPromises ==
  ASSUME SetupInit
  PROVE  WizardInv
<1>1. \A p \in Pids : ~proc[p].sup
  <2>1. ~NoProcess.sup
    BY DEF NoProcess
  <2>2. \A st : ~[NoProcess EXCEPT !.st = st].sup
    BY DEF NoProcess
  <2>3. \/ proc = [o \in Pids |-> NoProcess]
        \/ \E p \in Pids, st \in {"none", "other"} :
             proc = [o \in Pids |-> IF o = p THEN [NoProcess EXCEPT !.st = st] ELSE NoProcess]
    BY DEF SetupInit, HostInit
  <2> QED
    BY <2>1, <2>2, <2>3
<1>2. /\ Quiet.at = "idle" /\ Quiet.said = "nothing"
      /\ Unused.at = "idle" /\ Unused.said = "nothing" /\ Unused.left = 0
  BY DEF Unused, Quiet
<1>3. ASSUME wiz = [Quiet EXCEPT !.stray = sup.loaded /\ sup.text = "none"]
      PROVE  wiz.at = "idle" /\ wiz.said = "nothing" /\ (sup.loaded /\ sup.text = "none" => wiz.stray)
  BY <1>3 DEF Quiet
<1>4. /\ wiz.at = "idle" /\ wiz.said = "nothing"
      /\ sup.text = "none" /\ sup.loaded => wiz.stray \/ wiz.left = 0
  BY <1>2, <1>3 DEF SetupInit, Unsupervised
<1> QED
  BY <1>1, <1>4
     DEF SetupInit, Unsupervised, WizardInv, Installing, Childless, Removing

\* What the supervisor is told never leaves it unloaded with a process that
\* was not told to end.
LEMMA ToldStaysChildless ==
  ASSUME HostInv, Childless, NEW text, Load(text) \/ Unload(text) \/ Rewritten(text)
  PROVE  Childless'
<1>1. proc \in [Pids -> Processes] /\ sup \in Supervisors
  BY DEF HostInv, TypeOK
<1>2. CASE Load(text)
  BY <1>1, <1>2 DEF Load, Childless, Supervisors
<1>3. CASE Unload(text)
  BY <1>1, <1>3 DEF Unload, Childless, Children, Live, Processes
<1>4. CASE Rewritten(text)
  BY <1>1, <1>4 DEF Rewritten, Childless, Supervisors, Live
<1> QED
  BY <1>2, <1>3, <1>4

LEMMA InstallKeeps ==
  ASSUME HostInv, WizardKind, WizardInv,
         \/ \E n \in {m \in BreaksAfter : MayFail(m + 1)} \cup {Len(Ordered)} : Scaffold(n)
         \/ SuperviseNot \/ Reload \/ Enable \/ StartDaemon
         \/ \E same \in BOOLEAN : WriteDefinition(same)
  PROVE  WizardInv'
<1>1. wiz \in WizardStates /\ sup \in Supervisors
  BY DEF HostInv, TypeOK, WizardKind
<1>2. ASSUME UNCHANGED vars PROVE Childless'
  BY <1>2 DEF vars, WizardInv, Childless, Live
<1>3. ASSUME NEW n, Scaffold(n) PROVE WizardInv'
  <2>1. wiz'.said = "nothing" /\ wiz'.stray = wiz.stray
    BY <1>1, <1>3 DEF Scaffold, WizardStates
  <2>2. wiz'.at = IF n = Len(Ordered) THEN "supervise" ELSE "idle"
    BY <1>1, <1>3 DEF Scaffold, WizardStates
  <2>3. n = Len(Ordered) => Whole'
    <3>1. Len(Ordered) = 8
      BY DEF Ordered
    <3>2. ASSUME n = Len(Ordered)
          PROVE  \E skill \in Copied(home.skill) : home' =
                   [has |-> home.has \cup ({Ordered[i] : i \in 1..n} \cap Pieces), skill |-> skill]
      <4>1. (IF n >= 5 THEN Copied(home.skill)
             ELSE IF n = 4 THEN BrokenOff(home.skill) ELSE {home.skill}) = Copied(home.skill)
        BY <3>1, <3>2
      <4> HIDE DEF Copied
      <4> QED
        BY <1>3, <4>1, Zenon DEF Scaffold
    <3>3. \A skill \in Copied(home.skill) : Marked(skill)
      BY DEF Copied, Marked
    <3> QED
      BY <3>2, <3>3, AllSteps DEF Whole
  <2>4. wiz.left > 0 /\ wiz.at = "idle" /\ UNCHANGED vars
    BY <1>3 DEF Scaffold
  <2>5. Removing'
    BY <1>1, <2>1, <2>2, <2>4 DEF WizardInv, Removing, vars, WizardStates
  <2> QED
    BY <1>2, <2>1, <2>2, <2>3, <2>4, <2>5 DEF WizardInv, Installing
<1>4. ASSUME NEW at \in {"daemon", "reload", "enable"}, Steps(at), UNCHANGED home,
             wiz.at \in {"supervise", "reload", "enable"},
             at \in {"reload", "enable"} => sup'.text = "written",
             sup'.kind = sup.kind, sup.kind = "none" => ~sup'.loaded,
             sup'.text = "none" /\ sup'.loaded => sup.text = "none" /\ sup.loaded
      PROVE  Installing' /\ Removing'
  <2>1. wiz'.at = at /\ wiz'.said = wiz.said /\ wiz'.stray = wiz.stray
    BY <1>1, <1>4 DEF Steps, WizardStates
  <2> QED
    BY <1>4, <2>1 DEF WizardInv, Installing, Removing, Whole
<1>5. CASE SuperviseNot
  BY <1>2, <1>4, <1>5 DEF SuperviseNot, vars, WizardInv, Removing
<1>6. ASSUME NEW same \in BOOLEAN, WriteDefinition(same) PROVE WizardInv'
  <2>1. PICK at \in {"daemon", "reload"} : Steps(at)
    BY <1>6 DEF WriteDefinition
  <2>2. Rewritten("written") /\ UNCHANGED home /\ wiz.at = "supervise" /\ sup.kind # "none"
    BY <1>6 DEF WriteDefinition
  <2>3. sup'.text = "written" /\ sup'.kind = sup.kind
    BY <1>1, <2>2 DEF Rewritten, Supervisors
  <2>4. Installing' /\ Removing'
    BY <1>4, <2>1, <2>2, <2>3
  <2> QED
    BY <2>2, <2>4, ToldStaysChildless DEF WizardInv
<1>7. CASE Reload
  <2>1. sup.text = "written"
    BY <1>7 DEF WizardInv, Installing, Reload
  <2>2. CASE UNCHANGED vars
    BY <1>2, <1>4, <1>7, <2>1, <2>2 DEF Reload, vars, WizardInv, Removing
  <2>3. CASE Unload(sup.text) /\ Steps("enable")
    <3>1. sup'.text = sup.text /\ sup'.kind = sup.kind /\ ~sup'.loaded
      BY <1>1, <2>3 DEF Unload, Supervisors
    <3>2. Installing' /\ Removing'
      BY <1>4, <1>7, <2>1, <2>3, <3>1 DEF Reload
    <3> QED
      BY <2>3, <3>2, ToldStaysChildless DEF WizardInv
  <2> QED
    BY <1>7, <2>2, <2>3 DEF Reload
<1>8. CASE Enable
  <2>1. sup.text = "written"
    BY <1>8 DEF WizardInv, Installing, Enable
  <2>2. CASE UNCHANGED vars
    BY <1>2, <1>4, <1>8, <2>1, <2>2 DEF Enable, vars, WizardInv, Removing
  <2>3. CASE Load(sup.text) /\ Steps("daemon")
    <3>1. sup'.text = sup.text /\ sup'.kind = sup.kind /\ sup.kind # "none"
      BY <1>1, <2>3 DEF Load, Supervisors
    <3>2. Installing' /\ Removing'
      BY <1>4, <1>8, <2>1, <2>3, <3>1 DEF Enable
    <3> QED
      BY <2>3, <3>2, ToldStaysChildless DEF WizardInv
  <2> QED
    BY <1>8, <2>2, <2>3 DEF Enable
<1>9. CASE StartDaemon
  <2>1. UNCHANGED <<sup, home>>
    BY <1>9 DEF StartDaemon, vars, Serve
  <2>2. Childless'
    <3>1. ASSUME Serve(DefaultPort) PROVE Childless'
      BY <2>1, <3>1, StartedAlone, DaemonAssumption
         DEF Serve, WizardInv, Childless, Orphans, Live
    <3> QED
      BY <1>2, <1>9, <3>1 DEF StartDaemon
  <2>3. wiz'.at = "idle" /\ wiz'.said = "installed" /\ wiz'.stray = wiz.stray
    BY <1>1, <1>9 DEF StartDaemon, Ends, WizardStates
  <2>4. wiz.at = "daemon"
    BY <1>9 DEF StartDaemon
  <2> QED
    BY <2>1, <2>2, <2>3, <2>4 DEF WizardInv, Installing, Removing, Whole
<1> QED
  BY <1>3, <1>5, <1>6, <1>7, <1>8, <1>9

LEMMA UninstallKeeps ==
  ASSUME HostInv, WizardKind, WizardInv,
         \/ \E gone \in SUBSET Removable : RemoveFiles(gone)
         \/ Unsupervise \/ Undefine \/ StopDaemon \/ DaemonStopped \/ Unregister \/ Interrupt
  PROVE  WizardInv'
<1>1. wiz \in WizardStates /\ sup \in Supervisors
  BY DEF HostInv, TypeOK, WizardKind
<1>2. ASSUME UNCHANGED proc, UNCHANGED sup PROVE Childless'
  BY <1>2 DEF WizardInv, Childless, Live
<1>3. ASSUME NEW gone, RemoveFiles(gone) PROVE WizardInv'
  <2>1. /\ wiz'.at = "unsupervise" /\ wiz'.said = "nothing" /\ wiz'.stray = wiz.stray
        /\ wiz.left > 0 /\ UNCHANGED vars
    BY <1>1, <1>3 DEF RemoveFiles, WizardStates
  <2>2. Removing'
    BY <1>1, <2>1 DEF WizardInv, Removing, vars, WizardStates
  <2> QED
    BY <1>2, <2>1, <2>2 DEF WizardInv, Installing, vars
<1>4. CASE Unsupervise
  <2>1. wiz.at = "unsupervise" /\ wiz.said = "nothing" /\ UNCHANGED home
    BY <1>4 DEF Unsupervise, WizardInv, Installing
  <2>2. /\ wiz'.at \in {"undefine", "stop"} /\ wiz'.said = wiz.said /\ wiz'.stray = wiz.stray
    BY <1>1, <1>4 DEF Unsupervise, Steps, WizardStates
  <2>3. Installing'
    BY <2>1, <2>2 DEF Installing
  <2>4. CASE (sup.kind = "none" \/ sup.text = "none") /\ UNCHANGED vars
    BY <1>2, <2>1, <2>2, <2>3, <2>4 DEF WizardInv, Removing, vars
  <2>5. CASE sup.text # "none" /\ ~wiz'.tools /\ UNCHANGED vars
    BY <1>2, <2>1, <2>2, <2>3, <2>5 DEF WizardInv, Removing, vars
  <2>6. CASE Unload(sup.text)
    <3>1. ~sup'.loaded
      BY <1>1, <2>6 DEF Unload, Supervisors
    <3>2. Removing'
      BY <3>1 DEF Removing
    <3> QED
      BY <2>3, <2>6, <3>2, ToldStaysChildless DEF WizardInv
  <2>7. \A at : wiz' = [wiz EXCEPT !.at = at, !.tools = FALSE] => ~wiz'.tools
    BY <1>1 DEF WizardStates
  <2> QED
    BY <1>4, <2>4, <2>5, <2>6, <2>7 DEF Unsupervise
<1>9. CASE Undefine
  <2>1. wiz.at = "undefine" /\ wiz.said = "nothing" /\ UNCHANGED home
    BY <1>9 DEF Undefine, WizardInv, Installing
  <2>2. wiz'.at = "stop" /\ wiz'.said = wiz.said
    BY <1>1, <1>9 DEF Undefine, WizardStates
  <2>3. Installing'
    BY <2>1, <2>2 DEF Installing
  <2>4. CASE Rewritten("none") /\ wiz' = [wiz EXCEPT !.at = "stop", !.stray = @ \/ sup.loaded]
    <3>1. wiz'.stray = (wiz.stray \/ sup.loaded)
      BY <1>1, <2>4 DEF WizardStates
    <3>2. sup'.loaded = sup.loaded /\ sup'.kind = sup.kind
      BY <1>1, <2>4 DEF Rewritten, Supervisors
    <3>3. Removing'
      BY <2>1, <2>2, <3>1, <3>2 DEF WizardInv, Removing
    <3> QED
      BY <2>3, <2>4, <3>3, ToldStaysChildless DEF WizardInv
  <2>5. CASE wiz' = [wiz EXCEPT !.at = "stop", !.tools = FALSE] /\ UNCHANGED vars
    <3>1. wiz'.stray = wiz.stray /\ ~wiz'.tools
      BY <1>1, <2>5 DEF WizardStates
    <3> QED
      BY <1>2, <2>1, <2>2, <2>3, <2>5, <3>1 DEF WizardInv, Removing, vars
  <2> QED
    BY <1>9, <2>4, <2>5 DEF Undefine
<1>5. CASE StopDaemon
  <2>1. UNCHANGED <<proc, sup, home>> /\ wiz.at = "stop" /\ wiz.said = "nothing"
    BY <1>5 DEF StopDaemon, Call, vars, WizardInv, Installing
  <2>2. /\ wiz'.at \in {"stopping", "unregister"} /\ wiz'.said = wiz.said
        /\ wiz'.stray = wiz.stray /\ (wiz'.tools => wiz.tools)
    BY <1>1, <1>5 DEF StopDaemon, Steps, WizardStates
  <2> QED
    BY <1>2, <2>1, <2>2 DEF WizardInv, Installing, Removing
<1>6. CASE DaemonStopped
  <2>1. UNCHANGED <<proc, sup, home>> /\ wiz.at = "stopping" /\ wiz.said = "nothing"
    BY <1>6 DEF DaemonStopped, vars, WizardInv, Installing
  <2>2. /\ wiz'.at = "unregister" /\ wiz'.said = wiz.said
        /\ wiz'.stray = wiz.stray /\ wiz'.tools = wiz.tools
    BY <1>1, <1>6 DEF DaemonStopped, Steps, WizardStates
  <2> QED
    BY <1>2, <2>1, <2>2 DEF WizardInv, Installing, Removing
<1>7. CASE Unregister
  <2>1. UNCHANGED <<proc, sup, home>> /\ wiz.at = "unregister"
    BY <1>7 DEF Unregister, vars
  <2>2. /\ wiz'.at = "idle" /\ wiz'.stray = wiz.stray
        /\ wiz'.said \in {"removed", "nothing"} /\ (wiz'.said = "removed" => wiz.tools)
    BY <1>1, <1>7 DEF Unregister, Ends, WizardStates
  <2> QED
    BY <1>2, <2>1, <2>2 DEF WizardInv, Installing, Removing
<1>8. CASE Interrupt
  <2>1. UNCHANGED <<proc, sup, home>> /\ wiz.at # "idle"
    BY <1>8 DEF Interrupt, vars
  <2>2. wiz'.at = "idle" /\ wiz'.stray = wiz.stray /\ wiz'.said = "nothing"
    BY <1>1, <1>8 DEF Interrupt, Ends, WizardStates
  <2> QED
    BY <1>2, <2>1, <2>2 DEF WizardInv, Installing, Removing
<1> QED
  BY <1>3, <1>4, <1>5, <1>6, <1>7, <1>8, <1>9

\* The two promises follow.
LEMMA PromisesHold ==
  ASSUME WizardInv
  PROVE  WizardTruthful
<1>1. SetupComplete
  <2>1. {"create-active-root", "write-schema-version"} \subseteq Pieces
    BY DEF Pieces, Files
  <2> QED
    BY <2>1 DEF WizardInv, Installing, Whole, SetupComplete, Doctor
<1>2. UninstallQuiet
  BY DEF WizardInv, Removing, Childless, UninstallQuiet, Children
<1> QED
  BY <1>1, <1>2 DEF WizardTruthful

\* A setup that reports success has every piece in place, as far as the doctor can
\* tell of the skill, and after an uninstall that worked no supervisor starts the
\* daemon again.
THEOREM WizardIsTrue == SetupSpec => []WizardTruthful
<1>1. SetupInit => HostInv /\ WizardKind /\ WizardInv
  BY WizardStarts, WizardPromises
<1>2. HostInv /\ WizardKind /\ WizardInv /\ [SetupNext]_allVars
      => HostInv' /\ WizardKind' /\ WizardInv'
  <2>1. ASSUME HostInv, WizardKind, WizardInv, WizardNext
        PROVE  WizardInv'
    BY <2>1, InstallKeeps, UninstallKeeps DEF WizardNext
  <2>2. ASSUME WizardInv, UNCHANGED allVars
        PROVE  WizardInv'
    BY <2>2 DEF allVars, vars, WizardInv, Installing, Whole, Childless, Live, Removing
  <2> QED
    BY <2>1, <2>2, WizardStep, HostKeepsWizard DEF SetupNext
<1>3. WizardInv => WizardTruthful
  BY PromisesHold
<1> QED
  BY <1>1, <1>2, <1>3, PTL DEF SetupSpec
=============================================================================
