--------------------------- MODULE SessionLedger ---------------------------
(***************************************************************************)
(* The session files of one initiative and the commands that write them.   *)
(*                                                                         *)
(* Open loops are derived, never stored: a session file lists the loops it *)
(* opens and the loops of other files it resolves.  wrap writes a session  *)
(* file, stamps the brief, files notes and records git state, and takes    *)
(* its files back when a later write fails; loop.open and loop.resolve     *)
(* write one-entry files; session.recover rebuilds the file of a session   *)
(* that died; note.add files a note.  Each runs in a process of its own    *)
(* under the initiative's advisory lock, may die between two writes, and   *)
(* then leaves its lock to a waiter that finds it stale.                   *)
(***************************************************************************)
EXTENDS Naturals, FiniteSets, Sequences, SequencesExt

CONSTANTS
  Procs,        \* processes that run these commands
  NoProc,       \* "nobody holds the lock"
  Commands,     \* the commands the processes run
  Wraps,        \* the wraps that may be run: [sid, started, ended, track, opens, titles]
  LoopSids,     \* session ids loop.open and loop.resolve may draw
  Steps,        \* next_steps ids
  Titles,       \* note titles
  Transcripts,  \* transcripts of sessions no process runs: sid -> [started, ended]
  Git,          \* worktrees, branches and stashes a sweep finds
  Minute,       \* length of a minute, the grain of file names
  AnyStem,      \* "no file named"
  MaxTime,      \* bound: the clock
  MaxOps,       \* bound: commands started
  MaxCrashes    \* bound: processes that die

Sids == {w.sid : w \in Wraps} \cup DOMAIN Transcripts \cup LoopSids

ASSUME LedgerProcAssumption == NoProc \notin Procs
ASSUME LedgerCommandAssumption ==
  Commands \subseteq {"wrap", "open", "resolve", "recover", "note"}
ASSUME LedgerSidAssumption ==
  /\ Sids \subseteq Nat
  /\ LoopSids \cap ({w.sid : w \in Wraps} \cup DOMAIN Transcripts) = {}
ASSUME LedgerTimeAssumption ==
  /\ Minute \in Nat \ {0}
  /\ \A w \in Wraps :
       /\ w.started \in Nat /\ w.ended \in Nat /\ w.started <= w.ended
       /\ w.track \in {"canonical", "sidecar", "adhoc"}
       /\ w.opens \subseteq Steps /\ w.titles \in Seq(Titles)
  /\ \A s \in DOMAIN Transcripts :
       Transcripts[s].started \in Nat /\ Transcripts[s].ended \in Nat

\* Names of session files and of notes, with the suffix that parks a file beside
\* others of its name (0: none).
Stem(minute, sid, nth) == [minute |-> minute, sid |-> sid, nth |-> nth]
NoteName(title, nth) == [title |-> title, nth |-> nth]

StemNames == [minute : Nat, sid : Sids, nth : Nat]
NoteNames == [title : Titles, nth : Nat]

ASSUME LedgerStemAssumption == AnyStem \notin StemNames

VARIABLES
  sessions,   \* session files: stem -> [sid, ended, track, opens, resolves, generated, made]
  notes,      \* note files: name -> the command that wrote it
  updated,    \* brief.updated
  artifacts,  \* what artifacts.yml records of Git
  now,        \* the clock
  lock,       \* holder of the advisory lock
  dead,       \* processes that died
  pc,         \* pc[p]: where process p is
  job,        \* job[p]: its command, arguments and what it wrote
  ops,        \* commands started so far; also names each of them
  acked,      \* history: closes reported to a caller
  saved       \* history: files of commands that reported success

fileVars == <<sessions, notes, updated, artifacts>>
procVars == <<lock, dead, ops, now>>
vars == <<fileVars, procVars, pc, job, acked, saved>>

\* A loop is named by the file that opened it and its step there.
Ref(stem, id) == [stem |-> stem, id |-> id]

\* Paths below the initiative's directory.
SessionPath(stem) == [dir |-> "sessions", name |-> stem]
NotePath(name) == [dir |-> "notes", name |-> name]

NoJob == [cmd |-> "none", made |-> 0, sid |-> 0, started |-> 0, ended |-> 0,
          track |-> "adhoc", opens |-> {}, resolves |-> {}, titles |-> <<>>,
          target |-> Ref(AnyStem, 0), stem |-> AnyStem, filed |-> {}, undo |-> {}]

----------------------------------------------------------------------------
(* Derivation of the loops from the session files.                          *)

Stems == DOMAIN sessions

Opened == UNION {{Ref(s, id) : id \in sessions[s].opens} : s \in Stems}

\* A session closes only loops of sessions that ended strictly before it.
Prior(t, s) == sessions[t].ended < sessions[s].ended

\* classifyResolve: the entry ref of session s closes a loop unless it is missing,
\* the session's own, or of a session that is not prior.
Closes(s, ref) ==
  /\ ref \in sessions[s].resolves
  /\ ref \in Opened /\ ref.stem # s
  /\ sessions[ref.stem].sid # sessions[s].sid
  /\ Prior(ref.stem, s)

Resolved(ref) == \E s \in Stems : Closes(s, ref)

OpenLoops == {ref \in Opened : ~Resolved(ref)}

\* File names in ascending order: "S-1.md" sorts before "S.md".
Sorts(a, b) ==
  \/ a.minute < b.minute
  \/ a.minute = b.minute /\ a.sid < b.sid
  \/ a.minute = b.minute /\ a.sid = b.sid /\ a.nth # 0 /\ (b.nth = 0 \/ a.nth < b.nth)

\* Mutant: of two resolutions at one instant the first stays.
SupersedesLater(s, t) == sessions[t].ended < sessions[s].ended

\* A resolution gives way to one that is not earlier.
Supersedes(s, t) == ~(sessions[t].ended > sessions[s].ended)

\* The file of some that is read last.
LastFile(S) == CHOOSE s \in S : \A t \in S : t = s \/ Sorts(t, s)

\* applyResolves: one pass over the files in order; the closer of ref, or AnyStem.
ClosedBy(ref) ==
  LET found[S \in SUBSET Stems] ==
        IF S = {} THEN AnyStem
        ELSE LET s == LastFile(S)
                 before == found[S \ {s}]
             IN  IF Closes(s, ref) /\ (before = AnyStem \/ Supersedes(s, before)) THEN s ELSE before
  IN  found[Stems]

----------------------------------------------------------------------------
(* Commands start, wait for the lock, and end.                              *)

Init ==
  /\ sessions = [s \in {} |-> NoJob] /\ notes = [n \in {} |-> 0]
  /\ updated = 0 /\ artifacts = {} /\ now = 0
  /\ lock = NoProc /\ dead = {} /\ ops = 0
  /\ pc = [p \in Procs |-> "idle"]
  /\ job = [p \in Procs |-> NoJob]
  /\ acked = {} /\ saved = {}

Tick ==
  /\ now < MaxTime
  /\ now' = now + 1
  /\ UNCHANGED <<fileVars, lock, dead, ops, pc, job, acked, saved>>

Begin(p, request) ==
  /\ pc[p] = "idle" /\ p \notin dead /\ ops < MaxOps
  /\ request.cmd \in Commands
  /\ ops' = ops + 1
  /\ job' = [job EXCEPT ![p] = [request EXCEPT !.made = ops + 1]]
  /\ pc' = [pc EXCEPT ![p] = "wait"]
  /\ UNCHANGED <<fileVars, lock, dead, now, acked, saved>>

\* Loops a caller may name: those of files it can see, and those of files it can
\* tell the names of in advance.
Nameable ==
  {Ref(stem, id) : id \in Steps,
                   stem \in Stems \cup {Stem(w.started \div Minute, w.sid, 0) : w \in Wraps}}

BeginWrap(p) ==
  \E w \in Wraps, named \in {{}} \cup {{ref} : ref \in Nameable} :
    Begin(p, [NoJob EXCEPT !.cmd = "wrap", !.sid = w.sid, !.started = w.started,
                           !.ended = w.ended, !.track = w.track, !.opens = w.opens,
                           !.titles = w.titles, !.resolves = named])

BeginOpen(p) == \E id \in Steps : Begin(p, [NoJob EXCEPT !.cmd = "open", !.opens = {id}])

\* A full ref, or a bare next_steps id.
BeginResolve(p) ==
  \E stem \in Stems \cup {AnyStem}, id \in Steps :
    Begin(p, [NoJob EXCEPT !.cmd = "resolve", !.target = Ref(stem, id)])

\* A session by its id, or the newest (0).
BeginRecover(p) ==
  \E sid \in DOMAIN Transcripts \cup {0} :
    Begin(p, [NoJob EXCEPT !.cmd = "recover", !.sid = sid, !.track = "canonical"])

BeginNote(p) == \E t \in Titles : Begin(p, [NoJob EXCEPT !.cmd = "note", !.titles = <<t>>])

\* Mutant: a waiter takes the lock whoever holds it.
AcquireAnyway(p) ==
  /\ pc[p] = "wait"
  /\ lock' = p
  /\ pc' = [pc EXCEPT ![p] = "locked"]
  /\ UNCHANGED <<fileVars, dead, ops, now, job, acked, saved>>

\* The lock is free, or its holder died and it has gone stale.
Acquire(p) ==
  /\ pc[p] = "wait"
  /\ lock \in dead \cup {NoProc}
  /\ lock' = p
  /\ pc' = [pc EXCEPT ![p] = "locked"]
  /\ UNCHANGED <<fileVars, dead, ops, now, job, acked, saved>>

\* The lock timeout passed.
GiveUp(p) ==
  /\ pc[p] = "wait" /\ lock # NoProc
  /\ pc' = [pc EXCEPT ![p] = "idle"]
  /\ job' = [job EXCEPT ![p] = NoJob]
  /\ UNCHANGED <<fileVars, procVars, acked, saved>>

Crash(p) ==
  /\ pc[p] # "idle" /\ Cardinality(dead) < MaxCrashes
  /\ dead' = dead \cup {p}
  /\ pc' = [pc EXCEPT ![p] = "idle"]
  /\ job' = [job EXCEPT ![p] = NoJob]
  /\ UNCHANGED <<fileVars, lock, ops, now, acked, saved>>

Moves(p, place) == pc' = [pc EXCEPT ![p] = place]

\* The files the command of p wrote.
Files(p) == job[p].filed \cup {SessionPath(s) : s \in {job[p].stem} \ {AnyStem}}

\* The command returns its receipt, or throws, and gives the lock back.
Release(p) ==
  /\ pc[p] \in {"finished", "failed"}
  /\ lock' = IF lock = p THEN NoProc ELSE lock
  /\ saved' = saved \cup (IF pc[p] = "finished"
                          THEN {[file |-> f, made |-> job[p].made] : f \in Files(p)} ELSE {})
  /\ Moves(p, "idle")
  /\ job' = [job EXCEPT ![p] = NoJob]
  /\ UNCHANGED <<fileVars, dead, ops, now, acked>>

----------------------------------------------------------------------------
(* Writing files.                                                           *)

Put(f, k, v) == [x \in DOMAIN f \cup {k} |-> IF x = k THEN v ELSE f[x]]

\* Mutant: a file that has the name already is replaced.
FirstFreeOrNot(taken, n) == n = 0

\* pickAvailableFilename: the bare name, or the first suffix that is not taken.
FirstFree(taken, n) == n \notin taken /\ \A k \in 0..n : k < n => k \in taken

\* writeSessionFile for process p.
WriteSession(p, sid, started, ended, opens, resolves, generated) ==
  LET name(k) == Stem(started \div Minute, sid, k) IN
  \E n \in 0..Cardinality(Stems) :
    /\ FirstFree({k \in 0..n : name(k) \in Stems}, n)
    /\ sessions' = Put(sessions, name(n),
         [sid |-> sid, ended |-> ended, track |-> job[p].track, opens |-> opens,
          resolves |-> resolves, generated |-> generated, made |-> job[p].made])
    /\ job' = [job EXCEPT ![p].stem = name(n)]

\* writeNoteFile: the next note of process p.
WriteNote(p) ==
  LET name(k) == NoteName(Head(job[p].titles), k) IN
  \E n \in 0..Cardinality(DOMAIN notes) :
    /\ FirstFree({k \in 0..n : name(k) \in DOMAIN notes}, n)
    /\ notes' = Put(notes, name(n), job[p].made)
    /\ job' = [job EXCEPT ![p].titles = Tail(@), ![p].filed = @ \cup {NotePath(name(n))}]

Locked(p, c) == pc[p] = "locked" /\ job[p].cmd = c

\* A check fails or the first write throws: nothing is on disk.
Refused(p) ==
  /\ pc[p] \in {"locked", "closing", "recovering"}
  /\ Moves(p, "failed")
  /\ UNCHANGED <<fileVars, procVars, job, acked, saved>>

(* wrap                                                                     *)

WrapSession(p) ==
  LET j == job[p] IN
  /\ Locked(p, "wrap")
  /\ WriteSession(p, j.sid, j.started, j.ended, j.opens, j.resolves, FALSE)
  /\ Moves(p, "unstamped")
  /\ UNCHANGED <<notes, updated, artifacts, procVars, acked, saved>>

Today == now

StampBrief(p) ==
  /\ pc[p] = "unstamped"
  /\ updated' = Today
  /\ Moves(p, "filing")
  /\ UNCHANGED <<sessions, notes, artifacts, procVars, job, acked, saved>>

\* The brief does not validate or cannot be written: the session file goes.
StampFails(p) ==
  /\ pc[p] = "unstamped"
  /\ sessions' = Restrict(sessions, Stems \ {job[p].stem})
  /\ Moves(p, "failed")
  /\ UNCHANGED <<notes, updated, artifacts, procVars, job, acked, saved>>

FileNote(p) ==
  /\ pc[p] = "filing" /\ job[p].titles # <<>>
  /\ WriteNote(p)
  /\ UNCHANGED <<sessions, updated, artifacts, procVars, pc, acked, saved>>

\* fileNotes throws, and with it go the paths of the notes it wrote before.
NoteFails(p) ==
  /\ pc[p] = "filing" /\ job[p].titles # <<>>
  /\ job' = [job EXCEPT ![p].undo = {SessionPath(job[p].stem)}]
  /\ Moves(p, "undoing")
  /\ UNCHANGED <<fileVars, procVars, acked, saved>>

\* The sweep finds what is there or fails, which only warns.
RecordGit(p) ==
  /\ pc[p] = "filing" /\ job[p].titles = <<>>
  /\ artifacts' \in {artifacts, artifacts \cup Git}
  /\ Moves(p, "receipt")
  /\ UNCHANGED <<sessions, notes, updated, procVars, job, acked, saved>>

\* artifacts.yml cannot be written: the session file and all notes go.
RecordFails(p) ==
  /\ pc[p] = "filing" /\ job[p].titles = <<>> /\ ~(Git \subseteq artifacts)
  /\ job' = [job EXCEPT ![p].undo = job[p].filed \cup {SessionPath(job[p].stem)}]
  /\ Moves(p, "undoing")
  /\ UNCHANGED <<fileVars, procVars, acked, saved>>

Undo(p) ==
  \E f \in job[p].undo :
    /\ pc[p] = "undoing"
    /\ sessions' = Restrict(sessions, {s \in Stems : SessionPath(s) # f})
    /\ notes' = Restrict(notes, {n \in DOMAIN notes : NotePath(n) # f})
    /\ job' = [job EXCEPT ![p].undo = @ \ {f}]
    /\ IF job[p].undo = {f} THEN Moves(p, "failed") ELSE UNCHANGED pc
    /\ UNCHANGED <<updated, artifacts, procVars, acked, saved>>

\* rejectedResolves: the derivation says which resolves closed something.
Applied(p) == {ref \in job[p].resolves : Closes(job[p].stem, ref)}

Receipt(p) ==
  /\ pc[p] = "receipt"
  /\ acked' = acked \cup Applied(p)
  /\ Moves(p, "finished")
  /\ UNCHANGED <<fileVars, procVars, job, saved>>

(* loop.open, loop.resolve                                                  *)

\* ledgerSessionId: random, so no file has it yet.
FreshSids == {s \in LoopSids : \A stem \in Stems : stem.sid # s}

LoopOpen(p) ==
  /\ Locked(p, "open")
  /\ \E s \in FreshSids : WriteSession(p, s, now, now, job[p].opens, {}, FALSE)
  /\ Moves(p, "finished")
  /\ UNCHANGED <<notes, updated, artifacts, procVars, acked, saved>>

Named(target) == {ref \in OpenLoops : target.id = ref.id /\ target.stem \in {ref.stem, AnyStem}}

\* Mutant: the record carries the time of the clock.
CloseTimeNow(opened) == now

\* The record's time is pushed past the opener's, which may be ahead of the clock.
CloseTime(opened) == IF now > opened + 1 THEN now ELSE opened + 1

\* findLoopToClose: one open loop has to match; a closed one is an error.
FindLoop(p) ==
  /\ Locked(p, "resolve")
  /\ \/ \E ref \in OpenLoops :
          /\ Named(job[p].target) = {ref}
          /\ job' = [job EXCEPT ![p].resolves = {ref},
                                ![p].ended = CloseTime(sessions[ref.stem].ended)]
          /\ Moves(p, "closing")
     \/ /\ Cardinality(Named(job[p].target)) # 1
        /\ Moves(p, "failed")
        /\ UNCHANGED job
  /\ UNCHANGED <<fileVars, procVars, acked, saved>>

CloseLoop(p) ==
  LET j == job[p] IN
  /\ pc[p] = "closing"
  /\ \E s \in FreshSids : WriteSession(p, s, j.ended, j.ended, {}, j.resolves, FALSE)
  /\ acked' = acked \cup j.resolves
  /\ Moves(p, "finished")
  /\ UNCHANGED <<notes, updated, artifacts, procVars, saved>>

(* session.recover                                                          *)

Recorded(sid) == \E stem \in Stems : stem.sid = sid

\* The newest unrecorded transcript, when it ended after every record of the track.
IsNewest(sid, track) ==
  /\ \A stem \in Stems :
       sessions[stem].track = track => sessions[stem].ended < Transcripts[sid].ended
  /\ \A t \in DOMAIN Transcripts : ~Recorded(t) => Transcripts[t].ended <= Transcripts[sid].ended

FindTranscript(p) ==
  LET j == job[p]
      found == {sid \in DOMAIN Transcripts :
                  ~Recorded(sid) /\ IF j.sid = 0 THEN IsNewest(sid, j.track) ELSE sid = j.sid}
  IN
  /\ Locked(p, "recover")
  /\ \/ \E sid \in found :
          job' = [job EXCEPT ![p].sid = sid] /\ Moves(p, "recovering")
     \/ /\ found = {}
        /\ Moves(p, IF j.sid = 0 THEN "finished" ELSE "failed")
        /\ UNCHANGED job
  /\ UNCHANGED <<fileVars, procVars, acked, saved>>

WriteRecovered(p) ==
  LET sid == job[p].sid IN
  /\ pc[p] = "recovering"
  /\ WriteSession(p, sid, Transcripts[sid].started, Transcripts[sid].ended, {}, {}, TRUE)
  /\ Moves(p, "finished")
  /\ UNCHANGED <<notes, updated, artifacts, procVars, acked, saved>>

(* note.add                                                                 *)

NoteAdd(p) ==
  /\ Locked(p, "note")
  /\ WriteNote(p)
  /\ Moves(p, "finished")
  /\ UNCHANGED <<sessions, updated, artifacts, procVars, acked, saved>>

----------------------------------------------------------------------------

Next ==
  \/ Tick
  \/ \E p \in Procs :
       \/ BeginWrap(p) \/ BeginOpen(p) \/ BeginResolve(p) \/ BeginRecover(p) \/ BeginNote(p)
       \/ Acquire(p) \/ GiveUp(p) \/ Crash(p) \/ Release(p) \/ Refused(p)
       \/ WrapSession(p) \/ StampBrief(p) \/ StampFails(p) \/ FileNote(p) \/ NoteFails(p)
       \/ RecordGit(p) \/ RecordFails(p) \/ Undo(p) \/ Receipt(p)
       \/ LoopOpen(p) \/ FindLoop(p) \/ CloseLoop(p)
       \/ FindTranscript(p) \/ WriteRecovered(p) \/ NoteAdd(p)

Spec == Init /\ [][Next]_vars

----------------------------------------------------------------------------
(* Properties                                                               *)

Places == {"idle", "wait", "locked", "unstamped", "filing", "undoing", "receipt",
           "closing", "recovering", "finished", "failed"}

Tracks == {"canonical", "sidecar", "adhoc"}
RefNames == [stem : StemNames \cup {AnyStem}, id : Steps]
Paths == [dir : {"sessions"}, name : StemNames] \cup [dir : {"notes"}, name : NoteNames]

SessionRecords ==
  [sid : Sids, ended : Nat, track : Tracks, opens : SUBSET Steps,
   resolves : SUBSET RefNames, generated : BOOLEAN, made : Nat]

Jobs ==
  [cmd : Commands \cup {"none"}, made : Nat, sid : Sids \cup {0}, started : Nat,
   ended : Nat, track : Tracks, opens : SUBSET Steps, resolves : SUBSET RefNames,
   titles : Seq(Titles), target : [stem : StemNames \cup {AnyStem}, id : Steps \cup {0}],
   stem : StemNames \cup {AnyStem}, filed : SUBSET Paths, undo : SUBSET Paths]

\* Type invariant: every variable holds a value of its kind.
TypeOK ==
  /\ Stems \subseteq StemNames /\ sessions \in [Stems -> SessionRecords]
  /\ \A s \in Stems : sessions[s].sid = s.sid
  /\ DOMAIN notes \subseteq NoteNames /\ notes \in [DOMAIN notes -> Nat]
  /\ now \in Nat /\ updated \in 0..now /\ artifacts \subseteq Git
  /\ lock \in Procs \cup {NoProc} /\ dead \subseteq Procs /\ ops \in Nat
  /\ pc \in [Procs -> Places]
  /\ job \in [Procs -> Jobs]
  /\ acked \subseteq RefNames /\ saved \subseteq [file : Paths, made : Nat]

\* The one pass over the files finds the closer that the ledger means: of all
\* sessions that legitimately close a loop the one that ended last, and of those
\* that ended together the one whose file sorts last (open-loops.ts:289, :313) ...
ResolutionIsLatest ==
  \A ref \in Opened :
    IF Resolved(ref)
      THEN /\ Closes(ClosedBy(ref), ref)
           /\ \A s \in Stems :
                Closes(s, ref) /\ s # ClosedBy(ref) =>
                  \/ sessions[s].ended < sessions[ClosedBy(ref)].ended
                  \/ /\ sessions[s].ended = sessions[ClosedBy(ref)].ended
                     /\ Sorts(s, ClosedBy(ref))
      ELSE ClosedBy(ref) = AnyStem

\* ... and sessions never close each other's loops in a circle: every set of sessions
\* has one that closes no loop of another in the set (open-loops.ts:268).
NoClosingCycle ==
  \A S \in (SUBSET Stems) \ {{}} :
    \E s \in S : \A ref \in sessions[s].resolves : Closes(s, ref) => ref.stem \notin S

\* The derivation of the ledger is sound, in whatever order the files are read and
\* whichever sessions end at one instant (classifyResolve, applyResolves).
ResolutionSound == ResolutionIsLatest /\ NoClosingCycle

\* A loop whose close was reported, by the receipt of a wrap or by loop.resolve,
\* never comes back: not by a roll-back, a crash, a clock that stands still or an
\* opener that ended in the future.
AckedClosesHold == \A ref \in acked : Resolved(ref)

\* What a command reported as written is there and is its own: names that collide
\* are parked beside each other and no roll-back takes another command's file.
FilesKept ==
  \A f \in saved :
    \/ \E s \in Stems : f.file = SessionPath(s) /\ sessions[s].made = f.made
    \/ \E n \in DOMAIN notes : f.file = NotePath(n) /\ notes[n] = f.made

\* loop.resolve writes only for a loop that is open: of two that name one loop the
\* second fails and writes nothing, also after a wrap closed it.
OnlyOpenLoopsResolved ==
  [][\A p \in Procs : pc[p] = "closing" /\ pc'[p] = "finished" =>
       job[p].resolves \subseteq OpenLoops]_vars

\* session.recover never writes a second record for a session that has one.
RecoveredOnce ==
  [][\A stem \in Stems' \ Stems :
       sessions'[stem].generated => ~Recorded(stem.sid)]_vars

=============================================================================
