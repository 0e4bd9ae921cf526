------------------------ MODULE SessionLedgerProofs ------------------------
(***************************************************************************)
(* Proofs about the session ledger, for every set of processes, wraps and  *)
(* transcripts: the types, that reported closes hold, that reported files  *)
(* stay, and what loop.resolve and session.recover never do.               *)
(***************************************************************************)
EXTENDS SessionLedger, FiniteSetTheorems, WellFoundedInduction, TLAPS

\* A set of numbers has a lowest one.
LEMMA Lowest ==
  ASSUME NEW T, T \subseteq Nat, T # {}
  PROVE  \E x \in T : \A y \in T : x <= y
<1>1. PICK x \in T : \A y \in T : ~(<<y, x>> \in OpToRel(<, Nat))
  BY WFMin, NatLessThanWellFounded
<1>2. ASSUME NEW y \in T PROVE x <= y
  <2>1. ~(<<y, x>> \in {ss \in Nat \X Nat : ss[1] < ss[2]})
    BY <1>1 DEF OpToRel
  <2>2. <<y, x>> \in Nat \X Nat
    OBVIOUS
  <2>3. ~(y < x)
    BY <2>1, <2>2
  <2>4. QED  BY <2>3
<1>3. QED  BY <1>2

----------------------------------------------------------------------------
(* The invariant.                                                           *)

Asleep   == {"idle", "wait"}
Wrapping == {"unstamped", "filing", "receipt", "undoing"}

\* The dead are idle, and who is past the lock holds it.
Alone ==
  /\ \A p \in dead : pc[p] = "idle"
  /\ \A p \in Procs : pc[p] \notin Asleep => lock = p

\* The file at path is there, written by the command made.
Present(path, made) ==
  \/ \E s \in Stems : path = SessionPath(s) /\ sessions[s].made = made
  \/ \E n \in DOMAIN notes : path = NotePath(n) /\ notes[n] = made

\* What a command asked for and what it has written, by the place it has reached.
Asked(p) ==
  /\ pc[p] \in {"wait", "locked"} =>
       /\ job[p].cmd = "wrap" => job[p].sid \in Sids
       /\ job[p].cmd = "note" => job[p].titles # <<>>
  /\ pc[p] \in {"wait", "locked", "closing", "recovering"} =>
       job[p].stem = AnyStem /\ job[p].filed = {}

Wrote(p) ==
  /\ pc[p] \in Wrapping => job[p].stem \in StemNames
  /\ pc[p] = "undoing" => job[p].undo \subseteq Files(p)
  /\ pc[p] \in {"unstamped", "filing", "receipt", "finished"} =>
       \A f \in Files(p) : Present(f, job[p].made)

\* What a command read is still so while it holds the lock.
Knows(p) ==
  /\ pc[p] = "recovering" => job[p].sid \in DOMAIN Transcripts /\ ~Recorded(job[p].sid)
  /\ pc[p] = "closing" =>
       \A ref \in job[p].resolves :
         ref \in OpenLoops /\ sessions[ref.stem].ended < job[p].ended

\* No wrap that may still be taken back has written the file at path.
Settled(path) == \A p \in Procs : pc[p] \in Wrapping => path \notin Files(p)

SavedSettled == \A f \in saved : Present(f.file, f.made) /\ Settled(f.file)

AckedSettled ==
  \A ref \in acked :
    /\ Settled(SessionPath(ref.stem))
    /\ \E s \in Stems : Closes(s, ref) /\ Settled(SessionPath(s))

\* The inductive invariant.
LedgerInv ==
  /\ TypeOK /\ Alone
  /\ \A p \in Procs : Asked(p) /\ Wrote(p) /\ Knows(p)
  /\ SavedSettled /\ AckedSettled

----------------------------------------------------------------------------
(* Facts about the writes.                                                  *)

LEMMA ConstantTypes ==
  /\ Sids \subseteq Nat /\ NoProc \notin Procs /\ AnyStem \notin StemNames
  /\ \A w \in Wraps :
       /\ w.sid \in Sids /\ w.started \in Nat /\ w.ended \in Nat /\ w.track \in Tracks
       /\ w.opens \subseteq Steps /\ w.titles \in Seq(Titles)
  /\ \A s \in DOMAIN Transcripts :
       s \in Sids /\ Transcripts[s].started \in Nat /\ Transcripts[s].ended \in Nat
  /\ LoopSids \subseteq Sids
  /\ \A t \in Nat : t \div Minute \in Nat
BY LedgerProcAssumption, LedgerSidAssumption, LedgerTimeAssumption, LedgerStemAssumption
   DEF Sids, Tracks

\* The contents of the file a command writes.
Contents(p, sid, ended, opens, resolves, generated) ==
  [sid |-> sid, ended |-> ended, track |-> job[p].track, opens |-> opens,
   resolves |-> resolves, generated |-> generated, made |-> job[p].made]

\* The jobs once process p has written the session file stem.
WithStem(p, stem) == [job EXCEPT ![p].stem = stem]

LEMMA StemNoted ==
  ASSUME TypeOK, NEW p \in Procs, NEW stem \in StemNames, job' = WithStem(p, stem)
  PROVE  /\ job' \in [Procs -> Jobs] /\ \A q \in Procs \ {p} : job'[q] = job[q]
         /\ job'[p].stem = stem /\ job'[p].filed = job[p].filed
         /\ job'[p].resolves = job[p].resolves /\ job'[p].ended = job[p].ended
         /\ job'[p].made = job[p].made /\ job'[p].sid = job[p].sid
         /\ Files(p)' = job[p].filed \cup {SessionPath(stem)}
<1>0. job[p] \in Jobs /\ job \in [Procs -> Jobs]
  BY DEF TypeOK
<1>1. [job[p] EXCEPT !.stem = stem] \in Jobs
  BY <1>0 DEF Jobs
<1>2. job' = [job EXCEPT ![p] = [job[p] EXCEPT !.stem = stem]]
  BY <1>0 DEF WithStem
<1>3. job' \in [Procs -> Jobs] /\ \A q \in Procs \ {p} : job'[q] = job[q]
  BY <1>0, <1>1, <1>2
<1>4. job'[p] = [job[p] EXCEPT !.stem = stem]
  BY <1>0, <1>2
<1>5. /\ job'[p].stem = stem /\ job'[p].filed = job[p].filed
      /\ job'[p].resolves = job[p].resolves /\ job'[p].ended = job[p].ended
      /\ job'[p].made = job[p].made /\ job'[p].sid = job[p].sid
  BY <1>0, <1>4 DEF Jobs
<1>6. Files(p)' = job[p].filed \cup {SessionPath(stem)}
  BY <1>5, ConstantTypes DEF Files
<1>7. QED
  BY <1>3, <1>5, <1>6

\* Process p has written file under the name stem, which no file had.
Writes(p, stem, sid, file) ==
  /\ stem \notin Stems /\ stem.sid = sid /\ file \in SessionRecords
  /\ file.sid = sid /\ file.made = job[p].made
  /\ sessions' = Put(sessions, stem, file)
  /\ job' = WithStem(p, stem)

\* writeSessionFile adds one file under a name no file had.
LEMMA SessionWritten ==
  ASSUME TypeOK, NEW p \in Procs, NEW sid \in Sids, NEW started \in Nat, NEW ended \in Nat,
         NEW opens \in SUBSET Steps, NEW resolves \in SUBSET RefNames,
         NEW generated \in BOOLEAN,
         WriteSession(p, sid, started, ended, opens, resolves, generated)
  PROVE  \E stem \in StemNames :
           Writes(p, stem, sid, Contents(p, sid, ended, opens, resolves, generated))
<1> DEFINE name(k) == Stem(started \div Minute, sid, k)
           file == Contents(p, sid, ended, opens, resolves, generated)
<1>1. PICK n \in 0..Cardinality(Stems) :
        /\ FirstFree({k \in 0..n : name(k) \in Stems}, n)
        /\ sessions' = Put(sessions, name(n), file)
        /\ job' = WithStem(p, name(n))
  BY DEF WriteSession, Contents, WithStem
<1>2. n \in Nat /\ n \in 0..n
  OBVIOUS
<1>3. name(n) \notin Stems
  BY <1>1, <1>2 DEF FirstFree
<1>4. name(n) \in StemNames /\ name(n).sid = sid
  BY <1>2, ConstantTypes DEF Stem, StemNames
<1>5. file \in SessionRecords /\ file.sid = sid /\ file.made = job[p].made
  BY DEF TypeOK, Jobs, SessionRecords, Contents
<1>6. Writes(p, name(n), sid, file)
  BY <1>1, <1>3, <1>4, <1>5 DEF Writes
<1>7. QED
  BY <1>4, <1>6

\* A new session file leaves the others, the loops and their closes in place.
LEMMA SessionAdded ==
  ASSUME TypeOK, NEW stem \in StemNames, NEW file \in SessionRecords,
         stem \notin Stems, file.sid = stem.sid, sessions' = Put(sessions, stem, file)
  PROVE  /\ Stems' = Stems \cup {stem} /\ sessions' \in [Stems' -> SessionRecords]
         /\ Stems' \subseteq StemNames /\ \A s \in Stems' : sessions'[s].sid = s.sid
         /\ sessions'[stem] = file /\ \A s \in Stems : sessions'[s] = sessions[s]
         /\ Opened \subseteq Opened'
         /\ \A s \in Stems, ref \in Opened : Closes(s, ref) => Closes(s, ref)'
<1>1. Stems' = Stems \cup {stem}
  BY DEF Stems, Put
<1>2. sessions'[stem] = file /\ \A s \in Stems : sessions'[s] = sessions[s]
  BY DEF Stems, Put
<1>3. sessions' \in [Stems' -> SessionRecords]
  BY DEF TypeOK, Stems, Put
<1>4. Stems' \subseteq StemNames /\ \A s \in Stems' : sessions'[s].sid = s.sid
  BY <1>1, <1>2 DEF TypeOK
<1>5. Opened \subseteq Opened'
  BY <1>1, <1>2 DEF Opened
<1>6. ASSUME NEW s \in Stems, NEW ref \in Opened, Closes(s, ref) PROVE Closes(s, ref)'
  <2>1. ref.stem \in Stems
    BY DEF Opened, Ref
  <2>2. QED
    BY <1>2, <1>5, <1>6, <2>1 DEF Closes, Prior
<1>7. QED
  BY <1>1, <1>2, <1>3, <1>4, <1>5, <1>6

\* writeNoteFile adds one note under a name no note had.
LEMMA NoteWritten ==
  ASSUME TypeOK, NEW p \in Procs, job[p].titles # <<>>, WriteNote(p)
  PROVE  \E name \in NoteNames :
           /\ name \notin DOMAIN notes
           /\ notes' = Put(notes, name, job[p].made)
           /\ job' = [job EXCEPT ![p].titles = Tail(@),
                                 ![p].filed = @ \cup {NotePath(name)}]
<1> DEFINE name(k) == NoteName(Head(job[p].titles), k)
<1>1. PICK n \in 0..Cardinality(DOMAIN notes) :
        /\ FirstFree({k \in 0..n : name(k) \in DOMAIN notes}, n)
        /\ notes' = Put(notes, name(n), job[p].made)
        /\ job' = [job EXCEPT ![p].titles = Tail(@),
                              ![p].filed = @ \cup {NotePath(name(n))}]
  BY DEF WriteNote
<1>2. n \in Nat /\ n \in 0..n
  OBVIOUS
<1>3. name(n) \notin DOMAIN notes
  BY <1>1, <1>2 DEF FirstFree
<1>4. Head(job[p].titles) \in Titles
  BY DEF TypeOK, Jobs
<1>5. name(n) \in NoteNames
  BY <1>2, <1>4 DEF NoteName, NoteNames
<1>6. QED
  BY <1>1, <1>3, <1>5

----------------------------------------------------------------------------
(* Types.                                                                   *)

LEMMA NoJobTyped == NoJob \in Jobs
  BY DEF NoJob, Jobs, Tracks, Ref

LEMMA InitTypes == Init => TypeOK
<1> SUFFICES ASSUME Init PROVE TypeOK
  OBVIOUS
<1>2. Stems = {} /\ DOMAIN notes = {}
  BY DEF Init, Stems
<1>3. QED
  BY <1>2, NoJobTyped DEF Init, TypeOK, Places

\* A request is a job that has written nothing yet.
IsRequest(r) ==
  /\ r.stem = AnyStem /\ r.filed = {}
  /\ r.cmd = "wrap" => r.sid \in Sids
  /\ r.cmd = "note" => r.titles # <<>>

LEMMA Requests ==
  ASSUME TypeOK, NEW p \in Procs,
         BeginWrap(p) \/ BeginOpen(p) \/ BeginResolve(p) \/ BeginRecover(p) \/ BeginNote(p)
  PROVE  \E r \in Jobs : IsRequest(r) /\ Begin(p, r)
<1> USE DEF IsRequest
<1>1. ASSUME NEW w \in Wraps, NEW named \in {{}} \cup {{ref} : ref \in Nameable},
             Begin(p, [NoJob EXCEPT !.cmd = "wrap", !.sid = w.sid, !.started = w.started,
                           !.ended = w.ended, !.track = w.track, !.opens = w.opens,
                           !.titles = w.titles, !.resolves = named])
      PROVE  \E r \in Jobs : IsRequest(r) /\ Begin(p, r)
  <2> DEFINE r == [NoJob EXCEPT !.cmd = "wrap", !.sid = w.sid, !.started = w.started,
                           !.ended = w.ended, !.track = w.track, !.opens = w.opens,
                           !.titles = w.titles, !.resolves = named]
  <2>1. "wrap" \in Commands
    BY <1>1 DEF Begin, NoJob
  <2>2. Nameable \subseteq RefNames
    <3>1. \A v \in Wraps : Stem(v.started \div Minute, v.sid, 0) \in StemNames
      BY ConstantTypes DEF Stem, StemNames
    <3>2. QED
      BY <3>1 DEF Nameable, RefNames, Ref, TypeOK
  <2>3. named \subseteq RefNames
    BY <2>2
  <2>4. r \in Jobs
    BY <2>1, <2>3, ConstantTypes DEF NoJob, Jobs, Ref
  <2>5. r.stem = AnyStem /\ r.filed = {} /\ r.cmd = "wrap" /\ r.sid \in Sids
    BY ConstantTypes DEF NoJob
  <2>6. QED
    BY <1>1, <2>4, <2>5
<1>2. ASSUME NEW id \in Steps, Begin(p, [NoJob EXCEPT !.cmd = "open", !.opens = {id}])
      PROVE  \E r \in Jobs : IsRequest(r) /\ Begin(p, r)
  <2>0. "open" \in Commands
    BY <1>2 DEF Begin, NoJob
  <2>1. [NoJob EXCEPT !.cmd = "open", !.opens = {id}] \in Jobs
    BY <2>0, NoJobTyped DEF Jobs
  <2>2. QED
    BY <1>2, <2>1 DEF NoJob
<1>3. ASSUME NEW stem \in Stems \cup {AnyStem}, NEW id \in Steps,
             Begin(p, [NoJob EXCEPT !.cmd = "resolve", !.target = Ref(stem, id)])
      PROVE  \E r \in Jobs : IsRequest(r) /\ Begin(p, r)
  <2>0. "resolve" \in Commands
    BY <1>3 DEF Begin, NoJob
  <2>1. [NoJob EXCEPT !.cmd = "resolve", !.target = Ref(stem, id)] \in Jobs
    BY <2>0, NoJobTyped DEF Jobs, Ref, TypeOK
  <2>2. QED
    BY <1>3, <2>1 DEF NoJob
<1>4. ASSUME NEW sid \in DOMAIN Transcripts \cup {0},
             Begin(p, [NoJob EXCEPT !.cmd = "recover", !.sid = sid, !.track = "canonical"])
      PROVE  \E r \in Jobs : IsRequest(r) /\ Begin(p, r)
  <2>0. "recover" \in Commands
    BY <1>4 DEF Begin, NoJob
  <2>1. [NoJob EXCEPT !.cmd = "recover", !.sid = sid, !.track = "canonical"] \in Jobs
    BY <2>0, NoJobTyped, ConstantTypes DEF Jobs, Tracks
  <2>2. QED
    BY <1>4, <2>1 DEF NoJob
<1>5. ASSUME NEW t \in Titles, Begin(p, [NoJob EXCEPT !.cmd = "note", !.titles = <<t>>])
      PROVE  \E r \in Jobs : IsRequest(r) /\ Begin(p, r)
  <2>0. "note" \in Commands
    BY <1>5 DEF Begin, NoJob
  <2>1. <<t>> \in Seq(Titles) /\ <<t>> # <<>>
    OBVIOUS
  <2>2. [NoJob EXCEPT !.cmd = "note", !.titles = <<t>>] \in Jobs
    BY <2>0, <2>1, NoJobTyped DEF Jobs
  <2>3. QED
    BY <1>5, <2>1, <2>2 DEF NoJob
<1>6. QED
  BY <1>1, <1>2, <1>3, <1>4, <1>5
     DEF BeginWrap, BeginOpen, BeginResolve, BeginRecover, BeginNote

\* A step that leaves the files alone and moves one process keeps the types.
LEMMA MoveTypes ==
  ASSUME TypeOK, NEW p \in Procs, NEW place \in Places, NEW j \in Jobs,
         pc' = [pc EXCEPT ![p] = place], job' = [job EXCEPT ![p] = j],
         UNCHANGED <<sessions, notes, artifacts, now, ops>>,
         updated' \in 0..now, lock' \in Procs \cup {NoProc}, dead' \subseteq Procs,
         acked' \subseteq RefNames, saved' \subseteq [file : Paths, made : Nat]
  PROVE  TypeOK'
BY DEF TypeOK, Stems

\* A step that adds a session file keeps the types.
LEMMA AddTypes ==
  ASSUME TypeOK, NEW p \in Procs, NEW place \in Places,
         NEW stem \in StemNames, NEW file \in SessionRecords,
         stem \notin Stems, file.sid = stem.sid, sessions' = Put(sessions, stem, file),
         pc' = [pc EXCEPT ![p] = place], job' = WithStem(p, stem),
         UNCHANGED <<notes, updated, artifacts, now, ops, lock, dead, saved>>,
         acked' \subseteq RefNames
  PROVE  TypeOK'
<1>1. /\ Stems' \subseteq StemNames /\ sessions' \in [Stems' -> SessionRecords]
      /\ \A s \in Stems' : sessions'[s].sid = s.sid
  BY SessionAdded
<1>2. job' \in [Procs -> Jobs]
  BY StemNoted
<1>3. QED
  BY <1>1, <1>2 DEF TypeOK

\* What a command has written are paths.
LEMMA FilesTyped ==
  ASSUME TypeOK, NEW p \in Procs
  PROVE  Files(p) \subseteq Paths
BY DEF TypeOK, Jobs, Files, SessionPath, Paths

\* Every step of a process that does not write a file keeps the types.
LEMMA QuietTypes ==
  ASSUME LedgerInv, NEW p \in Procs,
         \/ Acquire(p) \/ GiveUp(p) \/ Crash(p) \/ Release(p) \/ Refused(p)
         \/ StampBrief(p) \/ NoteFails(p) \/ RecordFails(p) \/ Receipt(p)
         \/ FindLoop(p) \/ FindTranscript(p)
  PROVE  TypeOK'
<1> USE DEF LedgerInv
<1>0. TypeOK /\ job[p] \in Jobs /\ job = [job EXCEPT ![p] = job[p]] /\ NoJob \in Jobs
  BY NoJobTyped DEF TypeOK
<1>1. CASE Acquire(p) \/ Refused(p)
  BY <1>0, <1>1, MoveTypes DEF Acquire, Refused, Moves, fileVars, procVars, TypeOK, Places
<1>2. CASE GiveUp(p) \/ Crash(p)
  BY <1>0, <1>2, MoveTypes DEF GiveUp, Crash, fileVars, procVars, TypeOK, Places
<1>3. CASE Release(p)
  <2>1. saved' \subseteq [file : Paths, made : Nat]
    BY <1>0, <1>3, FilesTyped DEF Release, TypeOK, Jobs
  <2>2. QED
    BY <1>0, <1>3, <2>1, MoveTypes DEF Release, Moves, fileVars, procVars, TypeOK, Places
<1>4. CASE StampBrief(p)
  <2>1. updated' \in 0..now
    BY <1>4 DEF StampBrief, Today, TypeOK
  <2>2. QED
    BY <1>0, <1>4, <2>1, MoveTypes DEF StampBrief, Moves, procVars, TypeOK, Places
<1>5. CASE NoteFails(p) \/ RecordFails(p)
  <2>1. job[p].stem \in StemNames
    BY <1>5 DEF NoteFails, RecordFails, Wrote, Wrapping
  <2>2. SessionPath(job[p].stem) \in Paths /\ job[p].filed \subseteq Paths
    BY <1>0, <2>1 DEF SessionPath, Paths, Jobs
  <2>3. PICK u \in SUBSET Paths : job' = [job EXCEPT ![p].undo = u]
    BY <1>5, <2>2 DEF NoteFails, RecordFails
  <2>4. [job[p] EXCEPT !.undo = u] \in Jobs /\ job' = [job EXCEPT ![p] = [job[p] EXCEPT !.undo = u]]
    BY <1>0, <2>3 DEF Jobs
  <2>5. pc' = [pc EXCEPT ![p] = "undoing"] /\ "undoing" \in Places
    BY <1>5 DEF NoteFails, RecordFails, Moves, Places
  <2>6. UNCHANGED <<fileVars, procVars, acked, saved>>
    BY <1>5 DEF NoteFails, RecordFails
  <2>7. QED
    BY <1>0, <2>4, <2>5, <2>6, MoveTypes DEF fileVars, procVars, TypeOK
<1>6. CASE Receipt(p)
  <2>1. acked' \subseteq RefNames
    BY <1>0, <1>6 DEF Receipt, Applied, TypeOK, Jobs
  <2>2. QED
    BY <1>0, <1>6, <2>1, MoveTypes DEF Receipt, Moves, fileVars, procVars, TypeOK, Places
<1>7. CASE FindLoop(p)
  <2>1. ASSUME NEW ref \in OpenLoops,
               job' = [job EXCEPT ![p].resolves = {ref},
                                  ![p].ended = CloseTime(sessions[ref.stem].ended)]
        PROVE  \E j \in Jobs : job' = [job EXCEPT ![p] = j]
    <3>1. ref \in Opened /\ ref.stem \in Stems /\ ref \in RefNames
      BY DEF OpenLoops, Opened, Ref, RefNames, TypeOK, SessionRecords
    <3>2. CloseTime(sessions[ref.stem].ended) \in Nat
      BY <3>1 DEF CloseTime, TypeOK, SessionRecords
    <3>3. [job[p] EXCEPT !.resolves = {ref}, !.ended = CloseTime(sessions[ref.stem].ended)] \in Jobs
      BY <1>0, <3>1, <3>2 DEF Jobs
    <3>4. job' = [job EXCEPT ![p] =
            [job[p] EXCEPT !.resolves = {ref}, !.ended = CloseTime(sessions[ref.stem].ended)]]
      BY <1>0, <2>1
    <3>5. QED
      BY <3>3, <3>4
  <2>2. \E j \in Jobs : job' = [job EXCEPT ![p] = j]
    BY <1>0, <1>7, <2>1 DEF FindLoop
  <2>3. QED
    BY <1>0, <1>7, <2>2, MoveTypes DEF FindLoop, Moves, fileVars, procVars, TypeOK, Places
<1>8. CASE FindTranscript(p)
  <2>1. PICK j \in Jobs : job' = [job EXCEPT ![p] = j]
    <3>1. ASSUME NEW sid \in DOMAIN Transcripts, job' = [job EXCEPT ![p].sid = sid]
          PROVE  \E j \in Jobs : job' = [job EXCEPT ![p] = j]
      <4>1. [job[p] EXCEPT !.sid = sid] \in Jobs
        BY <1>0, ConstantTypes DEF Jobs
      <4>2. job' = [job EXCEPT ![p] = [job[p] EXCEPT !.sid = sid]]
        BY <1>0, <3>1
      <4>3. QED
        BY <4>1, <4>2
    <3>2. QED
      BY <1>0, <1>8, <3>1 DEF FindTranscript
  <2>2. PICK place \in Places : pc' = [pc EXCEPT ![p] = place]
    BY <1>8 DEF FindTranscript, Moves, Places
  <2>3. UNCHANGED <<fileVars, procVars, acked, saved>>
    BY <1>8 DEF FindTranscript
  <2>4. /\ updated' \in 0..now /\ lock' \in Procs \cup {NoProc} /\ dead' \subseteq Procs
        /\ acked' \subseteq RefNames /\ saved' \subseteq [file : Paths, made : Nat]
    BY <1>0, <2>3 DEF fileVars, procVars, TypeOK
  <2>5. UNCHANGED <<sessions, notes, artifacts, now, ops>>
    BY <2>3 DEF fileVars, procVars
  <2>6. QED
    BY <1>0, <2>1, <2>2, <2>4, <2>5, MoveTypes
<1>9. QED
  BY <1>1, <1>2, <1>3, <1>4, <1>5, <1>6, <1>7, <1>8

\* Every step of a process that writes or removes a file keeps the types.
LEMMA WriteTypes ==
  ASSUME LedgerInv, NEW p \in Procs,
         \/ WrapSession(p) \/ LoopOpen(p) \/ CloseLoop(p) \/ WriteRecovered(p)
         \/ FileNote(p) \/ NoteAdd(p) \/ StampFails(p) \/ Undo(p)
  PROVE  TypeOK'
<1> USE DEF LedgerInv
<1>0. TypeOK /\ job[p] \in Jobs /\ Asked(p) /\ Knows(p)
  BY DEF TypeOK
<1>1. ASSUME NEW sid \in Sids, NEW started \in Nat, NEW ended \in Nat,
             NEW opens \in SUBSET Steps, NEW resolves \in SUBSET RefNames,
             NEW generated \in BOOLEAN, NEW place \in Places,
             WriteSession(p, sid, started, ended, opens, resolves, generated),
             Moves(p, place), acked' \subseteq RefNames,
             UNCHANGED <<notes, updated, artifacts, procVars, saved>>
      PROVE  TypeOK'
  <2> DEFINE file == Contents(p, sid, ended, opens, resolves, generated)
  <2>1. PICK stem \in StemNames : Writes(p, stem, sid, file)
    BY <1>0, <1>1, SessionWritten
  <2>2. /\ stem \notin Stems /\ file \in SessionRecords /\ file.sid = stem.sid
        /\ sessions' = Put(sessions, stem, file) /\ job' = WithStem(p, stem)
    BY <2>1 DEF Writes
  <2>3. pc' = [pc EXCEPT ![p] = place]
    BY <1>1 DEF Moves
  <2>4. UNCHANGED <<notes, updated, artifacts, now, ops, lock, dead, saved>>
    BY <1>1 DEF procVars
  <2>5. QED
    BY <1>0, <1>1, <2>2, <2>3, <2>4, AddTypes
<1>2. CASE WrapSession(p)
  <2>1. job[p].sid \in Sids
    BY <1>0, <1>2 DEF WrapSession, Locked, Asked
  <2>2. QED
    BY <1>0, <1>1, <1>2, <2>1 DEF WrapSession, Jobs, TypeOK, Places
<1>3. CASE LoopOpen(p)
  <2>1. PICK s \in FreshSids : WriteSession(p, s, now, now, job[p].opens, {}, FALSE)
    BY <1>3 DEF LoopOpen
  <2>2. s \in Sids
    BY ConstantTypes DEF FreshSids
  <2>3. QED
    BY <1>0, <1>1, <1>3, <2>1, <2>2 DEF LoopOpen, Jobs, TypeOK, Places
<1>4. CASE CloseLoop(p)
  <2>1. PICK s \in FreshSids :
          WriteSession(p, s, job[p].ended, job[p].ended, {}, job[p].resolves, FALSE)
    BY <1>4 DEF CloseLoop
  <2>2. s \in Sids
    BY ConstantTypes DEF FreshSids
  <2>3. acked' \subseteq RefNames
    BY <1>0, <1>4 DEF CloseLoop, Jobs, TypeOK
  <2>4. QED
    BY <1>0, <1>1, <1>4, <2>1, <2>2, <2>3 DEF CloseLoop, Jobs, Places
<1>5. CASE WriteRecovered(p)
  <2>1. job[p].sid \in DOMAIN Transcripts
    BY <1>0, <1>5 DEF WriteRecovered, Knows
  <2>2. QED
    BY <1>0, <1>1, <1>5, <2>1, ConstantTypes DEF WriteRecovered, TypeOK, Places
<1>6. CASE FileNote(p) \/ NoteAdd(p)
  <2>1. job[p].titles # <<>> /\ WriteNote(p)
    BY <1>0, <1>6 DEF FileNote, NoteAdd, Locked, Asked
  <2>2. PICK name \in NoteNames :
           /\ name \notin DOMAIN notes
           /\ notes' = Put(notes, name, job[p].made)
           /\ job' = [job EXCEPT ![p].titles = Tail(@), ![p].filed = @ \cup {NotePath(name)}]
    BY <1>0, <2>1, NoteWritten
  <2>3. DOMAIN notes' \subseteq NoteNames /\ notes' \in [DOMAIN notes' -> Nat]
    BY <1>0, <2>2 DEF TypeOK, Put, Jobs
  <2>4. NotePath(name) \in Paths /\ Tail(job[p].titles) \in Seq(Titles)
    BY <1>0, <2>1 DEF NotePath, Paths, Jobs
  <2>5. [job[p] EXCEPT !.titles = Tail(@), !.filed = @ \cup {NotePath(name)}] \in Jobs
    BY <1>0, <2>4 DEF Jobs
  <2>6. job' \in [Procs -> Jobs]
    BY <1>0, <2>2, <2>5 DEF TypeOK
  <2>7. pc' \in [Procs -> Places]
    BY <1>0, <1>6 DEF FileNote, NoteAdd, Moves, TypeOK, Places
  <2>8. UNCHANGED <<sessions, updated, artifacts, procVars, acked, saved>>
    BY <1>6 DEF FileNote, NoteAdd
  <2>9. QED
    BY <1>0, <2>3, <2>6, <2>7, <2>8 DEF TypeOK, Stems, procVars
<1>7. CASE StampFails(p) \/ Undo(p)
  <2>1. /\ Stems' \subseteq Stems /\ \A s \in Stems' : sessions'[s] = sessions[s]
        /\ sessions' = [s \in Stems' |-> sessions'[s]]
    BY <1>7 DEF StampFails, Undo, Restrict, Stems
  <2>2. /\ DOMAIN notes' \subseteq DOMAIN notes /\ \A n \in DOMAIN notes' : notes'[n] = notes[n]
        /\ notes' = [n \in DOMAIN notes' |-> notes'[n]]
    BY <1>0, <1>7 DEF StampFails, Undo, Restrict, TypeOK
  <2>3. job' \in [Procs -> Jobs]
    <3>1. ASSUME NEW f \in job[p].undo, job' = [job EXCEPT ![p].undo = @ \ {f}]
          PROVE  job' \in [Procs -> Jobs]
      <4>1. [job[p] EXCEPT !.undo = @ \ {f}] \in Jobs
        BY <1>0 DEF Jobs
      <4>2. QED
        BY <3>1, <4>1 DEF TypeOK
    <3>2. QED
      BY <1>0, <1>7, <3>1 DEF StampFails, Undo, TypeOK
  <2>4. pc' \in [Procs -> Places]
    BY <1>0, <1>7 DEF StampFails, Undo, Moves, TypeOK, Places
  <2>5. UNCHANGED <<updated, artifacts, procVars, acked, saved>>
    BY <1>7 DEF StampFails, Undo
  <2>6. QED
    BY <1>0, <2>1, <2>2, <2>3, <2>4, <2>5 DEF TypeOK, procVars
<1>8. QED
  BY <1>2, <1>3, <1>4, <1>5, <1>6, <1>7

LEMMA StepTypes ==
  ASSUME LedgerInv, Next
  PROVE  TypeOK'
<1> USE DEF LedgerInv
<1>1. CASE Tick
  BY <1>1 DEF Tick, TypeOK, Stems, fileVars
<1>2. ASSUME NEW p \in Procs,
             \/ BeginWrap(p) \/ BeginOpen(p) \/ BeginResolve(p) \/ BeginRecover(p) \/ BeginNote(p)
      PROVE  TypeOK'
  <2>1. PICK r \in Jobs : IsRequest(r) /\ Begin(p, r)
    BY <1>2, Requests
  <2>2. ops' \in Nat /\ [r EXCEPT !.made = ops + 1] \in Jobs
    <3>1. ops \in Nat /\ ops + 1 \in Nat
      BY DEF TypeOK
    <3>2. [r EXCEPT !.made = ops + 1] \in Jobs
      BY <3>1 DEF Jobs
    <3>3. QED
      BY <2>1, <3>1, <3>2 DEF Begin
  <2>3. job' \in [Procs -> Jobs] /\ pc' \in [Procs -> Places]
    BY <2>1, <2>2 DEF Begin, TypeOK, Places
  <2>4. UNCHANGED <<fileVars, lock, dead, now, acked, saved>>
    BY <2>1 DEF Begin
  <2>5. QED
    BY <2>2, <2>3, <2>4 DEF TypeOK, Stems, fileVars
<1>3. ASSUME NEW p \in Procs, RecordGit(p) PROVE TypeOK'
  BY <1>3 DEF RecordGit, TypeOK, Stems, Moves, Places, procVars
<1>4. QED
  BY <1>1, <1>2, <1>3, QuietTypes, WriteTypes DEF Next

----------------------------------------------------------------------------
(* Who is past the lock is alone.                                           *)

LEMMA OthersAsleep ==
  ASSUME Alone, NEW p \in Procs, pc[p] \notin Asleep
  PROVE  \A q \in Procs \ {p} : pc[q] \in Asleep
BY DEF Alone

\* A step moves process p alone.
OthersSame(p) == \A q \in Procs \ {p} : pc'[q] = pc[q] /\ job'[q] = job[q]

LEMMA Frames ==
  ASSUME TypeOK, NEW p \in Procs,
         \/ BeginWrap(p) \/ BeginOpen(p) \/ BeginResolve(p) \/ BeginRecover(p) \/ BeginNote(p)
         \/ Acquire(p) \/ GiveUp(p) \/ Crash(p) \/ Release(p) \/ Refused(p)
         \/ WrapSession(p) \/ StampBrief(p) \/ StampFails(p) \/ FileNote(p) \/ NoteFails(p)
         \/ RecordGit(p) \/ RecordFails(p) \/ Undo(p) \/ Receipt(p)
         \/ LoopOpen(p) \/ FindLoop(p) \/ CloseLoop(p)
         \/ FindTranscript(p) \/ WriteRecovered(p) \/ NoteAdd(p)
  PROVE  OthersSame(p)
<1> USE DEF OthersSame, Moves
<1>0. pc \in [Procs -> Places] /\ job \in [Procs -> Jobs]
  BY DEF TypeOK
<1>1. CASE BeginWrap(p) \/ BeginOpen(p) \/ BeginResolve(p) \/ BeginRecover(p) \/ BeginNote(p)
  <2>1. PICK r \in Jobs : Begin(p, r)
    BY <1>1, Requests
  <2>2. QED
    BY <1>0, <2>1 DEF Begin
<1>2. CASE Acquire(p) \/ GiveUp(p) \/ Crash(p) \/ Release(p) \/ Refused(p)
  BY <1>0, <1>2 DEF Acquire, GiveUp, Crash, Release, Refused
<1>3. CASE WrapSession(p) \/ LoopOpen(p) \/ CloseLoop(p) \/ WriteRecovered(p)
  BY <1>0, <1>3 DEF WrapSession, LoopOpen, CloseLoop, WriteRecovered, WriteSession
<1>4. CASE StampBrief(p) \/ StampFails(p) \/ NoteFails(p) \/ RecordGit(p) \/ RecordFails(p)
  BY <1>0, <1>4 DEF StampBrief, StampFails, NoteFails, RecordGit, RecordFails
<1>5. CASE FileNote(p) \/ NoteAdd(p)
  BY <1>0, <1>5 DEF FileNote, NoteAdd, WriteNote
<1>6. CASE Undo(p)
  BY <1>0, <1>6 DEF Undo
<1>7. CASE Receipt(p) \/ FindLoop(p) \/ FindTranscript(p)
  BY <1>0, <1>7 DEF Receipt, FindLoop, FindTranscript
<1>8. QED
  BY <1>1, <1>2, <1>3, <1>4, <1>5, <1>6, <1>7

LEMMA StepAlone ==
  ASSUME LedgerInv, Next
  PROVE  Alone'
<1> USE DEF LedgerInv
<1>0. pc \in [Procs -> Places] /\ NoProc \notin Procs /\ dead \subseteq Procs
  BY ConstantTypes DEF TypeOK
<1>1. CASE Tick
  BY <1>1 DEF Tick, Alone
<1>2. ASSUME NEW p \in Procs,
             \/ BeginWrap(p) \/ BeginOpen(p) \/ BeginResolve(p) \/ BeginRecover(p) \/ BeginNote(p)
      PROVE  Alone'
  <2>1. PICK r \in Jobs : Begin(p, r)
    BY <1>2, Requests
  <2>2. /\ p \notin dead /\ pc' = [pc EXCEPT ![p] = "wait"]
        /\ UNCHANGED <<lock, dead>>
    BY <2>1 DEF Begin
  <2>3. QED
    BY <1>0, <2>2 DEF Alone, Asleep
<1>3. ASSUME NEW p \in Procs, Acquire(p) PROVE Alone'
  BY <1>0, <1>3 DEF Acquire, Alone, Asleep
<1>4. ASSUME NEW p \in Procs, GiveUp(p) \/ Crash(p) PROVE Alone'
  BY <1>0, <1>4 DEF GiveUp, Crash, procVars, Alone, Asleep
<1>5. ASSUME NEW p \in Procs, Release(p) PROVE Alone'
  BY <1>0, <1>5 DEF Release, Moves, Alone, Asleep
<1>6. ASSUME NEW p \in Procs, UNCHANGED <<lock, dead>>, pc[p] \notin Asleep,
             \A q \in Procs \ {p} : pc'[q] = pc[q]
      PROVE  Alone'
  BY <1>0, <1>6 DEF Alone, Asleep
<1>7. ASSUME NEW p \in Procs,
             \/ Refused(p) \/ WrapSession(p) \/ StampBrief(p) \/ StampFails(p)
             \/ FileNote(p) \/ NoteFails(p) \/ RecordGit(p) \/ RecordFails(p)
             \/ Undo(p) \/ Receipt(p) \/ LoopOpen(p) \/ FindLoop(p) \/ CloseLoop(p)
             \/ FindTranscript(p) \/ WriteRecovered(p) \/ NoteAdd(p)
      PROVE  Alone'
  <2>1. pc[p] \notin Asleep
    BY <1>7 DEF Refused, WrapSession, StampBrief, StampFails, FileNote, NoteFails, RecordGit,
         RecordFails, Undo, Receipt, LoopOpen, FindLoop, CloseLoop, FindTranscript,
         WriteRecovered, NoteAdd, Locked, Asleep
  <2>2. UNCHANGED <<lock, dead>>
    BY <1>7 DEF Refused, WrapSession, StampBrief, StampFails, FileNote, NoteFails, RecordGit,
         RecordFails, Undo, Receipt, LoopOpen, FindLoop, CloseLoop, FindTranscript,
         WriteRecovered, NoteAdd, procVars
  <2>3. QED
    BY <1>6, <1>7, <2>1, <2>2, Frames DEF OthersSame
<1>8. QED
  BY <1>1, <1>2, <1>3, <1>4, <1>5, <1>7 DEF Next

----------------------------------------------------------------------------
(* What the history rests on stays.                                         *)

\* A file that is settled is kept as it is.
KeepsSettled ==
  /\ \A s \in Stems : Settled(SessionPath(s)) => s \in Stems' /\ sessions'[s] = sessions[s]
  /\ \A n \in DOMAIN notes : Settled(NotePath(n)) => n \in DOMAIN notes' /\ notes'[n] = notes[n]

IsFile(path) ==
  (\E s \in Stems : path = SessionPath(s)) \/ (\E n \in DOMAIN notes : path = NotePath(n))

\* While it may be taken back, a wrap writes only names no file had.
WritesFresh(p) ==
  pc'[p] \in Wrapping =>
    \A path \in Files(p)' : ~IsFile(path) \/ (pc[p] \in Wrapping /\ path \in Files(p))

LEMMA SettledStays ==
  ASSUME NEW p \in Procs, OthersSame(p), WritesFresh(p), NEW path, IsFile(path), Settled(path)
  PROVE  Settled(path)'
<1>1. ASSUME NEW q \in Procs \ {p}, pc'[q] \in Wrapping PROVE path \notin Files(q)'
  BY <1>1 DEF OthersSame, Settled, Files
<1>2. pc'[p] \in Wrapping => path \notin Files(p)'
  BY DEF WritesFresh, Settled
<1>3. QED
  BY <1>1, <1>2 DEF Settled

\* A wrap that cannot be taken back any more settles everything.
LEMMA AllSettled ==
  ASSUME Alone, NEW p \in Procs, OthersSame(p), pc[p] \notin Asleep, pc'[p] \notin Wrapping,
         NEW path
  PROVE  Settled(path)'
BY OthersAsleep DEF OthersSame, Settled, Wrapping, Asleep

LEMMA PresentStays ==
  ASSUME KeepsSettled, NEW path, NEW made, Present(path, made), Settled(path)
  PROVE  Present(path, made)' /\ IsFile(path)
BY DEF KeepsSettled, Present, IsFile, Stems

LEMMA ClosesStays ==
  ASSUME KeepsSettled, NEW s \in Stems, NEW ref, Closes(s, ref),
         Settled(SessionPath(s)), Settled(SessionPath(ref.stem))
  PROVE  /\ s \in Stems' /\ Closes(s, ref)'
         /\ IsFile(SessionPath(s)) /\ IsFile(SessionPath(ref.stem))
<1>1. ref.stem \in Stems /\ ref \in Opened /\ ref.id \in sessions[ref.stem].opens
      /\ ref = Ref(ref.stem, ref.id)
  BY DEF Closes, Opened, Ref
<1>2. /\ s \in Stems' /\ sessions'[s] = sessions[s]
      /\ ref.stem \in Stems' /\ sessions'[ref.stem] = sessions[ref.stem]
  BY <1>1 DEF KeepsSettled
<1>3. ref \in Opened'
  BY <1>1, <1>2 DEF Opened
<1>4. Closes(s, ref)'
  BY <1>2, <1>3 DEF Closes, Prior
<1>5. QED
  BY <1>1, <1>2, <1>4 DEF IsFile

LEMMA SavedStays ==
  ASSUME NEW p \in Procs, OthersSame(p), WritesFresh(p), KeepsSettled, SavedSettled,
         NEW f \in saved
  PROVE  Present(f.file, f.made)' /\ Settled(f.file)'
BY PresentStays, SettledStays DEF SavedSettled

LEMMA AckedStays ==
  ASSUME NEW p \in Procs, OthersSame(p), WritesFresh(p), KeepsSettled, AckedSettled,
         NEW ref \in acked
  PROVE  /\ Settled(SessionPath(ref.stem))'
         /\ \E s \in Stems' : Closes(s, ref)' /\ Settled(SessionPath(s))'
<1>1. PICK s \in Stems : Closes(s, ref) /\ Settled(SessionPath(s))
  BY DEF AckedSettled
<1>2. Settled(SessionPath(ref.stem))
  BY DEF AckedSettled
<1>3. /\ s \in Stems' /\ Closes(s, ref)'
      /\ IsFile(SessionPath(s)) /\ IsFile(SessionPath(ref.stem))
  BY <1>1, <1>2, ClosesStays
<1>4. QED
  BY <1>1, <1>2, <1>3, SettledStays

LEMMA HistoryStays ==
  ASSUME NEW p \in Procs, OthersSame(p), WritesFresh(p), KeepsSettled,
         SavedSettled, AckedSettled, UNCHANGED <<saved, acked>>
  PROVE  SavedSettled' /\ AckedSettled'
<1>1. SavedSettled'
  BY SavedStays DEF SavedSettled
<1>2. AckedSettled'
  BY AckedStays DEF AckedSettled
<1>3. QED
  BY <1>1, <1>2

\* Steps of which only process p knows leave the others' parts of the invariant.
Own(p) == Asked(p) /\ Wrote(p) /\ Knows(p)

LEMMA OthersOwn ==
  ASSUME LedgerInv, NEW p \in Procs, OthersSame(p),
         UNCHANGED <<sessions, notes>> \/ pc[p] \notin Asleep, NEW q \in Procs \ {p}
  PROVE  Own(q)'
<1>0. Own(q) /\ pc'[q] = pc[q] /\ job'[q] = job[q]
  BY DEF LedgerInv, Own, OthersSame
<1>1. Asked(q)'
  BY <1>0 DEF Own, Asked
<1>2. CASE UNCHANGED <<sessions, notes>>
  <2>1. Wrote(q)'
    BY <1>0, <1>2 DEF Own, Wrote, Files, Present, Stems
  <2>2. Knows(q)'
    BY <1>0, <1>2 DEF Own, Knows, Recorded, OpenLoops, Opened, Resolved, Closes, Prior, Stems
  <2>3. QED
    BY <1>1, <2>1, <2>2 DEF Own
<1>3. CASE pc[p] \notin Asleep
  <2>1. pc'[q] \in Asleep
    BY <1>0, <1>3, OthersAsleep DEF LedgerInv
  <2>2. QED
    BY <1>1, <2>1 DEF Own, Wrote, Knows, Asleep, Wrapping
<1>4. QED
  BY <1>2, <1>3

----------------------------------------------------------------------------
(* Steps that leave the files alone.                                        *)

\* Process p keeps what its command has written.
SameFiles(p) ==
  /\ job'[p].stem = job[p].stem /\ job'[p].filed = job[p].filed /\ job'[p].made = job[p].made

LEMMA QuietHistory ==
  ASSUME NEW p \in Procs, OthersSame(p), UNCHANGED <<sessions, notes, saved, acked>>,
         SavedSettled, AckedSettled,
         pc'[p] \in Wrapping => pc[p] \in Wrapping /\ SameFiles(p)
  PROVE  SavedSettled' /\ AckedSettled'
<1>1. KeepsSettled
  BY DEF KeepsSettled, Stems
<1>2. WritesFresh(p)
  BY DEF WritesFresh, SameFiles, Files
<1>3. QED
  BY <1>1, <1>2, HistoryStays

\* Begin, Acquire, GiveUp, Crash, Refused: the command has written nothing, or
\* no longer counts.
LEMMA WaitingOwn ==
  ASSUME LedgerInv, NEW p \in Procs,
         \/ BeginWrap(p) \/ BeginOpen(p) \/ BeginResolve(p) \/ BeginRecover(p) \/ BeginNote(p)
         \/ Acquire(p) \/ GiveUp(p) \/ Crash(p) \/ Refused(p)
  PROVE  Own(p)' /\ SavedSettled' /\ AckedSettled'
<1>0. /\ pc \in [Procs -> Places] /\ job \in [Procs -> Jobs] /\ OthersSame(p)
      /\ Own(p) /\ SavedSettled /\ AckedSettled
  <2>1. TypeOK
    BY DEF LedgerInv
  <2>2. QED
    BY <2>1, Frames DEF LedgerInv, Own, TypeOK
<1>1. CASE BeginWrap(p) \/ BeginOpen(p) \/ BeginResolve(p) \/ BeginRecover(p) \/ BeginNote(p)
  <2>1. PICK r \in Jobs : IsRequest(r) /\ Begin(p, r)
    BY <1>1, Requests DEF LedgerInv
  <2>2. pc'[p] = "wait"
    BY <1>0, <2>1 DEF Begin
  <2>3. job'[p] = [r EXCEPT !.made = ops + 1]
    BY <1>0, <2>1 DEF Begin
  <2>4. /\ job'[p].stem = r.stem /\ job'[p].filed = r.filed /\ job'[p].cmd = r.cmd
        /\ job'[p].sid = r.sid /\ job'[p].titles = r.titles
    BY <2>3 DEF Jobs
  <2>5. Own(p)'
    BY <2>1, <2>2, <2>4 DEF Own, Asked, Wrote, Knows, IsRequest, Wrapping
  <2>6. UNCHANGED <<sessions, notes, saved, acked>>
    BY <2>1 DEF Begin, fileVars
  <2>7. QED
    BY <1>0, <2>2, <2>5, <2>6, QuietHistory DEF Wrapping
<1>2. CASE Acquire(p)
  <2>1. pc[p] = "wait" /\ pc'[p] = "locked" /\ job' = job
    BY <1>0, <1>2 DEF Acquire
  <2>2. Own(p)'
    BY <1>0, <2>1 DEF Own, Asked, Wrote, Knows, Wrapping
  <2>3. UNCHANGED <<sessions, notes, saved, acked>>
    BY <1>2 DEF Acquire, fileVars
  <2>4. QED
    BY <1>0, <2>1, <2>2, <2>3, QuietHistory DEF Wrapping
<1>3. CASE GiveUp(p) \/ Crash(p) \/ Refused(p)
  <2>1. pc'[p] \in {"idle", "failed"}
    BY <1>0, <1>3 DEF GiveUp, Crash, Refused, Moves
  <2>2. Own(p)'
    BY <2>1 DEF Own, Asked, Wrote, Knows, Wrapping
  <2>3. UNCHANGED <<sessions, notes, saved, acked>>
    BY <1>3 DEF GiveUp, Crash, Refused, fileVars
  <2>4. QED
    BY <1>0, <2>1, <2>2, <2>3, QuietHistory DEF Wrapping
<1>4. QED
  BY <1>1, <1>2, <1>3

\* Between the writes of a wrap.
LEMMA WrapOwn ==
  ASSUME LedgerInv, NEW p \in Procs,
         StampBrief(p) \/ RecordGit(p) \/ NoteFails(p) \/ RecordFails(p)
  PROVE  Own(p)' /\ SavedSettled' /\ AckedSettled'
<1>0. /\ pc \in [Procs -> Places] /\ job \in [Procs -> Jobs] /\ OthersSame(p)
      /\ Own(p) /\ SavedSettled /\ AckedSettled
  <2>1. TypeOK
    BY DEF LedgerInv
  <2>2. QED
    BY <2>1, Frames DEF LedgerInv, Own, TypeOK
<1>1. UNCHANGED <<sessions, notes, saved, acked>>
  BY DEF StampBrief, RecordGit, NoteFails, RecordFails, fileVars
<1>2. CASE StampBrief(p) \/ RecordGit(p)
  <2>1. /\ pc[p] \in {"unstamped", "filing"} /\ pc'[p] \in {"filing", "receipt"} /\ job' = job
    BY <1>0, <1>2 DEF StampBrief, RecordGit, Moves
  <2>2. Own(p)'
    BY <1>0, <1>1, <2>1 DEF Own, Asked, Wrote, Knows, Wrapping, Files, Present, Stems
  <2>3. QED
    BY <1>0, <1>1, <2>1, <2>2, QuietHistory DEF Wrapping, SameFiles
<1>3. CASE NoteFails(p) \/ RecordFails(p)
  <2>1. pc[p] = "filing" /\ pc'[p] = "undoing" /\ job[p].stem \in StemNames
    BY <1>0, <1>3 DEF NoteFails, RecordFails, Moves, Own, Wrote, Wrapping
  <2>2. PICK u \in SUBSET Files(p) : job' = [job EXCEPT ![p].undo = u]
    <3>1. SessionPath(job[p].stem) \in Files(p) /\ job[p].filed \subseteq Files(p)
      BY <2>1, ConstantTypes DEF Files
    <3>2. QED
      BY <1>3, <3>1 DEF NoteFails, RecordFails
  <2>3. job'[p] = [job[p] EXCEPT !.undo = u]
    BY <1>0, <2>2
  <2>4. SameFiles(p) /\ job'[p].undo = u
    BY <1>0, <2>3 DEF SameFiles, Jobs
  <2>5. Own(p)'
    BY <2>1, <2>4 DEF Own, Asked, Wrote, Knows, Wrapping, Files, SameFiles
  <2>6. QED
    BY <1>0, <1>1, <2>1, <2>4, <2>5, QuietHistory DEF Wrapping
<1>4. QED
  BY <1>2, <1>3

\* The reads of loop.resolve and session.recover.
LEMMA FindOwn ==
  ASSUME LedgerInv, NEW p \in Procs, FindLoop(p) \/ FindTranscript(p)
  PROVE  Own(p)' /\ SavedSettled' /\ AckedSettled'
<1>0. /\ pc \in [Procs -> Places] /\ job \in [Procs -> Jobs] /\ OthersSame(p)
      /\ Own(p) /\ SavedSettled /\ AckedSettled /\ TypeOK
  <2>1. TypeOK
    BY DEF LedgerInv
  <2>2. QED
    BY <2>1, Frames DEF LedgerInv, Own, TypeOK
<1>1. UNCHANGED <<sessions, notes, saved, acked>>
  BY DEF FindLoop, FindTranscript, fileVars
<1>2. pc[p] = "locked" /\ job[p].stem = AnyStem /\ job[p].filed = {}
  BY <1>0 DEF FindLoop, FindTranscript, Locked, Own, Asked
<1>3. CASE FindLoop(p)
  <2>1. CASE pc'[p] = "failed"
    BY <1>0, <1>1, <2>1, QuietHistory DEF Own, Asked, Wrote, Knows, Wrapping
  <2>2. ASSUME NEW ref \in OpenLoops, Moves(p, "closing"),
               job' = [job EXCEPT ![p].resolves = {ref},
                                  ![p].ended = CloseTime(sessions[ref.stem].ended)]
        PROVE  Own(p)' /\ SavedSettled' /\ AckedSettled'
    <3> DEFINE time == CloseTime(sessions[ref.stem].ended)
    <3>1. ref.stem \in Stems
      BY DEF OpenLoops, Opened, Ref
    <3>2. sessions[ref.stem].ended < time
      BY <1>0, <3>1 DEF CloseTime, TypeOK, SessionRecords
    <3>3. pc'[p] = "closing"
      BY <1>0, <2>2 DEF Moves
    <3>4. job'[p] = [job[p] EXCEPT !.resolves = {ref}, !.ended = time]
      BY <1>0, <2>2
    <3>5. SameFiles(p) /\ job'[p].resolves = {ref} /\ job'[p].ended = time
      BY <1>0, <3>4 DEF SameFiles, Jobs
    <3>6. OpenLoops' = OpenLoops
      BY <1>1 DEF OpenLoops, Opened, Resolved, Closes, Prior, Stems
    <3>7. Knows(p)'
      BY <1>1, <3>2, <3>3, <3>5, <3>6 DEF Knows
    <3>8. Asked(p)' /\ Wrote(p)'
      BY <1>2, <3>3, <3>5 DEF Asked, Wrote, Wrapping, SameFiles
    <3>9. QED
      BY <1>0, <1>1, <3>3, <3>7, <3>8, QuietHistory DEF Own, Wrapping
  <2>3. QED
    BY <1>0, <1>3, <2>1, <2>2 DEF FindLoop, Moves
<1>4. CASE FindTranscript(p)
  <2>1. CASE pc'[p] \in {"finished", "failed"} /\ job' = job
    <3>1. Files(p)' = {}
      BY <1>2, <2>1 DEF Files
    <3>2. Own(p)'
      BY <2>1, <3>1 DEF Own, Asked, Wrote, Knows, Wrapping
    <3>3. QED
      BY <1>0, <1>1, <2>1, <3>2, QuietHistory DEF Wrapping
  <2>2. ASSUME NEW sid \in DOMAIN Transcripts, ~Recorded(sid), Moves(p, "recovering"),
               job' = [job EXCEPT ![p].sid = sid]
        PROVE  Own(p)' /\ SavedSettled' /\ AckedSettled'
    <3>1. pc'[p] = "recovering"
      BY <1>0, <2>2 DEF Moves
    <3>2. job'[p] = [job[p] EXCEPT !.sid = sid]
      BY <1>0, <2>2
    <3>3. SameFiles(p) /\ job'[p].sid = sid
      BY <1>0, <3>2 DEF SameFiles, Jobs
    <3>4. Own(p)'
      BY <1>1, <1>2, <2>2, <3>1, <3>3
         DEF Own, Asked, Wrote, Knows, Wrapping, SameFiles, Recorded, Stems
    <3>5. QED
      BY <1>0, <1>1, <3>1, <3>4, QuietHistory DEF Wrapping
  <2>3. QED
    BY <1>0, <1>4, <2>1, <2>2 DEF FindTranscript, Moves
<1>5. QED
  BY <1>3, <1>4

\* The receipt of a wrap, and the end of every command: the history grows.
LEMMA ReceiptOwn ==
  ASSUME LedgerInv, NEW p \in Procs, Receipt(p)
  PROVE  Own(p)' /\ SavedSettled' /\ AckedSettled'
<1>0. /\ OthersSame(p) /\ Own(p) /\ SavedSettled /\ AckedSettled /\ TypeOK /\ Alone
  <2>1. TypeOK
    BY DEF LedgerInv
  <2>2. QED
    BY <2>1, Frames DEF LedgerInv, Own
<1>1. pc[p] = "receipt" /\ pc'[p] = "finished" /\ job' = job
  BY <1>0 DEF Receipt, Moves, TypeOK
<1>2. UNCHANGED <<sessions, notes, saved>>
  BY DEF Receipt, fileVars
<1>3. Own(p)'
  BY <1>0, <1>1, <1>2 DEF Own, Asked, Wrote, Knows, Wrapping, Files, Present, Stems
<1>4. KeepsSettled /\ WritesFresh(p)
  BY <1>1, <1>2 DEF KeepsSettled, WritesFresh, Wrapping, Stems
<1>5. SavedSettled'
  BY <1>0, <1>2, <1>4, SavedStays DEF SavedSettled
<1>6. \A path : Settled(path)'
  BY <1>0, <1>1, AllSettled DEF Wrapping, Asleep
<1>7. ASSUME NEW ref \in Applied(p) PROVE \E s \in Stems' : Closes(s, ref)'
  <2>1. Closes(job[p].stem, ref)
    BY DEF Applied
  <2>2. job[p].stem \in Stems
    <3>1. SessionPath(job[p].stem) \in Files(p)
      BY <1>0, <1>1, ConstantTypes DEF Files, Own, Wrote, Wrapping
    <3>2. Present(SessionPath(job[p].stem), job[p].made)
      BY <1>0, <1>1, <3>1 DEF Own, Wrote
    <3>3. QED
      BY <3>2 DEF Present, SessionPath, NotePath
  <2>3. QED
    BY <1>2, <2>1, <2>2 DEF Closes, Opened, Prior, Stems
<1>8. AckedSettled'
  <2>1. ASSUME NEW ref \in acked'
        PROVE  /\ Settled(SessionPath(ref.stem))'
               /\ \E s \in Stems' : Closes(s, ref)' /\ Settled(SessionPath(s))'
    <3>1. CASE ref \in acked
      BY <1>0, <1>4, <3>1, AckedStays
    <3>2. CASE ref \in Applied(p)
      BY <1>6, <1>7, <3>2
    <3>3. QED
      BY <3>1, <3>2 DEF Receipt
  <2>2. QED
    BY <2>1 DEF AckedSettled
<1>9. QED
  BY <1>3, <1>5, <1>8

LEMMA ReleaseOwn ==
  ASSUME LedgerInv, NEW p \in Procs, Release(p)
  PROVE  Own(p)' /\ SavedSettled' /\ AckedSettled'
<1>0. /\ OthersSame(p) /\ Own(p) /\ SavedSettled /\ AckedSettled /\ TypeOK /\ Alone
  <2>1. TypeOK
    BY DEF LedgerInv
  <2>2. QED
    BY <2>1, Frames DEF LedgerInv, Own
<1>1. pc[p] \in {"finished", "failed"} /\ pc'[p] = "idle"
  BY <1>0 DEF Release, Moves, TypeOK
<1>2. UNCHANGED <<sessions, notes, acked>>
  BY DEF Release, fileVars
<1>3. Own(p)'
  BY <1>1 DEF Own, Asked, Wrote, Knows, Wrapping
<1>4. KeepsSettled /\ WritesFresh(p)
  BY <1>1, <1>2 DEF KeepsSettled, WritesFresh, Wrapping, Stems
<1>5. \A path : Settled(path)'
  BY <1>0, <1>1, AllSettled DEF Wrapping, Asleep
<1>6. AckedSettled'
  BY <1>0, <1>2, <1>4, AckedStays DEF AckedSettled
<1>7. ASSUME NEW f \in saved' PROVE Present(f.file, f.made)' /\ Settled(f.file)'
  <2>1. CASE f \in saved
    BY <1>0, <1>4, <2>1, SavedStays
  <2>2. CASE f \notin saved
    <3>1. PICK path \in Files(p) : f = [file |-> path, made |-> job[p].made] /\ pc[p] = "finished"
      BY <2>2 DEF Release
    <3>2. f.file = path /\ f.made = job[p].made /\ Present(path, job[p].made)
      BY <1>0, <3>1 DEF Own, Wrote
    <3>3. Present(f.file, f.made)'
      BY <1>2, <3>2 DEF Present, Stems
    <3>4. QED
      BY <1>5, <3>3
  <2>3. QED
    BY <2>1, <2>2
<1>8. QED
  BY <1>3, <1>6, <1>7 DEF SavedSettled

----------------------------------------------------------------------------
(* Steps that write.                                                        *)

OwnFiles(p) == \A path \in Files(p) : Present(path, job[p].made)

\* A command that writes a session file: what is there stays, and the file is its own.
LEMMA WriterHistory ==
  ASSUME TypeOK, NEW p \in Procs, NEW stem \in StemNames, NEW sid, NEW file,
         Writes(p, stem, sid, file), UNCHANGED notes, job[p].filed = {}
  PROVE  /\ Files(p)' = {SessionPath(stem)} /\ job'[p].stem = stem
         /\ OwnFiles(p)' /\ KeepsSettled /\ WritesFresh(p)
<1>1. /\ stem \notin Stems /\ stem.sid = sid /\ file \in SessionRecords /\ file.sid = sid
      /\ file.made = job[p].made /\ sessions' = Put(sessions, stem, file)
      /\ job' = WithStem(p, stem)
  BY DEF Writes
<1>2. /\ Stems' = Stems \cup {stem} /\ sessions'[stem] = file
      /\ \A s \in Stems : sessions'[s] = sessions[s]
  BY <1>1, SessionAdded
<1>3. /\ Files(p)' = {SessionPath(stem)} /\ job'[p].made = job[p].made /\ job'[p].stem = stem
  BY <1>1, StemNoted
<1>4. OwnFiles(p)'
  BY <1>1, <1>2, <1>3 DEF Present, OwnFiles
<1>5. KeepsSettled
  BY <1>2 DEF KeepsSettled
<1>6. WritesFresh(p)
  BY <1>1, <1>3 DEF WritesFresh, IsFile, SessionPath, NotePath
<1>7. QED
  BY <1>3, <1>4, <1>5, <1>6

\* Steps that write a session file.
LEMMA Writers ==
  ASSUME LedgerInv, NEW p \in Procs,
         WrapSession(p) \/ LoopOpen(p) \/ WriteRecovered(p) \/ CloseLoop(p)
  PROVE  \E stem \in StemNames, sid \in Sids, file \in SessionRecords :
           /\ Writes(p, stem, sid, file)
           /\ file.generated => ~Recorded(sid)
           /\ pc[p] = "closing" =>
                /\ file.resolves = job[p].resolves /\ file.ended = job[p].ended
                /\ \A s \in Stems : sessions[s].sid # sid
<1>0. Own(p) /\ TypeOK /\ job[p] \in Jobs
  BY DEF LedgerInv, Own, TypeOK
<1>1. CASE WrapSession(p)
  <2> DEFINE j == job[p]
             file == Contents(p, j.sid, j.ended, j.opens, j.resolves, FALSE)
  <2>1. /\ j.sid \in Sids /\ j.started \in Nat /\ j.ended \in Nat
        /\ j.opens \in SUBSET Steps /\ j.resolves \in SUBSET RefNames
    BY <1>0, <1>1 DEF WrapSession, Locked, Own, Asked, Jobs
  <2>2. PICK stem \in StemNames : Writes(p, stem, j.sid, file)
    BY <1>0, <1>1, <2>1, SessionWritten DEF WrapSession
  <2>3. pc[p] # "closing" /\ file.generated = FALSE /\ file \in SessionRecords
    BY <1>1, <2>2 DEF WrapSession, Locked, Contents, Writes
  <2>4. QED
    BY <2>1, <2>2, <2>3
<1>2. CASE LoopOpen(p)
  <2>1. PICK sid \in FreshSids : WriteSession(p, sid, now, now, job[p].opens, {}, FALSE)
    BY <1>2 DEF LoopOpen
  <2> DEFINE file == Contents(p, sid, now, job[p].opens, {}, FALSE)
  <2>2. sid \in Sids /\ now \in Nat /\ job[p].opens \in SUBSET Steps
    BY <1>0, ConstantTypes DEF FreshSids, Jobs, TypeOK
  <2>3. PICK stem \in StemNames : Writes(p, stem, sid, file)
    BY <1>0, <2>1, <2>2, SessionWritten
  <2>4. pc[p] # "closing" /\ file.generated = FALSE /\ file \in SessionRecords
    BY <1>2, <2>3 DEF LoopOpen, Locked, Contents, Writes
  <2>5. QED
    BY <2>2, <2>3, <2>4
<1>3. CASE WriteRecovered(p)
  <2> DEFINE sid == job[p].sid
             file == Contents(p, sid, Transcripts[sid].ended, {}, {}, TRUE)
  <2>1. /\ sid \in Sids /\ ~Recorded(sid)
        /\ Transcripts[sid].started \in Nat /\ Transcripts[sid].ended \in Nat
    BY <1>0, <1>3, ConstantTypes DEF WriteRecovered, Own, Knows
  <2>2. PICK stem \in StemNames : Writes(p, stem, sid, file)
    BY <1>0, <1>3, <2>1, SessionWritten DEF WriteRecovered
  <2>3. pc[p] # "closing" /\ file \in SessionRecords
    BY <1>3, <2>2 DEF WriteRecovered, Writes
  <2>4. QED
    BY <2>1, <2>2, <2>3
<1>4. CASE CloseLoop(p)
  <2> DEFINE j == job[p]
  <2>1. PICK sid \in FreshSids : WriteSession(p, sid, j.ended, j.ended, {}, j.resolves, FALSE)
    BY <1>4 DEF CloseLoop
  <2> DEFINE file == Contents(p, sid, j.ended, {}, j.resolves, FALSE)
  <2>2. sid \in Sids /\ j.ended \in Nat /\ j.resolves \in SUBSET RefNames
    BY <1>0, ConstantTypes DEF FreshSids, Jobs
  <2>3. PICK stem \in StemNames : Writes(p, stem, sid, file)
    BY <1>0, <2>1, <2>2, SessionWritten
  <2>4. /\ file.generated = FALSE /\ file.resolves = j.resolves /\ file.ended = j.ended
        /\ file \in SessionRecords
    BY <2>3 DEF Contents, Writes
  <2>5. \A s \in Stems : sessions[s].sid # sid
    BY <1>0 DEF FreshSids, TypeOK
  <2>6. QED
    BY <2>2, <2>3, <2>4, <2>5
<1>5. QED
  BY <1>1, <1>2, <1>3, <1>4

LEMMA SessionOwn ==
  ASSUME LedgerInv, NEW p \in Procs,
         WrapSession(p) \/ LoopOpen(p) \/ WriteRecovered(p)
  PROVE  Own(p)' /\ SavedSettled' /\ AckedSettled'
<1>0. OthersSame(p) /\ Own(p) /\ SavedSettled /\ AckedSettled /\ TypeOK
  <2>1. TypeOK
    BY DEF LedgerInv
  <2>2. QED
    BY <2>1, Frames DEF LedgerInv, Own
<1>1. /\ pc[p] \in {"locked", "recovering"} /\ pc'[p] \in {"unstamped", "finished"}
      /\ UNCHANGED <<notes, saved, acked>>
  BY <1>0 DEF WrapSession, LoopOpen, WriteRecovered, Moves, Locked, TypeOK
<1>2. job[p].filed = {}
  BY <1>0, <1>1 DEF Own, Asked
<1>3. PICK stem \in StemNames, sid \in Sids, file \in SessionRecords : Writes(p, stem, sid, file)
  BY Writers
<1>4. /\ job'[p].stem = stem /\ OwnFiles(p)' /\ KeepsSettled /\ WritesFresh(p)
  BY <1>0, <1>1, <1>2, <1>3, WriterHistory
<1>5. Own(p)'
  BY <1>1, <1>4 DEF Own, Asked, Wrote, Knows, Wrapping, OwnFiles
<1>6. QED
  BY <1>0, <1>1, <1>4, <1>5, HistoryStays

\* loop.resolve writes a file that closes what it names.
LEMMA CloseOwn ==
  ASSUME LedgerInv, NEW p \in Procs, CloseLoop(p)
  PROVE  Own(p)' /\ SavedSettled' /\ AckedSettled'
<1>0. OthersSame(p) /\ Own(p) /\ SavedSettled /\ AckedSettled /\ TypeOK /\ Alone
  <2>1. TypeOK
    BY DEF LedgerInv
  <2>2. QED
    BY <2>1, Frames DEF LedgerInv, Own
<1>1. pc[p] = "closing" /\ pc'[p] = "finished" /\ UNCHANGED <<notes, saved>>
  BY <1>0 DEF CloseLoop, Moves, TypeOK
<1>2. job[p].filed = {}
  BY <1>0, <1>1 DEF Own, Asked
<1>3. PICK stem \in StemNames, sid \in Sids, file \in SessionRecords :
        /\ Writes(p, stem, sid, file)
        /\ file.resolves = job[p].resolves /\ file.ended = job[p].ended
        /\ \A s \in Stems : sessions[s].sid # sid
  BY <1>1, Writers
<1>4. OwnFiles(p)' /\ KeepsSettled /\ WritesFresh(p)
  BY <1>0, <1>1, <1>2, <1>3, WriterHistory
<1>5. Own(p)'
  BY <1>1, <1>4 DEF Own, Asked, Wrote, Knows, Wrapping, OwnFiles
<1>6. SavedSettled'
  BY <1>0, <1>1, <1>4, SavedStays DEF SavedSettled
<1>7. \A path : Settled(path)'
  BY <1>0, <1>1, AllSettled DEF Wrapping, Asleep
<1>8. /\ Stems' = Stems \cup {stem} /\ sessions'[stem] = file /\ stem \notin Stems
      /\ \A s \in Stems : sessions'[s] = sessions[s]
      /\ Opened \subseteq Opened' /\ file.sid = sid
  <2>1. stem \notin Stems /\ file.sid = stem.sid /\ file.sid = sid
        /\ sessions' = Put(sessions, stem, file)
    BY <1>3 DEF Writes
  <2>2. QED
    BY <1>0, <2>1, SessionAdded
<1>9. ASSUME NEW ref \in job[p].resolves PROVE Closes(stem, ref)'
  <2>1. ref \in Opened /\ sessions[ref.stem].ended < job[p].ended
    BY <1>0, <1>1 DEF Own, Knows, OpenLoops
  <2>2. ref.stem \in Stems
    BY <2>1 DEF Opened, Ref
  <2>3. QED
    BY <1>3, <1>8, <2>1, <2>2 DEF Closes, Prior
<1>10. ASSUME NEW ref \in acked'
       PROVE  /\ Settled(SessionPath(ref.stem))'
              /\ \E s \in Stems' : Closes(s, ref)' /\ Settled(SessionPath(s))'
  <2>1. CASE ref \in acked
    BY <1>0, <1>4, <2>1, AckedStays
  <2>2. CASE ref \in job[p].resolves
    BY <1>7, <1>8, <1>9, <2>2
  <2>3. QED
    BY <2>1, <2>2 DEF CloseLoop
<1>11. QED
  BY <1>5, <1>6, <1>10 DEF AckedSettled

\* A note is one more file.
LEMMA NoteOwn ==
  ASSUME LedgerInv, NEW p \in Procs, FileNote(p) \/ NoteAdd(p)
  PROVE  Own(p)' /\ SavedSettled' /\ AckedSettled'
<1>0. /\ OthersSame(p) /\ Own(p) /\ SavedSettled /\ AckedSettled /\ TypeOK
      /\ job \in [Procs -> Jobs] /\ pc \in [Procs -> Places]
  <2>1. TypeOK
    BY DEF LedgerInv
  <2>2. QED
    BY <2>1, Frames DEF LedgerInv, Own, TypeOK
<1>1. /\ UNCHANGED <<sessions, saved, acked>> /\ job[p].titles # <<>> /\ WriteNote(p)
      /\ \/ pc[p] = "filing" /\ pc'[p] = "filing"
         \/ pc[p] = "locked" /\ pc'[p] = "finished"
  BY <1>0 DEF FileNote, NoteAdd, Locked, Moves, Own, Asked
<1>2. PICK name \in NoteNames :
        /\ name \notin DOMAIN notes /\ notes' = Put(notes, name, job[p].made)
        /\ job' = [job EXCEPT ![p].titles = Tail(@), ![p].filed = @ \cup {NotePath(name)}]
  BY <1>0, <1>1, NoteWritten
<1>3. /\ DOMAIN notes' = DOMAIN notes \cup {name} /\ notes'[name] = job[p].made
      /\ \A n \in DOMAIN notes : notes'[n] = notes[n]
  BY <1>2 DEF Put
<1>4. job'[p] = [job[p] EXCEPT !.titles = Tail(@), !.filed = @ \cup {NotePath(name)}]
  BY <1>0, <1>2
<1>5. /\ job'[p].stem = job[p].stem /\ job'[p].made = job[p].made
      /\ job'[p].filed = job[p].filed \cup {NotePath(name)}
  <2>1. job[p] \in Jobs
    BY <1>0
  <2>2. QED
    BY <1>4, <2>1 DEF Jobs
<1>6. Files(p)' = Files(p) \cup {NotePath(name)}
  BY <1>5 DEF Files
<1>7. KeepsSettled
  BY <1>1, <1>3 DEF KeepsSettled, Stems
<1>8. WritesFresh(p)
  BY <1>1, <1>2, <1>6 DEF WritesFresh, IsFile, SessionPath, NotePath, Wrapping
<1>9. OwnFiles(p)'
  <2>1. Present(NotePath(name), job[p].made)'
    BY <1>3, <1>5 DEF Present
  <2>2. ASSUME NEW path \in Files(p), pc[p] = "filing" PROVE Present(path, job[p].made)'
    <3>1. Present(path, job[p].made)
      BY <1>0, <2>2 DEF Own, Wrote
    <3>2. QED
      BY <1>1, <1>3, <1>5, <3>1 DEF Present, Stems
  <2>3. CASE pc[p] = "filing"
    BY <1>6, <2>1, <2>2, <2>3 DEF OwnFiles
  <2>4. CASE pc[p] = "locked"
    <3>1. Files(p) = {}
      BY <1>0, <2>4 DEF Own, Asked, Files
    <3>2. QED
      BY <1>6, <2>1, <3>1 DEF OwnFiles
  <2>5. QED
    BY <1>1, <2>3, <2>4
<1>10. Own(p)'
  BY <1>0, <1>1, <1>5, <1>9 DEF Own, Asked, Wrote, Knows, Wrapping, OwnFiles
<1>11. QED
  BY <1>0, <1>1, <1>7, <1>8, <1>10, HistoryStays

\* A roll-back removes what the wrap itself has written.
LEMMA UndoOwn ==
  ASSUME LedgerInv, NEW p \in Procs, StampFails(p) \/ Undo(p)
  PROVE  Own(p)' /\ SavedSettled' /\ AckedSettled'
<1>0. /\ OthersSame(p) /\ Own(p) /\ SavedSettled /\ AckedSettled /\ TypeOK
      /\ job \in [Procs -> Jobs] /\ pc \in [Procs -> Places]
  <2>1. TypeOK
    BY DEF LedgerInv
  <2>2. QED
    BY <2>1, Frames DEF LedgerInv, Own, TypeOK
<1>1. /\ pc[p] \in {"unstamped", "undoing"} /\ pc'[p] \in {"undoing", "failed"}
      /\ pc'[p] = "undoing" => pc[p] = "undoing"
      /\ UNCHANGED <<saved, acked>> /\ job[p].stem \in StemNames
  BY <1>0 DEF StampFails, Undo, Moves, Own, Wrote, Wrapping
<1>2. PICK f \in Files(p) :
        /\ Stems' = {s \in Stems : SessionPath(s) # f}
        /\ \A s \in Stems' : sessions'[s] = sessions[s]
        /\ \A n \in DOMAIN notes : NotePath(n) # f => n \in DOMAIN notes' /\ notes'[n] = notes[n]
  <2>1. CASE StampFails(p)
    <3>1. SessionPath(job[p].stem) \in Files(p)
      BY <1>1, ConstantTypes DEF Files
    <3>2. /\ Stems' = Stems \ {job[p].stem} /\ \A s \in Stems' : sessions'[s] = sessions[s]
          /\ notes' = notes
      BY <2>1 DEF StampFails, Restrict, Stems
    <3>3. QED
      BY <3>1, <3>2 DEF SessionPath
  <2>2. CASE Undo(p)
    <3>1. PICK f \in job[p].undo :
            /\ sessions' = Restrict(sessions, {s \in Stems : SessionPath(s) # f})
            /\ notes' = Restrict(notes, {n \in DOMAIN notes : NotePath(n) # f})
      BY <2>2 DEF Undo
    <3>2. f \in Files(p)
      BY <1>0, <2>2 DEF Undo, Own, Wrote
    <3>3. QED
      BY <3>1, <3>2 DEF Restrict, Stems
  <2>3. QED
    BY <2>1, <2>2
<1>3. ~Settled(f)
  BY <1>1 DEF Settled, Wrapping
<1>4. KeepsSettled
  BY <1>2, <1>3 DEF KeepsSettled
<1>5. pc'[p] = "undoing" => SameFiles(p) /\ job'[p].undo \subseteq job[p].undo
  <2>1. CASE Undo(p)
    <3>1. PICK g : job' = [job EXCEPT ![p].undo = @ \ {g}]
      BY <2>1 DEF Undo
    <3>2. job'[p] = [job[p] EXCEPT !.undo = @ \ {g}]
      BY <1>0, <3>1
    <3>3. job[p] \in Jobs
      BY <1>0
    <3>4. QED
      BY <3>2, <3>3 DEF SameFiles, Jobs
  <2>2. CASE StampFails(p)
    BY <1>0, <2>2 DEF StampFails, Moves
  <2>3. QED
    BY <2>1, <2>2
<1>6. WritesFresh(p)
  BY <1>1, <1>5 DEF WritesFresh, Wrapping, SameFiles, Files
<1>7. Own(p)'
  BY <1>0, <1>1, <1>5 DEF Own, Asked, Wrote, Knows, Wrapping, SameFiles, Files
<1>8. QED
  BY <1>0, <1>1, <1>4, <1>6, <1>7, HistoryStays

----------------------------------------------------------------------------
(* The theorems.                                                            *)

\* The invariant holds of the start.
LEMMA InitInv == Init => LedgerInv
<1> SUFFICES ASSUME Init PROVE LedgerInv
  OBVIOUS
<1>1. TypeOK
  BY InitTypes
<1>2. Alone
  BY DEF Init, Alone, Asleep
<1>3. ASSUME NEW p \in Procs PROVE Asked(p) /\ Wrote(p) /\ Knows(p)
  BY DEF Init, Asked, Wrote, Knows, Wrapping, NoJob
<1>4. SavedSettled /\ AckedSettled
  BY DEF Init, SavedSettled, AckedSettled
<1>5. QED
  BY <1>1, <1>2, <1>3, <1>4 DEF LedgerInv

\* The invariant survives the passing of time.
LEMMA TickInv ==
  ASSUME LedgerInv, UNCHANGED <<sessions, notes, lock, dead, pc, job, acked, saved>>, TypeOK'
  PROVE  LedgerInv'
<1>1. /\ Alone /\ SavedSettled /\ AckedSettled
      /\ \A p \in Procs : Asked(p) /\ Wrote(p) /\ Knows(p)
  BY DEF LedgerInv
<1>2. Alone'
  BY <1>1 DEF Alone
<1>3. ASSUME NEW p \in Procs PROVE Asked(p)' /\ Wrote(p)' /\ Knows(p)'
  BY <1>1 DEF Asked, Wrote, Knows, Files, Present, Recorded, OpenLoops, Opened, Resolved,
              Closes, Prior, Stems
<1>4. \A path : Settled(path)' = Settled(path)
  BY DEF Settled, Files
<1>5. SavedSettled'
  BY <1>1, <1>4 DEF SavedSettled, Present, Stems
<1>6. AckedSettled'
  BY <1>1, <1>4 DEF AckedSettled, Closes, Opened, Prior, Stems
<1>7. QED
  BY <1>2, <1>3, <1>5, <1>6 DEF LedgerInv

\* Every step keeps the invariant.
LEMMA StepInv ==
  ASSUME LedgerInv, [Next]_vars
  PROVE  LedgerInv'
<1>1. CASE UNCHANGED vars
  <2>1. TypeOK'
    BY <1>1 DEF LedgerInv, TypeOK, Stems, vars, fileVars, procVars
  <2>2. UNCHANGED <<sessions, notes, lock, dead, pc, job, acked, saved>>
    BY <1>1 DEF vars, fileVars, procVars
  <2>3. QED
    BY <2>1, <2>2, TickInv
<1>2. CASE Tick
  <2>1. TypeOK'
    BY <1>2, StepTypes DEF Next
  <2>2. UNCHANGED <<sessions, notes, lock, dead, pc, job, acked, saved>>
    BY <1>2 DEF Tick, fileVars
  <2>3. QED
    BY <2>1, <2>2, TickInv
<1>3. ASSUME NEW p \in Procs, Next, OthersSame(p), Own(p)', SavedSettled', AckedSettled',
             UNCHANGED <<sessions, notes>> \/ pc[p] \notin Asleep
      PROVE  LedgerInv'
  <2>1. TypeOK' /\ Alone'
    BY <1>3, StepTypes, StepAlone
  <2>2. \A q \in Procs \ {p} : Own(q)'
    BY <1>3, OthersOwn
  <2>3. QED
    BY <1>3, <2>1, <2>2 DEF LedgerInv, Own
<1>4. ASSUME NEW p \in Procs,
             \/ BeginWrap(p) \/ BeginOpen(p) \/ BeginResolve(p) \/ BeginRecover(p) \/ BeginNote(p)
             \/ Acquire(p) \/ GiveUp(p) \/ Crash(p) \/ Refused(p)
      PROVE  LedgerInv'
  <2>1. UNCHANGED <<sessions, notes>>
    <3>1. CASE \/ BeginWrap(p) \/ BeginOpen(p) \/ BeginResolve(p)
               \/ BeginRecover(p) \/ BeginNote(p)
      <4>1. PICK r \in Jobs : Begin(p, r)
        BY <3>1, Requests DEF LedgerInv
      <4>2. QED
        BY <4>1 DEF Begin, fileVars
    <3>2. CASE Acquire(p) \/ GiveUp(p) \/ Crash(p) \/ Refused(p)
      BY <3>2 DEF Acquire, GiveUp, Crash, Refused, fileVars
    <3>3. QED
      BY <1>4, <3>1, <3>2
  <2>2. OthersSame(p) /\ Next
    BY <1>4, Frames DEF LedgerInv, Next
  <2>3. Own(p)' /\ SavedSettled' /\ AckedSettled'
    BY <1>4, WaitingOwn
  <2>4. QED
    BY <1>3, <2>1, <2>2, <2>3
<1>5. ASSUME NEW p \in Procs,
             \/ Release(p) \/ WrapSession(p) \/ StampBrief(p) \/ StampFails(p) \/ FileNote(p)
             \/ NoteFails(p) \/ RecordGit(p) \/ RecordFails(p) \/ Undo(p) \/ Receipt(p)
             \/ LoopOpen(p) \/ FindLoop(p) \/ CloseLoop(p)
             \/ FindTranscript(p) \/ WriteRecovered(p) \/ NoteAdd(p)
      PROVE  LedgerInv'
  <2>1. pc[p] \notin Asleep
    BY <1>5 DEF Release, WrapSession, StampBrief, StampFails, FileNote, NoteFails, RecordGit,
         RecordFails, Undo, Receipt, LoopOpen, FindLoop, CloseLoop, FindTranscript,
         WriteRecovered, NoteAdd, Locked, Asleep
  <2>2. OthersSame(p) /\ Next
    BY <1>5, Frames DEF LedgerInv, Next
  <2>3. Own(p)' /\ SavedSettled' /\ AckedSettled'
    BY <1>5, ReleaseOwn, ReceiptOwn, WrapOwn, FindOwn, SessionOwn, CloseOwn, NoteOwn, UndoOwn
  <2>4. QED
    BY <1>3, <2>1, <2>2, <2>3
<1>6. QED
  BY <1>1, <1>2, <1>4, <1>5 DEF Next

LEMMA LedgerInvariant == Spec => []LedgerInv
<1>1. Init => LedgerInv
  BY InitInv
<1>2. LedgerInv /\ [Next]_vars => LedgerInv'
  BY StepInv
<1>3. QED
  BY <1>1, <1>2, PTL DEF Spec

\* Every variable keeps a value of its kind.
THEOREM LedgerTypes == Spec => []TypeOK
<1>1. LedgerInv => TypeOK
  BY DEF LedgerInv
<1>2. QED
  BY <1>1, LedgerInvariant, PTL

\* A close that wrap or loop.resolve reported is never lost: no roll-back takes its
\* file or the file of the loop (wrap.ts run, loop-ledger.ts recordLoopResolve).
THEOREM ClosesHold == Spec => []AckedClosesHold
<1>1. LedgerInv => AckedClosesHold
  BY DEF LedgerInv, AckedSettled, AckedClosesHold, Resolved
<1>2. QED
  BY <1>1, LedgerInvariant, PTL

\* A file that a command reported stays, with its contents: names never collide
\* and roll-backs take only files of their own wrap (pickAvailableFilename, wrap.ts run).
THEOREM ReportedFilesStay == Spec => []FilesKept
<1>1. LedgerInv => FilesKept
  BY DEF LedgerInv, SavedSettled, Present, FilesKept
<1>2. QED
  BY <1>1, LedgerInvariant, PTL

\* loop.resolve writes only while what it names is open (findLoopToClose).
THEOREM ResolvesOpenLoops == Spec => OnlyOpenLoopsResolved
<1>1. LedgerInv /\ [Next]_vars =>
        [\A p \in Procs : pc[p] = "closing" /\ pc'[p] = "finished" =>
           job[p].resolves \subseteq OpenLoops]_vars
  BY DEF LedgerInv, Knows
<1>2. QED
  BY <1>1, LedgerInvariant, PTL DEF Spec, OnlyOpenLoopsResolved

\* session.recover never records a session twice (recover-session.ts).
THEOREM RecoversOnce == Spec => RecoveredOnce
<1>1. ASSUME LedgerInv, Next, NEW stem \in Stems' \ Stems, sessions'[stem].generated
      PROVE  ~Recorded(stem.sid)
  <2>1. PICK p \in Procs : WrapSession(p) \/ LoopOpen(p) \/ WriteRecovered(p) \/ CloseLoop(p)
    <3>1. ASSUME NEW p \in Procs, StampFails(p) \/ Undo(p) PROVE Stems' \subseteq Stems
      BY <3>1 DEF StampFails, Undo, Restrict, Stems
    <3>2. ASSUME NEW p \in Procs,
                 \/ BeginWrap(p) \/ BeginOpen(p) \/ BeginResolve(p)
                 \/ BeginRecover(p) \/ BeginNote(p)
          PROVE  Stems' \subseteq Stems
      BY <3>2 DEF BeginWrap, BeginOpen, BeginResolve, BeginRecover, BeginNote, Begin,
                  fileVars, Stems
    <3>3. ASSUME NEW p \in Procs,
                 \/ Acquire(p) \/ GiveUp(p) \/ Crash(p) \/ Release(p) \/ Refused(p)
                 \/ StampBrief(p) \/ FileNote(p) \/ NoteFails(p) \/ RecordGit(p)
                 \/ RecordFails(p) \/ Receipt(p) \/ FindLoop(p) \/ FindTranscript(p) \/ NoteAdd(p)
          PROVE  Stems' \subseteq Stems
      BY <3>3 DEF Acquire, GiveUp, Crash, Release, Refused, StampBrief, FileNote, NoteFails,
                  RecordGit, RecordFails, Receipt, FindLoop, FindTranscript, NoteAdd,
                  fileVars, Stems
    <3>4. Tick => Stems' \subseteq Stems
      BY DEF Tick, fileVars, Stems
    <3>5. QED
      BY <1>1, <3>1, <3>2, <3>3, <3>4 DEF Next
  <2>2. PICK s \in StemNames, sid \in Sids, file \in SessionRecords :
          Writes(p, s, sid, file) /\ (file.generated => ~Recorded(sid))
    BY <1>1, <2>1, Writers
  <2>3. stem = s /\ sessions'[stem] = file /\ stem.sid = sid
    BY <1>1, <2>2 DEF Writes, Put, Stems
  <2>4. QED
    BY <1>1, <2>2, <2>3
<1>2. LedgerInv /\ [Next]_vars =>
        [\A stem \in Stems' \ Stems : sessions'[stem].generated => ~Recorded(stem.sid)]_vars
  BY <1>1
<1>3. QED
  BY <1>2, LedgerInvariant, PTL DEF Spec, RecoveredOnce

\* Sessions never close each other's loops in a circle: of any of them, the one
\* that ended first closes no loop of the rest (open-loops.ts:268).
THEOREM NoClosingCircle == Spec => []NoClosingCycle
<1>1. ASSUME TypeOK, NEW S \in (SUBSET Stems) \ {{}}
      PROVE  \E s \in S : \A ref \in sessions[s].resolves : Closes(s, ref) => ref.stem \notin S
  <2> DEFINE Ends == {sessions[s].ended : s \in S}
  <2>1. \A s \in S : sessions[s].ended \in Nat
    BY <1>1 DEF TypeOK, SessionRecords
  <2>2. Ends \subseteq Nat /\ Ends # {}
    BY <2>1
  <2> HIDE DEF Ends
  <2>3. PICK first \in Ends : \A e \in Ends : first <= e
    BY <2>2, Lowest
  <2>4. PICK s \in S : sessions[s].ended = first
    BY <2>3 DEF Ends
  <2>5. \A t \in S : sessions[s].ended <= sessions[t].ended
    BY <2>3, <2>4 DEF Ends
  <2>6. \A t \in S : ~Prior(t, s)
    BY <2>1, <2>5 DEF Prior
  <2>7. QED
    BY <2>6 DEF Closes
<1>2. TypeOK => NoClosingCycle
  BY <1>1 DEF NoClosingCycle
<1>3. QED
  BY <1>2, LedgerTypes, PTL

----------------------------------------------------------------------------
(* Recursive functions over the subsets of a finite set.                    *)

\* What holds at the start, and from each number to the next, holds up to the last.
LEMMA Upwards ==
  ASSUME NEW N \in Nat, NEW S, 0 \in S, \A n \in 0..(N - 1) : n \in S => n + 1 \in S
  PROVE  0..N \subseteq S
<1> DEFINE bad == {n \in 0..N : n \notin S}
<1>1. SUFFICES ASSUME bad # {} PROVE FALSE
  BY DEF bad
<1>2. PICK n \in bad : \A m \in bad : n <= m
  <2>1. bad \subseteq Nat
    OBVIOUS
  <2> QED
    BY <2>1, <1>1, Lowest
<1>3. n \in 0..N /\ n \notin S /\ n # 0
  BY <1>2
<1>4. n - 1 \in 0..(N - 1) /\ n - 1 \in S
  BY <1>2, <1>3
<1>5. (n - 1) + 1 = n
  BY <1>3
<1> QED
  BY <1>3, <1>4, <1>5

\* Subsets that grow by their last element: what holds of the empty set, and of each
\* set if it holds of the set without its last element, holds of them all.
GoesUp(D, last, Q) ==
  /\ IsFiniteSet(D) /\ \A S \in SUBSET D : S # {} => last[S] \in S
  /\ {} \in Q /\ \A S \in SUBSET D : S # {} /\ S \ {last[S]} \in Q => S \in Q

LEMMA SetsUpwards == ASSUME NEW D, NEW last, NEW Q, GoesUp(D, last, Q) PROVE SUBSET D \subseteq Q
<1> DEFINE N == Cardinality(D)
           Up == {n \in 0..N : \A S \in SUBSET D : Cardinality(S) = n => S \in Q}
<1> USE DEF GoesUp
<1>1. N \in Nat /\ \A S \in SUBSET D : IsFiniteSet(S) /\ Cardinality(S) \in 0..N
  BY FS_CardinalityType, FS_Subset
<1>2. 0 \in Up
  <2>1. ASSUME NEW S \in SUBSET D, Cardinality(S) = 0 PROVE S \in Q
    BY <1>1, <2>1, FS_EmptySet
  <2> QED
    BY <1>1, <2>1
<1>3. ASSUME NEW n \in 0..(N - 1), n \in Up PROVE n + 1 \in Up
  <2>1. ASSUME NEW S \in SUBSET D, Cardinality(S) = n + 1 PROVE S \in Q
    <3>1. S # {}
      BY <1>1, <2>1, FS_EmptySet
    <3>2. last[S] \in S /\ S \ {last[S]} \in SUBSET D
      BY <3>1
    <3>3. Cardinality(S \ {last[S]}) = n
      <4>1. IsFiniteSet(S)
        BY <1>1
      <4>2. Cardinality(S \ {last[S]}) = Cardinality(S) - 1
        BY <3>2, <4>1, FS_RemoveElement
      <4> QED
        BY <4>2, <2>1
    <3>4. S \ {last[S]} \in Q
      BY <3>2, <3>3, <1>3
    <3> QED
      BY <3>1, <3>4
  <2> QED
    BY <1>1, <2>1
<1> HIDE DEF Up
<1>4. 0..N \subseteq Up
  BY <1>1, <1>2, <1>3, Upwards
<1>5. ASSUME NEW S \in SUBSET D PROVE S \in Q
  <2>1. Cardinality(S) \in Up
    BY <1>1, <1>4
  <2> QED
    BY <2>1 DEF Up
<1> QED
  BY <1>5

\* f is b for the empty set, and follows F from the set without its last element.
Passes(f, D, last, b, F) ==
  f[{}] = b /\ \A S \in SUBSET D : S # {} => f[S] = F[last[S]][f[S \ {last[S]}]]

LEMMA PassExists ==
  ASSUME NEW D, IsFiniteSet(D), NEW last, \A S \in SUBSET D : S # {} => last[S] \in S,
         NEW X, NEW b \in X, NEW F \in [D -> [X -> X]]
  PROVE  \E f \in [SUBSET D -> X] : Passes(f, D, last, b, F)
<1> DEFINE N == Cardinality(D)
           Small(n) == {S \in SUBSET D : Cardinality(S) <= n}
           Up == {n \in 0..N : \E f \in [Small(n) -> X] :
                    /\ f[{}] = b
                    /\ \A S \in Small(n) : S # {} => f[S] = F[last[S]][f[S \ {last[S]}]]}
<1>1. /\ N \in Nat /\ Cardinality({}) = 0
      /\ \A S \in SUBSET D : IsFiniteSet(S) /\ Cardinality(S) \in 0..N /\ (Cardinality(S) = 0 => S = {})
  BY FS_CardinalityType, FS_Subset, FS_EmptySet
<1>2. ASSUME NEW S \in SUBSET D, S # {}
      PROVE  last[S] \in S /\ S \ {last[S]} \in SUBSET D /\ Cardinality(S \ {last[S]}) = Cardinality(S) - 1
  BY <1>1, <1>2, FS_RemoveElement
<1>3. 0 \in Up
  <2> DEFINE f == [S \in Small(0) |-> b]
  <2>1. \A S \in Small(0) : S = {}
    BY <1>1
  <2>2. {} \in Small(0)
    BY <1>1
  <2> HIDE DEF Small
  <2>3. f \in [Small(0) -> X] /\ f[{}] = b
    BY <2>2
  <2> QED
    BY <1>1, <2>1, <2>3
<1>4. ASSUME NEW n \in 0..(N - 1), n \in Up PROVE n + 1 \in Up
  <2>1. PICK f \in [Small(n) -> X] :
          f[{}] = b /\ \A S \in Small(n) : S # {} => f[S] = F[last[S]][f[S \ {last[S]}]]
    BY <1>4
  <2>2. /\ {} \in Small(n) /\ Small(n) \subseteq Small(n + 1)
        /\ \A S \in Small(n + 1) : S # {} => S \ {last[S]} \in Small(n) /\ last[S] \in D
    BY <1>1, <1>2
  <2> DEFINE g == [S \in Small(n + 1) |-> IF S \in Small(n) THEN f[S] ELSE F[last[S]][f[S \ {last[S]}]]]
  <2> HIDE DEF Small
  <2>3. ASSUME NEW S \in Small(n + 1), S # {} PROVE F[last[S]][f[S \ {last[S]}]] \in X
    <3>1. f[S \ {last[S]}] \in X /\ F[last[S]] \in [X -> X]
      BY <2>1, <2>2, <2>3
    <3> QED
      BY <3>1
  <2>4. g \in [Small(n + 1) -> X] /\ g[{}] = b
    BY <2>1, <2>2, <2>3
  <2>5. ASSUME NEW S \in Small(n + 1), S # {} PROVE g[S] = F[last[S]][g[S \ {last[S]}]]
    <3>1. g[S \ {last[S]}] = f[S \ {last[S]}]
      BY <2>2, <2>5
    <3> QED
      BY <3>1, <2>1, <2>5
  <2>6. n + 1 \in 0..N
    BY <1>1
  <2> HIDE DEF g
  <2> QED
    BY <2>4, <2>5, <2>6
<1>5. N \in Up
  <2> HIDE DEF Up
  <2>1. 0..N \subseteq Up
    BY <1>1, <1>3, <1>4, Upwards
  <2> QED
    BY <2>1, <1>1
<1>6. Small(N) = SUBSET D
  BY <1>1
<1> QED
  BY <1>5, <1>6 DEF Passes

----------------------------------------------------------------------------
(* The pass over the session files.                                         *)

\* Names of files are in one order.
LEMMA SortsOrder ==
  /\ \A x, y \in StemNames : x = y \/ Sorts(x, y) \/ Sorts(y, x)
  /\ \A x, y, z \in StemNames : Sorts(x, y) /\ Sorts(y, z) => Sorts(x, z)
  /\ \A x \in StemNames : ~Sorts(x, x)
<1>1. \A x \in StemNames : x.minute \in Nat /\ x.sid \in Nat /\ x.nth \in Nat
  BY ConstantTypes DEF StemNames
<1>2. ASSUME NEW x \in StemNames, NEW y \in StemNames, x.minute = y.minute, x.sid = y.sid, x.nth = y.nth
      PROVE  x = y
  BY <1>2 DEF StemNames
<1>3. \A x, y \in StemNames : x = y \/ Sorts(x, y) \/ Sorts(y, x)
  BY <1>1, <1>2 DEF Sorts
<1>4. \A x, y, z \in StemNames : Sorts(x, y) /\ Sorts(y, z) => Sorts(x, z)
  BY <1>1 DEF Sorts
<1>5. \A x \in StemNames : ~Sorts(x, x)
  BY <1>1 DEF Sorts
<1> QED
  BY <1>3, <1>4, <1>5

\* Of finitely many files one is read last.
LEMMA LastFileExists ==
  ASSUME NEW D \in SUBSET StemNames, IsFiniteSet(D), D # {}
  PROVE  LastFile(D) \in D /\ \A t \in D : t = LastFile(D) \/ Sorts(t, LastFile(D))
<1> DEFINE Has(S) == \E s \in S : \A t \in S : t = s \/ Sorts(t, s)
           some == [S \in SUBSET D |-> CHOOSE s \in S : TRUE]
           Q == {S \in SUBSET D : S = {} \/ Has(S)}
<1>1. \A S \in SUBSET D : S # {} => some[S] \in S
  OBVIOUS
<1>2. ASSUME NEW S \in SUBSET D, S # {}, S \ {some[S]} \in Q PROVE S \in Q
  <2> HIDE DEF some
  <2>1. CASE S \ {some[S]} = {}
    <3>1. S = {some[S]}
      BY <2>1, <1>1, <1>2
    <3> QED
      BY <3>1, <1>1, <1>2
  <2>2. CASE Has(S \ {some[S]})
    <3>1. PICK s \in S \ {some[S]} : \A t \in S \ {some[S]} : t = s \/ Sorts(t, s)
      BY <2>2
    <3>2. s \in StemNames /\ some[S] \in StemNames /\ S \subseteq StemNames
      BY <1>1, <1>2
    <3>3. CASE Sorts(some[S], s)
      BY <3>1, <3>3
    <3>4. CASE Sorts(s, some[S])
      <4>1. \A t \in S : t = some[S] \/ Sorts(t, some[S])
        BY <3>1, <3>2, <3>4, SortsOrder
      <4> QED
        BY <4>1, <1>1, <1>2
    <3> QED
      BY <3>1, <3>2, <3>3, <3>4, SortsOrder
  <2> QED
    BY <2>1, <2>2, <1>2
<1> HIDE DEF some
<1>3. {} \in Q
  OBVIOUS
<1>4. SUBSET D \subseteq Q
  <2> HIDE DEF Q
  <2>1. GoesUp(D, some, Q)
    BY <1>1, <1>2, <1>3 DEF GoesUp
  <2> QED
    BY ONLY <2>1, SetsUpwards
<1>5. Has(D)
  BY <1>4
<1> QED
  BY <1>5 DEF LastFile

\* The file that closes ref once the files of D have been read.
ClosesLast(s, ref, D) ==
  IF \E t \in D : Closes(t, ref)
  THEN /\ s \in D /\ Closes(s, ref)
       /\ \A t \in D : Closes(t, ref) /\ t # s =>
            \/ sessions[t].ended < sessions[s].ended
            \/ sessions[t].ended = sessions[s].ended /\ Sorts(t, s)
  ELSE s = AnyStem

\* One more file is read, which sorts after the others.
LEMMA OneMoreRead ==
  ASSUME TypeOK, NEW ref, NEW D \in SUBSET Stems, NEW s \in D, \A t \in D : t = s \/ Sorts(t, s),
         NEW before, ClosesLast(before, ref, D \ {s})
  PROVE  ClosesLast(IF Closes(s, ref) /\ (before = AnyStem \/ Supersedes(s, before)) THEN s ELSE before, ref, D)
<1> DEFINE rest == D \ {s}
<1>1. \A t \in D : t \in StemNames /\ t # AnyStem /\ sessions[t].ended \in Nat
  BY ConstantTypes DEF TypeOK, SessionRecords
<1>2. CASE ~Closes(s, ref)
  BY <1>2 DEF ClosesLast
<1>3. CASE Closes(s, ref) /\ before = AnyStem
  <2>1. ~\E t \in rest : Closes(t, ref)
    BY <1>1, <1>3 DEF ClosesLast
  <2> QED
    BY <1>3, <2>1 DEF ClosesLast
<1>4. CASE Closes(s, ref) /\ before # AnyStem
  <2>1. /\ before \in rest /\ Closes(before, ref)
        /\ \A t \in rest : Closes(t, ref) /\ t # before =>
             \/ sessions[t].ended < sessions[before].ended
             \/ sessions[t].ended = sessions[before].ended /\ Sorts(t, before)
    BY <1>4 DEF ClosesLast
  <2>2. sessions[s].ended \in Nat /\ sessions[before].ended \in Nat /\ \A t \in rest : sessions[t].ended \in Nat /\ Sorts(t, s)
    BY <1>1, <2>1
  <2>3. CASE Supersedes(s, before)
    <3>1. sessions[before].ended <= sessions[s].ended
      BY <2>2, <2>3 DEF Supersedes
    <3>2. \A t \in rest : Closes(t, ref) => \/ sessions[t].ended < sessions[s].ended
                                            \/ sessions[t].ended = sessions[s].ended /\ Sorts(t, s)
      BY <2>1, <2>2, <3>1
    <3> QED
      BY <1>4, <2>3, <3>2 DEF ClosesLast
  <2>4. CASE ~Supersedes(s, before)
    <3>1. sessions[s].ended < sessions[before].ended
      BY <2>2, <2>4 DEF Supersedes
    <3> QED
      BY <1>4, <2>1, <2>4, <3>1 DEF ClosesLast
  <2> QED
    BY <2>3, <2>4
<1> QED
  BY <1>2, <1>3, <1>4

LEMMA ClosedByIsLast ==
  ASSUME TypeOK, IsFiniteSet(Stems), NEW ref
  PROVE  ClosesLast(ClosedBy(ref), ref, Stems)
<1> DEFINE D == Stems
           X == StemNames \cup {AnyStem}
           last == [S \in SUBSET D |-> LastFile(S)]
           Read(s, before) == IF Closes(s, ref) /\ (before = AnyStem \/ Supersedes(s, before)) THEN s ELSE before
           F == [s \in D |-> [before \in X |-> Read(s, before)]]
           is(f) == f = [S \in SUBSET Stems |->
                           IF S = {} THEN AnyStem
                           ELSE LET s == LastFile(S)
                                    before == f[S \ {s}]
                                IN  IF Closes(s, ref) /\ (before = AnyStem \/ Supersedes(s, before)) THEN s ELSE before]
<1>1. D \in SUBSET StemNames /\ IsFiniteSet(D)
  BY DEF TypeOK
<1>2. ASSUME NEW S \in SUBSET D, S # {}
      PROVE  /\ last[S] = LastFile(S) /\ LastFile(S) \in S /\ S \ {LastFile(S)} \in SUBSET D
             /\ \A t \in S : t = LastFile(S) \/ Sorts(t, LastFile(S))
  <2>1. S \in SUBSET StemNames /\ IsFiniteSet(S)
    BY <1>1, FS_Subset
  <2>2. LastFile(S) \in S /\ \A t \in S : t = LastFile(S) \/ Sorts(t, LastFile(S))
    BY <1>2, <2>1, LastFileExists
  <2> QED
    BY <2>2
<1> HIDE DEF last
<1>3. AnyStem \in X /\ F \in [D -> [X -> X]]
  BY <1>1
<1>4. PICK f \in [SUBSET D -> X] : Passes(f, D, last, AnyStem, F)
  <2> HIDE DEF D, X, F
  <2>1. \A S \in SUBSET D : S # {} => last[S] \in S
    BY <1>2
  <2> QED
    BY <1>1, <1>3, <2>1, PassExists
<1>5. ASSUME NEW S \in SUBSET D, S # {} PROVE f[S] = Read(LastFile(S), f[S \ {LastFile(S)}])
  <2>1. f[S] = F[LastFile(S)][f[S \ {LastFile(S)}]]
    BY <1>2, <1>4, <1>5 DEF Passes
  <2>2. LastFile(S) \in D /\ f[S \ {LastFile(S)}] \in X
    BY <1>2, <1>4, <1>5
  <2> QED
    BY <2>1, <2>2
<1>6. is(f)
  <2>1. f[{}] = AnyStem
    BY <1>4 DEF Passes
  <2> QED
    BY <1>4, <1>5, <2>1
<1> DEFINE r == CHOOSE g : is(g)
<1>7. is(r)
  BY <1>6
<1>8. ClosedBy(ref) = r[Stems]
  BY DEF ClosedBy
<1>9. r[{}] = AnyStem /\ \A S \in SUBSET D : S # {} => r[S] = Read(LastFile(S), r[S \ {LastFile(S)}])
  <2> HIDE DEF r
  <2> QED
    BY <1>7
<1> HIDE DEF r, F
<1> DEFINE Q == {S \in SUBSET D : ClosesLast(r[S], ref, S)}
<1>10. {} \in Q
  BY <1>9 DEF ClosesLast
<1>11. ASSUME NEW S \in SUBSET D, S # {}, S \ {last[S]} \in Q PROVE S \in Q
  <2>1. ClosesLast(r[S \ {LastFile(S)}], ref, S \ {LastFile(S)})
    BY <1>2, <1>11
  <2>2. ClosesLast(Read(LastFile(S), r[S \ {LastFile(S)}]), ref, S)
    <3>1. LastFile(S) \in S /\ S \in SUBSET Stems /\ \A t \in S : t = LastFile(S) \/ Sorts(t, LastFile(S))
      BY <1>2, <1>11
    <3> QED
      BY <2>1, <3>1, OneMoreRead
  <2> QED
    BY <1>9, <1>11, <2>2
<1>12. SUBSET D \subseteq Q
  <2> HIDE DEF Q, D
  <2>1. \A S \in SUBSET D : S # {} => last[S] \in S
    BY <1>2
  <2>2. \A S \in SUBSET D : S # {} /\ S \ {last[S]} \in Q => S \in Q
    BY <1>11
  <2>3. IsFiniteSet(D)
    BY <1>1
  <2>4. GoesUp(D, last, Q)
    BY <1>10, <2>1, <2>2, <2>3 DEF GoesUp
  <2> QED
    BY ONLY <2>4, SetsUpwards
<1> QED
  BY <1>8, <1>12

\* There are finitely many files.
LEMMA FinitelyMany == Spec => []IsFiniteSet(Stems)
<1>1. Init => IsFiniteSet(Stems)
  BY FS_EmptySet DEF Init, Stems
<1>2. IsFiniteSet(Stems) /\ [Next]_vars => IsFiniteSet(Stems)'
  <2> SUFFICES ASSUME IsFiniteSet(Stems), [Next]_vars PROVE IsFiniteSet(Stems)'
    OBVIOUS
  <2>1. Stems' \subseteq Stems \/ \E x : Stems' = Stems \cup {x}
    <3>1. CASE UNCHANGED sessions
      BY <3>1 DEF Stems
    <3>2. ASSUME NEW S, sessions' = Restrict(sessions, S), S \subseteq Stems PROVE Stems' \subseteq Stems
      BY <3>2 DEF Stems, Restrict
    <3>3. ASSUME NEW x, NEW y, sessions' = Put(sessions, x, y) PROVE Stems' = Stems \cup {x}
      BY <3>3 DEF Stems, Put
    <3>4. \A p, sid, started, ended, opens, resolves, generated :
            WriteSession(p, sid, started, ended, opens, resolves, generated) => \E x : Stems' = Stems \cup {x}
      BY <3>3 DEF WriteSession
    <3>5. ASSUME NEW p \in Procs, StampFails(p) \/ Undo(p) PROVE Stems' \subseteq Stems
      BY <3>2, <3>5 DEF StampFails, Undo
    <3>6. ASSUME NEW p \in Procs, WrapSession(p) \/ LoopOpen(p) \/ CloseLoop(p) \/ WriteRecovered(p)
          PROVE  \E x : Stems' = Stems \cup {x}
      BY <3>4, <3>6 DEF WrapSession, LoopOpen, CloseLoop, WriteRecovered
    <3>7. ASSUME NEW p \in Procs,
                 \/ BeginWrap(p) \/ BeginOpen(p) \/ BeginResolve(p) \/ BeginRecover(p) \/ BeginNote(p)
                 \/ Acquire(p) \/ GiveUp(p) \/ Crash(p) \/ Release(p) \/ Refused(p)
                 \/ StampBrief(p) \/ FileNote(p) \/ NoteFails(p)
                 \/ RecordGit(p) \/ RecordFails(p) \/ Receipt(p)
                 \/ FindLoop(p) \/ FindTranscript(p) \/ NoteAdd(p)
          PROVE  UNCHANGED sessions
      <4>1. \A request : Begin(p, request) => UNCHANGED sessions
        BY DEF Begin, fileVars
      <4>2. CASE BeginWrap(p) \/ BeginOpen(p) \/ BeginResolve(p) \/ BeginRecover(p) \/ BeginNote(p)
        BY ONLY <4>1, <4>2 DEF BeginWrap, BeginOpen, BeginResolve, BeginRecover, BeginNote
      <4>3. CASE Acquire(p) \/ GiveUp(p) \/ Crash(p) \/ Release(p) \/ Refused(p)
        BY ONLY <4>3 DEF Acquire, GiveUp, Crash, Release, Refused, fileVars
      <4>4. CASE StampBrief(p) \/ FileNote(p) \/ NoteFails(p) \/ RecordGit(p) \/ RecordFails(p) \/ Receipt(p)
        BY ONLY <4>4 DEF StampBrief, FileNote, NoteFails, RecordGit, RecordFails, Receipt, fileVars
      <4>5. CASE FindLoop(p) \/ FindTranscript(p) \/ NoteAdd(p)
        BY ONLY <4>5 DEF FindLoop, FindTranscript, NoteAdd, fileVars
      <4> QED
        BY <3>7, <4>2, <4>3, <4>4, <4>5
    <3>8. CASE Tick \/ UNCHANGED vars
      BY <3>1, <3>8 DEF Tick, vars, fileVars
    <3> QED
      BY <3>1, <3>5, <3>6, <3>7, <3>8 DEF Next
  <2> QED
    BY <2>1, FS_Subset, FS_AddElement
<1> QED
  BY <1>1, <1>2, PTL DEF Spec

\* The one pass over the files, in the order of their names, finds the session that ended
\* last of those that close a loop, and of several at one instant the one whose file sorts
\* last; no pass finds a closer where there is none (classifyResolve, applyResolves).
THEOREM ResolutionsAreLatest == Spec => []ResolutionIsLatest
<1>1. TypeOK /\ IsFiniteSet(Stems) => ResolutionIsLatest
  <2> SUFFICES ASSUME TypeOK, IsFiniteSet(Stems), NEW ref \in Opened PROVE ClosesLast(ClosedBy(ref), ref, Stems)
    BY DEF ResolutionIsLatest, ClosesLast, Resolved
  <2> QED
    BY ClosedByIsLast
<1> QED
  BY <1>1, LedgerTypes, FinitelyMany, PTL

\* Both halves together: the derivation of the ledger is sound in every state that the
\* commands reach (open-loops.ts deriveLedger).
THEOREM ResolutionsAreSound == Spec => []ResolutionSound
  BY ResolutionsAreLatest, NoClosingCircle, PTL DEF ResolutionSound

=============================================================================
