---------------------------- MODULE PromptProofs ----------------------------
(***************************************************************************)
(* Two that tell a session how things are while they change.               *)
(*                                                                         *)
(* Session leases, for every set of lease files and readers: the types,    *)
(* that a session that runs keeps its lease, and that readers see it.      *)
(*                                                                         *)
(* The prompt is honest about loops and branches: what was so all the time *)
(* it was put together is in it.  The files that show it are listed when   *)
(* their directory is, and from then on are held, read or counted as bad;  *)
(* what a list of pull requests says was so when it was asked for.  And it *)
(* shares its lines out honestly: while the rounds go on, each loop has had*)
(* a line for each round or has none left to take, and what was spent      *)
(* covers every line in whichever lists it stands.                         *)
(***************************************************************************)
EXTENDS Leases, Bootstrap, TLAPS, FiniteSetTheorems, WellFoundedInduction, SequenceTheorems

Scans == [on : BOOLEAN, todo : SUBSET Leases, aged : SUBSET Leases,
          own : Leases \cup {NoLease}, found : SUBSET Leases,
          doomed : Leases \cup {NoLease}, there : SUBSET Leases,
          failed : SUBSET {"list", "unlink"}]

----------------------------------------------------------------------------
(* Types.                                                                  *)

LEMMA InitTypes == Init => TypeOK
  BY DEF Init, TypeOK, Resting

\* Each step of a process that holds a lease, and of the world, keeps the types.
LEMMA HolderTypes ==
  ASSUME TypeOK, NEW l \in Leases,
         \/ \E m \in {"launcher", "oneshot"} : Acquire(l, m)
         \/ Fill(l) \/ FillFails(l) \/ Launch(l) \/ ChildExits(l)
         \/ Ends(l) \/ Signalled(l) \/ Dies(l) \/ Ages(l) \/ Recycled(l)
  PROVE  TypeOK'
<1>1. ASSUME NEW m \in {"launcher", "oneshot"}, Acquire(l, m) PROVE TypeOK'
  BY <1>1 DEF TypeOK, Acquire, Resting
<1>2. CASE Fill(l)
  <2>1. file' \in [Leases -> {"none", "torn", "whole"}]
    BY <1>2 DEF TypeOK, Fill, Gone
  <2>2. sess' \in [Leases -> {"idle", "creating", "written", "running", "ending",
                              "unleased", "gone"}]
    BY <1>2 DEF TypeOK, Fill, Gone
  <2>3. pid' \in [Leases -> {"own", "nobody", "other", "same"}]
    BY <1>2 DEF TypeOK, Fill, Gone
  <2>4. UNCHANGED <<mode, named, old, scan>> /\ blame' \subseteq blame
    BY <1>2 DEF Fill, Gone
  <2>5. QED  BY <2>1, <2>2, <2>3, <2>4 DEF TypeOK, Resting
<1>3. CASE FillFails(l) \/ Launch(l) \/ ChildExits(l)
  <2>1. /\ \E place \in {"unleased", "running", "ending"} : sess' = [sess EXCEPT ![l] = place]
        /\ UNCHANGED <<file, mode, named, old, pid, scan, blame>>
    BY <1>3 DEF FillFails, Launch, ChildExits
  <2>2. QED  BY <2>1 DEF TypeOK, Resting
<1>4. CASE Ends(l) \/ Signalled(l) \/ Dies(l)
  <2>1. file' \in [Leases -> {"none", "torn", "whole"}]
    BY <1>4 DEF TypeOK, Ends, Signalled, Dies, Released
  <2>2. Gone(l)
    BY <1>4 DEF Ends, Signalled, Dies
  <2>3. QED  BY <2>1, <2>2 DEF TypeOK, Gone, Resting
<1>5. CASE Ages(l) \/ Recycled(l)
  <2>1. pid' \in [Leases -> {"own", "nobody", "other", "same"}]
    BY <1>5 DEF TypeOK, Ages, Recycled
  <2>2. QED  BY <1>5, <2>1 DEF TypeOK, Ages, Recycled, Resting
<1>6. QED  BY <1>1, <1>2, <1>3, <1>4, <1>5

\* Each step of a reader keeps the types.
LEMMA ReaderTypes ==
  ASSUME TypeOK, NEW r \in Readers,
         \/ \E own \in Leases \cup {NoLease} : Lists(r, own)
         \/ ReaderStep(r)
  PROVE  TypeOK'
<1>1. ASSUME NEW own \in Leases \cup {NoLease}, Lists(r, own) PROVE TypeOK'
  <2>0. PICK failed \in SUBSET {"list"} :
          scan' = [scan EXCEPT ![r] =
            [on |-> TRUE, todo |-> {l \in Leases : file[l] # "none" /\ failed = {}},
             aged |-> {l \in Leases : old[l]}, own |-> own, found |-> {},
             doomed |-> NoLease, there |-> Running, failed |-> failed]]
    BY <1>1 DEF Lists
  <2>1. scan'[r] \in Scans /\ scan'[r].on
    BY <1>1, <2>0 DEF TypeOK, Scans, Running
  <2>2. scan' = [scan EXCEPT ![r] = scan'[r]]
    BY <2>0 DEF TypeOK
  <2>3. UNCHANGED <<sess, file, mode, named, old, pid, blame>>
    BY <1>1 DEF Lists
  <2>4. QED  BY <2>1, <2>2, <2>3 DEF TypeOK, Scans, Resting
<1>2. ASSUME NEW l \in Leases, Reads(r, l) PROVE TypeOK'
  <2> PICK read \in BOOLEAN, probed \in BOOLEAN : Judges(r, l, read, probed)
    BY <1>2 DEF Reads
  <2>0. scan[r] \in Scans /\ scan[r].on /\ AfterOwn(r) \in SUBSET Leases
    BY <1>2 DEF TypeOK, Reads, Scans, AfterOwn
  <2>1. scan'[r] \in Scans /\ scan'[r].on
    <3>1. \E doomed \in Leases \cup {NoLease}, found \in SUBSET Leases :
            scan'[r] = [scan[r] EXCEPT !.todo = scan[r].todo \ {l}, !.doomed = doomed, !.found = found]
      <4>1. scan[r].doomed \in Leases \cup {NoLease} /\ scan[r].found \in SUBSET Leases
        BY <2>0 DEF Scans
      <4>2. \E doomed \in {scan[r].doomed, l}, found \in {scan[r].found, AfterOwn(r), scan[r].found \cup {l}} :
              scan'[r] = [scan[r] EXCEPT !.todo = scan[r].todo \ {l}, !.doomed = doomed, !.found = found]
        BY DEF TypeOK, Judges
      <4>3. PICK doomed \in {scan[r].doomed, l}, found \in {scan[r].found, AfterOwn(r), scan[r].found \cup {l}} :
              scan'[r] = [scan[r] EXCEPT !.todo = scan[r].todo \ {l}, !.doomed = doomed, !.found = found]
        BY <4>2
      <4>4. doomed \in Leases \cup {NoLease} /\ found \in SUBSET Leases
        BY <2>0, <4>1
      <4>5. QED  BY <4>3, <4>4
    <3>2. PICK doomed \in Leases \cup {NoLease}, found \in SUBSET Leases :
            scan'[r] = [scan[r] EXCEPT !.todo = scan[r].todo \ {l}, !.doomed = doomed, !.found = found]
      BY <3>1
    <3>3. scan[r].todo \ {l} \in SUBSET Leases
      BY <2>0 DEF Scans
    <3>4. \A s \in Scans, todo \in SUBSET Leases :
            LET t == [s EXCEPT !.todo = todo, !.doomed = doomed, !.found = found] IN t \in Scans /\ t.on = s.on
      BY ONLY <3>2 DEF Scans
    <3>5. QED  BY <2>0, <3>2, <3>3, <3>4
  <2>2. scan' = [scan EXCEPT ![r] = scan'[r]]
    BY DEF TypeOK, Judges
  <2>3. blame' \subseteq Leases
    BY DEF TypeOK, Judges
  <2>4. UNCHANGED <<sess, file, mode, named, old, pid>>
    BY <1>2 DEF Reads
  <2>5. QED  BY <2>1, <2>2, <2>3, <2>4 DEF TypeOK, Scans, Resting
<1>3. CASE Unlinks(r)
  <2>0. scan[r] \in Scans /\ (~scan[r].on => scan[r].doomed = NoLease)
    BY DEF TypeOK, Scans, Resting
  <2>1. scan[r].doomed # NoLease
    BY <1>3 DEF Unlinks
  <2>2. scan[r].on
    BY <2>0, <2>1
  <2>p. PICK failed \in SUBSET {"unlink"} :
          /\ file' = [file EXCEPT ![scan[r].doomed] = IF failed = {} THEN "none" ELSE @]
          /\ scan' = [scan EXCEPT ![r].doomed = NoLease, ![r].failed = @ \cup failed]
    BY <1>3 DEF Unlinks
  <2>3. scan'[r] \in Scans /\ scan'[r].on
    <3>1. scan'[r] = [scan[r] EXCEPT !.doomed = NoLease, !.failed = scan[r].failed \cup failed]
      BY <2>0, <2>p DEF TypeOK, Scans
    <3>2. scan[r].failed \cup failed \in SUBSET {"list", "unlink"}
      BY <2>0 DEF Scans
    <3>3. \A s \in Scans, u \in SUBSET {"list", "unlink"} :
            /\ [s EXCEPT !.doomed = NoLease, !.failed = u] \in Scans
            /\ [s EXCEPT !.doomed = NoLease, !.failed = u].on = s.on
      BY DEF Scans
    <3>4. /\ [scan[r] EXCEPT !.doomed = NoLease, !.failed = scan[r].failed \cup failed] \in Scans
          /\ [scan[r] EXCEPT !.doomed = NoLease, !.failed = scan[r].failed \cup failed].on
               = scan[r].on
      BY <2>0, <3>2, <3>3
    <3>5. QED  BY <2>2, <3>1, <3>4
  <2>4. scan' = [scan EXCEPT ![r] = scan'[r]]
    BY <2>p DEF TypeOK
  <2>5. file' \in [Leases -> {"none", "torn", "whole"}]
    BY <2>p DEF TypeOK
  <2>6. UNCHANGED <<sess, mode, named, old, pid, blame>>
    BY <1>3 DEF Unlinks
  <2>7. QED  BY <2>3, <2>4, <2>5, <2>6 DEF TypeOK, Scans, Resting
<1>4. CASE Reports(r)
  BY <1>4 DEF TypeOK, Reports, Resting
<1>5. QED  BY <1>1, <1>2, <1>3, <1>4 DEF ReaderStep

LEMMA NextTypes == TypeOK /\ [Next]_vars => TypeOK'
<1> SUFFICES ASSUME TypeOK, [Next]_vars PROVE TypeOK'
  OBVIOUS
<1>1. CASE Next
  BY <1>1, HolderTypes, ReaderTypes DEF Next
<1>2. CASE UNCHANGED vars
  BY <1>2 DEF TypeOK, vars, Resting
<1>3. QED  BY <1>1, <1>2

\* Every variable of the lease protocol always holds a value of its kind, and a
\* reader at rest holds nothing over from its last scan (readLiveLeases).
THEOREM LeaseTypes == Spec => []TypeOK
<1>1. QED  BY InitTypes, NextTypes, PTL DEF Spec

----------------------------------------------------------------------------
(* The invariant behind LiveLeaseKept.                                     *)

\* A process that has not begun has no file, and no reader knows of one.
Untouched(l) ==
  sess[l] = "idle" =>
    /\ file[l] = "none" /\ l \notin blame /\ ~old[l]
    /\ \A r \in Readers : scan[r].doomed # l /\ l \notin scan[r].todo

\* A process that has not ended has its process id, and only aw goes on after
\* the lease is written.
OwnProcess(l) ==
  /\ sess[l] # "gone" => pid[l] = "own"
  /\ sess[l] \in {"written", "running"} => mode[l] = "launcher"

\* As long as no reader mistook it, a lease is torn until it is written, and
\* whole until it is too old.
Intact(l) ==
  l \notin blame =>
    /\ sess[l] = "creating" => file[l] = "torn"
    /\ sess[l] \in {"written", "running"} /\ ~old[l] => file[l] = "whole"

\* A reader is about to unlink the lease of a live session only if it mistook the
\* lease or the lease is too old.
DoomedRightly(l) ==
  \A r \in Readers :
    /\ scan[r].doomed = l /\ sess[l] \in {"creating", "written", "running"}
         => l \in blame \/ old[l]
    /\ l \in scan[r].aged => old[l]

\* Only a session that was launched grows old.
AgesLate(l) == sess[l] \in {"creating", "written"} => ~old[l]

Rightful(l) ==
  Untouched(l) /\ OwnProcess(l) /\ Intact(l) /\ DoomedRightly(l) /\ AgesLate(l)

LInv == TypeOK /\ \A l \in Leases : Rightful(l)

LEMMA InitRightful == Init => LInv
<1> SUFFICES ASSUME Init PROVE LInv
  OBVIOUS
<1>1. TypeOK
  BY InitTypes
<1>2. ASSUME NEW l \in Leases PROVE Rightful(l)
  <2>1. l # NoLease
    BY LeaseAssumption
  <2>2. QED  BY <2>1 DEF Init, Resting, Rightful, Untouched, OwnProcess, Intact,
                         DoomedRightly, AgesLate
<1>3. QED  BY <1>1, <1>2 DEF LInv

\* A step of one lease's process leaves the facts about the other leases alone.
LEMMA OthersRightful ==
  ASSUME LInv, NEW l \in Leases, NEW m \in Leases, m # l, UNCHANGED scan,
         m \in blame' <=> m \in blame, sess'[m] = sess[m], file'[m] = file[m], mode'[m] = mode[m],
         old'[m] = old[m], pid'[m] = pid[m]
  PROVE  Rightful(m)'
  BY DEF LInv, Rightful, Untouched, OwnProcess, Intact, DoomedRightly, AgesLate

\* No process and no passing of time takes a file from a live session, but that
\* session's own end.
LEMMA HolderRightful ==
  ASSUME LInv, NEW l \in Leases,
         \/ \E m \in {"launcher", "oneshot"} : Acquire(l, m)
         \/ Fill(l) \/ FillFails(l) \/ Launch(l) \/ ChildExits(l)
         \/ Ends(l) \/ Signalled(l) \/ Dies(l) \/ Ages(l) \/ Recycled(l)
  PROVE  \A m \in Leases : Rightful(m)'
<1> USE DEF LInv
<1>1. ASSUME NEW m \in Leases, m # l PROVE Rightful(m)'
  <2>1. UNCHANGED scan /\ (m \in blame' <=> m \in blame)
    BY <1>1 DEF Acquire, Fill, FillFails, Launch, ChildExits, Ends, Signalled, Dies, Gone,
           Ages, Recycled
  <2>2. sess'[m] = sess[m] /\ file'[m] = file[m] /\ mode'[m] = mode[m]
    BY <1>1 DEF TypeOK, Acquire, Fill, FillFails, Launch, ChildExits, Ends, Signalled,
                Dies, Gone, Released, Ages, Recycled
  <2>3. old'[m] = old[m] /\ pid'[m] = pid[m]
    BY <1>1 DEF TypeOK, Acquire, Fill, FillFails, Launch, ChildExits, Ends, Signalled,
                Dies, Gone, Ages, Recycled
  <2>4. QED  BY <1>1, <2>1, <2>2, <2>3, OthersRightful
<1> USE DEF Rightful, Untouched, OwnProcess, Intact, DoomedRightly, AgesLate
<1>2. ASSUME NEW m \in {"launcher", "oneshot"}, Acquire(l, m) PROVE Rightful(l)'
  BY <1>2 DEF TypeOK, Acquire
<1>3. CASE Fill(l)
  BY <1>3 DEF TypeOK, Fill, Gone
<1>4. CASE FillFails(l) \/ Launch(l) \/ ChildExits(l)
  BY <1>4 DEF TypeOK, FillFails, Launch, ChildExits
<1>5. CASE Ends(l) \/ Signalled(l) \/ Dies(l)
  <2>1. sess'[l] = "gone" /\ UNCHANGED <<old, scan>>
    BY <1>5 DEF TypeOK, Ends, Signalled, Dies, Gone
  <2>2. Rightful(l)'
    BY <2>1
  <2>3. QED  BY <1>1, <2>2
<1>6. CASE Ages(l) \/ Recycled(l)
  BY <1>6 DEF TypeOK, Ages, Recycled
<1>7. QED  BY <1>1, <1>2, <1>3, <1>4, <1>5, <1>6

\* A reader that judges an intact lease of a live session finds it live, or cannot
\* look up the name and is blamed.
LEMMA JudgedRightly ==
  ASSUME LInv, NEW r \in Readers, NEW l \in Leases, NEW read \in BOOLEAN, NEW probed \in BOOLEAN,
         Judges(r, l, read, probed), sess[l] \in {"creating", "written", "running"},
         l \notin blame', scan'[r].doomed = l, scan[r].doomed = NoLease
  PROVE  old[l]
<1> DEFINE live == read /\ file[l] = "whole" /\ LooksLive(l, scan[r].aged, probed)
<1>1. l \notin blame /\ ~Mistakes(l, live, read, probed)
  <2> HIDE DEF live
  <2>1. blame' = IF Mistakes(l, live, read, probed) THEN blame \cup {l} ELSE blame
    BY DEF Judges, live
  <2>2. QED  BY <2>1
<1>2. l # NoLease
  BY LeaseAssumption
<1>3. ~live
  BY <1>2 DEF LInv, TypeOK, Judges
<1>4. file[l] # "torn" /\ read /\ probed
  <2> HIDE DEF live
  <2>1. QED  BY <1>1, <1>3 DEF Mistakes
<1>5. CASE old[l]
  BY <1>5
<1>6. CASE ~old[l]
  <2>1. sess[l] \in {"written", "running"} /\ file[l] = "whole"
    BY <1>1, <1>4, <1>6 DEF LInv, Rightful, Intact
  <2>2. mode[l] = "launcher" /\ pid[l] = "own"
    BY <2>1 DEF LInv, Rightful, OwnProcess
  <2>3. l \notin scan[r].aged
    BY <1>6 DEF LInv, Rightful, DoomedRightly
  <2>4. LooksLive(l, scan[r].aged, probed)
    BY <1>4, <2>1, <2>2, <2>3 DEF LooksLive
  <2>5. QED  BY <1>3, <1>4, <2>1, <2>4
<1>7. QED  BY <1>5, <1>6

LEMMA ReaderRightful ==
  ASSUME LInv, NEW r \in Readers,
         \/ \E own \in Leases \cup {NoLease} : Lists(r, own)
         \/ ReaderStep(r)
  PROVE  \A m \in Leases : Rightful(m)'
<1> SUFFICES ASSUME NEW m \in Leases PROVE Rightful(m)'
  OBVIOUS
<1>0. m # NoLease
  BY LeaseAssumption
<1>1. ASSUME NEW own \in Leases \cup {NoLease}, Lists(r, own) PROVE Rightful(m)'
  BY <1>0, <1>1 DEF LInv, TypeOK, Lists, Rightful, Untouched, OwnProcess, Intact,
                    DoomedRightly, AgesLate
<1>2. ASSUME NEW l \in Leases, Reads(r, l) PROVE Rightful(m)'
  <2> PICK read \in BOOLEAN, probed \in BOOLEAN : Judges(r, l, read, probed)
    BY <1>2 DEF Reads
  <2>1. UNCHANGED <<sess, file, mode, old, pid>> /\ scan[r].doomed = NoLease
    BY <1>2 DEF Reads
  <2>2. blame \subseteq blame'
    BY DEF LInv, TypeOK, Judges
  <2>3. \A q \in Readers : scan'[q].aged = scan[q].aged /\ scan'[q].todo \subseteq scan[q].todo
    <3>1. ASSUME NEW q \in Readers, q # r PROVE scan'[q] = scan[q]
      BY <3>1 DEF LInv, TypeOK, Judges
    <3>2. scan'[r].aged = scan[r].aged /\ scan'[r].todo = scan[r].todo \ {l}
      BY DEF LInv, TypeOK, Judges
    <3>3. QED  BY <3>1, <3>2
  <2>4. \A q \in Readers : scan'[q].doomed = m => scan[q].doomed = m \/ (q = r /\ l = m)
    <3>1. ASSUME NEW q \in Readers, q # r PROVE scan'[q] = scan[q]
      BY <3>1 DEF LInv, TypeOK, Judges
    <3>2. scan'[r].doomed \in {scan[r].doomed, l}
      BY DEF LInv, TypeOK, Judges
    <3>3. QED  BY <3>1, <3>2
  <2>5. Untouched(m)'
    <3>1. SUFFICES ASSUME sess[m] = "idle"
                   PROVE  /\ file[m] = "none" /\ m \notin blame' /\ ~old[m]
                          /\ \A q \in Readers : scan'[q].doomed # m /\ m \notin scan'[q].todo
      BY <2>1 DEF Untouched
    <3>2. l # m
      BY <1>2, <3>1 DEF LInv, Rightful, Untouched, Reads
    <3>3. m \in blame' <=> m \in blame
      BY <3>2 DEF LInv, TypeOK, Judges
    <3>4. QED  BY <2>3, <2>4, <3>1, <3>2, <3>3 DEF LInv, Rightful, Untouched
  <2>6. OwnProcess(m)' /\ AgesLate(m)' /\ Intact(m)'
    BY <2>1, <2>2 DEF LInv, Rightful, OwnProcess, AgesLate, Intact
  <2>7. DoomedRightly(m)'
    <3>1. SUFFICES ASSUME NEW q \in Readers, scan'[q].doomed = m, m \notin blame',
                          sess[m] \in {"creating", "written", "running"}
                   PROVE  old[m]
      BY <2>1, <2>3 DEF LInv, Rightful, DoomedRightly
    <3>2. CASE scan[q].doomed = m
      BY <2>2, <3>1, <3>2 DEF LInv, Rightful, DoomedRightly
    <3>3. CASE q = r /\ l = m
      BY <2>1, <3>1, <3>3, JudgedRightly
    <3>4. QED  BY <2>4, <3>1, <3>2, <3>3
  <2>8. QED  BY <2>5, <2>6, <2>7 DEF Rightful
<1>3. CASE Unlinks(r)
  <2>1. UNCHANGED <<sess, mode, old, pid, blame>>
    BY <1>3 DEF Unlinks
  <2>2. \A q \in Readers : /\ scan'[q].aged = scan[q].aged /\ scan'[q].todo = scan[q].todo
                           /\ scan'[q].doomed \in {scan[q].doomed, NoLease}
    BY <1>3 DEF LInv, TypeOK, Unlinks
  <2>3. CASE scan[r].doomed # m
    <3>1. file'[m] = file[m]
      BY <1>3, <2>3 DEF LInv, TypeOK, Unlinks
    <3>2. QED  BY <1>0, <2>1, <2>2, <3>1 DEF LInv, Rightful, Untouched, OwnProcess, Intact,
                                            DoomedRightly, AgesLate
  <2>4. CASE scan[r].doomed = m
    <3>1. sess[m] # "idle"
      BY <2>4 DEF LInv, Rightful, Untouched
    <3>2. Intact(m)'
      BY <2>1, <2>4 DEF LInv, Rightful, Intact, DoomedRightly, AgesLate
    <3>3. QED  BY <1>0, <2>1, <2>2, <3>1, <3>2 DEF LInv, Rightful, Untouched, OwnProcess,
                                                   DoomedRightly, AgesLate
  <2>5. QED  BY <2>3, <2>4
<1>4. CASE Reports(r)
  <2>1. UNCHANGED <<sess, file, mode, old, pid, blame>>
    BY <1>4 DEF Reports
  <2>2. \A q \in Readers : /\ scan'[q].aged \subseteq scan[q].aged
                           /\ scan'[q].todo \subseteq scan[q].todo
                           /\ scan'[q].doomed \in {scan[q].doomed, NoLease}
    BY <1>4 DEF LInv, TypeOK, Reports, Resting
  <2>3. QED  BY <1>0, <2>1, <2>2 DEF LInv, Rightful, Untouched, OwnProcess, Intact,
                                     DoomedRightly, AgesLate
<1>5. QED  BY <1>1, <1>2, <1>3, <1>4 DEF ReaderStep

LEMMA NextRightful == LInv /\ [Next]_vars => LInv'
<1> SUFFICES ASSUME LInv, [Next]_vars PROVE LInv'
  OBVIOUS
<1>1. TypeOK'
  BY NextTypes DEF LInv
<1>2. CASE Next
  BY <1>1, <1>2, HolderRightful, ReaderRightful DEF Next, LInv
<1>3. CASE UNCHANGED vars
  BY <1>3 DEF LInv, vars, TypeOK, Resting, Rightful, Untouched, OwnProcess, Intact,
              DoomedRightly, AgesLate
<1>4. QED  BY <1>2, <1>3

\* What the protocol keeps true at every step: no file before its process began, a
\* whole file while its session runs, and no reader about to unlink it unless its process
\* is gone, it is too old, or a reader mistook it.
THEOREM LeaseInvariance == Spec => []LInv
<1>1. QED  BY InitRightful, NextRightful, PTL DEF Spec

\* A session that runs keeps its lease file up to the age limit unless a reader came
\* upon the file before it was written, could not read it or could not look up the name
\* (acquireLease, readLiveLeases): for every number of sessions and readers.
THEOREM LiveLeasesKept == Spec => []LiveLeaseKept
<1>1. LInv => LiveLeaseKept
  BY DEF LInv, Rightful, Intact, LiveLeaseKept, Running
<1>2. QED  BY <1>1, LeaseInvariance, PTL

----------------------------------------------------------------------------
(* The invariant behind SeesRunning.                                       *)

\* A session that ran when reader r began has not started anew since; while it runs
\* and nobody mistook its lease, the reader has the lease before it or has reported it,
\* unless it could not list the directory.
Followed(r, l) ==
  scan[r].on /\ l \in scan[r].there =>
    /\ sess[l] \in {"running", "ending", "gone"}
    /\ sess[l] = "running" /\ l # scan[r].own /\ ~old[l] /\ l \notin blame
         /\ "list" \notin scan[r].failed
         => l \in scan[r].todo \cup scan[r].found

SInv == LInv /\ \A r \in Readers, l \in Leases : Followed(r, l)

LEMMA InitFollowed == Init => SInv
  BY InitRightful DEF Init, Resting, SInv, Followed

\* Reading a file takes it from those to be read only by reporting it, by an error
\* that is remembered, or because it is too old.
LEMMA ReadFollowed ==
  ASSUME SInv, NEW r \in Readers, NEW l \in Leases, Reads(r, l)
  PROVE  \A q \in Readers, m \in Leases : Followed(q, m)'
<1> SUFFICES ASSUME NEW q \in Readers, NEW m \in Leases PROVE Followed(q, m)'
  OBVIOUS
<1> PICK read \in BOOLEAN, probed \in BOOLEAN : Judges(r, l, read, probed)
  BY DEF Reads
<1>0. LInv /\ TypeOK /\ Followed(q, m)
  BY DEF SInv, LInv
<1>1. UNCHANGED <<sess, old>> /\ scan[r].on /\ scan[r].doomed = NoLease
  BY DEF Reads
<1>2. blame \subseteq blame'
  BY <1>0 DEF TypeOK, Judges
<1>3. CASE q # r
  <2>1. scan'[q] = scan[q]
    BY <1>0, <1>3 DEF TypeOK, Judges
  <2>2. QED  BY <1>0, <1>1, <1>2, <2>1 DEF Followed
<1>4. CASE q = r
  <2>1. /\ scan'[r].on = scan[r].on /\ scan'[r].there = scan[r].there
        /\ scan'[r].own = scan[r].own /\ scan'[r].todo = scan[r].todo \ {l}
        /\ scan'[r].failed = scan[r].failed
    BY <1>0 DEF TypeOK, Judges
  <2>2. scan[r].found \subseteq scan'[r].found
    BY <1>0 DEF TypeOK, Judges, AfterOwn
  <2>3. CASE m # l
    BY <1>0, <1>1, <1>2, <1>4, <2>1, <2>2, <2>3 DEF Followed
  <2>4. CASE m = l
    <3>1. SUFFICES ASSUME sess[l] = "running", l # scan[r].own, ~old[l], l \notin blame',
                          "list" \notin scan[r].failed
                   PROVE  l \in scan'[r].found
      BY <1>0, <1>1, <1>4, <2>1, <2>4 DEF Followed
    <3>2. scan'[r].doomed # l
      BY <1>0, <1>1, <3>1, JudgedRightly
    <3>3. read /\ file[l] = "whole" /\ LooksLive(l, scan[r].aged, probed)
      BY <1>0, <3>2 DEF TypeOK, Judges
    <3>4. scan'[r].found = scan[r].found \cup {l}
      BY <1>0, <3>1, <3>3 DEF TypeOK, Judges
    <3>5. QED  BY <3>4
  <2>5. QED  BY <2>3, <2>4
<1>5. QED  BY <1>3, <1>4

LEMMA NextFollowed == SInv /\ [Next]_vars => SInv'
<1> SUFFICES ASSUME SInv, [Next]_vars PROVE SInv'
  OBVIOUS
<1>0. LInv /\ TypeOK /\ LInv'
  BY NextRightful DEF SInv, LInv
<1> SUFFICES ASSUME NEW r \in Readers, NEW l \in Leases PROVE Followed(r, l)'
  BY <1>0 DEF SInv
<1>1. Followed(r, l)
  BY DEF SInv
<1>2. ASSUME NEW m \in Leases,
             \/ \E how \in {"launcher", "oneshot"} : Acquire(m, how)
             \/ Fill(m) \/ FillFails(m) \/ Launch(m) \/ ChildExits(m)
             \/ Ends(m) \/ Signalled(m) \/ Dies(m) \/ Ages(m) \/ Recycled(m)
      PROVE  Followed(r, l)'
  <2>1. UNCHANGED scan /\ (sess'[l] = "running" => (l \in blame' <=> l \in blame))
    BY <1>0, <1>2 DEF TypeOK, Acquire, Fill, FillFails, Launch, ChildExits, Ends, Signalled, Dies, Gone,
                Ages, Recycled
  <2>2. old[l] => old'[l]
    BY <1>0, <1>2 DEF TypeOK, Acquire, Fill, FillFails, Launch, ChildExits, Ends, Signalled,
                      Dies, Gone, Ages, Recycled
  <2>3. sess[l] \in {"running", "ending", "gone"} =>
          /\ sess'[l] \in {"running", "ending", "gone"}
          /\ sess'[l] = "running" => sess[l] = "running"
    <3>1. CASE m # l
      BY <1>0, <1>2, <3>1 DEF TypeOK, Acquire, Fill, FillFails, Launch, ChildExits, Ends,
                              Signalled, Dies, Gone, Ages, Recycled
    <3>2. CASE m = l
      BY <1>0, <1>2, <3>2 DEF TypeOK, Acquire, Fill, FillFails, Launch, ChildExits, Ends,
                              Signalled, Dies, Gone, Ages, Recycled
    <3>3. QED  BY <3>1, <3>2
  <2>4. QED  BY <1>1, <2>1, <2>2, <2>3 DEF Followed
<1>3. ASSUME NEW q \in Readers, NEW own \in Leases \cup {NoLease}, Lists(q, own)
      PROVE  Followed(r, l)'
  <2>1. UNCHANGED <<sess, file, old, blame>>
    BY <1>3 DEF Lists
  <2>2. CASE q # r
    <3>1. scan'[r] = scan[r]
      BY <1>0, <1>3, <2>2 DEF TypeOK, Lists
    <3>2. QED  BY <1>1, <2>1, <3>1 DEF Followed
  <2>3. CASE q = r
    <3>1. /\ scan'[r].there = Running /\ scan'[r].failed \in SUBSET {"list"}
          /\ scan'[r].todo = {m \in Leases : file[m] # "none" /\ scan'[r].failed = {}}
      BY <1>0, <1>3, <2>3 DEF TypeOK, Lists
    <3>2. sess[l] = "running" /\ ~old[l] /\ l \notin blame /\ "list" \notin scan'[r].failed
            => l \in scan'[r].todo
      BY <1>0, <3>1 DEF LInv, Rightful, Intact
    <3>3. QED  BY <2>1, <3>1, <3>2 DEF Followed, Running
  <2>4. QED  BY <2>2, <2>3
<1>4. ASSUME NEW q \in Readers, NEW m \in Leases, Reads(q, m) PROVE Followed(r, l)'
  BY <1>4, ReadFollowed
<1>5. ASSUME NEW q \in Readers, Unlinks(q) PROVE Followed(r, l)'
  <2>1. UNCHANGED <<sess, old, blame>>
    BY <1>5 DEF Unlinks
  <2>2. /\ scan'[r].on = scan[r].on /\ scan'[r].there = scan[r].there
        /\ scan'[r].own = scan[r].own /\ scan'[r].todo = scan[r].todo
        /\ scan'[r].found = scan[r].found
        /\ ("list" \in scan'[r].failed <=> "list" \in scan[r].failed)
    BY <1>0, <1>5 DEF TypeOK, Unlinks
  <2>3. QED  BY <1>1, <2>1, <2>2 DEF Followed
<1>6. ASSUME NEW q \in Readers, Reports(q) PROVE Followed(r, l)'
  <2>1. UNCHANGED <<sess, old, blame>>
    BY <1>6 DEF Reports
  <2>2. scan'[r] \in {scan[r], Resting}
    BY <1>0, <1>6 DEF TypeOK, Reports
  <2>3. QED  BY <1>1, <2>1, <2>2 DEF Followed, Resting
<1>7. CASE UNCHANGED vars
  BY <1>1, <1>7 DEF vars, Followed
<1>8. QED  BY <1>2, <1>3, <1>4, <1>5, <1>6, <1>7 DEF Next, ReaderStep

\* A scan ends with its report, when nothing is left to read.
LEMMA EndsWithReport ==
  ASSUME TypeOK, [Next]_vars, NEW r \in Readers, scan[r].on, ~scan'[r].on
  PROVE  scan[r].todo = {}
<1>1. ASSUME NEW q \in Readers, NEW own \in Leases \cup {NoLease}, Lists(q, own) PROVE FALSE
  BY <1>1 DEF TypeOK, Lists
<1>2. ASSUME NEW q \in Readers, NEW m \in Leases, Reads(q, m) PROVE FALSE
  BY <1>2 DEF TypeOK, Reads, Judges
<1>3. ASSUME NEW q \in Readers, Unlinks(q) PROVE FALSE
  BY <1>3 DEF TypeOK, Unlinks
<1>4. ASSUME NEW q \in Readers, Reports(q) PROVE scan[r].todo = {}
  BY <1>4 DEF TypeOK, Reports
<1>5. ASSUME NEW m \in Leases,
             \/ \E how \in {"launcher", "oneshot"} : Acquire(m, how)
             \/ Fill(m) \/ FillFails(m) \/ Launch(m) \/ ChildExits(m)
             \/ Ends(m) \/ Signalled(m) \/ Dies(m) \/ Ages(m) \/ Recycled(m)
      PROVE  FALSE
  BY <1>5 DEF Acquire, Fill, FillFails, Launch, ChildExits, Ends, Signalled, Dies, Gone,
              Ages, Recycled
<1>6. CASE UNCHANGED vars
  BY <1>6 DEF vars
<1>7. QED  BY <1>1, <1>2, <1>3, <1>4, <1>5, <1>6 DEF Next, ReaderStep

\* A scan reports every other session that ran when it began and runs still, unless a
\* reader mistook its lease, the lease is too old or the directory could not be read
\* (readLiveLeases, isLive): whatever other sessions and other readers do meanwhile.
THEOREM RunningAreSeen == Spec => SeesRunning
<1>1. SInv /\ [Next]_vars =>
        \A r \in Readers : scan[r].on /\ ~scan'[r].on /\ "list" \notin scan[r].failed =>
          \A l \in scan[r].there \cap Running :
            l # scan[r].own /\ ~old[l] /\ l \notin blame => l \in scan[r].found
  <2> SUFFICES ASSUME SInv, [Next]_vars, NEW r \in Readers, scan[r].on, ~scan'[r].on,
                      "list" \notin scan[r].failed, NEW l \in scan[r].there \cap Running,
                      l # scan[r].own, ~old[l], l \notin blame
               PROVE  l \in scan[r].found
    OBVIOUS
  <2>1. TypeOK /\ Followed(r, l)
    BY DEF SInv, LInv, Running
  <2>2. scan[r].todo = {}
    BY <2>1, EndsWithReport
  <2>3. QED  BY <2>1, <2>2 DEF Followed, Running
<1>2. QED  BY <1>1, InitFollowed, NextFollowed, PTL DEF Spec, SeesRunning

----------------------------------------------------------------------------
(* The prompt: sequences.                                                  *)

\* The first part of a sequence has the elements the sequence has there.
LEMMA FirstNFacts ==
  ASSUME NEW S, NEW s \in Seq(S), NEW n \in Nat
  PROVE  /\ FirstN(s, n) \in Seq(S)
         /\ DOMAIN FirstN(s, n) \subseteq DOMAIN s
         /\ \A i \in DOMAIN FirstN(s, n) : FirstN(s, n)[i] = s[i]
         /\ Range(FirstN(s, n)) \subseteq Range(s)
         /\ Len(FirstN(s, n)) = IF Len(s) < n THEN Len(s) ELSE n
         /\ Len(FirstN(s, n)) < n => Range(FirstN(s, n)) = Range(s)
<1> DEFINE k == IF Len(s) < n THEN Len(s) ELSE n
           f == FirstN(s, n)
<1>1. k \in Nat /\ DOMAIN s = 1 .. Len(s) /\ DOMAIN s \cap 1 .. n = 1 .. k
  OBVIOUS
<1>2. f = [i \in 1 .. k |-> s[i]] /\ \A i \in 1 .. k : s[i] \in S
  BY <1>1 DEF FirstN
<1>3. f \in Seq(S) /\ DOMAIN f = 1 .. k /\ Len(f) = k /\ \A i \in 1 .. k : f[i] = s[i]
  BY ONLY <1>1, <1>2
<1>4. k < n => k = Len(s)
  OBVIOUS
<1> HIDE DEF f
<1>5. DOMAIN f \subseteq DOMAIN s /\ \A i \in DOMAIN f : f[i] = s[i]
  BY <1>1, <1>3
<1>6. Range(f) \subseteq Range(s)
  BY <1>5 DEF Range
<1>7. ASSUME k < n PROVE Range(f) = Range(s)
  <2>1. DOMAIN f = DOMAIN s
    BY <1>1, <1>3, <1>4, <1>7
  <2>2. QED  BY <1>5, <2>1 DEF Range
<1> HIDE DEF k
<1>8. Len(f) = k
  BY <1>3
<1>9. QED  BY <1>3, <1>5, <1>6, <1>7, <1>8 DEF f, k

\* Without one of its elements a sequence is still one of the same.
LEMMA RemoveAtFacts ==
  ASSUME NEW S, NEW s \in Seq(S), NEW i \in DOMAIN s
  PROVE  RemoveAt(s, i) \in Seq(S)
<1>1. i \in 1 .. Len(s) /\ Len(s) \in Nat
  OBVIOUS
<1>2. SubSeq(s, 1, i - 1) \in Seq(S)
  BY <1>1
<1>3. SubSeq(s, i + 1, Len(s)) \in Seq(S)
  BY <1>1
<1>4. QED  BY <1>2, <1>3 DEF RemoveAt

----------------------------------------------------------------------------
(* The invariant.                                                          *)

AssemblyFields ==
  {"at", "call", "unlisted", "todo", "moving", "tasks", "sessions", "bad", "rest", "live", "siblings", "ranking",
   "context", "degraded"}
LateStages == {"live", "probe", "rank", "hits", "log", "done"}

\* The assembly has its parts, and its lists are empty once they have been read.
AssemblyOK ==
  /\ DOMAIN asm = AssemblyFields
  /\ asm.at \in {"idle", "failed", "archive", "read"} \cup LateStages
  /\ DOMAIN asm.todo = {"tasks", "sessions"} /\ DOMAIN asm.live = {"bulk", "pr", "git"}
  /\ DOMAIN asm.bad = {"tasks", "sessions"} /\ asm.bad.tasks \in Nat /\ asm.bad.sessions \in Nat
  /\ asm.at = "archive" => asm.unlisted = {"tasks", "sessions"}
  /\ asm.at \in LateStages => asm.unlisted = {} /\ asm.todo = NoAssembly.todo

\* The files and the pull requests are of their kinds, whatever the others do.
WorldOK ==
  /\ DOMAIN home = {"brief", "tasks", "archived", "sessions", "notes", "hits", "related", "branches", "github",
                    "siblings", "worktrees"}
  /\ OnePerId(home.tasks) /\ OnePerId(home.sessions)
  /\ \A t \in home.tasks : {"id", "status", "stale"} \subseteq DOMAIN t
  /\ \A s \in home.sessions : OpensOwn(s)
  /\ home.branches \in Seq(Branches) /\ github \in [Repos -> Seq(Heads)]
  /\ \A b \in Branches : b.name \in Heads

Begun == asm.at \notin {"idle", "failed"}

\* What counts as so ever since the assembly began is so now.
SeenOK ==
  Begun =>
    /\ DOMAIN seen = DOMAIN NoneSeen
    /\ seen.open \subseteq Now(home) /\ seen.done \subseteq TargetsDone(home)
    /\ seen.had \subseteq WithPr(github) /\ seen.hadNot \subseteq Branches \ WithPr(github)

\* A session file, and a done task, that will be read or was read or was counted, or whose
\* directory could not be listed.
Gathered(s) ==
  \/ "sessions" \in asm.unlisted \cup seen.failed \/ asm.bad.sessions > 0
  \/ s \in asm.todo.sessions \cup asm.sessions
Expected(id) ==
  \/ "tasks" \in asm.unlisted \cup seen.failed \/ asm.bad.tasks > 0
  \/ \E t \in asm.todo.tasks : t.id = id
  \/ \E t \in asm.tasks : t.id = id /\ t.status = "done"

\* The files that say why a loop is open, or closed, are not missed, and no task was read
\* as done that is the target of a loop open all the time.
ReadOK ==
  Begun =>
    /\ asm.sessions \subseteq home.sessions
    /\ "sessions" \notin asm.unlisted => asm.todo.sessions \subseteq home.sessions
    /\ "sessions" \in asm.unlisted \cup seen.failed => asm.todo.sessions \cup asm.sessions = {}
    /\ "sessions" \notin asm.unlisted \cap seen.failed
    /\ \A l \in seen.open : \E o \in home.sessions : l \in o.opens /\ Gathered(o)
    /\ \A l \in seen.closed :
         \E o, s \in home.sessions : l \in o.opens /\ Resolves(s, o, l) /\ Gathered(o) /\ Gathered(s)
    /\ \A l \in seen.done : Expected(l.target)
    /\ \A t \in asm.tasks : t.status = "done" => \A l \in seen.open : l.target # t.id

\* What a list says of branch b, if it says something, was so at some time.
ListTrue(list, b) ==
  /\ b.name \in Range(list.heads) => b \notin seen.hadNot
  /\ list.complete /\ b.name \notin Range(list.heads) => b \notin seen.had

\* Lists and answers are of branches that are shown, and tell the truth.
LiveOK ==
  /\ DOMAIN asm.live.bulk \subseteq Repos
  /\ \A r \in DOMAIN asm.live.bulk :
       /\ DOMAIN asm.live.bulk[r] = {"at", "heads", "complete"}
       /\ \A b \in Branches : b.repo = r => ListTrue(asm.live.bulk[r], b)
  /\ \A i \in DOMAIN asm.live.pr :
       i \in DOMAIN Shown /\ (Shown[i].repo \in Repos => Shown[i].repo \in DOMAIN asm.live.bulk)
  /\ LiveTruthful

BootInv == AssemblyOK /\ WorldOK /\ SeenOK /\ ReadOK /\ LiveOK

----------------------------------------------------------------------------
(* Steps that read no file and ask about no branch.                        *)

LEMMA BootstrapStarts == BootstrapInit => BootInv
<1> SUFFICES ASSUME BootstrapInit PROVE BootInv
  OBVIOUS
<1>1. home \in Starts /\ github = home.github /\ asm = NoAssembly
  BY DEF BootstrapInit
<1>2. AssemblyOK /\ ~Begun
  BY <1>1 DEF AssemblyOK, AssemblyFields, NoAssembly, NoLive, Begun, LateStages
<1>3. WorldOK
  <2>1. home.branches \in Seq(Branches)
    BY <1>1, StartsAssumption DEF Branches
  <2>2. \A b \in Branches : b.name \in Heads
    <3>1. \A b \in Branches : b.name \in HeadsOf(home)
      BY DEF Branches, HeadsOf
    <3>2. QED  BY <1>1, <3>1 DEF Heads
  <2>3. QED  BY <1>1, <2>1, <2>2, StartsAssumption DEF WorldOK
<1>4. DOMAIN asm.live.bulk = {} /\ DOMAIN asm.live.pr = {}
  BY <1>1 DEF NoAssembly, NoLive
<1>5. LiveOK
  BY <1>4 DEF LiveOK, LiveTruthful
<1>6. QED  BY <1>2, <1>3, <1>5 DEF BootInv, SeenOK, ReadOK

\* A step by which the assembly only goes on to something else.
LEMMA QuietKeeps ==
  ASSUME BootInv, Begun, UNCHANGED <<home, github, seen>>,
         DOMAIN asm' = DOMAIN asm, DOMAIN asm'.todo = DOMAIN asm.todo, DOMAIN asm'.live = DOMAIN asm.live,
         asm'.unlisted = asm.unlisted, asm'.tasks = asm.tasks, asm'.sessions = asm.sessions, asm'.bad = asm.bad,
         asm'.todo.sessions = asm.todo.sessions,
         "tasks" \notin asm.unlisted => asm'.todo.tasks = asm.todo.tasks,
         asm'.live.bulk = asm.live.bulk, asm'.live.pr = asm.live.pr,
         asm'.at \in {"archive", "read"} \cup LateStages,
         asm'.at = "archive" => asm.unlisted = {"tasks", "sessions"},
         asm'.at \in LateStages => asm.unlisted = {} /\ asm'.todo = NoAssembly.todo
  PROVE  BootInv'
<1>1. AssemblyOK'
  BY DEF BootInv, AssemblyOK
<1>2. WorldOK'
  BY DEF BootInv, WorldOK, Branches
<1>3. SeenOK'
  BY DEF BootInv, SeenOK, WithPr, Branches, Now, TargetsDone, Filed
<1>4. ReadOK'
  <2>1. \A s : Gathered(s) => Gathered(s)'
    BY DEF Gathered
  <2>2. \A id : Expected(id) => Expected(id)'
    BY DEF Expected
  <2>3. QED  BY <2>1, <2>2 DEF BootInv, ReadOK, Begun
<1>5. LiveOK'
  BY DEF BootInv, LiveOK, LiveTruthful, ListTrue, Shown, Branches
<1>6. QED  BY <1>1, <1>2, <1>3, <1>4, <1>5 DEF BootInv

\* A step that changes other parts of the assembly than the proof is about.
LEMMA PartKeeps ==
  ASSUME BootInv, Begun, UNCHANGED <<home, github, seen>>,
         NEW part \in {"rest", "ranking", "context", "siblings", "degraded"}, NEW value,
         asm' = [asm EXCEPT ![part] = value]
  PROVE  BootInv'
<1>1. /\ DOMAIN asm' = DOMAIN asm
      /\ \A f \in AssemblyFields : f # part => asm'[f] = asm[f]
  BY DEF BootInv, AssemblyOK
<1>2. /\ asm'.unlisted = asm.unlisted /\ asm'.tasks = asm.tasks /\ asm'.sessions = asm.sessions
      /\ asm'.bad = asm.bad /\ asm'.todo = asm.todo /\ asm'.live = asm.live /\ asm'.at = asm.at
  BY <1>1 DEF AssemblyFields
<1>3. QED  BY <1>1, <1>2, QuietKeeps DEF BootInv, AssemblyOK, Begun

\* A step after all files were read.
LEMMA LateKeeps ==
  ASSUME BootInv, asm.at \in LateStages, UNCHANGED <<home, github, seen>>,
         DOMAIN asm' = DOMAIN asm, DOMAIN asm'.live = DOMAIN asm.live,
         asm'.unlisted = asm.unlisted, asm'.tasks = asm.tasks, asm'.sessions = asm.sessions, asm'.bad = asm.bad,
         asm'.todo = asm.todo, asm'.live.bulk = asm.live.bulk, asm'.live.pr = asm.live.pr,
         asm'.at \in LateStages
  PROVE  BootInv'
<1>1. Begun
  BY DEF Begun, LateStages
<1>2. QED  BY <1>1, QuietKeeps DEF BootInv, AssemblyOK, LateStages

LEMMA ReadRestKeeps == BootInv /\ ReadRest => BootInv'
<1> SUFFICES ASSUME BootInv, ReadRest PROVE BootInv'
  OBVIOUS
<1>1. PICK rest \in {"read", "bad"} : asm' = [asm EXCEPT !.rest = rest]
  BY DEF ReadRest
<1>2. Begun /\ UNCHANGED <<home, github, seen>>
  BY DEF ReadRest, Begun
<1>3. QED  BY <1>1, <1>2, PartKeeps

LEMMA GitKeeps == ASSUME BootInv, GitStart \/ \E i \in 1 .. LiveLimit : GitStatus(i) PROVE BootInv'
<1>1. PICK i, status : asm' = [asm EXCEPT !.live.git[i] = status]
  BY DEF GitStart, GitStatus
<1>2. asm.at = "live" /\ UNCHANGED <<home, github, seen>>
  BY DEF GitStart, GitStatus
<1>3. /\ DOMAIN asm' = DOMAIN asm /\ DOMAIN asm'.live = DOMAIN asm.live
      /\ asm'.live.bulk = asm.live.bulk /\ asm'.live.pr = asm.live.pr
      /\ asm'.unlisted = asm.unlisted /\ asm'.tasks = asm.tasks /\ asm'.sessions = asm.sessions
      /\ asm'.bad = asm.bad /\ asm'.todo = asm.todo /\ asm'.at = asm.at
  BY <1>1 DEF BootInv, AssemblyOK, AssemblyFields
<1>4. QED  BY <1>2, <1>3, LateKeeps DEF LateStages

LEMMA EndLiveKeeps == BootInv /\ (EndLive \/ Probe) => BootInv'
<1> SUFFICES ASSUME BootInv, EndLive \/ Probe PROVE BootInv'
  OBVIOUS
<1>1. \/ asm' = [asm EXCEPT !.at = "probe"]
      \/ asm' = [asm EXCEPT !.at = "rank"]
      \/ \E siblings : asm' = [asm EXCEPT !.at = "rank", !.siblings = siblings]
  BY DEF EndLive, Probe
<1>2. asm.at \in {"live", "probe"} /\ UNCHANGED <<home, github, seen>>
  BY DEF EndLive, Probe
<1>3. /\ DOMAIN asm' = DOMAIN asm /\ asm'.live = asm.live /\ asm'.at \in {"probe", "rank"}
      /\ asm'.unlisted = asm.unlisted /\ asm'.tasks = asm.tasks /\ asm'.sessions = asm.sessions
      /\ asm'.bad = asm.bad /\ asm'.todo = asm.todo
  BY <1>1 DEF BootInv, AssemblyOK, AssemblyFields
<1>4. QED  BY <1>2, <1>3, LateKeeps DEF LateStages

\* The ranking of notes, the rounds for the loops and the log: none of them reads again.
LEMMA HitsKeep ==
  ASSUME BootInv, RankNotes \/ QueryLoop \/ AllocateOne \/ AppendHitLog
  PROVE  BootInv'
<1>1. asm.at \in LateStages /\ UNCHANGED <<home, github, seen>>
  BY DEF RankNotes, QueryLoop, AllocateOne, AppendHitLog, LateStages
<1>2. /\ DOMAIN asm' = DOMAIN asm /\ asm'.at \in LateStages
      /\ \A f \in {"unlisted", "tasks", "sessions", "bad", "todo", "live"} : asm'[f] = asm[f]
  <2> USE DEF BootInv, AssemblyOK, AssemblyFields, LateStages
  <2>1. CASE RankNotes
    <3>1. PICK ranking, context : asm' = [asm EXCEPT !.at = "hits", !.ranking = ranking, !.context = context]
      BY <2>1 DEF RankNotes
    <3>2. QED  BY <3>1
  <2>2. CASE QueryLoop
    <3>1. \/ \E context : asm' = [asm EXCEPT !.context = context]
          \/ \E context, degraded : asm' = [asm EXCEPT !.context = context, !.degraded = degraded]
      BY <2>2 DEF QueryLoop
    <3>2. QED  BY <2>2, <3>1 DEF QueryLoop
  <2>3. CASE AllocateOne
    <3>1. (\E context : asm' = [asm EXCEPT !.context = context]) \/ asm' = [asm EXCEPT !.at = "log"]
      BY <2>3, Zenon DEF AllocateOne, Stops, GoesOn, Takes
    <3>2. QED  BY <2>3, <3>1 DEF AllocateOne
  <2>4. CASE AppendHitLog
    <3>1. asm' = [asm EXCEPT !.at = "done"] \/ \E d : asm' = [asm EXCEPT !.at = "done", !.degraded = d]
      BY <2>4 DEF AppendHitLog
    <3>2. QED  BY <3>1
  <2>5. QED  BY <2>1, <2>2, <2>3, <2>4
<1>3. QED  BY <1>1, <1>2, LateKeeps

LEMMA KillKeepsPrompt == BootInv /\ Kill => BootInv'
<1> SUFFICES ASSUME BootInv, Kill PROVE BootInv'
  OBVIOUS
<1>1. asm' = [NoAssembly EXCEPT !.at = "failed"] /\ UNCHANGED <<home, github, seen>>
  BY DEF Kill
<1>2. AssemblyOK' /\ ~Begun'
  BY <1>1 DEF AssemblyOK, AssemblyFields, NoAssembly, NoLive, Begun, LateStages
<1>3. DOMAIN asm'.live.bulk = {} /\ DOMAIN asm'.live.pr = {}
  BY <1>1 DEF NoAssembly, NoLive
<1>4. WorldOK'
  BY <1>1 DEF BootInv, WorldOK, Branches
<1>5. LiveOK'
  BY <1>3 DEF LiveOK, LiveTruthful
<1>6. QED  BY <1>2, <1>4, <1>5 DEF BootInv, SeenOK, ReadOK

----------------------------------------------------------------------------
(* The archive and the reading of files.                                   *)

LEMMA OpenStarts == ASSUME BootInv, NEW call \in Opens, StartOpen(call) PROVE BootInv'
<1>1. UNCHANGED <<home, github>>
  BY DEF StartOpen
<1>2. WorldOK'
  BY <1>1 DEF BootInv, WorldOK, Branches
<1>3. CASE asm' = [asm EXCEPT !.at = "failed"]
  <2>1. asm.at = "idle"
    BY DEF StartOpen
  <2>2. AssemblyOK' /\ ~Begun' /\ asm'.live = asm.live /\ UNCHANGED seen
    <3>1. AssemblyOK
      BY DEF BootInv
    <3>2. /\ DOMAIN asm' = DOMAIN asm /\ asm'.at = "failed" /\ asm'.todo = asm.todo /\ asm'.live = asm.live
          /\ asm'.bad = asm.bad /\ asm'.unlisted = asm.unlisted
      BY <1>3, <3>1 DEF AssemblyOK, AssemblyFields
    <3>3. AssemblyOK' /\ ~Begun'
      BY <3>1, <3>2 DEF AssemblyOK, Begun, LateStages
    <3>4. UNCHANGED seen
      BY <2>1, <3>2 DEF StartOpen, NoAssembly
    <3> QED
      BY <3>2, <3>3, <3>4
  <2>3. LiveOK'
    BY <1>1, <2>2 DEF BootInv, LiveOK, LiveTruthful, ListTrue, Shown, Branches
  <2>4. QED  BY <1>2, <2>2, <2>3 DEF BootInv, SeenOK, ReadOK
<1>4. CASE home.brief
  <2>1. /\ DOMAIN asm' = AssemblyFields /\ asm'.unlisted = {"tasks", "sessions"}
        /\ asm'.at \in {"archive", "read"} /\ DOMAIN asm'.todo = {"tasks", "sessions"} /\ asm'.todo.sessions = {}
        /\ asm'.bad = NoAssembly.bad /\ asm'.live = NoLive /\ asm'.tasks = {} /\ asm'.sessions = {}
    <3> DEFINE place == IF call.archives THEN "archive" ELSE "read"
    <3>0. place \in {"archive", "read"}
      OBVIOUS
    <3>1. PICK tasks : asm' = [NoAssembly EXCEPT !.at = place, !.call = call, !.todo.tasks = tasks,
                                                 !.unlisted = {"tasks", "sessions"}]
      BY <1>4 DEF StartOpen
    <3> HIDE DEF place
    <3>2. QED  BY <3>0, <3>1 DEF NoAssembly, AssemblyFields
  <2>2. /\ seen'.open = Now(home) /\ seen'.closed = Closed(home) /\ seen'.done = TargetsDone(home)
        /\ seen'.had = WithPr(github) /\ seen'.hadNot = Branches \ WithPr(github) /\ seen'.failed = {}
        /\ DOMAIN seen' = DOMAIN NoneSeen
    <3>1. seen' = [open |-> Now(home), closed |-> Closed(home), done |-> TargetsDone(home), had |-> WithPr(github),
                   hadNot |-> Branches \ WithPr(github), failed |-> {}]
      BY <1>4 DEF StartOpen
    <3>2. QED  BY <3>1 DEF NoneSeen
  <2>3. AssemblyOK'
    BY <2>1 DEF AssemblyOK, NoAssembly, NoLive, LateStages
  <2>4. SeenOK'
    <3>1. Now(home)' = Now(home) /\ TargetsDone(home)' = TargetsDone(home)
      BY <1>1 DEF Now, TargetsDone, Filed
    <3>2. WithPr(github)' = WithPr(github) /\ Branches' = Branches
      BY <1>1 DEF WithPr, Branches
    <3>3. QED  BY <2>2, <3>1, <3>2 DEF SeenOK
  <2>5. ReadOK'
    <3>1. \A s : Gathered(s)'
      BY <2>1 DEF Gathered
    <3>2. \A id : Expected(id)'
      BY <2>1 DEF Expected
    <3>3. \A l \in Now(home) : \E o \in home.sessions : l \in o.opens
      BY DEF Now, OpenLoops
    <3>4. \A l \in Closed(home) : \E o, s \in home.sessions : l \in o.opens /\ Resolves(s, o, l)
      <4> SUFFICES ASSUME NEW l \in Closed(home)
                   PROVE  \E o, s \in home.sessions : l \in o.opens /\ Resolves(s, o, l)
        OBVIOUS
      <4>1. PICK o \in home.sessions : l \in o.opens
        BY DEF Closed, Filed
      <4>2. Resolved(home.sessions, o, l)
        BY <4>1 DEF Closed
      <4>3. QED  BY <4>1, <4>2 DEF Resolved
    <3>5. QED  BY <1>1, <2>1, <2>2, <3>1, <3>2, <3>3, <3>4 DEF ReadOK
  <2>6. LiveOK'
    <3>1. DOMAIN asm'.live.bulk = {} /\ DOMAIN asm'.live.pr = {}
      BY <2>1 DEF NoLive
    <3>2. QED  BY <3>1 DEF LiveOK, LiveTruthful
  <2>7. QED  BY <1>2, <2>3, <2>4, <2>5, <2>6 DEF BootInv
<1>5. QED  BY <1>3, <1>4 DEF StartOpen

LEMMA ArchiveReadKeeps == BootInv /\ (ArchiveRead \/ ArchiveSkips) => BootInv'
<1> SUFFICES ASSUME BootInv, ArchiveRead \/ ArchiveSkips PROVE BootInv'
  OBVIOUS
<1>1. asm.at = "archive" /\ asm.unlisted = {"tasks", "sessions"} /\ UNCHANGED <<home, github, seen>>
  BY DEF ArchiveRead, ArchiveSkips, BootInv, AssemblyOK
<1>2. \/ asm' = [asm EXCEPT !.at = "read"]
      \/ \E t, moving : asm' = [asm EXCEPT !.todo.tasks = @ \ {t}, !.moving = moving]
      \/ asm' = [asm EXCEPT !.moving = NoTarget]
  BY DEF ArchiveRead, ArchiveSkips
<1>3. /\ DOMAIN asm' = DOMAIN asm /\ DOMAIN asm'.todo = DOMAIN asm.todo /\ asm'.live = asm.live
      /\ asm'.unlisted = asm.unlisted /\ asm'.tasks = asm.tasks /\ asm'.sessions = asm.sessions
      /\ asm'.bad = asm.bad /\ asm'.todo.sessions = asm.todo.sessions /\ asm'.at \in {"archive", "read"}
  <2> USE DEF BootInv, AssemblyOK, AssemblyFields
  <2>1. CASE asm' = [asm EXCEPT !.at = "read"]
    BY <2>1
  <2>2. CASE \E t, moving : asm' = [asm EXCEPT !.todo.tasks = @ \ {t}, !.moving = moving]
    <3>1. PICK t, moving : asm' = [asm EXCEPT !.todo.tasks = @ \ {t}, !.moving = moving]
      BY <2>2
    <3>2. QED  BY <1>1, <3>1
  <2>3. CASE asm' = [asm EXCEPT !.moving = NoTarget]
    BY <1>1, <2>3
  <2>4. QED  BY <1>2, <2>1, <2>2, <2>3
<1>4. QED  BY <1>1, <1>3, QuietKeeps DEF Begun, LateStages

\* Nothing is missed by listing a directory: what counts all the time is there.
LEMMA ListKeeps == ASSUME BootInv, NEW dir \in {"tasks", "sessions"}, List(dir) PROVE BootInv'
<1>1. asm.at = "read" /\ dir \in asm.unlisted /\ Begun /\ Begun' /\ UNCHANGED <<home, github, seen>>
  BY DEF List, Begun, BootInv, AssemblyOK, AssemblyFields
<1>2. /\ DOMAIN asm' = DOMAIN asm /\ DOMAIN asm'.todo = DOMAIN asm.todo
      /\ asm'.unlisted = asm.unlisted \ {dir} /\ asm'.todo[dir] = home[dir]
      /\ \A d \in {"tasks", "sessions"} \ {dir} : asm'.todo[d] = asm.todo[d]
      /\ asm'.at = asm.at /\ asm'.live = asm.live /\ asm'.tasks = asm.tasks
      /\ asm'.sessions = asm.sessions /\ asm'.bad = asm.bad
  BY DEF List, BootInv, AssemblyOK, AssemblyFields
<1>3. AssemblyOK'
  BY <1>1, <1>2 DEF BootInv, AssemblyOK, LateStages
<1>4. WorldOK' /\ SeenOK' /\ LiveOK'
  <2>1. WorldOK'
    BY <1>1 DEF BootInv, WorldOK, Branches
  <2>2. SeenOK'
    BY <1>1 DEF BootInv, SeenOK, WithPr, Branches, Now, TargetsDone, Filed
  <2>3. LiveOK'
    BY <1>1, <1>2 DEF BootInv, LiveOK, LiveTruthful, ListTrue, Shown, Branches
  <2>4. QED  BY <2>1, <2>2, <2>3
<1>5. ReadOK'
  <2>1. \A s \in home.sessions : Gathered(s) => Gathered(s)'
    BY <1>1, <1>2 DEF Gathered
  <2>2. \A l \in seen.done : Expected(l.target)'
    <3> SUFFICES ASSUME NEW l \in seen.done PROVE Expected(l.target)'
      OBVIOUS
    <3>1. Expected(l.target)
      BY <1>1 DEF BootInv, ReadOK
    <3>2. \E t \in home.tasks : t.id = l.target
      BY <1>1 DEF BootInv, SeenOK, TargetsDone, TargetClosed
    <3>3. CASE dir = "tasks"
      BY <1>2, <3>2, <3>3 DEF Expected
    <3>4. CASE dir # "tasks"
      BY <1>1, <1>2, <3>1, <3>4 DEF Expected
    <3>5. QED  BY <3>3, <3>4
  <2>3. "sessions" \notin asm'.unlisted => asm'.todo.sessions \subseteq home.sessions
    BY <1>1, <1>2 DEF BootInv, ReadOK
  <2>4. QED  BY <1>1, <1>2, <2>1, <2>2, <2>3 DEF BootInv, ReadOK
<1>6. QED  BY <1>3, <1>4, <1>5 DEF BootInv

\* A directory that fails to be listed is noted as such, and what was listed is not lost.
LEMMA ListFailsKeeps == ASSUME BootInv, NEW dir \in {"tasks", "sessions"}, ListFails(dir) PROVE BootInv'
<1>1. /\ asm.at = "read" /\ Begun /\ Begun' /\ dir \in asm.unlisted /\ UNCHANGED <<home, github>>
      /\ \A f \in {"open", "closed", "done", "had", "hadNot"} : seen'[f] = seen[f]
      /\ DOMAIN seen' = DOMAIN NoneSeen /\ seen'.failed = seen.failed \cup {dir}
  BY DEF ListFails, Begun, BootInv, AssemblyOK, AssemblyFields, SeenOK, NoneSeen
<1>2. /\ DOMAIN asm' = DOMAIN asm /\ asm'.unlisted = asm.unlisted \ {dir}
      /\ \A f \in AssemblyFields \ {"unlisted"} : asm'[f] = asm[f]
  BY DEF ListFails, BootInv, AssemblyOK
<1>3. AssemblyOK'
  BY <1>1, <1>2 DEF BootInv, AssemblyOK, AssemblyFields, LateStages
<1>4. WorldOK' /\ SeenOK' /\ LiveOK'
  <2>1. WorldOK'
    BY <1>1 DEF BootInv, WorldOK, Branches
  <2>2. SeenOK'
    BY <1>1 DEF BootInv, SeenOK, WithPr, Branches, Now, TargetsDone, Filed
  <2>3. LiveOK'
    BY <1>1, <1>2 DEF BootInv, LiveOK, LiveTruthful, ListTrue, Shown, Branches, AssemblyFields
  <2>4. QED  BY <2>1, <2>2, <2>3
<1>5. ReadOK'
  <2>1. asm.unlisted \cup seen.failed \subseteq asm'.unlisted \cup seen'.failed
    BY <1>1, <1>2
  <2>2. (\A s : Gathered(s) => Gathered(s)') /\ (\A id : Expected(id) => Expected(id)')
    BY <1>2, <2>1 DEF Gathered, Expected, AssemblyFields
  <2>3. /\ asm'.sessions = asm.sessions /\ asm'.tasks = asm.tasks /\ asm'.todo = asm.todo
        /\ seen'.open = seen.open /\ seen'.closed = seen.closed /\ seen'.done = seen.done
    BY <1>1, <1>2 DEF AssemblyFields
  <2>4. /\ "sessions" \in asm'.unlisted \cup seen'.failed => asm'.todo.sessions \cup asm'.sessions = {}
        /\ "sessions" \notin asm'.unlisted \cap seen'.failed
    BY <1>1, <1>2, <2>3 DEF BootInv, ReadOK
  <2>5. QED  BY <1>1, <1>2, <2>2, <2>3, <2>4 DEF BootInv, ReadOK
<1>6. QED  BY <1>3, <1>4, <1>5 DEF BootInv

\* A file that is read, or counted as unreadable, is not missed.
LEMMA LoadKeeps == ASSUME BootInv, NEW dir \in {"tasks", "sessions"}, LoadFile(dir) PROVE BootInv'
<1>1. asm.at = "read" /\ Begun /\ dir \notin asm.unlisted /\ UNCHANGED <<home, github, seen>>
  BY DEF LoadFile, Begun
<1> PICK f \in asm.todo[dir] :
      LET read == {g \in home[dir] : g.id = f.id /\ g.ok}
          left == [asm EXCEPT !.todo[dir] = @ \ {f}]
      IN  \/ read # {} /\ Works /\ asm' = [left EXCEPT ![dir] = @ \cup read]
          \/ (IF read = {} THEN Works ELSE Fails) /\ asm' = [left EXCEPT !.bad[dir] = Unreadable(@)]
  BY DEF LoadFile
<1> DEFINE read == {g \in home[dir] : g.id = f.id /\ g.ok}
           left == [asm EXCEPT !.todo[dir] = @ \ {f}]
<1>2. /\ DOMAIN left = AssemblyFields /\ DOMAIN left.todo = {"tasks", "sessions"}
      /\ left.todo[dir] = asm.todo[dir] \ {f}
      /\ \A d \in {"tasks", "sessions"} \ {dir} : left.todo[d] = asm.todo[d]
      /\ \A g \in AssemblyFields \ {"todo"} : left[g] = asm[g]
  BY DEF BootInv, AssemblyOK, AssemblyFields
<1>3. \/ read # {} /\ asm' = [left EXCEPT ![dir] = @ \cup read]
      \/ asm' = [left EXCEPT !.bad[dir] = Unreadable(@)]
  OBVIOUS
<1> HIDE DEF read, left
<1>4. /\ DOMAIN asm' = AssemblyFields /\ asm'.todo = left.todo /\ asm'.unlisted = asm.unlisted
      /\ asm'.at = asm.at /\ asm'.live = asm.live
      /\ DOMAIN asm'.bad = {"tasks", "sessions"} /\ asm'.bad.tasks \in Nat /\ asm'.bad.sessions \in Nat
      /\ \/ /\ read # {} /\ asm'[dir] = asm[dir] \cup read
            /\ \A d \in {"tasks", "sessions"} \ {dir} : asm'[d] = asm[d]
            /\ asm'.bad = asm.bad
         \/ /\ asm'.tasks = asm.tasks /\ asm'.sessions = asm.sessions /\ asm'.bad[dir] > 0
            /\ \A d \in {"tasks", "sessions"} \ {dir} : asm'.bad[d] = asm.bad[d]
  <2>1. CASE read # {} /\ asm' = [left EXCEPT ![dir] = @ \cup read]
    BY <1>2, <2>1 DEF BootInv, AssemblyOK, AssemblyFields
  <2>2. CASE asm' = [left EXCEPT !.bad[dir] = Unreadable(@)]
    <3>1. asm' = [left EXCEPT !.bad = [asm.bad EXCEPT ![dir] = asm.bad[dir] + 1]]
      BY <1>2, <2>2 DEF Unreadable, AssemblyFields
    <3>2. asm'.bad = [asm.bad EXCEPT ![dir] = asm.bad[dir] + 1]
      BY <1>2, <3>1 DEF AssemblyFields
    <3>3. /\ DOMAIN asm'.bad = {"tasks", "sessions"} /\ asm'.bad.tasks \in Nat /\ asm'.bad.sessions \in Nat
          /\ asm'.bad[dir] > 0 /\ \A d \in {"tasks", "sessions"} \ {dir} : asm'.bad[d] = asm.bad[d]
      BY <3>2 DEF BootInv, AssemblyOK
    <3>4. /\ DOMAIN asm' = AssemblyFields
          /\ \A g \in AssemblyFields \ {"bad"} : asm'[g] = left[g]
      BY <1>2, <3>1
    <3>5. QED  BY <1>2, <3>3, <3>4 DEF AssemblyFields
  <2>3. QED  BY <1>3, <2>1, <2>2
<1>5. AssemblyOK'
  BY <1>1, <1>2, <1>4 DEF BootInv, AssemblyOK, LateStages
<1>6. WorldOK' /\ SeenOK' /\ LiveOK'
  <2>1. WorldOK'
    BY <1>1 DEF BootInv, WorldOK, Branches
  <2>2. SeenOK'
    BY <1>1 DEF BootInv, SeenOK, WithPr, Branches, Now, TargetsDone, Filed
  <2>3. LiveOK'
    BY <1>1, <1>4 DEF BootInv, LiveOK, LiveTruthful, ListTrue, Shown, Branches
  <2>4. QED  BY <2>1, <2>2, <2>3
<1>7. CASE dir = "sessions"
  <2>1. f \in home.sessions /\ asm.todo.sessions \subseteq home.sessions
    BY <1>1, <1>7 DEF BootInv, ReadOK
  <2>2. read \subseteq home.sessions /\ (read # {} => f \in read)
    BY <1>7, <2>1 DEF read, BootInv, WorldOK, OnePerId
  <2>3. \A s \in home.sessions : Gathered(s) => Gathered(s)'
    BY <1>1, <1>2, <1>4, <1>7, <2>2 DEF Gathered, BootInv, AssemblyOK
  <2>4. \A id : Expected(id) => Expected(id)'
    BY <1>1, <1>2, <1>4, <1>7 DEF Expected
  <2>5. /\ asm'.sessions \subseteq home.sessions /\ asm'.todo.sessions \subseteq home.sessions
        /\ asm'.tasks = asm.tasks
    BY <1>1, <1>2, <1>4, <1>7, <2>1, <2>2 DEF BootInv, ReadOK
  <2>6. "sessions" \notin asm'.unlisted \cup seen'.failed
    BY <1>1, <1>4, <1>7 DEF BootInv, ReadOK
  <2>7. ReadOK'
    BY <1>1, <1>4, <2>3, <2>4, <2>5, <2>6 DEF BootInv, ReadOK
  <2>8. QED  BY <1>5, <1>6, <2>7 DEF BootInv
<1>8. CASE dir = "tasks"
  <2>1. read \subseteq home.tasks
    BY <1>8 DEF read
  <2>2. \A s : Gathered(s) => Gathered(s)'
    BY <1>1, <1>2, <1>4, <1>8 DEF Gathered
  <2>3. \A l \in seen.done : Expected(l.target)'
    <3> SUFFICES ASSUME NEW l \in seen.done PROVE Expected(l.target)'
      OBVIOUS
    <3>1. Expected(l.target)
      BY <1>1 DEF BootInv, ReadOK
    <3>2. PICK u \in home.tasks : u.id = l.target /\ u.status = "done"
      BY <1>1 DEF BootInv, SeenOK, TargetsDone, TargetClosed
    <3>3. read # {} /\ f.id = l.target => u \in read
      BY <1>8, <3>2 DEF read, BootInv, WorldOK, OnePerId
    <3>4. CASE asm'.bad.tasks > 0
      BY <3>4 DEF Expected
    <3>5. CASE read # {} /\ asm'.tasks = asm.tasks \cup read /\ asm'.bad = asm.bad
      <4>1. CASE f.id = l.target
        BY <3>2, <3>3, <3>5, <4>1 DEF Expected
      <4>2. CASE f.id # l.target
        BY <1>1, <1>2, <1>4, <1>8, <3>1, <3>5, <4>2 DEF Expected
      <4>3. QED  BY <4>1, <4>2
    <3>6. QED  BY <1>4, <1>8, <3>4, <3>5
  <2>4. \A t \in asm'.tasks : t.status = "done" => \A l \in seen.open : l.target # t.id
    <3> SUFFICES ASSUME NEW t \in asm'.tasks, t.status = "done", NEW l \in seen.open, l.target = t.id
                 PROVE  FALSE
      OBVIOUS
    <3>1. t \in asm.tasks \/ t \in home.tasks
      BY <1>4, <1>8, <2>1
    <3>2. ~TargetClosed(l, home.tasks)
      BY <1>1 DEF BootInv, SeenOK, Now, OpenLoops
    <3>3. QED  BY <1>1, <3>1, <3>2 DEF BootInv, ReadOK, TargetClosed
  <2>5. asm'.sessions = asm.sessions /\ asm'.todo.sessions = asm.todo.sessions
    BY <1>2, <1>4, <1>8
  <2>6. ReadOK'
    BY <1>1, <1>4, <2>2, <2>3, <2>4, <2>5 DEF BootInv, ReadOK
  <2>7. QED  BY <1>5, <1>6, <2>6 DEF BootInv
<1>9. QED  BY <1>7, <1>8

----------------------------------------------------------------------------
(* What others do.                                                         *)

\* Files that come and change, and pull requests that do, leave true what was gathered.
LEMMA WorldMoves ==
  ASSUME BootInv, Begun, WorldOK', SeenNow(home', github'), home.sessions \subseteq home'.sessions,
         home'.branches = home.branches,
         DOMAIN asm' = DOMAIN asm, asm'.at = asm.at, asm'.unlisted = asm.unlisted, asm'.todo = asm.todo,
         asm'.tasks = asm.tasks, asm'.sessions = asm.sessions, asm'.bad = asm.bad, asm'.live = asm.live
  PROVE  BootInv'
<1>1. /\ seen'.open = seen.open \cap Now(home') /\ seen'.closed = seen.closed
      /\ seen'.done = seen.done \cap TargetsDone(home')
      /\ seen'.had = seen.had \cap WithPr(github') /\ seen'.hadNot = seen.hadNot \ WithPr(github')
      /\ seen'.failed = seen.failed /\ DOMAIN seen' = DOMAIN NoneSeen
  BY DEF SeenNow, NoneSeen
<1>2. AssemblyOK'
  BY DEF BootInv, AssemblyOK
<1>3. SeenOK'
  <2>1. Branches' = Branches /\ WithPr(github)' = WithPr(github')
    BY DEF Branches, WithPr
  <2>2. Now(home)' = Now(home') /\ TargetsDone(home)' = TargetsDone(home')
    BY DEF Now, TargetsDone, Filed
  <2>3. QED  BY <1>1, <2>1, <2>2 DEF BootInv, SeenOK
<1>4. ReadOK'
  <2>1. \A s : Gathered(s)' = Gathered(s)
    BY <1>1 DEF Gathered
  <2>2. \A id : Expected(id)' = Expected(id)
    BY <1>1 DEF Expected
  <2>3. QED  BY <1>1, <2>1, <2>2 DEF BootInv, ReadOK
<1>5. LiveOK'
  BY <1>1 DEF BootInv, LiveOK, LiveTruthful, ListTrue, Shown, Branches
<1>6. QED  BY <1>2, <1>3, <1>4, <1>5 DEF BootInv

LEMMA ArchivedWorld == ASSUME WorldOK, NEW id, home' = Archived(home, id), UNCHANGED github PROVE WorldOK'
<1>1. /\ DOMAIN home' = DOMAIN home /\ home'.tasks = {t \in home.tasks : t.id # id}
      /\ home'.sessions = home.sessions /\ home'.branches = home.branches
  BY DEF Archived, WorldOK
<1>2. QED  BY <1>1 DEF WorldOK, OnePerId, Branches

LEMMA ArchiveMoveKeeps == BootInv /\ ArchiveMove => BootInv'
<1> SUFFICES ASSUME BootInv, ArchiveMove PROVE BootInv'
  OBVIOUS
<1>1. Begun /\ home' = Archived(home, asm.moving) /\ SeenNow(home', github') /\ UNCHANGED github
  BY DEF ArchiveMove, Begun, SeenNow
<1>2. WorldOK'
  BY <1>1, ArchivedWorld DEF BootInv
<1>3. home'.sessions = home.sessions /\ home'.branches = home.branches
  BY <1>1 DEF Archived, BootInv, WorldOK
<1>4. /\ DOMAIN asm' = DOMAIN asm
      /\ \A f \in AssemblyFields \ {"moving"} : asm'[f] = asm[f]
  BY DEF ArchiveMove, BootInv, AssemblyOK
<1>5. QED  BY <1>1, <1>2, <1>3, <1>4, WorldMoves DEF AssemblyFields

LEMMA TaskMovesKeep == ASSUME BootInv, NEW id, TaskMoves(id) PROVE BootInv'
<1>1. Begun /\ UNCHANGED <<github, asm>> /\ SeenNow(home', github')
  BY DEF TaskMoves, Changes, Runs, Begun, SeenNow
<1>2. WorldOK' /\ home'.sessions = home.sessions /\ home'.branches = home.branches
  <2> PICK t \in {u \in home.tasks : u.id = id} :
        \/ \E status \in {"open", "done"} \ {t.status} :
             home' = [home EXCEPT !.tasks = (@ \ {t}) \cup {[t EXCEPT !.status = status, !.stale = FALSE]}]
        \/ t.status = "done" /\ t.stale /\ home' = Archived(home, id)
    BY DEF TaskMoves
  <2>1. CASE home' = Archived(home, id)
    <3>1. WorldOK'
      BY <1>1, <2>1, ArchivedWorld DEF BootInv
    <3>2. home'.sessions = home.sessions /\ home'.branches = home.branches
      BY <2>1 DEF Archived, BootInv, WorldOK
    <3>3. QED  BY <3>1, <3>2
  <2>2. CASE \E status \in {"open", "done"} \ {t.status} :
               home' = [home EXCEPT !.tasks = (@ \ {t}) \cup {[t EXCEPT !.status = status, !.stale = FALSE]}]
    <3> PICK status \in {"open", "done"} :
          home' = [home EXCEPT !.tasks = (@ \ {t}) \cup {[t EXCEPT !.status = status, !.stale = FALSE]}]
      BY <2>2
    <3> DEFINE new == [t EXCEPT !.status = status, !.stale = FALSE]
    <3>1. DOMAIN new = DOMAIN t /\ new.id = t.id
      BY DEF BootInv, WorldOK
    <3>2. /\ DOMAIN home' = DOMAIN home /\ home'.tasks = (home.tasks \ {t}) \cup {new}
          /\ home'.sessions = home.sessions /\ home'.branches = home.branches
      BY DEF BootInv, WorldOK
    <3> HIDE DEF new
    <3>3. OnePerId(home'.tasks) /\ \A u \in home'.tasks : {"id", "status", "stale"} \subseteq DOMAIN u
      <4>1. t \in home.tasks /\ \A u \in home.tasks \ {t} : u.id # t.id
        BY DEF BootInv, WorldOK, OnePerId
      <4>2. /\ \A u, v \in home.tasks \ {t} : u.id = v.id => u = v
            /\ \A u \in home.tasks : {"id", "status", "stale"} \subseteq DOMAIN u
        BY DEF BootInv, WorldOK, OnePerId
      <4>3. \A u \in home'.tasks : u = new \/ u \in home.tasks \ {t}
        BY <3>2
      <4>4. OnePerId(home'.tasks)
        BY <3>1, <4>1, <4>2, <4>3 DEF OnePerId
      <4>5. \A u \in home'.tasks : {"id", "status", "stale"} \subseteq DOMAIN u
        BY <3>1, <4>1, <4>2, <4>3
      <4>6. QED  BY <4>4, <4>5
    <3>4. QED  BY <1>1, <3>2, <3>3 DEF BootInv, WorldOK, OnePerId, Branches
  <2>3. QED  BY <2>1, <2>2
<1>3. QED  BY <1>1, <1>2, WorldMoves

LEMMA WrapKeeps == ASSUME BootInv, NEW s \in Later, Wrap(s) PROVE BootInv'
<1>1. Begun /\ UNCHANGED <<github, asm>> /\ SeenNow(home', github')
  BY DEF Wrap, Changes, Runs, Begun, SeenNow
<1>2. /\ DOMAIN home' = DOMAIN home /\ home'.sessions = home.sessions \cup {s}
      /\ home'.tasks = home.tasks /\ home'.branches = home.branches
      /\ \A o \in home.sessions : o.id # s.id
  BY DEF Wrap, BootInv, WorldOK
<1>3. OpensOwn(s)
  BY StartsAssumption
<1>4. WorldOK'
  BY <1>1, <1>2, <1>3 DEF BootInv, WorldOK, OnePerId, Branches
<1>5. QED  BY <1>1, <1>2, <1>4, WorldMoves

LEMMA PrMovesKeep == ASSUME BootInv, NEW b \in Branches, b.repo \in Repos, PrMoves(b.repo, b.name) PROVE BootInv'
<1>1. Begun /\ UNCHANGED <<home, asm>> /\ SeenNow(home', github')
  BY DEF PrMoves, Changes, Runs, Begun, SeenNow
<1>2. github[b.repo] \in Seq(Heads) /\ b.name \in Heads /\ github \in [Repos -> Seq(Heads)]
  BY DEF BootInv, WorldOK
<1>3. <<b.name>> \o github[b.repo] \in Seq(Heads)
  BY <1>2
<1>4. github' \in [Repos -> Seq(Heads)]
  <2>1. CASE github' = [github EXCEPT ![b.repo] = <<b.name>> \o @]
    BY <1>2, <1>3, <2>1
  <2>2. CASE \E i \in DOMAIN github[b.repo] : github' = [github EXCEPT ![b.repo] = RemoveAt(@, i)]
    <3>1. PICK i \in DOMAIN github[b.repo] : github' = [github EXCEPT ![b.repo] = RemoveAt(@, i)]
      BY <2>2
    <3>2. RemoveAt(github[b.repo], i) \in Seq(Heads)
      BY <1>2, RemoveAtFacts
    <3>3. QED  BY <1>2, <3>1, <3>2
  <2>3. QED  BY <2>1, <2>2 DEF PrMoves
<1>5. WorldOK'
  BY <1>1, <1>4 DEF BootInv, WorldOK, Branches
<1>6. QED  BY <1>1, <1>5, WorldMoves

----------------------------------------------------------------------------
(* Lists of pull requests, and what they say of a branch.                  *)

\* The branches that are shown are branches of the initiative.
LEMMA ShownAreBranches == WorldOK => \A i \in DOMAIN Shown : Shown[i] \in Branches
<1> SUFFICES ASSUME WorldOK, NEW i \in DOMAIN Shown PROVE Shown[i] \in Branches
  OBVIOUS
<1>1. home.branches \in Seq(Branches) /\ LiveLimit \in Nat
  BY BootstrapAssumption DEF WorldOK
<1>2. Shown \in Seq(Branches)
  BY <1>1, FirstNFacts DEF Shown
<1>3. QED  BY <1>2

LEMMA EndReadKeeps == BootInv /\ EndRead => BootInv'
<1> SUFFICES ASSUME BootInv, EndRead PROVE BootInv'
  OBVIOUS
<1>1. /\ asm.at = "read" /\ Begun /\ asm.unlisted = {} /\ asm.todo = NoAssembly.todo
      /\ UNCHANGED <<home, github, seen>>
  BY DEF EndRead, Begun
<1>2. CASE asm' = [asm EXCEPT !.at = "probe"]
  <2>1. DOMAIN asm' = DOMAIN asm /\ asm'.at = "probe" /\ \A f \in AssemblyFields \ {"at"} : asm'[f] = asm[f]
    BY <1>2 DEF BootInv, AssemblyOK, AssemblyFields
  <2>2. QED  BY <1>1, <2>1, QuietKeeps DEF AssemblyFields, LateStages
<1>3. CASE asm' = [asm EXCEPT !.at = "live",
                              !.live = [bulk |-> [r \in {b.repo : b \in Range(Shown)} \cap Repos |-> Unasked],
                                        pr |-> [i \in DOMAIN Shown |-> "unasked"],
                                        git |-> [i \in DOMAIN Shown |-> "waiting"]]]
  <2>1. /\ DOMAIN asm' = DOMAIN asm /\ asm'.at = "live"
        /\ \A f \in AssemblyFields \ {"at", "live"} : asm'[f] = asm[f]
        /\ DOMAIN asm'.live = {"bulk", "pr", "git"}
        /\ asm'.live.bulk = [r \in {b.repo : b \in Range(Shown)} \cap Repos |-> Unasked]
        /\ asm'.live.pr = [i \in DOMAIN Shown |-> "unasked"]
    BY <1>3 DEF BootInv, AssemblyOK, AssemblyFields
  <2>2. /\ asm'.unlisted = asm.unlisted /\ asm'.tasks = asm.tasks /\ asm'.sessions = asm.sessions
        /\ asm'.bad = asm.bad /\ asm'.todo = asm.todo
    BY <2>1 DEF AssemblyFields
  <2>3. AssemblyOK'
    BY <1>1, <2>1, <2>2 DEF BootInv, AssemblyOK, LateStages
  <2>4. WorldOK'
    BY <1>1 DEF BootInv, WorldOK, Branches
  <2>5. SeenOK'
    BY <1>1 DEF BootInv, SeenOK, WithPr, Branches, Now, TargetsDone, Filed
  <2>6. ReadOK'
    <3>1. \A s : Gathered(s)' = Gathered(s)
      BY <1>1, <2>2 DEF Gathered
    <3>2. \A id : Expected(id)' = Expected(id)
      BY <1>1, <2>2 DEF Expected
    <3>3. QED  BY <1>1, <2>2, <3>1, <3>2 DEF BootInv, ReadOK
  <2>7. LiveOK'
    <3>1. Shown' = Shown
      BY <1>1 DEF Shown
    <3>2. \A b : ListTrue(Unasked, b)'
      BY DEF ListTrue, Unasked, Range
    <3>3. \A r \in DOMAIN asm'.live.bulk :
            asm'.live.bulk[r] = Unasked /\ DOMAIN Unasked = {"at", "heads", "complete"}
      BY <2>1 DEF Unasked
    <3>4. \A i \in DOMAIN Shown : Shown[i].repo \in {b.repo : b \in Range(Shown)}
      BY DEF Range
    <3>5. QED  BY <2>1, <3>1, <3>2, <3>3, <3>4 DEF LiveOK, LiveTruthful, ListTrue
  <2>8. QED  BY <2>3, <2>4, <2>5, <2>6, <2>7 DEF BootInv
<1>4. QED  BY <1>2, <1>3 DEF EndRead

\* A step that changes only the lists and the answers.
LEMMA LiveKeeps ==
  ASSUME BootInv, asm.at = "live", UNCHANGED <<home, github, seen>>, LiveOK',
         NEW live, asm' = [asm EXCEPT !.live = live], DOMAIN live = {"bulk", "pr", "git"}
  PROVE  BootInv'
<1>1. DOMAIN asm' = DOMAIN asm /\ asm'.live = live /\ \A f \in AssemblyFields \ {"live"} : asm'[f] = asm[f]
  BY DEF BootInv, AssemblyOK, AssemblyFields
<1>2. /\ asm'.unlisted = asm.unlisted /\ asm'.tasks = asm.tasks /\ asm'.sessions = asm.sessions
      /\ asm'.bad = asm.bad /\ asm'.todo = asm.todo /\ asm'.at = asm.at
  BY <1>1 DEF AssemblyFields
<1>3. AssemblyOK'
  BY <1>1, <1>2 DEF BootInv, AssemblyOK
<1>4. WorldOK'
  BY DEF BootInv, WorldOK, Branches
<1>5. SeenOK'
  BY <1>2 DEF BootInv, SeenOK, WithPr, Branches, Now, TargetsDone, Filed, Begun
<1>6. ReadOK'
  <2>1. \A s : Gathered(s)' = Gathered(s)
    BY <1>2 DEF Gathered
  <2>2. \A id : Expected(id)' = Expected(id)
    BY <1>2 DEF Expected
  <2>3. QED  BY <1>2, <2>1, <2>2 DEF BootInv, ReadOK, Begun
<1>7. QED  BY <1>3, <1>4, <1>5, <1>6 DEF BootInv

\* A list says of a branch what is so while it is asked for, if it is whole.
LEMMA ListsAreTrue ==
  ASSUME BootInv, asm.at = "live", NEW r \in Repos, NEW b \in Branches, b.repo = r, NEW heads,
         heads = FirstN(github[r], BulkLimit)
  PROVE  /\ b.name \in Range(heads) => b \notin seen.hadNot
         /\ Complete(heads) /\ b.name \notin Range(heads) => b \notin seen.had
<1>1. github[r] \in Seq(Heads) /\ BulkLimit \in Nat
  BY BootstrapAssumption DEF BootInv, WorldOK
<1>2. Range(heads) \subseteq Range(github[r]) /\ (Complete(heads) => Range(heads) = Range(github[r]))
  BY <1>1, FirstNFacts DEF Complete
<1>3. b \in WithPr(github) <=> b.name \in Range(github[r])
  BY DEF WithPr
<1>4. seen.had \subseteq WithPr(github) /\ seen.hadNot \cap WithPr(github) = {}
  BY DEF BootInv, SeenOK, Begun
<1>5. QED  BY <1>2, <1>3, <1>4

LEMMA ListRepoKeeps == ASSUME BootInv, NEW r \in Repos, ListRepoPrs(r) PROVE BootInv'
<1> DEFINE heads == FirstN(github[r], BulkLimit)
<1>1. asm.at = "live" /\ r \in DOMAIN asm.live.bulk /\ UNCHANGED <<home, github, seen>>
  BY DEF ListRepoPrs
<1>2. PICK list : /\ asm' = [asm EXCEPT !.live.bulk[r] = list]
                  /\ DOMAIN list = {"at", "heads", "complete"}
                  /\ \A b \in Branches : b.repo = r => ListTrue(list, b)
  <2>1. CASE asm' = [asm EXCEPT !.live.bulk[r] = [at |-> "listed", heads |-> heads, complete |-> Complete(heads)]]
    <3> DEFINE list == [at |-> "listed", heads |-> heads, complete |-> Complete(heads)]
    <3>1. \A b \in Branches : b.repo = r => ListTrue(list, b)
      BY <1>1, ListsAreTrue DEF ListTrue
    <3>2. DOMAIN list = {"at", "heads", "complete"}
      OBVIOUS
    <3>3. QED  BY <2>1, <3>1, <3>2
  <2>2. CASE asm' = [asm EXCEPT !.live.bulk[r].at = "failed"]
    <3> DEFINE list == [asm.live.bulk[r] EXCEPT !.at = "failed"]
    <3>1. asm' = [asm EXCEPT !.live.bulk[r] = list]
      BY <2>2
    <3>2. DOMAIN list = {"at", "heads", "complete"} /\ list.heads = asm.live.bulk[r].heads
          /\ list.complete = asm.live.bulk[r].complete
      BY <1>1 DEF BootInv, LiveOK
    <3>3. \A b \in Branches : b.repo = r => ListTrue(list, b)
      BY <1>1, <3>2 DEF BootInv, LiveOK, ListTrue
    <3>4. QED  BY <3>1, <3>2, <3>3
  <2>3. QED  BY <2>1, <2>2 DEF ListRepoPrs
<1> DEFINE live == [asm.live EXCEPT !.bulk[r] = list]
<1>3. asm' = [asm EXCEPT !.live = live]
  BY <1>2
<1>4. /\ DOMAIN live = {"bulk", "pr", "git"} /\ DOMAIN live.bulk = DOMAIN asm.live.bulk
      /\ live.bulk[r] = list /\ live.pr = asm.live.pr
      /\ \A q \in DOMAIN asm.live.bulk : q # r => live.bulk[q] = asm.live.bulk[q]
  BY <1>1 DEF BootInv, AssemblyOK
<1> HIDE DEF live
<1>5. asm'.live = live
  BY <1>3 DEF BootInv, AssemblyOK, AssemblyFields
<1>6. LiveOK'
  <2>1. \A l, b : ListTrue(l, b)' = ListTrue(l, b)
    BY <1>1 DEF ListTrue
  <2>2. Branches' = Branches /\ Shown' = Shown
    BY <1>1 DEF Branches, Shown
  <2>3. \A q \in DOMAIN live.bulk : /\ DOMAIN live.bulk[q] = {"at", "heads", "complete"}
                                    /\ \A b \in Branches : b.repo = q => ListTrue(live.bulk[q], b)
    BY <1>2, <1>4 DEF BootInv, LiveOK
  <2>4. LiveTruthful'
    BY <1>1, <1>4, <1>5, <2>2 DEF BootInv, LiveOK, LiveTruthful
  <2>5. QED  BY <1>4, <1>5, <2>1, <2>2, <2>3, <2>4 DEF BootInv, LiveOK
<1>7. QED  BY <1>1, <1>3, <1>4, <1>6, LiveKeeps

\* Whether the answer comes from the list or from a query of its own, it was so.
LEMMA BranchPrKeeps == ASSUME BootInv, NEW i \in 1 .. LiveLimit, BranchPr(i) PROVE BootInv'
<1> DEFINE b == Shown[i]
<1>1. asm.at = "live" /\ i \in DOMAIN asm.live.pr /\ UNCHANGED <<home, github, seen>>
  BY DEF BranchPr
<1>2. b \in Branches /\ i \in DOMAIN Shown
  BY <1>1, ShownAreBranches DEF BootInv, LiveOK
<1>3. seen.had \subseteq WithPr(github) /\ seen.hadNot \cap WithPr(github) = {}
  BY <1>1 DEF BootInv, SeenOK, Begun
<1>4. PICK pr : /\ Answer(i, pr)
                /\ pr = "open" => b \notin seen.hadNot
                /\ pr = "none" => b \notin seen.had
  <2>1. CASE b.repo \notin Repos
    <3>1. Answer(i, "elsewhere")
      BY <2>1 DEF BranchPr
    <3>2. QED  BY <3>1
  <2>2. CASE b.repo \in Repos
    <3> DEFINE index == asm.live.bulk[b.repo]
    <3>1. ListTrue(index, b)
      BY <1>1, <1>2, <2>2 DEF BootInv, LiveOK
    <3>2. b \in WithPr(github) <=> b.name \in Range(github[b.repo])
      BY <1>2, <2>2 DEF WithPr
    <3>3. CASE b.name \in Range(index.heads)
      <4>1. Answer(i, "open")
        BY <2>2, <3>3 DEF BranchPr
      <4>2. QED  BY <3>1, <3>3, <4>1 DEF ListTrue
    <3>4. CASE b.name \notin Range(index.heads) /\ index.complete
      <4>1. Answer(i, "none")
        BY <2>2, <3>4 DEF BranchPr
      <4>2. QED  BY <3>1, <3>4, <4>1 DEF ListTrue
    <3>5. CASE b.name \notin Range(index.heads) /\ ~index.complete
      <4>1. \/ Answer(i, IF b.name \in Range(github[b.repo]) THEN "open" ELSE "none")
            \/ Answer(i, "failed")
        BY <2>2, <3>5 DEF BranchPr
      <4>2. QED  BY <1>3, <3>2, <4>1
    <3>6. QED  BY <3>3, <3>4, <3>5
  <2>3. QED  BY <2>1, <2>2
<1> DEFINE live == [asm.live EXCEPT !.pr[i] = pr]
<1>5. asm' = [asm EXCEPT !.live = live]
  BY <1>4 DEF Answer
<1>6. /\ DOMAIN live = {"bulk", "pr", "git"} /\ DOMAIN live.pr = DOMAIN asm.live.pr
      /\ live.pr[i] = pr /\ live.bulk = asm.live.bulk
      /\ \A j \in DOMAIN asm.live.pr : j # i => live.pr[j] = asm.live.pr[j]
  BY <1>1 DEF BootInv, AssemblyOK
<1> HIDE DEF live
<1>7. asm'.live = live
  BY <1>5 DEF BootInv, AssemblyOK, AssemblyFields
<1>8. LiveOK'
  <2>1. \A l, c : ListTrue(l, c)' = ListTrue(l, c)
    BY <1>1 DEF ListTrue
  <2>2. Branches' = Branches /\ Shown' = Shown
    BY <1>1 DEF Branches, Shown
  <2>3. LiveTruthful'
    BY <1>1, <1>4, <1>6, <1>7, <2>2 DEF BootInv, LiveOK, LiveTruthful
  <2>4. QED  BY <1>6, <1>7, <2>1, <2>2, <2>3 DEF BootInv, LiveOK
<1>9. QED  BY <1>1, <1>5, <1>6, <1>8, LiveKeeps

----------------------------------------------------------------------------
(* The theorems.                                                           *)

LEMMA BootstrapInductive == BootInv /\ [BootstrapNext]_bootstrapVars => BootInv'
<1> SUFFICES ASSUME BootInv, [BootstrapNext]_bootstrapVars PROVE BootInv'
  OBVIOUS
<1>1. CASE UNCHANGED bootstrapVars
  <2>1. UNCHANGED <<home, github, asm, seen>>
    BY <1>1 DEF bootstrapVars
  <2>2. AssemblyOK' /\ WorldOK'
    BY <2>1 DEF BootInv, AssemblyOK, WorldOK, Branches
  <2>3. SeenOK'
    BY <2>1 DEF BootInv, SeenOK, WithPr, Branches, Now, TargetsDone, Filed, Begun
  <2>4. ReadOK'
    BY <2>1 DEF BootInv, ReadOK, Begun, Gathered, Expected
  <2>5. LiveOK'
    BY <2>1 DEF BootInv, LiveOK, LiveTruthful, ListTrue, Shown, Branches
  <2>6. QED  BY <2>2, <2>3, <2>4, <2>5 DEF BootInv
<1>2. CASE Assemble
  BY <1>2, OpenStarts, ArchiveReadKeeps, ArchiveMoveKeeps, ListKeeps, ListFailsKeeps, LoadKeeps, ReadRestKeeps,
     EndReadKeeps, ListRepoKeeps, BranchPrKeeps, GitKeeps, EndLiveKeeps, HitsKeep, KillKeepsPrompt DEF Assemble
<1>3. CASE Meanwhile
  BY <1>3, TaskMovesKeep, WrapKeeps, PrMovesKeep DEF Meanwhile
<1>4. QED  BY <1>1, <1>2, <1>3 DEF BootstrapNext

\* What is gathered for the prompt stays true while others write: the files that count are
\* held, listed or reported as unreadable, and no list of pull requests claims too much.
THEOREM PromptInvariant == BootstrapSpec => []BootInv
<1>1. QED  BY BootstrapStarts, BootstrapInductive, PTL DEF BootstrapSpec

\* For every initiative, facet and limit, and whatever others write meanwhile: a loop that
\* is open from the start of the assembly to its end is in the prompt, and one that was
\* closed by a session before, or by its task all the time, is not, unless the prompt says
\* that a file could not be read; and a directory that cannot be listed, of which it says
\* nothing, hides loops or the ends of their tasks, but brings back none that a session
\* closed (assembleBootstrap, deriveOpenLoopsFrom).
THEOREM LoopsAreHonest == BootstrapSpec => []LoopsHonest
<1>1. BootInv => LoopsHonest
  <2> SUFFICES ASSUME BootInv, Done, asm.bad = NoAssembly.bad
               PROVE  /\ "sessions" \notin seen.failed => seen.open \subseteq OpenLoops(asm.sessions, asm.tasks)
                      /\ OpenLoops(asm.sessions, asm.tasks) \cap seen.closed = {}
                      /\ "tasks" \notin seen.failed => OpenLoops(asm.sessions, asm.tasks) \cap seen.done = {}
    BY DEF LoopsHonest
  <2>1. Begun /\ asm.unlisted = {} /\ asm.todo.tasks = {} /\ asm.todo.sessions = {}
    BY DEF Done, Begun, BootInv, AssemblyOK, LateStages, NoAssembly
  <2>2. asm.bad.tasks = 0 /\ asm.bad.sessions = 0
    BY DEF NoAssembly
  <2>3. "sessions" \notin seen.failed => \A s : Gathered(s) => s \in asm.sessions
    BY <2>1, <2>2 DEF Gathered
  <2>4. "tasks" \notin seen.failed => \A id : Expected(id) => \E t \in asm.tasks : t.id = id /\ t.status = "done"
    BY <2>1, <2>2 DEF Expected
  <2>5. asm.sessions \subseteq home.sessions
    BY <2>1 DEF BootInv, ReadOK
  <2>6. \A o, q \in home.sessions : \A l : l \in o.opens /\ l \in q.opens => o = q
    BY DEF BootInv, WorldOK, OpensOwn, OnePerId
  <2>7. ASSUME "sessions" \notin seen.failed, NEW l \in seen.open PROVE l \in OpenLoops(asm.sessions, asm.tasks)
    <3>1. PICK o \in home.sessions : l \in o.opens /\ o \in asm.sessions
      BY <2>1, <2>3, <2>7 DEF BootInv, ReadOK
    <3>2. PICK q \in home.sessions : l \in q.opens /\ ~Resolved(home.sessions, q, l)
      BY <2>1, <2>7 DEF BootInv, SeenOK, Now, OpenLoops
    <3>3. ~Resolved(asm.sessions, o, l)
      BY <2>5, <2>6, <3>1, <3>2 DEF Resolved
    <3>4. ~TargetClosed(l, asm.tasks)
      BY <2>1, <2>7 DEF BootInv, ReadOK, TargetClosed
    <3>5. QED  BY <3>1, <3>3, <3>4 DEF OpenLoops
  <2>8. ASSUME NEW l \in OpenLoops(asm.sessions, asm.tasks), l \in seen.closed PROVE FALSE
    <3>1. PICK q \in asm.sessions : l \in q.opens /\ ~Resolved(asm.sessions, q, l)
      BY <2>8 DEF OpenLoops
    <3>2. "sessions" \notin seen.failed
      BY <2>1, <3>1 DEF BootInv, ReadOK
    <3>3. PICK o \in home.sessions, s \in home.sessions :
             l \in o.opens /\ Resolves(s, o, l) /\ o \in asm.sessions /\ s \in asm.sessions
      BY <2>1, <2>3, <2>8, <3>2 DEF BootInv, ReadOK
    <3>4. QED  BY <2>5, <2>6, <3>1, <3>3 DEF Resolved
  <2>9. ASSUME "tasks" \notin seen.failed, NEW l \in OpenLoops(asm.sessions, asm.tasks), l \in seen.done
        PROVE  FALSE
    <3>1. ~TargetClosed(l, asm.tasks)
      BY <2>9 DEF OpenLoops
    <3>2. \E t \in asm.tasks : t.id = l.target /\ t.status = "done"
      BY <2>1, <2>4, <2>9 DEF BootInv, ReadOK
    <3>3. QED  BY <3>1, <3>2 DEF TargetClosed
  <2>10. QED  BY <2>7, <2>8, <2>9
<1>2. QED  BY <1>1, PromptInvariant, PTL

\* A branch is shown with a pull request, or without one, only if that was so at some time
\* while the prompt was put together, for every limit of the lists and every number of
\* branches (defaultLiveStatusFetcher).
THEOREM LiveIsTruthful == BootstrapSpec => []LiveTruthful
<1>1. BootInv => LiveTruthful
  BY DEF BootInv, LiveOK
<1>2. QED  BY <1>1, PromptInvariant, PTL

----------------------------------------------------------------------------
(* What is related to the loops: sums.                                     *)

\* A set of numbers has a least one.
LEMMA LeastOf == ASSUME NEW T, T \subseteq Nat, T # {} PROVE \E n \in T : \A m \in T : n <= m
<1>1. PICK n \in T : \A m \in T : ~(<<m, n>> \in OpToRel(<, Nat))
  BY NatLessThanWellFounded, WFMin
<1>2. ASSUME NEW m \in T PROVE n <= m
  <2>1. ~(m < n)
    BY <1>1 DEF OpToRel
  <2>2. QED  BY <2>1
<1>3. QED  BY <1>2

\* What holds of 0, and of each number after one of which it holds, holds up to the last.
LEMMA Upwards ==
  ASSUME NEW N \in Nat, NEW S, 0 \in S, \A n \in 0 .. (N - 1) : n \in S => n + 1 \in S
  PROVE  0 .. N \subseteq S
<1> DEFINE bad == {n \in 0 .. N : n \notin S}
<1>1. SUFFICES ASSUME bad # {} PROVE FALSE
  BY DEF bad
<1>2. PICK n \in bad : \A m \in bad : n <= m
  <2>1. bad \subseteq Nat
    OBVIOUS
  <2>2. QED  BY <2>1, <1>1, LeastOf
<1>3. n \in 0 .. N /\ n \notin S /\ n # 0
  BY <1>2
<1>4. n - 1 \in 0 .. (N - 1) /\ n - 1 \in S
  BY <1>2, <1>3
<1>5. (n - 1) + 1 = n
  BY <1>3
<1>6. QED  BY <1>3, <1>4, <1>5

\* A function on the first N numbers is a sequence.
LEMMA SequenceOf ==
  ASSUME NEW S, NEW N \in Nat, NEW q \in [1 .. N -> S]
  PROVE  q \in Seq(S) /\ Len(q) = N /\ DOMAIN q = 1 .. N
<1>1. q \in Seq(S)
  BY SeqDef
<1>2. Len(q) \in Nat /\ DOMAIN q = 1 .. Len(q) /\ DOMAIN q = 1 .. N
  BY <1>1, LenProperties
<1> DEFINE n == Len(q)
<1>3. n \in Nat /\ 1 .. n = 1 .. N
  BY <1>2
<1> HIDE DEF n
<1>4. n = N
  <2>1. CASE n < N
    <3>1. N \in 1 .. N /\ N \notin 1 .. n
      BY <1>3, <2>1
    <3>2. QED  BY <1>3, <3>1
  <2>2. CASE N < n
    <3>1. n \in 1 .. n /\ n \notin 1 .. N
      BY <1>3, <2>2
    <3>2. QED  BY <1>3, <3>1
  <2>3. QED  BY <1>3, <2>1, <2>2
<1>5. QED  BY <1>1, <1>2, <1>4 DEF n

\* A sum of no numbers is 0, and each number adds to the sum of those before it.
LEMMA SumFacts ==
  ASSUME NEW N \in Nat, NEW q \in [1 .. N -> Nat]
  PROVE  /\ SumTo(q)[0] = 0
         /\ \A n \in 0 .. N : SumTo(q)[n] \in Nat
         /\ \A n \in 1 .. N : SumTo(q)[n] = SumTo(q)[n - 1] + q[n]
<1> DEFINE sums(n, f) == f \in [0 .. n -> Nat] /\ f[0] = 0 /\ \A m \in 1 .. n : f[m] = f[m - 1] + q[m]
           S == {n \in 0 .. N : \E f : sums(n, f)}
           is(f) == f = [n \in 0 .. Len(q) |-> IF n = 0 THEN 0 ELSE f[n - 1] + q[n]]
<1>1. Len(q) = N /\ DOMAIN q = 1 .. N
  BY SequenceOf
<1>2. 0 \in S
  <2>1. sums(0, [n \in 0 .. 0 |-> 0])
    OBVIOUS
  <2> HIDE DEF sums
  <2>2. \E f : sums(0, f)
    BY <2>1
  <2>3. QED  BY <2>2
<1>3. ASSUME NEW n \in 0 .. (N - 1), n \in S PROVE n + 1 \in S
  <2>1. PICK f : sums(n, f)
    BY <1>3
  <2> DEFINE g == [m \in 0 .. (n + 1) |-> IF m = n + 1 THEN f[n] + q[n + 1] ELSE f[m]]
  <2>2. n \in Nat /\ n + 1 \in 1 .. N /\ q[n + 1] \in Nat
    OBVIOUS
  <2>3. g \in [0 .. (n + 1) -> Nat] /\ g[0] = 0
    <3>1. f[n] + q[n + 1] \in Nat
      BY <2>1, <2>2
    <3>2. ASSUME NEW m \in 0 .. (n + 1), m # n + 1 PROVE f[m] \in Nat
      <4>1. m \in 0 .. n
        BY <3>2, <2>2
      <4>2. QED  BY <4>1, <2>1
    <3>3. 0 \in 0 .. (n + 1) /\ 0 # n + 1
      BY <2>2
    <3>4. QED  BY <3>1, <3>2, <3>3, <2>1
  <2>4. ASSUME NEW m \in 1 .. (n + 1) PROVE g[m] = g[m - 1] + q[m]
    <3>1. m \in 0 .. (n + 1) /\ m - 1 \in 0 .. n /\ m - 1 # n + 1 /\ m - 1 \in 0 .. (n + 1)
      BY <2>2
    <3>2. g[m - 1] = f[m - 1]
      BY <3>1
    <3>3. CASE m = n + 1
      BY <3>1, <3>2, <3>3, <2>2
    <3>4. CASE m # n + 1
      <4>1. g[m] = f[m]
        BY <3>1, <3>4
      <4>2. m \in 1 .. n
        BY <3>4, <2>2
      <4>3. f[m] = f[m - 1] + q[m]
        BY <4>2, <2>1
      <4>4. QED  BY <4>1, <4>3, <3>2
    <3>5. QED  BY <3>3, <3>4
  <2>5. sums(n + 1, g)
    <3> HIDE DEF g
    <3>1. QED  BY <2>3, <2>4
  <2>6. n + 1 \in 0 .. N /\ \E h : sums(n + 1, h)
    <3> HIDE DEF g, sums
    <3>1. QED  BY <2>2, <2>5
  <2>7. QED  BY <2>6
<1>4. PICK f : sums(N, f)
  <2>1. 0 .. N \subseteq S
    <3> HIDE DEF S
    <3>1. QED  BY <1>2, <1>3, Upwards
  <2>2. N \in S
    <3> HIDE DEF S
    <3>1. N \in 0 .. N
      OBVIOUS
    <3>2. QED  BY <2>1, <3>1
  <2>3. QED  BY <2>2
<1>5. is(f)
  BY <1>1, <1>4
<1> DEFINE r == CHOOSE g : is(g)
<1>6. is(r)
  BY <1>5
<1>7. SumTo(q) = r
  BY DEF SumTo
<1>8. r[0] = 0 /\ \A n \in 1 .. N : r[n] = r[n - 1] + q[n]
  <2> HIDE DEF r
  <2>1. QED  BY <1>1, <1>6
<1> HIDE DEF r
<1>9. \A n \in 0 .. N : r[n] \in Nat
  <2> DEFINE T == {n \in 0 .. N : r[n] \in Nat}
  <2>1. 0 \in T
    BY <1>8
  <2>2. ASSUME NEW n \in 0 .. (N - 1), n \in T PROVE n + 1 \in T
    <3>1. n + 1 \in 1 .. N /\ (n + 1) - 1 = n /\ q[n + 1] \in Nat
      OBVIOUS
    <3>2. r[n + 1] = r[n] + q[n + 1]
      BY <1>8, <3>1
    <3>3. QED  BY <2>2, <3>1, <3>2
  <2>3. 0 .. N \subseteq T
    <3> HIDE DEF T
    <3>1. QED  BY <2>1, <2>2, Upwards
  <2>4. QED  BY <2>3
<1>10. QED  BY <1>7, <1>8, <1>9

\* What the hits at some places of a list cost.
Costs(hits, places) == SumTo([i \in DOMAIN hits |-> IF i \in places THEN hits[i].cost ELSE 0])

CostsAre(c, hits, N, P) ==
  /\ c[0] = 0 /\ \A n \in 0 .. N : c[n] \in Nat
  /\ \A n \in 1 .. N : c[n] = c[n - 1] + (IF n \in P THEN hits[n].cost ELSE 0)

Priced(hits, N) == N \in Nat /\ DOMAIN hits = 1 .. N /\ \A i \in 1 .. N : hits[i].cost \in Nat

\* What they cost, number by number: no less for more of them.
LEMMA CostFacts ==
  ASSUME NEW hits, NEW N, Priced(hits, N), NEW P
  PROVE  CostsAre(Costs(hits, P), hits, N, P)
<1>p. N \in Nat /\ DOMAIN hits = 1 .. N /\ \A i \in 1 .. N : hits[i].cost \in Nat
  BY DEF Priced
<1> DEFINE q == [i \in 1 .. N |-> IF i \in P THEN hits[i].cost ELSE 0]
<1>1. q \in [1 .. N -> Nat] /\ Costs(hits, P) = SumTo(q)
  BY <1>p DEF Costs
<1>2. \A n \in 1 .. N : q[n] = IF n \in P THEN hits[n].cost ELSE 0
  OBVIOUS
<1> HIDE DEF q
<1>3. /\ SumTo(q)[0] = 0 /\ \A n \in 0 .. N : SumTo(q)[n] \in Nat
      /\ \A n \in 1 .. N : SumTo(q)[n] = SumTo(q)[n - 1] + q[n]
  BY <1>p, <1>1, SumFacts
<1>4. QED  BY <1>1, <1>2, <1>3 DEF CostsAre

\* More places cost no less; and one place more costs that hit more.
LEMMA CostsGrow ==
  ASSUME NEW hits, NEW N, Priced(hits, N),
         NEW P, NEW Q, NEW m \in 0 .. N, P \cap 1 .. m \subseteq Q
  PROVE  Costs(hits, P)[m] <= Costs(hits, Q)[m]
<1> DEFINE c == Costs(hits, P)
           d == Costs(hits, Q)
           S == {n \in 0 .. m : c[n] <= d[n]}
<1>p. N \in Nat /\ DOMAIN hits = 1 .. N /\ \A i \in 1 .. N : hits[i].cost \in Nat
  BY DEF Priced
<1>c. CostsAre(c, hits, N, P)
  BY CostFacts
<1>d. CostsAre(d, hits, N, Q)
  BY CostFacts
<1> HIDE DEF c, d
<1>1. /\ c[0] = 0 /\ \A n \in 0 .. N : c[n] \in Nat
      /\ \A n \in 1 .. N : c[n] = c[n - 1] + (IF n \in P THEN hits[n].cost ELSE 0)
  BY <1>p, <1>c DEF CostsAre
<1>2. /\ d[0] = 0 /\ \A n \in 0 .. N : d[n] \in Nat
      /\ \A n \in 1 .. N : d[n] = d[n - 1] + (IF n \in Q THEN hits[n].cost ELSE 0)
  BY <1>p, <1>d DEF CostsAre
<1>3. m \in Nat /\ m <= N /\ 0 \in S
  BY <1>p, <1>1, <1>2
<1>4. ASSUME NEW n \in 0 .. (m - 1), n \in S PROVE n + 1 \in S
  <2>1. n \in 0 .. N /\ n + 1 \in 1 .. N /\ n + 1 \in 1 .. m /\ n + 1 \in 0 .. m /\ (n + 1) - 1 = n
    BY <1>p, <1>3
  <2>2. n + 1 \in P => n + 1 \in Q
    BY <1>p, <2>1
  <2>3. /\ c[n + 1] = c[n] + (IF n + 1 \in P THEN hits[n + 1].cost ELSE 0)
        /\ d[n + 1] = d[n] + (IF n + 1 \in Q THEN hits[n + 1].cost ELSE 0)
    BY <1>p, <1>1, <1>2, <2>1
  <2>4. c[n] \in Nat /\ d[n] \in Nat /\ hits[n + 1].cost \in Nat /\ c[n] <= d[n]
    BY <1>p, <1>1, <1>2, <1>4, <2>1
  <2>5. c[n + 1] <= d[n + 1]
    BY <1>p, <2>2, <2>3, <2>4
  <2>6. QED  BY <1>p, <2>1, <2>5
<1>5. 0 .. m \subseteq S
  <2> HIDE DEF S
  <2>1. QED  BY <1>p, <1>3, <1>4, Upwards
<1>6. m \in S
  <2> HIDE DEF S
  <2>1. m \in 0 .. m
    BY <1>p, <1>3
  <2>2. QED  BY <1>p, <1>5, <2>1
<1>7. QED  BY <1>p, <1>6 DEF c, d

\* What they cost does not fall from one place of the list to the next.
LEMMA CostsMount ==
  ASSUME NEW hits, NEW N, Priced(hits, N),
         NEW P, NEW m \in 0 .. N, NEW n \in 0 .. N, m <= n
  PROVE  Costs(hits, P)[m] <= Costs(hits, P)[n]
<1> DEFINE c == Costs(hits, P)
           S == {k \in 0 .. (n - m) : c[m] <= c[m + k]}
<1>p. N \in Nat /\ DOMAIN hits = 1 .. N /\ \A i \in 1 .. N : hits[i].cost \in Nat
  BY DEF Priced
<1>c. CostsAre(c, hits, N, P)
  BY CostFacts
<1> HIDE DEF c
<1>1. /\ \A k \in 0 .. N : c[k] \in Nat
      /\ \A k \in 1 .. N : c[k] = c[k - 1] + (IF k \in P THEN hits[k].cost ELSE 0)
  BY <1>p, <1>c DEF CostsAre
<1>2. n - m \in Nat /\ m + (n - m) = n /\ 0 \in S
  <2>1. m + 0 = m /\ c[m] \in Nat
    BY <1>p, <1>1
  <2>2. QED  BY <1>p, <2>1
<1>3. ASSUME NEW k \in 0 .. ((n - m) - 1), k \in S PROVE k + 1 \in S
  <2>1. m + k \in 0 .. N /\ m + (k + 1) \in 1 .. N /\ (m + (k + 1)) - 1 = m + k /\ k + 1 \in 0 .. (n - m)
    BY <1>p, <1>2
  <2>2. c[m + (k + 1)] = c[m + k] + (IF m + (k + 1) \in P THEN hits[m + (k + 1)].cost ELSE 0)
    BY <1>p, <1>1, <2>1
  <2>3. c[m] \in Nat /\ c[m + k] \in Nat /\ hits[m + (k + 1)].cost \in Nat /\ c[m] <= c[m + k]
    BY <1>p, <1>1, <1>3, <2>1
  <2>4. c[m] <= c[m + (k + 1)]
    <3>1. c[m + (k + 1)] = c[m + k] \/ c[m + (k + 1)] = c[m + k] + hits[m + (k + 1)].cost
      BY <2>2, <2>3
    <3>2. QED  BY ONLY <2>3, <3>1
  <2>5. QED  BY <1>p, <2>1, <2>4
<1>4. 0 .. (n - m) \subseteq S
  <2> HIDE DEF S
  <2>1. QED  BY <1>p, <1>2, <1>3, Upwards
<1>5. n - m \in S
  <2> HIDE DEF S
  <2>1. n - m \in 0 .. (n - m)
    BY <1>p, <1>2
  <2>2. QED  BY <1>p, <1>4, <2>1
<1>6. QED  BY <1>p, <1>2, <1>5 DEF c

\* A place more, wherever it is, costs no more than its hit.
LEMMA CostsOfOneMore ==
  ASSUME NEW hits, NEW N, Priced(hits, N),
         NEW P, NEW Q, NEW p, Q \subseteq P \cup {p}, NEW cost \in Nat, p \in 1 .. N => hits[p].cost = cost
  PROVE  Costs(hits, Q)[N] <= Costs(hits, P)[N] + cost
<1> DEFINE c == Costs(hits, P)
           d == Costs(hits, Q)
           S == {n \in 0 .. N : /\ d[n] <= c[n] + cost
                                /\ p \notin 1 .. n => d[n] <= c[n]}
<1>p. N \in Nat /\ DOMAIN hits = 1 .. N /\ \A i \in 1 .. N : hits[i].cost \in Nat
  BY DEF Priced
<1>c. CostsAre(c, hits, N, P)
  BY CostFacts
<1>d. CostsAre(d, hits, N, Q)
  BY CostFacts
<1> HIDE DEF c, d
<1>1. /\ c[0] = 0 /\ \A n \in 0 .. N : c[n] \in Nat
      /\ \A n \in 1 .. N : c[n] = c[n - 1] + (IF n \in P THEN hits[n].cost ELSE 0)
  BY <1>p, <1>c DEF CostsAre
<1>2. /\ d[0] = 0 /\ \A n \in 0 .. N : d[n] \in Nat
      /\ \A n \in 1 .. N : d[n] = d[n - 1] + (IF n \in Q THEN hits[n].cost ELSE 0)
  BY <1>p, <1>d DEF CostsAre
<1>3. 0 \in S
  BY <1>p, <1>1, <1>2
<1>4. ASSUME NEW n \in 0 .. (N - 1), n \in S PROVE n + 1 \in S
  <2>1. n \in 0 .. N /\ n + 1 \in 1 .. N /\ n + 1 \in 0 .. N /\ (n + 1) - 1 = n
    BY <1>p
  <2>2. /\ c[n + 1] = c[n] + (IF n + 1 \in P THEN hits[n + 1].cost ELSE 0)
        /\ d[n + 1] = d[n] + (IF n + 1 \in Q THEN hits[n + 1].cost ELSE 0)
    BY <1>p, <1>1, <1>2, <2>1
  <2>3. /\ c[n] \in Nat /\ d[n] \in Nat /\ hits[n + 1].cost \in Nat
        /\ d[n] <= c[n] + cost /\ (p \notin 1 .. n => d[n] <= c[n])
    BY <1>p, <1>1, <1>2, <1>4, <2>1
  <2>4. CASE p = n + 1
    <3>1. p \notin 1 .. n /\ p \in 1 .. (n + 1) /\ hits[n + 1].cost = cost
      BY <1>p, <2>1, <2>4
    <3>2. d[n + 1] <= c[n + 1] + cost
      BY <1>p, <2>2, <2>3, <3>1
    <3>3. QED  BY <1>p, <2>1, <3>1, <3>2
  <2>5. CASE p # n + 1
    <3>1. (n + 1 \in Q => n + 1 \in P) /\ (p \notin 1 .. (n + 1) => p \notin 1 .. n)
      BY <1>p, <2>5
    <3>2. d[n + 1] <= c[n + 1] + cost /\ (p \notin 1 .. n => d[n + 1] <= c[n + 1])
      <4>1. CASE n + 1 \in Q
        BY <1>p, <2>2, <2>3, <3>1, <4>1
      <4>2. CASE n + 1 \notin Q
        <5>1. d[n + 1] = d[n] /\ c[n] <= c[n + 1]
          BY <2>2, <2>3, <4>2
        <5>2. c[n + 1] \in Nat
          BY <1>1, <2>1
        <5>3. QED  BY <1>p, <2>3, <5>1, <5>2
      <4>3. QED  BY <4>1, <4>2
    <3>3. QED  BY <1>p, <2>1, <3>1, <3>2
  <2>6. QED  BY <1>p, <2>4, <2>5
<1>5. 0 .. N \subseteq S
  <2> HIDE DEF S
  <2>1. QED  BY <1>p, <1>3, <1>4, Upwards
<1>6. N \in S
  <2> HIDE DEF S
  <2>1. N \in 0 .. N
    BY <1>p
  <2>2. QED  BY <1>p, <1>5, <2>1
<1>7. QED  BY <1>p, <1>6 DEF c, d

----------------------------------------------------------------------------
(* Sorting.                                                                *)

\* A pair is in B if the one comes before the other, and ties are as good as equal.
Precedes(B, S) ==
  /\ \A x, y \in S : <<x, y>> \in B => <<y, x>> \notin B
  /\ \A x, y, z \in S : <<x, y>> \in B => <<x, z>> \in B \/ <<z, y>> \in B

\* In a finite set, something comes before nothing.
LEMMA LastExists ==
  ASSUME NEW S, IsFiniteSet(S), S # {}, NEW B, Precedes(B, S)
  PROVE  \E m \in S : \A x \in S : <<m, x>> \notin B
<1> DEFINE After(x) == {y \in S : <<x, y>> \in B}
           Sizes == {Cardinality(After(x)) : x \in S}
<1>1. ASSUME NEW x \in S PROVE IsFiniteSet(After(x)) /\ Cardinality(After(x)) \in Nat
  <2>1. After(x) \in SUBSET S
    OBVIOUS
  <2>2. QED  BY <2>1, FS_Subset, FS_CardinalityType
<1>2. PICK m \in S : \A y \in S : Cardinality(After(m)) <= Cardinality(After(y))
  <2>1. Sizes \subseteq Nat /\ Sizes # {}
    BY <1>1
  <2>2. \E n \in Sizes : \A k \in Sizes : n <= k
    BY ONLY <2>1, LeastOf
  <2>3. PICK n \in Sizes : \A k \in Sizes : n <= k
    BY <2>2
  <2>4. PICK m \in S : n = Cardinality(After(m))
    BY <2>3
  <2>5. \A y \in S : Cardinality(After(y)) \in Sizes
    OBVIOUS
  <2>6. QED  BY <2>3, <2>4, <2>5
<1>3. ASSUME NEW y \in S, <<m, y>> \in B PROVE FALSE
  <2>1. After(y) \in SUBSET After(m)
    BY <1>3 DEF Precedes
  <2>2. y \in After(m) /\ y \notin After(y)
    BY <1>3 DEF Precedes
  <2> HIDE DEF After
  <2>3. Cardinality(After(y)) <= Cardinality(After(m)) /\ Cardinality(After(y)) # Cardinality(After(m))
    BY <1>1, <2>1, <2>2, FS_Subset
  <2>4. Cardinality(After(m)) <= Cardinality(After(y)) /\ Cardinality(After(y)) \in Nat /\ Cardinality(After(m)) \in Nat
    BY <1>1, <1>2
  <2>5. QED  BY <2>3, <2>4
<1>4. QED  BY <1>3

SortedBy(s, B) == \A i, j \in DOMAIN s : i < j => <<s[j], s[i]>> \notin B

\* What is finite can be sorted.
LEMMA SortingExists ==
  ASSUME NEW S, IsFiniteSet(S), NEW B, Precedes(B, S)
  PROVE  \E s \in SetToSeqs(S) : SortedBy(s, B)
<1> DEFINE N == Cardinality(S)
           Sortable(n) == \A T \in SUBSET S : Cardinality(T) = n => \E s \in SetToSeqs(T) : SortedBy(s, B)
           U == {n \in 0 .. N : Sortable(n)}
<1>1. N \in Nat /\ \A T \in SUBSET S : IsFiniteSet(T) /\ Cardinality(T) \in 0 .. N /\ (Cardinality(T) = 0 => T = {})
  BY FS_CardinalityType, FS_Subset, FS_EmptySet
<1>2. 0 \in U
  <2>1. ASSUME NEW T \in SUBSET S, Cardinality(T) = 0 PROVE \E s \in SetToSeqs(T) : SortedBy(s, B)
    <3>1. T = {} /\ 1 .. 0 = {}
      BY <1>1, <2>1
    <3>2. [i \in 1 .. 0 |-> i] \in SetToSeqs(T)
      BY <2>1, <3>1 DEF SetToSeqs
    <3>3. SortedBy([i \in 1 .. 0 |-> i], B)
      BY <3>1 DEF SortedBy
    <3>4. QED  BY <3>2, <3>3
  <2>2. QED  BY <1>1, <2>1
<1>3. ASSUME NEW n \in 0 .. (N - 1), n \in U PROVE n + 1 \in U
  <2>1. ASSUME NEW T \in SUBSET S, Cardinality(T) = n + 1 PROVE \E s \in SetToSeqs(T) : SortedBy(s, B)
    <3>0. n \in Nat
      OBVIOUS
    <3>1. IsFiniteSet(T) /\ T # {} /\ Precedes(B, T)
      <4>1. T # {}
        BY <2>1, <3>0, FS_EmptySet
      <4>2. Precedes(B, T)
        BY DEF Precedes
      <4>3. QED  BY <1>1, <4>1, <4>2
    <3>2. PICK m \in T : \A x \in T : <<m, x>> \notin B
      BY <3>1, LastExists
    <3>3. Cardinality(T \ {m}) = n /\ T \ {m} \in SUBSET S
      <4>1. Cardinality(T \ {m}) = Cardinality(T) - 1
        BY <3>1, FS_RemoveElement
      <4>2. QED  BY <4>1, <2>1, <3>0
    <3>4. PICK s \in SetToSeqs(T \ {m}) : SortedBy(s, B)
      <4>1. Sortable(n)
        BY <1>3
      <4>2. QED  BY <3>3, <4>1
    <3>5. s \in [1 .. n -> T \ {m}] /\ \A i, j \in 1 .. n : i # j => s[i] # s[j]
      BY <3>3 DEF SetToSeqs
    <3>6. DOMAIN s = 1 .. n /\ \A i, j \in 1 .. n : i < j => <<s[j], s[i]>> \notin B
      BY <3>4, <3>5 DEF SortedBy
    <3> DEFINE t == [i \in 1 .. (n + 1) |-> IF i = n + 1 THEN m ELSE s[i]]
    <3>7. ASSUME NEW i \in 1 .. (n + 1)
          PROVE  t[i] \in T /\ (i = n + 1 => t[i] = m) /\ (i # n + 1 => i \in 1 .. n /\ t[i] = s[i] /\ t[i] # m)
      <4>1. i # n + 1 => i \in 1 .. n
        BY <3>0
      <4>2. QED  BY <4>1, <3>2, <3>5
    <3>8. t \in [1 .. (n + 1) -> T] /\ DOMAIN t = 1 .. (n + 1)
      BY <3>7
    <3> HIDE DEF t
    <3>9. ASSUME NEW i \in 1 .. (n + 1), NEW j \in 1 .. (n + 1), i # j PROVE t[i] # t[j]
      BY <3>7, <3>5, <3>9
    <3>10. ASSUME NEW i \in 1 .. (n + 1), NEW j \in 1 .. (n + 1), i < j PROVE <<t[j], t[i]>> \notin B
      <4>1. i # n + 1
        BY <3>0, <3>10
      <4>2. CASE j = n + 1
        BY <3>7, <3>2, <4>2
      <4>3. CASE j # n + 1
        BY <3>7, <3>6, <3>10, <4>1, <4>3
      <4>4. QED  BY <4>2, <4>3
    <3>11. t \in SetToSeqs(T)
      BY <2>1, <3>8, <3>9 DEF SetToSeqs
    <3>12. SortedBy(t, B)
      BY <3>8, <3>10 DEF SortedBy
    <3>13. QED  BY <3>11, <3>12
  <2>2. n + 1 \in 0 .. N
    BY <1>1
  <2> HIDE DEF N
  <2>3. QED  BY <2>1, <2>2
<1>4. 0 .. N \subseteq U
  <2> HIDE DEF U, N
  <2>1. QED  BY <1>1, <1>2, <1>3, Upwards
<1>5. N \in U
  <2> HIDE DEF U
  <2>1. N \in 0 .. N
    BY <1>1
  <2>2. QED  BY <1>4, <2>1
<1>6. QED  BY <1>5

\* A sorted set is a sequence of its elements, one for each.
LEMMA SetsAsSequences ==
  ASSUME NEW S, IsFiniteSet(S), NEW s \in SetToSeqs(S)
  PROVE  /\ Len(s) = Cardinality(S) /\ Cardinality(S) \in Nat /\ s \in [1 .. Cardinality(S) -> S] /\ s \in Seq(S)
         /\ \A i, j \in DOMAIN s : i # j => s[i] # s[j]
<1>1. Cardinality(S) \in Nat
  BY FS_CardinalityType
<1>2. s \in [1 .. Cardinality(S) -> S] /\ \A i, j \in 1 .. Cardinality(S) : i # j => s[i] # s[j]
  BY DEF SetToSeqs
<1>3. QED  BY <1>1, <1>2, SequenceOf

\* The loops of the ledger, and the spawners of a roll-up.
LEMMA LoopsSort ==
  ASSUME NEW S, IsFiniteSet(S), \A l \in S : l.age \in Nat /\ l.order \in Nat
  PROVE  OldestFirst(S) \in SetToSeqs(S)
<1> DEFINE B == {p \in S \X S : p[1].age > p[2].age \/ (p[1].age = p[2].age /\ p[1].order < p[2].order)}
<1>1. \A k, l \in S : <<k, l>> \in B <=> k.age > l.age \/ (k.age = l.age /\ k.order < l.order)
  OBVIOUS
<1> HIDE DEF B
<1>2. Precedes(B, S)
  BY <1>1 DEF Precedes
<1>3. PICK s \in SetToSeqs(S) : SortedBy(s, B)
  BY <1>2, SortingExists
<1>4. \A i, j \in DOMAIN s : i < j => ~(s[j].age > s[i].age \/ (s[j].age = s[i].age /\ s[j].order < s[i].order))
  <2>1. DOMAIN s = 1 .. Cardinality(S) /\ \A i \in DOMAIN s : s[i] \in S
    BY SetsAsSequences
  <2>2. QED  BY <1>1, <1>3, <2>1 DEF SortedBy
<1>5. QED  BY <1>4 DEF OldestFirst, InOrder

----------------------------------------------------------------------------
(* The hits of the loops: the invariant.                                   *)

\* A list of hits: each has its price, and none is there twice.
Ranked(hits) ==
  /\ Priced(hits, Len(hits))
  /\ \A i \in DOMAIN hits : hits[i].cost # 0
  /\ \A i, j \in DOMAIN hits : hits[i].ref = hits[j].ref => i = j

\* What is related stays as it was at the start, and only sessions to come are added.
StartedFrom == \E h \in Starts : home.related = h.related /\ home.sessions \subseteq h.sessions \cup Later

RelatedOK ==
  /\ \A r \in DOMAIN home.related : Ranked(home.related[r])
  /\ \A q, r \in DOMAIN home.related : \A i \in DOMAIN home.related[q], j \in DOMAIN home.related[r] :
       home.related[q][i].ref = home.related[r][j].ref => home.related[q][i].cost = home.related[r][j].cost

FiledOK ==
  /\ IsFiniteSet(home.sessions) /\ IsFiniteSet(Filed(home))
  /\ \A l \in Filed(home) : l.ref \in DOMAIN home.related /\ l.age \in Nat /\ l.order \in Nat
  /\ \A k, l \in Filed(home) : k.ref = l.ref => k = l

\* What the starts assure holds of what is related, and of the loops on file, all the time.
LEMMA FromTheStart == StartedFrom => RelatedOK /\ FiledOK
<1> SUFFICES ASSUME StartedFrom PROVE RelatedOK /\ FiledOK
  OBVIOUS
<1>1. PICK h \in Starts : home.related = h.related /\ home.sessions \subseteq h.sessions \cup Later
  BY DEF StartedFrom
<1> DEFINE files == h.sessions \cup Later
           loops == UNION {s.opens : s \in files}
           found == UNION {Range(h.related[r]) : r \in DOMAIN h.related}
<1>2. /\ IsFiniteSet(files) /\ IsFiniteSet(loops)
      /\ \A l \in loops : l.ref \in DOMAIN h.related /\ l.age \in Nat /\ l.order \in Nat
      /\ \A k, l \in loops : k.ref = l.ref => k = l
      /\ \A r \in DOMAIN h.related :
           /\ h.related[r] \in Seq(found)
           /\ \A i, j \in DOMAIN h.related[r] : h.related[r][i].ref = h.related[r][j].ref => i = j
      /\ \A f, g \in found : f.cost \in Nat \ {0} /\ (f.ref = g.ref => f.cost = g.cost)
  BY RelatedAssumption
<1>3. Filed(home) \subseteq loops
  BY <1>1 DEF Filed
<1> HIDE DEF loops, files
<1>4. FiledOK
  <2>1. IsFiniteSet(home.sessions) /\ IsFiniteSet(Filed(home))
    <3>1. home.sessions \in SUBSET files /\ Filed(home) \in SUBSET loops
      BY <1>1, <1>3 DEF files
    <3>2. QED  BY <3>1, <1>2, FS_Subset
  <2>2. QED  BY <2>1, <1>1, <1>2, <1>3 DEF FiledOK
<1>5. \A r \in DOMAIN h.related : \A i \in DOMAIN h.related[r] : h.related[r][i] \in found
  BY DEF Range
<1> HIDE DEF found
<1>6. ASSUME NEW r \in DOMAIN h.related PROVE Ranked(h.related[r])
  <2> DEFINE hits == h.related[r]
  <2>1. hits \in Seq(found)
    BY <1>2
  <2>2. Len(hits) \in Nat /\ DOMAIN hits = 1 .. Len(hits)
    BY <2>1, LenProperties
  <2>3. \A i \in DOMAIN hits : hits[i].cost \in Nat /\ hits[i].cost # 0
    BY <1>2, <1>5
  <2>4. \A i, j \in DOMAIN hits : hits[i].ref = hits[j].ref => i = j
    BY <1>2
  <2> HIDE DEF hits
  <2>5. Ranked(hits)
    BY <2>2, <2>3, <2>4 DEF Ranked, Priced
  <2>6. QED  BY <2>5 DEF hits
<1>7. RelatedOK
  <2>1. \A q, r \in DOMAIN h.related : \A i \in DOMAIN h.related[q], j \in DOMAIN h.related[r] :
          h.related[q][i].ref = h.related[r][j].ref => h.related[q][i].cost = h.related[r][j].cost
    BY <1>2, <1>5
  <2>2. QED  BY <1>1, <1>6, <2>1 DEF RelatedOK
<1>8. QED  BY <1>4, <1>7

EarlyStages == {"idle", "failed", "archive", "read", "live", "probe", "rank"}

\* The places of what has been taken, in the list of a ref.
TakenAt(r) == {i \in DOMAIN home.related[r] : home.related[r][i].ref \in TakenRefs}

\* The lines so far are within the limits and of different hits that are not shown above.
LinesOK ==
  /\ Context.hits \in Seq(Range(Context.hits))
  /\ \A i, j \in DOMAIN Context.hits : Context.hits[i].ref = Context.hits[j].ref => i = j
  /\ Len(Context.hits) <= HitsTotal /\ Context.chars \in Nat
  /\ IsFiniteSet(ShownNotes(asm.ranking)) /\ TakenRefs \cap ShownNotes(asm.ranking) = {}

\* What has been spent covers the hits taken, in whichever list they are.
PaidOK ==
  \A r \in DOMAIN home.related :
    Context.chars + Costs(home.related[r], TakenAt(r))[Len(home.related[r])] <= CharsTotal

\* The rounds that the loop at place i has had.
Rounds(i) == IF i < Context.at THEN Context.pass ELSE Context.pass - 1

\* A loop that has been asked for and has nothing left to take.
Spent(l) == Asked(l) /\ Free(l) = {}

RoundsOK ==
  /\ DOMAIN Context = {"pass", "at", "loops", "asked", "hits", "chars"}
  /\ Context.pass \in 1 .. (HitsPerLoop + 1)
  /\ Len(Context.loops) \in Nat /\ Context.loops \in [1 .. Len(Context.loops) -> Filed(home)]
  /\ Context.at \in Nat \ {0} /\ (Context.loops # <<>> => Context.at <= Len(Context.loops))
  /\ \A i \in DOMAIN Context.loops : LET l == Context.loops[i] IN
       /\ Asked(l) => \/ l.ref \in asm.degraded /\ Offered(l) = {}
                      \/ Offered(l) = Related(l, Candidates)
       /\ Cardinality(Taken(l.ref)) >= Rounds(i) \/ Spent(l)

HitsOK == LinesOK /\ PaidOK /\ RoundsOK

ShareInv ==
  /\ StartedFrom
  /\ asm.at \in EarlyStages => Context = NoContext
  /\ asm.at = "hits" => HitsOK
  /\ LoopShare

----------------------------------------------------------------------------
(* Why a loop is left with fewer lines than it may have.                   *)

Untaken(l) == {h \in Range(Hits(l)) : h.served /\ h.ref \notin TakenRefs \cup Excluded(l)}
Crowded(l) == \E i \in Page(l, Candidates) : ~Hits(l)[i].served

\* There are as many lines as there are hits named in them.
LEMMA LinesCount ==
  ASSUME LinesOK
  PROVE  /\ Len(Context.hits) \in Nat /\ DOMAIN Context.hits = 1 .. Len(Context.hits)
         /\ IsFiniteSet(TakenRefs) /\ Cardinality(TakenRefs) = Len(Context.hits)
<1> DEFINE lines == Context.hits
           N == Len(lines)
           ref == [i \in 1 .. N |-> lines[i].ref]
<1>1. N \in Nat /\ DOMAIN lines = 1 .. N
  <2>1. lines \in Seq(Range(lines))
    BY DEF LinesOK
  <2> HIDE DEF lines
  <2>2. QED  BY <2>1, LenProperties
<1>2. TakenRefs = {lines[i].ref : i \in 1 .. N}
  BY <1>1 DEF TakenRefs, Range
<1>3. \A i, j \in 1 .. N : lines[i].ref = lines[j].ref => i = j
  BY <1>1 DEF LinesOK
<1> HIDE DEF lines, N
<1>4. ref \in Bijection(1 .. N, TakenRefs)
  BY <1>2, <1>3 DEF Bijection, Injection, Surjection, IsInjective
<1>5. IsFiniteSet(1 .. N) /\ Cardinality(1 .. N) = N
  BY <1>1, FS_Interval
<1>6. IsFiniteSet(TakenRefs) /\ Cardinality(TakenRefs) = N
  <2>1. ExistsBijection(1 .. N, TakenRefs)
    BY <1>4 DEF ExistsBijection
  <2>2. QED  BY <2>1, <1>5, FS_Bijection
<1>7. QED  BY <1>1, <1>6 DEF lines, N

\* What is not to be found again is finite.
LEMMA ExcludedFinite == ASSUME LinesOK, NEW l PROVE IsFiniteSet(Excluded(l)) /\ Cardinality(Excluded(l)) \in Nat
<1>1. IsFiniteSet({l.session}) /\ IsFiniteSet({l.target} \ {NoTarget})
  BY FS_Singleton, FS_RemoveElement
<1>2. IsFiniteSet(ShownNotes(asm.ranking) \cup {l.session})
  BY <1>1, FS_Union DEF LinesOK
<1>3. IsFiniteSet(Excluded(l))
  BY <1>1, <1>2, FS_Union DEF Excluded
<1>4. QED  BY <1>3, FS_CardinalityType

\* Different places of a list hold different refs.
LEMMA RefsInject ==
  ASSUME NEW hits, Ranked(hits), NEW P \in SUBSET DOMAIN hits, NEW T, IsFiniteSet(T), \A i \in P : hits[i].ref \in T
  PROVE  IsFiniteSet(P) /\ Cardinality(P) <= Cardinality(T) /\ Cardinality(P) \in Nat /\ Cardinality(T) \in Nat
<1> DEFINE ref == [i \in P |-> hits[i].ref]
<1>1. ref \in Injection(P, T)
  BY DEF Injection, IsInjective, Ranked
<1> HIDE DEF ref
<1>2. QED  BY <1>1, FS_Injection, FS_CardinalityType

\* As many different hits in lines as there may be leave no line.
LEMMA NoneLeft ==
  ASSUME LinesOK, HitsPerLoop # 0, NEW hits, Ranked(hits), NEW P \in SUBSET DOMAIN hits,
         \A i \in P : hits[i].ref \in TakenRefs, Cardinality(P) >= Candidates
  PROVE  Left = 0
<1>1. IsFiniteSet(TakenRefs) /\ Cardinality(TakenRefs) = Len(Context.hits) /\ Len(Context.hits) \in Nat
  BY LinesCount
<1>2. Cardinality(P) \in Nat /\ Cardinality(P) <= Len(Context.hits)
  BY <1>1, RefsInject
<1>3. HitsTotal \in Nat /\ HitsPerLoop \in Nat /\ Len(Context.hits) <= HitsTotal
  BY BootstrapAssumption DEF LinesOK
<1>4. QED  BY <1>1, <1>2, <1>3 DEF Candidates, Left

\* A loop that has nothing left to take, though there is more it might have, was offered all that
\* fits the budget: the first hit left out would overflow what is left.
LEMMA SpentSays ==
  ASSUME RelatedOK, LinesOK, PaidOK, HitsPerLoop # 0, Left # 0,
         NEW l, l.ref \in DOMAIN home.related, Spent(l), Offered(l) = Related(l, Candidates),
         Untaken(l) # {}, ~Crowded(l)
  PROVE  \E h \in Untaken(l) : h.cost > Context.chars
<1> DEFINE hits == Hits(l)
           N == Len(hits)
           excluded == Excluded(l)
           top == Candidates + Cardinality(excluded)
           page == DOMAIN hits \cap 1 .. top
           kept == {i \in page : hits[i].served /\ hits[i].ref \notin excluded}
           best == {i \in kept : Cardinality({j \in kept : j <= i}) <= Candidates}
           waiting == {i \in DOMAIN hits : hits[i].served /\ hits[i].ref \notin TakenRefs \cup excluded}
<1>1. Ranked(hits) /\ Priced(hits, N) /\ N \in Nat /\ DOMAIN hits = 1 .. N
  BY DEF RelatedOK, Hits, Ranked, Priced
<1>2. Candidates \in Nat /\ Cardinality(excluded) \in Nat /\ IsFiniteSet(excluded) /\ top \in Nat
  <2>1. HitsTotal \in Nat /\ HitsPerLoop \in Nat
    BY BootstrapAssumption
  <2>2. Candidates \in Nat
    BY <2>1 DEF Candidates
  <2>3. QED  BY <2>2, ExcludedFinite
<1>3. Related(l, Candidates) = {n \in best : Costs(hits, best)[n] <= CharsTotal} /\ page = Page(l, Candidates)
  BY DEF Related, Within, Costs, Page
<1>4. waiting \subseteq Nat /\ waiting # {}
  BY <1>1 DEF Untaken, Range
<1>5. PICK m \in waiting : \A i \in waiting : m <= i
  BY <1>4, LeastOf
<1>6. m \in 1 .. N /\ hits[m].served /\ hits[m].ref \notin TakenRefs /\ hits[m].ref \notin excluded
  BY <1>1, <1>5
<1>7. \A i \in DOMAIN hits : i < m /\ hits[i].served /\ hits[i].ref \notin excluded => hits[i].ref \in TakenRefs
  <2>1. SUFFICES ASSUME NEW i \in DOMAIN hits, i < m, hits[i].served, hits[i].ref \notin excluded,
                        hits[i].ref \notin TakenRefs
                 PROVE  FALSE
    OBVIOUS
  <2>2. i \in waiting
    BY <2>1
  <2>3. QED  BY <2>1, <2>2, <1>4, <1>5
<1>8. hits[m] \in Untaken(l)
  BY <1>1, <1>6 DEF Untaken, Range
<1>9. \A i \in page : hits[i].served
  BY <1>3 DEF Crowded
<1> HIDE DEF hits, N, excluded
<1>10. m \in page
  <2>1. SUFFICES ASSUME m \notin page PROVE FALSE
    OBVIOUS
  <2> DEFINE K == {i \in 1 .. top : hits[i].ref \notin excluded}
             E == {i \in 1 .. top : hits[i].ref \in excluded}
  <2>2. top < m /\ 1 .. top \subseteq DOMAIN hits /\ 1 .. top \subseteq page
    BY <1>1, <1>2, <1>6, <2>1
  <2>3. IsFiniteSet(1 .. top) /\ Cardinality(1 .. top) = top
    BY <1>2, FS_Interval
  <2>4. K \in SUBSET (1 .. top) /\ E \in SUBSET (1 .. top) /\ K \cup E = 1 .. top
    OBVIOUS
  <2>5. IsFiniteSet(K) /\ IsFiniteSet(E) /\ Cardinality(K) \in Nat /\ Cardinality(K \cap E) \in Nat
    <3>1. IsFiniteSet(K) /\ IsFiniteSet(E)
      BY <2>3, <2>4, FS_Subset
    <3>2. QED  BY <3>1, FS_Intersection, FS_CardinalityType
  <2>6. Cardinality(E) <= Cardinality(excluded) /\ Cardinality(E) \in Nat
    <3>1. E \in SUBSET DOMAIN hits /\ \A i \in E : hits[i].ref \in excluded
      BY <2>2
    <3> HIDE DEF E
    <3>2. QED  BY <3>1, <1>1, <1>2, RefsInject
  <2>7. K \in SUBSET DOMAIN hits /\ \A i \in K : hits[i].ref \in TakenRefs
    <3>1. \A i \in K : i \in DOMAIN hits /\ i < m /\ hits[i].served /\ hits[i].ref \notin excluded
      BY <1>1, <1>2, <1>6, <1>9, <2>2
    <3>2. QED  BY <3>1, <1>7
  <2> HIDE DEF K, E, top
  <2>8. top = Cardinality(K) + Cardinality(E) - Cardinality(K \cap E)
    BY <2>3, <2>4, <2>5, FS_Union
  <2>9. Cardinality(K) >= Candidates
    BY <1>2, <2>5, <2>6, <2>8 DEF top
  <2>10. QED  BY <1>1, <2>7, <2>9, NoneLeft
<1>11. m \in best
  <2> DEFINE upTo == {j \in kept : j <= m}
             before == {j \in kept : j < m}
  <2>1. m \in kept
    BY <1>6, <1>10
  <2>2. upTo \in SUBSET (1 .. N) /\ m \in upTo /\ before = upTo \ {m}
    BY <1>1, <1>6, <2>1
  <2>3. IsFiniteSet(upTo) /\ Cardinality(upTo) \in Nat
    <3>1. IsFiniteSet(1 .. N)
      BY <1>1, FS_Interval
    <3>2. QED  BY <2>2, <3>1, FS_Subset, FS_CardinalityType
  <2>4. before \in SUBSET DOMAIN hits /\ \A i \in before : hits[i].ref \in TakenRefs
    BY <1>7
  <2> HIDE DEF upTo, before
  <2>5. Cardinality(before) = Cardinality(upTo) - 1
    BY <2>2, <2>3, FS_RemoveElement
  <2>6. ASSUME Cardinality(upTo) > Candidates PROVE FALSE
    <3>1. Cardinality(before) >= Candidates
      BY <1>2, <2>3, <2>5, <2>6
    <3>2. QED  BY <1>1, <2>4, <3>1, NoneLeft
  <2>7. Cardinality(upTo) <= Candidates
    BY <1>2, <2>3, <2>6
  <2>8. QED  BY <2>1, <2>7 DEF upTo
<1>12. Costs(hits, best)[m] > CharsTotal
  <2>1. m \notin Offered(l)
    BY <1>6 DEF Spent, Free, hits
  <2>2. ~(Costs(hits, best)[m] <= CharsTotal)
    BY <1>3, <1>11, <2>1
  <2>3. Costs(hits, best)[m] \in Nat /\ CharsTotal \in Nat
    <3>1. CostsAre(Costs(hits, best), hits, N, best)
      BY <1>1, CostFacts
    <3> HIDE DEF best
    <3>2. Costs(hits, best)[m] \in Nat
      <4>1. m \in 0 .. N
        BY <1>1, <1>6
      <4>2. QED  BY <3>1, <4>1 DEF CostsAre
    <3>3. CharsTotal \in Nat
      BY BootstrapAssumption
    <3>4. QED  BY <3>2, <3>3
  <2>4. QED  BY <2>2, <2>3
<1>13. best \cap 1 .. (m - 1) \subseteq TakenAt(l.ref)
  <2>1. SUFFICES ASSUME NEW i \in best, i \in 1 .. (m - 1) PROVE i \in TakenAt(l.ref)
    OBVIOUS
  <2>2. i \in DOMAIN hits /\ i < m /\ hits[i].served /\ hits[i].ref \notin excluded
    BY <1>1, <1>6, <2>1
  <2>3. QED  BY <1>7, <2>2 DEF TakenAt, hits, Hits
<1> HIDE DEF best
<1>14. /\ Costs(hits, best)[m] = Costs(hits, best)[m - 1] + hits[m].cost
       /\ Costs(hits, best)[m - 1] \in Nat /\ hits[m].cost \in Nat
  <2>1. CostsAre(Costs(hits, best), hits, N, best)
    BY <1>1, CostFacts
  <2>2. m - 1 \in 0 .. N /\ hits[m].cost \in Nat
    BY <1>1, <1>6 DEF Priced
  <2>3. QED  BY <1>6, <1>11, <2>1, <2>2 DEF CostsAre
<1> DEFINE T == TakenAt(l.ref)
<1>15. /\ Costs(hits, best)[m - 1] <= Costs(hits, T)[m - 1] /\ Costs(hits, T)[m - 1] <= Costs(hits, T)[N]
       /\ Costs(hits, T)[m - 1] \in Nat /\ Costs(hits, T)[N] \in Nat
  <2>1. m - 1 \in 0 .. N /\ N \in 0 .. N /\ m - 1 <= N
    BY <1>1, <1>6
  <2> HIDE DEF T
  <2>2. CostsAre(Costs(hits, T), hits, N, T)
    BY <1>1, CostFacts
  <2>3. Costs(hits, best)[m - 1] <= Costs(hits, T)[m - 1]
    BY <1>1, <1>13, <2>1, CostsGrow DEF T
  <2>4. Costs(hits, T)[m - 1] <= Costs(hits, T)[N]
    BY <1>1, <2>1, CostsMount
  <2>5. QED  BY <2>1, <2>2, <2>3, <2>4 DEF CostsAre
<1>16. Context.chars + Costs(hits, T)[N] <= CharsTotal /\ Context.chars \in Nat /\ CharsTotal \in Nat
  BY BootstrapAssumption DEF PaidOK, LinesOK, hits, N, Hits
<1> HIDE DEF T
<1>17. hits[m].cost > Context.chars
  BY <1>12, <1>14, <1>15, <1>16
<1>18. QED  BY <1>8, <1>17

----------------------------------------------------------------------------
(* The rounds end.                                                         *)

\* LoopShare, once the rounds have ended.
SharedOut ==
  /\ Cardinality(TakenRefs) = Len(Context.hits) /\ Len(Context.hits) <= HitsTotal /\ Context.chars >= 0
  /\ TakenRefs \cap ShownNotes(asm.ranking) = {}
  /\ \A l \in Range(Context.loops) :
       \/ Left = 0 \/ l.ref \in asm.degraded \/ Cardinality(Taken(l.ref)) >= HitsPerLoop
       \/ Untaken(l) = {} \/ Crowded(l)
       \/ \E k \in Range(Context.loops) : \E h \in Untaken(k) : h.cost > Context.chars

\* Only the end of the rounds matters.
LEMMA ShareSays == LoopShare <=> (asm.at = "log" => SharedOut)
  BY DEF LoopShare, SharedOut, Untaken, Crowded

\* A loop has finitely many lines.
LEMMA TakenFinite ==
  ASSUME LinesOK, NEW r
  PROVE  IsFiniteSet(Taken(r)) /\ Cardinality(Taken(r)) \in Nat
<1> DEFINE N == Len(Context.hits)
           hits == Context.hits
<1>1. N \in Nat /\ DOMAIN hits = 1 .. N
  BY LinesCount
<1>2. hits \in Seq(Range(hits))
  BY DEF LinesOK
<1>3. hits \in Surjection(1 .. N, Range(hits))
  <2> HIDE DEF hits, N
  <2>1. hits \in [1 .. N -> Range(hits)]
    BY <1>1, <1>2
  <2>2. QED  BY <2>1, <1>1 DEF Surjection, Range
<1> HIDE DEF hits, N
<1>4. IsFiniteSet(Range(hits))
  BY <1>1, <1>3, FS_Interval, FS_Surjection
<1>5. Taken(r) \in SUBSET Range(hits)
  BY DEF Taken, hits
<1>6. QED  BY <1>4, <1>5, FS_Subset, FS_CardinalityType

\* The loops of the rounds are loops on file, each with what the search ranks for it.
LEMMA LoopsAreFiled ==
  ASSUME HitsOK, FiledOK, NEW l \in Range(Context.loops)
  PROVE  l.ref \in DOMAIN home.related /\ l \in Filed(home)
<1>1. Context.loops \in [1 .. Len(Context.loops) -> Filed(home)]
  BY DEF HitsOK, RoundsOK
<1>2. l \in Filed(home)
  BY <1>1 DEF Range
<1>3. QED  BY <1>2 DEF FiledOK

\* The round is at one of the loops.
LEMMA CurrentIsThere ==
  ASSUME HitsOK, ~HitsOver
  PROVE  /\ Context.at \in DOMAIN Context.loops /\ Current \in Range(Context.loops)
         /\ Len(Context.loops) \in Nat /\ DOMAIN Context.loops = 1 .. Len(Context.loops)
         /\ Context.at <= Len(Context.loops) /\ Context.pass \in 1 .. HitsPerLoop
<1>1. /\ Len(Context.loops) \in Nat /\ Context.loops \in [1 .. Len(Context.loops) -> Filed(home)]
      /\ Context.at \in Nat \ {0} /\ Context.at <= Len(Context.loops)
      /\ Context.pass \in 1 .. (HitsPerLoop + 1) /\ ~(Context.pass > HitsPerLoop)
  BY DEF HitsOK, RoundsOK, HitsOver
<1>2. HitsPerLoop \in Nat
  BY BootstrapAssumption
<1>3. DOMAIN Context.loops = 1 .. Len(Context.loops) /\ Context.at \in 1 .. Len(Context.loops)
  BY <1>1
<1>4. Context.pass \in 1 .. HitsPerLoop
  BY ONLY <1>1, <1>2
<1>5. QED  BY <1>1, <1>3, <1>4 DEF Current, Range

\* What a loop may take is served, and the prompt does not show it elsewhere.
LEMMA FreeIsUntaken ==
  ASSUME HitsOK, NEW l \in Range(Context.loops), Asked(l), NEW i \in Free(l)
  PROVE  /\ i \in DOMAIN Hits(l) /\ Hits(l)[i] \in Untaken(l)
         /\ Hits(l)[i].ref \notin TakenRefs /\ Hits(l)[i].ref \notin Excluded(l)
<1>1. PICK n \in DOMAIN Context.loops : l = Context.loops[n]
  BY DEF Range
<1>2. Offered(l) = {} \/ Offered(l) = Related(l, Candidates)
  BY <1>1 DEF HitsOK, RoundsOK
<1>3. i \in Offered(l) /\ Hits(l)[i].ref \notin TakenRefs
  BY DEF Free
<1>4. i \in Related(l, Candidates)
  BY <1>2, <1>3
<1>5. i \in DOMAIN Hits(l) /\ Hits(l)[i].served /\ Hits(l)[i].ref \notin Excluded(l)
  BY <1>4 DEF Related, Within, Page
<1>6. QED  BY <1>3, <1>5 DEF Untaken, Range

\* However the rounds end, the lines are shared out.
LEMMA RoundsShare ==
  ASSUME HitsOK, FiledOK, RelatedOK,
         \/ HitsOver
         \/ HasTurn /\ ~BudgetLeft
         \/ HasTurn /\ Asked(Current) /\ \E i \in Free(Current) : Hits(Current)[i].cost > Context.chars
  PROVE  SharedOut
<1>0. LinesOK /\ PaidOK /\ RoundsOK
  BY DEF HitsOK
<1>1. Cardinality(TakenRefs) = Len(Context.hits) /\ Len(Context.hits) \in Nat
  BY <1>0, LinesCount
<1>2. Len(Context.hits) <= HitsTotal /\ Context.chars \in Nat /\ TakenRefs \cap ShownNotes(asm.ranking) = {}
  BY <1>0 DEF LinesOK
<1>3. HitsTotal \in Nat /\ HitsPerLoop \in Nat
  BY BootstrapAssumption
<1>4. ASSUME NEW l \in Range(Context.loops),
             Left # 0, l.ref \notin asm.degraded, ~(Cardinality(Taken(l.ref)) >= HitsPerLoop),
             Untaken(l) # {}, ~Crowded(l)
      PROVE  \E k \in Range(Context.loops) : \E h \in Untaken(k) : h.cost > Context.chars
  <2>1. l.ref \in DOMAIN home.related
    BY LoopsAreFiled
  <2>2. Cardinality(Taken(l.ref)) \in Nat
    BY <1>0, TakenFinite
  <2>3. CASE HitsOver
    <3>1. PICK n \in DOMAIN Context.loops : l = Context.loops[n]
      BY DEF Range
    <3>2. Cardinality(Taken(l.ref)) >= Rounds(n) \/ Spent(l)
      BY <3>1, <1>0 DEF RoundsOK
    <3>3. Context.pass > HitsPerLoop /\ Context.pass \in 1 .. (HitsPerLoop + 1)
      <4>1. Context.loops # <<>>
        BY <3>1
      <4>2. QED  BY <4>1, <2>3, <1>0 DEF HitsOver, RoundsOK
    <3>4. Rounds(n) \in Nat /\ Rounds(n) >= HitsPerLoop
      <4>1. Rounds(n) = Context.pass \/ Rounds(n) = Context.pass - 1
        BY DEF Rounds
      <4>2. QED  BY ONLY <4>1, <3>3, <1>3
    <3>5. Spent(l)
      <4>1. ~(Cardinality(Taken(l.ref)) >= Rounds(n))
        BY ONLY <3>4, <2>2, <1>3, <1>4
      <4>2. QED  BY <3>2, <4>1
    <3>6. Offered(l) = Related(l, Candidates)
      BY <3>1, <3>5, <1>0, <1>4 DEF RoundsOK, Spent
    <3>7. HitsPerLoop # 0
      BY ONLY <1>3, <1>4, <2>2
    <3>8. \E h \in Untaken(l) : h.cost > Context.chars
      BY <1>0, <1>4, <2>1, <3>5, <3>6, <3>7, SpentSays
    <3>9. QED  BY <3>8
  <2>4. CASE HasTurn /\ ~BudgetLeft
    <3>1. Left \in Nat
      BY <1>1, <1>2, <1>3 DEF Left
    <3>2. Context.chars = 0
      BY <3>1, <2>4, <1>2, <1>4 DEF BudgetLeft
    <3>3. PICK h \in Untaken(l) : TRUE
      BY <1>4
    <3>4. h.cost \in Nat /\ h.cost # 0
      <4>1. PICK i \in DOMAIN Hits(l) : h = Hits(l)[i]
        BY DEF Untaken, Range
      <4>2. QED  BY <2>1, <4>1 DEF Hits, RelatedOK, Ranked, Priced
    <3>5. QED  BY <3>2, <3>3, <3>4
  <2>5. CASE HasTurn /\ Asked(Current) /\ \E i \in Free(Current) : Hits(Current)[i].cost > Context.chars
    <3>1. Current \in Range(Context.loops)
      BY <2>5, CurrentIsThere DEF HasTurn
    <3>2. PICK i \in Free(Current) : Hits(Current)[i].cost > Context.chars
      BY <2>5
    <3>3. Hits(Current)[i] \in Untaken(Current)
      BY <2>5, <3>1, FreeIsUntaken
    <3>4. QED  BY <3>1, <3>2, <3>3
  <2>6. QED  BY <2>3, <2>4, <2>5
<1>5. QED  BY <1>1, <1>2, <1>4 DEF SharedOut

----------------------------------------------------------------------------
(* On to the next loop.                                                    *)

\* GoesOn, field by field.
WentOn(hits, chars) ==
  /\ asm'.at = asm.at /\ asm'.ranking = asm.ranking /\ asm'.degraded = asm.degraded
  /\ DOMAIN Context' = DOMAIN Context /\ Context'.loops = Context.loops /\ Context'.asked = Context.asked
  /\ Context'.hits = hits /\ Context'.chars = chars
  /\ Context.at = Len(Context.loops) => Context'.at = 1 /\ Context'.pass = Context.pass + 1
  /\ Context.at # Len(Context.loops) => Context'.at = Context.at + 1 /\ Context'.pass = Context.pass

\* The two are the same.
LEMMA GoesOnSays ==
  ASSUME AssemblyOK, RoundsOK, NEW hits, NEW chars, GoesOn(hits, chars)
  PROVE  WentOn(hits, chars)
<1>1. DOMAIN asm = AssemblyFields /\ DOMAIN asm.context = {"pass", "at", "loops", "asked", "hits", "chars"}
  BY DEF AssemblyOK, RoundsOK, Context
<1> DEFINE last == asm.context.at = Len(asm.context.loops)
           place == IF last THEN 1 ELSE asm.context.at + 1
           pass == IF last THEN asm.context.pass + 1 ELSE asm.context.pass
           context == [asm.context EXCEPT !.hits = hits, !.chars = chars, !.at = place, !.pass = pass]
<1>2. asm' = [asm EXCEPT !.context = context]
  BY DEF GoesOn, Context
<1>3. /\ (last => place = 1 /\ pass = asm.context.pass + 1)
      /\ (~last => place = asm.context.at + 1 /\ pass = asm.context.pass)
  OBVIOUS
<1>4. /\ DOMAIN context = DOMAIN asm.context /\ context.loops = asm.context.loops
      /\ context.asked = asm.context.asked /\ context.hits = hits /\ context.chars = chars
      /\ context.at = place /\ context.pass = pass
  <2> HIDE DEF place, pass
  <2>1. QED  BY <1>1
<1> HIDE DEF context, place, pass
<1>5. asm'.context = context /\ asm'.at = asm.at /\ asm'.ranking = asm.ranking /\ asm'.degraded = asm.degraded
  BY <1>1, <1>2 DEF AssemblyFields
<1>6. QED  BY <1>3, <1>4, <1>5 DEF WentOn, Context

\* A loop that had its line, or can have none, has had the round.
LEMMA RoundGoesOn ==
  ASSUME HitsOK, FiledOK, ~HitsOver, NEW hits, NEW chars, WentOn(hits, chars), UNCHANGED home, LinesOK',
         Range(Context.hits) \subseteq Range(hits), NEW now, now = Current,
         Cardinality(Taken(now.ref))' >= Context.pass \/ (Asked(Current) /\ Free(Current) = {})
  PROVE  RoundsOK'
<1>1. /\ Context.at \in DOMAIN Context.loops
      /\ Len(Context.loops) \in Nat /\ DOMAIN Context.loops = 1 .. Len(Context.loops)
      /\ Context.at <= Len(Context.loops) /\ Context.pass \in 1 .. HitsPerLoop
  BY CurrentIsThere
<1>2. HitsPerLoop \in Nat
  BY BootstrapAssumption
<1>3. TakenRefs \subseteq TakenRefs' /\ \A r : Taken(r) \subseteq Taken(r)'
  BY DEF TakenRefs, Taken, WentOn
<1>4. \A l : (Asked(l)' <=> Asked(l)) /\ Offered(l)' = Offered(l) /\ Related(l, Candidates)' = Related(l, Candidates)
  BY DEF WentOn, Asked, Offered, Related, Page, Hits, Excluded, Candidates
<1>5. \A l : Spent(l) => Spent(l)'
  BY <1>3, <1>4 DEF Spent, Free, Hits
<1>6. ASSUME NEW r PROVE /\ Cardinality(Taken(r)) \in Nat /\ Cardinality(Taken(r)') \in Nat
                         /\ Cardinality(Taken(r)) <= Cardinality(Taken(r)')
  <2>1. IsFiniteSet(Taken(r)) /\ Cardinality(Taken(r)) \in Nat
    BY TakenFinite DEF HitsOK
  <2>2. (IsFiniteSet(Taken(r)) /\ Cardinality(Taken(r)) \in Nat)'
    <3>1. LinesOK'
      OBVIOUS
    <3>2. QED  BY <3>1, TakenFinite, PTL
  <2>3. QED  BY <1>3, <2>1, <2>2, FS_Subset
<1>7. /\ Context'.pass \in 1 .. (HitsPerLoop + 1) /\ Context'.at \in Nat \ {0}
      /\ (Context'.loops # <<>> => Context'.at <= Len(Context'.loops))
  BY <1>1, <1>2 DEF WentOn
<1>8. /\ DOMAIN Context' = {"pass", "at", "loops", "asked", "hits", "chars"}
      /\ Len(Context'.loops) \in Nat /\ Context'.loops \in [1 .. Len(Context'.loops) -> Filed(home)']
  BY DEF WentOn, HitsOK, RoundsOK, Filed
<1>9. ASSUME NEW i \in DOMAIN Context.loops, NEW l, l = Context.loops[i]
      PROVE  /\ Asked(l)' => \/ l.ref \in asm'.degraded /\ Offered(l)' = {}
                             \/ Offered(l)' = Related(l, Candidates)'
             /\ Cardinality(Taken(l.ref))' >= Rounds(i)' \/ Spent(l)'
  <2>1. Asked(l)' => \/ l.ref \in asm'.degraded /\ Offered(l)' = {}
                     \/ Offered(l)' = Related(l, Candidates)'
    BY <1>4, <1>9 DEF WentOn, HitsOK, RoundsOK
  <2>2. Cardinality(Taken(l.ref))' >= Rounds(i)' \/ Spent(l)'
    <3>1. CASE i = Context.at
      <4>1. l = Current
        BY <3>1, <1>9 DEF Current
      <4>2. Rounds(i)' = Context.pass
        BY <3>1, <1>1 DEF Rounds, WentOn
      <4>3. CASE Cardinality(Taken(now.ref))' >= Context.pass
        BY <4>1, <4>2, <4>3
      <4>4. CASE Asked(Current) /\ Free(Current) = {}
        BY <4>1, <4>4, <1>5 DEF Spent
      <4>5. QED  BY <4>3, <4>4
    <3>2. CASE i # Context.at
      <4>1. Rounds(i)' = Rounds(i)
        BY <3>2, <1>1 DEF Rounds, WentOn
      <4>2. Cardinality(Taken(l.ref)) >= Rounds(i) \/ Spent(l)
        BY <1>9 DEF HitsOK, RoundsOK
      <4>3. Rounds(i) \in Int
        BY <1>1 DEF Rounds
      <4>4. Cardinality(Taken(l.ref)) >= Rounds(i) => Cardinality(Taken(l.ref)') >= Rounds(i)
        BY <4>3, <1>6
      <4>5. QED  BY <4>1, <4>2, <4>4, <1>5
    <3>3. QED  BY <3>1, <3>2
  <2>3. QED  BY <2>1, <2>2
<1>10. Context'.loops = Context.loops
  BY DEF WentOn
<1>11. QED  BY <1>7, <1>8, <1>9, <1>10 DEF RoundsOK

----------------------------------------------------------------------------
(* A line more.                                                            *)

\* The hit becomes a line, and is paid for once, in whichever lists it stands.
LEMMA LineGoesOn ==
  ASSUME HitsOK, FiledOK, RelatedOK, HasTurn, BudgetLeft, Asked(Current), NEW i \in Free(Current),
         NEW hit, hit = Hits(Current)[i], ~(hit.cost > Context.chars), UNCHANGED home,
         NEW line, line = [loop |-> Current.ref, ref |-> hit.ref, cost |-> hit.cost],
         WentOn(Append(Context.hits, line), Context.chars - hit.cost)
  PROVE  HitsOK'
<1> DEFINE hits == Context.hits
           N == Len(hits)
<1>1. N \in Nat /\ DOMAIN hits = 1 .. N /\ hits \in Seq(Range(hits))
  BY LinesCount DEF HitsOK, LinesOK
<1>2. /\ Current \in Range(Context.loops) /\ Context.pass \in 1 .. HitsPerLoop
  BY CurrentIsThere DEF HasTurn
<1>3. hit.ref \notin TakenRefs /\ hit.ref \notin ShownNotes(asm.ranking) /\ i \in DOMAIN Hits(Current)
  BY <1>2, FreeIsUntaken DEF Excluded
<1>4. Current.ref \in DOMAIN home.related
  BY <1>2, LoopsAreFiled
<1>5. hit.cost \in Nat /\ Context.chars \in Nat /\ hit.cost <= Context.chars
  <2>1. hit.cost \in Nat
    BY <1>3, <1>4 DEF RelatedOK, Ranked, Priced, Hits
  <2>2. Context.chars \in Nat
    BY DEF HitsOK, LinesOK
  <2>3. QED  BY <2>1, <2>2
<1>6. Context'.hits = Append(hits, line) /\ Context'.chars = Context.chars - hit.cost
      /\ asm'.ranking = asm.ranking
  BY DEF WentOn
<1> DEFINE more == Append(hits, line)
<1>7. /\ more \in Seq(Range(more)) /\ Len(more) = N + 1 /\ DOMAIN more = 1 .. (N + 1)
      /\ \A n \in 1 .. N : more[n] = hits[n]
      /\ more[N + 1] = line /\ Range(more) = Range(hits) \cup {line}
  <2> HIDE DEF hits
  <2> DEFINE S == Range(hits) \cup {line}
  <2>1. hits \in Seq(S)
    BY <1>1
  <2>2. line \in S
    OBVIOUS
  <2> HIDE DEF S
  <2>3. more \in Seq(S) /\ Len(more) = N + 1 /\ DOMAIN more = 1 .. (N + 1)
        /\ (\A n \in 1 .. N : more[n] = hits[n]) /\ more[N + 1] = line
    BY <1>1, <2>1, <2>2
  <2> HIDE DEF more
  <2>4. Range(more) = Range(hits) \cup {line}
    <3>1. 1 .. (N + 1) = 1 .. N \cup {N + 1}
      BY <1>1
    <3>2. QED  BY <1>1, <2>3, <3>1 DEF Range
  <2>5. more \in Seq(Range(more))
    BY <2>3, <2>4 DEF S
  <2>6. QED  BY <2>3, <2>4, <2>5
<1> HIDE DEF more
<1>8. TakenRefs' = TakenRefs \cup {hit.ref}
  <2>1. TakenRefs' = {h.ref : h \in Range(more)}
    BY <1>6 DEF TakenRefs, more
  <2>2. line.ref = hit.ref
    OBVIOUS
  <2>3. QED  BY <2>1, <2>2, <1>7 DEF TakenRefs
<1>9. LinesOK'
  <2>1. ASSUME NEW m \in 1 .. (N + 1), NEW n \in 1 .. (N + 1), more[m].ref = more[n].ref PROVE m = n
    <3>1. \A k \in 1 .. N : more[k].ref \in TakenRefs
      BY <1>1, <1>7 DEF TakenRefs, Range
    <3>2. more[N + 1].ref \notin TakenRefs
      BY <1>3, <1>7
    <3>3. \A k \in 1 .. (N + 1) : k # N + 1 => k \in 1 .. N
      BY <1>1
    <3>4. CASE m \in 1 .. N /\ n \in 1 .. N
      <4>1. hits[m].ref = hits[n].ref
        BY <3>4, <2>1, <1>7
      <4>2. QED  BY <3>4, <4>1, <1>1 DEF HitsOK, LinesOK
    <3>5. QED  BY <2>1, <3>1, <3>2, <3>3, <3>4
  <2>2. N + 1 <= HitsTotal
    <3>1. HitsTotal \in Nat
      BY BootstrapAssumption
    <3>2. HitsTotal - N > 0
      BY DEF BudgetLeft, Left
    <3>3. QED  BY <1>1, <3>1, <3>2
  <2>3. Context.chars - hit.cost \in Nat
    BY <1>5
  <2>4. ShownNotes(asm.ranking)' = ShownNotes(asm.ranking)
    BY <1>6 DEF ShownNotes
  <2>5. /\ IsFiniteSet(ShownNotes(asm.ranking)') /\ TakenRefs' \cap ShownNotes(asm.ranking)' = {}
    BY <1>3, <1>8, <2>4 DEF HitsOK, LinesOK
  <2>6. Context'.hits = more /\ DOMAIN more = 1 .. (N + 1)
    BY <1>6, <1>7 DEF more
  <2> HIDE DEF hits, N
  <2>7. QED  BY <1>6, <1>7, <2>1, <2>2, <2>3, <2>5, <2>6 DEF LinesOK
<1>10. PaidOK'
  <2> SUFFICES ASSUME NEW r \in DOMAIN home.related
               PROVE  Context'.chars + Costs(home.related[r], TakenAt(r)')[Len(home.related[r])] <= CharsTotal
    BY DEF PaidOK, TakenAt
  <2> DEFINE list == home.related[r]
             M == Len(list)
             before == TakenAt(r)
             after == TakenAt(r)'
  <2>1. Ranked(list) /\ Priced(list, M) /\ M \in Nat /\ DOMAIN list = 1 .. M
    BY DEF RelatedOK, Ranked, Priced
  <2>2. after = before \cup {p \in DOMAIN list : list[p].ref = hit.ref}
    BY <1>8 DEF TakenAt
  <2>3. \E p : after \subseteq before \cup {p} /\ (p \in DOMAIN list => list[p].cost = hit.cost)
    <3>1. CASE \E p \in DOMAIN list : list[p].ref = hit.ref
      <4>1. PICK p \in DOMAIN list : list[p].ref = hit.ref
        BY <3>1
      <4>2. \A q \in DOMAIN list : list[q].ref = hit.ref => q = p
        BY <4>1, <2>1 DEF Ranked
      <4>3. list[p].cost = hit.cost
        BY <4>1, <1>3, <1>4 DEF RelatedOK, Hits
      <4>4. QED  BY <2>2, <4>2, <4>3
    <3>2. CASE ~\E p \in DOMAIN list : list[p].ref = hit.ref
      <4>1. after \subseteq before \cup {0} /\ 0 \notin DOMAIN list
        BY <3>2, <2>1, <2>2
      <4>2. QED  BY <4>1
    <3>3. QED  BY <3>1, <3>2
  <2>4. PICK p : after \subseteq before \cup {p} /\ (p \in DOMAIN list => list[p].cost = hit.cost)
    BY <2>3
  <2>5. Context.chars + Costs(list, before)[M] <= CharsTotal
    BY DEF HitsOK, PaidOK
  <2>6. Costs(list, before)[M] \in Nat /\ Costs(list, after)[M] \in Nat
    <3> HIDE DEF before, after, list, M
    <3>1. M \in 0 .. M
      BY <2>1
    <3>2. CostsAre(Costs(list, before), list, M, before) /\ CostsAre(Costs(list, after), list, M, after)
      BY <2>1, CostFacts
    <3>3. QED  BY <3>1, <3>2 DEF CostsAre
  <2> HIDE DEF before, after
  <2>7. Costs(list, after)[M] <= Costs(list, before)[M] + hit.cost
    <3> HIDE DEF list, M
    <3>1. p \in 1 .. M => list[p].cost = hit.cost
      BY <2>1, <2>4
    <3>2. QED  BY <2>1, <2>4, <3>1, <1>5, CostsOfOneMore
  <2>8. CharsTotal \in Nat
    BY BootstrapAssumption
  <2> HIDE DEF list, M
  <2>9. Context'.chars + Costs(list, after)[M] <= CharsTotal
    BY <1>5, <1>6, <2>5, <2>6, <2>7, <2>8
  <2>10. QED  BY <2>9 DEF list, M, after
<1>11. RoundsOK'
  <2>1. PICK now : now = Current
    OBVIOUS
  <2>2. Taken(now.ref)' = Taken(now.ref) \cup {line} /\ line \notin Taken(now.ref)
    <3>1. Taken(now.ref)' = {h \in Range(more) : h.loop = now.ref}
      BY <1>6 DEF Taken, more
    <3>2. line.loop = now.ref /\ line.ref = hit.ref
      BY <2>1
    <3>3. line \notin Range(Context.hits)
      BY <3>2, <1>3 DEF TakenRefs
    <3>4. QED  BY <3>1, <3>2, <3>3, <1>7 DEF Taken
  <2>3. Cardinality(Taken(now.ref)) = Context.pass - 1
    BY <2>1 DEF HasTurn, Skips
  <2>4. Cardinality(Taken(now.ref))' = Context.pass
    <3>1. IsFiniteSet(Taken(now.ref)) /\ Cardinality(Taken(now.ref)) \in Nat
      BY TakenFinite DEF HitsOK
    <3>2. Cardinality(Taken(now.ref) \cup {line}) = Cardinality(Taken(now.ref)) + 1
      BY <2>2, <3>1, FS_AddElement
    <3>3. QED  BY <2>2, <2>3, <3>2, <1>2
  <2>5. Cardinality(Taken(now.ref))' >= Context.pass
    BY <2>4, <1>2
  <2>6. Range(Context.hits) \subseteq Range(Append(Context.hits, line))
    BY <1>7 DEF more
  <2>7. ~HitsOver
    BY DEF HasTurn
  <2>8. QED  BY <1>9, <2>1, <2>5, <2>6, <2>7, RoundGoesOn
<1>12. QED  BY <1>9, <1>10, <1>11 DEF HitsOK

----------------------------------------------------------------------------
(* The rounds.                                                             *)

\* A round that brings no line: the loop had one already, or there is none for it.
LEMMA NoLineGoesOn ==
  ASSUME HitsOK, FiledOK, ~HitsOver, WentOn(Context.hits, Context.chars), UNCHANGED home,
         Skips \/ (Asked(Current) /\ Free(Current) = {})
  PROVE  HitsOK'
<1>1. Context'.hits = Context.hits /\ Context'.chars = Context.chars /\ asm'.ranking = asm.ranking
  BY DEF WentOn
<1>2. TakenRefs' = TakenRefs /\ \A r : Taken(r)' = Taken(r)
  BY <1>1 DEF TakenRefs, Taken
<1>3. LinesOK'
  <2>1. ShownNotes(asm.ranking)' = ShownNotes(asm.ranking)
    BY <1>1 DEF ShownNotes
  <2>2. QED  BY <1>1, <1>2, <2>1 DEF HitsOK, LinesOK
<1>4. PaidOK'
  BY <1>1, <1>2 DEF HitsOK, PaidOK, TakenAt
<1>5. PICK now : now = Current
  OBVIOUS
<1>6. Cardinality(Taken(now.ref))' >= Context.pass \/ (Asked(Current) /\ Free(Current) = {})
  <2>1. CASE Skips
    <3>1. PICK n \in DOMAIN Context.loops : n = Context.at /\ now = Context.loops[n]
      BY <1>5, CurrentIsThere DEF Current
    <3>2. Cardinality(Taken(now.ref)) >= Rounds(n) \/ Spent(now)
      BY <3>1 DEF HitsOK, RoundsOK
    <3>3. Rounds(n) = Context.pass - 1 /\ Context.pass \in Nat
      BY <3>1, CurrentIsThere DEF Rounds
    <3>4. Cardinality(Taken(now.ref)) \in Nat /\ Cardinality(Taken(now.ref)) # Context.pass - 1
      BY <2>1, <1>5, TakenFinite DEF HitsOK, Skips
    <3>5. CASE Spent(now)
      BY <3>5, <1>5 DEF Spent
    <3>6. CASE Cardinality(Taken(now.ref)) >= Rounds(n)
      <4>1. Cardinality(Taken(now.ref)) >= Context.pass
        BY <3>3, <3>4, <3>6
      <4>2. QED  BY <4>1, <1>2
    <3>7. QED  BY <3>2, <3>5, <3>6
  <2>2. QED  BY <2>1
<1>7. RoundsOK'
  BY <1>3, <1>5, <1>6, RoundGoesOn
<1>8. QED  BY <1>3, <1>4, <1>7 DEF HitsOK

\* A step of the rounds, or their end.
LEMMA AllocateShares == ASSUME BootInv, ShareInv, AllocateOne PROVE ShareInv'
<1>0. asm.at = "hits" /\ UNCHANGED home
  BY DEF AllocateOne
<1>1. HitsOK /\ FiledOK /\ RelatedOK /\ AssemblyOK /\ RoundsOK
  BY <1>0, FromTheStart DEF ShareInv, BootInv, HitsOK
<1>2. StartedFrom'
  BY <1>0 DEF ShareInv, StartedFrom
<1>3. ASSUME Stops,
             \/ HitsOver
             \/ HasTurn /\ ~BudgetLeft
             \/ HasTurn /\ Asked(Current) /\ \E i \in Free(Current) : Hits(Current)[i].cost > Context.chars
      PROVE  ShareInv'
  <2>1. SharedOut
    BY <1>1, <1>3, RoundsShare
  <2>2. asm'.at = "log" /\ asm'.context = asm.context /\ asm'.ranking = asm.ranking /\ asm'.degraded = asm.degraded
    BY <1>1, <1>3 DEF Stops, AssemblyOK, AssemblyFields
  <2>3. SharedOut'
    <3>1. Context' = Context /\ TakenRefs' = TakenRefs /\ Left' = Left /\ \A r : Taken(r)' = Taken(r)
      BY <2>2 DEF Context, TakenRefs, Left, Taken
    <3>2. ShownNotes(asm.ranking)' = ShownNotes(asm.ranking) /\ \A l : Excluded(l)' = Excluded(l)
      BY <2>2 DEF ShownNotes, Excluded
    <3>3. \A l : Untaken(l)' = Untaken(l) /\ (Crowded(l)' <=> Crowded(l))
      BY <1>0, <3>1, <3>2 DEF Untaken, Crowded, Page, Hits, Candidates
    <3>4. QED  BY <2>1, <2>2, <3>1, <3>2, <3>3 DEF SharedOut
  <2>4. (LoopShare <=> (asm.at = "log" => SharedOut))'
    BY ShareSays, PTL
  <2>5. QED  BY <1>2, <2>2, <2>3, <2>4 DEF ShareInv, EarlyStages
<1>4. ASSUME NEW hits, NEW chars, WentOn(hits, chars), HitsOK' PROVE ShareInv'
  <2>1. asm'.at = "hits"
    BY <1>0, <1>4 DEF WentOn
  <2>2. QED  BY <1>2, <1>4, <2>1 DEF ShareInv, EarlyStages, LoopShare
<1>5. CASE (HitsOver \/ (HasTurn /\ ~BudgetLeft)) /\ Stops
  BY <1>3, <1>5
<1>6. CASE ~HitsOver /\ Skips /\ GoesOn(Context.hits, Context.chars)
  <2>1. WentOn(Context.hits, Context.chars)
    BY <1>1, <1>6, GoesOnSays
  <2>2. HitsOK'
    BY <1>0, <1>1, <1>6, <2>1, NoLineGoesOn
  <2>3. QED  BY <2>1, <2>2, <1>4
<1>7. CASE HasTurn /\ BudgetLeft /\ Asked(Current) /\ Free(Current) = {} /\ GoesOn(Context.hits, Context.chars)
  <2>1. WentOn(Context.hits, Context.chars)
    BY <1>1, <1>7, GoesOnSays
  <2>2. HitsOK'
    BY <1>0, <1>1, <1>7, <2>1, NoLineGoesOn DEF HasTurn
  <2>3. QED  BY <2>1, <2>2, <1>4
<1>8. ASSUME HasTurn, BudgetLeft, Asked(Current), NEW i \in Free(Current), Takes(Hits(Current)[i])
      PROVE  ShareInv'
  <2>1. PICK hit : hit = Hits(Current)[i]
    OBVIOUS
  <2>2. CASE hit.cost > Context.chars
    BY <1>3, <1>8, <2>1, <2>2 DEF Takes
  <2>3. CASE ~(hit.cost > Context.chars)
    <3>1. PICK line : line = [loop |-> Current.ref, ref |-> hit.ref, cost |-> hit.cost]
      OBVIOUS
    <3>2. GoesOn(Append(Context.hits, line), Context.chars - hit.cost)
      BY <1>8, <2>1, <2>3, <3>1 DEF Takes
    <3>3. WentOn(Append(Context.hits, line), Context.chars - hit.cost)
      BY <1>1, <3>2, GoesOnSays
    <3>4. HitsOK'
      BY <1>0, <1>1, <1>8, <2>1, <2>3, <3>1, <3>3, LineGoesOn
    <3>5. QED  BY <3>3, <3>4, <1>4
  <2>4. QED  BY <2>2, <2>3
<1>9. QED  BY <1>5, <1>6, <1>7, <1>8 DEF AllocateOne

\* What a loop was offered is kept: what the search found, or nothing if it failed.
LEMMA QueryShares == ASSUME BootInv, ShareInv, QueryLoop PROVE ShareInv'
<1>0. asm.at = "hits" /\ UNCHANGED home /\ HasTurn /\ BudgetLeft /\ ~Asked(Current)
  BY DEF QueryLoop
<1>1. HitsOK /\ FiledOK /\ AssemblyOK /\ RoundsOK
  BY <1>0, FromTheStart DEF ShareInv, BootInv, HitsOK
<1>2. StartedFrom'
  BY <1>0 DEF ShareInv, StartedFrom
<1> DEFINE found == Related(Current, Candidates)
           Offers(places, now) ==
             /\ now = Current
             /\ \/ places = found /\ asm' = [asm EXCEPT !.context = Offering(places)]
                \/ /\ places = {}
                   /\ asm' = [asm EXCEPT !.context = Offering(places), !.degraded = asm.degraded \cup {now.ref}]
<1>3. PICK places, now : Offers(places, now)
  <2>1. Offers(found, Current) \/ Offers({}, Current)
    <3>1. \/ asm' = [asm EXCEPT !.context = Offering(found)]
          \/ asm' = [asm EXCEPT !.context = Offering({}), !.degraded = asm.degraded \cup {Current.ref}]
      BY DEF QueryLoop
    <3> HIDE DEF found
    <3>2. QED  BY <3>1
  <2> HIDE DEF Offers
  <2>2. QED  BY <2>1
<1>4. /\ asm'.at = "hits" /\ asm'.context = Offering(places) /\ asm'.ranking = asm.ranking
      /\ asm.degraded \subseteq asm'.degraded
      /\ (places = Related(now, Candidates) \/ (places = {} /\ now.ref \in asm'.degraded))
  <2>1. DOMAIN asm = AssemblyFields
    BY <1>1 DEF AssemblyOK
  <2>2. PICK context : context = Offering(places)
    OBVIOUS
  <2>3. now = Current /\ (places = found \/ (places = {} /\ asm'.degraded = asm.degraded \cup {now.ref}))
        /\ asm'.at = "hits" /\ asm'.context = context /\ asm'.ranking = asm.ranking
        /\ (asm'.degraded = asm.degraded \/ asm'.degraded = asm.degraded \cup {now.ref})
    <3>1. CASE places = found /\ asm' = [asm EXCEPT !.context = context]
      <4> HIDE DEF found
      <4>1. QED  BY <1>0, <1>3, <2>1, <3>1 DEF AssemblyFields
    <3>2. CASE places = {} /\ asm' = [asm EXCEPT !.context = context, !.degraded = asm.degraded \cup {now.ref}]
      <4> HIDE DEF found
      <4>1. QED  BY <1>0, <1>3, <2>1, <3>2 DEF AssemblyFields
    <3>3. QED  BY <1>3, <2>2, <3>1, <3>2
  <2>4. QED  BY <2>2, <2>3
<1>5. /\ DOMAIN Context' = DOMAIN Context /\ Context'.loops = Context.loops /\ Context'.hits = Context.hits
      /\ Context'.chars = Context.chars /\ Context'.at = Context.at /\ Context'.pass = Context.pass
      /\ Context'.asked = [q \in DOMAIN Context.asked \cup {now.ref} |->
                             IF q = now.ref THEN places ELSE Context.asked[q]]
  <2>1. asm.context = Context /\ DOMAIN Context = {"pass", "at", "loops", "asked", "hits", "chars"}
    BY <1>1 DEF RoundsOK, Context
  <2>2. Context' = [Context EXCEPT !.asked = [q \in DOMAIN Context.asked \cup {now.ref} |->
                                                IF q = now.ref THEN places ELSE Context.asked[q]]]
    BY <1>3, <1>4 DEF Offering, Context
  <2>3. QED  BY <2>1, <2>2
<1>6. TakenRefs' = TakenRefs /\ \A r : Taken(r)' = Taken(r)
  BY <1>5 DEF TakenRefs, Taken
<1>7. ShownNotes(asm.ranking)' = ShownNotes(asm.ranking) /\ \A l : Related(l, Candidates)' = Related(l, Candidates)
  <2>1. ShownNotes(asm.ranking)' = ShownNotes(asm.ranking)
    BY <1>4 DEF ShownNotes
  <2>2. ASSUME NEW l PROVE Excluded(l)' = Excluded(l) /\ Hits(l)' = Hits(l)
    BY <1>0, <2>1 DEF Excluded, Hits
  <2>3. ASSUME NEW l PROVE Page(l, Candidates)' = Page(l, Candidates)
    BY <2>2 DEF Page, Candidates
  <2>4. ASSUME NEW l PROVE Related(l, Candidates)' = Related(l, Candidates)
    BY <2>2, <2>3 DEF Related, Candidates
  <2>5. QED  BY <2>1, <2>4
<1>8. LinesOK'
  BY <1>1, <1>5, <1>6, <1>7 DEF HitsOK, LinesOK
<1>9. PaidOK'
  BY <1>0, <1>1, <1>5, <1>6 DEF HitsOK, PaidOK, TakenAt
<1>10. RoundsOK'
  <2>1. ASSUME NEW i \in DOMAIN Context.loops, NEW l, l = Context.loops[i]
        PROVE  /\ Asked(l)' => \/ l.ref \in asm'.degraded /\ Offered(l)' = {}
                               \/ Offered(l)' = Related(l, Candidates)'
               /\ Cardinality(Taken(l.ref))' >= Rounds(i)' \/ Spent(l)'
    <3>1. CASE l.ref = now.ref
      <4>1. now \in Range(Context.loops) /\ l \in Range(Context.loops)
        BY <1>0, <1>1, <1>3, <2>1, CurrentIsThere DEF HasTurn, Range
      <4>2. l = now
        BY <3>1, <4>1, <1>1, LoopsAreFiled DEF FiledOK
      <4>3. Offered(l)' = places
        BY <3>1, <1>5 DEF Offered
      <4>4. ~Spent(l)
        BY <4>2, <1>0, <1>3 DEF Spent
      <4>5. Cardinality(Taken(l.ref)) >= Rounds(i)
        BY <4>4, <2>1, <1>1 DEF RoundsOK
      <4>6. QED  BY <4>2, <4>3, <4>5, <1>4, <1>5, <1>6, <1>7 DEF Rounds
    <3>2. CASE l.ref # now.ref
      <4>1. (Asked(l)' <=> Asked(l)) /\ (Asked(l) => Offered(l)' = Offered(l))
        BY <3>2, <1>5 DEF Asked, Offered
      <4>2. Spent(l) => Spent(l)'
        BY <4>1, <1>0, <1>6 DEF Spent, Free, Hits
      <4>3. QED  BY <4>1, <4>2, <2>1, <1>1, <1>4, <1>5, <1>6, <1>7 DEF RoundsOK, Rounds
    <3>3. QED  BY <3>1, <3>2
  <2>2. /\ DOMAIN Context' = {"pass", "at", "loops", "asked", "hits", "chars"}
        /\ Context'.pass \in 1 .. (HitsPerLoop + 1)
        /\ Len(Context'.loops) \in Nat /\ Context'.loops \in [1 .. Len(Context'.loops) -> Filed(home)']
        /\ Context'.at \in Nat \ {0} /\ (Context'.loops # <<>> => Context'.at <= Len(Context'.loops))
    BY <1>0, <1>1, <1>5 DEF RoundsOK, Filed
  <2>3. QED  BY <2>1, <2>2, <1>5 DEF RoundsOK
<1>11. QED  BY <1>2, <1>4, <1>8, <1>9, <1>10 DEF ShareInv, HitsOK, EarlyStages, LoopShare

----------------------------------------------------------------------------
(* Before the rounds, and around them.                                     *)

\* No places cost nothing.
LEMMA CostsOfNone == ASSUME NEW hits, NEW N, Priced(hits, N) PROVE Costs(hits, {})[N] = 0
<1> DEFINE c == Costs(hits, {})
           S == {n \in 0 .. N : c[n] = 0}
<1>1. N \in Nat
  BY DEF Priced
<1>2. CostsAre(c, hits, N, {})
  BY CostFacts
<1> HIDE DEF c
<1>3. c[0] = 0 /\ \A n \in 1 .. N : c[n] = c[n - 1] + 0
  BY <1>2 DEF CostsAre
<1>4. 0 \in S
  BY <1>1, <1>3
<1>5. ASSUME NEW n \in 0 .. (N - 1), n \in S PROVE n + 1 \in S
  <2>1. n + 1 \in 1 .. N /\ n + 1 \in 0 .. N /\ (n + 1) - 1 = n /\ c[n] = 0
    BY <1>1, <1>5
  <2>2. c[n + 1] = c[n] + 0
    BY <1>3, <2>1
  <2>3. QED  BY <2>1, <2>2
<1>6. 0 .. N \subseteq S
  <2> HIDE DEF S
  <2>1. QED  BY <1>1, <1>4, <1>5, Upwards
<1>7. N \in 0 .. N
  BY <1>1
<1>8. QED  BY <1>6, <1>7 DEF c

\* The first part of anything is finite.
LEMMA FirstPartFinite == ASSUME NEW s, NEW n \in Nat PROVE IsFiniteSet(Range(FirstN(s, n)))
<1> DEFINE f == FirstN(s, n)
<1>1. DOMAIN f \in SUBSET (1 .. n) /\ f \in [DOMAIN f -> Range(f)]
  <2>1. f = [i \in DOMAIN s \cap 1 .. n |-> s[i]]
    BY DEF FirstN
  <2> HIDE DEF f
  <2>2. QED  BY <2>1 DEF Range
<1> HIDE DEF f
<1>2. f \in Surjection(DOMAIN f, Range(f))
  BY <1>1 DEF Surjection, Range
<1>3. IsFiniteSet(DOMAIN f)
  <2>1. IsFiniteSet(1 .. n)
    BY FS_Interval
  <2>2. QED  BY <1>1, <2>1, FS_Subset
<1>4. QED  BY <1>2, <1>3, FS_Surjection DEF f

\* Only so many notes are shown.
LEMMA NotesFinite == ASSUME NEW notes, NEW hits PROVE IsFiniteSet(ShownNotes(Ranking(notes, hits)))
<1>1. \A s : IsFiniteSet(Range(FirstN(s, NotesLimit))) /\ IsFiniteSet(Range(FirstN(s, ForeignCap)))
  BY FirstPartFinite, BootstrapAssumption
<1>2. IsFiniteSet(Range(<<>>))
  BY FS_EmptySet DEF Range
<1>3. PICK ranking : ranking = Ranking(notes, hits)
  OBVIOUS
<1>4. ranking.foreign = <<>> \/ \E s : ranking.foreign = FirstN(s, ForeignCap)
  BY <1>3 DEF Ranking
<1>5. IsFiniteSet(Range(ranking.foreign))
  BY <1>1, <1>2, <1>4
<1>6. QED  BY <1>1, <1>3, <1>5, FS_Union DEF ShownNotes

\* The rounds begin with the loops of the prompt, and nothing has been taken or paid.
LEMMA RankShares == ASSUME BootInv, ShareInv, RankNotes PROVE ShareInv'
<1>0. asm.at = "rank" /\ UNCHANGED home /\ Context = NoContext /\ RelatedOK /\ FiledOK /\ AssemblyOK
  BY FromTheStart DEF RankNotes, ShareInv, EarlyStages, BootInv
<1>1. StartedFrom'
  BY <1>0 DEF ShareInv, StartedFrom
<1>2. PICK hits : asm' = [asm EXCEPT !.at = "hits", !.ranking = Ranking(home.notes, hits), !.context.loops = Rendered]
  BY DEF RankNotes
<1>3. /\ asm'.at = "hits" /\ asm'.ranking = Ranking(home.notes, hits)
      /\ asm'.context = [NoContext EXCEPT !.loops = Rendered]
  <2>1. PICK ranking, loops : ranking = Ranking(home.notes, hits) /\ loops = Rendered
    OBVIOUS
  <2>2. asm' = [asm EXCEPT !.at = "hits", !.ranking = ranking, !.context.loops = loops]
    BY <1>2, <2>1
  <2>3. asm'.at = "hits" /\ asm'.ranking = ranking /\ asm'.context = [asm.context EXCEPT !.loops = loops]
    BY <2>2, <1>0 DEF AssemblyOK, AssemblyFields
  <2>4. QED  BY <2>1, <2>3, <1>0 DEF Context
<1>4. /\ DOMAIN Context' = {"pass", "at", "loops", "asked", "hits", "chars"} /\ Context'.loops = Rendered
      /\ Context'.pass = 1 /\ Context'.at = 1 /\ Context'.asked = <<>> /\ Context'.hits = <<>>
      /\ Context'.chars = CharsTotal
  BY <1>3 DEF NoContext, Context
<1>5. TakenRefs' = {} /\ \A r : Taken(r)' = {}
  BY <1>4 DEF TakenRefs, Taken, Range
<1>6. LinesOK'
  <2>1. ShownNotes(asm.ranking)' = ShownNotes(Ranking(home.notes, hits))
    BY <1>3 DEF ShownNotes
  <2>2. IsFiniteSet(ShownNotes(asm.ranking)')
    BY <2>1, NotesFinite
  <2>3. CharsTotal \in Nat /\ HitsTotal \in Nat
    BY BootstrapAssumption
  <2>4. <<>> \in Seq(Range(<<>>)) /\ Len(<<>>) = 0 /\ DOMAIN <<>> = {}
    OBVIOUS
  <2>5. QED  BY <1>4, <1>5, <2>2, <2>3, <2>4 DEF LinesOK
<1>7. PaidOK'
  <2>1. ASSUME NEW r \in DOMAIN home.related PROVE Costs(home.related[r], {})[Len(home.related[r])] = 0
    BY <1>0, CostsOfNone DEF RelatedOK, Ranked
  <2>2. \A r : TakenAt(r)' = {}
    BY <1>5 DEF TakenAt
  <2>3. CharsTotal \in Nat
    BY BootstrapAssumption
  <2>4. ASSUME NEW r \in DOMAIN home.related
        PROVE  Context'.chars + Costs(home.related[r], TakenAt(r)')[Len(home.related[r])] <= CharsTotal
    <3>1. Costs(home.related[r], TakenAt(r)') = Costs(home.related[r], {})
      BY <2>2
    <3>2. QED  BY <1>4, <2>1, <2>3, <3>1
  <2>5. (DOMAIN home.related)' = DOMAIN home.related /\ \A r : (home.related[r])' = home.related[r]
    BY <1>0
  <2>6. QED  BY <2>4, <2>5 DEF PaidOK
<1>8. RoundsOK'
  <2> DEFINE S == {l \in OpenLoops(asm.sessions, asm.tasks) : ~HiddenLoop(l, asm.tasks, asm.call.facet)}
  <2>1. S \in SUBSET Filed(home)
    <3>1. asm.sessions \subseteq home.sessions
      BY <1>0 DEF BootInv, ReadOK, Begun
    <3>2. OpenLoops(asm.sessions, asm.tasks) \subseteq UNION {o.opens : o \in asm.sessions}
      BY DEF OpenLoops
    <3>3. QED  BY <3>1, <3>2 DEF Filed
  <2>2. Rendered = OldestFirst(S)
    BY DEF Rendered
  <2> HIDE DEF S
  <2>3. IsFiniteSet(S) /\ \A l \in S : l.age \in Nat /\ l.order \in Nat
    BY <1>0, <2>1, FS_Subset DEF FiledOK
  <2>4. Rendered \in SetToSeqs(S)
    BY <2>2, <2>3, LoopsSort
  <2>5. Len(Rendered) \in Nat /\ Rendered \in [1 .. Len(Rendered) -> S] /\ Rendered \in Seq(S)
    BY <2>3, <2>4, SetsAsSequences
  <2>6. Rendered # <<>> => 1 <= Len(Rendered)
    BY <2>5, EmptySeq
  <2>7. Rendered \in [1 .. Len(Rendered) -> Filed(home)'] /\ DOMAIN Rendered = 1 .. Len(Rendered)
    BY <1>0, <2>1, <2>5 DEF Filed
  <2>8. HitsPerLoop \in Nat
    BY BootstrapAssumption
  <2>9. \A l : ~Asked(l)'
    BY <1>4 DEF Asked
  <2>10. \A i \in DOMAIN Rendered : Rounds(i)' = 0
    BY <1>4, <2>5, <2>7 DEF Rounds
  <2>11. \A r : Cardinality(Taken(r))' >= 0
    BY <1>5, FS_EmptySet
  <2>12. ASSUME NEW i \in DOMAIN Rendered, NEW l, l = Rendered[i]
         PROVE  ~Asked(l)' /\ Cardinality(Taken(l.ref))' >= Rounds(i)'
    BY <2>9, <2>10, <2>11
  <2> HIDE DEF Rendered
  <2>13. /\ Context'.pass \in 1 .. (HitsPerLoop + 1) /\ Context'.at \in Nat \ {0}
         /\ (Context'.loops # <<>> => Context'.at <= Len(Context'.loops))
    BY <1>4, <2>6, <2>8
  <2>14. QED  BY <1>4, <2>5, <2>7, <2>12, <2>13 DEF RoundsOK
<1>9. QED  BY <1>1, <1>3, <1>6, <1>7, <1>8 DEF ShareInv, HitsOK, EarlyStages, LoopShare

\* The steps before the rounds leave them as they are at the start.
LEMMA EarlyShares ==
  ASSUME ShareInv, StartedFrom', asm.at \in EarlyStages, asm'.at \in EarlyStages, asm'.context = asm.context
  PROVE  ShareInv'
  BY DEF ShareInv, EarlyStages, LoopShare, Context

\* None of the steps that read, or ask about branches, touches the rounds.
LEMMA ReadingShares ==
  ASSUME BootInv, ShareInv,
         \/ ArchiveRead \/ ArchiveSkips
         \/ \E dir \in {"tasks", "sessions"} : List(dir) \/ ListFails(dir) \/ LoadFile(dir)
         \/ ReadRest \/ EndRead
         \/ \E r \in Repos : ListRepoPrs(r)
         \/ \E i \in 1 .. LiveLimit : BranchPr(i) \/ GitStatus(i)
         \/ GitStart \/ EndLive \/ Probe
  PROVE  ShareInv'
<1>0. DOMAIN asm = AssemblyFields
  BY DEF BootInv, AssemblyOK
<1> USE DEF AssemblyFields, EarlyStages
<1>1. UNCHANGED home /\ asm.at \in {"archive", "read", "live", "probe"}
  BY DEF ArchiveRead, ArchiveSkips, List, ListFails, LoadFile, ReadRest, EndRead, ListRepoPrs, BranchPr, GitStatus,
         GitStart, EndLive, Probe
<1>2. StartedFrom'
  BY <1>1 DEF ShareInv, StartedFrom
<1>3. asm'.at \in EarlyStages /\ asm'.context = asm.context
  <2>1. CASE ArchiveRead \/ ArchiveSkips
    <3>1. \/ asm' = [asm EXCEPT !.at = "read"]
          \/ \E todo, moving : asm' = [asm EXCEPT !.todo.tasks = todo, !.moving = moving]
          \/ asm' = [asm EXCEPT !.moving = NoTarget]
      BY <2>1 DEF ArchiveRead, ArchiveSkips
    <3>2. QED  BY <1>0, <1>1, <3>1
  <2>2. ASSUME NEW dir, List(dir) \/ ListFails(dir)
        PROVE  asm'.at \in EarlyStages /\ asm'.context = asm.context
    <3>1. \E unlisted, todo : \/ asm' = [asm EXCEPT !.unlisted = unlisted, !.todo[dir] = todo]
                             \/ asm' = [asm EXCEPT !.unlisted = unlisted]
      BY <2>2 DEF List, ListFails
    <3>2. QED  BY <1>0, <1>1, <3>1
  <2>3. ASSUME NEW dir \in {"tasks", "sessions"}, LoadFile(dir)
        PROVE  asm'.at \in EarlyStages /\ asm'.context = asm.context
    <3>1. \E todo, value : \/ asm' = [[asm EXCEPT !.todo[dir] = todo] EXCEPT ![dir] = value]
                           \/ asm' = [[asm EXCEPT !.todo[dir] = todo] EXCEPT !.bad[dir] = value]
      BY <2>3 DEF LoadFile
    <3>2. QED  BY <1>0, <1>1, <3>1
  <2>4. CASE ReadRest
    <3>1. \E rest : asm' = [asm EXCEPT !.rest = rest]
      BY <2>4 DEF ReadRest
    <3>2. QED  BY <1>0, <1>1, <3>1
  <2>5. CASE EndRead
    <3>1. asm' = [asm EXCEPT !.at = "probe"] \/ \E live : asm' = [asm EXCEPT !.at = "live", !.live = live]
      BY <2>5 DEF EndRead
    <3>2. QED  BY <1>0, <3>1
  <2>6. ASSUME NEW r, ListRepoPrs(r) PROVE asm'.at \in EarlyStages /\ asm'.context = asm.context
    <3>1. \E list : asm' = [asm EXCEPT !.live.bulk[r] = list] \/ asm' = [asm EXCEPT !.live.bulk[r].at = list]
      BY <2>6 DEF ListRepoPrs
    <3>2. QED  BY <1>0, <1>1, <3>1
  <2>7. ASSUME NEW i, BranchPr(i) PROVE asm'.at \in EarlyStages /\ asm'.context = asm.context
    <3>1. \E pr : asm' = [asm EXCEPT !.live.pr[i] = pr]
      BY <2>7 DEF BranchPr, Answer
    <3>2. QED  BY <1>0, <1>1, <3>1
  <2>8. ASSUME NEW i, \/ GitStatus(i) \/ GitStart PROVE asm'.at \in EarlyStages /\ asm'.context = asm.context
    <3>1. \E j, status : asm' = [asm EXCEPT !.live.git[j] = status]
      BY <2>8 DEF GitStatus, GitStart
    <3>2. QED  BY <1>0, <1>1, <3>1
  <2>9. CASE EndLive \/ Probe
    <3>1. \/ asm' = [asm EXCEPT !.at = "probe"] \/ asm' = [asm EXCEPT !.at = "rank"]
          \/ \E siblings : asm' = [asm EXCEPT !.at = "rank", !.siblings = siblings]
      BY <2>9 DEF EndLive, Probe
    <3>2. QED  BY <1>0, <3>1
  <2>10. QED  BY <2>1, <2>2, <2>3, <2>4, <2>5, <2>6, <2>7, <2>8, <2>9
<1>4. QED  BY <1>1, <1>2, <1>3, EarlyShares

\* What others do leaves the search, the loops and the lines alone, but for files to come.
LEMMA OthersShare ==
  ASSUME ShareInv, StartedFrom', home'.related = home.related, home.sessions \subseteq home'.sessions, UNCHANGED asm
  PROVE  ShareInv'
<1>1. Context' = Context /\ TakenRefs' = TakenRefs /\ Left' = Left /\ BudgetLeft' = BudgetLeft
      /\ \A r : Taken(r)' = Taken(r) /\ TakenAt(r)' = TakenAt(r)
  BY DEF Context, TakenRefs, Left, Taken, TakenAt, BudgetLeft
<1>2. ShownNotes(asm.ranking)' = ShownNotes(asm.ranking) /\ \A l : Excluded(l)' = Excluded(l) /\ Hits(l)' = Hits(l)
  BY DEF ShownNotes, Excluded, Hits
<1>3. \A l : Page(l, Candidates)' = Page(l, Candidates) /\ Related(l, Candidates)' = Related(l, Candidates)
  BY <1>2 DEF Page, Related, Candidates
<1>4. \A l : /\ Untaken(l)' = Untaken(l) /\ (Crowded(l)' <=> Crowded(l))
  BY <1>1, <1>2, <1>3 DEF Untaken, Crowded
<1>5. LoopShare'
  <2>1. SharedOut => SharedOut'
    BY <1>1, <1>2, <1>4 DEF SharedOut
  <2>2. (LoopShare <=> (asm.at = "log" => SharedOut))'
    BY ShareSays, PTL
  <2>3. QED  BY <2>1, <2>2, ShareSays DEF ShareInv
<1>6. ASSUME HitsOK PROVE HitsOK'
  <2>1. LinesOK'
    BY <1>1, <1>2, <1>6 DEF HitsOK, LinesOK
  <2>2. PaidOK'
    BY <1>1, <1>6 DEF HitsOK, PaidOK
  <2>3. \A l : /\ (Asked(l)' <=> Asked(l)) /\ Offered(l)' = Offered(l) /\ (Spent(l)' <=> Spent(l))
    BY <1>1, <1>2 DEF Asked, Offered, Spent, Free
  <2>4. \A i : Rounds(i)' = Rounds(i)
    BY <1>1 DEF Rounds
  <2>5. Filed(home) \subseteq Filed(home)'
    BY DEF Filed
  <2>6. RoundsOK'
    <3>1. /\ DOMAIN Context' = {"pass", "at", "loops", "asked", "hits", "chars"}
          /\ Context'.pass \in 1 .. (HitsPerLoop + 1)
          /\ Len(Context'.loops) \in Nat /\ Context'.loops \in [1 .. Len(Context'.loops) -> Filed(home)']
          /\ Context'.at \in Nat \ {0} /\ (Context'.loops # <<>> => Context'.at <= Len(Context'.loops))
      <4>1. Context.loops \in [1 .. Len(Context.loops) -> Filed(home)']
        BY <1>6, <2>5 DEF HitsOK, RoundsOK
      <4>2. QED  BY <1>1, <1>6, <4>1 DEF HitsOK, RoundsOK
    <3>2. ASSUME NEW i \in DOMAIN Context.loops, NEW l, l = Context.loops[i]
          PROVE  /\ Asked(l)' => \/ l.ref \in asm'.degraded /\ Offered(l)' = {}
                                 \/ Offered(l)' = Related(l, Candidates)'
                 /\ Cardinality(Taken(l.ref))' >= Rounds(i)' \/ Spent(l)'
      BY <1>1, <1>3, <1>6, <2>3, <2>4, <3>2 DEF HitsOK, RoundsOK
    <3>3. QED  BY <1>1, <3>1, <3>2 DEF RoundsOK
  <2>7. QED  BY <2>1, <2>2, <2>6 DEF HitsOK
<1>7. QED  BY <1>1, <1>5, <1>6 DEF ShareInv

\* The invariant holds at the start, and every step keeps it.
LEMMA SharesStart == BootstrapInit => ShareInv
<1> SUFFICES ASSUME BootstrapInit PROVE ShareInv
  OBVIOUS
<1>1. home \in Starts /\ asm = NoAssembly
  BY DEF BootstrapInit
<1>2. asm.at = "idle" /\ asm.context = NoContext
  BY <1>1 DEF NoAssembly
<1>3. StartedFrom
  BY <1>1 DEF StartedFrom
<1>4. QED  BY <1>2, <1>3 DEF ShareInv, LoopShare, EarlyStages, Context

\* A new assembly has no rounds yet, and after the rounds there are none.
LEMMA OpenShares == ASSUME BootInv, ShareInv, NEW call \in Opens, StartOpen(call) PROVE ShareInv'
<1>1. UNCHANGED home /\ asm.at = "idle" /\ DOMAIN asm = AssemblyFields
  BY DEF StartOpen, BootInv, AssemblyOK
<1>2. StartedFrom'
  BY <1>1 DEF ShareInv, StartedFrom
<1>3. Context = NoContext
  BY <1>1 DEF ShareInv, EarlyStages
<1>4. asm'.at \in EarlyStages /\ Context' = NoContext
  <2>1. CASE asm' = [asm EXCEPT !.at = "failed"]
    BY <1>1, <1>3, <2>1 DEF EarlyStages, Context, AssemblyFields
  <2>2. CASE home.brief
    <3> DEFINE place == IF call.archives THEN "archive" ELSE "read"
    <3>0. place \in {"archive", "read"}
      OBVIOUS
    <3>1. PICK tasks : asm' = [NoAssembly EXCEPT !.at = place, !.call = call, !.todo.tasks = tasks,
                                                 !.unlisted = {"tasks", "sessions"}]
      BY <2>2 DEF StartOpen
    <3> HIDE DEF place
    <3>2. QED  BY <3>0, <3>1 DEF NoAssembly, EarlyStages, Context
  <2>3. QED  BY <2>1, <2>2 DEF StartOpen
<1>5. asm'.context = asm.context
  BY <1>3, <1>4 DEF Context
<1>6. QED  BY <1>1, <1>2, <1>4, <1>5, EarlyShares DEF EarlyStages

LEMMA EndShares == ASSUME BootInv, ShareInv, AppendHitLog \/ Kill PROVE ShareInv'
<1>1. UNCHANGED home /\ DOMAIN asm = AssemblyFields
  BY DEF AppendHitLog, Kill, BootInv, AssemblyOK
<1>2. StartedFrom'
  BY <1>1 DEF ShareInv, StartedFrom
<1>3. CASE AppendHitLog
  <2>1. asm' = [asm EXCEPT !.at = "done"] \/ \E d : asm' = [asm EXCEPT !.at = "done", !.degraded = d]
    BY <1>3 DEF AppendHitLog
  <2>2. asm'.at = "done"
    BY <1>1, <2>1 DEF AssemblyFields
  <2>3. QED  BY <1>2, <2>2 DEF ShareInv, LoopShare, EarlyStages
<1>4. CASE Kill
  <2>1. asm' = [NoAssembly EXCEPT !.at = "failed"]
    BY <1>4 DEF Kill
  <2>2. asm'.at = "failed" /\ asm'.context = NoContext
    BY <2>1 DEF NoAssembly
  <2>3. QED  BY <1>2, <2>2 DEF ShareInv, LoopShare, EarlyStages, Context
<1>5. QED  BY <1>3, <1>4

\* The tasks, sessions and pull requests of others, and the archive of old tasks.
LEMMA MeanwhileShares == ASSUME BootInv, ShareInv, Meanwhile PROVE ShareInv'
<1>1. UNCHANGED asm
  BY DEF Meanwhile, TaskMoves, Wrap, PrMoves
<1>2. "related" \in DOMAIN home /\ "sessions" \in DOMAIN home /\ "tasks" \in DOMAIN home
  BY DEF BootInv, WorldOK
<1>3. home'.related = home.related /\ \E s \in {{}} \cup {{w} : w \in Later} : home'.sessions = home.sessions \cup s
  <2>1. ASSUME NEW id, TaskMoves(id) PROVE home'.related = home.related /\ home'.sessions = home.sessions
    <3>1. (\E tasks : home' = [home EXCEPT !.tasks = tasks])
          \/ \E tasks, archived : home' = [home EXCEPT !.tasks = tasks, !.archived = archived]
      BY <2>1, Zenon DEF TaskMoves, Archived
    <3>2. QED  BY <3>1, <1>2
  <2>2. ASSUME NEW s \in Later, Wrap(s) PROVE home'.related = home.related /\ home'.sessions = home.sessions \cup {s}
    <3>1. home' = [home EXCEPT !.sessions = home.sessions \cup {s}]
      BY <2>2 DEF Wrap
    <3>2. QED  BY <3>1, <1>2
  <2>3. ASSUME NEW r, NEW head, PrMoves(r, head) PROVE UNCHANGED home
    BY <2>3 DEF PrMoves
  <2>4. {} \in {{}} \cup {{w} : w \in Later} /\ home.sessions = home.sessions \cup {}
    OBVIOUS
  <2>5. QED  BY <2>1, <2>2, <2>3, <2>4 DEF Meanwhile
<1>4. StartedFrom'
  BY <1>3 DEF ShareInv, StartedFrom
<1>5. home.sessions \subseteq home'.sessions
  BY <1>3
<1>6. QED  BY <1>1, <1>3, <1>4, <1>5, OthersShare

LEMMA ArchiveMoveShares == ASSUME BootInv, ShareInv, ArchiveMove PROVE ShareInv'
<1>1. DOMAIN asm = AssemblyFields /\ {"related", "sessions", "tasks", "archived"} \subseteq DOMAIN home
  BY DEF BootInv, AssemblyOK, WorldOK
<1>2. asm.at = "archive" /\ asm' = [asm EXCEPT !.moving = NoTarget] /\ home' = Archived(home, asm.moving)
  BY DEF ArchiveMove
<1>3. asm'.at = "archive" /\ asm'.context = asm.context
  BY <1>1, <1>2 DEF AssemblyFields
<1>4. home'.related = home.related /\ home'.sessions = home.sessions
  <2>1. \E tasks, archived : home' = [home EXCEPT !.tasks = tasks, !.archived = archived]
    BY <1>2, Zenon DEF Archived
  <2>2. QED  BY <1>1, <2>1
<1>5. StartedFrom'
  BY <1>4 DEF ShareInv, StartedFrom
<1>6. QED  BY <1>2, <1>3, <1>5, EarlyShares DEF EarlyStages

LEMMA SharesInductive == BootInv /\ ShareInv /\ [BootstrapNext]_bootstrapVars => ShareInv'
<1> SUFFICES ASSUME BootInv, ShareInv, [BootstrapNext]_bootstrapVars PROVE ShareInv'
  OBVIOUS
<1>1. CASE UNCHANGED bootstrapVars
  <2>1. UNCHANGED <<home, asm>>
    BY <1>1 DEF bootstrapVars
  <2>2. StartedFrom'
    BY <2>1 DEF ShareInv, StartedFrom
  <2>3. QED  BY <2>1, <2>2, OthersShare
<1>2. CASE Meanwhile
  BY <1>2, MeanwhileShares
<1>3. CASE Assemble
  <2>1. CASE \E call \in Opens : StartOpen(call)
    BY <2>1, OpenShares
  <2>2. CASE \/ ArchiveRead \/ ArchiveSkips
             \/ \E dir \in {"tasks", "sessions"} : List(dir) \/ ListFails(dir) \/ LoadFile(dir)
             \/ ReadRest \/ EndRead
             \/ \E r \in Repos : ListRepoPrs(r)
             \/ \E i \in 1 .. LiveLimit : BranchPr(i) \/ GitStatus(i)
             \/ GitStart \/ EndLive \/ Probe
    BY <2>2, ReadingShares
  <2>3. CASE ArchiveMove
    BY <2>3, ArchiveMoveShares
  <2>4. CASE RankNotes
    BY <2>4, RankShares
  <2>5. CASE QueryLoop
    BY <2>5, QueryShares
  <2>6. CASE AllocateOne
    BY <2>6, AllocateShares
  <2>7. CASE AppendHitLog \/ Kill
    BY <2>7, EndShares
  <2>8. QED  BY <1>3, <2>1, <2>2, <2>3, <2>4, <2>5, <2>6, <2>7 DEF Assemble
<1>4. QED  BY <1>1, <1>2, <1>3 DEF BootstrapNext

\* The lines under the loops are paid for, of different hits, and as many as the rounds allow,
\* at every step (relatedForLoops).
THEOREM LinesAreShared == BootstrapSpec => []ShareInv
<1>1. BootstrapSpec => BootstrapInit /\ [][BootstrapNext]_bootstrapVars
  BY DEF BootstrapSpec
<1>2. QED  BY <1>1, PromptInvariant, SharesStart, SharesInductive, PTL

----------------------------------------------------------------------------
(* The workers in the roll-up.                                             *)

WorkersOf(W, w) == {s \in W : s.worker.spawner = w}
EntryOf(W, w) ==
  [spawner |-> w, total |-> Cardinality(WorkersOf(W, w)),
   troubled |-> {s \in WorkersOf(W, w) : s.worker.outcome \in {"no_report", "concerns"}}]
Spawners(W) == {s.worker.spawner : s \in W}
EntriesOf(W) == {EntryOf(W, w) : w \in Spawners(W)}

\* There are as many entries as spawners.
LEMMA SpawnersFinite ==
  ASSUME NEW W, IsFiniteSet(W)
  PROVE  /\ IsFiniteSet(Spawners(W)) /\ IsFiniteSet(EntriesOf(W))
         /\ Cardinality(EntriesOf(W)) = Cardinality(Spawners(W)) /\ Cardinality(Spawners(W)) \in Nat
<1> DEFINE f == [s \in W |-> s.worker.spawner]
           g == [w \in Spawners(W) |-> EntryOf(W, w)]
<1>1. f \in Surjection(W, Spawners(W))
  BY DEF Surjection, Spawners
<1>2. IsFiniteSet(Spawners(W)) /\ Cardinality(Spawners(W)) \in Nat
  <2> HIDE DEF f
  <2>1. QED  BY <1>1, FS_Surjection, FS_CardinalityType
<1>3. \A v, w : EntryOf(W, v) = EntryOf(W, w) => v = w
  BY DEF EntryOf
<1>4. g \in Bijection(Spawners(W), EntriesOf(W))
  BY <1>3 DEF Bijection, Injection, Surjection, IsInjective, EntriesOf
<1>5. ExistsBijection(Spawners(W), EntriesOf(W))
  <2> HIDE DEF g
  <2>1. QED  BY <1>4 DEF ExistsBijection
<1>6. QED  BY <1>2, <1>5, FS_Bijection

\* There is one entry for each spawner, with the number of its workers.
LEMMA RollupFacts ==
  ASSUME NEW W, IsFiniteSet(W), NEW q, q = Rollup(W), NEW N, N = Cardinality(Spawners(W))
  PROVE  /\ N \in Nat /\ Len(q) = N /\ q \in [1 .. N -> EntriesOf(W)] /\ q \in Seq(EntriesOf(W))
         /\ \A i, j \in 1 .. N : i # j => q[i].spawner # q[j].spawner
         /\ \A i \in 1 .. N : /\ q[i].total = Cardinality(WorkersOf(W, q[i].spawner))
                              /\ IsFiniteSet(WorkersOf(W, q[i].spawner)) /\ q[i].total \in Nat
<1> DEFINE E == EntriesOf(W)
           B == {p \in E \X E : p[1].total > p[2].total}
<1>1. IsFiniteSet(E) /\ Cardinality(E) = N /\ N \in Nat
  BY SpawnersFinite
<1>2. ASSUME NEW w PROVE IsFiniteSet(WorkersOf(W, w)) /\ Cardinality(WorkersOf(W, w)) \in Nat
  <2>1. WorkersOf(W, w) \in SUBSET W
    BY DEF WorkersOf
  <2>2. QED  BY <2>1, FS_Subset, FS_CardinalityType
<1>3. \A e \in E : /\ e = EntryOf(W, e.spawner) /\ e.total = Cardinality(WorkersOf(W, e.spawner))
                   /\ e.total \in Nat
  BY <1>2 DEF EntriesOf, EntryOf
<1>4. \A e, f \in E : <<e, f>> \in B <=> e.total > f.total
  OBVIOUS
<1>5. q = InOrder(E, LAMBDA e, f : e.total > f.total)
  <2>1. {EntryOf(W, s.worker.spawner) : s \in W} = E
    BY DEF EntriesOf, Spawners
  <2>2. Rollup(W) = InOrder({EntryOf(W, s.worker.spawner) : s \in W}, LAMBDA e, f : e.total > f.total)
    BY DEF Rollup, EntryOf, WorkersOf
  <2> HIDE DEF E
  <2>3. QED  BY <2>1, <2>2
<1> HIDE DEF B, E
<1>6. Precedes(B, E)
  BY <1>3, <1>4 DEF Precedes
<1>7. PICK s \in SetToSeqs(E) : SortedBy(s, B)
  BY <1>1, <1>6, SortingExists
<1>8. \A i, j \in DOMAIN s : i < j => ~(s[j].total > s[i].total)
  <2>1. DOMAIN s = 1 .. Cardinality(E) /\ \A i \in DOMAIN s : s[i] \in E
    BY <1>1, SetsAsSequences
  <2>2. QED  BY <1>4, <1>7, <2>1 DEF SortedBy
<1>9. q \in SetToSeqs(E)
  BY <1>5, <1>8 DEF InOrder
<1>10. /\ Len(q) = N /\ q \in [1 .. N -> E] /\ q \in Seq(E) /\ DOMAIN q = 1 .. N
       /\ \A i, j \in DOMAIN q : i # j => q[i] # q[j]
  BY <1>1, <1>9, SetsAsSequences
<1>11. \A i, j \in 1 .. N : i # j => q[i].spawner # q[j].spawner
  BY <1>3, <1>10
<1>12. QED  BY <1>1, <1>2, <1>3, <1>10, <1>11 DEF E

\* The workers of the first n spawners of the roll-up.
Covered(W, q, n) == {w \in W : \E i \in 1 .. n : q[i].spawner = w.worker.spawner}

\* The numbers of the first lines add up to their workers.
LEMMA TotalsCover ==
  ASSUME NEW W, IsFiniteSet(W), NEW q, q = Rollup(W), NEW N, N \in 0 .. Len(q), NEW t, t = [i \in 1 .. N |-> q[i].total]
  PROVE  SumTo(t)[N] = Cardinality(Covered(W, q, N))
<1> DEFINE M == Cardinality(Spawners(W))
           S == {n \in 0 .. N : SumTo(t)[n] = Cardinality(Covered(W, q, n))}
<1>1. /\ M \in Nat /\ Len(q) = M /\ \A i, j \in 1 .. M : i # j => q[i].spawner # q[j].spawner
      /\ \A i \in 1 .. M : /\ q[i].total = Cardinality(WorkersOf(W, q[i].spawner))
                           /\ IsFiniteSet(WorkersOf(W, q[i].spawner)) /\ q[i].total \in Nat
  BY RollupFacts
<1> HIDE DEF M
<1>2. N \in Nat /\ N <= M /\ \A i \in 1 .. N : i \in 1 .. M
  BY <1>1
<1>3. t \in [1 .. N -> Nat] /\ \A i \in 1 .. N : t[i] = q[i].total
  BY <1>1, <1>2
<1>4. /\ SumTo(t)[0] = 0 /\ \A n \in 0 .. N : SumTo(t)[n] \in Nat
      /\ \A n \in 1 .. N : SumTo(t)[n] = SumTo(t)[n - 1] + t[n]
  BY <1>2, <1>3, SumFacts
<1>5. 0 \in S
  <2>1. Covered(W, q, 0) = {}
    BY DEF Covered
  <2>2. Cardinality(Covered(W, q, 0)) = 0 /\ 0 \in 0 .. N
    BY <1>2, <2>1, FS_EmptySet
  <2>3. QED  BY <1>4, <2>2
<1>6. ASSUME NEW n \in 0 .. (N - 1), n \in S PROVE n + 1 \in S
  <2>1. n \in Nat /\ n + 1 \in 1 .. N /\ n + 1 \in 0 .. N /\ (n + 1) - 1 = n /\ n \in 0 .. N /\ n + 1 \in 1 .. M
    BY <1>2
  <2> DEFINE before == Covered(W, q, n)
             new == WorkersOf(W, q[n + 1].spawner)
  <2>2. Covered(W, q, n + 1) = before \cup new
    <3>1. 1 .. (n + 1) = 1 .. n \cup {n + 1}
      BY <2>1
    <3>2. QED  BY <3>1 DEF Covered, WorkersOf
  <2>3. before \cap new = {}
    <3>1. \A i \in 1 .. n : i \in 1 .. M /\ i # n + 1
      BY <1>2, <2>1
    <3>2. \A i \in 1 .. n : q[i].spawner # q[n + 1].spawner
      BY <1>1, <2>1, <3>1
    <3>3. QED  BY <3>2 DEF Covered, WorkersOf
  <2>4. IsFiniteSet(before) /\ Cardinality(before) \in Nat /\ IsFiniteSet(new) /\ Cardinality(new) \in Nat
    <3>1. before \in SUBSET W
      BY DEF Covered
    <3>2. QED  BY <3>1, <1>1, <2>1, FS_Subset, FS_CardinalityType
  <2>5. Cardinality(new) = t[n + 1]
    BY <1>1, <1>3, <2>1
  <2>6. SumTo(t)[n] = Cardinality(before)
    BY <1>6
  <2>7. SumTo(t)[n + 1] = SumTo(t)[n] + t[n + 1]
    BY <1>4, <2>1
  <2> HIDE DEF before, new
  <2>8. Cardinality(before \cup new) = Cardinality(before) + Cardinality(new)
    <3>1. Cardinality(before \cup new) = Cardinality(before) + Cardinality(new) - Cardinality(before \cap new)
      BY <2>4, FS_Union
    <3>2. Cardinality(before \cap new) = 0
      BY <2>3, FS_EmptySet
    <3>3. QED  BY <2>4, <3>1, <3>2
  <2>9. SumTo(t)[n + 1] = Cardinality(Covered(W, q, n + 1))
    BY <2>2, <2>5, <2>6, <2>7, <2>8
  <2>10. QED  BY <2>1, <2>9
<1>7. 0 .. N \subseteq S
  <2> HIDE DEF S
  <2>1. QED  BY <1>2, <1>5, <1>6, Upwards
<1>8. N \in 0 .. N
  BY <1>2
<1>9. QED  BY <1>7, <1>8

\* What the roll-up prints.
ToldOf(told, W) ==
  /\ Len(told.lines) + (IF told.more > 0 THEN 1 ELSE 0) <= RollupLines
  /\ Len(told.lines) + told.more = Cardinality(Spawners(W))
  /\ SumTo([i \in DOMAIN told.lines |-> told.lines[i].total])[Len(told.lines)]
       = Cardinality({w \in W : \E e \in Range(told.lines) : e.spawner = w.worker.spawner})

LEMMA RollupTells ==
  ASSUME NEW W, IsFiniteSet(W), NEW told, told = RollupBody(Rollup(W))
  PROVE  ToldOf(told, W)
<1> DEFINE q == Rollup(W)
           M == Cardinality(Spawners(W))
           lines == told.lines
           K == Len(lines)
<1>1. M \in Nat /\ Len(q) = M /\ q \in [1 .. M -> EntriesOf(W)] /\ q \in Seq(EntriesOf(W)) /\ DOMAIN q = 1 .. M
  BY RollupFacts
<1>2. RollupLines \in Nat /\ RollupLines # 0
  BY BootstrapAssumption
<1>3. /\ K \in 0 .. M /\ DOMAIN lines = 1 .. K /\ \A i \in 1 .. K : lines[i] = q[i]
      /\ K + (IF told.more > 0 THEN 1 ELSE 0) <= RollupLines /\ K + told.more = M
  <2>1. CASE M > RollupLines
    <3>1. lines = FirstN(q, RollupLines - 1) /\ told.more = M - (RollupLines - 1)
      BY <1>1, <2>1 DEF RollupBody
    <3>2. lines = [i \in 1 .. (RollupLines - 1) |-> q[i]] /\ RollupLines - 1 \in Nat
      <4>1. 1 .. M \cap 1 .. (RollupLines - 1) = 1 .. (RollupLines - 1)
        BY <1>1, <1>2, <2>1
      <4>2. QED  BY <1>1, <1>2, <3>1, <4>1 DEF FirstN
    <3>3. lines \in [1 .. (RollupLines - 1) -> EntriesOf(W)]
      <4>1. \A i \in 1 .. (RollupLines - 1) : q[i] \in EntriesOf(W)
        BY <1>1, <1>2, <2>1
      <4>2. QED  BY <3>2, <4>1
    <3>4. K = RollupLines - 1 /\ DOMAIN lines = 1 .. (RollupLines - 1)
      BY <3>2, <3>3, SequenceOf
    <3> HIDE DEF lines, K
    <3>5. QED  BY <1>1, <1>2, <2>1, <3>1, <3>2, <3>4
  <2>2. CASE ~(M > RollupLines)
    <3>1. lines = q /\ told.more = 0
      BY <1>1, <2>2 DEF RollupBody
    <3>2. QED  BY <1>1, <1>2, <2>2, <3>1
  <2>3. QED  BY <2>1, <2>2
<1> DEFINE t == [i \in 1 .. K |-> q[i].total]
<1>4. [i \in DOMAIN lines |-> lines[i].total] = t
  BY <1>3
<1>5. SumTo(t)[K] = Cardinality(Covered(W, q, K))
  <2>1. K \in 0 .. Len(q)
    BY <1>1, <1>3
  <2>2. PICK r, k, u : r = q /\ k = K /\ u = t
    OBVIOUS
  <2>3. r = Rollup(W) /\ k \in 0 .. Len(r) /\ u = [i \in 1 .. k |-> r[i].total]
    BY <2>1, <2>2
  <2>4. SumTo(u)[k] = Cardinality(Covered(W, r, k))
    BY ONLY <2>3, TotalsCover, IsFiniteSet(W)
  <2>5. QED  BY <2>2, <2>4
<1>6. Covered(W, q, K) = {w \in W : \E e \in Range(lines) : e.spawner = w.worker.spawner}
  BY <1>3 DEF Covered, Range
<1>7. QED  BY <1>3, <1>4, <1>5, <1>6 DEF ToldOf

\* The prompt prints what the roll-up says.
LEMMA WorkersAreTold == BootInv /\ ShareInv => WorkersTold
<1> SUFFICES ASSUME BootInv, ShareInv, Done PROVE WorkersTold
  BY DEF WorkersTold
<1> DEFINE W == {w \in Parallel(asm.sessions) : w.worker # NoWorker}
<1>1. IsFiniteSet(W)
  <2>1. asm.sessions \subseteq home.sessions
    BY DEF BootInv, ReadOK, Begun, Done
  <2>2. W \in SUBSET home.sessions
    BY <2>1 DEF Parallel
  <2>3. IsFiniteSet(home.sessions)
    BY FromTheStart DEF ShareInv, FiledOK
  <2>4. QED  BY <2>2, <2>3, FS_Subset
<1>2. Sections.parallel.workers = RollupBody(Rollup(W))
  BY DEF Sections, ParallelLines
<1>3. Cardinality({w.worker.spawner : w \in W}) = Cardinality(Spawners(W))
  BY DEF Spawners
<1> HIDE DEF W
<1>4. PICK told : told = Sections.parallel.workers
  OBVIOUS
<1>5. ToldOf(told, W)
  BY <1>1, <1>2, <1>4, RollupTells
<1>6. QED  BY <1>3, <1>4, <1>5 DEF WorkersTold, ToldOf, W

\* Where the prompt leaves something out because of a limit, the limit is used up, and it
\* says how much it leaves out (relatedForLoops, buildWorkerRollup): for every ranking of
\* what is related and every set of workers.
THEOREM LimitsAreHonest == BootstrapSpec => []LimitsHonest
<1>1. BootInv /\ ShareInv => LimitsHonest
  BY WorkersAreTold DEF ShareInv, LimitsHonest
<1>2. QED  BY <1>1, PromptInvariant, LinesAreShared, PTL
=============================================================================
