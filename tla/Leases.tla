------------------------------- MODULE Leases -------------------------------
(***************************************************************************)
(* Session leases: the files by which a session that starts on an          *)
(* initiative learns of the others that are live there.                    *)
(*                                                                         *)
(* aw writes a launcher lease, runs Claude below itself and takes the      *)
(* lease back when the session ends; open writes a oneshot lease and       *)
(* exits.  Whoever bootstraps the initiative reads every lease file, one   *)
(* after the other, reports those that look live and unlinks the others.   *)
(* Nothing is locked: a file may be read while it is being written, and    *)
(* what a reader found may be out of date when it unlinks the file.        *)
(***************************************************************************)
EXTENDS Naturals, FiniteSets

CONSTANTS
  Leases,    \* lease files, each written by a process of its own
  Readers,   \* processes that bootstrap the initiative
  NoLease    \* a reader without a lease of its own; no file to unlink

ASSUME LeaseAssumption == NoLease \notin Leases

VARIABLES
  sess,   \* sess[l]: how far the process of lease l has come
  file,   \* file[l]: none, torn (created, not written yet) or whole
  mode,   \* mode[l]: launcher when aw writes the lease, oneshot when open does
  named,  \* named[l]: the file records the command name of the process
  old,    \* old[l]: the lease has passed the age limit of its mode
  pid,    \* pid[l]: who has the process id: own, nobody, or another process
          \*   with another or the same command name
  scan,   \* scan[r]: how far reader r has come
  blame   \* history: the leases of live sessions that a reader mistook

vars == <<sess, file, mode, named, old, pid, scan, blame>>

\* todo: files listed and not read yet; aged: leases too old when the scan began;
\* own: the reader's own lease; found: reported so far; doomed: to be unlinked;
\* there: history, the sessions that ran when the scan began; failed: history,
\* what the scan could not do and said nothing of.
Resting == [on |-> FALSE, todo |-> {}, aged |-> {}, own |-> NoLease,
            found |-> {}, doomed |-> NoLease, there |-> {}, failed |-> {}]

Init ==
  /\ sess = [l \in Leases |-> "idle"]
  /\ file = [l \in Leases |-> "none"]
  /\ mode = [l \in Leases |-> "none"]
  /\ named = [l \in Leases |-> FALSE]
  /\ old = [l \in Leases |-> FALSE]
  /\ pid = [l \in Leases |-> "own"]
  /\ scan = [r \in Readers |-> Resting]
  /\ blame = {}

Running == {l \in Leases : sess[l] = "running"}

----------------------------------------------------------------------------
(* The process that holds a lease.                                          *)

\* acquireLease: the command name is looked up for a launcher, which may fail,
\* and fs.writeFile creates the file.
Acquire(l, m) ==
  /\ sess[l] = "idle"
  /\ mode' = [mode EXCEPT ![l] = m]
  /\ \E n \in BOOLEAN :
       /\ n => m = "launcher"
       /\ named' = [named EXCEPT ![l] = n]
  /\ sess' = [sess EXCEPT ![l] = "creating"]
  /\ file' = [file EXCEPT ![l] = "torn"]
  /\ UNCHANGED <<old, pid, scan, blame>>

Gone(l) ==
  /\ sess' = [sess EXCEPT ![l] = "gone"]
  /\ pid' = [pid EXCEPT ![l] = "nobody"]
  /\ blame' = blame \ {l}
  /\ UNCHANGED <<mode, named, old, scan>>

\* The contents arrive, unless the file has been unlinked meanwhile.
Fill(l) ==
  /\ sess[l] = "creating"
  /\ file' = [file EXCEPT ![l] = IF @ = "torn" THEN "whole" ELSE @]
  /\ IF mode[l] = "launcher"
     THEN sess' = [sess EXCEPT ![l] = "written"] /\ UNCHANGED <<mode, named, old, pid, scan, blame>>
     ELSE Gone(l)

\* The lease cannot be written: the session runs without one.
FillFails(l) ==
  /\ mode[l] = "launcher" /\ sess[l] = "creating"
  /\ sess' = [sess EXCEPT ![l] = "unleased"]
  /\ UNCHANGED <<file, mode, named, old, pid, scan, blame>>

\* The handlers are installed and claude is spawned.
Launch(l) ==
  /\ sess[l] = "written"
  /\ sess' = [sess EXCEPT ![l] = "running"]
  /\ UNCHANGED <<file, mode, named, old, pid, scan, blame>>

\* claude exits: the handlers are removed; the unlink is still to come.
ChildExits(l) ==
  /\ sess[l] = "running"
  /\ sess' = [sess EXCEPT ![l] = "ending"]
  /\ UNCHANGED <<file, mode, named, old, pid, scan, blame>>

Released(l) == file' = [file EXCEPT ![l] = "none"]

\* releaseLease; a session without a lease has nothing to release.
Ends(l) ==
  \/ sess[l] = "ending" /\ Released(l) /\ Gone(l)
  \/ sess[l] = "unleased" /\ UNCHANGED file /\ Gone(l)

\* SIGINT, SIGTERM or SIGHUP while the handlers are installed.
Signalled(l) == sess[l] = "running" /\ Released(l) /\ Gone(l)

\* SIGKILL or a power loss at any time, any signal before the handlers are there
\* or after they are gone, or an unlink that fails: the file stays as it is.
Dies(l) == sess[l] \notin {"idle", "gone"} /\ UNCHANGED file /\ Gone(l)

(* The world: time passes, process ids are used again.                      *)

Ages(l) ==
  /\ ~old[l] /\ sess[l] \in {"running", "gone"}
  /\ old' = [old EXCEPT ![l] = TRUE]
  /\ UNCHANGED <<sess, file, mode, named, pid, scan, blame>>

Recycled(l) ==
  /\ sess[l] = "gone" /\ mode[l] = "launcher"
  /\ \/ pid[l] = "nobody" /\ \E q \in {"other", "same"} : pid' = [pid EXCEPT ![l] = q]
     \/ pid[l] # "nobody" /\ pid' = [pid EXCEPT ![l] = "nobody"]
  /\ UNCHANGED <<sess, file, mode, named, old, scan, blame>>

----------------------------------------------------------------------------
(* readLiveLeases: whatever it fails at reads as nothing there.             *)

\* A directory that cannot be read has no leases.
Lists(r, own) ==
  /\ ~scan[r].on
  /\ own \in Running \cup {NoLease}
  /\ \E failed \in SUBSET {"list"} :
       scan' = [scan EXCEPT ![r] =
         [on |-> TRUE, todo |-> {l \in Leases : file[l] # "none" /\ failed = {}},
          aged |-> {l \in Leases : old[l]}, own |-> own, found |-> {},
          doomed |-> NoLease, there |-> Running, failed |-> failed]]
  /\ UNCHANGED <<sess, file, mode, named, old, pid, blame>>

\* Mutant: no age limit for a launcher whose process id answers.
LooksLiveAtAnyAge(l, aged, probed) ==
  IF mode[l] = "oneshot" THEN l \notin aged
  ELSE /\ pid[l] # "nobody"
       /\ named[l] => probed /\ pid[l] # "other"

\* Mutant: a lease without a command name is never live.
LooksLiveNamedOnly(l, aged, probed) ==
  IF mode[l] = "oneshot" THEN l \notin aged
  ELSE l \notin aged /\ named[l] /\ probed /\ pid[l] \in {"own", "same"}

\* isLive: probed is false when the lookup of the command name fails.
LooksLive(l, aged, probed) ==
  IF mode[l] = "oneshot" THEN l \notin aged
  ELSE /\ l \notin aged
       /\ pid[l] # "nobody"
       /\ named[l] => probed /\ pid[l] # "other"

\* A reader mistakes the lease of a session that starts or runs: it finds the file
\* not written yet, cannot read it, or cannot look up the name of the process.
Mistakes(l, live, read, probed) ==
  /\ sess[l] \in {"creating", "written", "running"}
  /\ file[l] = "torn" \/ ~read \/ (~live /\ ~probed)

\* Mutant: a scan that comes upon one's own lease reports nobody.
AfterOwnNobody(r) == {}

\* One's own lease is passed over, not reported.
AfterOwn(r) == scan[r].found

\* What reader r makes of a file: a lease that looks live is reported, another
\* will be unlinked.  A file that is gone or torn cannot be parsed, and one that
\* could not be read is no better (readOneLease is null on any failure).
Judges(r, l, read, probed) ==
  LET live == read /\ file[l] = "whole" /\ LooksLive(l, scan[r].aged, probed) IN
  /\ scan' = [scan EXCEPT
       ![r].todo = @ \ {l},
       ![r].doomed = IF live THEN @ ELSE l,
       ![r].found = CASE ~live -> @
                      [] live /\ l = scan[r].own -> AfterOwn(r)
                      [] live /\ l # scan[r].own -> @ \cup {l}]
  /\ blame' = IF Mistakes(l, live, read, probed) THEN blame \cup {l} ELSE blame

\* One file is read and judged at once.
Reads(r, l) ==
  /\ scan[r].on /\ scan[r].doomed = NoLease /\ l \in scan[r].todo
  /\ \E read, probed \in BOOLEAN : Judges(r, l, read, probed)
  /\ UNCHANGED <<sess, file, mode, named, old, pid>>

\* The file is unlinked by its path, whatever it holds by now, or cannot be.
Unlinks(r) ==
  /\ scan[r].doomed # NoLease
  /\ \E failed \in SUBSET {"unlink"} :
       /\ file' = [file EXCEPT ![scan[r].doomed] = IF failed = {} THEN "none" ELSE @]
       /\ scan' = [scan EXCEPT ![r].doomed = NoLease, ![r].failed = @ \cup failed]
  /\ UNCHANGED <<sess, mode, named, old, pid, blame>>

Reports(r) ==
  /\ scan[r].on /\ scan[r].todo = {} /\ scan[r].doomed = NoLease
  /\ scan' = [scan EXCEPT ![r] = Resting]
  /\ UNCHANGED <<sess, file, mode, named, old, pid, blame>>

ReaderStep(r) == (\E l \in Leases : Reads(r, l)) \/ Unlinks(r) \/ Reports(r)

Next ==
  \/ \E l \in Leases :
       \/ (\E m \in {"launcher", "oneshot"} : Acquire(l, m))
       \/ Fill(l) \/ FillFails(l) \/ Launch(l)
       \/ ChildExits(l) \/ Ends(l) \/ Signalled(l) \/ Dies(l)
       \/ Ages(l) \/ Recycled(l)
  \/ \E r \in Readers :
       \/ \E own \in Leases \cup {NoLease} : Lists(r, own)
       \/ ReaderStep(r)

Spec == Init /\ [][Next]_vars

\* A reader that began goes on, and time passes.  No session has to end, nobody
\* has to bootstrap, and a process id may stay taken for ever.
FairSpec ==
  /\ Spec
  /\ \A r \in Readers : WF_vars(ReaderStep(r))
  /\ \A l \in Leases : WF_vars(Ages(l))

----------------------------------------------------------------------------
(* Properties                                                               *)

\* Type invariant: every variable holds a value of its kind.
TypeOK ==
  /\ sess \in [Leases -> {"idle", "creating", "written", "running", "ending",
                          "unleased", "gone"}]
  /\ file \in [Leases -> {"none", "torn", "whole"}]
  /\ mode \in [Leases -> {"none", "launcher", "oneshot"}]
  /\ named \in [Leases -> BOOLEAN] /\ old \in [Leases -> BOOLEAN]
  /\ pid \in [Leases -> {"own", "nobody", "other", "same"}]
  /\ scan \in [Readers -> [on : BOOLEAN, todo : SUBSET Leases, aged : SUBSET Leases,
                           own : Leases \cup {NoLease}, found : SUBSET Leases,
                           doomed : Leases \cup {NoLease}, there : SUBSET Leases,
                           failed : SUBSET {"list", "unlink"}]]
  /\ blame \subseteq Leases
  /\ \A r \in Readers : ~scan[r].on => scan[r] = Resting

\* A session that runs keeps its lease file up to the age limit: only a reader
\* that came upon the file before it was written, could not read it or could not
\* look up the process's name unlinks it.  Readers that overlap, recycled ids and the ends
\* of other sessions never cost it the file.
LiveLeaseKept ==
  \A l \in Running : ~old[l] /\ l \notin blame => file[l] = "whole"

\* A scan reports every other session that ran when it began and runs still when
\* it ends, unless a reader mistook its lease, the lease passed the age limit or
\* the directory could not be read.
SeesRunning ==
  [][\A r \in Readers : scan[r].on /\ ~scan'[r].on /\ "list" \notin scan[r].failed =>
       \A l \in scan[r].there \cap Running :
         l # scan[r].own /\ ~old[l] /\ l \notin blame => l \in scan[r].found]_vars

\* If the initiative is bootstrapped again and again by readers that can list the
\* directory and unlink what they want to, the lease file of a process
\* that is gone goes too, however that process ended and whoever has its process
\* id now: the warning about a dead session does not stay.
GhostsGo ==
  ([]<><<\E r \in Readers : Reports(r) /\ scan[r].failed = {}>>_vars)
    => \A l \in Leases : sess[l] = "gone" ~> file[l] = "none"

=============================================================================
