---------------------------- MODULE IdAllocator ----------------------------
(***************************************************************************)
(* What active-work promises of a task id: README.md calls it "monotonic   *)
(* and never reused".  Issuing gives an initiative a number above every    *)
(* number it ever gave out, and removing a task never gives its number     *)
(* back.  TaskStore is shown to implement this module.                     *)
(***************************************************************************)
EXTENDS Naturals

CONSTANT Slugs     \* the initiatives

VARIABLES issued,  \* issued[s]: every number initiative s ever gave to a task
          live     \* live[s]: the numbers whose task file is on disk

avars == <<issued, live>>

InitAlloc ==
  /\ live \in [Slugs -> SUBSET Nat]
  /\ issued = live

\* A task file with a new number n appears, above every number issued so far.
Issue(s) ==
  \E n \in live'[s] \ live[s] :
    /\ \A m \in issued[s] : m < n
    /\ live' = [live EXCEPT ![s] = @ \cup {n}]
    /\ issued' = [issued EXCEPT ![s] = @ \cup {n}]

\* A task file goes away; its number stays issued.
Remove(s) ==
  \E n \in live[s] \ live'[s] :
    /\ live' = [live EXCEPT ![s] = @ \ {n}]
    /\ UNCHANGED issued

NextAlloc == \E s \in Slugs : Issue(s) \/ Remove(s)

SpecAlloc == InitAlloc /\ [][NextAlloc]_avars

=============================================================================
