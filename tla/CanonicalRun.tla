---------------------------- MODULE CanonicalRun ----------------------------
(***************************************************************************)
(* What exact resume promises (docs/decision-ledger-v2.md, CKPT-001), with *)
(* none of the machinery: a run that completes its updates one at a time,  *)
(* hands out snapshots only of completed updates, and restarts only at the *)
(* beginning or at a snapshot it handed out.  Canonical(k) is the state an *)
(* uninterrupted, fault-free run is in after k updates, so every snapshot  *)
(* is, byte for byte, a state of that run.                                 *)
(***************************************************************************)
EXTENDS Naturals

CONSTANTS
    LastUpdate,         \* the number of updates of the whole run
    Canonical(_)        \* the one right snapshot after k updates

VARIABLES
    position,           \* completed updates
    handed              \* snapshots handed out so far

Init == position = 0 /\ handed = {}

CompleteUpdate ==
    /\ position < LastUpdate
    /\ position' = position + 1
    /\ UNCHANGED handed

HandOut ==
    /\ handed' = handed \cup {Canonical(position)}
    /\ UNCHANGED position

(* A relaunch, from nothing or from any snapshot ever handed out.           *)
Restart ==
    /\ \/ position' = 0
       \/ \E k \in 0 .. LastUpdate :
             Canonical(k) \in handed /\ position' = k
    /\ UNCHANGED handed

Next == CompleteUpdate \/ HandOut \/ Restart

Spec == Init /\ [][Next]_<<position, handed>>
=============================================================================
