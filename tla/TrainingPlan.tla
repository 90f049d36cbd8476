---------------------------- MODULE TrainingPlan ----------------------------
(***************************************************************************)
(* The frozen arithmetic of the canonical training run                     *)
(* (src/train/trainer.rs, src/train/checkpoint.rs): how many valid targets *)
(* each optimizer update consumes, where evaluations and checkpoints fall, *)
(* and which checkpoint generations retention keeps.  The numbers of the   *)
(* real plan are parameters here, so that small plans can be model-checked *)
(* and theorems hold for the real one.                                     *)
(***************************************************************************)
EXTENDS Integers, FiniteSets

CONSTANTS
    TargetsPerFullUpdate,   \* 65,536 in the code
    FullUpdates,            \* 30,517
    FinalUpdateTargets,     \* 37,888
    EventInterval,          \* EVENT_INTERVAL_TARGETS, 100,000,000
    RetentionAnchors        \* {500M, 1000M, 1500M, 2000M}

TotalUpdates == FullUpdates + 1
TotalTargets == FullUpdates * TargetsPerFullUpdate + FinalUpdateTargets

(* What CanonicalTrainingPlan::validate pins, and the divisibility that the *)
(* two formulations of the evaluation schedule below silently rely on.      *)
ASSUME PlanAssumption ==
    /\ TargetsPerFullUpdate \in Nat \ {0}
    /\ FullUpdates \in Nat \ {0}
    /\ FinalUpdateTargets \in 1 .. TargetsPerFullUpdate
    /\ EventInterval \in Nat \ {0}
    /\ TotalTargets % EventInterval = 0
    /\ RetentionAnchors \subseteq 1 .. TotalTargets

Update == 1 .. TotalUpdates
Cursor == 0 .. TotalTargets

-----------------------------------------------------------------------------
(* Accounting. *)

(* canonical_update_target_count: the valid targets of one-based update u.  *)
UpdateTargetCount(u) ==
    IF u \in 1 .. FullUpdates THEN TargetsPerFullUpdate ELSE FinalUpdateTargets

(* expected_consumed_targets: the cursor after the first u updates.         *)
ConsumedAfter(u) ==
    IF u \in 0 .. FullUpdates THEN u * TargetsPerFullUpdate ELSE TotalTargets

(* event_boundary_crossed: does the update from cursor p to cursor c owe an *)
(* evaluation and a checkpoint?                                             *)
EventBoundaryCrossed(p, c) ==
    c = TotalTargets \/ p \div EventInterval < c \div EventInterval

(* Mutant of FirstUpdateReaching: the threshold is rounded down.            *)
FirstUpdateReaching_Floor(threshold) == threshold \div TargetsPerFullUpdate

(* validate_evaluations recomputes the schedule the other way round: for    *)
(* every multiple of the interval, the first update that reaches it.        *)
FirstUpdateReaching(threshold) ==
    LET u == (threshold + TargetsPerFullUpdate - 1) \div TargetsPerFullUpdate
    IN  IF u <= TotalUpdates THEN u ELSE TotalUpdates

EvaluationPositions ==
    {ConsumedAfter(FirstUpdateReaching(k * EventInterval)) :
        k \in 1 .. (TotalTargets \div EventInterval)}

(* The positions a snapshot at cursor c must hold an evaluation for.        *)
ExpectedEvaluations(c) == {0} \cup {p \in EvaluationPositions : p <= c}

-----------------------------------------------------------------------------
(* Retention. *)

(* Mutant of LatestTwo: the sorted list is taken from the wrong end.        *)
LatestTwo_FromTheFront(G) == {g \in G : ~ \E a, b \in G : a < g /\ b < a}

(* The two largest members of G: nothing, or one member, lies above them.   *)
LatestTwo(G) == {g \in G : ~ \E a, b \in G : g < a /\ a < b}

(* The first member of G at or after some anchor.                           *)
FirstAtAnchors(G) ==
    {g \in G : \E a \in RetentionAnchors :
                  /\ g >= a
                  /\ \A h \in G : h >= a => g <= h}

(* retained_generation_targets. *)
RetainedGenerations(G) == LatestTwo(G) \cup FirstAtAnchors(G)
=============================================================================
