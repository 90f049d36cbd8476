------------------------------ MODULE Trainer ------------------------------
(***************************************************************************)
(* DeterministicTrainer (src/train/trainer.rs): the object that folds      *)
(* micro-batches into optimizer updates, evaluates on schedule, hands out  *)
(* snapshots and is rebuilt from them, together with the backend it owns.  *)
(*                                                                         *)
(* Every method takes &mut self, so a call is one step.  What a call can   *)
(* do wrong is modelled: each of its `?` and early returns that leaves     *)
(* some state behind is an action, enabled when its name is in Faults.     *)
(* The caller is any library caller: it submits any batch, asks for a      *)
(* snapshot at any moment and may go on using the trainer after any error  *)
(* that is not in StopsAfter.                                              *)
(*                                                                         *)
(* Tensors are abstracted to WHICH targets they were computed from: a      *)
(* gradient, the weights and the RNG chain are functions from targets to   *)
(* the number of times each one went in.                                   *)
(***************************************************************************)
EXTENDS TrainingPlan

CONSTANTS
    Faults,         \* the failures the environment may produce
    StopsAfter,     \* the failures after which the caller drops the trainer
    MaxDraws        \* bound: how often one target may enter the RNG chain

FaultKinds == {"accumulate",    \* backend.accumulate fails before it draws
               "contribution",  \* it returns an empty or nonfinite result
               "layout",        \* it returns another gradient layout
               "overflow",      \* a summed gradient becomes nonfinite
               "optimizer",     \* loss, clip, apply_update or its digest
               "evaluation",    \* the scheduled evaluation fails or mutates
               "diagnostic"}    \* evaluate_now fails or mutates

ASSUME TrainerAssumption ==
    /\ Faults \subseteq FaultKinds
    /\ StopsAfter \subseteq FaultKinds
    /\ MaxDraws \in Nat \ {0}

VARIABLES
    live,           \* is there a trainer object?
    consumed,       \* consumed_targets (the field)
    completed,      \* completed_updates
    accumulated,    \* accumulated_targets
    gradient,       \* accumulated_gradients
    overflowed,     \* ... and whether one of its sums is nonfinite
    rng,            \* host_rng_state, device_rng_state
    evaluations,    \* the after_targets of the recorded evaluations
    lastUpdate,     \* last_learning_rate, last_update_state_sha256
    backend,        \* the owned TrainerBackend
    handed          \* history: every snapshot handed out

counters == <<consumed, completed, accumulated>>
sums == <<gradient, overflowed>>
vars == <<live, counters, sums, rng, evaluations, lastUpdate, backend, handed>>

Target == 0 .. TotalTargets - 1
Nothing == [t \in Target |-> 0]
FirstTargets(c) == [t \in Target |-> IF t < c THEN 1 ELSE 0]
AddWindow(bag, first, n) ==
    [t \in Target |-> IF first <= t /\ t < first + n THEN bag[t] + 1 ELSE bag[t]]
AddAll(bag, other) == [t \in Target |-> bag[t] + other[t]]

(* The backend's parameters and moments (what was learned, in how many     *)
(* optimizer steps, and whether anything else changed them) and its own    *)
(* RNG chain, which accumulate advances (full_state.rs, advance_rng).      *)
FreshBackend ==
    [learned |-> Nothing, step |-> 0, torn |-> FALSE, chain |-> Nothing]

Required == UpdateTargetCount(completed + 1)

(* TrainerSnapshot: what snapshot() copies out of the trainer.             *)
SnapshotNow ==
    [consumed |-> consumed, completed |-> completed, rng |-> rng,
     evaluations |-> evaluations, lastUpdate |-> lastUpdate,
     backend |-> backend]

(* Mutant of SnapshotValid: the evaluation set is not checked.              *)
SnapshotValid_NoEvaluations(s) ==
    /\ s.completed <= TotalUpdates
    /\ s.consumed = ConsumedAfter(s.completed)
    /\ s.lastUpdate = s.completed

(* TrainerSnapshot::validate. *)
SnapshotValid(s) ==
    /\ s.completed <= TotalUpdates
    /\ s.consumed = ConsumedAfter(s.completed)
    /\ s.lastUpdate = s.completed
    /\ s.evaluations = ExpectedEvaluations(s.consumed)

-----------------------------------------------------------------------------
(* DeterministicTrainer::new evaluates once before the first update.       *)
Init ==
    /\ live = TRUE
    /\ consumed = 0 /\ completed = 0 /\ accumulated = 0
    /\ gradient = Nothing /\ overflowed = FALSE
    /\ rng = Nothing
    /\ evaluations = {0}
    /\ lastUpdate = 0
    /\ backend = FreshBackend
    /\ handed = {}

(* An error reaches the caller, who drops the trainer or carries on.       *)
ReturnError(kind) == live' \in {FALSE, kind \notin StopsAfter}

(* The checks process_batch makes before it touches the backend.           *)
Admissible(first, n) ==
    /\ consumed # TotalTargets
    /\ first = consumed + accumulated
    /\ accumulated + n <= Required

RejectBatch(first, n) ==
    /\ live
    /\ ~Admissible(first, n)
    /\ ReturnError("refusal")
    /\ UNCHANGED <<counters, sums, rng, evaluations, lastUpdate, backend, handed>>

Bounded(bag, first, n) ==
    \A t \in Target : first <= t /\ t < first + n => bag[t] < MaxDraws

(* backend.accumulate fails; it draws from its generators last of all.     *)
AccumulateFails(n) ==
    /\ live /\ "accumulate" \in Faults
    /\ Admissible(consumed + accumulated, n)
    /\ ReturnError("accumulate")
    /\ UNCHANGED <<counters, sums, rng, evaluations, lastUpdate, backend, handed>>

(* The backend computed a contribution, and its RNG chain has moved.       *)
Contribute(n) ==
    /\ live
    /\ Admissible(consumed + accumulated, n)
    /\ Bounded(backend.chain, consumed + accumulated, n)

Advanced(n) ==
    [backend EXCEPT !.chain = AddWindow(@, consumed + accumulated, n)]

(* A nonfinite or empty contribution: refused before the trainer copies    *)
(* anything from it, but after the backend has advanced.                   *)
ContributionRefused(n) ==
    /\ "contribution" \in Faults
    /\ Contribute(n)
    /\ backend' = Advanced(n)
    /\ ReturnError("contribution")
    /\ UNCHANGED <<counters, sums, rng, evaluations, lastUpdate, handed>>

(* The trainer has taken over the RNG states; now the layout is compared   *)
(* with that of an earlier micro-batch of the same update, if any.         *)
LayoutMismatch(n) ==
    /\ "layout" \in Faults
    /\ Contribute(n)
    /\ gradient # Nothing
    /\ backend' = Advanced(n)
    /\ rng' = Advanced(n).chain
    /\ ReturnError("layout")
    /\ UNCHANGED <<counters, sums, evaluations, lastUpdate, handed>>

(* A sum becomes nonfinite while the contribution is added: the targets    *)
(* are not counted, but the sum stays in accumulated_gradients, and every  *)
(* later contribution to this update finds it there.  A first contribution *)
(* is finite and is added to zeros.                                        *)
GradientOverflows(n) ==
    /\ "overflow" \in Faults
    /\ Contribute(n)
    /\ gradient # Nothing
    /\ backend' = Advanced(n)
    /\ rng' = Advanced(n).chain
    /\ gradient' = AddWindow(gradient, consumed + accumulated, n)
    /\ overflowed' = TRUE
    /\ ReturnError("overflow")
    /\ UNCHANGED <<counters, evaluations, lastUpdate, handed>>

(* The contribution is summed. *)
Summed(n) ==
    /\ Contribute(n)
    /\ ~overflowed
    /\ rng' = Advanced(n).chain

(* ... and the update needs more targets: Ok(None). *)
Accumulate(n) ==
    /\ Summed(n)
    /\ accumulated + n # Required
    /\ backend' = Advanced(n)
    /\ gradient' = AddWindow(gradient, consumed + accumulated, n)
    /\ accumulated' = accumulated + n
    /\ UNCHANGED <<live, consumed, completed, overflowed, evaluations, lastUpdate, handed>>

(* ... and fills the update, but a step up to the digest check of          *)
(* apply_update fails.  AdamW works in place, element by element, so the   *)
(* parameters may already have changed.                                    *)
OptimizerFails(n) ==
    /\ "optimizer" \in Faults
    /\ Summed(n)
    /\ accumulated + n = Required
    /\ gradient' = AddWindow(gradient, consumed + accumulated, n)
    /\ accumulated' = accumulated + n
    /\ \E t \in BOOLEAN : backend' = [Advanced(n) EXCEPT !.torn = @ \/ t]
    /\ ReturnError("optimizer")
    /\ UNCHANGED <<consumed, completed, overflowed, evaluations, lastUpdate, handed>>

(* Mutant of ApplyUpdate: the summed gradients are not cleared.             *)
ApplyUpdate_KeepsGradient(n) ==
    /\ Summed(n)
    /\ accumulated + n = Required
    /\ consumed' = consumed + Required
    /\ completed' = completed + 1
    /\ accumulated' = 0
    /\ gradient' = AddWindow(gradient, consumed + accumulated, n)
    /\ lastUpdate' = completed + 1

(* ... and the optimizer applies it. *)
ApplyUpdate(n) ==
    /\ Summed(n)
    /\ accumulated + n = Required
    /\ consumed' = consumed + Required
    /\ completed' = completed + 1
    /\ accumulated' = 0
    /\ gradient' = Nothing
    /\ lastUpdate' = completed + 1

Updated(n) ==
    [Advanced(n) EXCEPT
        !.learned = AddAll(@, AddWindow(gradient, consumed + accumulated, n)),
        !.step = completed + 1]

(* The call returns an UpdateEvent, with an evaluation when one is due.    *)
CompleteUpdate(n) ==
    /\ ApplyUpdate(n)
    /\ backend' = Updated(n)
    /\ evaluations' = IF EventBoundaryCrossed(consumed, consumed + Required)
                      THEN evaluations \cup {consumed + Required}
                      ELSE evaluations
    /\ UNCHANGED <<live, overflowed, handed>>

(* The update is complete, but the evaluation it owes fails, is invalid or *)
(* moved the backend's state.                                              *)
EvaluationFails(n) ==
    /\ "evaluation" \in Faults
    /\ ApplyUpdate(n)
    /\ EventBoundaryCrossed(consumed, consumed + Required)
    /\ \E t \in BOOLEAN : backend' = [Updated(n) EXCEPT !.torn = @ \/ t]
    /\ ReturnError("evaluation")
    /\ UNCHANGED <<overflowed, evaluations, handed>>

-----------------------------------------------------------------------------
(* evaluate_now: an unrecorded evaluation between two calls; the guard     *)
(* compares the backend before and after, and reports what it cannot undo. *)
EvaluateNowFails ==
    /\ live /\ "diagnostic" \in Faults
    /\ \E t \in BOOLEAN : backend' = [backend EXCEPT !.torn = @ \/ t]
    /\ ReturnError("diagnostic")
    /\ UNCHANGED <<counters, sums, rng, evaluations, lastUpdate, handed>>

(* Mutant of TakeSnapshot: the mid-update check is dropped.                 *)
TakeSnapshot_MidUpdate ==
    /\ live
    /\ SnapshotValid(SnapshotNow)
    /\ handed' = handed \cup {SnapshotNow}
    /\ UNCHANGED <<live, counters, sums, rng, evaluations, lastUpdate, backend>>

TakeSnapshot ==
    /\ live
    /\ accumulated = 0
    /\ SnapshotValid(SnapshotNow)
    /\ handed' = handed \cup {SnapshotNow}
    /\ UNCHANGED <<live, counters, sums, rng, evaluations, lastUpdate, backend>>

SnapshotRefused ==
    /\ live
    /\ accumulated # 0 \/ ~SnapshotValid(SnapshotNow)
    /\ ReturnError("refusal")
    /\ UNCHANGED <<counters, sums, rng, evaluations, lastUpdate, backend, handed>>

(* The process ends, or the caller drops the trainer. *)
Drop ==
    /\ live
    /\ live' = FALSE
    /\ UNCHANGED <<counters, sums, rng, evaluations, lastUpdate, backend, handed>>

(* DeterministicTrainer::new in a new process. *)
StartFresh ==
    /\ ~live
    /\ live' = TRUE
    /\ consumed' = 0 /\ completed' = 0 /\ accumulated' = 0
    /\ gradient' = Nothing /\ overflowed' = FALSE
    /\ rng' = Nothing
    /\ evaluations' = {0}
    /\ lastUpdate' = 0
    /\ backend' = FreshBackend
    /\ UNCHANGED handed

(* DeterministicTrainer::from_snapshot: the backend must reproduce the     *)
(* bytes it was given, or there is no trainer.                             *)
FromSnapshot(s) ==
    /\ ~live
    /\ SnapshotValid(s)
    /\ live' = TRUE
    /\ consumed' = s.consumed /\ completed' = s.completed /\ accumulated' = 0
    /\ gradient' = Nothing /\ overflowed' = FALSE
    /\ rng' = s.rng
    /\ evaluations' = s.evaluations
    /\ lastUpdate' = s.lastUpdate
    /\ backend' = s.backend
    /\ UNCHANGED handed

BatchSizes == 1 .. TargetsPerFullUpdate

ProcessBatch(n) ==
    \/ AccumulateFails(n)
    \/ ContributionRefused(n)
    \/ LayoutMismatch(n)
    \/ GradientOverflows(n)
    \/ Accumulate(n)
    \/ OptimizerFails(n)
    \/ CompleteUpdate(n)
    \/ EvaluationFails(n)

Next ==
    \/ \E n \in BatchSizes : ProcessBatch(n)
    \/ \E first \in Cursor, n \in BatchSizes : RejectBatch(first, n)
    \/ EvaluateNowFails
    \/ TakeSnapshot
    \/ SnapshotRefused
    \/ Drop
    \/ StartFresh
    \/ \E s \in handed : FromSnapshot(s)

Spec == Init /\ [][Next]_vars
-----------------------------------------------------------------------------
(* The failures after which a caller may carry on with the same trainer.    *)
(* After the others the backend has moved and nothing records that it has,  *)
(* so a caller must drop the trainer, as every caller under src/ does.      *)
FencedFaults == {"accumulate", "overflow", "optimizer", "evaluation"}
CallerRespectsErrors == Faults \subseteq FencedFaults \cup StopsAfter

Bag == [Target -> Nat]
Backend == [learned : Bag, step : Nat, torn : BOOLEAN, chain : Bag]
Snapshot == [consumed : Cursor, completed : 0 .. TotalUpdates, rng : Bag,
             evaluations : SUBSET Cursor, lastUpdate : 0 .. TotalUpdates,
             backend : Backend]

(* Every variable holds a value of its kind; in particular the cursor never *)
(* passes the end of the run, whatever batches the caller submits.          *)
TypeOK ==
    /\ live \in BOOLEAN
    /\ consumed \in Cursor
    /\ completed \in 0 .. TotalUpdates
    /\ accumulated \in 0 .. TargetsPerFullUpdate
    /\ gradient \in Bag
    /\ overflowed \in BOOLEAN
    /\ rng \in Bag
    /\ evaluations \in SUBSET Cursor
    /\ lastUpdate \in 0 .. TotalUpdates
    /\ backend \in Backend
    /\ handed \in SUBSET Snapshot

(* The state of an uninterrupted, fault-free run after k updates.           *)
CanonicalSnapshot(k) ==
    LET c == ConsumedAfter(k)
    IN  [consumed |-> c, completed |-> k, rng |-> FirstTargets(c),
         evaluations |-> ExpectedEvaluations(c), lastUpdate |-> k,
         backend |-> [learned |-> FirstTargets(c), step |-> k,
                      torn |-> FALSE, chain |-> FirstTargets(c)]]

(* Every snapshot snapshot() has ever handed out, after any faults, retries *)
(* and resumes, is the state of the uninterrupted run at that cursor: each  *)
(* target below it learned exactly once, the optimizer stepped once per     *)
(* update, no half-applied update, no generator ahead of the cursor.        *)
SnapshotsExact == \A s \in handed : s = CanonicalSnapshot(s.completed)

(* Weights and cursor never disagree in a trainer that is still good for a  *)
(* snapshot: unless an update is stuck or an evaluation is missing, exactly *)
(* the targets below the cursor have been learned, each of them once.       *)
Fenced == \/ accumulated = Required
          \/ evaluations # ExpectedEvaluations(consumed)
WeightsMatchCursor ==
    live /\ ~Fenced =>
        /\ consumed = ConsumedAfter(completed)
        /\ backend.learned = FirstTargets(consumed)
        /\ backend.step = completed
        /\ lastUpdate = completed
        /\ ~backend.torn

(* An update that goes through leaves a complete record complete.  Whether  *)
(* to evaluate is decided from the two cursors of the update, what must     *)
(* have been recorded is recomputed from the thresholds when a snapshot is  *)
(* validated; if they ever differed, a good run could not be saved.         *)
UpdateKeepsSchedule ==
    [][\A n \in BatchSizes :
          CompleteUpdate(n) /\ evaluations = ExpectedEvaluations(consumed)
              => evaluations' = ExpectedEvaluations(consumed')]_vars

(* The refinement: the trainer, its faults and its restarts implement the  *)
(* canonical run, whose only snapshots are canonical.                       *)
Canon == INSTANCE CanonicalRun WITH
            LastUpdate <- TotalUpdates,
            Canonical <- CanonicalSnapshot,
            position <- completed,
            handed <- handed
ImplementsCanonicalRun == Canon!Spec
=============================================================================
