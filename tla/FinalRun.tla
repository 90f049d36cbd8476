------------------------------ MODULE FinalRun ------------------------------
(***************************************************************************)
(* The final run (src/train/final_run.rs, src/train/launch.rs): processes  *)
(* that resume a trainer, complete updates, publish a checkpoint at every  *)
(* event boundary, prune after each publication, and report a result; and  *)
(* an operator who relaunches after a failure.  execute_to_completion is a *)
(* launch that stops at the end of the plan, execute_bounded_diagnostic    *)
(* one that stops at a smaller budget.                                     *)
(*                                                                         *)
(* Every call into the checkpoint directory is the sequence of steps of    *)
(* CheckpointStore, so launches interleave and die inside it.  The trainer *)
(* is its cursor: Trainer shows that a snapshot says no more than that.    *)
(***************************************************************************)
EXTENDS CheckpointStore

CONSTANTS
    Budgets,            \* diagnostic_target_budget values the operator uses
    ResumeNewest,       \* does the operator always resume from the newest?
    MaxFaults           \* bound on failures and crashes

ASSUME FinalRunAssumption ==
    /\ Budgets \subseteq 1 .. TotalTargets - 1
    /\ ResumeNewest \in BOOLEAN
    /\ MaxFaults \in Nat

VARIABLES
    phase,              \* per process: where it is in the coordinator
    position,           \* completed updates of its trainer
    stop,               \* the cursor at which it stops
    final,              \* final_checkpoint, by its target
    faults,             \* failures so far
    completions         \* history: TRAINING_COMPLETE results so far

coordinator == <<phase, position, stop, final>>
runVars == <<coordinator, faults, completions>>
allVars == <<vars, runVars>>

CursorOf(p) == ConsumedAfter(position[p])
IsFull(p) == stop[p] = TotalTargets

RunInit ==
    /\ Init
    /\ phase = [p \in Procs |-> "off"]
    /\ position = [p \in Procs |-> 0]
    /\ stop = [p \in Procs |-> TotalTargets]
    /\ final = [p \in Procs |-> NoTarget]
    /\ faults = 0
    /\ completions = 0

Enter(p, where) == phase' = [phase EXCEPT ![p] = where]

(* The process ends; its memory is gone. *)
Exit(p) ==
    /\ Enter(p, "off")
    /\ position' = [position EXCEPT ![p] = 0]
    /\ stop' = [stop EXCEPT ![p] = TotalTargets]
    /\ final' = [final EXCEPT ![p] = NoTarget]

Called(p) == pc[p] = "idle"     \* the call into the directory has returned
Publish(p, t) == PublishRefused(p, t) \/ BeginPublish(p, t)
Prune(p) == PruneRefused(p) \/ BeginPrune(p)
-----------------------------------------------------------------------------
(* Where a launch may start: from nothing, or from a generation that loads. *)
Starts ==
    IF ResumeNewest /\ Whole # {}
    THEN {g \in Whole : \A h \in Whole : h <= g}
    ELSE {0} \cup (IF ResumeNewest THEN {} ELSE Whole)

(* launch_final_run.  A cursor already at the end, or past the budget, is  *)
(* refused (P16_ALREADY_COMPLETE, E7_DIAGNOSTIC_BUDGET_ALREADY_MET).       *)
Launch(p, limit) ==
    /\ phase[p] = "off"
    /\ \E start \in Starts, u \in 0 .. TotalUpdates :
          /\ start < limit
          /\ ConsumedAfter(u) = start
          /\ position' = [position EXCEPT ![p] = u]
    /\ stop' = [stop EXCEPT ![p] = limit]
    /\ Enter(p, "training")
    /\ UNCHANGED <<vars, final, faults, completions>>

(* One turn of the update loop.  When the update crossed an event boundary, *)
(* its snapshot is published.                                               *)
CompleteUpdate(p) ==
    /\ phase[p] = "training"
    /\ CursorOf(p) < stop[p]
    /\ position' = [position EXCEPT ![p] = @ + 1]
    /\ LET now == ConsumedAfter(position[p] + 1)
       IN  IF EventBoundaryCrossed(CursorOf(p), now)
           THEN Enter(p, "publishing") /\ Publish(p, now)
           ELSE UNCHANGED <<vars, phase>>
    /\ UNCHANGED <<stop, final, faults, completions>>

AfterPublish(p) ==
    /\ phase[p] = "publishing"
    /\ Called(p) /\ result[p] = "published"
    /\ Enter(p, "pruning")
    /\ Prune(p)
    /\ UNCHANGED <<position, stop, final, faults, completions>>

(* The full run remembers only the publication that completes training.    *)
AfterPrune(p) ==
    /\ phase[p] = "pruning"
    /\ Called(p) /\ result[p] = "pruned"
    /\ Enter(p, "training")
    /\ final' = [final EXCEPT ![p] =
                    IF IsFull(p) /\ CursorOf(p) # TotalTargets THEN @ ELSE CursorOf(p)]
    /\ UNCHANGED <<vars, position, stop, faults, completions>>

(* Mutant of CloseDiagnostic: the last publication is taken for the final   *)
(* checkpoint, wherever it was made.                                        *)
CloseDiagnostic_AnyPublication(p) ==
    /\ phase[p] = "training"
    /\ ~IsFull(p) /\ CursorOf(p) >= stop[p]
    /\ IF final[p] # NoTarget
       THEN Enter(p, "reloading") /\ UNCHANGED vars
       ELSE Enter(p, "sealing") /\ Publish(p, CursorOf(p))
    /\ UNCHANGED <<position, stop, final, faults, completions>>

(* A diagnostic run evaluates, and publishes where it stopped unless the   *)
(* last event already did.                                                 *)
CloseDiagnostic(p) ==
    /\ phase[p] = "training"
    /\ ~IsFull(p) /\ CursorOf(p) >= stop[p]
    /\ IF final[p] = CursorOf(p)
       THEN Enter(p, "reloading") /\ UNCHANGED vars
       ELSE Enter(p, "sealing") /\ Publish(p, CursorOf(p))
    /\ UNCHANGED <<position, stop, final, faults, completions>>

AfterSeal(p) ==
    /\ phase[p] = "sealing"
    /\ Called(p) /\ result[p] = "published"
    /\ Enter(p, "reloading")
    /\ final' = [final EXCEPT ![p] = CursorOf(p)]
    /\ UNCHANGED <<vars, position, stop, faults, completions>>

(* A full run must have published its end (P16_FINAL_CHECKPOINT_MISSING).  *)
CloseFull(p) ==
    /\ phase[p] = "training"
    /\ IsFull(p) /\ CursorOf(p) = TotalTargets
    /\ final[p] # NoTarget
    /\ Enter(p, "reloading")
    /\ UNCHANGED <<vars, position, stop, final, faults, completions>>

(* The final checkpoint is loaded back, and the directory pruned once more. *)
Reload(p) ==
    /\ phase[p] = "reloading"
    /\ final[p] \in Whole
    /\ Enter(p, "closing")
    /\ Prune(p)
    /\ UNCHANGED <<position, stop, final, faults, completions>>

ReloadRefused(p) ==
    /\ phase[p] = "reloading"
    /\ final[p] \notin Whole
    /\ Exit(p)
    /\ UNCHANGED <<vars, faults, completions>>

(* TRAINING_COMPLETE or DIAGNOSTIC_BUDGET_REACHED is reported.             *)
Report(p) ==
    /\ phase[p] = "closing"
    /\ Called(p) /\ result[p] = "pruned"
    /\ Enter(p, "complete")
    /\ completions' = completions + IF IsFull(p) THEN 1 ELSE 0
    /\ UNCHANGED <<vars, position, stop, final, faults>>

Leave(p) ==
    /\ phase[p] = "complete"
    /\ Exit(p)
    /\ UNCHANGED <<vars, faults, completions>>

(* An error of the directory is an error of the run. *)
Abort(p) ==
    /\ phase[p] \in {"publishing", "pruning", "sealing", "closing"}
    /\ Called(p) /\ result[p] = "failed"
    /\ Exit(p)
    /\ UNCHANGED <<vars, faults, completions>>

DirectoryStep(p) ==
    /\ PublishStep(p) \/ PruneStep(p)
    /\ UNCHANGED runVars

(* A batch, an update or an evaluation fails, or the process dies: outside  *)
(* the directory or in the middle of an operation on it.                    *)
Die(p) ==
    /\ phase[p] \notin {"off", "complete"}
    /\ faults < MaxFaults
    /\ faults' = faults + 1
    /\ IF Called(p) THEN UNCHANGED vars ELSE Crash(p)
    /\ Exit(p)
    /\ UNCHANGED completions

DirectoryFails(p) ==
    /\ faults < MaxFaults
    /\ faults' = faults + 1
    /\ PublishFails(p) \/ LeavePartial(p) \/ PruneFails(p)
    /\ UNCHANGED <<coordinator, completions>>

RunStep(p) ==
    \/ CompleteUpdate(p) \/ AfterPublish(p) \/ AfterPrune(p)
    \/ CloseDiagnostic(p) \/ AfterSeal(p) \/ CloseFull(p)
    \/ Reload(p) \/ ReloadRefused(p) \/ Report(p) \/ Leave(p) \/ Abort(p)
    \/ DirectoryStep(p)

RunNext ==
    \E p \in Procs :
        \/ \E limit \in Budgets \cup {TotalTargets} : Launch(p, limit)
        \/ RunStep(p)
        \/ Die(p)
        \/ DirectoryFails(p)

RunSpec == RunInit /\ [][RunNext]_allVars

(* A process runs on while it can, and the operator relaunches the full run *)
(* as long as there is something left to do.                                *)
FairRunSpec ==
    /\ RunSpec
    /\ \A p \in Procs : /\ WF_allVars(RunStep(p))
                        /\ WF_allVars(Launch(p, TotalTargets))
-----------------------------------------------------------------------------
Phase == {"off", "training", "publishing", "pruning", "sealing", "reloading",
          "closing", "complete"}

(* The coordinator's variables hold values of their kind, and a process is  *)
(* inside the directory only while its coordinator has a call open.         *)
RunTypeOK ==
    /\ TypeOK
    /\ phase \in [Procs -> Phase]
    /\ position \in [Procs -> 0 .. TotalUpdates]
    /\ stop \in [Procs -> Budgets \cup {TotalTargets}]
    /\ final \in [Procs -> Generation \cup {NoTarget}]
    /\ faults \in 0 .. MaxFaults
    /\ completions \in Nat
    /\ \A p \in Procs :
          pc[p] # "idle" => phase[p] \in {"publishing", "pruning", "sealing", "closing"}

(* A run that reports a result has the checkpoint it reports on disk, whole *)
(* and at the cursor it stopped at, also after its own last prune.          *)
ReportedIsDurable ==
    \A p \in Procs :
        phase[p] = "complete" => final[p] = CursorOf(p) /\ final[p] \in Whole

(* A run reported TRAINING_COMPLETE has its final generation on disk,       *)
(* whole, whatever launches overlap with it and whichever they resumed.     *)
CompletionIsDurable ==
    \A p \in Procs :
        phase[p] = "complete" /\ IsFull(p) =>
            final[p] = TotalTargets /\ TotalTargets \in Whole

(* The coordinators' state has its types, what was reported complete is on  *)
(* disk, and at most one launch on a root  *)
(* ever reports the full run complete, however many are started and however *)
(* they overlap: the others find the final generation there, before or      *)
(* after they have written their own.                                       *)
CompletedOnce == RunTypeOK /\ CompletionIsDurable /\ completions <= 1

(* Retention: never more generations than the policy keeps, and the new one. *)
StorageBounded == Cardinality(Present) <= 2 + Cardinality(RetentionAnchors) + 1

(* However a bounded number of failures and crashes falls, relaunching from *)
(* the newest generation brings the final generation to disk, for good.     *)
EventuallyDurable == <>[](TotalTargets \in Whole)
=============================================================================
