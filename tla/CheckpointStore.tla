-------------------------- MODULE CheckpointStore --------------------------
(***************************************************************************)
(* The checkpoint directory (src/train/checkpoint.rs): publish_checkpoint, *)
(* load_checkpoint and prune_checkpoints as the sequences of file-system   *)
(* operations they are, run by any number of processes on one root, any of *)
(* which can stop anywhere.  Nothing in the code locks the root; a partial *)
(* directory carries its process id in its name.                           *)
(*                                                                         *)
(* A generation directory is abstracted to what load_checkpoint can tell:  *)
(* whole (every file named by the manifest, the manifest, the seal),       *)
(* damaged (some but not all of them), or empty.  The directory of         *)
(* generations holds a handful of names, which one read_dir call returns.  *)
(***************************************************************************)
EXTENDS TrainingPlan

CONSTANTS
    Procs,              \* processes that use the root
    RenameReplacesEmpty \* fs::rename outside Windows replaces an empty directory

ASSUME StoreAssumption == RenameReplacesEmpty \in BOOLEAN

VARIABLES
    installed,          \* the generation directories and their condition
    orphans,            \* has a process left its partial directory behind?
    pc,                 \* per process: where it is in publish or prune
    target,             \* the generation being published or removed
    unseen, listed,     \* prune: names still to load, names loaded
    doomed,             \* prune: generations still to remove
    result,             \* how the last call of the process ended
    ever                \* history: every generation ever installed

vars == <<installed, orphans, pc, target, unseen, listed, doomed, result, ever>>

(* generation_leaf: a directory is named for the cursor of its snapshot,   *)
(* and publish_checkpoint takes valid snapshots of a completed update only *)
(* (TrainerSnapshot::validate, P12_PREUPDATE_CHECKPOINT_REJECTED).         *)
Generation == {ConsumedAfter(u) : u \in Update}
NoTarget == 0

Present == DOMAIN installed

(* load_checkpoint succeeds. *)
Whole == {t \in Present : installed[t] = "whole"}

HasPartial(p) == pc[p] \in {"writing", "sealed", "cleaning"}

Init ==
    /\ installed = [t \in {} |-> "whole"]
    /\ orphans = FALSE
    /\ pc = [p \in Procs |-> "idle"]
    /\ target = [p \in Procs |-> NoTarget]
    /\ unseen = [p \in Procs |-> {}]
    /\ listed = [p \in Procs |-> {}]
    /\ doomed = [p \in Procs |-> {}]
    /\ result = [p \in Procs |-> "none"]
    /\ ever = {}

Goto(p, where) == pc' = [pc EXCEPT ![p] = where]

(* The call returns: its locals are gone. *)
Return(p, how) ==
    /\ Goto(p, "idle")
    /\ result' = [result EXCEPT ![p] = how]
    /\ target' = [target EXCEPT ![p] = NoTarget]
    /\ unseen' = [unseen EXCEPT ![p] = {}]
    /\ listed' = [listed EXCEPT ![p] = {}]
    /\ doomed' = [doomed EXCEPT ![p] = {}]

Set(t, condition) ==
    installed' = [x \in Present \cup {t} |->
                     IF x = t THEN condition ELSE installed[x]]

locals == <<target, unseen, listed, doomed>>
disk == <<installed, orphans, ever>>
-----------------------------------------------------------------------------
(* publish_checkpoint *)

PublishRefused(p, t) ==
    /\ pc[p] = "idle"
    /\ t \in Present
    /\ Return(p, "failed")
    /\ UNCHANGED disk

(* create_partial. *)
BeginPublish(p, t) ==
    /\ pc[p] = "idle"
    /\ t \notin Present
    /\ Goto(p, "writing")
    /\ target' = [target EXCEPT ![p] = t]
    /\ UNCHANGED <<disk, unseen, listed, doomed, result>>

(* write_checkpoint: artifacts, manifest and seal, each synced, in order.  *)
WriteCheckpoint(p) ==
    /\ pc[p] = "writing"
    /\ Goto(p, "sealed")
    /\ UNCHANGED <<disk, locals, result>>

(* Mutant of CanReplace: the move replaces what is there.                   *)
CanReplace_Always(t) == TRUE

CanReplace(t) ==
    t \in Present => RenameReplacesEmpty /\ installed[t] = "empty"

(* publish_directory: the partial directory takes the generation's name.   *)
Install(p) ==
    /\ pc[p] = "sealed"
    /\ CanReplace(target[p])
    /\ Goto(p, "renamed")
    /\ Set(target[p], "whole")
    /\ ever' = ever \cup {target[p]}
    /\ UNCHANGED <<orphans, locals, result>>

InstallRefused(p) ==
    /\ pc[p] = "sealed"
    /\ ~CanReplace(target[p])
    /\ Goto(p, "cleaning")
    /\ UNCHANGED <<disk, locals, result>>

(* The manifest is read back for its digest; PublishFails has the failure.   *)
RereadManifest(p) ==
    /\ pc[p] = "renamed"
    /\ Return(p, "published")
    /\ UNCHANGED disk

(* The partial directory is removed after a failure ...                    *)
RemovePartial(p) ==
    /\ pc[p] = "cleaning"
    /\ Return(p, "failed")
    /\ UNCHANGED disk

(* ... or that fails too, and nobody hears of it.                          *)
LeavePartial(p) ==
    /\ pc[p] = "cleaning"
    /\ Return(p, "failed")
    /\ orphans' = TRUE
    /\ UNCHANGED <<installed, ever>>

(* Creating, writing, syncing, renaming or rereading fails.                *)
PublishFails(p) ==
    /\ \/ /\ pc[p] \in {"writing", "sealed"}
          /\ Goto(p, "cleaning")
          /\ UNCHANGED <<locals, result>>
       \/ /\ pc[p] = "renamed"
          /\ Return(p, "failed")
    /\ UNCHANGED disk
-----------------------------------------------------------------------------
(* prune_checkpoints *)

(* A name that starts with a dot ends the call before anything is removed. *)
PartialInTheWay == orphans \/ \E q \in Procs : HasPartial(q)

PruneRefused(p) ==
    /\ pc[p] = "idle"
    /\ PartialInTheWay
    /\ Return(p, "failed")
    /\ UNCHANGED disk

BeginPrune(p) ==
    /\ pc[p] = "idle"
    /\ ~PartialInTheWay
    /\ Goto(p, "scanning")
    /\ unseen' = [unseen EXCEPT ![p] = Present]
    /\ UNCHANGED <<disk, target, listed, doomed, result>>

(* Each generation is loaded; the first one that does not load ends it.    *)
LoadListed(p, t) ==
    /\ pc[p] = "scanning"
    /\ t \in unseen[p] \cap Whole
    /\ unseen' = [unseen EXCEPT ![p] = @ \ {t}]
    /\ listed' = [listed EXCEPT ![p] = @ \cup {t}]
    /\ UNCHANGED <<disk, pc, target, doomed, result>>

ScanRefused(p, t) ==
    /\ pc[p] = "scanning"
    /\ t \in unseen[p] \ Whole
    /\ Return(p, "failed")
    /\ UNCHANGED disk

(* Mutant of ChooseDoomed: retention forgets the anchors.                   *)
ChooseDoomed_NoAnchors(p) ==
    /\ pc[p] = "scanning"
    /\ unseen[p] = {}
    /\ Goto(p, "removing")
    /\ doomed' = [doomed EXCEPT ![p] = listed[p] \ LatestTwo(listed[p])]
    /\ listed' = [listed EXCEPT ![p] = {}]
    /\ UNCHANGED <<disk, target, unseen, result>>

ChooseDoomed(p) ==
    /\ pc[p] = "scanning"
    /\ unseen[p] = {}
    /\ Goto(p, "removing")
    /\ doomed' = [doomed EXCEPT ![p] = listed[p] \ RetainedGenerations(listed[p])]
    /\ listed' = [listed EXCEPT ![p] = {}]
    /\ UNCHANGED <<disk, target, unseen, result>>

(* remove_dir_all: the first files of a doomed generation go ...           *)
BeginRemove(p, t) ==
    /\ pc[p] = "removing"
    /\ target[p] = NoTarget
    /\ t \in doomed[p] \cap Present
    /\ target' = [target EXCEPT ![p] = t]
    /\ Set(t, IF installed[t] = "whole" THEN "damaged" ELSE installed[t])
    /\ UNCHANGED <<orphans, ever, pc, unseen, listed, doomed, result>>

(* ... then the rest ... *)
EmptyOut(p) ==
    /\ pc[p] = "removing"
    /\ target[p] \in Present
    /\ installed[target[p]] = "damaged"
    /\ Set(target[p], "empty")
    /\ UNCHANGED <<orphans, ever, pc, locals, result>>

(* ... and at last the directory. *)
RemoveDirectory(p) ==
    /\ pc[p] = "removing"
    /\ target[p] \in Present
    /\ installed[target[p]] = "empty"
    /\ installed' = [x \in Present \ {target[p]} |-> installed[x]]
    /\ doomed' = [doomed EXCEPT ![p] = @ \ {target[p]}]
    /\ target' = [target EXCEPT ![p] = NoTarget]
    /\ UNCHANGED <<orphans, ever, pc, unseen, listed, result>>

(* Another process took the directory away, or put a new one in its place. *)
RemoveRefused(p) ==
    /\ pc[p] = "removing"
    /\ \/ target[p] = NoTarget /\ ~ doomed[p] \subseteq Present
       \/ target[p] # NoTarget /\ target[p] \notin Present
       \/ target[p] \in Whole
    /\ Return(p, "failed")
    /\ UNCHANGED disk

FinishPrune(p) ==
    /\ pc[p] = "removing"
    /\ doomed[p] = {}
    /\ Return(p, "pruned")
    /\ UNCHANGED disk

(* Enumerating, loading or removing fails. *)
PruneFails(p) ==
    /\ pc[p] \in {"scanning", "removing"}
    /\ Return(p, "failed")
    /\ UNCHANGED disk
-----------------------------------------------------------------------------
(* The process ends where it is; another may run in its place.             *)
Crash(p) ==
    /\ pc[p] # "idle"
    /\ Return(p, "none")
    /\ orphans' = (orphans \/ HasPartial(p))
    /\ UNCHANGED <<installed, ever>>

PublishStep(p) ==
    \/ WriteCheckpoint(p)
    \/ Install(p)
    \/ InstallRefused(p)
    \/ RereadManifest(p)
    \/ RemovePartial(p)

PruneStep(p) ==
    \/ \E t \in Generation : LoadListed(p, t) \/ ScanRefused(p, t) \/ BeginRemove(p, t)
    \/ ChooseDoomed(p)
    \/ EmptyOut(p)
    \/ RemoveDirectory(p)
    \/ RemoveRefused(p)
    \/ FinishPrune(p)

Fault(p) == PublishFails(p) \/ LeavePartial(p) \/ PruneFails(p) \/ Crash(p)

Next ==
    \E p \in Procs :
        \/ \E t \in Generation : PublishRefused(p, t) \/ BeginPublish(p, t)
        \/ PublishStep(p)
        \/ PruneRefused(p) \/ BeginPrune(p)
        \/ PruneStep(p)
        \/ Fault(p)

Spec == Init /\ [][Next]_vars
-----------------------------------------------------------------------------
Condition == {"whole", "damaged", "empty"}
Location == {"idle", "writing", "sealed", "renamed", "cleaning", "scanning", "removing"}

(* Every variable holds a value of its kind. *)
TypeOK ==
    /\ Present \subseteq Generation
    /\ installed \in [Present -> Condition]
    /\ orphans \in BOOLEAN
    /\ pc \in [Procs -> Location]
    /\ target \in [Procs -> Generation \cup {NoTarget}]
    /\ unseen \in [Procs -> SUBSET Generation]
    /\ listed \in [Procs -> SUBSET Generation]
    /\ doomed \in [Procs -> SUBSET Generation]
    /\ result \in [Procs -> {"none", "published", "pruned", "failed"}]
    /\ ever \subseteq Generation

(* Whatever publishers, pruners, failures and crashes did to the directory, *)
(* in whatever order: what the retention policy keeps of everything that    *)
(* was ever installed is on disk, whole.  In particular the newest          *)
(* generation always is, so a relaunch never has to go further back.        *)
RetainedKept == RetainedGenerations(ever) \subseteq Whole

(* The newest generation that loads, which a relaunch resumes from, never   *)
(* becomes an older one.                                                    *)
ResumePointMonotone == [][\A t \in Whole : \E u \in Whole' : u >= t]_vars

(* A prune that succeeds leaves exactly what retention keeps of everything  *)
(* that was ever installed: pruning after each publication, after some of   *)
(* them or after a crash makes no difference.  (One process at a time.)     *)
SuccessfulPruneIsExact ==
    \A p \in Procs :
        result[p] = "pruned" /\ pc[p] = "idle" => Present = RetainedGenerations(ever)
=============================================================================
