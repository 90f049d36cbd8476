------------------------------- MODULE Amendment -------------------------------
(***************************************************************************)
(* The P0A contract amendment from the attempt to the checked box: runs    *)
(* (AmendmentRuns), the owners' approval pairs, finalize in                *)
(* xtask/src/p0a.rs, and the commits that check_selected then looks for.   *)
(*                                                                         *)
(* An acceptance is the approval pair it binds and the commit of that      *)
(* pair; its sequence number is its place in chain, and the pointer is the *)
(* sequence number it selects.                                             *)
(***************************************************************************)
EXTENDS AmendmentRuns, Sequences, SequencesExt

CONSTANT MaxApprovals    \* bound on the approval pairs

ASSUME AmendmentAssumption == MaxApprovals \in Nat

VARIABLES
  commits,     \* what each commit adds, with the pointer and the box in its tree
  approvals,   \* the run that each approval pair approves
  chain,       \* acceptances/
  accTemp,     \* there is an acceptance temporary
  ptrTemps,    \* the pointer temporaries
  pointer,     \* evidence.json
  fin,         \* where finalize is
  fresh,       \* it has published the acceptance itself
  reported     \* it has returned PASS and nothing was committed since

pubVars == <<commits, approvals, chain, accTemp, ptrTemps, pointer, fin, fresh,
             reported>>
vars == <<runVars, pubVars>>

FinSteps == {"idle", "approved", "publication", "status", "acceptance", "link", "unlink",
             "select", "fill", "install", "rollback"}

TypeOK ==
  /\ RunsTypeOK
  /\ commits \in Seq([runs : SUBSET Runs, approval : 0..MaxApprovals,
                      acceptances : SUBSET Nat, pointer : Nat, checked : BOOLEAN])
  /\ approvals \in Seq(Runs) /\ Len(approvals) <= MaxApprovals
  /\ chain \in Seq([approval : 1..MaxApprovals, commit : 1..Len(commits)])
  /\ accTemp \in BOOLEAN
  /\ ptrTemps \in Seq([target : Nat, whole : BOOLEAN])
  /\ pointer \in 0..Len(chain)
  /\ fin \in FinSteps
  /\ fresh \in BOOLEAN /\ reported \in BOOLEAN

Init ==
  /\ RunsInit
  /\ commits = <<>> /\ approvals = <<>> /\ chain = <<>>
  /\ accTemp = FALSE /\ ptrTemps = <<>> /\ pointer = 0
  /\ fin = "idle" /\ fresh = FALSE /\ reported = FALSE

---------------------------------------------------------------------------
(* What git and the directory show. *)

HeadCommit == Len(commits)
CommittedRuns == UNION {commits[i].runs : i \in DOMAIN commits}
CommittedAcceptances == UNION {commits[i].acceptances : i \in DOMAIN commits}
CommittedPointer == IF commits = <<>> THEN 0 ELSE Last(commits).pointer
Checked == commits # <<>> /\ Last(commits).checked

\* Untracked or changed files, those of the publication pair apart.
OnlyPairDirty ==
  /\ Published = CommittedRuns
  /\ \A c \in staging : IsEmpty(c)
  /\ ~accTemp /\ ptrTemps = <<>>
  /\ DOMAIN chain \ CommittedAcceptances \subseteq {Len(chain)}

\* require_repository_clean
RepositoryClean ==
  OnlyPairDirty /\ DOMAIN chain = CommittedAcceptances /\ pointer = CommittedPointer

LatestApproval == Len(approvals)
RunOf(a) == approvals[a.approval]

\* The commit creates the two approval files and nothing else.
ApprovalCommitOf(c, approval) ==
  /\ c \in DOMAIN commits
  /\ commits[c].approval = approval /\ commits[c].runs = {} /\ commits[c].acceptances = {}

MatchingRetained == chain # <<>> /\ Last(chain).approval = LatestApproval

\* A new acceptance follows a selected one that an earlier approval pair made.
SelectedPredecessor ==
  pointer = Len(chain) /\ (chain # <<>> => Last(chain).approval < LatestApproval)

\* The commit that adds the acceptance is the child of the approval commit and
\* changes the acceptance and the pointer.
CommittedPair(n) ==
  \E i \in DOMAIN commits :
    /\ commits[i].acceptances = {n} /\ commits[i].runs = {} /\ commits[i].approval = 0
    /\ i - 1 = chain[n].commit
    /\ commits[i].pointer = n

AcceptanceChainValid ==
  \A n \in DOMAIN chain :
    /\ ApprovalCommitOf(chain[n].commit, chain[n].approval)
    /\ runs[RunOf(chain[n])] = "AWAITING_REVIEW"
    /\ \E i \in 1..chain[n].commit : RunOf(chain[n]) \in commits[i].runs
    /\ n > 1 => chain[n - 1].approval < chain[n].approval

\* The box is checked by the child of the publication commit and by that alone.
CheckboxCommitted(n) ==
  \E i \in DOMAIN commits :
    /\ commits[i].acceptances = {n} /\ ~commits[i].checked
    /\ i + 1 \in DOMAIN commits
    /\ commits[i + 1] = [runs |-> {}, approval |-> 0, acceptances |-> {},
                         pointer |-> n, checked |-> TRUE]

\* check_selected
SelectedVerifies ==
  /\ RepositoryClean
  /\ chain # <<>> /\ pointer = Len(chain)
  /\ AcceptanceChainValid
  /\ CommittedPair(pointer) /\ CheckboxCommitted(pointer)
  /\ Checked

---------------------------------------------------------------------------
(* finalize *)

Return == fin' = "idle" /\ fresh' = FALSE

NobodyPrepares == \A p \in Procs : pc[p] = "idle"

\* The latest approval pair names a run that is valid; acceptance temporaries are
\* discarded before the sequence is counted.
StartFinalize ==
  /\ fin = "idle" /\ NobodyPrepares /\ ~reported
  /\ approvals # <<>> /\ runs[Last(approvals)] = "AWAITING_REVIEW"
  /\ accTemp' = FALSE
  /\ fin' = "approved"
  /\ UNCHANGED <<runVars, commits, approvals, chain, ptrTemps, pointer, fresh, reported>>

\* The greatest acceptance is the publication of this approval pair, to be completed,
\* or the pair, in HEAD, is given a new one in a clean repository.
BindApproval ==
  /\ fin = "approved"
  /\ CASE MatchingRetained -> fin' = "publication" /\ UNCHANGED fresh
       [] ~MatchingRetained /\ SelectedPredecessor
            /\ ApprovalCommitOf(HeadCommit, LatestApproval) /\ RepositoryClean ->
            fin' = "acceptance" /\ fresh' = TRUE
       [] OTHER -> Return
  /\ UNCHANGED <<runVars, commits, approvals, chain, accTemp, ptrTemps, pointer,
                 reported>>

\* recover_pointer_temporary: one that is redundant or not the expected pointer is
\* discarded, the expected one installed over its predecessor.
RecoverPointerTemp ==
  LET target == Len(chain)
  IN /\ fin = "publication"
     /\ CASE ptrTemps = <<>> -> fin' = "status" /\ UNCHANGED <<ptrTemps, pointer, fresh>>
          [] Len(ptrTemps) = 1 /\ pointer = target ->
               ptrTemps' = <<>> /\ fin' = "status" /\ UNCHANGED <<pointer, fresh>>
          [] Len(ptrTemps) = 1 /\ pointer = target - 1 ->
               /\ ptrTemps' = <<>>
               /\ pointer' = IF Head(ptrTemps) = [target |-> target, whole |-> TRUE]
                             THEN target ELSE pointer
               /\ fin' = "status"
               /\ UNCHANGED fresh
          [] OTHER -> Return /\ UNCHANGED <<ptrTemps, pointer>>
     /\ UNCHANGED <<runVars, commits, approvals, chain, accTemp, reported>>

Report == reported' = TRUE /\ Return

\* Mutant: HEAD is not compared with the approval commit.
CompletePublication_AnyHead ==
  LET target == Len(chain)
  IN /\ fin = "status"
     /\ IF /\ target \notin CommittedAcceptances
           /\ OnlyPairDirty
        THEN IF pointer = target THEN Report
             ELSE fin' = "select" /\ UNCHANGED <<fresh, reported>>
        ELSE Return /\ UNCHANGED reported
     /\ UNCHANGED <<runVars, commits, approvals, chain, accTemp, ptrTemps, pointer>>

\* Mutant: the retained acceptance is reported without a look at the pointer.
CompletePublication_TrustsAcceptance ==
  LET target == Len(chain)
  IN /\ fin = "status"
     /\ IF /\ target \notin CommittedAcceptances
           /\ HeadCommit = Last(chain).commit /\ OnlyPairDirty
        THEN Report
        ELSE Return /\ UNCHANGED reported
     /\ UNCHANGED <<runVars, commits, approvals, chain, accTemp, ptrTemps, pointer>>

\* A publication that is not committed is completed only on top of its approval
\* commit, with nothing but the pair changed.  A committed one is only looked at.
CompletePublication ==
  LET target == Len(chain)
  IN /\ fin = "status"
     /\ IF /\ target \notin CommittedAcceptances
           /\ HeadCommit = Last(chain).commit /\ OnlyPairDirty
        THEN IF pointer = target THEN Report
             ELSE fin' = "select" /\ UNCHANGED <<fresh, reported>>
        ELSE Return /\ UNCHANGED reported
     /\ UNCHANGED <<runVars, commits, approvals, chain, accTemp, ptrTemps, pointer>>

\* Mutant: the sequence number of the last acceptance is used again.
PublishAcceptance_SameSequence ==
  /\ \/ /\ fin = "acceptance"
        /\ accTemp' = TRUE /\ fin' = "link" /\ UNCHANGED chain
     \/ /\ fin = "link"
        /\ chain' = Append(SubSeq(chain, 1, Len(chain) - 1),
                           [approval |-> LatestApproval, commit |-> HeadCommit])
        /\ fin' = "unlink" /\ UNCHANGED accTemp
     \/ /\ fin = "unlink"
        /\ accTemp' = FALSE /\ fin' = "select" /\ UNCHANGED chain
  /\ UNCHANGED <<runVars, commits, approvals, ptrTemps, pointer, fresh, reported>>

\* The acceptance under a temporary name, linked to its own, and the temporary removed.
PublishAcceptance ==
  /\ \/ /\ fin = "acceptance"
        /\ accTemp' = TRUE /\ fin' = "link" /\ UNCHANGED chain
     \/ /\ fin = "link"
        /\ chain' = Append(chain, [approval |-> LatestApproval, commit |-> HeadCommit])
        /\ fin' = "unlink" /\ UNCHANGED accTemp
     \/ /\ fin = "unlink"
        /\ accTemp' = FALSE /\ fin' = "select" /\ UNCHANGED chain
  /\ UNCHANGED <<runVars, commits, approvals, ptrTemps, pointer, fresh, reported>>

ReplacePointer ==
  /\ \/ /\ fin = "select"
        /\ ptrTemps' = Append(ptrTemps, [target |-> Len(chain), whole |-> FALSE])
        /\ fin' = "fill" /\ UNCHANGED <<pointer, fresh, reported>>
     \/ /\ fin = "fill"
        /\ ptrTemps' = [ptrTemps EXCEPT ![Len(ptrTemps)].whole = TRUE]
        /\ fin' = "install" /\ UNCHANGED <<pointer, fresh, reported>>
     \/ /\ fin = "install"
        /\ ptrTemps' = Front(ptrTemps)
        /\ pointer' = Len(chain)
        /\ Report
  /\ UNCHANGED <<runVars, commits, approvals, chain, accTemp>>

\* Writing the pointer temporary or renaming it fails; only in the second case is it
\* removed.
PointerFails ==
  /\ fin \in {"fill", "install"} /\ stops < MaxStops
  /\ stops' = stops + 1
  /\ ptrTemps' = IF fin = "install" THEN Front(ptrTemps) ELSE ptrTemps
  /\ IF fresh THEN fin' = "rollback" /\ UNCHANGED fresh ELSE Return
  /\ UNCHANGED <<staging, runs, attempts, pc, own, empties, todo, group, commits, approvals,
                 chain, accTemp, pointer, reported>>

\* The acceptance that this invocation has published is withdrawn.
RollBackAcceptance ==
  /\ fin = "rollback"
  /\ chain' = Front(chain)
  /\ Return
  /\ UNCHANGED <<runVars, commits, approvals, accTemp, ptrTemps, pointer, reported>>

StopFinalize ==
  /\ fin # "idle" /\ stops < MaxStops
  /\ stops' = stops + 1
  /\ Return
  /\ UNCHANGED <<staging, runs, attempts, pc, own, empties, todo, group, commits, approvals,
                 chain, accTemp, ptrTemps, pointer, reported>>

Finalize ==
  \/ BindApproval \/ RecoverPointerTemp \/ CompletePublication \/ PublishAcceptance
  \/ ReplacePointer \/ RollBackAcceptance

---------------------------------------------------------------------------
(* The owner, who commits what the commands ask for. *)

Quiet == fin = "idle" /\ NobodyPrepares

Commit(runsAdded, approval, acceptances, checked) ==
  /\ commits' = Append(commits, [runs |-> runsAdded, approval |-> approval,
                                 acceptances |-> acceptances, checked |-> checked,
                                 pointer |-> IF acceptances = {} THEN CommittedPointer
                                             ELSE pointer])
  /\ UNCHANGED <<runVars, chain, accTemp, ptrTemps, pointer, fin, fresh>>

CommitRuns ==
  /\ Quiet /\ ~reported /\ Published # CommittedRuns
  /\ Commit(Published \ CommittedRuns, 0, {}, Checked)
  /\ UNCHANGED <<approvals, reported>>

Approve(r) ==
  /\ Quiet /\ ~Checked /\ Len(approvals) < MaxApprovals
  /\ DOMAIN chain = CommittedAcceptances
  /\ r \in CommittedRuns /\ runs[r] = "AWAITING_REVIEW"
  /\ approvals' = Append(approvals, r)
  /\ Commit({}, Len(approvals) + 1, {}, FALSE)
  /\ UNCHANGED <<reported>>

CommitPublication ==
  /\ Quiet /\ reported
  /\ Commit({}, 0, DOMAIN chain \ CommittedAcceptances, FALSE)
  /\ reported' = FALSE
  /\ UNCHANGED <<approvals>>

CheckBox ==
  /\ Quiet /\ commits # <<>> /\ Last(commits).acceptances # {}
  /\ Commit({}, 0, {}, TRUE)
  /\ UNCHANGED <<approvals, reported>>

---------------------------------------------------------------------------

\* Bound: after the first approval invocations of prepare do not overlap.
MayPrepare ==
  /\ fin = "idle" /\ ~Checked /\ ~reported
  /\ approvals = <<>> \/ NobodyPrepares

PrepareStep(p) ==
  /\ \/ StartPrepare(p) /\ MayPrepare
     \/ Prepare(p)
     \/ StopPrepare(p)
  /\ UNCHANGED pubVars

Owner ==
  \/ CommitRuns \/ CommitPublication \/ CheckBox
  \/ \E r \in Runs : Approve(r)

Next ==
  \/ \E p \in Procs : PrepareStep(p)
  \/ StartFinalize \/ Finalize \/ PointerFails \/ StopFinalize
  \/ Owner

Spec == Init /\ [][Next]_vars

Unselected == pointer # Len(chain)

\* A started command runs on; prepare is repeated while .staging is not empty, finalize
\* while an acceptance is not selected, and what it has reported is committed.
RecoverySpec ==
  /\ Spec
  /\ \A p \in Procs : WF_vars(Prepare(p) /\ UNCHANGED pubVars)
  /\ SF_vars(\E p \in Procs : staging # {} /\ StartPrepare(p) /\ MayPrepare
                                /\ UNCHANGED pubVars)
  /\ WF_vars(Finalize)
  /\ SF_vars(Unselected /\ StartFinalize)
  /\ WF_vars(CommitPublication)

---------------------------------------------------------------------------
(* Properties. *)

\* What has been selected stays, in this order, and the pointer goes forward by one
\* acceptance at a time, also when a publication is withdrawn or completed later.
SelectedHistoryGrows ==
  [][/\ pointer' \in {pointer, pointer + 1}
     /\ IsPrefix(SubSeq(chain, 1, pointer), chain')]_vars

\* An owner who commits what the commands report ends with a closed phase.
CheckedBoxVerifies == Checked /\ RepositoryClean => SelectedVerifies

\* The types hold, only the last acceptance can be unselected, it is not committed then, and there is
\* never a choice between pointer temporaries.
OneOpenPublication ==
  /\ TypeOK
  /\ Len(chain) - pointer \in {0, 1}
  /\ Unselected => Len(chain) \notin CommittedAcceptances
  /\ Len(ptrTemps) <= 1

\* finalize refuses for good: the branch has moved on, or something else is not
\* committed.
FinalizeRefused ==
  Unselected /\ (HeadCommit # Last(chain).commit \/ ~OnlyPairDirty)

\* What was interrupted is finished: again and again .staging is empty, or what is left
\* in it cannot be told from a stranger's files, and again and again no acceptance is
\* unselected, or finalize refuses for good.
InterruptedIsFinished ==
  /\ []<>(staging = {} \/ Stuck \/ Checked)
  /\ []<>(~Unselected \/ FinalizeRefused)
=============================================================================
