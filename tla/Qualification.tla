----------------------------- MODULE Qualification -----------------------------
(***************************************************************************)
(* Publication of P1A qualification receipts (xtask/src/p1a.rs): the       *)
(* attempt journal in .staging, the immutable runs, the acceptance chain   *)
(* and the selected pointer evidence.json, with recovery after an          *)
(* interruption at any file operation, and the owner's receipt commits.    *)
(*                                                                         *)
(* An acceptance is the run it binds; its sequence number is its place in  *)
(* chain, and the pointer is the sequence number it projects.  A           *)
(* temporary file is whole, or torn when it was not written to the end.    *)
(***************************************************************************)
EXTENDS Naturals, Sequences, FiniteSets, SequencesExt, FiniteSetsExt

CONSTANTS
  Procs,        \* processes that run the qualify command
  MaxRuns,      \* bound on the attempts made
  PlanLength,   \* audited commands in the frozen command plan
  MaxStops,     \* bound on crashes and failed file operations
  Nobody,       \* the mutex is free
  Abandoned     \* its owner died holding it

ASSUME QualificationAssumption ==
  /\ MaxRuns \in Nat /\ PlanLength \in Nat /\ MaxStops \in Nat
  /\ Nobody \notin Procs /\ Abandoned \notin Procs /\ Nobody # Abandoned

Runs == 1..MaxRuns
NoRun == 0

VARIABLES
  lock,       \* the named mutex of the repository
  pc,         \* where each process is in qualify
  mode,       \* fresh attempt, or which kind of journal it recovers
  ran,        \* audited commands it has captured
  stage,      \* the stage container: its directory, private-work, staged run
  marker,     \* the journal has been moved out as a finalization marker
  journal,    \* the run that attempt.json names, NoRun when there is none
  source,     \* the commit each attempt was admitted at
  runs,       \* the status of each directory below runs/
  recorded,   \* commands in the evidence of each run
  chain,      \* acceptances/
  accTemp,    \* acceptance temporaries: at most one is ever written
  ptrTemps,   \* pointer temporaries, in the order written
  pointer,    \* evidence.json
  commits,    \* receipt commits of the owner
  stops

disk == <<stage, marker, journal, source, runs, recorded,
          chain, accTemp, ptrTemps, pointer>>
local == <<pc, mode, ran>>
vars == <<lock, pc, mode, ran, stage, marker, journal, source, runs, recorded, chain,
          accTemp, ptrTemps, pointer, commits, stops>>

NoStage == [dir |-> "none", work |-> FALSE, run |-> FALSE]
Temporary == [run : Runs, whole : BOOLEAN]

Steps == {"idle", "preflight", "prefix", "acceptanceTemp", "pointerTemp", "recover",
          "discard", "admit", "attempt", "work", "commands", "closeFailed", "emitPass",
          "emitFail", "publishPass", "publishFail", "cleanup", "removeStage", "accept",
          "fillAcceptance", "installAcceptance", "select", "fillPointer",
          "installPointer", "dropTemp", "finish"}

TypeOK ==
  /\ lock \in Procs \cup {Nobody, Abandoned}
  /\ pc \in [Procs -> Steps]
  /\ mode \in [Procs -> {"fresh", "marker", "container", "temporary"}]
  /\ ran \in [Procs -> 0..PlanLength]
  /\ stage \in [dir : {"none", "bare", "temp", "attempt"}, work : BOOLEAN, run : BOOLEAN]
  /\ marker \in BOOLEAN
  /\ journal \in Runs \cup {NoRun}
  /\ source \in [Runs -> Nat]
  /\ runs \in [Runs -> {"none", "PASS", "FAIL"}]
  /\ recorded \in [Runs -> 0..PlanLength]
  /\ chain \in Seq(Runs)
  /\ accTemp \in SUBSET Temporary
  /\ ptrTemps \in Seq(Temporary)
  /\ pointer \in 0..Len(chain)
  /\ commits \in Seq([runs : SUBSET Runs, acceptances : SUBSET Nat, pointer : Nat])
  /\ stops \in 0..MaxStops

Init ==
  /\ lock = Nobody
  /\ pc = [p \in Procs |-> "idle"]
  /\ mode = [p \in Procs |-> "fresh"]
  /\ ran = [p \in Procs |-> 0]
  /\ stage = NoStage /\ marker = FALSE /\ journal = NoRun
  /\ source = [r \in Runs |-> 0]
  /\ runs = [r \in Runs |-> "none"]
  /\ recorded = [r \in Runs |-> 0]
  /\ chain = <<>> /\ accTemp = {} /\ ptrTemps = <<>> /\ pointer = 0
  /\ commits = <<>>
  /\ stops = 0

---------------------------------------------------------------------------
(* What the namespace shows to a reader of it. *)

HeadCommit == Len(commits)
Published == {r \in Runs : runs[r] # "none"}
Accepted == ToSet(chain)
StagingEntries == (IF stage.dir = "none" THEN 0 ELSE 1) + (IF marker THEN 1 ELSE 0)
Closed == StagingEntries = 0 /\ accTemp = {} /\ ptrTemps = <<>>

\* The run of the attempt that is to be recovered: a container without attempt.json
\* has not got one.
ActiveRun == IF marker \/ stage.dir = "attempt" THEN journal ELSE NoRun

BoundToSource == ActiveRun # NoRun => source[ActiveRun] = HeadCommit

\* More than one entry in .staging is refused.
RecoveryAttemptReadable == StagingEntries <= 1 /\ BoundToSource

TemporariesUnambiguous == Cardinality(accTemp) <= 1 /\ Len(ptrTemps) <= 1

TemporariesWhole ==
  /\ \A t \in accTemp : t.whole
  /\ \A i \in DOMAIN ptrTemps : ptrTemps[i].whole

\* The pointer is the projection of the active run's acceptance or of the one
\* before it, and the temporaries belong to the active run.
PointerRecoverable ==
  LET active == ActiveRun
      isTarget == active # NoRun /\ chain # <<>> /\ Last(chain) = active
  IN /\ TemporariesWhole
     /\ active = NoRun =>
          accTemp = {} /\ ptrTemps = <<>> /\ pointer = Len(chain)
     /\ active \in Accepted => Last(chain) = active
     /\ \A t \in accTemp : t.run = active
     /\ active # NoRun =>
          pointer \in {Len(chain) - (IF isTarget THEN 1 ELSE 0), Len(chain)}
     /\ \A i \in DOMAIN ptrTemps : isTarget /\ ptrTemps[i].run = active

\* Every accepted run is sealed, and outside the run to be recovered a run has
\* passed if and only if it is accepted.
TerminalRunsValid(except) ==
  /\ Accepted \subseteq Published
  /\ \A r \in Published \ {except} :
       /\ runs[r] = "PASS" <=> r \in Accepted
       /\ runs[r] = "PASS" => recorded[r] = PlanLength

CommittedRuns == UNION {commits[i].runs : i \in DOMAIN commits}
CommittedAcceptances == UNION {commits[i].acceptances : i \in DOMAIN commits}
CommittedPointer == IF commits = <<>> THEN 0 ELSE Last(commits).pointer

\* Everything but the files of the active run is committed.
PrefixCommitted ==
  LET active == ActiveRun
  IN /\ Published \ {active} \subseteq CommittedRuns
     /\ \A n \in DOMAIN chain : chain[n] = active \/ n \in CommittedAcceptances
     /\ active = NoRun => pointer = CommittedPointer

\* The commit of a receipt is the child of the commit the attempt was made from.
ReceiptParentOf(i, r) == source[r] = i - 1

\* It adds one run, and with a passed run its acceptance and the pointer to it.
ReceiptScopeOf(i, r) ==
  /\ commits[i].runs = {r}
  /\ commits[i].acceptances = {n \in DOMAIN chain : chain[n] = r}
  /\ r \in Accepted => chain[commits[i].pointer] = r

\* The pointer changes in the commits that add an acceptance and in no other.
PointerHistoryMonotone ==
  \A i \in DOMAIN commits :
    LET before == IF i = 1 THEN 0 ELSE commits[i - 1].pointer
    IN commits[i].pointer =
         before + (IF commits[i].acceptances = {} THEN 0 ELSE 1)

NamespaceCommitted ==
  /\ Closed
  /\ Published = CommittedRuns
  /\ DOMAIN chain = CommittedAcceptances
  /\ pointer = CommittedPointer
  /\ \A i \in DOMAIN commits :
       \E r \in Published : ReceiptScopeOf(i, r) /\ ReceiptParentOf(i, r)
  /\ PointerHistoryMonotone

SelectedReceiptValid ==
  /\ chain # <<>> /\ pointer = Len(chain)
  /\ runs[Last(chain)] = "PASS"


\* check_selected of a namespace nobody is writing to.
SelectedVerifies ==
  Closed /\ TerminalRunsValid(NoRun) /\ SelectedReceiptValid /\ NamespaceCommitted

PublicationClosed ==
  marker /\ stage.dir = "none" /\ accTemp = {} /\ ptrTemps = <<>>

NextRun == CHOOSE r \in Runs : runs[r] = "none" /\ \A q \in 1..(r - 1) : runs[q] # "none"

---------------------------------------------------------------------------
(* The process: one action per file operation, as an interruption can fall *)
(* between any two of them.                                                *)

Goto(p, step) == pc' = [pc EXCEPT ![p] = step]
Leave(p) == Goto(p, "idle") /\ lock' = Nobody

\* An error return: nothing on disk is changed.
Refuse(p) == Leave(p) /\ UNCHANGED <<mode, ran, commits, stops, disk>>

\* Mutant: WAIT_ABANDONED is refused.
Acquire_AbandonedIsHeld(p) ==
  /\ pc[p] = "idle" /\ lock = Nobody
  /\ Closed => Published # Runs
  /\ lock' = p
  /\ Goto(p, "preflight")
  /\ mode' = [mode EXCEPT ![p] = "fresh"]
  /\ ran' = [ran EXCEPT ![p] = 0]
  /\ UNCHANGED <<commits, stops, disk>>

\* An abandoned mutex is acquired like a free one.
Acquire(p) ==
  /\ pc[p] = "idle" /\ lock \in {Nobody, Abandoned}
  /\ Closed => Published # Runs
  /\ lock' = p
  /\ Goto(p, "preflight")
  /\ mode' = [mode EXCEPT ![p] = "fresh"]
  /\ ran' = [ran EXCEPT ![p] = 0]
  /\ UNCHANGED <<commits, stops, disk>>

Preflight(p) ==
  /\ pc[p] = "preflight"
  /\ IF \A t \in accTemp : t.whole
     THEN Goto(p, "prefix") /\ UNCHANGED <<lock, mode, ran, commits, stops, disk>>
     ELSE Refuse(p)

ValidatePrefix(p) ==
  /\ pc[p] = "prefix"
  /\ IF /\ RecoveryAttemptReadable /\ TemporariesUnambiguous /\ PointerRecoverable
        /\ TerminalRunsValid(ActiveRun) /\ PrefixCommitted
     THEN Goto(p, "acceptanceTemp") /\ UNCHANGED <<lock, mode, ran, commits, stops, disk>>
     ELSE Refuse(p)

\* Only a finalization marker is a journal of an unfinished publication.
FinalizationJournalOf(t) == marker /\ journal = t.run

FinishAcceptanceTemp(p) ==
  /\ pc[p] = "acceptanceTemp"
  /\ \/ /\ accTemp = {}
        /\ Goto(p, "pointerTemp")
        /\ UNCHANGED <<lock, chain, accTemp>>
     \/ \E t \in accTemp :
          \/ ~FinalizationJournalOf(t) /\ Leave(p) /\ UNCHANGED <<chain, accTemp>>
          \/ /\ FinalizationJournalOf(t) /\ t.run \notin Accepted
             /\ chain' = Append(chain, t.run)
             /\ UNCHANGED <<lock, pc, accTemp>>
          \/ /\ FinalizationJournalOf(t) /\ t.run \in Accepted
             /\ accTemp' = {}
             /\ Goto(p, "pointerTemp")
             /\ UNCHANGED <<lock, chain>>
  /\ UNCHANGED <<mode, ran, stage, marker, journal, source, runs, recorded,
                 ptrTemps, pointer, commits, stops>>

FinishPointerTemp(p) ==
  /\ pc[p] = "pointerTemp"
  /\ \/ /\ ptrTemps = <<>>
        /\ Goto(p, "recover")
        /\ UNCHANGED <<lock, mode>>
     \/ /\ ptrTemps # <<>> /\ ~FinalizationJournalOf(Head(ptrTemps))
        /\ Leave(p)
        /\ UNCHANGED mode
     \/ /\ ptrTemps # <<>> /\ FinalizationJournalOf(Head(ptrTemps))
        /\ mode' = [mode EXCEPT ![p] = "temporary"]
        /\ Goto(p, "select")
        /\ UNCHANGED lock
  /\ UNCHANGED <<ran, commits, stops, disk>>

DropPointerTemp(p) ==
  /\ pc[p] = "dropTemp"
  /\ ptrTemps' = Tail(ptrTemps)
  /\ Goto(p, "recover")
  /\ UNCHANGED <<lock, mode, ran, stage, marker, journal, source, runs, recorded,
                 chain, accTemp, pointer, commits, stops>>

\* Mutant: an accepted run is taken to be selected.
RecoverPublished_AcceptedIsFinished(p, kind) ==
  /\ mode' = [mode EXCEPT ![p] = kind]
  /\ CASE runs[journal] = "FAIL" ->
            Goto(p, IF kind = "container" THEN "cleanup" ELSE "finish")
       [] runs[journal] = "PASS" /\ journal \in Accepted -> Goto(p, "finish")
       [] OTHER -> Goto(p, "accept")
  /\ UNCHANGED <<lock, ran, commits, stops, disk>>

\* Mutant: the status of the closed run is not looked at.
RecoverPublished_IgnoresStatus(p, kind) ==
  /\ mode' = [mode EXCEPT ![p] = kind]
  /\ CASE journal \in Accepted -> Goto(p, "select")
       [] OTHER -> Goto(p, "accept")
  /\ UNCHANGED <<lock, ran, commits, stops, disk>>

\* What is to be published of a closed run is read from its status and the chain.
RecoverPublished(p, kind) ==
  /\ mode' = [mode EXCEPT ![p] = kind]
  /\ CASE runs[journal] = "FAIL" ->
            Goto(p, IF kind = "container" THEN "cleanup" ELSE "finish")
       [] runs[journal] = "PASS" /\ journal \in Accepted -> Goto(p, "select")
       [] OTHER -> Goto(p, "accept")
  /\ UNCHANGED <<lock, ran, commits, stops, disk>>

RecoverAttempt(p) ==
  /\ pc[p] = "recover"
  /\ StagingEntries <= 1
  /\ \/ /\ StagingEntries = 0
        /\ Goto(p, "admit")
        /\ UNCHANGED <<lock, mode, ran, commits, stops, disk>>
     \/ /\ marker
        /\ RecoverPublished(p, "marker")
     \/ /\ ~marker /\ stage.dir \in {"bare", "temp"}
        /\ Goto(p, "discard")
        /\ UNCHANGED <<lock, mode, ran, commits, stops, disk>>
     \/ /\ ~marker /\ stage.dir = "attempt" /\ runs[journal] # "none"
        /\ RecoverPublished(p, "container")
     \/ /\ ~marker /\ stage.dir = "attempt" /\ runs[journal] = "none"
        /\ Goto(p, "closeFailed")
        /\ UNCHANGED <<lock, mode, ran, commits, stops, disk>>

\* A container without attempt.json holds nothing but temporaries of it.
DiscardPreIdentity(p) ==
  /\ pc[p] = "discard"
  /\ IF stage.dir = "temp"
     THEN stage' = [stage EXCEPT !.dir = "bare"] /\ UNCHANGED pc
     ELSE stage' = NoStage /\ Goto(p, "admit")
  /\ UNCHANGED <<lock, mode, ran, marker, journal, source, runs, recorded, chain,
                 accTemp, ptrTemps, pointer, commits, stops>>

AdmitAttempt(p) ==
  /\ pc[p] = "admit"
  /\ IF /\ (pointer # 0) <=> (chain # <<>>)
        /\ chain # <<>> => SelectedReceiptValid
        /\ Published # {} => TerminalRunsValid(NoRun) /\ NamespaceCommitted
        /\ Published # Runs
     THEN /\ stage' = [stage EXCEPT !.dir = "bare"]
          /\ Goto(p, "attempt")
          /\ UNCHANGED lock
     ELSE Leave(p) /\ UNCHANGED stage
  /\ UNCHANGED <<mode, ran, marker, journal, source, runs, recorded, chain,
                 accTemp, ptrTemps, pointer, commits, stops>>

\* attempt.json is written under a temporary name and renamed.
WriteAttempt(p) ==
  /\ pc[p] = "attempt"
  /\ \/ /\ stage.dir = "bare"
        /\ stage' = [stage EXCEPT !.dir = "temp"]
        /\ UNCHANGED <<pc, journal, source>>
     \/ /\ stage.dir = "temp"
        /\ stage' = [stage EXCEPT !.dir = "attempt"]
        /\ journal' = NextRun
        /\ source' = [source EXCEPT ![NextRun] = HeadCommit]
        /\ Goto(p, "work")
  /\ UNCHANGED <<lock, mode, ran, marker, runs, recorded, chain, accTemp, ptrTemps,
                 pointer, commits, stops>>

CreateWork(p) ==
  /\ pc[p] = "work"
  /\ stage' = [stage EXCEPT !.work = TRUE]
  /\ Goto(p, "commands")
  /\ UNCHANGED <<lock, mode, ran, marker, journal, source, runs, recorded, chain,
                 accTemp, ptrTemps, pointer, commits, stops>>

\* A command is captured before its outcome is looked at; after the last one the
\* source is compared with what was admitted and the work removed.
Execute(p) ==
  /\ pc[p] = "commands"
  /\ \/ /\ ran[p] < PlanLength
        /\ ran' = [ran EXCEPT ![p] = @ + 1]
        /\ Goto(p, "commands") \/ Goto(p, "closeFailed")
        /\ UNCHANGED stage
     \/ /\ ran[p] = PlanLength
        /\ \/ stage' = [stage EXCEPT !.work = FALSE] /\ Goto(p, "emitPass")
           \/ Goto(p, "closeFailed") /\ UNCHANGED stage
        /\ UNCHANGED ran
  /\ UNCHANGED <<lock, mode, marker, journal, source, runs, recorded, chain,
                 accTemp, ptrTemps, pointer, commits, stops>>

CommandPlanCaptured(p, status) ==
  status = "PASS" => ran[p] = PlanLength

\* emit_terminal_run up to the seal: the run is built inside the container.
StageRun(p, status) ==
  /\ pc[p] = (IF status = "PASS" THEN "emitPass" ELSE "emitFail")
  /\ CommandPlanCaptured(p, status)
  /\ stage' = [stage EXCEPT !.run = TRUE]
  /\ Goto(p, IF status = "PASS" THEN "publishPass" ELSE "publishFail")
  /\ UNCHANGED <<lock, mode, ran, marker, journal, source, runs, recorded, chain,
                 accTemp, ptrTemps, pointer, commits, stops>>

\* The sealed run is moved to runs/ under its identity.  A check of a staged PASS
\* run that fails closes the attempt as failed.
PublishRun(p, status) ==
  /\ pc[p] = (IF status = "PASS" THEN "publishPass" ELSE "publishFail")
  /\ runs[journal] = "none"
  /\ \/ /\ runs' = [runs EXCEPT ![journal] = status]
        /\ recorded' = [recorded EXCEPT ![journal] = ran[p]]
        /\ stage' = [stage EXCEPT !.run = FALSE]
        /\ Goto(p, "cleanup")
     \/ /\ status = "PASS"
        /\ Goto(p, "closeFailed")
        /\ UNCHANGED <<runs, recorded, stage>>
  /\ UNCHANGED <<lock, mode, ran, marker, journal, source, chain,
                 accTemp, ptrTemps, pointer, commits, stops>>

\* Private work and a staged run are removed before the FAIL run is built.
CloseFailed(p) ==
  /\ pc[p] = "closeFailed"
  /\ CASE stage.work -> stage' = [stage EXCEPT !.work = FALSE] /\ UNCHANGED pc
       [] ~stage.work /\ stage.run -> stage' = [stage EXCEPT !.run = FALSE] /\ UNCHANGED pc
       [] OTHER -> Goto(p, "emitFail") /\ UNCHANGED stage
  /\ UNCHANGED <<lock, mode, ran, marker, journal, source, runs, recorded, chain,
                 accTemp, ptrTemps, pointer, commits, stops>>

\* The journal leaves the container only when nothing else is in it.
MoveJournal(p) ==
  /\ pc[p] = "cleanup"
  /\ CASE stage.work ->
            stage' = [stage EXCEPT !.work = FALSE] /\ UNCHANGED <<lock, pc, marker>>
       [] ~stage.work /\ ~stage.run /\ ~marker ->
            /\ marker' = TRUE
            /\ stage' = [stage EXCEPT !.dir = "bare"]
            /\ Goto(p, "removeStage")
            /\ UNCHANGED lock
       [] OTHER -> Leave(p) /\ UNCHANGED <<stage, marker>>
  /\ UNCHANGED <<mode, ran, journal, source, runs, recorded, chain,
                 accTemp, ptrTemps, pointer, commits, stops>>

\* Mutant: the journal of a passed run is dropped before its acceptance.
RemoveStage_NoAcceptance(p) ==
  /\ pc[p] = "removeStage"
  /\ stage' = NoStage
  /\ Goto(p, "finish")
  /\ UNCHANGED <<lock, mode, ran, marker, journal, source, runs, recorded, chain,
                 accTemp, ptrTemps, pointer, commits, stops>>

RemoveStage(p) ==
  /\ pc[p] = "removeStage"
  /\ stage' = NoStage
  /\ Goto(p, IF mode[p] = "fresh" /\ runs[journal] = "PASS" THEN "accept" ELSE "finish")
  /\ UNCHANGED <<lock, mode, ran, marker, journal, source, runs, recorded, chain,
                 accTemp, ptrTemps, pointer, commits, stops>>

\* publish_automatic_acceptance: the next sequence number, under a temporary name.
WriteAcceptance(p) ==
  /\ \/ /\ pc[p] = "accept" /\ accTemp = {}
        /\ accTemp' = {[run |-> journal, whole |-> FALSE]}
        /\ Goto(p, "fillAcceptance")
        /\ UNCHANGED chain
     \/ /\ pc[p] = "fillAcceptance"
        /\ accTemp' = {[run |-> journal, whole |-> TRUE]}
        /\ Goto(p, "installAcceptance")
        /\ UNCHANGED chain
     \/ /\ pc[p] = "installAcceptance"
        /\ accTemp' = {}
        /\ chain' = Append(chain, journal)
        /\ Goto(p, "select")
  /\ UNCHANGED <<lock, mode, ran, stage, marker, journal, source, runs, recorded,
                 ptrTemps, pointer, commits, stops>>

AfterSelection(p) ==
  CASE mode[p] = "temporary" -> "dropTemp"
    [] mode[p] = "container" -> "cleanup"
    [] OTHER -> "finish"

\* replace_pointer_atomically: only from the immediate predecessor, and nothing to
\* do when the pointer is there already.
ReplacePointer(p) ==
  /\ pc[p] = "select"
  /\ CASE pointer = Len(chain) ->
            Goto(p, AfterSelection(p)) /\ UNCHANGED <<lock, ptrTemps>>
       [] pointer = Len(chain) - 1 ->
            /\ ptrTemps' = Append(ptrTemps, [run |-> Last(chain), whole |-> FALSE])
            /\ Goto(p, "fillPointer")
            /\ UNCHANGED lock
       [] OTHER -> Leave(p) /\ UNCHANGED ptrTemps
  /\ UNCHANGED <<mode, ran, stage, marker, journal, source, runs, recorded, chain,
                 accTemp, pointer, commits, stops>>

InstallPointer(p) ==
  /\ \/ /\ pc[p] = "fillPointer"
        /\ ptrTemps' = [ptrTemps EXCEPT ![Len(ptrTemps)].whole = TRUE]
        /\ Goto(p, "installPointer")
        /\ UNCHANGED pointer
     \/ /\ pc[p] = "installPointer"
        /\ ptrTemps' = Front(ptrTemps)
        /\ pointer' = Len(chain)
        /\ Goto(p, AfterSelection(p))
  /\ UNCHANGED <<lock, mode, ran, stage, marker, journal, source, runs, recorded, chain,
                 accTemp, commits, stops>>

\* The journal is the last thing to go.
Finish(p) ==
  /\ pc[p] = "finish"
  /\ IF PublicationClosed
     THEN marker' = FALSE /\ journal' = NoRun
     ELSE UNCHANGED <<marker, journal>>
  /\ Leave(p)
  /\ UNCHANGED <<mode, ran, stage, source, runs, recorded, chain,
                 accTemp, ptrTemps, pointer, commits, stops>>

---------------------------------------------------------------------------
(* Around the command. *)

\* The process dies, or a file operation fails and the command returns.
Stop(p) ==
  /\ pc[p] # "idle" /\ stops < MaxStops
  /\ stops' = stops + 1
  /\ Goto(p, "idle")
  /\ lock' \in {Nobody, Abandoned}
  /\ UNCHANGED <<mode, ran, commits, disk>>

\* The owner commits what the command has left, once it says that it is closed.
CommitReceipt ==
  /\ lock \in {Nobody, Abandoned} /\ Closed
  /\ Published # CommittedRuns
  /\ commits' = Append(commits,
       [runs |-> Published \ CommittedRuns,
        acceptances |-> DOMAIN chain \ CommittedAcceptances,
        pointer |-> pointer])
  /\ UNCHANGED <<lock, stops, local, disk>>

Continue(p) ==
  \/ Preflight(p) \/ ValidatePrefix(p)
  \/ FinishAcceptanceTemp(p) \/ FinishPointerTemp(p) \/ DropPointerTemp(p)
  \/ RecoverAttempt(p) \/ DiscardPreIdentity(p)
  \/ AdmitAttempt(p) \/ WriteAttempt(p) \/ CreateWork(p) \/ Execute(p)
  \/ \E status \in {"PASS", "FAIL"} : StageRun(p, status) \/ PublishRun(p, status)
  \/ CloseFailed(p) \/ MoveJournal(p) \/ RemoveStage(p)
  \/ WriteAcceptance(p) \/ ReplacePointer(p) \/ InstallPointer(p) \/ Finish(p)

Next ==
  \/ \E p \in Procs : Acquire(p) \/ Continue(p) \/ Stop(p)
  \/ CommitReceipt

Spec == Init /\ [][Next]_vars

\* A command that was started runs on, and the owner repeats it while something is open.
RecoverySpec ==
  /\ Spec
  /\ \A p \in Procs : WF_vars(Continue(p))
  /\ WF_vars(\E p \in Procs : ~Closed /\ Acquire(p))

---------------------------------------------------------------------------
(* Properties. *)

\* The types hold, and the pointer falls behind the newest acceptance only while the
\* journal still names the run accepted last, so that an interrupted selection can
\* be told.
LaggingPointerIsJournalled ==
  /\ TypeOK
  /\ pointer # Len(chain) => pointer = Len(chain) - 1 /\ journal = Last(chain)
  /\ ptrTemps # <<>> \/ accTemp # {} => journal # NoRun

\* A closed namespace holds at most one receipt that is not committed, made from
\* the current commit: one commit settles it, and then it verifies.
OneCommitSettles ==
  /\ Closed => Cardinality(Published \ CommittedRuns) <= 1
  /\ Closed /\ Published = CommittedRuns =>
       /\ TerminalRunsValid(NoRun) /\ NamespaceCommitted
       /\ chain # <<>> => SelectedVerifies

Log == INSTANCE AcceptanceLog WITH
  verdict <- runs, accepted <- chain, selected <- pointer

\* Whatever interrupts the command: one verdict per run, an append-only chain of
\* passed runs, a pointer that goes forward along it.
ImplementsAcceptanceLog == Log!Spec

\* The states in which every later invocation refuses (p1a.rs:957, 1030, 1682).
NobodyRuns == lock \notin Procs
NeedsOwner ==
  /\ NobodyRuns
  /\ \/ StagingEntries > 1
     \/ Len(ptrTemps) > 1
     \/ ~TemporariesWhole
     \/ ~marker /\ (accTemp # {} \/ ptrTemps # <<>>)

\* What was interrupted is closed by repeating the command, or one of these states
\* has been reached.
InterruptedIsClosed == ~Closed ~> Closed \/ NeedsOwner

\* The comment at p1a.rs:469: the next invocation finishes it.
NextInvocationFinishes == ~Closed ~> Closed
=============================================================================
