-------------------------- MODULE QualificationProofs --------------------------
(***************************************************************************)
(* What the publication of qualification receipts keeps, for any number of *)
(* processes, runs, commands and interruptions: the verdicts, the chain    *)
(* and the pointer follow the acceptance log, and a closed namespace is    *)
(* one commit away from a verified one.                                    *)
(***************************************************************************)
EXTENDS Qualification, WellFoundedInduction, SequenceTheorems, FiniteSetTheorems, TLAPS

(* The holder of the mutex is the only process under way.                   *)
LockInv == \A p \in Procs : pc[p] # "idle" <=> lock = p

(* The journal is the file of the container or the finalization marker.     *)
DiskInv ==
  /\ journal # NoRun <=> marker \/ stage.dir = "attempt"
  /\ marker => stage.dir \in {"none", "bare"} /\ runs[journal] # "none"
  /\ stage.work \/ stage.run => stage.dir = "attempt"

(* Every run that passed is accepted, but perhaps the journal's.            *)
VerdictInv ==
  /\ \A r \in Runs : runs[r] = "PASS" => recorded[r] = PlanLength
  /\ \A r \in Runs : runs[r] = "PASS" => r = journal \/ r \in Accepted
  /\ \A r \in Accepted : runs[r] = "PASS"

ChainInv ==
  /\ \A m, n \in DOMAIN chain : chain[m] = chain[n] => m = n
  /\ journal \in Accepted => chain[Len(chain)] = journal
  /\ pointer = Len(chain) \/ (pointer = Len(chain) - 1 /\ journal \in Accepted)

(* Temporary files belong to the run of the journal.                        *)
TempInv ==
  /\ \A t \in accTemp : t.run = journal /\ runs[journal] = "PASS"
  /\ ptrTemps # <<>> => journal \in Accepted

(* Everything is committed but the files of run r, made from the last       *)
(* commit.                                                                  *)
SettledBut(r) ==
  /\ CommittedRuns = Published \ {r}
  /\ r # NoRun => source[r] = HeadCommit
  /\ CommittedAcceptances = {n \in DOMAIN chain : chain[n] # r}
  /\ r \in Accepted => chain[Len(chain)] = r
  /\ CommittedPointer = Len(chain) - (IF r \in Accepted THEN 1 ELSE 0)

CommitInv ==
  /\ \E r \in Runs \cup {NoRun} :
       SettledBut(r) /\ (stage.dir # "none" \/ marker => r = journal)
  /\ \A i \in DOMAIN commits :
       \E r \in CommittedRuns :
         /\ ReceiptScopeOf(i, r) /\ ReceiptParentOf(i, r)
         /\ r \in Accepted => commits[i].pointer \in DOMAIN chain
  /\ PointerHistoryMonotone

(* What the holder of the mutex knows at each step.                         *)
InContainer == ~marker /\ stage.dir = "attempt"
StepInv(p) ==
  /\ pc[p] \in {"preflight", "prefix", "acceptanceTemp", "pointerTemp", "discard", "admit",
                "attempt", "work", "commands", "emitPass", "publishPass"} => mode[p] = "fresh"
  /\ pc[p] = "recover" => mode[p] = "fresh" \/ marker
  /\ pc[p] = "dropTemp" => marker
  /\ pc[p] = "discard" => ~marker /\ stage.dir \in {"bare", "temp"}
  /\ pc[p] = "admit" => ~marker /\ stage.dir = "none"
  /\ pc[p] = "attempt" =>
       ~marker /\ stage.dir \in {"bare", "temp"} /\ Published # Runs
  /\ pc[p] \in {"work", "commands", "closeFailed", "emitPass", "emitFail",
                "publishPass", "publishFail"} => InContainer /\ runs[journal] = "none"
  /\ pc[p] \in {"emitPass", "publishPass"} => ran[p] = PlanLength
  /\ pc[p] \in {"cleanup", "removeStage"} =>
       /\ runs[journal] # "none"
       /\ mode[p] = "fresh" => journal \notin Accepted
       /\ mode[p] # "fresh" /\ runs[journal] = "PASS" => journal \in Accepted /\ pointer = Len(chain)
  /\ pc[p] = "cleanup" => InContainer
  /\ pc[p] = "removeStage" => marker
  /\ pc[p] \in {"accept", "fillAcceptance", "installAcceptance"} =>
       journal # NoRun /\ runs[journal] = "PASS" /\ journal \notin Accepted
         /\ mode[p] # "temporary"
  /\ pc[p] = "select" /\ mode[p] = "temporary" => ptrTemps # <<>>
  /\ pc[p] \in {"fillPointer", "installPointer"} /\ mode[p] = "temporary" => Len(ptrTemps) > 1
  /\ pc[p] \in {"select", "fillPointer", "installPointer"} => journal \in Accepted
  /\ pc[p] \in {"accept", "fillAcceptance", "installAcceptance",
                "select", "fillPointer", "installPointer"} =>
       IF mode[p] = "container" THEN InContainer ELSE marker
  /\ pc[p] \in {"fillPointer", "installPointer", "dropTemp"} => ptrTemps # <<>>
  /\ pc[p] = "finish" => /\ marker
                         /\ runs[journal] = "PASS" => journal \in Accepted /\ pointer = Len(chain)

PublicationInv ==
  /\ TypeOK /\ LockInv /\ DiskInv /\ VerdictInv /\ ChainInv /\ TempInv /\ CommitInv
  /\ \A p \in Procs : StepInv(p)
--------------------------------------------------------------------------------
(* A step of the holder, which goes on or gives the mutex up.               *)
GoesOn(p) == lock' = lock /\ \E s \in Steps \ {"idle"} : Goto(p, s)
GivesUp(p) == lock' \in {Nobody, Abandoned} /\ Goto(p, "idle")

LEMMA HolderStep ==
  ASSUME TypeOK, LockInv, NEW p \in Procs, pc[p] # "idle", GoesOn(p) \/ GivesUp(p)
  PROVE  /\ LockInv'
         /\ lock' \in Procs \cup {Nobody, Abandoned}
         /\ pc' \in [Procs -> Steps]
         /\ \A q \in Procs \ {p} : pc'[q] = "idle"
<1>1. lock = p /\ \A q \in Procs \ {p} : pc[q] = "idle"
  BY DEF LockInv
<1>2. "idle" \in Steps
  BY DEF Steps
<1>3. pc \in [Procs -> Steps] /\ lock \in Procs
  BY <1>1 DEF TypeOK
<1>4. CASE GoesOn(p)
  <2>1. PICK s \in Steps \ {"idle"} : pc' = [pc EXCEPT ![p] = s] /\ lock' = lock
    BY <1>4 DEF GoesOn, Goto
  <2> HIDE DEF Steps
  <2> QED BY <1>1, <1>3, <2>1 DEF LockInv
<1>5. CASE GivesUp(p)
  <2>1. pc' = [pc EXCEPT ![p] = "idle"] /\ lock' \in {Nobody, Abandoned}
    BY <1>5 DEF GivesUp, Goto
  <2> QED BY <1>1, <1>2, <1>3, <2>1, QualificationAssumption DEF LockInv
<1> QED BY <1>4, <1>5

LEMMA IdleKnowsNothing ==
  ASSUME NEW q \in Procs,
         \/ pc'[q] = "idle"
         \/ /\ pc'[q] \in {"preflight", "prefix", "acceptanceTemp", "pointerTemp", "recover"}
            /\ mode'[q] = "fresh"
  PROVE  StepInv(q)'
BY DEF StepInv

LEMMA Assembled ==
  ASSUME PublicationInv, NEW p \in Procs, pc[p] # "idle",
         GoesOn(p) \/ GivesUp(p),
         pc' \in [Procs -> Steps] /\ lock' \in Procs \cup {Nobody, Abandoned} => TypeOK',
         DiskInv', VerdictInv', ChainInv', TempInv', CommitInv',
         GoesOn(p) => StepInv(p)'
  PROVE  PublicationInv'
<1>1. /\ LockInv' /\ TypeOK'
      /\ \A q \in Procs \ {p} : pc'[q] = "idle"
  BY HolderStep DEF PublicationInv
<1>2. \A q \in Procs \ {p} : StepInv(q)'
  BY <1>1, IdleKnowsNothing
<1>3. StepInv(p)'
  <2>1. CASE GivesUp(p)
    <3>1. pc'[p] = "idle"
      BY <2>1 DEF GivesUp, Goto, PublicationInv, TypeOK
    <3> QED BY <3>1, IdleKnowsNothing
  <2> QED BY <2>1
<1> QED BY <1>1, <1>2, <1>3 DEF PublicationInv
LEMMA InitPublication == Init => PublicationInv
<1> SUFFICES ASSUME Init PROVE PublicationInv
  OBVIOUS
<1>1. TypeOK
  <2>1. <<>> \in Seq(Runs) /\ <<>> \in Seq(Temporary) /\ Len(<<>>) = 0
        /\ <<>> \in Seq([runs : SUBSET Runs, acceptances : SUBSET Nat, pointer : Nat])
    BY EmptySeq
  <2>2. pc \in [Procs -> Steps]
    BY DEF Init, Steps
  <2>3. 0 \in 0 .. PlanLength /\ 0 \in 0 .. MaxStops
    BY QualificationAssumption
  <2>4. /\ mode \in [Procs -> {"fresh", "marker", "container", "temporary"}]
        /\ ran \in [Procs -> 0 .. PlanLength]
        /\ source \in [Runs -> Nat] /\ runs \in [Runs -> {"none", "PASS", "FAIL"}]
        /\ recorded \in [Runs -> 0 .. PlanLength]
    BY <2>3 DEF Init
  <2>5. pointer \in 0 .. Len(chain)
    BY <2>1 DEF Init
  <2> QED BY <2>1, <2>2, <2>3, <2>4, <2>5 DEF Init, TypeOK, NoStage
<1>2. Published = {} /\ Accepted = {} /\ CommittedRuns = {} /\ CommittedAcceptances = {}
      /\ CommittedPointer = 0 /\ DOMAIN chain = {} /\ DOMAIN commits = {} /\ Len(chain) = 0
  <2>1. DOMAIN <<>> = {} /\ Len(<<>>) = 0
    OBVIOUS
  <2>2. chain = <<>> /\ commits = <<>> /\ \A r \in Runs : runs[r] = "none"
    BY DEF Init
  <2> QED BY <2>1, <2>2 DEF Published, Accepted, ToSet, CommittedRuns, CommittedAcceptances,
                        CommittedPointer
<1>3. SettledBut(NoRun)
  <2>1. CommittedPointer = Len(chain) - (IF NoRun \in Accepted THEN 1 ELSE 0)
    <3>1. (IF NoRun \in Accepted THEN 1 ELSE 0) = 0
      BY <1>2
    <3>2. CommittedPointer = 0 /\ Len(chain) = 0 /\ 0 = 0 - 0
      BY <1>2
    <3> QED BY <3>1, <3>2
  <2>2. CommittedAcceptances = {n \in DOMAIN chain : chain[n] # NoRun}
    BY <1>2
  <2> QED BY <1>2, <2>1, <2>2 DEF SettledBut
<1>4. CommitInv
  BY <1>2, <1>3 DEF CommitInv, Init, NoStage, PointerHistoryMonotone
<1> QED
  BY <1>1, <1>2, <1>4, QualificationAssumption
     DEF Init, PublicationInv, LockInv, DiskInv, VerdictInv, ChainInv, TempInv, StepInv, NoStage

(* The commits stand while the runs, their sources and the chain do, if the *)
(* run left open is still the journal's.                                    *)
LEMMA CommitsStand ==
  ASSUME CommitInv, UNCHANGED <<runs, source, chain, commits>>,
         NEW r \in Runs \cup {NoRun}, SettledBut(r),
         stage'.dir # "none" \/ marker' => r = journal'
  PROVE  CommitInv'
<1>1. /\ runs' = runs /\ source' = source /\ chain' = chain /\ commits' = commits
  OBVIOUS
<1>2. /\ CommittedRuns' = CommittedRuns /\ Published' = Published
      /\ CommittedAcceptances' = CommittedAcceptances
      /\ CommittedPointer' = CommittedPointer
      /\ Accepted' = Accepted /\ HeadCommit' = HeadCommit
  BY <1>1 DEF CommittedRuns, Published, HeadCommit, CommittedAcceptances, Accepted,
              CommittedPointer
<1>3. SettledBut(r)'
  BY <1>1, <1>2 DEF SettledBut
<1>4. \A i, q : /\ ReceiptScopeOf(i, q)' <=> ReceiptScopeOf(i, q)
                /\ ReceiptParentOf(i, q)' <=> ReceiptParentOf(i, q)
  BY <1>1, <1>2 DEF ReceiptScopeOf, ReceiptParentOf
<1>5. PointerHistoryMonotone'
  BY <1>1 DEF CommitInv, PointerHistoryMonotone
<1>6. \A i \in DOMAIN commits' :
        \E q \in CommittedRuns' :
          /\ ReceiptScopeOf(i, q)' /\ ReceiptParentOf(i, q)'
          /\ q \in Accepted' => commits'[i].pointer \in DOMAIN chain'
  BY <1>1, <1>2, <1>4 DEF CommitInv
<1> QED BY <1>3, <1>5, <1>6 DEF CommitInv

LEMMA DiskKept ==
  ASSUME PublicationInv, UNCHANGED <<disk, commits>>
  PROVE  DiskInv' /\ VerdictInv' /\ ChainInv' /\ TempInv' /\ CommitInv'
<1> USE DEF PublicationInv, disk
<1>1. DiskInv' /\ TempInv'
  BY DEF DiskInv, TempInv, Accepted
<1>2. VerdictInv' /\ ChainInv'
  BY DEF VerdictInv, ChainInv, Accepted
<1>3. CommitInv'
  <2>1. CommitInv /\ UNCHANGED <<runs, source, chain, commits, stage, marker, journal>>
    OBVIOUS
  <2>2. PICK r \in Runs \cup {NoRun} :
          SettledBut(r) /\ (stage.dir # "none" \/ marker => r = journal)
    BY <2>1 DEF CommitInv
  <2> QED BY <2>1, <2>2, CommitsStand
<1> QED BY <1>1, <1>2, <1>3

(* A step that writes nothing but where the holder is.                      *)
LEMMA QuietStep ==
  ASSUME PublicationInv, NEW p \in Procs, pc[p] # "idle",
         GoesOn(p) \/ GivesUp(p), UNCHANGED <<disk, commits>>,
         ran' \in [Procs -> 0 .. PlanLength],
         mode' \in [Procs -> {"fresh", "marker", "container", "temporary"}],
         stops' \in 0 .. MaxStops,
         GoesOn(p) => StepInv(p)'
  PROVE  PublicationInv'
<1>1. pc' \in [Procs -> Steps] /\ lock' \in Procs \cup {Nobody, Abandoned} => TypeOK'
  BY DEF PublicationInv, TypeOK, disk
<1> QED BY <1>1, DiskKept, Assembled
--------------------------------------------------------------------------------
LEMMA Went ==
  ASSUME TypeOK, NEW p \in Procs, NEW s \in Steps \ {"idle"}, Goto(p, s)
  PROVE  pc'[p] = s /\ (lock' = lock => GoesOn(p))
BY DEF TypeOK, Goto, GoesOn

LEMMA RefuseStep ==
  ASSUME PublicationInv, NEW p \in Procs, pc[p] # "idle", Refuse(p)
  PROVE  PublicationInv'
<1>1. GivesUp(p) /\ ~GoesOn(p)
  BY DEF Refuse, Leave, GivesUp, GoesOn, Goto, PublicationInv, TypeOK
<1>2. /\ UNCHANGED <<disk, commits>> /\ ran' = ran /\ mode' = mode /\ stops' = stops
      /\ TypeOK
  BY DEF Refuse, PublicationInv
<1> QED BY <1>1, <1>2, QuietStep DEF TypeOK

LEMMA StopStep ==
  ASSUME PublicationInv, NEW p \in Procs, Stop(p) PROVE PublicationInv'
<1>1. GivesUp(p) /\ ~GoesOn(p) /\ pc[p] # "idle"
  BY DEF Stop, GivesUp, GoesOn, Goto, PublicationInv, TypeOK
<1>2. /\ UNCHANGED <<disk, commits>> /\ ran' = ran /\ mode' = mode /\ stops' = stops + 1
      /\ stops < MaxStops /\ TypeOK
  BY DEF Stop, PublicationInv
<1>3. stops' \in 0 .. MaxStops
  BY <1>2, QualificationAssumption DEF TypeOK
<1> QED BY <1>1, <1>2, <1>3, QuietStep DEF TypeOK

(* A quiet step that goes on needs only its knowledge shown.                *)
LEMMA QuietAdvance ==
  ASSUME PublicationInv, NEW p \in Procs, pc[p] # "idle",
         NEW s \in Steps \ {"idle"}, Goto(p, s), lock' = lock,
         UNCHANGED <<disk, commits>>, stops' = stops,
         ran' \in [Procs -> 0 .. PlanLength],
         mode' \in [Procs -> {"fresh", "marker", "container", "temporary"}],
         pc'[p] = s => StepInv(p)'
  PROVE  PublicationInv'
<1>1. pc'[p] = s /\ GoesOn(p)
  BY Went DEF PublicationInv
<1>2. stops' \in 0 .. MaxStops
  BY DEF PublicationInv, TypeOK
<1> QED BY <1>1, <1>2, QuietStep

(* Until an attempt is closed or a journal is found, the command is fresh.  *)
LEMMA Fresh ==
  ASSUME PublicationInv, NEW p \in Procs,
         \/ pc[p] \in {"preflight", "prefix", "acceptanceTemp", "pointerTemp", "discard", "admit",
                       "attempt", "work", "commands", "emitPass", "publishPass"}
         \/ pc[p] = "recover" /\ ~marker
  PROVE  mode[p] = "fresh"
BY DEF PublicationInv, StepInv

LEMMA PreflightStep ==
  ASSUME PublicationInv, NEW p \in Procs, Preflight(p) PROVE PublicationInv'
<1>1. pc[p] = "preflight" /\ "prefix" \in Steps \ {"idle"}
  BY DEF Preflight, Steps
<1>2. ran \in [Procs -> 0 .. PlanLength]
      /\ mode \in [Procs -> {"fresh", "marker", "container", "temporary"}]
  BY DEF PublicationInv, TypeOK
<1>3. CASE Refuse(p)
  BY <1>1, <1>3, RefuseStep
<1>4. CASE Goto(p, "prefix") /\ UNCHANGED <<lock, mode, ran, commits, stops, disk>>
  BY <1>1, <1>2, <1>4, QuietAdvance, IdleKnowsNothing, Fresh
<1> QED BY <1>3, <1>4 DEF Preflight

LEMMA ValidatePrefixStep ==
  ASSUME PublicationInv, NEW p \in Procs, ValidatePrefix(p) PROVE PublicationInv'
<1>1. pc[p] = "prefix" /\ "acceptanceTemp" \in Steps \ {"idle"}
  BY DEF ValidatePrefix, Steps
<1>2. ran \in [Procs -> 0 .. PlanLength]
      /\ mode \in [Procs -> {"fresh", "marker", "container", "temporary"}]
  BY DEF PublicationInv, TypeOK
<1>3. CASE Refuse(p)
  BY <1>1, <1>3, RefuseStep
<1>4. CASE Goto(p, "acceptanceTemp") /\ UNCHANGED <<lock, mode, ran, commits, stops, disk>>
  BY <1>1, <1>2, <1>4, QuietAdvance, IdleKnowsNothing, Fresh
<1> QED BY <1>3, <1>4 DEF ValidatePrefix

LEMMA FinishPointerTempStep ==
  ASSUME PublicationInv, NEW p \in Procs, FinishPointerTemp(p) PROVE PublicationInv'
<1>1. /\ pc[p] = "pointerTemp" /\ "recover" \in Steps \ {"idle"} /\ "select" \in Steps \ {"idle"}
      /\ UNCHANGED <<ran, commits, stops, disk>>
  BY DEF FinishPointerTemp, Steps
<1>2. /\ ran \in [Procs -> 0 .. PlanLength]
      /\ mode \in [Procs -> {"fresh", "marker", "container", "temporary"}]
  BY DEF PublicationInv, TypeOK
<1>3. CASE Leave(p) /\ UNCHANGED mode
  <2>1. Refuse(p)
    BY <1>1, <1>3 DEF Refuse
  <2> QED BY <1>1, <2>1, RefuseStep
<1>4. CASE Goto(p, "recover") /\ UNCHANGED <<lock, mode>>
  BY <1>1, <1>2, <1>4, QuietAdvance, IdleKnowsNothing, Fresh
<1>5. CASE /\ ptrTemps # <<>> /\ FinalizationJournalOf(Head(ptrTemps))
           /\ mode' = [mode EXCEPT ![p] = "temporary"]
           /\ Goto(p, "select") /\ UNCHANGED lock
  <2>1. mode' \in [Procs -> {"fresh", "marker", "container", "temporary"}]
        /\ mode'[p] = "temporary"
    BY <1>2, <1>5
  <2>2. journal' \in Accepted' /\ marker' /\ ptrTemps' # <<>>
    BY <1>1, <1>5 DEF FinalizationJournalOf, PublicationInv, TempInv, Accepted, disk
  <2>3. pc'[p] = "select" => StepInv(p)'
    BY <2>1, <2>2 DEF StepInv
  <2> QED BY <1>1, <1>2, <1>5, <2>1, <2>3, QuietAdvance
<1> QED BY <1>3, <1>4, <1>5 DEF FinishPointerTemp
LEMMA RecoverPublishedStep ==
  ASSUME PublicationInv, NEW p \in Procs, pc[p] = "recover", NEW kind \in {"marker", "container"},
         RecoverPublished(p, kind), journal # NoRun, runs[journal] # "none",
         IF kind = "container" THEN InContainer ELSE marker
  PROVE  PublicationInv'
<1>1. /\ {"cleanup", "finish", "select", "accept"} \subseteq Steps \ {"idle"}
      /\ UNCHANGED <<lock, ran, commits, stops, disk>>
      /\ mode' = [mode EXCEPT ![p] = kind]
  BY DEF RecoverPublished, Steps
<1>2. /\ ran \in [Procs -> 0 .. PlanLength]
      /\ mode \in [Procs -> {"fresh", "marker", "container", "temporary"}]
      /\ journal \in Runs /\ runs \in [Runs -> {"none", "PASS", "FAIL"}]
  BY DEF PublicationInv, TypeOK
<1>3. /\ mode'[p] = kind
      /\ mode' \in [Procs -> {"fresh", "marker", "container", "temporary"}]
  BY <1>1, <1>2
<1>4. /\ journal' = journal /\ runs' = runs /\ Accepted' = Accepted /\ marker' = marker
      /\ InContainer' <=> InContainer
  BY <1>1 DEF disk, Accepted, InContainer
<1>5. CASE runs[journal] = "FAIL" /\ kind = "container" /\ Goto(p, "cleanup")
  <2>1. pc'[p] = "cleanup" => StepInv(p)'
    BY <1>3, <1>4, <1>5 DEF StepInv
  <2> QED BY <1>1, <1>2, <1>3, <1>5, <2>1, QuietAdvance
<1>6. CASE runs[journal] = "FAIL" /\ kind = "marker" /\ Goto(p, "finish")
  <2>1. pc'[p] = "finish" => StepInv(p)'
    BY <1>3, <1>4, <1>6 DEF StepInv
  <2> QED BY <1>1, <1>2, <1>3, <1>6, <2>1, QuietAdvance
<1>7. CASE journal \in Accepted /\ Goto(p, "select")
  <2>1. pc'[p] = "select" => StepInv(p)'
    BY <1>3, <1>4, <1>7 DEF StepInv
  <2> QED BY <1>1, <1>2, <1>3, <1>7, <2>1, QuietAdvance
<1>8. CASE runs[journal] = "PASS" /\ journal \notin Accepted /\ Goto(p, "accept")
  <2>1. pc'[p] = "accept" => StepInv(p)'
    BY <1>3, <1>4, <1>8 DEF StepInv
  <2> QED BY <1>1, <1>2, <1>3, <1>8, <2>1, QuietAdvance
<1>9. runs[journal] \in {"PASS", "FAIL"}
  BY <1>2
<1> QED BY <1>5, <1>6, <1>7, <1>8, <1>9 DEF RecoverPublished

LEMMA RecoverAttemptStep ==
  ASSUME PublicationInv, NEW p \in Procs, RecoverAttempt(p) PROVE PublicationInv'
<1>1. pc[p] = "recover" /\ {"admit", "discard", "closeFailed"} \subseteq Steps \ {"idle"}
  BY DEF RecoverAttempt, Steps
<1>2. ran \in [Procs -> 0 .. PlanLength]
      /\ mode \in [Procs -> {"fresh", "marker", "container", "temporary"}]
      /\ DiskInv
  BY DEF PublicationInv, TypeOK
<1>3. CASE StagingEntries = 0 /\ Goto(p, "admit")
           /\ UNCHANGED <<lock, mode, ran, commits, stops, disk>>
  <2>1. ~marker' /\ stage'.dir = "none" /\ mode'[p] = "fresh"
    BY <1>1, <1>3, Fresh DEF StagingEntries, disk
  <2>2. pc'[p] = "admit" => StepInv(p)'
    BY <2>1 DEF StepInv
  <2> QED BY <1>1, <1>2, <1>3, <2>2, QuietAdvance
<1>4. CASE marker /\ RecoverPublished(p, "marker")
  <2>1. journal # NoRun /\ runs[journal] # "none"
    BY <1>2, <1>4 DEF DiskInv
  <2> QED BY <1>1, <1>4, <2>1, RecoverPublishedStep
<1>5. CASE ~marker /\ stage.dir \in {"bare", "temp"} /\ Goto(p, "discard")
           /\ UNCHANGED <<lock, mode, ran, commits, stops, disk>>
  <2>1. ~marker' /\ stage'.dir \in {"bare", "temp"} /\ mode'[p] = "fresh"
    BY <1>1, <1>5, Fresh DEF disk
  <2>2. pc'[p] = "discard" => StepInv(p)'
    BY <2>1 DEF StepInv
  <2> QED BY <1>1, <1>2, <1>5, <2>2, QuietAdvance
<1>6. CASE ~marker /\ stage.dir = "attempt" /\ runs[journal] # "none"
           /\ RecoverPublished(p, "container")
  <2>1. journal # NoRun /\ InContainer
    BY <1>2, <1>6 DEF DiskInv, InContainer
  <2> QED BY <1>1, <1>6, <2>1, RecoverPublishedStep
<1>7. CASE ~marker /\ stage.dir = "attempt" /\ runs[journal] = "none"
           /\ Goto(p, "closeFailed") /\ UNCHANGED <<lock, mode, ran, commits, stops, disk>>
  <2>1. InContainer' /\ runs'[journal'] = "none"
    BY <1>7 DEF disk, InContainer
  <2>2. pc'[p] = "closeFailed" => StepInv(p)'
    BY <2>1 DEF StepInv
  <2> QED BY <1>1, <1>2, <1>7, <2>2, QuietAdvance
<1> QED BY <1>3, <1>4, <1>5, <1>6, <1>7 DEF RecoverAttempt

--------------------------------------------------------------------------------
(* Steps that touch the stage container and the marker only.                *)
LEMMA StageStep ==
  ASSUME PublicationInv, NEW p \in Procs, pc[p] # "idle",
         GoesOn(p) \/ GivesUp(p),
         UNCHANGED <<mode, journal, source, runs, recorded, chain, accTemp, ptrTemps, pointer,
                     commits, stops>>,
         ran' \in [Procs -> 0 .. PlanLength],
         marker' \in BOOLEAN,
         stage' \in [dir : {"none", "bare", "temp", "attempt"}, work : BOOLEAN, run : BOOLEAN],
         DiskInv',
         (stage'.dir # "none" \/ marker') /\ ~(stage.dir # "none" \/ marker)
             => SettledBut(journal),
         GoesOn(p) => StepInv(p)'
  PROVE  PublicationInv'
<1>1. pc' \in [Procs -> Steps] /\ lock' \in Procs \cup {Nobody, Abandoned} => TypeOK'
  BY DEF PublicationInv, TypeOK
<1>2. VerdictInv' /\ ChainInv' /\ TempInv'
  BY DEF PublicationInv, VerdictInv, ChainInv, TempInv, Accepted
<1>3. CommitInv'
  <2>1. CommitInv /\ UNCHANGED <<runs, source, chain, commits>> /\ journal' = journal
        /\ journal \in Runs \cup {NoRun}
    BY DEF PublicationInv, TypeOK
  <2>2. PICK r \in Runs \cup {NoRun} :
          SettledBut(r) /\ (stage.dir # "none" \/ marker => r = journal)
    BY <2>1 DEF CommitInv
  <2>3. CASE stage'.dir # "none" \/ marker' => stage.dir # "none" \/ marker
    BY <2>1, <2>2, <2>3, CommitsStand
  <2>4. CASE (stage'.dir # "none" \/ marker') /\ ~(stage.dir # "none" \/ marker)
    BY <2>1, <2>4, CommitsStand
  <2> QED BY <2>3, <2>4
<1> QED BY <1>1, <1>2, <1>3, Assembled
LEMMA ChainFacts ==
  ASSUME TypeOK
  PROVE  /\ Len(chain) \in Nat /\ DOMAIN chain = 1 .. Len(chain)
         /\ Accepted \subseteq Runs /\ NoRun \notin Runs /\ NoRun \notin Accepted
         /\ \A n \in DOMAIN chain : chain[n] \in Accepted /\ chain[n] \in Runs
         /\ Len(commits) \in Nat /\ DOMAIN commits = 1 .. Len(commits)
<1>1. Len(chain) \in Nat /\ chain \in [1 .. Len(chain) -> Runs] /\ DOMAIN chain = 1 .. Len(chain)
  BY LenProperties DEF TypeOK
<1>2. Len(commits) \in Nat /\ DOMAIN commits = 1 .. Len(commits)
  BY LenProperties DEF TypeOK
<1>3. NoRun \notin Runs
  BY QualificationAssumption DEF Runs, NoRun
<1> QED BY <1>1, <1>2, <1>3 DEF Accepted, ToSet

LEMMA AllSettled ==
  ASSUME PublicationInv, Published = CommittedRuns \/ Published = {}
  PROVE  SettledBut(NoRun)
<1>1. TypeOK /\ CommitInv /\ VerdictInv
  BY DEF PublicationInv
<1>2. PICK r \in Runs \cup {NoRun} : SettledBut(r)
  BY <1>1 DEF CommitInv
<1>3. r \notin Published /\ CommittedRuns = Published /\ NoRun \notin Published
  BY <1>1, <1>2, ChainFacts DEF SettledBut, Published
<1>4. r \notin Accepted /\ NoRun \notin Accepted
  BY <1>1, <1>3, ChainFacts DEF VerdictInv, Published
<1>5. \A n \in DOMAIN chain : chain[n] # r /\ chain[n] # NoRun
  BY <1>1, <1>4, ChainFacts
<1>6. CommittedAcceptances = {n \in DOMAIN chain : chain[n] # NoRun}
  BY <1>2, <1>5 DEF SettledBut
<1>7. (IF r \in Accepted THEN 1 ELSE 0) = (IF NoRun \in Accepted THEN 1 ELSE 0)
  BY <1>4
<1>8. CommittedPointer = Len(chain) - (IF NoRun \in Accepted THEN 1 ELSE 0)
  BY <1>2, <1>7 DEF SettledBut
<1> QED BY <1>3, <1>4, <1>6, <1>8 DEF SettledBut

LEMMA DiscardPreIdentityStep ==
  ASSUME PublicationInv, NEW p \in Procs, DiscardPreIdentity(p) PROVE PublicationInv'
<1>1. /\ pc[p] = "discard" /\ "admit" \in Steps \ {"idle"} /\ "discard" \in Steps \ {"idle"}
      /\ UNCHANGED <<lock, mode, ran, marker, journal, source, runs, recorded, chain,
                     accTemp, ptrTemps, pointer, commits, stops>>
  BY DEF DiscardPreIdentity, Steps
<1>2. /\ TypeOK /\ DiskInv /\ ~marker /\ stage.dir \in {"bare", "temp"}
      /\ ran \in [Procs -> 0 .. PlanLength] /\ marker \in BOOLEAN
      /\ pc \in [Procs -> Steps]
  BY <1>1 DEF PublicationInv, StepInv, TypeOK
<1>3. CASE stage' = [stage EXCEPT !.dir = "bare"] /\ pc' = pc
  <2>1. /\ stage' \in [dir : {"none", "bare", "temp", "attempt"}, work : BOOLEAN, run : BOOLEAN]
        /\ stage'.dir = "bare" /\ stage'.work = stage.work /\ stage'.run = stage.run
    BY <1>2, <1>3 DEF TypeOK
  <2>2. pc' = [pc EXCEPT ![p] = "discard"] /\ pc'[p] = "discard"
    BY <1>1, <1>2, <1>3
  <2>3. GoesOn(p)
    BY <1>1, <2>2 DEF GoesOn, Goto
  <2>4. DiskInv' /\ StepInv(p)'
    BY <1>1, <1>2, <2>1, <2>2, Fresh DEF DiskInv, StepInv
  <2> QED BY <1>1, <1>2, <2>1, <2>3, <2>4, StageStep
<1>4. CASE stage' = NoStage /\ Goto(p, "admit")
  <2>1. /\ stage' \in [dir : {"none", "bare", "temp", "attempt"}, work : BOOLEAN, run : BOOLEAN]
        /\ stage'.dir = "none" /\ ~stage'.work /\ ~stage'.run
    BY <1>4 DEF NoStage
  <2>2. pc'[p] = "admit" /\ GoesOn(p)
    BY <1>1, <1>2, <1>4, Went
  <2>3. DiskInv' /\ StepInv(p)'
    BY <1>1, <1>2, <2>1, <2>2, Fresh DEF DiskInv, StepInv
  <2> QED BY <1>1, <1>2, <2>1, <2>2, <2>3, StageStep
<1> QED BY <1>3, <1>4 DEF DiscardPreIdentity

LEMMA AdmitAttemptStep ==
  ASSUME PublicationInv, NEW p \in Procs, AdmitAttempt(p) PROVE PublicationInv'
<1>1. /\ pc[p] = "admit" /\ "attempt" \in Steps \ {"idle"}
      /\ UNCHANGED <<mode, ran, marker, journal, source, runs, recorded, chain,
                     accTemp, ptrTemps, pointer, commits, stops>>
  BY DEF AdmitAttempt, Steps
<1>2. /\ TypeOK /\ DiskInv /\ ~marker /\ stage.dir = "none" /\ journal = NoRun
      /\ ran \in [Procs -> 0 .. PlanLength]
  BY <1>1 DEF PublicationInv, StepInv, TypeOK, DiskInv
<1>3. CASE Leave(p) /\ UNCHANGED stage
  <2>1. Refuse(p)
    BY <1>1, <1>3 DEF Refuse, disk
  <2> QED BY <1>1, <2>1, RefuseStep
<1>4. CASE /\ Published # {} => NamespaceCommitted
           /\ Published # Runs
           /\ stage' = [stage EXCEPT !.dir = "bare"]
           /\ Goto(p, "attempt") /\ lock' = lock
  <2>1. /\ stage' \in [dir : {"none", "bare", "temp", "attempt"}, work : BOOLEAN, run : BOOLEAN]
        /\ stage'.dir = "bare" /\ stage'.work = stage.work /\ stage'.run = stage.run
    BY <1>2, <1>4 DEF TypeOK
  <2>2. pc'[p] = "attempt" /\ GoesOn(p) /\ Published' = Published
    BY <1>1, <1>2, <1>4, Went DEF Published
  <2>3. DiskInv' /\ StepInv(p)'
    <3>1. DiskInv'
      BY <1>1, <1>2, <2>1 DEF DiskInv
    <3>2. Published' # Runs /\ ~marker' /\ stage'.dir = "bare" /\ mode'[p] = "fresh"
      BY <1>1, <1>2, <1>4, <2>1, <2>2, Fresh
    <3> QED BY <2>2, <3>1, <3>2 DEF StepInv
  <2>4. SettledBut(journal)
    BY <1>2, <1>4, AllSettled DEF NamespaceCommitted
  <2>5. marker' \in BOOLEAN
    BY <1>1, <1>2 DEF TypeOK
  <2> QED BY <1>1, <1>2, <2>1, <2>2, <2>3, <2>4, <2>5, StageStep
<1> QED BY <1>3, <1>4 DEF AdmitAttempt
(* The attempt goes on in its container.                                    *)
LEMMA ContainerStep ==
  ASSUME PublicationInv, NEW p \in Procs, InContainer, pc[p] # "idle",
         NEW s \in Steps \ {"idle"}, Goto(p, s), lock' = lock,
         UNCHANGED <<mode, marker, journal, source, runs, recorded, chain, accTemp, ptrTemps,
                     pointer, commits, stops>>,
         ran' \in [Procs -> 0 .. PlanLength],
         stage' \in [dir : {"attempt"}, work : BOOLEAN, run : BOOLEAN],
         s \in {"commands", "closeFailed", "emitPass", "emitFail", "publishPass", "publishFail"},
         s \in {"emitPass", "publishPass"} => ran'[p] = PlanLength,
         s \in {"commands", "emitPass", "publishPass"} => mode[p] = "fresh",
         runs[journal] = "none"
  PROVE  PublicationInv'
<1>1. TypeOK /\ DiskInv /\ marker \in BOOLEAN
  BY DEF PublicationInv, TypeOK
<1>2. pc'[p] = s /\ GoesOn(p)
  BY <1>1, Went
<1>3. stage'.dir = "attempt" /\ stage.dir = "attempt" /\ ~marker /\ ~marker'
  BY DEF InContainer
<1>4. stage' \in [dir : {"none", "bare", "temp", "attempt"}, work : BOOLEAN, run : BOOLEAN]
  OBVIOUS
<1>5. DiskInv'
  BY <1>1, <1>3 DEF DiskInv
<1>6. StepInv(p)'
  BY <1>2, <1>3 DEF StepInv, InContainer
<1> QED BY <1>1, <1>2, <1>3, <1>4, <1>5, <1>6, StageStep

(* What is known in the container.                                          *)
LEMMA InsideContainer ==
  ASSUME PublicationInv, NEW p \in Procs,
         pc[p] \in {"work", "commands", "closeFailed", "emitPass", "emitFail",
                    "publishPass", "publishFail"}
  PROVE  /\ InContainer /\ runs[journal] = "none" /\ journal \in Runs
         /\ pc[p] # "idle" /\ ran \in [Procs -> 0 .. PlanLength]
         /\ stage \in [dir : {"attempt"}, work : BOOLEAN, run : BOOLEAN]
         /\ pc[p] \in {"emitPass", "publishPass"} => ran[p] = PlanLength
         /\ pc[p] \in {"work", "commands", "emitPass", "publishPass"} => mode[p] = "fresh"
<1>1. TypeOK /\ DiskInv /\ StepInv(p)
  BY DEF PublicationInv
<1>2. InContainer /\ runs[journal] = "none"
      /\ (pc[p] \in {"emitPass", "publishPass"} => ran[p] = PlanLength)
  BY <1>1 DEF StepInv
<1>3. stage.dir = "attempt" /\ journal \in Runs
  BY <1>1, <1>2 DEF InContainer, DiskInv, TypeOK
<1> QED BY <1>1, <1>2, <1>3, Fresh DEF TypeOK

LEMMA CreateWorkStep ==
  ASSUME PublicationInv, NEW p \in Procs, CreateWork(p) PROVE PublicationInv'
<1>1. pc[p] = "work" /\ stage' = [stage EXCEPT !.work = TRUE] /\ Goto(p, "commands")
      /\ UNCHANGED <<lock, mode, ran, marker, journal, source, runs, recorded, chain,
                     accTemp, ptrTemps, pointer, commits, stops>>
      /\ "commands" \in Steps \ {"idle"}
  BY DEF CreateWork, Steps
<1>2. stage' \in [dir : {"attempt"}, work : BOOLEAN, run : BOOLEAN]
  BY <1>1, InsideContainer
<1> QED BY <1>1, <1>2, InsideContainer, ContainerStep

LEMMA ExecuteStep ==
  ASSUME PublicationInv, NEW p \in Procs, Execute(p) PROVE PublicationInv'
<1>1. /\ pc[p] = "commands"
      /\ {"commands", "closeFailed", "emitPass"} \subseteq Steps \ {"idle"}
      /\ UNCHANGED <<lock, mode, marker, journal, source, runs, recorded, chain,
                     accTemp, ptrTemps, pointer, commits, stops>>
  BY DEF Execute, Steps
<1>2. CASE /\ ran[p] < PlanLength /\ ran' = [ran EXCEPT ![p] = @ + 1] /\ stage' = stage
           /\ Goto(p, "commands") \/ Goto(p, "closeFailed")
  <2>1. ran[p] + 1 \in 0 .. PlanLength
    BY <1>1, <1>2, InsideContainer, QualificationAssumption
  <2>2. ran' \in [Procs -> 0 .. PlanLength]
    BY <1>1, <1>2, <2>1, InsideContainer
  <2> QED BY <1>1, <1>2, <2>2, InsideContainer, ContainerStep
<1>3. CASE /\ ran[p] = PlanLength /\ ran' = ran
           /\ stage' = [stage EXCEPT !.work = FALSE] /\ Goto(p, "emitPass")
  <2>1. stage' \in [dir : {"attempt"}, work : BOOLEAN, run : BOOLEAN]
    BY <1>1, <1>3, InsideContainer
  <2> QED BY <1>1, <1>3, <2>1, InsideContainer, ContainerStep
<1>4. CASE ran' = ran /\ Goto(p, "closeFailed") /\ stage' = stage
  BY <1>1, <1>4, InsideContainer, ContainerStep
<1> QED BY <1>2, <1>3, <1>4 DEF Execute

LEMMA StageRunStep ==
  ASSUME PublicationInv, NEW p \in Procs, NEW status \in {"PASS", "FAIL"}, StageRun(p, status)
  PROVE  PublicationInv'
<1>1. /\ pc[p] = (IF status = "PASS" THEN "emitPass" ELSE "emitFail")
      /\ stage' = [stage EXCEPT !.run = TRUE]
      /\ Goto(p, IF status = "PASS" THEN "publishPass" ELSE "publishFail")
      /\ {"publishPass", "publishFail"} \subseteq Steps \ {"idle"}
      /\ UNCHANGED <<lock, mode, ran, marker, journal, source, runs, recorded, chain,
                     accTemp, ptrTemps, pointer, commits, stops>>
  BY DEF StageRun, Steps
<1>2. stage' \in [dir : {"attempt"}, work : BOOLEAN, run : BOOLEAN]
  BY <1>1, InsideContainer
<1> QED BY <1>1, <1>2, InsideContainer, ContainerStep

LEMMA CloseFailedStep ==
  ASSUME PublicationInv, NEW p \in Procs, CloseFailed(p) PROVE PublicationInv'
<1>1. /\ pc[p] = "closeFailed" /\ {"closeFailed", "emitFail"} \subseteq Steps \ {"idle"}
      /\ UNCHANGED <<lock, mode, ran, marker, journal, source, runs, recorded, chain,
                     accTemp, ptrTemps, pointer, commits, stops>>
  BY DEF CloseFailed, Steps
<1>2. pc' = pc => Goto(p, "closeFailed")
  BY <1>1 DEF Goto, PublicationInv, TypeOK
<1>3. CASE (stage' = [stage EXCEPT !.work = FALSE] \/ stage' = [stage EXCEPT !.run = FALSE])
           /\ pc' = pc
  <2>1. stage' \in [dir : {"attempt"}, work : BOOLEAN, run : BOOLEAN]
    BY <1>1, <1>3, InsideContainer
  <2> QED BY <1>1, <1>2, <1>3, <2>1, InsideContainer, ContainerStep
<1>4. CASE Goto(p, "emitFail") /\ stage' = stage
  BY <1>1, <1>4, InsideContainer, ContainerStep
<1> QED BY <1>3, <1>4 DEF CloseFailed
--------------------------------------------------------------------------------
(* The least run that is free.                                              *)
Below == {pair \in Nat \X Nat : pair[1] < pair[2]}

LEMMA LeastOf ==
  ASSUME NEW S, \A m \in S : m \in Nat, S # {}
  PROVE  \E n \in S : \A m \in S : n <= m
<1>1. IsWellFoundedOn(Below, Nat)
  BY NatLessThanWellFounded DEF Below, OpToRel
<1>2. S \subseteq Nat
  OBVIOUS
<1>3. IsWellFoundedOn(Below, S)
  BY <1>1, <1>2, IsWellFoundedOnSubset
<1>4. PICK n \in S : \A m \in S : ~ (<<m, n>> \in Below)
  BY <1>3, WFMin
<1>5. ASSUME NEW m \in S PROVE n <= m
  <2>1. <<m, n>> \notin Below /\ n \in Nat /\ m \in Nat
    BY <1>4
  <2>2. ~ (m < n)
    BY <2>1 DEF Below
  <2> QED BY <2>1, <2>2
<1> QED BY <1>5

LEMMA NextRunIsFree ==
  ASSUME Published # Runs
  PROVE  NextRun \in Runs /\ runs[NextRun] = "none"
<1> DEFINE Free == {r \in Runs : runs[r] = "none"}
<1>1. (\A m \in Free : m \in Nat) /\ Free # {}
  BY QualificationAssumption DEF Runs, Published
<1>2. PICK n \in Free : \A m \in Free : n <= m
  <2> HIDE DEF Free
  <2> QED BY <1>1, LeastOf
<1>3. \A q \in 1 .. (n - 1) : runs[q] # "none"
  <2> SUFFICES ASSUME NEW q \in 1 .. (n - 1), runs[q] = "none" PROVE FALSE
    OBVIOUS
  <2>1. q \in Runs /\ q < n /\ n \in Nat /\ q \in Nat
    BY <1>2, QualificationAssumption DEF Runs
  <2>2. n <= q
    BY <1>2, <2>1
  <2> QED BY <2>1, <2>2
<1>4. n \in Runs /\ runs[n] = "none"
  OBVIOUS
<1> QED BY <1>3, <1>4 DEF NextRun

LEMMA WriteAttemptStep ==
  ASSUME PublicationInv, NEW p \in Procs, WriteAttempt(p) PROVE PublicationInv'
<1>1. /\ pc[p] = "attempt" /\ {"attempt", "work"} \subseteq Steps \ {"idle"}
      /\ UNCHANGED <<lock, mode, ran, marker, runs, recorded, chain, accTemp, ptrTemps,
                     pointer, commits, stops>>
  BY DEF WriteAttempt, Steps
<1>2. /\ TypeOK /\ DiskInv /\ VerdictInv /\ ChainInv /\ TempInv /\ CommitInv
      /\ ~marker /\ stage.dir \in {"bare", "temp"} /\ Published # Runs
      /\ journal = NoRun /\ marker \in BOOLEAN
      /\ ran \in [Procs -> 0 .. PlanLength] /\ pc \in [Procs -> Steps]
  BY <1>1 DEF PublicationInv, StepInv, TypeOK, DiskInv
<1>3. CASE stage' = [stage EXCEPT !.dir = "temp"] /\ UNCHANGED <<pc, journal, source>>
  <2>1. /\ stage' \in [dir : {"none", "bare", "temp", "attempt"}, work : BOOLEAN, run : BOOLEAN]
        /\ stage'.dir = "temp" /\ stage'.work = stage.work /\ stage'.run = stage.run
    BY <1>2, <1>3 DEF TypeOK
  <2>2. Goto(p, "attempt") /\ pc'[p] = "attempt" /\ Published' = Published
    BY <1>1, <1>2, <1>3 DEF Goto, Published
  <2>3. GoesOn(p)
    BY <1>1, <2>2 DEF GoesOn
  <2>4. DiskInv'
    BY <1>1, <1>2, <1>3, <2>1 DEF DiskInv
  <2>5. StepInv(p)'
    BY <1>1, <1>2, <2>1, <2>2, Fresh DEF StepInv
  <2>6. marker' = marker /\ journal' = journal
    BY <1>1, <1>3
  <2> QED BY <1>1, <1>2, <1>3, <2>1, <2>3, <2>4, <2>5, <2>6, StageStep
<1>4. CASE /\ stage' = [stage EXCEPT !.dir = "attempt"]
           /\ journal' = NextRun
           /\ source' = [source EXCEPT ![NextRun] = HeadCommit]
           /\ Goto(p, "work")
  <2>1. NextRun \in Runs /\ runs[NextRun] = "none"
    BY <1>2, NextRunIsFree
  <2>2. NextRun # NoRun /\ NextRun \notin Accepted /\ NextRun \notin Published
    BY <1>2, <2>1, ChainFacts DEF VerdictInv, Published
  <2>3. /\ stage' \in [dir : {"none", "bare", "temp", "attempt"}, work : BOOLEAN, run : BOOLEAN]
        /\ stage'.dir = "attempt" /\ stage'.work = stage.work /\ stage'.run = stage.run
    BY <1>2, <1>4 DEF TypeOK
  <2>4. /\ pc'[p] = "work" /\ GoesOn(p)
        /\ Published' = Published /\ Accepted' = Accepted /\ CommittedRuns' = CommittedRuns
        /\ CommittedAcceptances' = CommittedAcceptances
        /\ CommittedPointer' = CommittedPointer /\ HeadCommit' = HeadCommit
    BY <1>1, <1>2, <1>4, Went
       DEF Published, Accepted, CommittedRuns, CommittedAcceptances, CommittedPointer, HeadCommit
  <2>5. HeadCommit \in Nat
    BY <1>2, ChainFacts DEF HeadCommit
  <2>6. /\ source' \in [Runs -> Nat] /\ source'[NextRun] = HeadCommit
        /\ \A r \in Runs \ {NextRun} : source'[r] = source[r]
    BY <1>2, <1>4, <2>1, <2>5 DEF TypeOK
  <2>7. pc' \in [Procs -> Steps] /\ lock' \in Procs \cup {Nobody, Abandoned} => TypeOK'
    BY <1>1, <1>2, <1>4, <2>1, <2>3, <2>6 DEF TypeOK
  <2>8. DiskInv'
    BY <1>1, <1>2, <1>4, <2>2, <2>3 DEF DiskInv
  <2>9. VerdictInv'
    BY <1>1, <1>2, <2>4, ChainFacts DEF VerdictInv
  <2>10. ChainInv'
    <3>1. pointer = Len(chain) /\ journal' \notin Accepted'
      BY <1>2, <1>4, <2>2, <2>4, ChainFacts DEF ChainInv
    <3> QED BY <1>1, <1>2, <3>1 DEF ChainInv
  <2>11. TempInv'
    <3>1. accTemp = {} /\ ptrTemps = <<>>
      <4>1. \A t \in accTemp : t.run \in Runs /\ t.run = NoRun
        BY <1>2 DEF TempInv, TypeOK, Temporary
      <4> QED BY <1>2, <4>1, ChainFacts DEF TempInv
    <3> QED BY <1>1, <3>1 DEF TempInv
  <2>12. CommitInv'
    <3>1. SettledBut(NoRun)
      BY <1>2 DEF CommitInv
    <3>2. SettledBut(NextRun)'
      <4>1. CommittedRuns = Published \ {NextRun}
        BY <1>2, <2>2, <3>1, ChainFacts DEF SettledBut, Published
      <4>2. CommittedAcceptances = {n \in DOMAIN chain : chain[n] # NextRun}
        BY <1>2, <2>2, <3>1, ChainFacts DEF SettledBut
      <4>3. (IF NextRun \in Accepted THEN 1 ELSE 0) = (IF NoRun \in Accepted THEN 1 ELSE 0)
        BY <1>2, <2>2, ChainFacts
      <4>4. CommittedPointer = Len(chain) - (IF NextRun \in Accepted THEN 1 ELSE 0)
        BY <3>1, <4>3 DEF SettledBut
      <4>5. NextRun' = NextRun
        BY <1>1 DEF NextRun
      <4> QED BY <1>1, <2>2, <2>4, <2>6, <4>1, <4>2, <4>4, <4>5 DEF SettledBut
    <3>3. CommittedRuns \subseteq Runs \ {NextRun}
      BY <2>2, <3>1 DEF SettledBut, Published
    <3>4. ASSUME NEW i \in DOMAIN commits, NEW r \in CommittedRuns
          PROVE  /\ ReceiptScopeOf(i, r)' <=> ReceiptScopeOf(i, r)
                 /\ ReceiptParentOf(i, r)' <=> ReceiptParentOf(i, r)
      BY <1>1, <2>4, <2>6, <3>3 DEF ReceiptScopeOf, ReceiptParentOf
    <3>5. PointerHistoryMonotone'
      BY <1>1, <1>2 DEF CommitInv, PointerHistoryMonotone
    <3>6. \A i \in DOMAIN commits' :
            \E r \in CommittedRuns' :
              /\ ReceiptScopeOf(i, r)' /\ ReceiptParentOf(i, r)'
              /\ r \in Accepted' => commits'[i].pointer \in DOMAIN chain'
      BY <1>1, <1>2, <2>4, <3>4 DEF CommitInv
    <3>7. NextRun' = NextRun
      BY <1>1 DEF NextRun
    <3> QED BY <1>4, <2>1, <3>2, <3>5, <3>6, <3>7 DEF CommitInv
  <2>13. StepInv(p)'
    <3>1. InContainer' /\ runs'[journal'] = "none"
      BY <1>1, <1>2, <1>4, <2>1, <2>3 DEF InContainer
    <3>2. mode'[p] = "fresh"
      BY <1>1, Fresh
    <3> QED BY <2>4, <3>1, <3>2 DEF StepInv
  <2> QED BY <1>1, <2>4, <2>7, <2>8, <2>9, <2>10, <2>11, <2>12, <2>13, Assembled
<1> QED BY <1>3, <1>4 DEF WriteAttempt
(* What is open is the journal's run, and no commit holds it.               *)
LEMMA OpenRun ==
  ASSUME PublicationInv, journal # NoRun
  PROVE  /\ SettledBut(journal) /\ journal \in Runs
         /\ CommittedRuns \subseteq Runs \ {journal}
<1>1. TypeOK /\ DiskInv /\ CommitInv
  BY DEF PublicationInv
<1>2. stage.dir # "none" \/ marker
  BY <1>1 DEF DiskInv
<1>3. SettledBut(journal)
  BY <1>1, <1>2 DEF CommitInv
<1> QED BY <1>1, <1>3 DEF SettledBut, Published, TypeOK

LEMMA PublishRunStep ==
  ASSUME PublicationInv, NEW p \in Procs, NEW status \in {"PASS", "FAIL"},
         PublishRun(p, status)
  PROVE  PublicationInv'
<1>1. /\ pc[p] = (IF status = "PASS" THEN "publishPass" ELSE "publishFail")
      /\ {"cleanup", "closeFailed"} \subseteq Steps \ {"idle"}
      /\ UNCHANGED <<lock, mode, ran, marker, journal, source, chain,
                     accTemp, ptrTemps, pointer, commits, stops>>
  BY DEF PublishRun, Steps
<1>2. /\ InContainer /\ runs[journal] = "none" /\ journal \in Runs
      /\ pc[p] # "idle" /\ ran \in [Procs -> 0 .. PlanLength]
      /\ stage \in [dir : {"attempt"}, work : BOOLEAN, run : BOOLEAN]
      /\ status = "PASS" => ran[p] = PlanLength
  BY <1>1, InsideContainer
<1>3. CASE Goto(p, "closeFailed") /\ UNCHANGED <<runs, recorded, stage>>
  BY <1>1, <1>2, <1>3, ContainerStep
<1>4. CASE /\ runs' = [runs EXCEPT ![journal] = status]
           /\ recorded' = [recorded EXCEPT ![journal] = ran[p]]
           /\ stage' = [stage EXCEPT !.run = FALSE]
           /\ Goto(p, "cleanup")
  <2>1. /\ TypeOK /\ DiskInv /\ VerdictInv /\ ChainInv /\ TempInv /\ CommitInv
        /\ SettledBut(journal) /\ CommittedRuns \subseteq Runs \ {journal} /\ journal # NoRun
    BY <1>2, OpenRun, ChainFacts DEF PublicationInv
  <2>2. /\ runs' \in [Runs -> {"none", "PASS", "FAIL"}] /\ runs'[journal] = status
        /\ \A r \in Runs \ {journal} : runs'[r] = runs[r]
        /\ recorded' \in [Runs -> 0 .. PlanLength] /\ recorded'[journal] = ran[p]
        /\ \A r \in Runs \ {journal} : recorded'[r] = recorded[r]
    BY <1>2, <1>4, <2>1 DEF TypeOK
  <2>3. /\ stage' \in [dir : {"none", "bare", "temp", "attempt"}, work : BOOLEAN, run : BOOLEAN]
        /\ stage'.dir = "attempt" /\ stage.dir = "attempt"
    BY <1>2, <1>4
  <2>4. /\ pc'[p] = "cleanup" /\ GoesOn(p)
        /\ Published' = Published \cup {journal} /\ journal \notin Published
        /\ Accepted' = Accepted /\ CommittedRuns' = CommittedRuns
        /\ CommittedAcceptances' = CommittedAcceptances
        /\ CommittedPointer' = CommittedPointer /\ HeadCommit' = HeadCommit
    <3>1. pc'[p] = "cleanup" /\ GoesOn(p)
      BY <1>1, <1>4, <2>1, Went
    <3>2. Published' = Published \cup {journal} /\ journal \notin Published
      BY <1>2, <2>2 DEF Published
    <3> QED
      BY <1>1, <3>1, <3>2
         DEF Accepted, CommittedRuns, CommittedAcceptances, CommittedPointer, HeadCommit
  <2>5. journal \notin Accepted
    BY <1>2, <2>1 DEF VerdictInv
  <2>6. pc' \in [Procs -> Steps] /\ lock' \in Procs \cup {Nobody, Abandoned} => TypeOK'
    BY <1>1, <2>1, <2>2, <2>3 DEF TypeOK
  <2>7. DiskInv'
    BY <1>1, <1>2, <2>1, <2>3 DEF DiskInv, InContainer
  <2>8. VerdictInv'
    <3>1. \A r \in Runs : runs'[r] = "PASS" => recorded'[r] = PlanLength
      BY <1>2, <2>1, <2>2 DEF VerdictInv
    <3>2. \A r \in Runs : runs'[r] = "PASS" => r = journal' \/ r \in Accepted'
      BY <1>1, <2>1, <2>2, <2>4 DEF VerdictInv
    <3>3. \A r \in Accepted' : runs'[r] = "PASS"
      BY <2>1, <2>2, <2>4, <2>5, ChainFacts DEF VerdictInv
    <3> QED BY <3>1, <3>2, <3>3 DEF VerdictInv
  <2>9. ChainInv'
    BY <1>1, <2>1, <2>4 DEF ChainInv
  <2>10. TempInv'
    <3>1. accTemp = {} /\ ptrTemps = <<>>
      BY <1>2, <2>1, <2>5 DEF TempInv
    <3> QED BY <1>1, <3>1 DEF TempInv
  <2>11. CommitInv'
    <3>1. SettledBut(journal)'
      <4>1. CommittedRuns' = Published' \ {journal}
        BY <2>1, <2>4 DEF SettledBut
      <4> QED BY <1>1, <2>1, <2>4, <4>1 DEF SettledBut
    <3>2. \A i, r : /\ ReceiptScopeOf(i, r)' <=> ReceiptScopeOf(i, r)
                    /\ ReceiptParentOf(i, r)' <=> ReceiptParentOf(i, r)
      BY <1>1, <2>4 DEF ReceiptScopeOf, ReceiptParentOf
    <3>3. PointerHistoryMonotone'
      BY <1>1, <2>1 DEF CommitInv, PointerHistoryMonotone
    <3>4. \A i \in DOMAIN commits' :
            \E r \in CommittedRuns' :
              /\ ReceiptScopeOf(i, r)' /\ ReceiptParentOf(i, r)'
              /\ r \in Accepted' => commits'[i].pointer \in DOMAIN chain'
      BY <1>1, <2>1, <2>4, <3>2 DEF CommitInv
    <3> QED BY <1>1, <1>2, <3>1, <3>3, <3>4 DEF CommitInv
  <2>12. StepInv(p)'
    <3>1. /\ runs'[journal'] # "none" /\ journal' \notin Accepted' /\ InContainer'
          /\ mode'[p] = mode[p]
      BY <1>1, <1>2, <2>2, <2>3, <2>4, <2>5 DEF InContainer
    <3>2. mode[p] = "fresh" \/ runs'[journal'] # "PASS"
      BY <1>1, <2>2, Fresh
    <3> QED BY <2>4, <3>1, <3>2 DEF StepInv
  <2> QED BY <1>2, <2>4, <2>6, <2>7, <2>8, <2>9, <2>10, <2>11, <2>12, Assembled
<1> QED BY <1>3, <1>4 DEF PublishRun
--------------------------------------------------------------------------------
LEMMA MoveJournalStep ==
  ASSUME PublicationInv, NEW p \in Procs, MoveJournal(p) PROVE PublicationInv'
<1>1. /\ pc[p] = "cleanup" /\ {"cleanup", "removeStage"} \subseteq Steps \ {"idle"}
      /\ UNCHANGED <<mode, ran, journal, source, runs, recorded, chain,
                     accTemp, ptrTemps, pointer, commits, stops>>
  BY DEF MoveJournal, Steps
<1>2. /\ TypeOK /\ DiskInv /\ InContainer /\ marker = FALSE /\ stage.dir = "attempt"
      /\ runs[journal] # "none" /\ journal # NoRun
      /\ mode[p] = "fresh" => journal \notin Accepted
      /\ mode[p] # "fresh" /\ runs[journal] = "PASS" =>
            journal \in Accepted /\ pointer = Len(chain)
      /\ ran \in [Procs -> 0 .. PlanLength]
  BY <1>1 DEF PublicationInv, StepInv, TypeOK, DiskInv, InContainer
<1>3. Accepted' = Accepted
  BY <1>1 DEF Accepted
<1>4. CASE stage' = [stage EXCEPT !.work = FALSE] /\ UNCHANGED <<lock, pc, marker>>
  <2>1. /\ stage' \in [dir : {"none", "bare", "temp", "attempt"}, work : BOOLEAN, run : BOOLEAN]
        /\ stage'.dir = "attempt"
    BY <1>2, <1>4 DEF TypeOK
  <2>2. Goto(p, "cleanup")
    BY <1>1, <1>2, <1>4 DEF Goto, TypeOK
  <2>3. pc'[p] = "cleanup" /\ GoesOn(p)
    BY <1>1, <1>2, <1>4, <2>2, Went
  <2>4. DiskInv'
    BY <1>1, <1>2, <1>4, <2>1 DEF DiskInv
  <2>5. StepInv(p)'
    BY <1>1, <1>2, <1>3, <1>4, <2>1, <2>3 DEF StepInv, InContainer
  <2>6. marker' \in BOOLEAN /\ (~marker' /\ stage.dir # "none")
    BY <1>2, <1>4
  <2> QED BY <1>1, <1>2, <2>1, <2>3, <2>4, <2>5, <2>6, StageStep
<1>5. CASE /\ ~stage.work /\ ~stage.run
           /\ marker' = TRUE /\ stage' = [stage EXCEPT !.dir = "bare"]
           /\ Goto(p, "removeStage") /\ lock' = lock
  <2>1. /\ stage' \in [dir : {"none", "bare", "temp", "attempt"}, work : BOOLEAN, run : BOOLEAN]
        /\ stage'.dir = "bare" /\ ~stage'.work /\ ~stage'.run
    BY <1>2, <1>5 DEF TypeOK
  <2>2. pc'[p] = "removeStage" /\ GoesOn(p)
    BY <1>1, <1>2, <1>5, Went
  <2>3. DiskInv'
    BY <1>1, <1>2, <1>5, <2>1 DEF DiskInv
  <2>4. StepInv(p)'
    BY <1>1, <1>2, <1>3, <1>5, <2>2 DEF StepInv
  <2>5. marker' \in BOOLEAN /\ stage.dir # "none"
    BY <1>2, <1>5
  <2> QED BY <1>1, <1>2, <2>1, <2>2, <2>3, <2>4, <2>5, StageStep
<1>6. CASE Leave(p) /\ UNCHANGED <<stage, marker>>
  <2>1. Refuse(p)
    BY <1>1, <1>6 DEF Refuse, disk
  <2> QED BY <1>1, <2>1, RefuseStep
<1>7. stage.work \in BOOLEAN /\ stage.run \in BOOLEAN
  BY <1>2 DEF TypeOK
<1> QED BY <1>2, <1>4, <1>5, <1>6, <1>7 DEF MoveJournal

LEMMA RemoveStageStep ==
  ASSUME PublicationInv, NEW p \in Procs, RemoveStage(p) PROVE PublicationInv'
<1>1. /\ pc[p] = "removeStage" /\ {"accept", "finish"} \subseteq Steps \ {"idle"}
      /\ stage' = NoStage
      /\ Goto(p, IF mode[p] = "fresh" /\ runs[journal] = "PASS" THEN "accept" ELSE "finish")
      /\ UNCHANGED <<lock, mode, ran, marker, journal, source, runs, recorded, chain,
                     accTemp, ptrTemps, pointer, commits, stops>>
  BY DEF RemoveStage, Steps
<1>2. /\ TypeOK /\ DiskInv /\ marker = TRUE /\ runs[journal] # "none" /\ journal # NoRun
      /\ mode[p] = "fresh" => journal \notin Accepted
      /\ mode[p] # "fresh" /\ runs[journal] = "PASS" =>
            journal \in Accepted /\ pointer = Len(chain)
      /\ ran \in [Procs -> 0 .. PlanLength]
  BY <1>1 DEF PublicationInv, StepInv, TypeOK, DiskInv
<1>3. Accepted' = Accepted
  BY <1>1 DEF Accepted
<1>4. /\ stage' \in [dir : {"none", "bare", "temp", "attempt"}, work : BOOLEAN, run : BOOLEAN]
      /\ stage'.dir = "none" /\ ~stage'.work /\ ~stage'.run
  BY <1>1 DEF NoStage
<1>5. DiskInv'
  BY <1>1, <1>2, <1>4 DEF DiskInv
<1>6. StepInv(p)' /\ GoesOn(p)
  <2>1. CASE mode[p] = "fresh" /\ runs[journal] = "PASS"
    <3>1. Goto(p, "accept")
      BY <1>1, <2>1
    <3>2. pc'[p] = "accept" /\ GoesOn(p)
      BY <1>1, <1>2, <3>1, Went
    <3> QED BY <1>1, <1>2, <1>3, <2>1, <3>2 DEF StepInv
  <2>2. CASE ~(mode[p] = "fresh" /\ runs[journal] = "PASS")
    <3>1. Goto(p, "finish")
      BY <1>1, <2>2
    <3>2. pc'[p] = "finish" /\ GoesOn(p)
      BY <1>1, <1>2, <3>1, Went
    <3> QED BY <1>1, <1>2, <1>3, <2>2, <3>2 DEF StepInv
  <2> QED BY <2>1, <2>2
<1>7. marker' \in BOOLEAN
  BY <1>1, <1>2
<1> QED BY <1>1, <1>2, <1>4, <1>5, <1>6, <1>7, StageStep

LEMMA FinishStep ==
  ASSUME PublicationInv, NEW p \in Procs, Finish(p) PROVE PublicationInv'
<1>1. /\ pc[p] = "finish" /\ Leave(p)
      /\ UNCHANGED <<mode, ran, stage, source, runs, recorded, chain,
                     accTemp, ptrTemps, pointer, commits, stops>>
  BY DEF Finish
<1>2. CASE UNCHANGED <<marker, journal>>
  <2>1. Refuse(p)
    BY <1>1, <1>2 DEF Refuse, disk
  <2> QED BY <1>1, <2>1, RefuseStep
<1>3. CASE PublicationClosed /\ marker' = FALSE /\ journal' = NoRun
  <2>1. /\ TypeOK /\ DiskInv /\ VerdictInv /\ ChainInv /\ TempInv /\ CommitInv
        /\ marker /\ stage.dir = "none" /\ accTemp = {} /\ ptrTemps = <<>>
        /\ journal # NoRun /\ runs[journal] # "none" /\ journal \in Runs
        /\ runs[journal] = "PASS" => journal \in Accepted /\ pointer = Len(chain)
    BY <1>1, <1>3 DEF PublicationInv, StepInv, DiskInv, TypeOK, PublicationClosed
  <2>2. GivesUp(p) /\ ~GoesOn(p) /\ Accepted' = Accepted
    BY <1>1, <2>1 DEF Leave, GivesUp, GoesOn, Goto, TypeOK, Accepted
  <2>3. pc' \in [Procs -> Steps] /\ lock' \in Procs \cup {Nobody, Abandoned} => TypeOK'
    BY <1>1, <1>3, <2>1 DEF TypeOK
  <2>4. DiskInv' /\ TempInv'
    BY <1>1, <1>3, <2>1 DEF DiskInv, TempInv
  <2>5. VerdictInv'
    BY <1>1, <1>3, <2>1, <2>2 DEF VerdictInv
  <2>6. ChainInv'
    <3>1. pointer = Len(chain)
      <4>1. CASE journal \in Accepted
        BY <2>1, <4>1 DEF VerdictInv
      <4>2. CASE journal \notin Accepted
        BY <2>1, <4>2 DEF ChainInv
      <4> QED BY <4>1, <4>2
    <3>2. NoRun \notin Accepted
      BY <2>1, ChainFacts
    <3> QED BY <1>1, <1>3, <2>1, <2>2, <3>1, <3>2 DEF ChainInv
  <2>7. CommitInv'
    <3>1. SettledBut(journal)
      BY <2>1, OpenRun
    <3>2. ~(stage'.dir # "none" \/ marker')
      BY <1>1, <1>3, <2>1
    <3> QED BY <1>1, <2>1, <3>1, <3>2, CommitsStand
  <2> QED BY <1>1, <2>2, <2>3, <2>4, <2>5, <2>6, <2>7, Assembled
<1> QED BY <1>1, <1>2, <1>3 DEF Finish
--------------------------------------------------------------------------------
(* The journal's run is accepted: the chain grows by it, and the pointer,   *)
(* which stood at its end, is one behind.                                   *)
LEMMA ChainGrows ==
  ASSUME TypeOK, journal \in Runs, journal \notin Accepted, chain' = Append(chain, journal)
  PROVE  /\ chain' \in Seq(Runs) /\ Len(chain') = Len(chain) + 1
         /\ DOMAIN chain' = 1 .. Len(chain) + 1
         /\ chain'[Len(chain) + 1] = journal
         /\ \A n \in DOMAIN chain : n \in DOMAIN chain' /\ chain'[n] = chain[n]
         /\ Accepted' = Accepted \cup {journal}
<1>1. /\ chain \in Seq(Runs) /\ Len(chain) \in Nat /\ DOMAIN chain = 1 .. Len(chain)
  BY ChainFacts DEF TypeOK
<1>2. /\ chain' \in Seq(Runs) /\ Len(chain') = Len(chain) + 1
      /\ chain'[Len(chain) + 1] = journal
      /\ \A n \in 1 .. Len(chain) : chain'[n] = chain[n]
  BY <1>1, AppendProperties
<1>3. DOMAIN chain' = 1 .. Len(chain) + 1
  BY <1>2, LenProperties
<1>4. \A n \in DOMAIN chain : n \in DOMAIN chain' /\ chain'[n] = chain[n]
  BY <1>1, <1>2, <1>3
<1>5. Accepted' = Accepted \cup {journal}
  <2>1. ASSUME NEW r \in Accepted' PROVE r \in Accepted \cup {journal}
    <3>1. PICK n \in DOMAIN chain' : chain'[n] = r
      BY DEF Accepted, ToSet
    <3>2. n = Len(chain) + 1 \/ n \in DOMAIN chain
      BY <1>1, <1>3, <3>1
    <3> QED BY <1>2, <1>4, <3>1, <3>2 DEF Accepted, ToSet
  <2>2. ASSUME NEW r \in Accepted PROVE r \in Accepted'
    <3>1. PICK n \in DOMAIN chain : chain[n] = r
      BY DEF Accepted, ToSet
    <3> QED BY <1>4, <3>1 DEF Accepted, ToSet
  <2>3. journal \in Accepted'
    <3>1. Len(chain) + 1 \in DOMAIN chain'
      BY <1>1, <1>3
    <3> QED BY <1>2, <3>1 DEF Accepted, ToSet
  <2> QED BY <2>1, <2>2, <2>3
<1> QED BY <1>2, <1>3, <1>4, <1>5

LEMMA AcceptStep ==
  ASSUME PublicationInv, NEW p \in Procs, pc[p] # "idle", GoesOn(p),
         journal # NoRun, runs[journal] = "PASS", journal \notin Accepted,
         chain' = Append(chain, journal), accTemp' \subseteq accTemp,
         UNCHANGED <<mode, ran, stage, marker, journal, source, runs, recorded, ptrTemps,
                     pointer, commits, stops>>,
         Accepted' = Accepted \cup {journal} => StepInv(p)'
  PROVE  PublicationInv'
<1>1. /\ TypeOK /\ DiskInv /\ VerdictInv /\ ChainInv /\ TempInv /\ CommitInv
      /\ SettledBut(journal) /\ CommittedRuns \subseteq Runs \ {journal} /\ journal \in Runs
  BY OpenRun DEF PublicationInv
<1>2. /\ chain' \in Seq(Runs) /\ Len(chain') = Len(chain) + 1
      /\ DOMAIN chain' = 1 .. Len(chain) + 1
      /\ chain'[Len(chain) + 1] = journal
      /\ \A n \in DOMAIN chain : n \in DOMAIN chain' /\ chain'[n] = chain[n]
      /\ Accepted' = Accepted \cup {journal}
  BY <1>1, ChainGrows
<1>3. /\ Len(chain) \in Nat /\ DOMAIN chain = 1 .. Len(chain)
      /\ \A n \in DOMAIN chain : chain[n] \in Accepted
  BY <1>1, ChainFacts
<1>4. pointer = Len(chain) /\ ptrTemps = <<>>
  BY <1>1 DEF ChainInv, TempInv
<1>5. pc' \in [Procs -> Steps] /\ lock' \in Procs \cup {Nobody, Abandoned} => TypeOK'
  <2>1. pointer' \in 0 .. Len(chain')
    BY <1>2, <1>3, <1>4
  <2>2. accTemp' \in SUBSET Temporary
    BY <1>1 DEF TypeOK
  <2> QED BY <1>1, <1>2, <2>1, <2>2 DEF TypeOK
<1>6. DiskInv'
  BY <1>1 DEF DiskInv
<1>7. VerdictInv'
  BY <1>1, <1>2 DEF VerdictInv
<1>8. TempInv'
  BY <1>1, <1>4 DEF TempInv
<1>9. ChainInv'
  <2>1. ASSUME NEW m \in DOMAIN chain', NEW n \in DOMAIN chain', chain'[m] = chain'[n]
        PROVE  m = n
    <3>1. m \in DOMAIN chain \/ m = Len(chain) + 1
      BY <1>2, <1>3
    <3>2. n \in DOMAIN chain \/ n = Len(chain) + 1
      BY <1>2, <1>3
    <3>3. CASE m \in DOMAIN chain /\ n \in DOMAIN chain
      BY <1>1, <1>2, <2>1, <3>3 DEF ChainInv
    <3>4. CASE m \in DOMAIN chain /\ n = Len(chain) + 1
      BY <1>2, <1>3, <2>1, <3>4
    <3>5. CASE n \in DOMAIN chain /\ m = Len(chain) + 1
      BY <1>2, <1>3, <2>1, <3>5
    <3> QED BY <3>1, <3>2, <3>3, <3>4, <3>5
  <2>2. pointer' = Len(chain') - 1 /\ journal' \in Accepted' /\ chain'[Len(chain')] = journal'
    BY <1>2, <1>3, <1>4
  <2> QED BY <2>1, <2>2 DEF ChainInv
<1>10. CommitInv'
  <2>1. /\ CommittedRuns' = CommittedRuns /\ CommittedAcceptances' = CommittedAcceptances
        /\ CommittedPointer' = CommittedPointer /\ HeadCommit' = HeadCommit
        /\ Published' = Published
    BY DEF CommittedRuns, CommittedAcceptances, CommittedPointer, HeadCommit, Published
  <2>2. ASSUME NEW r \in Runs
        PROVE  {n \in DOMAIN chain' : chain'[n] = r} =
                 {n \in DOMAIN chain : chain[n] = r}
                   \cup (IF r = journal THEN {Len(chain) + 1} ELSE {})
    <3>1. \A n : n \in DOMAIN chain' <=> n \in DOMAIN chain \/ n = Len(chain) + 1
      BY <1>2, <1>3
    <3> QED BY <1>2, <3>1
  <2>3. SettledBut(journal)'
    <3>1. CommittedAcceptances = {n \in DOMAIN chain' : chain'[n] # journal}
      <4>1. \A n : n \in DOMAIN chain' <=> n \in DOMAIN chain \/ n = Len(chain) + 1
        BY <1>2, <1>3
      <4> QED BY <1>1, <1>2, <4>1 DEF SettledBut
    <3>2. CommittedPointer = Len(chain') - (IF journal \in Accepted' THEN 1 ELSE 0)
      <4>1. CommittedPointer = Len(chain) - (IF journal \in Accepted THEN 1 ELSE 0)
        BY <1>1 DEF SettledBut
      <4>2. (IF journal \in Accepted THEN 1 ELSE 0) = 0
            /\ (IF journal \in Accepted' THEN 1 ELSE 0) = 1
        BY <1>2
      <4> QED BY <1>2, <1>3, <4>1, <4>2
    <3>3. chain'[Len(chain')] = journal
      BY <1>2
    <3> QED BY <1>1, <2>1, <3>1, <3>2, <3>3 DEF SettledBut
  <2>4. ASSUME NEW i \in DOMAIN commits, NEW r \in CommittedRuns,
               ReceiptScopeOf(i, r), ReceiptParentOf(i, r),
               r \in Accepted => commits[i].pointer \in DOMAIN chain
        PROVE  /\ ReceiptScopeOf(i, r)' /\ ReceiptParentOf(i, r)'
               /\ r \in Accepted' => commits'[i].pointer \in DOMAIN chain'
    <3>1. r \in Runs /\ r # journal
      BY <1>1
    <3>2. {n \in DOMAIN chain' : chain'[n] = r} = {n \in DOMAIN chain : chain[n] = r}
      BY <2>2, <3>1
    <3>3. r \in Accepted' <=> r \in Accepted
      BY <1>2, <3>1
    <3>4. r \in Accepted' => /\ commits'[i].pointer \in DOMAIN chain'
                             /\ chain'[commits[i].pointer] = r
      BY <1>2, <2>4, <3>3 DEF ReceiptScopeOf
    <3> QED BY <2>4, <3>2, <3>3, <3>4 DEF ReceiptScopeOf, ReceiptParentOf
  <2>5. \A i \in DOMAIN commits' :
          \E r \in CommittedRuns' :
            /\ ReceiptScopeOf(i, r)' /\ ReceiptParentOf(i, r)'
            /\ r \in Accepted' => commits'[i].pointer \in DOMAIN chain'
    BY <1>1, <2>1, <2>4 DEF CommitInv
  <2>6. PointerHistoryMonotone'
    BY <1>1 DEF CommitInv, PointerHistoryMonotone
  <2> QED BY <1>1, <2>3, <2>5, <2>6 DEF CommitInv
<1> QED BY <1>2, <1>5, <1>6, <1>7, <1>8, <1>9, <1>10, Assembled
(* Steps on the temporaries and the pointer.                                *)
LEMMA TempStep ==
  ASSUME PublicationInv, NEW p \in Procs, pc[p] # "idle", GoesOn(p) \/ GivesUp(p),
         UNCHANGED <<mode, ran, stage, marker, journal, source, runs, recorded, chain,
                     commits, stops>>,
         accTemp' \in SUBSET Temporary,
         \A t \in accTemp' : t.run = journal /\ runs[journal] = "PASS",
         ptrTemps' \in Seq(Temporary), ptrTemps' # <<>> => journal \in Accepted,
         pointer' \in {pointer, Len(chain)},
         Accepted' = Accepted /\ GoesOn(p) => StepInv(p)'
  PROVE  PublicationInv'
<1>1. /\ TypeOK /\ DiskInv /\ VerdictInv /\ ChainInv /\ CommitInv
      /\ Len(chain) \in Nat
  BY ChainFacts DEF PublicationInv
<1>2. Accepted' = Accepted
  BY DEF Accepted
<1>3. pc' \in [Procs -> Steps] /\ lock' \in Procs \cup {Nobody, Abandoned} => TypeOK'
  <2>1. pointer' \in 0 .. Len(chain)
    BY <1>1 DEF TypeOK
  <2> QED BY <1>1, <2>1 DEF TypeOK
<1>4. DiskInv' /\ VerdictInv' /\ TempInv'
  BY <1>1, <1>2 DEF DiskInv, VerdictInv, TempInv
<1>5. ChainInv'
  BY <1>1, <1>2 DEF ChainInv
<1>6. CommitInv'
  <2>1. PICK r \in Runs \cup {NoRun} :
          SettledBut(r) /\ (stage.dir # "none" \/ marker => r = journal)
    BY <1>1 DEF CommitInv
  <2> QED BY <1>1, <2>1, CommitsStand
<1> QED BY <1>2, <1>3, <1>4, <1>5, <1>6, Assembled

LEMMA FinishAcceptanceTempStep ==
  ASSUME PublicationInv, NEW p \in Procs, FinishAcceptanceTemp(p) PROVE PublicationInv'
<1>1. /\ pc[p] = "acceptanceTemp" /\ {"acceptanceTemp", "pointerTemp"} \subseteq Steps \ {"idle"}
      /\ UNCHANGED <<mode, ran, stage, marker, journal, source, runs, recorded,
                     ptrTemps, pointer, commits, stops>>
  BY DEF FinishAcceptanceTemp, Steps
<1>2. TypeOK /\ TempInv /\ mode[p] = "fresh"
  BY <1>1, Fresh DEF PublicationInv
<1>3. CASE Goto(p, "pointerTemp") /\ lock' = lock /\ chain' = chain /\ accTemp' \subseteq accTemp
  <2>1. pc'[p] = "pointerTemp" /\ GoesOn(p)
    BY <1>1, <1>2, <1>3, Went
  <2>2. StepInv(p)'
    BY <1>1, <1>2, <2>1, IdleKnowsNothing
  <2>3. /\ accTemp' \in SUBSET Temporary
        /\ \A t \in accTemp' : t.run = journal /\ runs[journal] = "PASS"
        /\ ptrTemps' \in Seq(Temporary) /\ (ptrTemps' # <<>> => journal \in Accepted)
        /\ pointer' = pointer
    <3>1. accTemp \in SUBSET Temporary /\ ptrTemps \in Seq(Temporary)
          /\ \A t \in accTemp : t.run = journal /\ runs[journal] = "PASS"
      BY <1>2 DEF TypeOK, TempInv
    <3> QED BY <1>1, <1>2, <1>3, <3>1 DEF TempInv
  <2> QED BY <1>1, <1>3, <2>1, <2>2, <2>3, TempStep
<1>4. CASE Leave(p) /\ UNCHANGED <<chain, accTemp>>
  <2>1. Refuse(p)
    BY <1>1, <1>4 DEF Refuse, disk
  <2> QED BY <1>1, <2>1, RefuseStep
<1>5. ASSUME NEW t \in accTemp, FinalizationJournalOf(t), t.run \notin Accepted,
             chain' = Append(chain, t.run), UNCHANGED <<lock, pc, accTemp>>
      PROVE  PublicationInv'
  <2>1. /\ t.run = journal /\ runs[journal] = "PASS" /\ journal # NoRun
        /\ pc \in [Procs -> Steps]
    <3>1. t.run = journal /\ runs[journal] = "PASS"
      BY <1>2 DEF TempInv
    <3>2. t.run \in Runs /\ NoRun \notin Runs /\ pc \in [Procs -> Steps]
      BY <1>2, ChainFacts DEF TypeOK, Temporary
    <3> QED BY <3>1, <3>2
  <2>2. Goto(p, "acceptanceTemp")
    BY <1>1, <1>5, <2>1 DEF Goto
  <2>3. pc'[p] = "acceptanceTemp" /\ GoesOn(p)
    BY <1>1, <1>2, <1>5, <2>2, Went
  <2>4. StepInv(p)'
    BY <1>1, <1>2, <2>3, IdleKnowsNothing
  <2> QED BY <1>1, <1>5, <2>1, <2>3, <2>4, AcceptStep
<1> QED BY <1>3, <1>4, <1>5 DEF FinishAcceptanceTemp

LEMMA WriteAcceptanceStep ==
  ASSUME PublicationInv, NEW p \in Procs, WriteAcceptance(p) PROVE PublicationInv'
<1>1. /\ pc[p] \in {"accept", "fillAcceptance", "installAcceptance"}
      /\ {"fillAcceptance", "installAcceptance", "select"} \subseteq Steps \ {"idle"}
      /\ UNCHANGED <<lock, mode, ran, stage, marker, journal, source, runs, recorded,
                     ptrTemps, pointer, commits, stops>>
  BY DEF WriteAcceptance, Steps
<1>2. /\ TypeOK /\ TempInv
      /\ journal # NoRun /\ runs[journal] = "PASS" /\ journal \notin Accepted
      /\ journal \in Runs /\ (IF mode[p] = "container" THEN InContainer ELSE marker)
      /\ ptrTemps' \in Seq(Temporary) /\ (ptrTemps' # <<>> => journal \in Accepted)
      /\ pointer' = pointer /\ mode[p] # "temporary"
  BY <1>1 DEF PublicationInv, StepInv, TypeOK, TempInv
<1>3. ASSUME NEW w \in BOOLEAN, accTemp' = {[run |-> journal, whole |-> w]}, chain' = chain,
             NEW s \in {"fillAcceptance", "installAcceptance"}, Goto(p, s)
      PROVE  PublicationInv'
  <2>1. pc'[p] = s /\ GoesOn(p)
    BY <1>1, <1>2, <1>3, Went
  <2>2. /\ accTemp' \in SUBSET Temporary
        /\ \A t \in accTemp' : t.run = journal /\ runs[journal] = "PASS"
    BY <1>2, <1>3 DEF Temporary
  <2>3. Accepted' = Accepted => StepInv(p)'
    BY <1>1, <1>2, <2>1 DEF StepInv, InContainer
  <2> QED BY <1>1, <1>2, <1>3, <2>1, <2>2, <2>3, TempStep
<1>4. CASE accTemp' = {} /\ chain' = Append(chain, journal) /\ Goto(p, "select")
  <2>1. pc'[p] = "select" /\ GoesOn(p)
    BY <1>1, <1>2, <1>4, Went
  <2>2. Accepted' = Accepted \cup {journal} => StepInv(p)'
    BY <1>1, <1>2, <2>1 DEF StepInv, InContainer
  <2> QED BY <1>1, <1>2, <1>4, <2>1, <2>2, AcceptStep
<1> QED BY <1>3, <1>4 DEF WriteAcceptance

LEMMA AfterSelectionKnown ==
  ASSUME PublicationInv, NEW p \in Procs, Goto(p, AfterSelection(p)), lock' = lock,
         pc[p] \in {"select", "installPointer"},
         UNCHANGED <<mode, marker, stage, runs, journal, chain>>, pointer' = Len(chain),
         mode[p] = "temporary" => ptrTemps' # <<>>
  PROVE  StepInv(p)' /\ GoesOn(p)
<1>1. /\ TypeOK /\ DiskInv /\ VerdictInv /\ journal \in Accepted
      /\ IF mode[p] = "container" THEN InContainer ELSE marker
  BY DEF PublicationInv, StepInv
<1>2. Accepted' = Accepted /\ journal # NoRun /\ runs[journal] = "PASS"
  BY <1>1, ChainFacts DEF Accepted, VerdictInv
<1>3. AfterSelection(p) \in Steps \ {"idle"}
  BY DEF AfterSelection, Steps
<1>4. pc'[p] = AfterSelection(p) /\ GoesOn(p)
  BY <1>1, <1>3, Went
<1>5. CASE mode[p] = "temporary"
  <2>1. pc'[p] = "dropTemp" /\ marker'
    BY <1>1, <1>4, <1>5 DEF AfterSelection
  <2> QED BY <1>4, <1>5, <2>1 DEF StepInv
<1>6. CASE mode[p] = "container"
  <2>1. pc'[p] = "cleanup" /\ InContainer'
    BY <1>1, <1>4, <1>6 DEF AfterSelection, InContainer
  <2>2. mode'[p] # "fresh" /\ journal' \in Accepted' /\ pointer' = Len(chain')
        /\ runs'[journal'] # "none"
    BY <1>1, <1>2, <1>6
  <2> QED BY <1>4, <2>1, <2>2 DEF StepInv
<1>7. CASE mode[p] \notin {"temporary", "container"}
  <2>1. pc'[p] = "finish"
    BY <1>4, <1>7 DEF AfterSelection
  <2>2. marker' /\ journal' \in Accepted' /\ pointer' = Len(chain')
    BY <1>1, <1>2, <1>7
  <2> QED BY <1>4, <2>1, <2>2 DEF StepInv
<1> QED BY <1>5, <1>6, <1>7
LEMMA ReplacePointerStep ==
  ASSUME PublicationInv, NEW p \in Procs, ReplacePointer(p) PROVE PublicationInv'
<1>1. /\ pc[p] = "select" /\ "fillPointer" \in Steps \ {"idle"}
      /\ UNCHANGED <<mode, ran, stage, marker, journal, source, runs, recorded, chain,
                     accTemp, pointer, commits, stops>>
  BY DEF ReplacePointer, Steps
<1>2. /\ TypeOK /\ TempInv /\ ChainInv /\ journal \in Accepted /\ journal \in Runs
      /\ (IF mode[p] = "container" THEN InContainer ELSE marker)
      /\ mode[p] = "temporary" => ptrTemps # <<>>
      /\ accTemp' \in SUBSET Temporary /\ ptrTemps \in Seq(Temporary)
      /\ \A t \in accTemp' : t.run = journal /\ runs[journal] = "PASS"
      /\ pointer' \in {pointer, Len(chain)}
  <2>1. StepInv(p) /\ TypeOK /\ TempInv /\ ChainInv
    BY DEF PublicationInv
  <2>2. journal \in Accepted /\ (IF mode[p] = "container" THEN InContainer ELSE marker)
        /\ (mode[p] = "temporary" => ptrTemps # <<>>)
    BY <1>1, <2>1 DEF StepInv
  <2>3. accTemp \in SUBSET Temporary /\ ptrTemps \in Seq(Temporary)
    BY <2>1 DEF TypeOK
  <2> QED BY <1>1, <2>1, <2>2, <2>3, ChainFacts DEF TempInv
<1>3. CASE pointer = Len(chain) /\ Goto(p, AfterSelection(p)) /\ UNCHANGED <<lock, ptrTemps>>
  <2>1. StepInv(p)' /\ GoesOn(p)
    BY <1>1, <1>2, <1>3, AfterSelectionKnown
  <2> QED BY <1>1, <1>2, <1>3, <2>1, TempStep DEF TempInv
<1>4. CASE /\ ptrTemps' = Append(ptrTemps, [run |-> Last(chain), whole |-> FALSE])
           /\ Goto(p, "fillPointer") /\ lock' = lock
  <2>1. pc'[p] = "fillPointer" /\ GoesOn(p)
    BY <1>1, <1>2, <1>4, Went
  <2>2. [run |-> Last(chain), whole |-> FALSE] \in Temporary
    <3>1. Last(chain) = journal
      BY <1>2 DEF ChainInv, Last
    <3> QED BY <1>2, <3>1 DEF Temporary
  <2>3. ptrTemps' \in Seq(Temporary) /\ Len(ptrTemps') = Len(ptrTemps) + 1
    BY <1>2, <1>4, <2>2, AppendProperties
  <2>4. Len(ptrTemps) \in Nat /\ (ptrTemps # <<>> => Len(ptrTemps) > 0)
    BY <1>2, EmptySeq, LenProperties
  <2>5. ptrTemps' # <<>> /\ (mode[p] = "temporary" => Len(ptrTemps') > 1)
    BY <1>2, <1>4, <2>2, <2>3, <2>4, AppendProperties
  <2>6. Accepted' = Accepted => StepInv(p)'
    BY <1>1, <1>2, <2>1, <2>5 DEF StepInv, InContainer
  <2> QED BY <1>1, <1>2, <1>4, <2>1, <2>3, <2>6, TempStep
<1>5. CASE Leave(p) /\ UNCHANGED ptrTemps
  <2>1. Refuse(p)
    BY <1>1, <1>5 DEF Refuse, disk
  <2> QED BY <1>1, <2>1, RefuseStep
<1> QED BY <1>3, <1>4, <1>5 DEF ReplacePointer

LEMMA InstallPointerStep ==
  ASSUME PublicationInv, NEW p \in Procs, InstallPointer(p) PROVE PublicationInv'
<1>1. /\ pc[p] \in {"fillPointer", "installPointer"} /\ "installPointer" \in Steps \ {"idle"}
      /\ UNCHANGED <<lock, mode, ran, stage, marker, journal, source, runs, recorded, chain,
                     accTemp, commits, stops>>
  BY DEF InstallPointer, Steps
<1>2. /\ TypeOK /\ TempInv /\ journal \in Accepted
      /\ (IF mode[p] = "container" THEN InContainer ELSE marker)
      /\ ptrTemps # <<>> /\ (mode[p] = "temporary" => Len(ptrTemps) > 1)
      /\ accTemp' \in SUBSET Temporary /\ ptrTemps \in Seq(Temporary)
      /\ \A t \in accTemp' : t.run = journal /\ runs[journal] = "PASS"
  <2>1. StepInv(p) /\ TypeOK /\ TempInv
    BY DEF PublicationInv
  <2>2. journal \in Accepted /\ (IF mode[p] = "container" THEN InContainer ELSE marker)
        /\ ptrTemps # <<>> /\ (mode[p] = "temporary" => Len(ptrTemps) > 1)
    BY <1>1, <2>1 DEF StepInv
  <2>3. accTemp \in SUBSET Temporary /\ ptrTemps \in Seq(Temporary)
    BY <2>1 DEF TypeOK
  <2> QED BY <1>1, <2>1, <2>2, <2>3 DEF TempInv
<1>3. /\ Len(ptrTemps) \in Nat /\ Len(ptrTemps) > 0
      /\ ptrTemps \in [1 .. Len(ptrTemps) -> Temporary]
  BY <1>2, EmptySeq, LenProperties
<1>4. CASE /\ ptrTemps' = [ptrTemps EXCEPT ![Len(ptrTemps)].whole = TRUE]
           /\ Goto(p, "installPointer") /\ pointer' = pointer
  <2>1. pc'[p] = "installPointer" /\ GoesOn(p)
    BY <1>1, <1>2, <1>4, Went
  <2> DEFINE last == Len(ptrTemps)
             filled == [ptrTemps[last] EXCEPT !.whole = TRUE]
  <2>2. filled \in Temporary
    <3>1. last \in 1 .. Len(ptrTemps)
      BY <1>3
    <3>2. ptrTemps[last] \in Temporary
      BY <1>3, <3>1
    <3> QED BY <3>2 DEF Temporary
  <2>3. ptrTemps' = [ptrTemps EXCEPT ![last] = filled]
    BY <1>4
  <2>4. ptrTemps' \in Seq(Temporary) /\ Len(ptrTemps') = Len(ptrTemps)
    <3> HIDE DEF filled
    <3> QED BY <1>2, <1>3, <2>2, <2>3, ExceptSeq
  <2>5. ptrTemps' # <<>>
    BY <1>3, <2>4, EmptySeq
  <2>6. Accepted' = Accepted => StepInv(p)'
    BY <1>1, <1>2, <2>1, <2>4, <2>5 DEF StepInv, InContainer
  <2> QED BY <1>1, <1>2, <1>4, <2>1, <2>4, <2>6, TempStep
<1>5. CASE /\ ptrTemps' = Front(ptrTemps) /\ pointer' = Len(chain)
           /\ Goto(p, AfterSelection(p)) /\ pc[p] = "installPointer"
  <2>1. ptrTemps' \in Seq(Temporary) /\ Len(ptrTemps') = Len(ptrTemps) - 1
    BY <1>2, <1>3, <1>5, SubSeqProperties DEF Front
  <2>2. mode[p] = "temporary" => ptrTemps' # <<>>
    BY <1>2, <1>3, <2>1, EmptySeq
  <2>3. StepInv(p)' /\ GoesOn(p)
    BY <1>1, <1>5, <2>2, AfterSelectionKnown
  <2> QED BY <1>1, <1>2, <1>5, <2>1, <2>3, TempStep
<1> QED BY <1>4, <1>5 DEF InstallPointer

LEMMA DropPointerTempStep ==
  ASSUME PublicationInv, NEW p \in Procs, DropPointerTemp(p) PROVE PublicationInv'
<1>1. /\ pc[p] = "dropTemp" /\ "recover" \in Steps \ {"idle"}
      /\ ptrTemps' = Tail(ptrTemps) /\ Goto(p, "recover")
      /\ UNCHANGED <<lock, mode, ran, stage, marker, journal, source, runs, recorded,
                     chain, accTemp, pointer, commits, stops>>
  BY DEF DropPointerTemp, Steps
<1>2. /\ TypeOK /\ TempInv /\ marker /\ ptrTemps # <<>>
      /\ accTemp' \in SUBSET Temporary /\ ptrTemps \in Seq(Temporary)
      /\ \A t \in accTemp' : t.run = journal /\ runs[journal] = "PASS"
  BY <1>1 DEF PublicationInv, StepInv, TypeOK, TempInv
<1>3. ptrTemps' \in Seq(Temporary) /\ journal \in Accepted
  BY <1>1, <1>2, HeadTailProperties DEF TempInv
<1>4. pc'[p] = "recover" /\ GoesOn(p)
  BY <1>1, <1>2, Went
<1>5. StepInv(p)'
  BY <1>1, <1>2, <1>4 DEF StepInv
<1> QED BY <1>1, <1>2, <1>3, <1>4, <1>5, TempStep
--------------------------------------------------------------------------------
LEMMA AcquireStep ==
  ASSUME PublicationInv, NEW p \in Procs, Acquire(p) PROVE PublicationInv'
<1>1. /\ pc[p] = "idle" /\ lock \in {Nobody, Abandoned} /\ lock' = p
      /\ pc' = [pc EXCEPT ![p] = "preflight"]
      /\ mode' = [mode EXCEPT ![p] = "fresh"] /\ ran' = [ran EXCEPT ![p] = 0]
      /\ UNCHANGED <<commits, disk>> /\ stops' = stops
      /\ "preflight" \in Steps
  BY DEF Acquire, Goto, Steps
<1>2. TypeOK /\ LockInv
  BY DEF PublicationInv
<1>3. pc \in [Procs -> Steps] /\ \A q \in Procs : pc[q] = "idle"
  BY <1>1, <1>2, QualificationAssumption DEF LockInv, TypeOK
<1>4. /\ pc' \in [Procs -> Steps] /\ pc'[p] = "preflight"
      /\ \A q \in Procs \ {p} : pc'[q] = "idle"
  BY <1>1, <1>3
<1>5. LockInv'
  BY <1>1, <1>4 DEF LockInv
<1>6. /\ mode' \in [Procs -> {"fresh", "marker", "container", "temporary"}]
      /\ mode'[p] = "fresh" /\ ran' \in [Procs -> 0 .. PlanLength]
  <2>1. 0 \in 0 .. PlanLength
    BY QualificationAssumption
  <2> QED BY <1>1, <1>2, <2>1 DEF TypeOK
<1>7. TypeOK'
  BY <1>1, <1>2, <1>4, <1>6 DEF TypeOK, disk
<1>8. \A q \in Procs : StepInv(q)'
  BY <1>4, <1>6, IdleKnowsNothing
<1> QED BY <1>1, <1>5, <1>7, <1>8, DiskKept DEF PublicationInv

LEMMA CommitReceiptStep ==
  ASSUME PublicationInv, CommitReceipt PROVE PublicationInv'
<1> DEFINE new == [runs |-> Published \ CommittedRuns,
                   acceptances |-> DOMAIN chain \ CommittedAcceptances,
                   pointer |-> pointer]
           last == Len(commits) + 1
<1>1. /\ lock \in {Nobody, Abandoned} /\ Closed /\ Published # CommittedRuns
      /\ commits' = Append(commits, new)
      /\ UNCHANGED <<lock, stops, local, disk>>
  BY DEF CommitReceipt
<1>2. /\ TypeOK /\ LockInv /\ DiskInv /\ VerdictInv /\ ChainInv /\ TempInv /\ CommitInv
  BY DEF PublicationInv
<1>3. /\ UNCHANGED <<runs, source, chain, stage, marker, journal, recorded, accTemp, ptrTemps,
                     pointer, pc, mode, ran>>
      /\ lock' = lock /\ stops' = stops
  BY <1>1 DEF local, disk
<1>4. /\ ~marker /\ stage.dir = "none" /\ journal = NoRun
  BY <1>1, <1>2 DEF Closed, StagingEntries, DiskInv
<1>5. /\ Len(chain) \in Nat /\ DOMAIN chain = 1 .. Len(chain)
      /\ Len(commits) \in Nat /\ DOMAIN commits = 1 .. Len(commits)
      /\ NoRun \notin Accepted /\ NoRun \notin Runs
      /\ \A n \in DOMAIN chain : chain[n] \in Accepted /\ chain[n] \in Runs
  BY <1>2, ChainFacts
<1>6. pointer = Len(chain)
  BY <1>2, <1>4, <1>5 DEF ChainInv
<1>7. PICK r \in Runs \cup {NoRun} : SettledBut(r)
  BY <1>2 DEF CommitInv
<1>8. r \in Published /\ r \in Runs /\ Published \ CommittedRuns = {r}
  BY <1>1, <1>7 DEF SettledBut, Published
<1>9. DOMAIN chain \ CommittedAcceptances = {n \in DOMAIN chain : chain[n] = r}
  BY <1>7 DEF SettledBut
<1>10. new \in [runs : SUBSET Runs, acceptances : SUBSET Nat, pointer : Nat]
  <2>1. DOMAIN chain \ CommittedAcceptances \subseteq Nat /\ pointer \in Nat
    BY <1>5, <1>6
  <2>2. Published \ CommittedRuns \subseteq Runs
    BY <1>8
  <2> QED BY <2>1, <2>2
<1>11. /\ new.runs = {r} /\ new.acceptances = {n \in DOMAIN chain : chain[n] = r}
       /\ new.pointer = Len(chain)
  BY <1>6, <1>8, <1>9
<1>12. new.acceptances = {} <=> r \notin Accepted
  BY <1>11 DEF Accepted, ToSet
<1>13. CommittedPointer = Len(chain) - (IF r \in Accepted THEN 1 ELSE 0)
  BY <1>7 DEF SettledBut
<1> HIDE DEF new
<1>14. /\ commits' \in Seq([runs : SUBSET Runs, acceptances : SUBSET Nat, pointer : Nat])
       /\ Len(commits') = last /\ DOMAIN commits' = 1 .. last
       /\ commits'[last] = new
       /\ \A i \in DOMAIN commits : i \in DOMAIN commits' /\ commits'[i] = commits[i]
  <2>1. commits \in Seq([runs : SUBSET Runs, acceptances : SUBSET Nat, pointer : Nat])
    BY <1>2 DEF TypeOK
  <2>2. /\ commits' \in Seq([runs : SUBSET Runs, acceptances : SUBSET Nat, pointer : Nat])
        /\ Len(commits') = last /\ commits'[last] = new
        /\ \A i \in 1 .. Len(commits) : commits'[i] = commits[i]
    BY <1>1, <1>10, <2>1, AppendProperties
  <2>3. DOMAIN commits' = 1 .. last
    BY <2>2, LenProperties
  <2> QED BY <1>5, <2>2, <2>3
<1>15. \A i : i \in DOMAIN commits' <=> i \in DOMAIN commits \/ i = last
  BY <1>5, <1>14
<1>16. /\ CommittedRuns' = CommittedRuns \cup {r}
       /\ CommittedAcceptances' = CommittedAcceptances \cup new.acceptances
  BY <1>11, <1>14, <1>15 DEF CommittedRuns, CommittedAcceptances
<1>17. CommittedPointer' = Len(chain)
  <2>1. commits' # <<>>
    BY <1>5, <1>14
  <2>2. Last(commits') = new
    BY <1>14 DEF Last
  <2> QED BY <1>11, <2>1, <2>2 DEF CommittedPointer
<1>18. Published' = Published /\ Accepted' = Accepted
  BY <1>3 DEF Published, Accepted
<1>19. SettledBut(NoRun)'
  <2>1. CommittedRuns' = Published' \ {NoRun}
    BY <1>5, <1>7, <1>8, <1>16, <1>18 DEF SettledBut, Published
  <2>2. CommittedAcceptances' = {n \in DOMAIN chain' : chain'[n] # NoRun}
    BY <1>3, <1>5, <1>7, <1>11, <1>16 DEF SettledBut
  <2>3. CommittedPointer' = Len(chain') - (IF NoRun \in Accepted' THEN 1 ELSE 0)
    <3>1. (IF NoRun \in Accepted' THEN 1 ELSE 0) = 0
      BY <1>5, <1>18
    <3>2. Len(chain) - 0 = Len(chain)
      BY <1>5
    <3>3. CommittedPointer' = Len(chain') - 0
      BY <1>3, <1>17, <3>2
    <3> QED BY <3>1, <3>3
  <2> QED BY <1>5, <1>18, <2>1, <2>2, <2>3 DEF SettledBut
<1>20. ASSUME NEW i \in DOMAIN commits'
       PROVE  \E q \in CommittedRuns' :
                /\ ReceiptScopeOf(i, q)' /\ ReceiptParentOf(i, q)'
                /\ q \in Accepted' => commits'[i].pointer \in DOMAIN chain'
  <2>1. CASE i \in DOMAIN commits
    <3>1. PICK q \in CommittedRuns :
            /\ ReceiptScopeOf(i, q) /\ ReceiptParentOf(i, q)
            /\ q \in Accepted => commits[i].pointer \in DOMAIN chain
      BY <1>2, <2>1 DEF CommitInv
    <3>2. ReceiptScopeOf(i, q)' /\ ReceiptParentOf(i, q)'
      BY <1>3, <1>14, <1>18, <2>1, <3>1 DEF ReceiptScopeOf, ReceiptParentOf
    <3> QED BY <1>3, <1>14, <1>16, <1>18, <2>1, <3>1, <3>2
  <2>2. CASE i = last
    <3>1. source[r] = last - 1
      <4>1. r # NoRun /\ source[r] = Len(commits)
        BY <1>5, <1>7, <1>8 DEF SettledBut, HeadCommit
      <4>2. Len(commits) = last - 1
        BY <1>5
      <4> QED BY <4>1, <4>2
    <3>2. r \in Accepted => Len(chain) \in DOMAIN chain /\ chain[Len(chain)] = r
      <4>1. r \in Accepted => DOMAIN chain # {}
        BY DEF Accepted, ToSet
      <4> QED BY <1>5, <1>7, <4>1 DEF SettledBut
    <3>3. ReceiptScopeOf(i, r)'
      BY <1>3, <1>11, <1>14, <1>18, <2>2, <3>2 DEF ReceiptScopeOf
    <3>4. ReceiptParentOf(i, r)'
      BY <1>3, <2>2, <3>1 DEF ReceiptParentOf
    <3> QED BY <1>3, <1>11, <1>14, <1>16, <1>18, <2>2, <3>2, <3>3, <3>4
  <2> QED BY <1>15, <2>1, <2>2
<1>21. PointerHistoryMonotone'
  <2>1. ASSUME NEW i \in DOMAIN commits'
        PROVE  commits'[i].pointer =
                 (IF i = 1 THEN 0 ELSE commits'[i - 1].pointer)
                   + (IF commits'[i].acceptances = {} THEN 0 ELSE 1)
    <3>1. CASE i \in DOMAIN commits
      <4>1. i # 1 => i - 1 \in DOMAIN commits
        BY <1>5, <3>1
      <4>2. commits[i].pointer =
              (IF i = 1 THEN 0 ELSE commits[i - 1].pointer)
                + (IF commits[i].acceptances = {} THEN 0 ELSE 1)
        BY <1>2, <3>1 DEF CommitInv, PointerHistoryMonotone
      <4> QED BY <1>14, <3>1, <4>1, <4>2
    <3>2. CASE i = last
      <4>1. (IF i = 1 THEN 0 ELSE commits'[i - 1].pointer) = CommittedPointer
        <5>1. CASE Len(commits) = 0
          <6>1. commits = <<>>
            BY <1>2, <5>1, EmptySeq DEF TypeOK
          <6> QED BY <3>2, <5>1, <6>1 DEF CommittedPointer
        <5>2. CASE Len(commits) # 0
          <6>1. i # 1 /\ i - 1 = Len(commits) /\ Len(commits) \in DOMAIN commits
            BY <1>5, <3>2, <5>2
          <6>2. commits # <<>>
            BY <5>2
          <6>3. commits'[i - 1] = Last(commits)
            BY <1>14, <6>1 DEF Last
          <6> QED BY <6>1, <6>2, <6>3 DEF CommittedPointer
        <5> QED BY <5>1, <5>2
      <4>2. (IF new.acceptances = {} THEN 0 ELSE 1) = (IF r \in Accepted THEN 1 ELSE 0)
        BY <1>12
      <4>3. Len(chain) = CommittedPointer + (IF r \in Accepted THEN 1 ELSE 0)
        <5>1. CASE r \in Accepted
          BY <1>5, <1>13, <5>1
        <5>2. CASE r \notin Accepted
          BY <1>5, <1>13, <5>2
        <5> QED BY <5>1, <5>2
      <4>4. commits'[i] = new
        BY <1>14, <3>2
      <4> QED BY <1>11, <4>1, <4>2, <4>3, <4>4
    <3> QED BY <1>15, <3>1, <3>2
  <2> QED BY <2>1 DEF PointerHistoryMonotone
<1>22. CommitInv'
  BY <1>3, <1>4, <1>19, <1>20, <1>21 DEF CommitInv
<1>23. TypeOK' /\ LockInv' /\ DiskInv' /\ VerdictInv' /\ ChainInv' /\ TempInv'
  <2>1. TypeOK'
    BY <1>2, <1>3, <1>14 DEF TypeOK
  <2>2. LockInv' /\ DiskInv'
    BY <1>2, <1>3 DEF LockInv, DiskInv
  <2> QED BY <1>2, <1>3, <1>18, <2>1, <2>2 DEF VerdictInv, ChainInv, TempInv
<1>24. \A p \in Procs : StepInv(p)'
  <2>1. ASSUME NEW p \in Procs PROVE StepInv(p)'
    <3>1. pc'[p] = "idle"
      BY <1>1, <1>2, <1>3, QualificationAssumption DEF LockInv
    <3> QED BY <3>1, IdleKnowsNothing
  <2> QED BY <2>1
<1> QED BY <1>22, <1>23, <1>24 DEF PublicationInv
--------------------------------------------------------------------------------
LEMMA ContinueStep ==
  ASSUME PublicationInv, NEW p \in Procs, Continue(p) PROVE PublicationInv'
<1>1. CASE Preflight(p) \/ ValidatePrefix(p)
  BY <1>1, PreflightStep, ValidatePrefixStep
<1>2. CASE FinishAcceptanceTemp(p) \/ FinishPointerTemp(p) \/ DropPointerTemp(p)
  BY <1>2, FinishAcceptanceTempStep, FinishPointerTempStep, DropPointerTempStep
<1>3. CASE RecoverAttempt(p) \/ DiscardPreIdentity(p)
  BY <1>3, RecoverAttemptStep, DiscardPreIdentityStep
<1>4. CASE AdmitAttempt(p) \/ WriteAttempt(p) \/ CreateWork(p) \/ Execute(p)
  BY <1>4, AdmitAttemptStep, WriteAttemptStep, CreateWorkStep, ExecuteStep
<1>5. CASE \E status \in {"PASS", "FAIL"} : StageRun(p, status) \/ PublishRun(p, status)
  BY <1>5, StageRunStep, PublishRunStep
<1>6. CASE CloseFailed(p) \/ MoveJournal(p) \/ RemoveStage(p)
  BY <1>6, CloseFailedStep, MoveJournalStep, RemoveStageStep
<1>7. CASE WriteAcceptance(p) \/ ReplacePointer(p) \/ InstallPointer(p) \/ Finish(p)
  BY <1>7, WriteAcceptanceStep, ReplacePointerStep, InstallPointerStep, FinishStep
<1> QED BY <1>1, <1>2, <1>3, <1>4, <1>5, <1>6, <1>7 DEF Continue

LEMMA NextPublication ==
  ASSUME PublicationInv, [Next]_vars PROVE PublicationInv'
<1>1. CASE UNCHANGED vars
  <2>1. UNCHANGED <<disk, commits, lock, pc, mode, ran, stops>>
    BY <1>1 DEF vars, disk
  <2>2. /\ lock' = lock /\ pc' = pc /\ mode' = mode /\ ran' = ran /\ stage' = stage
        /\ marker' = marker /\ journal' = journal /\ source' = source /\ runs' = runs
        /\ recorded' = recorded /\ chain' = chain /\ accTemp' = accTemp
        /\ ptrTemps' = ptrTemps /\ pointer' = pointer /\ commits' = commits
        /\ stops' = stops
    BY <1>1 DEF vars
  <2>3. LockInv'
    BY <2>2 DEF PublicationInv, LockInv
  <2>4. TypeOK'
    BY <2>2 DEF PublicationInv, TypeOK
  <2>5. \A p \in Procs : StepInv(p)'
    <3>1. Accepted' = Accepted /\ Published' = Published /\ (InContainer' <=> InContainer)
      BY <2>2 DEF Accepted, Published, InContainer
    <3>2. ASSUME NEW p \in Procs PROVE StepInv(p)'
      <4>1. StepInv(p)
        BY DEF PublicationInv
      <4> QED BY <2>2, <3>1, <4>1 DEF StepInv
    <3> QED BY <3>2
  <2> QED BY <2>1, <2>3, <2>4, <2>5, DiskKept DEF PublicationInv
<1>2. ASSUME NEW p \in Procs, Acquire(p) \/ Continue(p) \/ Stop(p) PROVE PublicationInv'
  BY <1>2, AcquireStep, ContinueStep, StopStep
<1>3. CASE CommitReceipt
  BY <1>3, CommitReceiptStep
<1> QED BY <1>1, <1>2, <1>3 DEF Next

(* Between any two file operations, and whatever interrupts them, the       *)
(* receipts on disk, the journal, the temporary files and the commits fit   *)
(* together as the recovery of p1a.rs relies on.                            *)
THEOREM PublicationHolds == Spec => []PublicationInv
<1>1. PublicationInv /\ [Next]_vars => PublicationInv'
  BY NextPublication
<1> QED BY InitPublication, <1>1, PTL DEF Spec

(* The pointer is behind the newest acceptance by one at most, and only     *)
(* while the journal names the run accepted last: replace_pointer_atomically *)
(* can be completed from what is on disk.                                   *)
THEOREM PointerLagIsTold == Spec => []LaggingPointerIsJournalled
<1>1. PublicationInv => LaggingPointerIsJournalled
  <2> SUFFICES ASSUME PublicationInv PROVE LaggingPointerIsJournalled
    OBVIOUS
  <2>1. TypeOK /\ ChainInv /\ TempInv
    BY DEF PublicationInv
  <2>2. pointer # Len(chain) => pointer = Len(chain) - 1 /\ journal = Last(chain)
    BY <2>1 DEF ChainInv, Last
  <2>3. ptrTemps # <<>> \/ accTemp # {} => journal # NoRun
    BY <2>1, ChainFacts DEF TypeOK, TempInv, Temporary
  <2> QED BY <2>1, <2>2, <2>3 DEF LaggingPointerIsJournalled
<1> QED BY PublicationHolds, <1>1, PTL

LEMMA ClosedIsSettled ==
  ASSUME PublicationInv, Closed, Published = CommittedRuns
  PROVE  /\ TerminalRunsValid(NoRun) /\ NamespaceCommitted
         /\ chain # <<>> => SelectedReceiptValid
<1>1. /\ TypeOK /\ DiskInv /\ VerdictInv /\ ChainInv /\ CommitInv /\ SettledBut(NoRun)
  BY AllSettled DEF PublicationInv
<1>2. /\ Len(chain) \in Nat /\ DOMAIN chain = 1 .. Len(chain)
      /\ Accepted \subseteq Runs /\ NoRun \notin Runs /\ NoRun \notin Accepted
      /\ \A n \in DOMAIN chain : chain[n] \in Accepted /\ chain[n] \in Runs
  BY <1>1, ChainFacts
<1>3. journal = NoRun
  BY <1>1 DEF Closed, StagingEntries, DiskInv
<1>4. TerminalRunsValid(NoRun)
  <2>1. \A r \in Accepted : r \in Published /\ runs[r] = "PASS"
    BY <1>1, <1>2 DEF VerdictInv, Published
  <2>2. \A r \in Published : /\ runs[r] = "PASS" <=> r \in Accepted
                             /\ runs[r] = "PASS" => recorded[r] = PlanLength
    BY <1>1, <1>2, <1>3 DEF VerdictInv, Published
  <2> QED BY <2>1, <2>2 DEF TerminalRunsValid
<1>5. pointer = Len(chain)
  BY <1>1, <1>2, <1>3 DEF ChainInv
<1>6. NamespaceCommitted
  <2>1. DOMAIN chain = CommittedAcceptances
    BY <1>1, <1>2 DEF SettledBut
  <2>2. pointer = CommittedPointer
    <3>1. (IF NoRun \in Accepted THEN 1 ELSE 0) = 0
      BY <1>2
    <3>2. CommittedPointer = Len(chain) - 0
      BY <1>1, <3>1 DEF SettledBut
    <3> QED BY <1>2, <1>5, <3>2
  <2>3. \A i \in DOMAIN commits : \E r \in Published : ReceiptScopeOf(i, r) /\ ReceiptParentOf(i, r)
    BY <1>1 DEF CommitInv
  <2>4. PointerHistoryMonotone
    BY <1>1 DEF CommitInv
  <2> QED BY <2>1, <2>2, <2>3, <2>4 DEF NamespaceCommitted
<1>7. chain # <<>> => SelectedReceiptValid
  <2>1. chain # <<>> => Len(chain) \in DOMAIN chain
    BY <1>1, <1>2, EmptySeq DEF TypeOK
  <2>2. chain # <<>> => runs[Last(chain)] = "PASS"
    BY <1>1, <1>2, <2>1 DEF VerdictInv, Last
  <2> QED BY <1>5, <2>2 DEF SelectedReceiptValid
<1> QED BY <1>4, <1>6, <1>7

(* One commit of the owner settles whatever a closed namespace holds, and a *)
(* settled namespace passes check_selected: no sequence of interruptions    *)
(* leaves two receipts for one commit, or one that cannot be verified.      *)
THEOREM ClosedIsOneCommitAway == Spec => []OneCommitSettles
<1>1. PublicationInv => OneCommitSettles
  <2> SUFFICES ASSUME PublicationInv PROVE OneCommitSettles
    OBVIOUS
  <2>1. Cardinality(Published \ CommittedRuns) <= 1
    <3>1. PICK r : SettledBut(r)
      BY DEF PublicationInv, CommitInv
    <3>2. Published \ CommittedRuns \subseteq {r}
      BY <3>1 DEF SettledBut
    <3>3. IsFiniteSet({r}) /\ Cardinality({r}) = 1
      BY FS_Singleton
    <3> QED BY <3>2, <3>3, FS_Subset
  <2> QED BY <2>1, ClosedIsSettled DEF OneCommitSettles, SelectedVerifies
<1> QED BY PublicationHolds, <1>1, PTL
--------------------------------------------------------------------------------
(* The steps of the log.                                                    *)
LogKept == UNCHANGED <<runs, chain, pointer>>

LEMMA PublishCloses ==
  ASSUME PublicationInv, NEW p \in Procs, NEW status \in {"PASS", "FAIL"}, PublishRun(p, status)
  PROVE  [Log!Next]_(Log!logVars)
<1>1. journal \in Runs
  <2>1. pc[p] \in {"publishPass", "publishFail"}
    BY DEF PublishRun
  <2> QED BY <2>1, InsideContainer
<1>2. /\ runs[journal] = "none" /\ UNCHANGED <<chain, pointer>>
      /\ runs' = [runs EXCEPT ![journal] = status] \/ runs' = runs
  BY DEF PublishRun
<1> QED BY <1>1, <1>2 DEF Log!Next, Log!Close, Log!logVars

LEMMA AcceptsOne ==
  ASSUME PublicationInv, journal # NoRun, runs[journal] = "PASS", journal \notin Accepted,
         chain' = Append(chain, journal), UNCHANGED <<runs, pointer>>
  PROVE  [Log!Next]_(Log!logVars)
<1>1. TypeOK /\ ChainInv
  BY DEF PublicationInv
<1>2. journal \in Runs /\ pointer = Len(chain)
  BY <1>1 DEF TypeOK, ChainInv
<1> QED BY <1>2 DEF Log!Next, Log!Accept, Log!logVars, Log!ToSet, Accepted, ToSet

LEMMA SelectsNewest ==
  ASSUME PublicationInv, pointer' = Len(chain), UNCHANGED <<runs, chain>>
  PROVE  [Log!Next]_(Log!logVars)
<1>1. TypeOK /\ Len(chain) \in Nat
  BY ChainFacts DEF PublicationInv
<1>2. pointer = Len(chain) \/ pointer < Len(chain)
  BY <1>1 DEF TypeOK
<1> QED BY <1>2 DEF Log!Next, Log!Select, Log!logVars

LEMMA LogContinues ==
  ASSUME PublicationInv, NEW p \in Procs, Continue(p)
  PROVE  [Log!Next]_(Log!logVars)
<1>1. LogKept => [Log!Next]_(Log!logVars)
  BY DEF LogKept, Log!logVars
<1>2. CASE Preflight(p) \/ ValidatePrefix(p) \/ FinishPointerTemp(p) \/ DropPointerTemp(p)
  BY <1>1, <1>2
     DEF LogKept, Preflight, ValidatePrefix, FinishPointerTemp, DropPointerTemp, Refuse, disk
<1>3. CASE RecoverAttempt(p) \/ DiscardPreIdentity(p) \/ AdmitAttempt(p)
  BY <1>1, <1>3
     DEF LogKept, RecoverAttempt, RecoverPublished, DiscardPreIdentity, AdmitAttempt, disk
<1>4. CASE WriteAttempt(p) \/ CreateWork(p) \/ Execute(p) \/ CloseFailed(p)
  BY <1>1, <1>4 DEF LogKept, WriteAttempt, CreateWork, Execute, CloseFailed
<1>5. CASE MoveJournal(p) \/ RemoveStage(p) \/ ReplacePointer(p) \/ Finish(p)
  BY <1>1, <1>5 DEF LogKept, MoveJournal, RemoveStage, ReplacePointer, Finish
<1>6. ASSUME NEW status \in {"PASS", "FAIL"}, StageRun(p, status) \/ PublishRun(p, status)
      PROVE  [Log!Next]_(Log!logVars)
  <2>1. CASE StageRun(p, status)
    BY <1>1, <2>1 DEF LogKept, StageRun
  <2> QED BY <1>6, <2>1, PublishCloses
<1>7. CASE FinishAcceptanceTemp(p)
  <2>1. UNCHANGED <<runs, pointer>>
    BY <1>7 DEF FinishAcceptanceTemp
  <2>2. CASE chain' = chain
    BY <1>1, <2>1, <2>2 DEF LogKept
  <2>3. CASE \E t \in accTemp : /\ FinalizationJournalOf(t) /\ t.run \notin Accepted
                                /\ chain' = Append(chain, t.run)
    <3>1. PICK t \in accTemp : /\ FinalizationJournalOf(t) /\ t.run \notin Accepted
                               /\ chain' = Append(chain, t.run)
      BY <2>3
    <3>2. TypeOK /\ TempInv
      BY DEF PublicationInv
    <3>3. journal = t.run /\ journal # NoRun /\ runs[journal] = "PASS"
      BY <3>1, <3>2, ChainFacts DEF TempInv, TypeOK, Temporary
    <3> QED BY <2>1, <3>1, <3>3, AcceptsOne
  <2> QED BY <1>7, <2>2, <2>3 DEF FinishAcceptanceTemp
<1>8. CASE WriteAcceptance(p)
  <2>1. UNCHANGED <<runs, pointer>>
    BY <1>8 DEF WriteAcceptance
  <2>2. CASE chain' = chain
    BY <1>1, <2>1, <2>2 DEF LogKept
  <2>3. CASE pc[p] = "installAcceptance" /\ chain' = Append(chain, journal)
    <3>1. journal # NoRun /\ runs[journal] = "PASS" /\ journal \notin Accepted
      BY <2>3 DEF PublicationInv, StepInv
    <3> QED BY <2>1, <2>3, <3>1, AcceptsOne
  <2> QED BY <1>8, <2>2, <2>3 DEF WriteAcceptance
<1>9. CASE InstallPointer(p)
  <2>1. UNCHANGED <<runs, chain>> /\ (pointer' = pointer \/ pointer' = Len(chain))
    BY <1>9 DEF InstallPointer
  <2> QED BY <1>1, <2>1, SelectsNewest DEF LogKept
<1> QED BY <1>2, <1>3, <1>4, <1>5, <1>6, <1>7, <1>8, <1>9 DEF Continue

(* The publication implements the acceptance log: one verdict per run, an   *)
(* append-only chain of passed runs, a pointer that only goes forward along *)
(* it, whatever interrupts the command.                                     *)
THEOREM PublicationImplementsLog == Spec => ImplementsAcceptanceLog
<1>1. Init => Log!Init
  BY DEF Init, Log!Init
<1>2. PublicationInv /\ [Next]_vars => [Log!Next]_(Log!logVars)
  <2> SUFFICES ASSUME PublicationInv, [Next]_vars PROVE [Log!Next]_(Log!logVars)
    OBVIOUS
  <2>1. CASE UNCHANGED vars
    BY <2>1 DEF vars, Log!logVars
  <2>2. ASSUME NEW p \in Procs, Acquire(p) \/ Continue(p) \/ Stop(p)
        PROVE  [Log!Next]_(Log!logVars)
    <3>1. CASE Acquire(p) \/ Stop(p)
      BY <3>1 DEF Acquire, Stop, disk, Log!logVars
    <3> QED BY <2>2, <3>1, LogContinues
  <2>3. CASE CommitReceipt
    BY <2>3 DEF CommitReceipt, disk, Log!logVars
  <2> QED BY <2>1, <2>2, <2>3 DEF Next
<1> QED BY PublicationHolds, <1>1, <1>2, PTL DEF Spec, ImplementsAcceptanceLog, Log!Spec
================================================================================
