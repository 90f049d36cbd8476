---------------------------- MODULE AmendmentProofs ----------------------------
(***************************************************************************)
(* The contract amendment for any number of processes, attempts and        *)
(* approvals: an attempt is closed once, the selected history only grows,  *)
(* one publication is open at a time, and a committed box verifies.        *)
(***************************************************************************)
EXTENDS Amendment, WellFoundedInduction, SequenceTheorems, TLAPS

(* A process that has not created its own container yet.  (In "remove" the  *)
(* listed run it closes is its own only after its attempt has failed.)      *)
Early(p) ==
  \/ pc[p] \in {"list", "removeEmpty", "next", "recovery", "buildRecovery",
                "publishRecovery", "dropRecovery", "create"}
  \/ pc[p] = "remove" /\ group[p] # own[p]

(* A run identity that a container may bear.                                *)
Known(r) == r <= attempts /\ \A p \in Procs : Early(p) => r # own[p]

(* Run identities are drawn by one process each, and nothing on disk or in  *)
(* a list bears one before its process has made its container.              *)
IdentityInv ==
  /\ \A p, q \in Procs : own[p] = own[q] /\ own[p] # 0 => p = q
  /\ \A p \in Procs : own[p] <= attempts
  /\ \A c \in staging : Known(c.run)
  /\ \A p \in Procs : \A name \in empties[p] \cup todo[p] : Known(name.run)
  /\ \A p \in Procs : group[p] # 0 => group[p] \in Runs /\ Known(group[p])

(* Containers differ in name, an attempt is in a work container only, and a *)
(* fail container is made once.                                             *)
ContainerInv ==
  /\ \A c, d \in staging : NameOf(c) = NameOf(d) => c = d
  /\ \A c \in staging : c.attempt # "none" => c.kind = "work"
  /\ \A c \in staging :
       c.kind = "fail" /\ c.run = own[c.by] =>
         pc[c.by] \in {"buildFail", "publishFail", "dropFail", "remove"}

(* What a process knows in prepare.                                         *)
PrepareInv(p) ==
  /\ pc[p] \in {"recovery", "buildRecovery", "publishRecovery", "dropRecovery", "remove"} =>
       group[p] # 0
  /\ pc[p] \in {"dropRecovery", "remove"} => runs[group[p]] # "none"
  /\ pc[p] \in {"attempt", "rename", "emit", "publish", "dropAttempt", "dropWork", "fail",
                "buildFail", "publishFail", "dropFail"} => own[p] # 0
  /\ pc[p] \in {"attempt", "rename"} =>
       \A c \in Named(Name(p, own[p], "work")) : c.attempt # "whole"
  /\ pc[p] \in {"dropAttempt", "dropFail"} => runs[own[p]] # "none"

RunsInv ==
  /\ RunsTypeOK /\ IdentityInv /\ ContainerInv
  /\ \A p \in Procs : PrepareInv(p)

(* finalize and prepare do not overlap, and what is reported is not touched *)
(* before it is committed.                                                  *)
AloneInv ==
  /\ fin # "idle" \/ reported => NobodyPrepares
  /\ reported => fin = "idle"

(* What was approved was committed and waits for review.                    *)
ApprovalInv ==
  \A k \in DOMAIN approvals :
    /\ runs[approvals[k]] = "AWAITING_REVIEW"
    /\ approvals[k] \in CommittedRuns

ChainInv ==
  /\ AcceptanceChainValid
  /\ \A n \in DOMAIN chain : chain[n].approval <= Len(approvals)
  /\ \A n \in CommittedAcceptances : n \in DOMAIN chain /\ CommittedPair(n)

PointerInv ==
  /\ pointer \in {Len(chain), Len(chain) - 1}
  /\ Unselected => Len(chain) \notin CommittedAcceptances
  /\ Len(ptrTemps) <= 1

(* The box is checked on top of the commit of what is selected, and stays.  *)
CommitInv ==
  /\ \A i \in DOMAIN commits : commits[i].approval # 0 => ~commits[i].checked
  /\ commits # <<>> /\ Last(commits).acceptances # {} =>
       /\ Last(commits).acceptances = {Len(chain)} /\ ~Checked
       /\ Last(commits).approval = 0
       /\ pointer = Len(chain) /\ CommittedPointer = pointer
  /\ Checked => pointer = Len(chain) /\ chain # <<>> /\ CheckboxCommitted(pointer)

(* The last acceptance is the only open one, bound to HEAD.                 *)
Open ==
  /\ chain # <<>> /\ HeadCommit = Last(chain).commit
  /\ DOMAIN chain \ CommittedAcceptances = {Len(chain)}

FinalizeInv ==
  /\ fin # "idle" => approvals # <<>>
  /\ fin \in {"publication", "status"} => chain # <<>>
  /\ fin \in {"acceptance", "link"} =>
       /\ SelectedPredecessor /\ DOMAIN chain = CommittedAcceptances
       /\ ApprovalCommitOf(HeadCommit, LatestApproval)
  /\ fin \in {"unlink", "select", "fill", "install", "rollback"} =>
       Open /\ pointer = Len(chain) - 1
  /\ reported => Open /\ pointer = Len(chain)
  /\ fin \in {"acceptance", "link", "unlink", "select"} => ptrTemps = <<>>
  /\ fin \in {"fill", "install"} => Len(ptrTemps) = 1

AmendmentInv ==
  /\ TypeOK /\ RunsInv /\ AloneInv /\ ApprovalInv /\ ChainInv /\ PointerInv
  /\ CommitInv /\ FinalizeInv
--------------------------------------------------------------------------------
(* prepare: names, containers and run identities.                           *)

Labels == [run : Runs, kind : Kinds, by : Procs]

LEMMA NameFacts ==
  ASSUME NEW c \in Container
  PROVE  /\ NameOf(c) \in Labels
         /\ NameOf(c).run = c.run /\ NameOf(c).kind = c.kind /\ NameOf(c).by = c.by
BY DEF NameOf, Container, Labels

LEMMA NamedFacts ==
  ASSUME RunsTypeOK, NEW name \in Labels, NEW c \in Named(name)
  PROVE  /\ c \in staging /\ c \in Container /\ NameOf(c) = name
         /\ c.run = name.run /\ c.kind = name.kind /\ c.by = name.by
BY NameFacts DEF Named, RunsTypeOK

LEMMA FreshFacts ==
  ASSUME NEW name \in Labels
  PROVE  /\ Fresh(name) \in Container /\ NameOf(Fresh(name)) = name
         /\ Fresh(name).attempt = "none" /\ Fresh(name).kind = name.kind
         /\ Fresh(name).run = name.run /\ Fresh(name).by = name.by
BY DEF Fresh, NameOf, Container, Labels

(* Every process but p is where it was.                                     *)
OthersStand(p) ==
  \A q \in Procs \ {p} :
    /\ pc'[q] = pc[q] /\ own'[q] = own[q] /\ group'[q] = group[q]
    /\ empties'[q] = empties[q] /\ todo'[q] = todo[q]

(* A run that may be named after a step of p.                               *)
Nameable(p, r) == r \in Runs /\ (Known(r) \/ (r = own[p] /\ ~Early(p)'))

(* What a step of prepare keeps, of the runs and of the attempts.           *)
RunsKept == \A r \in Runs : runs[r] # "none" => runs'[r] = runs[r]
AttemptsKept ==
  \A c \in staging :
    c.attempt = "whole" /\ runs'[c.run] = "none" =>
      \E d \in staging' : NameOf(d) = NameOf(c) /\ d.attempt = "whole"
NoNewAttempts(p) ==
  \A c \in staging' :
    c.attempt = "whole" /\ c.by # p =>
      \E d \in staging : NameOf(d) = NameOf(c) /\ d.attempt = "whole"

LEMMA KnownStays ==
  ASSUME RunsInv, NEW p \in Procs, OthersStand(p), attempts' = attempts,
         own'[p] = own[p] \/ ~Early(p)',
         Early(p)' => Early(p),
         NEW r, Nameable(p, r)
  PROVE  Known(r)'
<1>1. \A q \in Procs \ {p} : (Early(q)' <=> Early(q)) /\ own'[q] = own[q]
  BY DEF OthersStand, Early
<1>2. CASE Known(r)
  BY <1>1, <1>2 DEF Known
<1>3. CASE r = own[p] /\ ~Early(p)'
  <2>1. r # 0 /\ r <= attempts
    BY <1>3, AmendmentRunsAssumption DEF Nameable, Runs, RunsInv, IdentityInv
  <2>2. \A q \in Procs \ {p} : own[q] # r
    BY <1>3, <2>1 DEF RunsInv, IdentityInv
  <2> QED BY <1>1, <1>3, <2>1, <2>2 DEF Known
<1> QED BY <1>2, <1>3 DEF Nameable

(* A step of p keeps the invariant if what it writes bears known names and  *)
(* what it knows then is true.                                              *)
LEMMA StepKeeps ==
  ASSUME RunsInv, NEW p \in Procs, OthersStand(p), attempts' = attempts,
         RunsTypeOK', RunsKept, NoNewAttempts(p), ContainerInv',
         own'[p] = own[p] \/ (own'[p] = 0 /\ ~Early(p)'),
         Early(p)' => Early(p),
         \A c \in staging' : Nameable(p, c.run),
         \A name \in empties'[p] \cup todo'[p] : Nameable(p, name.run),
         group'[p] # 0 => Nameable(p, group'[p]),
         PrepareInv(p)'
  PROVE  RunsInv'
<1>1. \A r : Nameable(p, r) => Known(r)'
  BY KnownStays
<1>2. \A q \in Procs \ {p} :
        /\ \A name \in empties'[q] \cup todo'[q] : Known(name.run)'
        /\ (group[q] # 0 => group[q] \in Runs /\ Known(group[q]))'
  <2> SUFFICES ASSUME NEW q \in Procs \ {p}
               PROVE  /\ \A name \in empties'[q] \cup todo'[q] : Known(name.run)'
                      /\ (group[q] # 0 => group[q] \in Runs /\ Known(group[q]))'
    OBVIOUS
  <2>1. /\ empties'[q] = empties[q] /\ todo'[q] = todo[q] /\ group'[q] = group[q]
        /\ empties[q] \subseteq Labels /\ todo[q] \subseteq Labels
    BY DEF OthersStand, RunsInv, RunsTypeOK, Labels
  <2>2. \A name \in Labels : name.run \in Runs
    BY DEF Labels
  <2>3. /\ \A name \in empties[q] \cup todo[q] : Known(name.run)
        /\ group[q] # 0 => group[q] \in Runs /\ Known(group[q])
    BY DEF RunsInv, IdentityInv
  <2> QED BY <1>1, <2>1, <2>2, <2>3 DEF Nameable, Known
<1>3. IdentityInv'
  <2>1. \A q, r \in Procs : own'[q] = own'[r] /\ own'[q] # 0 => q = r
    BY DEF OthersStand, RunsInv, IdentityInv
  <2>2. \A q \in Procs : own'[q] <= attempts'
    BY AmendmentRunsAssumption DEF OthersStand, RunsInv, IdentityInv, RunsTypeOK
  <2>3. (group[p] # 0 => group[p] \in Runs /\ Known(group[p]))'
    BY <1>1 DEF Nameable, Known
  <2>4. \A c \in staging' : Known(c.run)'
    BY <1>1
  <2>5. \A q \in Procs : \A name \in empties'[q] \cup todo'[q] : Known(name.run)'
    BY <1>1, <1>2
  <2>6. \A q \in Procs : (group[q] # 0 => group[q] \in Runs /\ Known(group[q]))'
    BY <1>2, <2>3
  <2> QED BY <2>1, <2>2, <2>4, <2>5, <2>6 DEF IdentityInv
<1>4. \A q \in Procs \ {p} : PrepareInv(q)'
  <2> SUFFICES ASSUME NEW q \in Procs \ {p} PROVE PrepareInv(q)'
    OBVIOUS
  <2>1. /\ pc'[q] = pc[q] /\ own'[q] = own[q] /\ group'[q] = group[q] /\ PrepareInv(q)
        /\ group[q] # 0 => group[q] \in Runs
        /\ own[q] \in 0 .. MaxRuns
    BY DEF OthersStand, RunsInv, IdentityInv, RunsTypeOK
  <2>2. group[q] # 0 /\ runs[group[q]] # "none" => runs'[group[q]] # "none"
    BY <2>1 DEF RunsKept
  <2>3. own[q] # 0 /\ runs[own[q]] # "none" => runs'[own[q]] # "none"
    BY <2>1, AmendmentRunsAssumption DEF RunsKept, Runs
  <2>4. own[q] # 0 /\ (\A c \in Named(Name(q, own[q], "work")) : c.attempt # "whole") =>
          \A c \in Named(Name(q, own[q], "work"))' : c.attempt # "whole"
    <3> SUFFICES ASSUME own[q] # 0,
                        \A c \in Named(Name(q, own[q], "work")) : c.attempt # "whole",
                        NEW c \in staging', NameOf(c) = Name(q, own[q], "work"),
                        c.attempt = "whole"
                 PROVE  FALSE
      BY <2>1 DEF Named, Name
    <3>1. c.by = q
      BY DEF NameOf, Name
    <3>2. PICK d \in staging : NameOf(d) = NameOf(c) /\ d.attempt = "whole"
      BY <3>1 DEF NoNewAttempts
    <3> QED BY <3>2 DEF Named
  <2>5. pc[q] \in {"dropRecovery", "remove"} => group[q] # 0
    BY <2>1 DEF PrepareInv
  <2>6. pc[q] \in {"attempt", "rename", "dropAttempt", "dropFail"} => own[q] # 0
    BY <2>1 DEF PrepareInv
  <2> QED BY <2>1, <2>2, <2>3, <2>4, <2>5, <2>6 DEF PrepareInv, Name, Named
<1> QED BY <1>3, <1>4 DEF RunsInv
--------------------------------------------------------------------------------
(* What a step does below .staging.                                         *)

Shaped ==
  /\ staging' \subseteq Container
  /\ \A c, d \in staging' : NameOf(c) = NameOf(d) => c = d
  /\ \A c \in staging' : c.attempt # "none" => c.kind = "work"
SameNames == \A c \in staging' : \E d \in staging : NameOf(d) = NameOf(c)

LEMMA Shrunk ==
  ASSUME RunsInv, staging' \subseteq staging
  PROVE  Shaped /\ SameNames /\ \A p : NoNewAttempts(p)
BY DEF RunsInv, RunsTypeOK, ContainerInv, Shaped, SameNames, NoNewAttempts

LEMMA Replaced ==
  ASSUME RunsInv, NEW c \in staging, NEW d \in Container, NameOf(d) = NameOf(c),
         d.attempt = "none" \/ d.kind = "work",
         staging' = (staging \ {c}) \cup {d}
  PROVE  /\ Shaped /\ SameNames
         /\ \A p : c.by = p \/ d.attempt \in {"none", c.attempt} => NoNewAttempts(p)
<1>1. /\ staging \subseteq Container
      /\ \A x, y \in staging : NameOf(x) = NameOf(y) => x = y
      /\ \A x \in staging : x.attempt # "none" => x.kind = "work"
  BY DEF RunsInv, RunsTypeOK, ContainerInv
<1>2. Shaped /\ SameNames
  BY <1>1 DEF Shaped, SameNames
<1>3. d.by = c.by
  BY <1>1, NameFacts
<1>4. ASSUME NEW p, c.by = p \/ d.attempt \in {"none", c.attempt}
      PROVE  NoNewAttempts(p)
  BY <1>1, <1>3, <1>4 DEF NoNewAttempts
<1> QED BY <1>2, <1>4

LEMMA Added ==
  ASSUME RunsInv, NEW name \in Labels, Gone(name), staging' = staging \cup {Fresh(name)}
  PROVE  /\ Shaped /\ \A p : NoNewAttempts(p)
         /\ \A c \in staging' : c \in staging \/ NameOf(c) = name
<1>1. /\ staging \subseteq Container
      /\ \A x, y \in staging : NameOf(x) = NameOf(y) => x = y
      /\ \A x \in staging : x.attempt # "none" => x.kind = "work"
  BY DEF RunsInv, RunsTypeOK, ContainerInv
<1>2. \A x \in staging : NameOf(x) # name
  BY DEF Gone, Named
<1> QED BY <1>1, <1>2, FreshFacts DEF Shaped, NoNewAttempts

FailSteps == {"buildFail", "publishFail", "dropFail", "remove"}

LEMMA ContainersKept ==
  ASSUME RunsInv, NEW p \in Procs, OthersStand(p), Shaped,
         own'[p] = own[p] \/ own'[p] = 0,
         \A c \in staging' :
            \/ \E d \in staging : NameOf(d) = NameOf(c)
            \/ c.kind # "fail"
            \/ c.by = p /\ pc'[p] = "buildFail",
         pc[p] \in FailSteps /\ own'[p] = own[p] => pc'[p] \in FailSteps \/ Early(p)
  PROVE  ContainerInv'
<1> SUFFICES ASSUME NEW c \in staging', c.kind = "fail", c.run = own'[c.by]
             PROVE  pc'[c.by] \in FailSteps
  BY DEF Shaped, ContainerInv, FailSteps
<1>1. c \in Container /\ c.run \in Runs /\ c.by \in Procs
  BY DEF Shaped, Container
<1>2. c.run # 0
  BY <1>1, AmendmentRunsAssumption DEF Runs
<1>3. CASE c.by = p /\ pc'[p] = "buildFail"
  BY <1>3 DEF FailSteps
<1>4. ASSUME NEW d \in staging, NameOf(d) = NameOf(c) PROVE pc'[c.by] \in FailSteps
  <2>1. d.run = c.run /\ d.kind = c.kind /\ d.by = c.by
    BY <1>1, <1>4, NameFacts DEF RunsInv, RunsTypeOK
  <2>2. Known(d.run)
    BY DEF RunsInv, IdentityInv
  <2>3. CASE c.by # p
    <3>1. pc'[c.by] = pc[c.by] /\ own'[c.by] = own[c.by]
      BY <1>1, <2>3 DEF OthersStand
    <3>2. \A x \in staging : x.kind = "fail" /\ x.run = own[x.by] => pc[x.by] \in FailSteps
      BY DEF RunsInv, ContainerInv, FailSteps
    <3> QED BY <2>1, <3>1, <3>2
  <2>4. CASE c.by = p
    <3>1. own'[p] = own[p] /\ d.run = own[p]
      BY <1>2, <2>1, <2>4
    <3>2. ~Early(p)
      BY <2>2, <3>1 DEF Known
    <3>3. \A x \in staging : x.kind = "fail" /\ x.run = own[x.by] => pc[x.by] \in FailSteps
      BY DEF RunsInv, ContainerInv, FailSteps
    <3>4. pc[p] \in FailSteps
      BY <2>1, <2>4, <3>1, <3>3
    <3> QED BY <2>4, <3>1, <3>2, <3>4
  <2> QED BY <2>3, <2>4
<1> QED BY <1>3, <1>4

LEMMA OldNames ==
  ASSUME RunsInv, SameNames, NEW p
  PROVE  \A c \in staging' : staging' \subseteq Container => Nameable(p, c.run)
<1> SUFFICES ASSUME NEW c \in staging', staging' \subseteq Container PROVE Nameable(p, c.run)
  OBVIOUS
<1>1. PICK d \in staging : NameOf(d) = NameOf(c)
  BY DEF SameNames
<1>2. c \in Container /\ d \in Container /\ Known(d.run)
  BY DEF RunsInv, IdentityInv, RunsTypeOK
<1>3. d.run = c.run /\ c.run \in Runs
  BY <1>1, <1>2, NameFacts DEF Container
<1> QED BY <1>2, <1>3 DEF Nameable

(* A step that writes below .staging or to runs/ and goes on.               *)
LEMMA AdvanceStep ==
  ASSUME RunsInv, NEW p \in Procs, NEW s \in RunSteps, Goto(p, s),
         UNCHANGED <<attempts, own, empties, todo, group, stops>>,
         runs' \in [Runs -> {"none", "AWAITING_REVIEW", "FAIL"}],
         RunsKept, Shaped, SameNames, NoNewAttempts(p),
         Early(p)' => Early(p),
         pc[p] \in FailSteps => s \in FailSteps \/ Early(p),
         pc'[p] = s => PrepareInv(p)'
  PROVE  RunsInv'
<1>1. /\ pc'[p] = s /\ pc' \in [Procs -> RunSteps] /\ \A q \in Procs \ {p} : pc'[q] = pc[q]
  BY DEF Goto, RunsInv, RunsTypeOK
<1>2. OthersStand(p)
  BY <1>1 DEF OthersStand
<1>3. RunsTypeOK'
  BY <1>1 DEF RunsInv, RunsTypeOK, Shaped
<1>4. ContainerInv'
  BY <1>1, <1>2, ContainersKept DEF SameNames
<1>5. \A c \in staging' : Nameable(p, c.run)
  BY OldNames DEF Shaped
<1>6. \A name \in empties'[p] \cup todo'[p] : Nameable(p, name.run)
  BY DEF RunsInv, RunsTypeOK, IdentityInv, Nameable
<1>7. group'[p] # 0 => Nameable(p, group'[p])
  BY DEF RunsInv, IdentityInv, Nameable
<1> QED BY <1>1, <1>2, <1>3, <1>4, <1>5, <1>6, <1>7, StepKeeps

(* A process that leaves prepare, having removed containers or not.         *)
LEMMA LeaveStep ==
  ASSUME RunsInv, NEW p \in Procs, Leave(p), staging' \subseteq staging,
         UNCHANGED <<attempts, runs>>, stops' \in 0 .. MaxStops
  PROVE  RunsInv'
<1>1. /\ pc'[p] = "idle" /\ own'[p] = 0 /\ empties'[p] = {} /\ todo'[p] = {} /\ group'[p] = 0
      /\ OthersStand(p)
  BY DEF Leave, Goto, OthersStand, RunsInv, RunsTypeOK
<1>2. 0 \in 0 .. MaxRuns /\ "idle" \in RunSteps
  BY AmendmentRunsAssumption DEF RunSteps
<1>3. RunsTypeOK'
  BY <1>2 DEF Leave, Goto, RunsInv, RunsTypeOK
<1>4. ~Early(p)' /\ PrepareInv(p)'
  BY <1>1 DEF Early, PrepareInv
<1>5. Shaped /\ SameNames /\ NoNewAttempts(p)
  BY Shrunk
<1>6. ContainerInv'
  <2>1. \A c \in staging' : \E d \in staging : NameOf(d) = NameOf(c)
    BY <1>5 DEF SameNames
  <2>2. own'[p] = own[p] => pc[p] \notin FailSteps \/ Early(p)
    <3> SUFFICES ASSUME own[p] = 0, pc[p] \in FailSteps PROVE Early(p)
      BY <1>1
    <3>1. PrepareInv(p)
      BY DEF RunsInv
    <3> QED BY <3>1 DEF PrepareInv, FailSteps, Early
  <2> QED BY <1>1, <1>5, <2>1, <2>2, ContainersKept
<1>7. \A c \in staging' : Nameable(p, c.run)
  BY <1>5, OldNames DEF Shaped
<1> QED BY <1>1, <1>3, <1>4, <1>5, <1>6, <1>7, StepKeeps DEF RunsKept
--------------------------------------------------------------------------------
(* The steps of prepare, one lemma each.                                    *)

Closes == RunsKept /\ AttemptsKept

LEMMA Went ==
  ASSUME RunsInv, NEW p \in Procs, NEW s \in RunSteps, Goto(p, s)
  PROVE  /\ pc'[p] = s /\ pc' \in [Procs -> RunSteps]
         /\ \A q \in Procs \ {p} : pc'[q] = pc[q]
BY DEF Goto, RunsInv, RunsTypeOK

LEMMA RefuseStep ==
  ASSUME RunsInv, NEW p \in Procs, Refuse(p), UNCHANGED <<attempts, stops>>
  PROVE  RunsInv' /\ Closes
<1>1. /\ Leave(p) /\ staging' = staging /\ runs' = runs /\ attempts' = attempts
      /\ stops' \in 0 .. MaxStops
  BY DEF Refuse, RunsInv, RunsTypeOK
<1> QED BY <1>1, LeaveStep DEF Closes, RunsKept, AttemptsKept

(* A step that goes on and touches nothing but its place and its group.     *)
LEMMA GroupStep ==
  ASSUME RunsInv, NEW p \in Procs, NEW s \in RunSteps, Goto(p, s),
         UNCHANGED <<staging, runs, attempts, own, empties, todo, stops>>,
         group' \in [Procs -> 0 .. MaxRuns],
         \A q \in Procs \ {p} : group'[q] = group[q],
         group'[p] # 0 => Nameable(p, group'[p]),
         Early(p)' => Early(p),
         pc[p] \in FailSteps => s \in FailSteps \/ Early(p),
         pc'[p] = s => PrepareInv(p)'
  PROVE  RunsInv' /\ Closes
<1>1. /\ pc'[p] = s /\ pc' \in [Procs -> RunSteps] /\ \A q \in Procs \ {p} : pc'[q] = pc[q]
  BY Went
<1>2. OthersStand(p)
  BY <1>1 DEF OthersStand
<1>3. RunsTypeOK'
  BY <1>1 DEF RunsInv, RunsTypeOK
<1>4. Shaped /\ SameNames /\ NoNewAttempts(p)
  BY Shrunk
<1>5. ContainerInv'
  BY <1>1, <1>2, <1>4, ContainersKept DEF SameNames
<1>6. \A c \in staging' : Nameable(p, c.run)
  BY <1>4, OldNames DEF Shaped
<1>7. \A name \in empties'[p] \cup todo'[p] : Nameable(p, name.run)
  BY DEF RunsInv, RunsTypeOK, IdentityInv, Nameable
<1>8. Closes
  BY DEF Closes, RunsKept, AttemptsKept
<1> QED BY <1>1, <1>2, <1>3, <1>4, <1>5, <1>6, <1>7, <1>8, StepKeeps DEF Closes

LEMMA ListStagingStep ==
  ASSUME RunsInv, NEW p \in Procs, ListStaging(p) PROVE RunsInv' /\ Closes
<1>1. pc[p] = "list" /\ UNCHANGED <<attempts, stops>>
  BY DEF ListStaging
<1>2. CASE Refuse(p)
  BY <1>1, <1>2, RefuseStep
<1>3. CASE ~Refuse(p)
  <2> DEFINE f(c) == IF PreIdentity(c) THEN [c EXCEPT !.attempt = "none"] ELSE c
  <2>1. /\ staging' = {f(c) : c \in staging}
        /\ empties' = [empties EXCEPT ![p] = Names({c \in staging : PreIdentity(c)})]
        /\ todo' = [todo EXCEPT ![p] = Names({c \in staging : ~PreIdentity(c)})]
        /\ Goto(p, "removeEmpty")
        /\ UNCHANGED <<runs, group, own, attempts, stops>>
    BY <1>3 DEF ListStaging
  <2>2. \A c \in staging : c \in Container /\ Known(c.run) /\ c.run \in Runs
    BY DEF RunsInv, RunsTypeOK, IdentityInv, Container
  <2>3. \A c \in staging : /\ f(c) \in Container /\ NameOf(f(c)) = NameOf(c)
                           /\ f(c).attempt \in {"none", c.attempt}
                           /\ f(c).kind = c.kind /\ f(c).run = c.run /\ f(c).by = c.by
    BY <2>2 DEF Container, NameOf
  <2>4. \A c \in staging : c.attempt = "whole" => f(c) = c
    BY DEF PreIdentity
  <2>5. \A x \in staging' : \E c \in staging : x = f(c)
    BY <2>1
  <2>6. \A c \in staging : f(c) \in staging'
    BY <2>1
  <2> HIDE DEF f
  <2>7. Shaped
    <3>1. staging' \subseteq Container
      BY <2>3, <2>5
    <3>2. \A c, d \in staging' : NameOf(c) = NameOf(d) => c = d
      BY <2>3, <2>5 DEF RunsInv, ContainerInv
    <3>3. \A c \in staging' : c.attempt # "none" => c.kind = "work"
      BY <2>3, <2>5 DEF RunsInv, ContainerInv
    <3> QED BY <3>1, <3>2, <3>3 DEF Shaped
  <2>8. SameNames
    BY <2>3, <2>5 DEF SameNames
  <2>9. NoNewAttempts(p)
    BY <2>3, <2>5 DEF NoNewAttempts
  <2>10. Closes
    BY <2>1, <2>4, <2>6 DEF Closes, RunsKept, AttemptsKept
  <2>11. "removeEmpty" \in RunSteps
    BY DEF RunSteps
  <2>12. /\ pc'[p] = "removeEmpty" /\ pc' \in [Procs -> RunSteps]
         /\ \A q \in Procs \ {p} : pc'[q] = pc[q]
    BY <2>1, <2>11, Went
  <2>13. \A containers \in SUBSET staging : Names(containers) \subseteq Labels
    BY <2>2, NameFacts DEF Names
  <2>14. OthersStand(p) /\ RunsTypeOK'
    <3>1. /\ empties' \in [Procs -> SUBSET Labels] /\ todo' \in [Procs -> SUBSET Labels]
          /\ \A q \in Procs \ {p} : empties'[q] = empties[q] /\ todo'[q] = todo[q]
      BY <2>1, <2>13 DEF RunsInv, RunsTypeOK, Labels
    <3> QED BY <2>1, <2>7, <2>12, <3>1 DEF OthersStand, RunsInv, RunsTypeOK, Shaped, Labels
  <2>15. ContainerInv'
    BY <1>1, <2>1, <2>7, <2>8, <2>14, ContainersKept DEF SameNames, FailSteps
  <2>16. \A c \in staging' : Nameable(p, c.run)
    BY <2>7, <2>8, OldNames DEF Shaped
  <2>17. \A name \in empties'[p] \cup todo'[p] : Nameable(p, name.run)
    <3>1. \A name \in empties'[p] \cup todo'[p] : \E c \in staging : name = NameOf(c)
      BY <2>1 DEF Names, RunsInv, RunsTypeOK
    <3> QED BY <2>2, <3>1, NameFacts DEF Nameable
  <2>18. group'[p] # 0 => Nameable(p, group'[p])
    BY <2>1 DEF RunsInv, IdentityInv, Nameable
  <2>19. PrepareInv(p)' /\ Early(p)
    BY <1>1, <2>12 DEF PrepareInv, Early
  <2> QED BY <2>1, <2>7, <2>9, <2>10, <2>14, <2>15, <2>16, <2>17, <2>18, <2>19, StepKeeps
          DEF Closes
<1> QED BY <1>2, <1>3

(* A step that removes an empty container and crosses names off its lists.  *)
LEMMA CrossOffStep ==
  ASSUME RunsInv, NEW p \in Procs, OthersStand(p), pc' \in [Procs -> RunSteps],
         UNCHANGED <<runs, attempts, own, group, stops>>,
         NEW name \in Labels, NEW c \in Named(name), c.attempt # "whole",
         staging' = staging \ Named(name),
         empties' \in [Procs -> SUBSET Labels], todo' \in [Procs -> SUBSET Labels],
         empties'[p] \subseteq empties[p], todo'[p] \subseteq todo[p],
         Early(p)' => Early(p),
         pc[p] \in FailSteps => pc'[p] \in FailSteps \/ Early(p),
         PrepareInv(p)'
  PROVE  RunsInv' /\ Closes
<1>1. RunsTypeOK'
  BY DEF RunsInv, RunsTypeOK, Labels
<1>2. Shaped /\ SameNames /\ NoNewAttempts(p)
  BY Shrunk
<1>3. ContainerInv'
  BY <1>2, ContainersKept DEF SameNames
<1>4. \A d \in staging' : Nameable(p, d.run)
  BY <1>2, OldNames DEF Shaped
<1>5. \A label \in empties'[p] \cup todo'[p] : Nameable(p, label.run)
  <2>1. \A label \in empties[p] \cup todo[p] : label.run \in Runs
    BY DEF RunsInv, RunsTypeOK
  <2> QED BY <2>1 DEF RunsInv, IdentityInv, Nameable
<1>6. group'[p] # 0 => Nameable(p, group'[p])
  BY DEF RunsInv, IdentityInv, Nameable
<1>7. \A d \in Named(name) : d = c
  BY DEF Named, RunsInv, ContainerInv
<1>8. Closes
  BY <1>7 DEF Closes, RunsKept, AttemptsKept
<1> QED BY <1>1, <1>2, <1>3, <1>4, <1>5, <1>6, <1>8, StepKeeps DEF Closes

LEMMA RemoveEmptyStep ==
  ASSUME RunsInv, NEW p \in Procs, RemoveEmpty(p) PROVE RunsInv' /\ Closes
<1>1. pc[p] = "removeEmpty" /\ UNCHANGED <<attempts, stops>>
  BY DEF RemoveEmpty
<1>2. CASE Refuse(p)
  BY <1>1, <1>2, RefuseStep
<1>3. CASE empties[p] = {}
  <2>1. Goto(p, "next") /\ UNCHANGED <<staging, runs, empties, todo, group, own>>
    BY <1>3 DEF RemoveEmpty
  <2>2. "next" \in RunSteps
    BY DEF RunSteps
  <2>3. group'[p] # 0 => Nameable(p, group'[p])
    BY <2>1 DEF RunsInv, IdentityInv, Nameable
  <2>4. Early(p) /\ (pc'[p] = "next" => PrepareInv(p)')
    BY <1>1 DEF Early, PrepareInv
  <2> QED BY <1>1, <2>1, <2>2, <2>3, <2>4, GroupStep DEF FailSteps, RunsInv, RunsTypeOK
<1>4. ASSUME NEW name \in empties[p], \E c \in Named(name) : IsEmpty(c),
             staging' = staging \ Named(name),
             empties' = [empties EXCEPT ![p] = @ \ {name}],
             UNCHANGED <<runs, todo, group, own, pc>>
      PROVE  RunsInv' /\ Closes
  <2>1. PICK c \in Named(name) : IsEmpty(c)
    BY <1>4
  <2>2. /\ empties[p] \subseteq Labels /\ todo \in [Procs -> SUBSET Labels]
        /\ empties' \in [Procs -> SUBSET Labels] /\ empties'[p] \subseteq empties[p]
        /\ \A q \in Procs \ {p} : empties'[q] = empties[q]
    BY <1>4 DEF RunsInv, RunsTypeOK, Labels
  <2>3. OthersStand(p) /\ pc' \in [Procs -> RunSteps]
    BY <1>4, <2>2 DEF OthersStand, RunsInv, RunsTypeOK
  <2>4. Early(p) /\ PrepareInv(p)'
    BY <1>1, <1>4 DEF Early, PrepareInv
  <2>5. c.attempt # "whole"
    BY <2>1 DEF IsEmpty
  <2>6. todo'[p] \subseteq todo[p] /\ todo' \in [Procs -> SUBSET Labels] /\ name \in Labels
    BY <1>4, <2>2
  <2>7. pc[p] \in FailSteps => pc'[p] \in FailSteps
    BY <1>4
  <2> QED BY <1>1, <1>4, <2>2, <2>3, <2>4, <2>5, <2>6, <2>7, CrossOffStep
<1> QED BY <1>2, <1>3, <1>4 DEF RemoveEmpty
--------------------------------------------------------------------------------
Below == {pair \in Nat \X Nat : pair[1] < pair[2]}

LEMMA LeastRun ==
  ASSUME NEW S, \A m \in S : m \in Nat, S # {}
  PROVE  Min(S) \in S
<1>1. IsWellFoundedOn(Below, Nat)
  BY NatLessThanWellFounded DEF OpToRel, Below
<1>2. PICK n \in S : \A m \in S : ~ (<<m, n>> \in Below)
  BY <1>1, WFMin
<1>3. ASSUME NEW m \in S PROVE n <= m
  <2>1. <<m, n>> \notin Below /\ n \in Nat /\ m \in Nat
    BY <1>2
  <2>2. ~ (m < n)
    BY <2>1 DEF Below
  <2> QED BY <2>1, <2>2
<1> QED BY <1>3 DEF Min

LEMMA NextGroupStep ==
  ASSUME RunsInv, NEW p \in Procs, NextGroup(p) PROVE RunsInv' /\ Closes
<1>1. pc[p] = "next" /\ UNCHANGED <<attempts, stops>> /\ Early(p) /\ pc[p] \notin FailSteps
  BY DEF NextGroup, Early, FailSteps
<1>2. CASE Refuse(p)
  BY <1>1, <1>2, RefuseStep
<1>3. CASE todo[p] = {}
  <2>1. Goto(p, "create") /\ UNCHANGED <<staging, runs, empties, todo, group, own>>
    BY <1>3 DEF NextGroup
  <2>2. "create" \in RunSteps
    BY DEF RunSteps
  <2>3. group'[p] # 0 => Nameable(p, group'[p])
    BY <2>1 DEF RunsInv, IdentityInv, Nameable
  <2>4. pc'[p] = "create" => PrepareInv(p)'
    BY DEF PrepareInv
  <2> QED BY <1>1, <2>1, <2>2, <2>3, <2>4, GroupStep DEF RunsInv, RunsTypeOK
<1>4. CASE todo[p] # {} /\ ~Refuse(p)
  <2> DEFINE r == Min({name.run : name \in todo[p]})
  <2>1. r \in {name.run : name \in todo[p]}
    <3>1. \A m \in {name.run : name \in todo[p]} : m \in Nat
      BY DEF RunsInv, RunsTypeOK, Runs
    <3> QED BY <1>4, <3>1, LeastRun
  <2>2. r \in Runs /\ Known(r)
    BY <2>1 DEF RunsInv, RunsTypeOK, IdentityInv
  <2>3. /\ group' = [group EXCEPT ![p] = r]
        /\ UNCHANGED <<staging, runs, empties, todo, own>>
        /\ (Goto(p, "remove") /\ runs[r] # "none") \/ Goto(p, "recovery")
    BY <1>4 DEF NextGroup
  <2> HIDE DEF r
  <2>4. r # 0 /\ r \in 0 .. MaxRuns
    BY <2>2, AmendmentRunsAssumption DEF Runs
  <2>5. /\ group' \in [Procs -> 0 .. MaxRuns] /\ group'[p] = r
        /\ \A q \in Procs \ {p} : group'[q] = group[q]
        /\ Nameable(p, group'[p])
    BY <2>2, <2>3, <2>4 DEF RunsInv, RunsTypeOK, Nameable
  <2>6. CASE Goto(p, "remove") /\ runs[r] # "none"
    <3>1. "remove" \in RunSteps
      BY DEF RunSteps
    <3>2. pc'[p] = "remove" => PrepareInv(p)'
      BY <2>3, <2>4, <2>5, <2>6 DEF PrepareInv
    <3> QED BY <1>1, <2>3, <2>5, <2>6, <3>1, <3>2, GroupStep
  <2>7. CASE Goto(p, "recovery")
    <3>1. "recovery" \in RunSteps
      BY DEF RunSteps
    <3>2. pc'[p] = "recovery" => PrepareInv(p)'
      BY <2>4, <2>5 DEF PrepareInv
    <3> QED BY <1>1, <2>3, <2>5, <2>7, <3>1, <3>2, GroupStep
  <2> QED BY <2>3, <2>6, <2>7
<1> QED BY <1>2, <1>3, <1>4

(* A step that makes a container of a run it may name and goes on.          *)
LEMMA MakeStep ==
  ASSUME RunsInv, NEW p \in Procs, NEW s \in RunSteps, Goto(p, s),
         UNCHANGED <<runs, attempts, own, empties, todo, group, stops>>,
         NEW name \in Labels, Gone(name), staging' = staging \cup {Fresh(name)},
         Nameable(p, name.run), name.by = p,
         name.kind # "fail" \/ s = "buildFail",
         Early(p)' => Early(p),
         pc[p] \notin FailSteps,
         pc'[p] = s => PrepareInv(p)'
  PROVE  RunsInv' /\ Closes
<1>1. /\ pc'[p] = s /\ pc' \in [Procs -> RunSteps] /\ \A q \in Procs \ {p} : pc'[q] = pc[q]
  BY Went
<1>2. OthersStand(p)
  BY <1>1 DEF OthersStand
<1>3. Shaped /\ NoNewAttempts(p) /\ \A c \in staging' : c \in staging \/ NameOf(c) = name
  BY Added
<1>4. RunsTypeOK'
  BY <1>1, <1>3 DEF RunsInv, RunsTypeOK, Shaped
<1>5. \A c \in staging' : c \in staging \/ (c.run = name.run /\ c.kind = name.kind /\ c.by = p)
  BY <1>3, NameFacts DEF Shaped
<1>6. ContainerInv'
  BY <1>1, <1>2, <1>3, <1>5, ContainersKept
<1>7. \A c \in staging' : Nameable(p, c.run)
  BY <1>5 DEF RunsInv, RunsTypeOK, IdentityInv, Nameable, Container
<1>8. \A label \in empties'[p] \cup todo'[p] : Nameable(p, label.run)
  BY DEF RunsInv, RunsTypeOK, IdentityInv, Nameable
<1>9. group'[p] # 0 => Nameable(p, group'[p])
  BY DEF RunsInv, IdentityInv, Nameable
<1>10. Closes
  BY DEF Closes, RunsKept, AttemptsKept
<1> QED BY <1>1, <1>2, <1>3, <1>4, <1>6, <1>7, <1>8, <1>9, <1>10, StepKeeps DEF Closes

(* A step that changes what is in the containers of one name, publishing    *)
(* their run or not, and goes on.                                           *)
LEMMA FillStep ==
  ASSUME RunsInv, NEW p \in Procs, NEW s \in RunSteps,
         UNCHANGED <<attempts, own, empties, todo, group, stops>>,
         NEW name \in Labels, NEW a \in {"none", "temp", "whole"}, NEW b \in BOOLEAN,
         Put(p, name, a, b, s),
         a = "none" \/ name.kind = "work",
         \/ name.by = p
         \/ a = "none",
         \/ a = "whole" \/ runs'[name.run] # "none"
         \/ \A c \in Named(name) : c.attempt # "whole",
         runs' \in [Runs -> {"none", "AWAITING_REVIEW", "FAIL"}], RunsKept,
         Early(p)' => Early(p),
         pc[p] \in FailSteps => s \in FailSteps \/ Early(p),
         pc'[p] = s => PrepareInv(p)'
  PROVE  RunsInv' /\ Closes
<1> PICK c \in Named(name) : TRUE
  BY DEF Put
<1> DEFINE d == [c EXCEPT !.attempt = a, !.built = b]
<1>1. c \in staging /\ c \in Container /\ NameOf(c) = name
      /\ c.run = name.run /\ c.kind = name.kind /\ c.by = name.by
  BY NamedFacts DEF RunsInv
<1>2. Named(name) = {c}
  BY <1>1 DEF Named, RunsInv, ContainerInv
<1>3. d \in Container /\ d.attempt = a /\ d.kind = c.kind /\ NameOf(d) = NameOf(c)
  BY <1>1 DEF Container, NameOf
<1>4. staging' = (staging \ {c}) \cup {d}
  BY <1>2 DEF Put
<1> HIDE DEF d
<1>5. Shaped /\ SameNames /\ NoNewAttempts(p)
  BY <1>1, <1>3, <1>4, Replaced
<1>6. Goto(p, s)
  BY DEF Put
<1>7. RunsInv'
  BY <1>5, <1>6, AdvanceStep
<1>8. AttemptsKept
  <2> SUFFICES ASSUME NEW x \in staging, x.attempt = "whole", runs'[x.run] = "none"
               PROVE  \E y \in staging' : NameOf(y) = NameOf(x) /\ y.attempt = "whole"
    BY DEF AttemptsKept
  <2>1. CASE x # c
    BY <1>4, <2>1
  <2>2. CASE x = c
    <3>1. a = "whole"
      BY <1>1, <1>2, <2>2
    <3>2. d \in staging' /\ NameOf(d) = NameOf(x) /\ d.attempt = "whole"
      BY <1>3, <1>4, <2>2, <3>1
    <3> QED BY <3>2
  <2> QED BY <2>1, <2>2
<1> QED BY <1>7, <1>8 DEF Closes

LEMMA OwnName ==
  ASSUME RunsInv, NEW p \in Procs, NEW kind \in Kinds, NEW r \in 0 .. MaxRuns, r # 0
  PROVE  /\ Name(p, r, kind) \in Labels /\ Name(p, r, kind).run = r
         /\ Name(p, r, kind).by = p /\ Name(p, r, kind).kind = kind
         /\ r \in Runs
BY AmendmentRunsAssumption DEF Name, Labels, Runs

(* A run is published once.                                                 *)
LEMMA PublishedOnceFacts ==
  ASSUME RunsInv, NEW r \in Runs, runs[r] = "none", NEW v \in {"AWAITING_REVIEW", "FAIL"},
         runs' = [runs EXCEPT ![r] = v]
  PROVE  /\ runs' \in [Runs -> {"none", "AWAITING_REVIEW", "FAIL"}]
         /\ runs'[r] # "none" /\ RunsKept
BY DEF RunsInv, RunsTypeOK, RunsKept

LEMMA CloseInterruptedStep ==
  ASSUME RunsInv, NEW p \in Procs, CloseInterrupted(p) PROVE RunsInv' /\ Closes
<1> DEFINE name == Name(p, group[p], "recovery")
<1>1. /\ pc[p] \in {"recovery", "buildRecovery", "publishRecovery", "dropRecovery"}
      /\ UNCHANGED <<attempts, stops>> /\ Early(p) /\ pc[p] \notin FailSteps
  BY DEF CloseInterrupted, Early, FailSteps
<1>2. group[p] # 0 /\ group[p] \in Runs /\ Known(group[p]) /\ group[p] \in 0 .. MaxRuns
  BY <1>1 DEF RunsInv, PrepareInv, IdentityInv, RunsTypeOK
<1>3. /\ name \in Labels /\ name.run = group[p] /\ name.by = p /\ name.kind = "recovery"
      /\ Nameable(p, name.run)
  BY <1>2, OwnName DEF Kinds, Nameable
<1>4. \A c \in Named(name) : c.attempt = "none"
  <2>1. \A c \in Named(name) : c \in staging /\ c.kind = "recovery"
    BY <1>3, NamedFacts DEF RunsInv
  <2> QED BY <2>1 DEF RunsInv, ContainerInv
<1> HIDE DEF name
<1>5. CASE Refuse(p)
  BY <1>1, <1>5, RefuseStep
<1>6. CASE /\ pc[p] = "recovery"
           /\ staging' = staging \cup (IF Gone(name) THEN {Fresh(name)} ELSE {})
           /\ Goto(p, "buildRecovery")
           /\ UNCHANGED <<runs, empties, todo, group, own>>
  <2>1. "buildRecovery" \in RunSteps
    BY DEF RunSteps
  <2>2. pc'[p] = "buildRecovery" => PrepareInv(p)'
    BY <1>2, <1>6 DEF PrepareInv
  <2>3. CASE Gone(name)
    BY <1>1, <1>3, <1>6, <2>1, <2>2, <2>3, MakeStep
  <2>4. CASE ~Gone(name)
    <3>1. staging' = staging
      BY <1>6, <2>4
    <3>2. group'[p] # 0 => Nameable(p, group'[p])
      BY <1>3, <1>6
    <3> QED BY <1>1, <1>6, <2>1, <2>2, <3>1, <3>2, GroupStep DEF RunsInv, RunsTypeOK
  <2> QED BY <2>3, <2>4
<1>7. CASE /\ pc[p] = "buildRecovery"
           /\ Put(p, name, "none", TRUE, "publishRecovery")
           /\ UNCHANGED <<runs, empties, todo, group, own>>
  <2>1. "publishRecovery" \in RunSteps
    BY DEF RunSteps
  <2>2. pc'[p] = "publishRecovery" => PrepareInv(p)'
    BY <1>2, <1>7 DEF PrepareInv
  <2> QED BY <1>1, <1>3, <1>4, <1>7, <2>1, <2>2, FillStep DEF RunsInv, RunsTypeOK, RunsKept
<1>8. CASE /\ pc[p] = "publishRecovery" /\ runs[group[p]] = "none"
           /\ runs' = [runs EXCEPT ![group[p]] = "FAIL"]
           /\ Put(p, name, "none", FALSE, "dropRecovery")
           /\ UNCHANGED <<empties, todo, group, own>>
  <2>1. "dropRecovery" \in RunSteps
    BY DEF RunSteps
  <2>2. /\ runs' \in [Runs -> {"none", "AWAITING_REVIEW", "FAIL"}]
        /\ runs'[group[p]] # "none" /\ RunsKept
    BY <1>2, <1>8, PublishedOnceFacts
  <2>3. pc'[p] = "dropRecovery" => PrepareInv(p)'
    BY <1>2, <1>8, <2>2 DEF PrepareInv
  <2> QED BY <1>1, <1>3, <1>4, <1>8, <2>1, <2>2, <2>3, FillStep
<1>9. CASE /\ pc[p] = "dropRecovery" /\ ~Gone(name)
           /\ staging' = staging \ Named(name)
           /\ todo' = [todo EXCEPT ![p] = @ \ {name}]
           /\ Goto(p, "remove")
           /\ UNCHANGED <<runs, empties, group, own>>
  <2>1. "remove" \in RunSteps
    BY DEF RunSteps
  <2>2. /\ pc'[p] = "remove" /\ pc' \in [Procs -> RunSteps]
        /\ \A q \in Procs \ {p} : pc'[q] = pc[q]
    BY <1>9, <2>1, Went
  <2>3. PICK c \in Named(name) : TRUE
    BY <1>9 DEF Gone
  <2>4. c.attempt # "whole"
    BY <1>4
  <2>5. /\ todo' \in [Procs -> SUBSET Labels] /\ todo'[p] \subseteq todo[p]
        /\ empties' \in [Procs -> SUBSET Labels] /\ empties'[p] \subseteq empties[p]
        /\ \A q \in Procs \ {p} : todo'[q] = todo[q]
    BY <1>9 DEF RunsInv, RunsTypeOK, Labels
  <2>6. OthersStand(p)
    BY <1>9, <2>2, <2>5 DEF OthersStand
  <2>7. PrepareInv(p)'
    <3>1. runs[group[p]] # "none"
      BY <1>9 DEF RunsInv, PrepareInv
    <3> QED BY <1>2, <1>9, <2>2, <3>1 DEF PrepareInv
  <2> QED BY <1>1, <1>3, <1>9, <2>2, <2>3, <2>4, <2>5, <2>6, <2>7, CrossOffStep
<1>10. CASE /\ pc[p] = "publishRecovery" /\ PublishedByAnother(group[p], name)
            /\ Goto(p, "dropRecovery")
            /\ UNCHANGED <<staging, runs, empties, todo, group, own>>
  <2>1. "dropRecovery" \in RunSteps
    BY DEF RunSteps
  <2>2. pc'[p] = "dropRecovery" => PrepareInv(p)'
    BY <1>2, <1>10 DEF PrepareInv, PublishedByAnother
  <2>3. group'[p] # 0 => Nameable(p, group'[p])
    BY <1>3, <1>10
  <2> QED BY <1>1, <1>10, <2>1, <2>2, <2>3, GroupStep DEF RunsInv, RunsTypeOK
<1> QED BY <1>5, <1>6, <1>7, <1>8, <1>9, <1>10 DEF CloseInterrupted, name

LEMMA RemoveContainerStep ==
  ASSUME RunsInv, NEW p \in Procs, RemoveContainer(p) PROVE RunsInv' /\ Closes
<1>1. pc[p] = "remove" /\ UNCHANGED <<attempts, stops>>
  BY DEF RemoveContainer
<1>2. /\ group[p] # 0 /\ group[p] \in Runs /\ Known(group[p])
      /\ runs[group[p]] # "none"
  BY <1>1 DEF RunsInv, PrepareInv, IdentityInv
<1>3. CASE Refuse(p)
  BY <1>1, <1>3, RefuseStep
<1>4. CASE /\ group[p] # own[p] /\ Goto(p, "next")
           /\ UNCHANGED <<staging, runs, empties, todo, group, own>>
  <2>1. "next" \in RunSteps
    BY DEF RunSteps
  <2>2. Early(p) /\ (pc'[p] = "next" => PrepareInv(p)')
    BY <1>1, <1>4 DEF Early, PrepareInv
  <2>3. group'[p] # 0 => Nameable(p, group'[p])
    BY <1>2, <1>4 DEF Nameable
  <2> QED BY <1>1, <1>4, <2>1, <2>2, <2>3, GroupStep DEF RunsInv, RunsTypeOK
<1>5. ASSUME NEW name \in FirstListed(p, group[p]), NEW c \in Named(name),
             NEW d \in Container, NameOf(d) = NameOf(c), d.attempt \in {"none", c.attempt},
             staging' = (staging \ {c}) \cup {d},
             UNCHANGED <<todo, runs, empties, group, own, pc>>
      PROVE  RunsInv' /\ Closes
  <2>1. name \in Labels /\ name.run = group[p]
    BY DEF FirstListed, Listed, RunsInv, RunsTypeOK, Labels
  <2>2. c \in staging /\ c.run = group[p] /\ NameOf(c) = name
    BY <2>1, NamedFacts DEF RunsInv
  <2>3. d.attempt = "none" \/ d.kind = "work"
    <3>1. d.kind = c.kind
      BY <1>5, <2>1, NamedFacts, NameFacts DEF RunsInv
    <3> QED BY <1>5, <2>2, <3>1 DEF RunsInv, ContainerInv
  <2>4. Shaped /\ SameNames /\ NoNewAttempts(p)
    BY <1>5, <2>2, <2>3, Replaced
  <2>5. pc' = [pc EXCEPT ![p] = "remove"] /\ "remove" \in RunSteps
    BY <1>1, <1>5 DEF RunsInv, RunsTypeOK, RunSteps
  <2>6. Early(p)' => Early(p)
    BY <1>5 DEF Early
  <2>7. PrepareInv(p)'
    BY <1>1, <1>2, <1>5 DEF PrepareInv
  <2>8. RunsInv'
    BY <1>1, <1>5, <2>4, <2>5, <2>6, <2>7, AdvanceStep
       DEF Goto, RunsInv, RunsTypeOK, RunsKept, FailSteps
  <2>9. Closes
    BY <1>2, <1>5, <2>2 DEF Closes, RunsKept, AttemptsKept
  <2> QED BY <2>8, <2>9
<1>6. ASSUME NEW name \in FirstListed(p, group[p]), NEW c \in Named(name), IsEmpty(c),
             staging' = staging \ {c}, todo' = [todo EXCEPT ![p] = @ \ {name}],
             UNCHANGED <<runs, empties, group, own, pc>>
      PROVE  RunsInv' /\ Closes
  <2>1. name \in Labels
    BY DEF FirstListed, Listed, RunsInv, RunsTypeOK, Labels
  <2>2. Named(name) = {c} /\ c.attempt # "whole"
    BY <1>6 DEF Named, RunsInv, ContainerInv, IsEmpty
  <2>3. /\ todo' \in [Procs -> SUBSET Labels] /\ todo'[p] \subseteq todo[p]
        /\ empties' \in [Procs -> SUBSET Labels] /\ empties'[p] \subseteq empties[p]
        /\ \A q \in Procs \ {p} : todo'[q] = todo[q]
    BY <1>6 DEF RunsInv, RunsTypeOK, Labels
  <2>4. OthersStand(p) /\ pc' \in [Procs -> RunSteps]
    BY <1>6, <2>3 DEF OthersStand, RunsInv, RunsTypeOK
  <2>5. PrepareInv(p)' /\ (Early(p)' => Early(p))
    BY <1>1, <1>2, <1>6 DEF PrepareInv, Early
  <2> QED BY <1>1, <1>6, <2>1, <2>2, <2>3, <2>4, <2>5, CrossOffStep
<1>7. ASSUME NEW name \in FirstListed(p, group[p]), NEW c \in Named(name)
      PROVE  LET d == [c EXCEPT !.attempt = "none"]
                 e == [c EXCEPT !.built = FALSE]
             IN /\ d \in Container /\ NameOf(d) = NameOf(c) /\ d.attempt = "none"
                /\ e \in Container /\ NameOf(e) = NameOf(c) /\ e.attempt = c.attempt
  <2>1. c \in Container
    BY DEF Named, RunsInv, RunsTypeOK
  <2> QED BY <2>1 DEF Container, NameOf
<1>8. CASE Listed(p, group[p]) = {}
  BY <1>3, <1>4, <1>8 DEF RemoveContainer
<1>9. CASE Listed(p, group[p]) # {} /\ ~Refuse(p)
  <2> PICK name \in FirstListed(p, group[p]) : \E c \in Named(name) :
          /\ \/ /\ c.attempt # "none"
                /\ staging' = (staging \ {c}) \cup {[c EXCEPT !.attempt = "none"]}
                /\ UNCHANGED todo
             \/ /\ c.built
                /\ staging' = (staging \ {c}) \cup {[c EXCEPT !.built = FALSE]}
                /\ UNCHANGED todo
             \/ /\ IsEmpty(c)
                /\ staging' = staging \ {c}
                /\ todo' = [todo EXCEPT ![p] = @ \ {name}]
          /\ UNCHANGED <<runs, empties, group, own, pc>>
    BY <1>9 DEF RemoveContainer
  <2>1. PICK c \in Named(name) :
          /\ \/ /\ c.attempt # "none"
                /\ staging' = (staging \ {c}) \cup {[c EXCEPT !.attempt = "none"]}
                /\ UNCHANGED todo
             \/ /\ c.built
                /\ staging' = (staging \ {c}) \cup {[c EXCEPT !.built = FALSE]}
                /\ UNCHANGED todo
             \/ /\ IsEmpty(c)
                /\ staging' = staging \ {c}
                /\ todo' = [todo EXCEPT ![p] = @ \ {name}]
          /\ UNCHANGED <<runs, empties, group, own, pc>>
    OBVIOUS
  <2>2. CASE staging' = (staging \ {c}) \cup {[c EXCEPT !.attempt = "none"]} /\ UNCHANGED todo
    BY <1>5, <1>7, <2>1, <2>2
  <2>3. CASE staging' = (staging \ {c}) \cup {[c EXCEPT !.built = FALSE]} /\ UNCHANGED todo
    BY <1>5, <1>7, <2>1, <2>3
  <2>4. CASE IsEmpty(c) /\ staging' = staging \ {c} /\ todo' = [todo EXCEPT ![p] = @ \ {name}]
    BY <1>6, <2>1, <2>4
  <2> QED BY <2>1, <2>2, <2>3, <2>4
<1> QED BY <1>3, <1>8, <1>9

LEMMA CreateWorkStep ==
  ASSUME RunsInv, NEW p \in Procs, CreateWork(p) PROVE RunsInv' /\ Closes
<1> DEFINE name == Name(p, own[p], "work")
<1>1. /\ pc[p] = "create" /\ UNCHANGED <<attempts, stops>> /\ Early(p)
      /\ pc[p] \notin FailSteps
  BY DEF CreateWork, Early, FailSteps
<1>2. CASE own[p] = 0
  BY <1>1, <1>2, RefuseStep DEF CreateWork
<1>3. CASE own[p] # 0
  <2>1. /\ staging' = staging \cup {Fresh(name)} /\ Goto(p, "attempt")
        /\ UNCHANGED <<runs, attempts, own, empties, todo, group, stops>>
    BY <1>3 DEF CreateWork
  <2>2. /\ name \in Labels /\ name.run = own[p] /\ name.by = p /\ name.kind = "work"
        /\ own[p] \in Runs
    BY <1>3, OwnName DEF Kinds, RunsInv, RunsTypeOK
  <2> HIDE DEF name
  <2>3. Gone(name)
    <3>1. \A c \in Named(name) : c \in staging /\ c.run = own[p]
      BY <2>2, NamedFacts DEF RunsInv
    <3>2. \A c \in staging : c.run # own[p]
      BY <1>1 DEF RunsInv, IdentityInv, Known
    <3> QED BY <3>1, <3>2 DEF Gone
  <2>4. "attempt" \in RunSteps
    BY DEF RunSteps
  <2>5. ASSUME pc'[p] = "attempt" PROVE PrepareInv(p)' /\ ~Early(p)'
    <3>1. \A c \in staging' : NameOf(c) = name => c = Fresh(name)
      BY <2>1, <2>3 DEF Gone, Named
    <3>2. \A c \in Named(Name(p, own[p], "work"))' : c.attempt # "whole"
      BY <2>1, <2>2, <3>1, FreshFacts DEF Named, name
    <3> QED BY <1>3, <2>1, <2>5, <3>2 DEF PrepareInv, Early
  <2>6. pc'[p] = "attempt"
    BY <2>1, <2>4, Went
  <2>7. Nameable(p, name.run)
    BY <2>2, <2>5, <2>6 DEF Nameable
  <2> QED BY <1>1, <2>1, <2>2, <2>3, <2>4, <2>5, <2>7, MakeStep
<1> QED BY <1>2, <1>3

(* What a process has filled holds what it has put there.                   *)
LEMMA Filled ==
  ASSUME RunsInv, NEW p, NEW name \in Labels, NEW a \in {"none", "temp", "whole"},
         NEW b \in BOOLEAN, NEW s, Put(p, name, a, b, s)
  PROVE  \A c \in staging' : NameOf(c) = name => c.attempt = a
<1> SUFFICES ASSUME NEW c \in staging', NameOf(c) = name PROVE c.attempt = a
  OBVIOUS
<1>1. c \notin staging \ Named(name)
  BY DEF Named
<1>2. PICK d \in Named(name) : c = [d EXCEPT !.attempt = a, !.built = b]
  BY <1>1 DEF Put
<1>3. d \in Container
  BY DEF Named, RunsInv, RunsTypeOK
<1> QED BY <1>2, <1>3 DEF Container

LEMMA WriteAttemptStep ==
  ASSUME RunsInv, NEW p \in Procs, WriteAttempt(p) PROVE RunsInv' /\ Closes
<1> DEFINE name == Name(p, own[p], "work")
<1>1. /\ pc[p] \in {"attempt", "rename"} /\ UNCHANGED <<attempts, stops>>
      /\ pc[p] \notin FailSteps
  BY DEF WriteAttempt, FailSteps
<1>2. /\ own[p] # 0 /\ own[p] \in 0 .. MaxRuns
      /\ \A c \in Named(name) : c.attempt # "whole"
  BY <1>1 DEF RunsInv, RunsTypeOK, PrepareInv
<1>3. name \in Labels /\ name.run = own[p] /\ name.by = p /\ name.kind = "work"
  BY <1>2, OwnName DEF Kinds
<1>4. name = Name(p, own[p], "work")
  OBVIOUS
<1> HIDE DEF name
<1>5. CASE Refuse(p)
  BY <1>1, <1>5, RefuseStep
<1>6. CASE Put(p, name, "temp", FALSE, "rename") /\ UNCHANGED <<runs, empties, todo, group, own>>
  <2>1. "rename" \in RunSteps
    BY DEF RunSteps
  <2>2. pc'[p] = "rename" => PrepareInv(p)' /\ ~Early(p)'
    <3>1. \A c \in staging' : NameOf(c) = name => c.attempt = "temp"
      BY <1>3, <1>6, Filled
    <3>2. \A c \in Named(Name(p, own[p], "work"))' : c.attempt # "whole"
      BY <1>4, <1>6, <3>1 DEF Named, Name
    <3> QED BY <1>2, <1>6, <3>2 DEF PrepareInv, Early
  <2>3. pc'[p] = "rename"
    BY <1>6, <2>1, Went DEF Put
  <2> QED BY <1>1, <1>2, <1>3, <1>6, <2>1, <2>2, <2>3, FillStep DEF RunsInv, RunsTypeOK, RunsKept
<1>7. CASE Put(p, name, "whole", FALSE, "emit") /\ UNCHANGED <<runs, empties, todo, group, own>>
  <2>1. "emit" \in RunSteps
    BY DEF RunSteps
  <2>2. pc'[p] = "emit" => PrepareInv(p)' /\ ~Early(p)'
    BY <1>2, <1>7 DEF PrepareInv, Early
  <2>3. pc'[p] = "emit"
    BY <1>7, <2>1, Went DEF Put
  <2> QED BY <1>1, <1>2, <1>3, <1>7, <2>1, <2>2, <2>3, FillStep DEF RunsInv, RunsTypeOK, RunsKept
<1> QED BY <1>5, <1>6, <1>7 DEF WriteAttempt, name

(* What a process that has made its container knows of its name.            *)
LEMMA Working ==
  ASSUME RunsInv, NEW p \in Procs,
         pc[p] \in {"emit", "publish", "dropAttempt", "dropWork", "fail", "buildFail",
                    "publishFail", "dropFail"},
         NEW kind \in {"work", "fail"}
  PROVE  /\ Name(p, own[p], kind) \in Labels /\ Name(p, own[p], kind).run = own[p]
         /\ Name(p, own[p], kind).by = p /\ Name(p, own[p], kind).kind = kind
         /\ own[p] \in Runs /\ own[p] # 0 /\ ~Early(p)
         /\ \A c, d \in Named(Name(p, own[p], kind)) : c = d
         /\ \A c \in Named(Name(p, own[p], kind)) :
              c.attempt \in {"none", "temp", "whole"} /\ c.built \in BOOLEAN
<1>1. own[p] # 0 /\ own[p] \in 0 .. MaxRuns
  BY DEF RunsInv, PrepareInv, RunsTypeOK
<1>2. kind \in Kinds
  BY DEF Kinds
<1>3. \A c, d \in Named(Name(p, own[p], kind)) : c = d
  BY DEF Named, RunsInv, ContainerInv
<1>4. \A c \in Named(Name(p, own[p], kind)) :
        c.attempt \in {"none", "temp", "whole"} /\ c.built \in BOOLEAN
  BY DEF Named, RunsInv, RunsTypeOK, Container
<1> QED BY <1>1, <1>2, <1>3, <1>4, OwnName DEF Early

(* From the own container to the end, a process goes from step to step      *)
(* writing in containers of its own run.                                    *)
LEMMA WorkStep ==
  ASSUME RunsInv, NEW p \in Procs,
         pc[p] \in {"emit", "publish", "dropAttempt", "buildFail", "publishFail"},
         NEW kind \in {"work", "fail"}, NEW c \in Named(Name(p, own[p], kind)),
         NEW a, a = c.attempt \/ (a = "none" /\ runs'[own[p]] # "none")
                \/ (a = "none" /\ kind = "fail"),
         NEW b \in BOOLEAN,
         NEW s \in {"publish", "dropAttempt", "dropWork", "fail", "publishFail", "dropFail"},
         Put(p, Name(p, own[p], kind), a, b, s),
         UNCHANGED <<attempts, own, empties, todo, group, stops>>,
         runs' \in [Runs -> {"none", "AWAITING_REVIEW", "FAIL"}], RunsKept,
         s \in {"dropAttempt", "dropFail"} => runs'[own[p]] # "none",
         pc[p] \in FailSteps => s \in FailSteps
  PROVE  RunsInv' /\ Closes
<1> DEFINE name == Name(p, own[p], kind)
<1>1. /\ name \in Labels /\ name.run = own[p] /\ name.by = p /\ name.kind = kind
      /\ own[p] \in Runs /\ own[p] # 0
      /\ \A x, y \in Named(name) : x = y
      /\ c.attempt \in {"none", "temp", "whole"}
  BY Working
<1>2. Put(p, name, a, b, s) /\ c \in Named(name)
  OBVIOUS
<1> HIDE DEF name
<1>3. \A x \in Named(name) : x.attempt # "none" => x.kind = "work"
  BY DEF Named, RunsInv, ContainerInv
<1>4. c.kind = kind
  BY <1>1, <1>2, NamedFacts DEF RunsInv
<1>5. a \in {"none", "temp", "whole"} /\ (a = "none" \/ name.kind = "work")
  BY <1>1, <1>2, <1>3, <1>4
<1>6. \/ a = "whole"
      \/ runs'[name.run] # "none"
      \/ \A x \in Named(name) : x.attempt # "whole"
  <2>1. CASE a = c.attempt
    BY <1>1, <1>2, <2>1
  <2>2. CASE a = "none" /\ kind = "fail"
    BY <1>1, <1>2, <1>3, <1>4, <2>2
  <2> QED BY <1>1, <2>1, <2>2
<1>7. s \in RunSteps
  BY DEF RunSteps
<1>8. pc'[p] = s => PrepareInv(p)' /\ ~Early(p)'
  BY <1>1 DEF PrepareInv, Early
<1>9. pc'[p] = s
  BY <1>7, Went DEF Put
<1> QED BY <1>1, <1>2, <1>5, <1>6, <1>7, <1>8, <1>9, FillStep

(* ... or to the failure without writing.                                   *)
LEMMA GivesUpStep ==
  ASSUME RunsInv, NEW p \in Procs, pc[p] \in {"emit", "publish"}, Goto(p, "fail"),
         UNCHANGED <<staging, runs, attempts, own, empties, todo, group, stops>>
  PROVE  RunsInv' /\ Closes
<1>1. "fail" \in RunSteps
  BY DEF RunSteps
<1>2. pc'[p] = "fail"
  BY <1>1, Went
<1>3. own[p] # 0
  BY Working
<1>4. PrepareInv(p)' /\ ~Early(p)'
  BY <1>2, <1>3 DEF PrepareInv, Early
<1>5. group'[p] # 0 => Nameable(p, group'[p])
  BY DEF RunsInv, IdentityInv, Nameable
<1> QED BY <1>1, <1>4, <1>5, GroupStep DEF RunsInv, RunsTypeOK, FailSteps

(* ... or to the cleanup, the run being published by another process.       *)
LEMMA OvertakenStep ==
  ASSUME RunsInv, NEW p \in Procs,
         NEW s \in {"dropAttempt", "dropFail"}, Goto(p, s), runs[own[p]] # "none",
         pc[p] = (IF s = "dropAttempt" THEN "publish" ELSE "publishFail"),
         UNCHANGED <<staging, runs, attempts, own, empties, todo, group, stops>>
  PROVE  RunsInv' /\ Closes
<1>1. s \in RunSteps
  BY DEF RunSteps
<1>2. pc'[p] = s
  BY <1>1, Went
<1>3. own[p] # 0
  BY Working
<1>4. PrepareInv(p)' /\ ~Early(p)'
  BY <1>2, <1>3 DEF PrepareInv, Early
<1>5. group'[p] # 0 => Nameable(p, group'[p])
  BY DEF RunsInv, IdentityInv, Nameable
<1>6. pc[p] \in FailSteps => s \in FailSteps
  BY DEF FailSteps
<1> QED BY <1>1, <1>4, <1>5, <1>6, GroupStep DEF RunsInv, RunsTypeOK

LEMMA EmitRunStep ==
  ASSUME RunsInv, NEW p \in Procs, EmitRun(p) PROVE RunsInv' /\ Closes
<1>1. /\ pc[p] = "emit" /\ pc[p] \notin FailSteps
      /\ UNCHANGED <<runs, attempts, own, empties, todo, group, stops>>
  BY DEF EmitRun, FailSteps
<1>2. CASE Goto(p, "fail") /\ UNCHANGED staging
  BY <1>1, <1>2, GivesUpStep
<1>3. ASSUME NEW c \in Named(Name(p, own[p], "work")), NEW b \in BOOLEAN,
             NEW s \in {"publish", "fail"}, Put(p, Name(p, own[p], "work"), c.attempt, b, s)
      PROVE  RunsInv' /\ Closes
  BY <1>1, <1>3, WorkStep DEF RunsInv, RunsTypeOK, RunsKept
<1> QED BY <1>2, <1>3 DEF EmitRun

LEMMA PublishRunStep ==
  ASSUME RunsInv, NEW p \in Procs, PublishRun(p) PROVE RunsInv' /\ Closes
<1>1. /\ pc[p] = "publish" /\ pc[p] \notin FailSteps
      /\ UNCHANGED <<attempts, own, empties, todo, group, stops>>
  BY DEF PublishRun, FailSteps
<1>2. CASE Goto(p, "fail") /\ UNCHANGED <<staging, runs>>
  BY <1>1, <1>2, GivesUpStep
<1>3. ASSUME NEW c \in Named(Name(p, own[p], "work")), runs[own[p]] = "none",
             runs' = [runs EXCEPT ![own[p]] = "AWAITING_REVIEW"],
             Put(p, Name(p, own[p], "work"), c.attempt, FALSE, "dropAttempt")
      PROVE  RunsInv' /\ Closes
  <2>1. own[p] \in Runs
    BY <1>1, Working
  <2>2. /\ runs' \in [Runs -> {"none", "AWAITING_REVIEW", "FAIL"}]
        /\ runs'[own[p]] # "none" /\ RunsKept
    BY <1>3, <2>1, PublishedOnceFacts
  <2> QED BY <1>1, <1>3, <2>2, WorkStep
<1>4. CASE /\ PublishedByAnother(own[p], Name(p, own[p], "work"))
           /\ Goto(p, "dropAttempt") /\ UNCHANGED <<staging, runs>>
  BY <1>1, <1>4, OvertakenStep DEF PublishedByAnother
<1> QED BY <1>2, <1>3, <1>4 DEF PublishRun

LEMMA DropWorkStep ==
  ASSUME RunsInv, NEW p \in Procs, DropWork(p) PROVE RunsInv' /\ Closes
<1> DEFINE name == Name(p, own[p], "work")
<1>1. /\ pc[p] \in {"dropAttempt", "dropWork"} /\ pc[p] \notin FailSteps
      /\ UNCHANGED <<runs, attempts, stops>> /\ stops' \in 0 .. MaxStops
      /\ runs' \in [Runs -> {"none", "AWAITING_REVIEW", "FAIL"}] /\ RunsKept
  BY DEF DropWork, FailSteps, RunsInv, RunsTypeOK, RunsKept
<1>2. CASE Leave(p) /\ UNCHANGED staging
  BY <1>1, <1>2, LeaveStep DEF Closes, AttemptsKept
<1>3. ASSUME pc[p] = "dropWork", Leave(p),
             staging' = {c \in staging : ~(NameOf(c) = name /\ IsEmpty(c))}
      PROVE  RunsInv' /\ Closes
  <2>1. staging' \subseteq staging
    BY <1>3
  <2>2. \A c \in staging : c.attempt = "whole" => c \in staging'
    BY <1>3 DEF IsEmpty
  <2> QED BY <1>1, <1>3, <2>1, <2>2, LeaveStep DEF Closes, AttemptsKept
<1>4. ASSUME pc[p] = "dropAttempt", NEW c \in Named(name),
             Put(p, name, "none", c.built, "dropWork"),
             UNCHANGED <<own, empties, todo, group>>
      PROVE  RunsInv' /\ Closes
  <2>1. c.built \in BOOLEAN
    BY <1>1, Working
  <2>2. runs'[own[p]] # "none"
    BY <1>1, <1>4 DEF RunsInv, PrepareInv
  <2> QED BY <1>1, <1>4, <2>1, <2>2, WorkStep
<1> QED BY <1>2, <1>3, <1>4 DEF DropWork

LEMMA CloseFailedStep ==
  ASSUME RunsInv, NEW p \in Procs, CloseFailed(p) PROVE RunsInv' /\ Closes
<1> DEFINE name == Name(p, own[p], "fail")
<1>1. /\ pc[p] \in {"fail", "buildFail", "publishFail", "dropFail"}
      /\ UNCHANGED <<attempts, stops>>
  BY DEF CloseFailed
<1>2. /\ name \in Labels /\ name.run = own[p] /\ name.by = p /\ name.kind = "fail"
      /\ own[p] \in Runs /\ own[p] # 0 /\ ~Early(p)
      /\ \A c, d \in Named(name) : c = d
  BY <1>1, Working
<1>3. name = Name(p, own[p], "fail")
  OBVIOUS
<1> HIDE DEF name
<1>4. CASE Refuse(p)
  BY <1>1, <1>4, RefuseStep
<1>5. CASE /\ pc[p] = "fail" /\ staging' = staging \cup {Fresh(name)} /\ Goto(p, "buildFail")
           /\ UNCHANGED <<runs, empties, todo, group, own>>
  <2>1. Gone(name)
    <3>1. \A c \in Named(name) : c \in staging /\ c.kind = "fail" /\ c.run = own[p] /\ c.by = p
      BY <1>2, NamedFacts DEF RunsInv
    <3>2. pc[p] \notin {"buildFail", "publishFail", "dropFail", "remove"}
      BY <1>5
    <3> QED BY <3>1, <3>2 DEF Gone, RunsInv, ContainerInv
  <2>2. "buildFail" \in RunSteps
    BY DEF RunSteps
  <2>3. pc'[p] = "buildFail"
    BY <1>5, <2>2, Went
  <2>4. PrepareInv(p)' /\ ~Early(p)'
    BY <1>2, <1>5, <2>3 DEF PrepareInv, Early
  <2> QED BY <1>1, <1>2, <1>5, <2>1, <2>2, <2>4, MakeStep DEF FailSteps, Nameable
<1>6. CASE /\ pc[p] = "buildFail" /\ Put(p, name, "none", TRUE, "publishFail")
           /\ UNCHANGED <<runs, empties, todo, group, own>>
  <2>1. PICK c \in Named(name) : TRUE
    BY <1>6 DEF Put
  <2>2. c \in Named(Name(p, own[p], "fail"))
    BY <1>3, <2>1
  <2>3. Put(p, Name(p, own[p], "fail"), "none", TRUE, "publishFail")
    BY <1>3, <1>6
  <2> QED BY <1>1, <1>6, <2>2, <2>3, WorkStep DEF FailSteps, RunsKept, RunsInv, RunsTypeOK
<1>7. CASE /\ pc[p] = "publishFail" /\ runs[own[p]] = "none"
           /\ runs' = [runs EXCEPT ![own[p]] = "FAIL"]
           /\ Put(p, name, "none", FALSE, "dropFail")
           /\ UNCHANGED <<empties, todo, group, own>>
  <2>1. PICK c \in Named(name) : TRUE
    BY <1>7 DEF Put
  <2>2. /\ c \in Named(Name(p, own[p], "fail"))
        /\ Put(p, Name(p, own[p], "fail"), "none", FALSE, "dropFail")
    BY <1>3, <1>7, <2>1
  <2>3. /\ runs' \in [Runs -> {"none", "AWAITING_REVIEW", "FAIL"}]
        /\ runs'[own[p]] # "none" /\ RunsKept
    BY <1>2, <1>7, PublishedOnceFacts
  <2> QED BY <1>1, <1>7, <2>2, <2>3, WorkStep DEF FailSteps
<1>8. CASE /\ pc[p] = "dropFail" /\ staging' = staging \ Named(name)
           /\ group' = [group EXCEPT ![p] = own[p]]
           /\ todo' = [todo EXCEPT ![p] = {Name(p, own[p], "work")}]
           /\ Goto(p, "remove")
           /\ UNCHANGED <<runs, empties, own>>
  <2>1. "remove" \in RunSteps /\ own[p] \in 0 .. MaxRuns /\ "work" \in Kinds
    BY DEF RunSteps, RunsInv, RunsTypeOK, Kinds
  <2>2. /\ pc'[p] = "remove" /\ pc' \in [Procs -> RunSteps]
        /\ \A q \in Procs \ {p} : pc'[q] = pc[q]
    BY <1>8, <2>1, Went
  <2>3. Name(p, own[p], "work") \in Labels /\ Name(p, own[p], "work").run = own[p]
    BY <1>2, <2>1, OwnName
  <2>4. /\ group' \in [Procs -> 0 .. MaxRuns] /\ group'[p] = own[p]
        /\ todo' \in [Procs -> SUBSET Labels] /\ todo'[p] = {Name(p, own[p], "work")}
        /\ \A q \in Procs \ {p} : group'[q] = group[q] /\ todo'[q] = todo[q]
    BY <1>8, <2>1, <2>3 DEF RunsInv, RunsTypeOK, Labels
  <2>5. Shaped /\ SameNames /\ NoNewAttempts(p)
    BY <1>8, Shrunk
  <2>6. OthersStand(p)
    BY <1>8, <2>2, <2>4 DEF OthersStand
  <2>7. RunsTypeOK'
    BY <1>1, <1>8, <2>2, <2>4, <2>5 DEF RunsInv, RunsTypeOK, Shaped, Labels
  <2>8. ContainerInv'
    BY <1>8, <2>2, <2>5, <2>6, ContainersKept DEF SameNames, FailSteps
  <2>9. ~Early(p)' /\ Nameable(p, own[p])
    BY <1>2, <1>8, <2>2, <2>4 DEF Early, Nameable
  <2>10. \A c \in staging' : Nameable(p, c.run)
    BY <2>5, OldNames DEF Shaped
  <2>11. \A label \in empties'[p] \cup todo'[p] : Nameable(p, label.run)
    <3>1. \A label \in empties[p] : Nameable(p, label.run)
      BY DEF RunsInv, RunsTypeOK, IdentityInv, Nameable
    <3> QED BY <1>8, <2>3, <2>4, <2>9, <3>1
  <2>12. PrepareInv(p)'
    <3>1. runs[own[p]] # "none"
      BY <1>8 DEF RunsInv, PrepareInv
    <3> QED BY <1>2, <1>8, <2>2, <2>4, <3>1 DEF PrepareInv
  <2>13. Closes
    <3>1. \A c \in Named(name) : c.attempt # "whole"
      <4>1. \A c \in Named(name) : c \in staging /\ c.kind = "fail"
        BY <1>2, NamedFacts DEF RunsInv
      <4> QED BY <4>1 DEF RunsInv, ContainerInv
    <3> QED BY <1>8, <3>1 DEF Closes, RunsKept, AttemptsKept
  <2> QED BY <1>1, <1>8, <2>4, <2>5, <2>6, <2>7, <2>8, <2>9, <2>10, <2>11, <2>12, <2>13,
             StepKeeps DEF Closes
<1>9. CASE /\ pc[p] = "publishFail" /\ PublishedByAnother(own[p], name)
           /\ Goto(p, "dropFail")
           /\ UNCHANGED <<staging, runs, empties, todo, group, own>>
  BY <1>1, <1>9, OvertakenStep DEF PublishedByAnother
<1> QED BY <1>4, <1>5, <1>6, <1>7, <1>8, <1>9 DEF CloseFailed, name

LEMMA LesserOf ==
  ASSUME NEW m \in Nat, NEW n \in Nat
  PROVE  Min({m, n}) = IF m <= n THEN m ELSE n
<1> DEFINE least == IF m <= n THEN m ELSE n
<1>1. least \in {m, n} /\ \A y \in {m, n} : least <= y
  OBVIOUS
<1>2. \A x \in {m, n} : (\A y \in {m, n} : x <= y) => x = least
  OBVIOUS
<1> HIDE DEF least
<1>3. Min({m, n}) = least
  BY <1>1, <1>2 DEF Min
<1> QED BY <1>3 DEF least

(* A new invocation draws an identity nobody has, or none beyond the bound. *)
LEMMA StartPrepareStep ==
  ASSUME RunsInv, NEW p \in Procs, StartPrepare(p) PROVE RunsInv' /\ Closes
<1>1. /\ pc[p] = "idle" /\ Goto(p, "list")
      /\ attempts' = Min({attempts + 1, MaxRuns})
      /\ own' = [own EXCEPT ![p] = IF attempts < MaxRuns THEN attempts + 1 ELSE 0]
      /\ UNCHANGED <<staging, runs, empties, todo, group, stops>>
  BY DEF StartPrepare
<1>2. attempts \in 0 .. MaxRuns /\ MaxRuns \in Nat /\ own \in [Procs -> 0 .. MaxRuns]
  BY AmendmentRunsAssumption DEF RunsInv, RunsTypeOK
<1>3. attempts' = IF attempts < MaxRuns THEN attempts + 1 ELSE attempts
  <2>1. attempts' = IF attempts + 1 <= MaxRuns THEN attempts + 1 ELSE MaxRuns
    BY <1>1, <1>2, LesserOf
  <2> QED BY <1>2, <2>1
<1>4. /\ own'[p] = IF attempts < MaxRuns THEN attempts + 1 ELSE 0
      /\ own' \in [Procs -> 0 .. MaxRuns]
      /\ \A q \in Procs \ {p} : own'[q] = own[q]
  BY <1>1, <1>2
<1>5. attempts' \in 0 .. MaxRuns /\ attempts <= attempts'
  BY <1>2, <1>3
<1>6. "list" \in RunSteps
  BY DEF RunSteps
<1>7. /\ pc'[p] = "list" /\ pc' \in [Procs -> RunSteps]
      /\ \A q \in Procs \ {p} : pc'[q] = pc[q]
  BY <1>1, <1>6, Went
<1>8. RunsTypeOK'
  BY <1>1, <1>4, <1>5, <1>7 DEF RunsInv, RunsTypeOK
<1>9. \A r \in Runs : Known(r) => Known(r)'
  <2> SUFFICES ASSUME NEW r \in Runs, Known(r) PROVE Known(r)'
    OBVIOUS
  <2>1. r \in Nat /\ r # 0 /\ r <= attempts
    BY AmendmentRunsAssumption DEF Runs, Known
  <2>2. r # own'[p]
    BY <1>2, <1>4, <2>1
  <2>3. \A q \in Procs \ {p} : (Early(q)' <=> Early(q)) /\ own'[q] = own[q]
    BY <1>1, <1>4, <1>7 DEF Early
  <2>4. r <= attempts'
    BY <1>2, <1>5, <2>1
  <2> QED BY <2>2, <2>3, <2>4 DEF Known
<1>10. IdentityInv'
  <2>1. \A q, r \in Procs : own'[q] = own'[r] /\ own'[q] # 0 => q = r
    <3>1. \A q \in Procs : own[q] <= attempts /\ own[q] \in Nat
      BY <1>2 DEF RunsInv, IdentityInv
    <3>2. \A q \in Procs \ {p} : own'[q] # own'[p] \/ own'[q] = 0
      BY <1>2, <1>4, <3>1
    <3> QED BY <1>4, <3>2 DEF RunsInv, IdentityInv
  <2>2. \A q \in Procs : own'[q] <= attempts'
    <3>1. \A q \in Procs : own[q] <= attempts /\ own[q] \in Nat
      BY <1>2 DEF RunsInv, IdentityInv
    <3> QED BY <1>2, <1>3, <1>4, <3>1
  <2>3. \A c \in staging' : Known(c.run)'
    BY <1>1, <1>9 DEF RunsInv, RunsTypeOK, IdentityInv, Container
  <2>4. \A q \in Procs : \A name \in empties'[q] \cup todo'[q] : Known(name.run)'
    BY <1>1, <1>9 DEF RunsInv, RunsTypeOK, IdentityInv
  <2>5. \A q \in Procs : (group[q] # 0 => group[q] \in Runs /\ Known(group[q]))'
    <3>1. \A q \in Procs : group'[q] = group[q]
                           /\ (group[q] # 0 => group[q] \in Runs /\ Known(group[q]))
      BY <1>1 DEF RunsInv, IdentityInv
    <3> QED BY <1>9, <3>1 DEF Known
  <2> QED BY <2>1, <2>2, <2>3, <2>4, <2>5 DEF IdentityInv
<1>11. ContainerInv'
  <2>1. \A c \in staging : c.run \in Nat /\ c.run # 0 /\ c.run <= attempts /\ c.by \in Procs
    BY AmendmentRunsAssumption DEF RunsInv, RunsTypeOK, IdentityInv, Known, Container, Runs
  <2>2. \A c \in staging : c.by = p => c.run # own'[p]
    BY <1>2, <1>4, <2>1
  <2> QED BY <1>1, <1>4, <1>7, <2>1, <2>2 DEF RunsInv, ContainerInv
<1>12. PrepareInv(p)'
  BY <1>7 DEF PrepareInv
<1>13. \A q \in Procs \ {p} : PrepareInv(q)'
  <2> SUFFICES ASSUME NEW q \in Procs \ {p} PROVE PrepareInv(q)'
    OBVIOUS
  <2>1. PrepareInv(q) /\ pc'[q] = pc[q] /\ own'[q] = own[q] /\ group'[q] = group[q]
        /\ staging' = staging /\ runs' = runs
    BY <1>1, <1>4, <1>7 DEF RunsInv
  <2> QED BY <2>1 DEF PrepareInv, Named, Name
<1>14. Closes
  BY <1>1 DEF Closes, RunsKept, AttemptsKept
<1> QED BY <1>8, <1>10, <1>11, <1>12, <1>13, <1>14 DEF RunsInv

LEMMA StopPrepareStep ==
  ASSUME RunsInv, NEW p \in Procs, StopPrepare(p) PROVE RunsInv' /\ Closes
<1>1. /\ Leave(p) /\ UNCHANGED <<staging, runs, attempts>>
      /\ stops' = stops + 1 /\ stops < MaxStops
  BY DEF StopPrepare
<1>2. stops' \in 0 .. MaxStops
  BY <1>1, AmendmentRunsAssumption DEF RunsInv, RunsTypeOK
<1> QED BY <1>1, <1>2, LeaveStep DEF Closes, RunsKept, AttemptsKept

LEMMA PrepareStepKeeps ==
  ASSUME RunsInv, NEW p \in Procs, Prepare(p) PROVE RunsInv' /\ Closes
BY ListStagingStep, RemoveEmptyStep, NextGroupStep, CloseInterruptedStep,
   RemoveContainerStep, CreateWorkStep, WriteAttemptStep, EmitRunStep, PublishRunStep,
   DropWorkStep, CloseFailedStep DEF Prepare

(* Counting a stop of finalize, or nothing, changes nothing of the runs.    *)
LEMMA RunsStand ==
  ASSUME RunsInv, UNCHANGED <<staging, runs, attempts, pc, own, empties, todo, group>>,
         stops' \in 0 .. MaxStops
  PROVE  RunsInv' /\ Closes
<1>1. RunsTypeOK'
  BY DEF RunsInv, RunsTypeOK
<1>2. \A r : Known(r)' <=> Known(r)
  BY DEF Known, Early
<1>3. IdentityInv' /\ ContainerInv'
  BY <1>2 DEF RunsInv, IdentityInv, ContainerInv, Known, Early
<1>4. \A p \in Procs : PrepareInv(p)'
  BY DEF RunsInv, PrepareInv, Named, Name
<1> QED BY <1>1, <1>3, <1>4 DEF RunsInv, Closes, RunsKept, AttemptsKept
--------------------------------------------------------------------------------
(* finalize: sequences and what the invariant says of them.                 *)

LEMMA SeqFacts ==
  ASSUME NEW S, NEW s \in Seq(S)
  PROVE  /\ Len(s) \in Nat /\ DOMAIN s = 1 .. Len(s)
         /\ \A i \in 1 .. Len(s) : s[i] \in S
         /\ s = <<>> <=> Len(s) = 0
         /\ s # <<>> => Last(s) = s[Len(s)] /\ Len(s) \in 1 .. Len(s)
<1>1. Len(s) \in Nat /\ DOMAIN s = 1 .. Len(s) /\ \A i \in 1 .. Len(s) : s[i] \in S
  BY LenProperties
<1>2. s = <<>> <=> Len(s) = 0
  BY EmptySeq
<1> QED BY <1>1, <1>2 DEF Last

LEMMA AppendFacts ==
  ASSUME NEW S, NEW s \in Seq(S), NEW e \in S
  PROVE  /\ Append(s, e) \in Seq(S) /\ Append(s, e) # <<>>
         /\ Len(Append(s, e)) = Len(s) + 1
         /\ DOMAIN Append(s, e) = 1 .. Len(s) + 1
         /\ Append(s, e)[Len(s) + 1] = e /\ Last(Append(s, e)) = e
         /\ \A i \in 1 .. Len(s) : Append(s, e)[i] = s[i]
<1>1. /\ Append(s, e) \in Seq(S) /\ Append(s, e) # <<>>
      /\ Len(Append(s, e)) = Len(s) + 1 /\ Append(s, e)[Len(s) + 1] = e
      /\ \A i \in 1 .. Len(s) : Append(s, e)[i] = s[i]
  BY AppendProperties
<1> QED BY <1>1, SeqFacts DEF Last

LEMMA FrontFacts ==
  ASSUME NEW S, NEW s \in Seq(S), s # <<>>
  PROVE  /\ Front(s) \in Seq(S) /\ Len(Front(s)) = Len(s) - 1
         /\ \A i \in 1 .. Len(s) - 1 : Front(s)[i] = s[i]
<1>1. Len(s) \in Nat /\ Len(s) # 0 /\ \A i \in 1 .. Len(s) - 1 : s[i] \in S
  BY SeqFacts
<1>2. /\ SubSeq(s, 1, Len(s) - 1) \in Seq(S)
      /\ Len(SubSeq(s, 1, Len(s) - 1)) = IF 1 <= Len(s) - 1 THEN Len(s) - 1 - 1 + 1 ELSE 0
      /\ \A i \in 1 .. Len(s) - 1 - 1 + 1 : SubSeq(s, 1, Len(s) - 1)[i] = s[1 + i - 1]
  BY <1>1, SubSeqProperties
<1>3. Len(SubSeq(s, 1, Len(s) - 1)) = Len(s) - 1
  <2>1. \A n \in Nat : n # 0 => (IF 1 <= n - 1 THEN n - 1 - 1 + 1 ELSE 0) = n - 1
    OBVIOUS
  <2> QED BY <1>1, <1>2, <2>1
<1>4. \A i \in 1 .. Len(s) - 1 : i \in 1 .. Len(s) - 1 - 1 + 1 /\ 1 + i - 1 = i
  BY <1>1
<1> QED BY <1>2, <1>3, <1>4 DEF Front

CommitType == [runs : SUBSET Runs, approval : 0 .. MaxApprovals,
               acceptances : SUBSET Nat, pointer : Nat, checked : BOOLEAN]
AcceptanceType == [approval : 1 .. MaxApprovals, commit : 1 .. Len(commits)]
PointerTemp == [target : Nat, whole : BOOLEAN]

LEMMA Lengths ==
  ASSUME TypeOK
  PROVE  /\ Len(commits) \in Nat /\ DOMAIN commits = 1 .. Len(commits)
         /\ commits = <<>> <=> Len(commits) = 0
         /\ commits # <<>> => Last(commits) = commits[Len(commits)]
         /\ \A i \in DOMAIN commits : commits[i] \in CommitType
         /\ Len(chain) \in Nat /\ DOMAIN chain = 1 .. Len(chain)
         /\ chain = <<>> <=> Len(chain) = 0
         /\ chain # <<>> => Last(chain) = chain[Len(chain)] /\ Len(chain) \in DOMAIN chain
         /\ \A n \in DOMAIN chain : chain[n] \in AcceptanceType
         /\ Len(approvals) \in Nat /\ DOMAIN approvals = 1 .. Len(approvals)
         /\ approvals = <<>> <=> Len(approvals) = 0
         /\ Len(approvals) <= MaxApprovals
         /\ \A k \in DOMAIN approvals : approvals[k] \in Runs
         /\ Len(ptrTemps) \in Nat /\ ptrTemps = <<>> <=> Len(ptrTemps) = 0
<1>1. /\ commits \in Seq(CommitType) /\ chain \in Seq(AcceptanceType)
      /\ approvals \in Seq(Runs) /\ Len(approvals) <= MaxApprovals
      /\ ptrTemps \in Seq(PointerTemp)
  BY DEF TypeOK, CommitType, AcceptanceType, PointerTemp
<1>2. /\ Len(commits) \in Nat /\ DOMAIN commits = 1 .. Len(commits)
      /\ commits = <<>> <=> Len(commits) = 0
      /\ commits # <<>> => Last(commits) = commits[Len(commits)]
      /\ \A i \in DOMAIN commits : commits[i] \in CommitType
  BY <1>1, SeqFacts
<1>3. /\ Len(chain) \in Nat /\ DOMAIN chain = 1 .. Len(chain)
      /\ chain = <<>> <=> Len(chain) = 0
      /\ chain # <<>> => Last(chain) = chain[Len(chain)] /\ Len(chain) \in DOMAIN chain
      /\ \A n \in DOMAIN chain : chain[n] \in AcceptanceType
  BY <1>1, SeqFacts
<1>4. /\ Len(approvals) \in Nat /\ DOMAIN approvals = 1 .. Len(approvals)
      /\ approvals = <<>> <=> Len(approvals) = 0
      /\ \A k \in DOMAIN approvals : approvals[k] \in Runs
      /\ Len(ptrTemps) \in Nat /\ ptrTemps = <<>> <=> Len(ptrTemps) = 0
  BY <1>1, SeqFacts
<1> QED BY <1>1, <1>2, <1>3, <1>4

(* On top of an approval commit nothing is published or checked.            *)
LEMMA HeadOfApproval ==
  ASSUME AmendmentInv, NEW k \in Nat, k # 0, ApprovalCommitOf(HeadCommit, k)
  PROVE  /\ commits # <<>> /\ Last(commits).acceptances = {} /\ ~Checked
<1>1. /\ HeadCommit \in DOMAIN commits /\ commits[HeadCommit].approval = k
      /\ commits[HeadCommit].acceptances = {}
  BY DEF ApprovalCommitOf
<1>2. commits # <<>> /\ Last(commits) = commits[HeadCommit]
  BY <1>1, Lengths DEF HeadCommit, AmendmentInv
<1> QED BY <1>1, <1>2 DEF AmendmentInv, CommitInv, Checked

LEMMA OpenHead ==
  ASSUME AmendmentInv, Open
  PROVE  /\ Len(chain) \in Nat /\ Len(chain) >= 1
         /\ Len(chain) \notin CommittedAcceptances
         /\ commits # <<>> /\ Last(commits).acceptances = {} /\ ~Checked
<1>1. /\ Len(chain) \in Nat /\ Len(chain) >= 1 /\ Len(chain) \in DOMAIN chain
      /\ Last(chain) = chain[Len(chain)] /\ chain[Len(chain)] \in AcceptanceType
  BY Lengths DEF AmendmentInv, Open
<1>2. ApprovalCommitOf(HeadCommit, chain[Len(chain)].approval)
  BY <1>1 DEF AmendmentInv, ChainInv, AcceptanceChainValid, Open
<1>3. chain[Len(chain)].approval \in Nat /\ chain[Len(chain)].approval # 0
  BY <1>1, AmendmentAssumption DEF AcceptanceType
<1> QED BY <1>1, <1>2, <1>3, HeadOfApproval DEF Open

(* A step of finalize that leaves the chain and the commits alone.          *)
LEMMA PointStep ==
  ASSUME AmendmentInv, NobodyPrepares,
         UNCHANGED <<staging, runs, attempts, pc, own, empties, todo, group,
                     commits, approvals, chain>>,
         stops' \in 0 .. MaxStops, accTemp' \in BOOLEAN, fresh' \in BOOLEAN,
         reported' \in BOOLEAN, fin' \in FinSteps,
         reported' => fin' = "idle",
         pointer' \in {pointer, Len(chain)},
         ptrTemps' \in Seq(PointerTemp), Len(ptrTemps') <= 1,
         FinalizeInv'
  PROVE  AmendmentInv' /\ Closes
<1>1. RunsInv' /\ Closes
  BY RunsStand DEF AmendmentInv
<1>2. /\ commits' = commits /\ approvals' = approvals /\ chain' = chain /\ runs' = runs
  OBVIOUS
<1>3. pointer \in {Len(chain), Len(chain) - 1} /\ Len(chain) \in Nat
  BY Lengths DEF AmendmentInv, PointerInv
<1>4. TypeOK'
  <2>1. pointer' \in 0 .. Len(chain)
    <3>1. pointer \in 0 .. Len(chain)
      BY DEF AmendmentInv, TypeOK
    <3> QED BY <1>3, <3>1
  <2> QED BY <1>1, <1>2, <2>1 DEF AmendmentInv, TypeOK, RunsInv, PointerTemp
<1>5. AloneInv'
  BY DEF AloneInv, NobodyPrepares
<1>6. ApprovalInv' /\ ChainInv'
  <2>1. ApprovalInv'
    BY <1>2 DEF AmendmentInv, ApprovalInv, CommittedRuns
  <2>2. AcceptanceChainValid'
    BY <1>2 DEF AmendmentInv, ChainInv, AcceptanceChainValid, ApprovalCommitOf, RunOf
  <2>3. CommittedAcceptances' = CommittedAcceptances
    BY <1>2 DEF CommittedAcceptances
  <2>4. \A n : CommittedPair(n)' <=> CommittedPair(n)
    BY <1>2 DEF CommittedPair
  <2> QED BY <1>2, <2>1, <2>2, <2>3, <2>4 DEF AmendmentInv, ChainInv
<1>7. PointerInv'
  BY <1>2, <1>3 DEF AmendmentInv, PointerInv, Unselected, CommittedAcceptances
<1>8. CommitInv'
  <2>1. CASE pointer' = pointer
    BY <1>2, <2>1 DEF AmendmentInv, CommitInv, Checked, CommittedPointer, CheckboxCommitted
  <2>2. CASE pointer # Len(chain)
    <3>1. ~Checked /\ ~(commits # <<>> /\ Last(commits).acceptances # {})
      BY <2>2 DEF AmendmentInv, CommitInv
    <3> QED BY <1>2, <3>1 DEF AmendmentInv, CommitInv, Checked
  <2> QED BY <2>1, <2>2
<1> QED BY <1>1, <1>4, <1>5, <1>6, <1>7, <1>8 DEF AmendmentInv
--------------------------------------------------------------------------------
(* The steps of finalize.                                                   *)

LEMMA Busy ==
  ASSUME AmendmentInv, fin # "idle"
  PROVE  NobodyPrepares /\ approvals # <<>> /\ reported = FALSE
BY DEF AmendmentInv, AloneInv, FinalizeInv, TypeOK

LEMMA Types ==
  ASSUME AmendmentInv
  PROVE  /\ stops \in 0 .. MaxStops /\ accTemp \in BOOLEAN /\ fresh \in BOOLEAN
         /\ reported \in BOOLEAN /\ ptrTemps \in Seq(PointerTemp) /\ Len(ptrTemps) <= 1
         /\ Len(ptrTemps) \in Nat /\ (ptrTemps = <<>> <=> Len(ptrTemps) = 0)
         /\ <<>> \in Seq(PointerTemp) /\ Len(<<>>) = 0
         /\ MaxStops \in Nat
BY EmptySeq, Lengths, AmendmentRunsAssumption
   DEF AmendmentInv, TypeOK, RunsTypeOK, PointerInv, PointerTemp

(* Returning, without a report, from wherever finalize is.                  *)
LEMMA ReturnStep ==
  ASSUME AmendmentInv, NobodyPrepares, Return,
         UNCHANGED <<staging, runs, attempts, pc, own, empties, todo, group,
                     commits, approvals, chain, pointer>>,
         reported = FALSE, reported' = FALSE,
         stops' \in 0 .. MaxStops, accTemp' \in BOOLEAN,
         ptrTemps' \in Seq(PointerTemp), Len(ptrTemps') <= 1
  PROVE  AmendmentInv' /\ Closes
<1>1. fin' = "idle" /\ fresh' = FALSE /\ "idle" \in FinSteps
  BY DEF Return, FinSteps
<1>2. FinalizeInv'
  BY <1>1 DEF FinalizeInv
<1> QED BY <1>1, <1>2, PointStep

LEMMA StartFinalizeStep ==
  ASSUME AmendmentInv, StartFinalize PROVE AmendmentInv' /\ Closes
<1>1. /\ NobodyPrepares /\ reported = FALSE /\ approvals # <<>> /\ fin' = "approved"
      /\ accTemp' = FALSE /\ "approved" \in FinSteps
      /\ UNCHANGED <<runVars, commits, approvals, chain, ptrTemps, pointer, fresh, reported>>
  BY DEF StartFinalize, FinSteps, AmendmentInv, TypeOK
<1>2. FinalizeInv'
  BY <1>1 DEF FinalizeInv
<1> QED BY <1>1, <1>2, PointStep, Types DEF runVars

LEMMA BindApprovalStep ==
  ASSUME AmendmentInv, BindApproval PROVE AmendmentInv' /\ Closes
<1>1. /\ fin = "approved" /\ NobodyPrepares /\ approvals # <<>> /\ reported = FALSE
      /\ UNCHANGED <<runVars, commits, approvals, chain, accTemp, ptrTemps, pointer, reported>>
  BY Busy DEF BindApproval
<1>2. CASE Return
  BY <1>1, <1>2, ReturnStep, Types DEF runVars
<1>3. CASE MatchingRetained /\ fin' = "publication" /\ UNCHANGED fresh
  <2>1. "publication" \in FinSteps
    BY DEF FinSteps
  <2>2. FinalizeInv'
    BY <1>1, <1>3 DEF FinalizeInv, MatchingRetained
  <2> QED BY <1>1, <1>3, <2>1, <2>2, PointStep, Types DEF runVars
<1>4. CASE /\ SelectedPredecessor /\ ApprovalCommitOf(HeadCommit, LatestApproval)
           /\ RepositoryClean /\ fin' = "acceptance" /\ fresh' = TRUE
  <2>1. "acceptance" \in FinSteps
    BY DEF FinSteps
  <2>2. DOMAIN chain = CommittedAcceptances /\ ptrTemps = <<>>
    BY <1>4 DEF RepositoryClean, OnlyPairDirty
  <2>3. SelectedPredecessor' /\ ApprovalCommitOf(HeadCommit, LatestApproval)'
        /\ (DOMAIN chain = CommittedAcceptances)'
    BY <1>1, <1>4, <2>2 DEF SelectedPredecessor, ApprovalCommitOf, HeadCommit, LatestApproval,
                            CommittedAcceptances
  <2>4. FinalizeInv'
    BY <1>1, <1>4, <2>2, <2>3 DEF FinalizeInv
  <2> QED BY <1>1, <1>4, <2>1, <2>4, PointStep, Types DEF runVars
<1> QED BY <1>2, <1>3, <1>4 DEF BindApproval

LEMMA RecoverPointerTempStep ==
  ASSUME AmendmentInv, RecoverPointerTemp PROVE AmendmentInv' /\ Closes
<1>1. /\ fin = "publication" /\ NobodyPrepares /\ approvals # <<>> /\ reported = FALSE
      /\ chain # <<>>
      /\ UNCHANGED <<runVars, commits, approvals, chain, accTemp, reported>>
  BY Busy DEF RecoverPointerTemp, AmendmentInv, FinalizeInv
<1>2. CASE Return /\ UNCHANGED <<ptrTemps, pointer>>
  BY <1>1, <1>2, ReturnStep, Types DEF runVars
<1>3. CASE /\ fin' = "status" /\ fresh' = fresh /\ ptrTemps' \in {ptrTemps, <<>>}
           /\ pointer' \in {pointer, Len(chain)}
  <2>1. "status" \in FinSteps
    BY DEF FinSteps
  <2>2. FinalizeInv'
    BY <1>1, <1>3 DEF FinalizeInv
  <2>3. ptrTemps' \in Seq(PointerTemp) /\ Len(ptrTemps') <= 1
    <3>1. CASE ptrTemps' = ptrTemps
      BY <3>1, Types
    <3>2. CASE ptrTemps' = <<>>
      <4>1. <<>> \in Seq(PointerTemp) /\ Len(<<>>) <= 1
        BY Types
      <4> QED BY <3>2, <4>1
    <3> QED BY <1>3, <3>1, <3>2
  <2> QED BY <1>1, <1>3, <2>1, <2>2, <2>3, PointStep, Types DEF runVars
<1> QED BY <1>2, <1>3 DEF RecoverPointerTemp

(* What is open stays so while the chain, the commits and the pointer do.   *)
LEMMA OpenStays ==
  ASSUME UNCHANGED <<commits, chain>>, Open
  PROVE  Open'
BY DEF Open, HeadCommit, CommittedAcceptances

LEMMA CompletePublicationStep ==
  ASSUME AmendmentInv, CompletePublication PROVE AmendmentInv' /\ Closes
<1>1. /\ fin = "status" /\ NobodyPrepares /\ approvals # <<>> /\ reported = FALSE
      /\ chain # <<>>
      /\ UNCHANGED <<runVars, commits, approvals, chain, accTemp, ptrTemps, pointer>>
  BY Busy DEF CompletePublication, AmendmentInv, FinalizeInv
<1>2. CASE Return /\ UNCHANGED reported
  BY <1>1, <1>2, ReturnStep, Types DEF runVars
<1>3. CASE /\ Len(chain) \notin CommittedAcceptances
           /\ HeadCommit = Last(chain).commit /\ OnlyPairDirty
           /\ IF pointer = Len(chain) THEN Report
              ELSE fin' = "select" /\ UNCHANGED <<fresh, reported>>
  <2>1. Open /\ ptrTemps = <<>>
    <3>1. Len(chain) \in DOMAIN chain
      BY <1>1, Lengths DEF AmendmentInv
    <3> QED BY <1>1, <1>3, <3>1 DEF Open, OnlyPairDirty
  <2>2. Open'
    BY <1>1, <2>1, OpenStays
  <2>3. CASE pointer = Len(chain)
    <3>1. reported' = TRUE /\ fin' = "idle" /\ fresh' = FALSE /\ "idle" \in FinSteps
      BY <1>3, <2>3 DEF Report, Return, FinSteps
    <3>2. FinalizeInv'
      BY <1>1, <2>2, <2>3, <3>1 DEF FinalizeInv
    <3> QED BY <1>1, <3>1, <3>2, PointStep, Types DEF runVars
  <2>4. CASE pointer # Len(chain)
    <3>1. fin' = "select" /\ UNCHANGED <<fresh, reported>> /\ "select" \in FinSteps
      BY <1>3, <2>4 DEF FinSteps
    <3>2. pointer = Len(chain) - 1
      BY <2>4 DEF AmendmentInv, PointerInv
    <3>3. FinalizeInv'
      BY <1>1, <2>1, <2>2, <3>1, <3>2 DEF FinalizeInv
    <3> QED BY <1>1, <3>1, <3>3, PointStep, Types DEF runVars
  <2> QED BY <2>3, <2>4
<1> QED BY <1>2, <1>3 DEF CompletePublication

LEMMA ReplacePointerStep ==
  ASSUME AmendmentInv, ReplacePointer PROVE AmendmentInv' /\ Closes
<1>1. /\ fin \in {"select", "fill", "install"} /\ NobodyPrepares /\ approvals # <<>>
      /\ reported = FALSE /\ Open /\ pointer = Len(chain) - 1
      /\ UNCHANGED <<runVars, commits, approvals, chain, accTemp>>
  BY Busy DEF ReplacePointer, AmendmentInv, FinalizeInv
<1>2. Open' /\ Len(chain) \in Nat
  BY <1>1, OpenStays, OpenHead
<1>3. ASSUME fin = "select", fin' = "fill", UNCHANGED <<pointer, fresh, reported>>,
             ptrTemps' = Append(ptrTemps, [target |-> Len(chain), whole |-> FALSE])
      PROVE  AmendmentInv' /\ Closes
  <2>1. ptrTemps = <<>> /\ Len(ptrTemps) = 0 /\ ptrTemps \in Seq(PointerTemp)
    BY <1>3, Types DEF AmendmentInv, FinalizeInv
  <2>2. [target |-> Len(chain), whole |-> FALSE] \in PointerTemp
    BY <1>2 DEF PointerTemp
  <2>3. ptrTemps' \in Seq(PointerTemp) /\ Len(ptrTemps') = 1
    BY <1>3, <2>1, <2>2, AppendFacts
  <2>4. FinalizeInv' /\ "fill" \in FinSteps
    BY <1>1, <1>2, <1>3, <2>3 DEF FinalizeInv, FinSteps
  <2> QED BY <1>1, <1>3, <2>3, <2>4, PointStep, Types DEF runVars
<1>4. ASSUME fin = "fill", fin' = "install", UNCHANGED <<pointer, fresh, reported>>,
             ptrTemps' = [ptrTemps EXCEPT ![Len(ptrTemps)].whole = TRUE]
      PROVE  AmendmentInv' /\ Closes
  <2>1. Len(ptrTemps) = 1 /\ ptrTemps \in Seq(PointerTemp) /\ 1 \in 1 .. Len(ptrTemps)
    <3>1. Len(ptrTemps) = 1
      BY <1>4 DEF AmendmentInv, FinalizeInv
    <3> QED BY <3>1, Types
  <2>2. ptrTemps[1] \in PointerTemp
    BY <2>1, SeqFacts
  <2>3. [ptrTemps[1] EXCEPT !.whole = TRUE] \in PointerTemp
    BY <2>2 DEF PointerTemp
  <2>4. ptrTemps' = [ptrTemps EXCEPT ![1] = [ptrTemps[1] EXCEPT !.whole = TRUE]]
    BY <1>4, <2>1
  <2>5. ptrTemps' \in Seq(PointerTemp) /\ Len(ptrTemps') = 1
    BY <2>1, <2>3, <2>4, ExceptSeq
  <2>6. FinalizeInv' /\ "install" \in FinSteps
    BY <1>1, <1>2, <1>4, <2>5 DEF FinalizeInv, FinSteps
  <2> QED BY <1>1, <1>4, <2>5, <2>6, PointStep, Types DEF runVars
<1>5. ASSUME fin = "install", ptrTemps' = Front(ptrTemps), pointer' = Len(chain), Report
      PROVE  AmendmentInv' /\ Closes
  <2>1. Len(ptrTemps) = 1 /\ ptrTemps \in Seq(PointerTemp) /\ ptrTemps # <<>>
    <3>1. Len(ptrTemps) = 1
      BY <1>5 DEF AmendmentInv, FinalizeInv
    <3> QED BY <3>1, Types
  <2>2. ptrTemps' \in Seq(PointerTemp) /\ Len(ptrTemps') <= 1
    <3>1. ptrTemps' \in Seq(PointerTemp) /\ Len(ptrTemps') = Len(ptrTemps) - 1
      BY <1>5, <2>1, FrontFacts
    <3> QED BY <2>1, <3>1
  <2>3. reported' = TRUE /\ fin' = "idle" /\ fresh' = FALSE /\ "idle" \in FinSteps
    BY <1>5 DEF Report, Return, FinSteps
  <2>4. chain' = chain /\ pointer' = Len(chain') /\ approvals' = approvals
    BY <1>1, <1>5
  <2>5. FinalizeInv'
    BY <1>2, <2>3, <2>4 DEF FinalizeInv
  <2>6. /\ stops' \in 0 .. MaxStops /\ accTemp' \in BOOLEAN
        /\ UNCHANGED <<staging, runs, attempts, pc, own, empties, todo, group,
                       commits, approvals, chain>>
    BY <1>1, Types DEF runVars
  <2> QED BY <1>1, <1>5, <2>2, <2>3, <2>5, <2>6, PointStep
<1> QED BY <1>3, <1>4, <1>5 DEF ReplacePointer

LEMMA PointerFailsStep ==
  ASSUME AmendmentInv, PointerFails PROVE AmendmentInv' /\ Closes
<1>1. /\ fin \in {"fill", "install"} /\ NobodyPrepares /\ approvals # <<>>
      /\ reported = FALSE /\ Open /\ pointer = Len(chain) - 1 /\ Len(ptrTemps) = 1
      /\ stops < MaxStops /\ stops' = stops + 1
      /\ ptrTemps' = IF fin = "install" THEN Front(ptrTemps) ELSE ptrTemps
      /\ UNCHANGED <<staging, runs, attempts, pc, own, empties, todo, group, commits,
                     approvals, chain, accTemp, pointer, reported>>
  BY Busy DEF PointerFails, AmendmentInv, FinalizeInv
<1>2. stops' \in 0 .. MaxStops
  BY <1>1, Types
<1>3. ptrTemps' \in Seq(PointerTemp) /\ Len(ptrTemps') <= 1
  <2>1. ptrTemps # <<>> /\ ptrTemps \in Seq(PointerTemp)
    BY <1>1, Types
  <2>2. Front(ptrTemps) \in Seq(PointerTemp) /\ Len(Front(ptrTemps)) <= 1
    <3>1. /\ Front(ptrTemps) \in Seq(PointerTemp)
          /\ Len(Front(ptrTemps)) = Len(ptrTemps) - 1
      BY <2>1, FrontFacts
    <3> QED BY <1>1, <3>1
  <2>3. CASE fin = "install"
    BY <1>1, <2>2, <2>3
  <2>4. CASE fin # "install"
    BY <1>1, <2>1, <2>4, Types
  <2> QED BY <2>3, <2>4
<1>4. CASE Return
  BY <1>1, <1>2, <1>3, <1>4, ReturnStep, Types
<1>5. CASE fin' = "rollback" /\ UNCHANGED fresh
  <2>1. Open' /\ "rollback" \in FinSteps
    BY <1>1, OpenStays DEF FinSteps
  <2>2. FinalizeInv'
    BY <1>1, <1>5, <2>1 DEF FinalizeInv
  <2> QED BY <1>1, <1>2, <1>3, <1>5, <2>1, <2>2, PointStep, Types
<1> QED BY <1>4, <1>5 DEF PointerFails

LEMMA StopFinalizeStep ==
  ASSUME AmendmentInv, StopFinalize PROVE AmendmentInv' /\ Closes
<1>1. /\ NobodyPrepares /\ reported = FALSE /\ Return
      /\ stops < MaxStops /\ stops' = stops + 1
      /\ UNCHANGED <<staging, runs, attempts, pc, own, empties, todo, group, commits,
                     approvals, chain, accTemp, ptrTemps, pointer, reported>>
  BY Busy DEF StopFinalize
<1>2. stops' \in 0 .. MaxStops
  BY <1>1, Types
<1> QED BY <1>1, <1>2, ReturnStep, Types
--------------------------------------------------------------------------------
(* The chain grows by one acceptance or loses the last, open, one.          *)

(* Acceptances that stay in their place stay committed as they were.        *)
LEMMA PairsStand ==
  ASSUME AmendmentInv, UNCHANGED <<commits, runs, approvals>>,
         NEW n \in DOMAIN chain, n \in DOMAIN chain', chain'[n] = chain[n],
         n > 1 => chain'[n - 1] = chain[n - 1]
  PROVE  /\ CommittedPair(n) => CommittedPair(n)'
         /\ ApprovalCommitOf(chain[n].commit, chain[n].approval)'
         /\ (runs[RunOf(chain[n])] = "AWAITING_REVIEW")'
         /\ (\E i \in 1 .. chain[n].commit : RunOf(chain[n]) \in commits[i].runs)'
         /\ (n > 1 => chain[n - 1].approval < chain[n].approval)'
<1>1. /\ ApprovalCommitOf(chain[n].commit, chain[n].approval)
      /\ runs[RunOf(chain[n])] = "AWAITING_REVIEW"
      /\ \E i \in 1 .. chain[n].commit : RunOf(chain[n]) \in commits[i].runs
      /\ n > 1 => chain[n - 1].approval < chain[n].approval
  BY DEF AmendmentInv, ChainInv, AcceptanceChainValid
<1>2. commits' = commits /\ runs' = runs /\ approvals' = approvals /\ chain'[n] = chain[n]
  OBVIOUS
<1>3. CommittedPair(n) => CommittedPair(n)'
  BY <1>2 DEF CommittedPair
<1>4. /\ ApprovalCommitOf(chain[n].commit, chain[n].approval)'
      /\ (runs[RunOf(chain[n])] = "AWAITING_REVIEW")'
      /\ (\E i \in 1 .. chain[n].commit : RunOf(chain[n]) \in commits[i].runs)'
  BY <1>1, <1>2 DEF ApprovalCommitOf, RunOf
<1>5. (n > 1 => chain[n - 1].approval < chain[n].approval)'
  BY <1>1, <1>2
<1> QED BY <1>3, <1>4, <1>5

LEMMA LinkStep ==
  ASSUME AmendmentInv, fin = "link", fin' = "unlink",
         chain' = Append(chain, [approval |-> LatestApproval, commit |-> HeadCommit]),
         UNCHANGED <<runVars, commits, approvals, accTemp, ptrTemps, pointer, fresh, reported>>
  PROVE  AmendmentInv' /\ Closes
<1> DEFINE new == [approval |-> LatestApproval, commit |-> HeadCommit]
<1>1. /\ NobodyPrepares /\ approvals # <<>> /\ reported = FALSE
      /\ SelectedPredecessor /\ DOMAIN chain = CommittedAcceptances
      /\ ApprovalCommitOf(HeadCommit, LatestApproval) /\ ptrTemps = <<>>
  BY Busy DEF AmendmentInv, FinalizeInv
<1>2. RunsInv' /\ Closes
  BY RunsStand, Types DEF AmendmentInv, runVars
<1>3. /\ Len(chain) \in Nat /\ DOMAIN chain = 1 .. Len(chain) /\ chain \in Seq(AcceptanceType)
      /\ \A n \in DOMAIN chain : chain[n] \in AcceptanceType
  BY Lengths DEF AmendmentInv, TypeOK, AcceptanceType
<1>4. /\ LatestApproval \in 1 .. MaxApprovals /\ LatestApproval \in DOMAIN approvals
      /\ LatestApproval = Len(approvals) /\ LatestApproval \in Nat /\ LatestApproval # 0
  BY <1>1, Lengths, AmendmentAssumption DEF AmendmentInv, LatestApproval
<1>5. /\ HeadCommit \in 1 .. Len(commits) /\ Len(commits) \in Nat
      /\ DOMAIN commits = 1 .. Len(commits) /\ HeadCommit = Len(commits)
  BY <1>1, Lengths DEF AmendmentInv, ApprovalCommitOf, HeadCommit
<1>6. new \in AcceptanceType
  BY <1>4, <1>5 DEF AcceptanceType
<1>7. chain' = Append(chain, new)
  OBVIOUS
<1>8. new.approval = LatestApproval /\ new.commit = HeadCommit
  OBVIOUS
<1> HIDE DEF new
<1>9. /\ chain' \in Seq(AcceptanceType) /\ chain' # <<>>
      /\ Len(chain') = Len(chain) + 1 /\ DOMAIN chain' = 1 .. Len(chain) + 1
      /\ chain'[Len(chain) + 1] = new /\ Last(chain') = new
      /\ \A n \in DOMAIN chain : chain'[n] = chain[n]
  BY <1>3, <1>6, <1>7, AppendFacts
<1>10. pointer = Len(chain)
  BY <1>1 DEF SelectedPredecessor
<1>11. /\ commits # <<>> /\ Last(commits).acceptances = {} /\ ~Checked
  BY <1>1, <1>4, HeadOfApproval
<1>12. /\ commits' = commits /\ approvals' = approvals /\ runs' = runs /\ pointer' = pointer
       /\ CommittedAcceptances' = CommittedAcceptances /\ CommittedRuns' = CommittedRuns
       /\ HeadCommit' = HeadCommit /\ LatestApproval' = LatestApproval
  BY DEF runVars, CommittedAcceptances, CommittedRuns, HeadCommit, LatestApproval
<1>13. TypeOK'
  <2>1. pointer' \in 0 .. Len(chain') /\ "unlink" \in FinSteps
    BY <1>3, <1>9, <1>10, <1>12 DEF FinSteps
  <2>2. chain' \in Seq([approval : 1 .. MaxApprovals, commit : 1 .. Len(commits')])
    BY <1>9, <1>12 DEF AcceptanceType
  <2> QED BY <1>2, <1>12, <2>1, <2>2 DEF RunsInv, AmendmentInv, TypeOK
<1>14. AloneInv' /\ ApprovalInv'
  BY <1>1, <1>12 DEF AmendmentInv, AloneInv, NobodyPrepares, ApprovalInv, runVars
<1>15. ASSUME NEW n \in DOMAIN chain'
       PROVE  /\ ApprovalCommitOf(chain[n].commit, chain[n].approval)'
              /\ (runs[RunOf(chain[n])] = "AWAITING_REVIEW")'
              /\ (\E i \in 1 .. chain[n].commit : RunOf(chain[n]) \in commits[i].runs)'
              /\ (n > 1 => chain[n - 1].approval < chain[n].approval)'
              /\ chain'[n].approval <= Len(approvals')
  <2>1. CASE n \in DOMAIN chain
    <3>1. chain'[n] = chain[n] /\ (n > 1 => chain'[n - 1] = chain[n - 1])
      BY <1>3, <1>9, <2>1
    <3>2. chain'[n].approval <= Len(approvals')
      BY <1>12, <2>1, <3>1 DEF AmendmentInv, ChainInv
    <3> QED BY <1>12, <2>1, <3>1, <3>2, PairsStand
  <2>2. CASE n = Len(chain) + 1
    <3>1. chain'[n] = new
      BY <1>9, <2>2
    <3>2. ApprovalCommitOf(chain[n].commit, chain[n].approval)'
      BY <1>1, <1>8, <1>12, <3>1 DEF ApprovalCommitOf
    <3>3. (runs[RunOf(chain[n])] = "AWAITING_REVIEW")'
      BY <1>4, <1>8, <1>12, <3>1 DEF RunOf, AmendmentInv, ApprovalInv
    <3>4. (\E i \in 1 .. chain[n].commit : RunOf(chain[n]) \in commits[i].runs)'
      <4>1. approvals[LatestApproval] \in CommittedRuns
        BY <1>4 DEF AmendmentInv, ApprovalInv
      <4>2. PICK i \in DOMAIN commits : approvals[LatestApproval] \in commits[i].runs
        BY <4>1 DEF CommittedRuns
      <4>3. i \in 1 .. HeadCommit
        BY <1>5
      <4> QED BY <1>8, <1>12, <3>1, <4>2, <4>3 DEF RunOf
    <3>5. (n > 1 => chain[n - 1].approval < chain[n].approval)'
      <4>1. CASE chain = <<>>
        BY <1>3, <2>2, <4>1, Lengths DEF AmendmentInv
      <4>2. CASE chain # <<>>
        <5>1. Last(chain) = chain[Len(chain)] /\ Len(chain) \in DOMAIN chain
          BY <4>2, Lengths DEF AmendmentInv
        <5>2. Last(chain).approval < LatestApproval
          BY <1>1, <4>2 DEF SelectedPredecessor
        <5>3. n - 1 = Len(chain)
          BY <1>3, <2>2
        <5> QED BY <1>8, <1>9, <3>1, <5>1, <5>2, <5>3
      <4> QED BY <4>1, <4>2
    <3>6. chain'[n].approval <= Len(approvals')
      BY <1>4, <1>8, <1>12, <3>1
    <3> QED BY <3>2, <3>3, <3>4, <3>5, <3>6
  <2> QED BY <1>3, <1>9, <2>1, <2>2
<1>16. ChainInv'
  <2>1. AcceptanceChainValid'
    BY <1>15 DEF AcceptanceChainValid
  <2>2. ASSUME NEW n \in CommittedAcceptances' PROVE n \in DOMAIN chain' /\ CommittedPair(n)'
    <3>1. n \in DOMAIN chain /\ CommittedPair(n)
      BY <1>12, <2>2 DEF AmendmentInv, ChainInv
    <3>2. n \in DOMAIN chain' /\ chain'[n] = chain[n] /\ (n > 1 => chain'[n - 1] = chain[n - 1])
      BY <1>3, <1>9, <3>1
    <3> QED BY <1>12, <3>1, <3>2, PairsStand
  <2> QED BY <1>15, <2>1, <2>2 DEF ChainInv
<1>17. Len(chain) + 1 \notin CommittedAcceptances /\ pointer = Len(chain') - 1
  BY <1>1, <1>3, <1>9, <1>10
<1>18. PointerInv'
  BY <1>9, <1>12, <1>17 DEF AmendmentInv, PointerInv
<1>19. CommitInv'
  BY <1>11, <1>12 DEF AmendmentInv, CommitInv, Checked
<1>20. FinalizeInv'
  <2>1. Open'
    <3>1. DOMAIN chain' \ CommittedAcceptances' = {Len(chain')}
      <4>1. \A k \in Nat : (1 .. k + 1) \ (1 .. k) = {k + 1}
        OBVIOUS
      <4>2. DOMAIN chain' = 1 .. Len(chain) + 1 /\ CommittedAcceptances' = 1 .. Len(chain)
        BY <1>1, <1>3, <1>9, <1>12
      <4> QED BY <1>3, <1>9, <4>1, <4>2
    <3> QED BY <1>8, <1>9, <1>12, <3>1 DEF Open
  <2> QED BY <1>1, <1>12, <1>17, <2>1 DEF FinalizeInv
<1> QED BY <1>2, <1>13, <1>14, <1>16, <1>18, <1>19, <1>20 DEF AmendmentInv

LEMMA PublishAcceptanceStep ==
  ASSUME AmendmentInv, PublishAcceptance PROVE AmendmentInv' /\ Closes
<1>1. /\ fin \in {"acceptance", "link", "unlink"} /\ NobodyPrepares /\ approvals # <<>>
      /\ reported = FALSE
      /\ UNCHANGED <<runVars, commits, approvals, ptrTemps, pointer, fresh, reported>>
  BY Busy DEF PublishAcceptance
<1>2. CASE fin = "acceptance" /\ accTemp' = TRUE /\ fin' = "link" /\ UNCHANGED chain
  <2>1. SelectedPredecessor' /\ ApprovalCommitOf(HeadCommit, LatestApproval)'
        /\ (DOMAIN chain = CommittedAcceptances)' /\ ptrTemps = <<>>
    BY <1>1, <1>2 DEF SelectedPredecessor, ApprovalCommitOf, HeadCommit, LatestApproval,
                      CommittedAcceptances, AmendmentInv, FinalizeInv
  <2>2. FinalizeInv' /\ "link" \in FinSteps
    BY <1>1, <1>2, <2>1 DEF FinalizeInv, FinSteps
  <2> QED BY <1>1, <1>2, <2>2, PointStep, Types DEF runVars
<1>3. CASE fin = "link" /\ UNCHANGED accTemp /\ fin' = "unlink"
           /\ chain' = Append(chain, [approval |-> LatestApproval, commit |-> HeadCommit])
  BY <1>1, <1>3, LinkStep
<1>4. CASE fin = "unlink" /\ accTemp' = FALSE /\ fin' = "select" /\ UNCHANGED chain
  <2>1. Open /\ pointer = Len(chain) - 1 /\ ptrTemps = <<>>
    BY <1>4 DEF AmendmentInv, FinalizeInv
  <2>2. Open'
    BY <1>1, <1>4, <2>1, OpenStays
  <2>3. FinalizeInv' /\ "select" \in FinSteps
    BY <1>1, <1>4, <2>1, <2>2 DEF FinalizeInv, FinSteps
  <2> QED BY <1>1, <1>4, <2>3, PointStep, Types DEF runVars
<1> QED BY <1>2, <1>3, <1>4 DEF PublishAcceptance

LEMMA RollBackAcceptanceStep ==
  ASSUME AmendmentInv, RollBackAcceptance PROVE AmendmentInv' /\ Closes
<1>1. /\ fin = "rollback" /\ NobodyPrepares /\ reported = FALSE
      /\ Open /\ pointer = Len(chain) - 1
      /\ chain' = Front(chain) /\ fin' = "idle" /\ fresh' = FALSE /\ "idle" \in FinSteps
      /\ UNCHANGED <<runVars, commits, approvals, accTemp, ptrTemps, pointer, reported>>
  BY Busy DEF RollBackAcceptance, Return, AmendmentInv, FinalizeInv, FinSteps
<1>2. RunsInv' /\ Closes
  BY <1>1, RunsStand, Types DEF AmendmentInv, runVars
<1>3. /\ Len(chain) \in Nat /\ Len(chain) >= 1 /\ Len(chain) \notin CommittedAcceptances
      /\ commits # <<>> /\ Last(commits).acceptances = {} /\ ~Checked
  BY <1>1, OpenHead
<1>4. chain \in Seq(AcceptanceType) /\ chain # <<>> /\ DOMAIN chain = 1 .. Len(chain)
  BY <1>1, Lengths DEF AmendmentInv, TypeOK, AcceptanceType, Open
<1>5. /\ chain' \in Seq(AcceptanceType) /\ Len(chain') = Len(chain) - 1
      /\ \A n \in 1 .. Len(chain) - 1 : chain'[n] = chain[n]
  BY <1>1, <1>4, FrontFacts
<1>6. DOMAIN chain' = 1 .. Len(chain) - 1
  BY <1>5, SeqFacts
<1>7. /\ commits' = commits /\ approvals' = approvals /\ runs' = runs /\ pointer' = pointer
      /\ CommittedAcceptances' = CommittedAcceptances /\ CommittedRuns' = CommittedRuns
  BY <1>1 DEF runVars, CommittedAcceptances, CommittedRuns
<1>8. TypeOK'
  <2>1. pointer' \in 0 .. Len(chain')
    BY <1>1, <1>3, <1>5, <1>7
  <2>2. chain' \in Seq([approval : 1 .. MaxApprovals, commit : 1 .. Len(commits')])
    BY <1>5, <1>7 DEF AcceptanceType
  <2> QED BY <1>1, <1>2, <1>7, <2>1, <2>2 DEF RunsInv, AmendmentInv, TypeOK
<1>9. AloneInv' /\ ApprovalInv'
  BY <1>1, <1>7 DEF AmendmentInv, AloneInv, NobodyPrepares, ApprovalInv, runVars
<1>10. ASSUME NEW n \in DOMAIN chain'
       PROVE  /\ n \in DOMAIN chain /\ chain'[n] = chain[n]
              /\ n > 1 => chain'[n - 1] = chain[n - 1]
  BY <1>3, <1>4, <1>5, <1>6
<1>11. ChainInv'
  <2>1. AcceptanceChainValid'
    BY <1>7, <1>10, PairsStand DEF AcceptanceChainValid
  <2>2. \A n \in DOMAIN chain' : chain'[n].approval <= Len(approvals')
    BY <1>7, <1>10 DEF AmendmentInv, ChainInv
  <2>3. ASSUME NEW n \in CommittedAcceptances' PROVE n \in DOMAIN chain' /\ CommittedPair(n)'
    <3>1. n \in DOMAIN chain /\ CommittedPair(n) /\ n # Len(chain)
      BY <1>3, <1>7, <2>3 DEF AmendmentInv, ChainInv
    <3>2. n \in DOMAIN chain'
      BY <1>3, <1>4, <1>6, <3>1
    <3> QED BY <1>7, <1>10, <3>1, <3>2, PairsStand
  <2> QED BY <2>1, <2>2, <2>3 DEF ChainInv
<1>12. pointer' = Len(chain')
  BY <1>1, <1>3, <1>5
<1>13. PointerInv'
  BY <1>1, <1>12 DEF AmendmentInv, PointerInv, Unselected
<1>14. CommitInv' /\ FinalizeInv'
  BY <1>1, <1>3, <1>7 DEF AmendmentInv, CommitInv, Checked, FinalizeInv
<1> QED BY <1>2, <1>8, <1>9, <1>11, <1>13, <1>14 DEF AmendmentInv
--------------------------------------------------------------------------------
(* prepare, while the publication stands.                                   *)

LEMMA PrepareKeeps ==
  ASSUME AmendmentInv, NEW p \in Procs, PrepareStep(p) PROVE AmendmentInv' /\ Closes
<1>1. /\ commits' = commits /\ approvals' = approvals /\ chain' = chain
      /\ accTemp' = accTemp /\ ptrTemps' = ptrTemps /\ pointer' = pointer /\ fin' = fin
      /\ fresh' = fresh /\ reported' = reported
  BY DEF PrepareStep, pubVars
<1>2. RunsInv' /\ Closes
  BY PrepareStepKeeps, StartPrepareStep, StopPrepareStep DEF PrepareStep, AmendmentInv
<1>3. fin = "idle" /\ ~reported
  <2>1. CASE MayPrepare
    BY <2>1 DEF MayPrepare
  <2>2. CASE Prepare(p) \/ StopPrepare(p)
    <3>1. pc[p] # "idle"
      BY <2>2 DEF Prepare, StopPrepare, ListStaging, RemoveEmpty, NextGroup, CloseInterrupted,
                  RemoveContainer, CreateWork, WriteAttempt, EmitRun, PublishRun, DropWork,
                  CloseFailed
    <3> QED BY <3>1 DEF AmendmentInv, AloneInv, NobodyPrepares
  <2> QED BY <2>1, <2>2 DEF PrepareStep
<1>4. TypeOK'
  BY <1>1, <1>2 DEF AmendmentInv, TypeOK, RunsInv
<1>5. AloneInv'
  BY <1>1, <1>3 DEF AloneInv
<1>6. \A r \in Runs : runs[r] = "AWAITING_REVIEW" => runs'[r] = "AWAITING_REVIEW"
  BY <1>2 DEF Closes, RunsKept
<1>7. \A k \in DOMAIN approvals : approvals[k] \in Runs
  BY Lengths DEF AmendmentInv
<1>8. ApprovalInv'
  BY <1>1, <1>6, <1>7 DEF AmendmentInv, ApprovalInv, CommittedRuns
<1>9. ChainInv'
  <2>1. AcceptanceChainValid'
    <3> SUFFICES ASSUME NEW n \in DOMAIN chain
                 PROVE  /\ ApprovalCommitOf(chain[n].commit, chain[n].approval)'
                        /\ (runs[RunOf(chain[n])] = "AWAITING_REVIEW")'
                        /\ (\E i \in 1 .. chain[n].commit : RunOf(chain[n]) \in commits[i].runs)'
                        /\ (n > 1 => chain[n - 1].approval < chain[n].approval)'
      BY <1>1 DEF AcceptanceChainValid
    <3>1. /\ ApprovalCommitOf(chain[n].commit, chain[n].approval)
          /\ runs[RunOf(chain[n])] = "AWAITING_REVIEW"
          /\ \E i \in 1 .. chain[n].commit : RunOf(chain[n]) \in commits[i].runs
          /\ n > 1 => chain[n - 1].approval < chain[n].approval
      BY DEF AmendmentInv, ChainInv, AcceptanceChainValid
    <3>2. RunOf(chain[n]) \in Runs
      <4>1. /\ chain[n].approval \in 1 .. MaxApprovals /\ chain[n].approval <= Len(approvals)
            /\ DOMAIN approvals = 1 .. Len(approvals)
        BY Lengths DEF AmendmentInv, AcceptanceType, ChainInv
      <4>2. Len(approvals) \in Nat
        BY Lengths DEF AmendmentInv
      <4>3. chain[n].approval \in DOMAIN approvals
        BY <4>1, <4>2, AmendmentAssumption
      <4> QED BY <1>7, <4>3 DEF RunOf
    <3>3. runs'[RunOf(chain[n])] = "AWAITING_REVIEW"
      BY <1>6, <3>1, <3>2
    <3> QED BY <1>1, <3>1, <3>3 DEF ApprovalCommitOf, RunOf
  <2>2. CommittedAcceptances' = CommittedAcceptances
    BY <1>1 DEF CommittedAcceptances
  <2>3. \A n : CommittedPair(n)' <=> CommittedPair(n)
    BY <1>1 DEF CommittedPair
  <2> QED BY <1>1, <2>1, <2>2, <2>3 DEF AmendmentInv, ChainInv
<1>10. PointerInv'
  BY <1>1 DEF AmendmentInv, PointerInv, Unselected, CommittedAcceptances
<1>11. CommitInv'
  BY <1>1 DEF AmendmentInv, CommitInv, Checked, CommittedPointer, CheckboxCommitted
<1>12. FinalizeInv'
  BY <1>1, <1>3 DEF AmendmentInv, FinalizeInv
<1> QED BY <1>2, <1>4, <1>5, <1>8, <1>9, <1>10, <1>11, <1>12 DEF AmendmentInv
--------------------------------------------------------------------------------
(* The owner's commits.                                                     *)

LEMMA CommitsGrow ==
  ASSUME TypeOK, NEW c \in CommitType, commits' = Append(commits, c)
  PROVE  /\ commits' \in Seq(CommitType) /\ HeadCommit' = HeadCommit + 1
         /\ DOMAIN commits = 1 .. HeadCommit /\ DOMAIN commits' = 1 .. HeadCommit + 1
         /\ HeadCommit \in Nat
         /\ commits' # <<>> /\ Last(commits') = c /\ commits'[HeadCommit + 1] = c
         /\ \A i \in DOMAIN commits : commits'[i] = commits[i]
         /\ CommittedRuns' = CommittedRuns \cup c.runs
         /\ CommittedAcceptances' = CommittedAcceptances \cup c.acceptances
         /\ CommittedPointer' = c.pointer
         /\ (Checked' <=> c.checked)
<1>1. commits \in Seq(CommitType)
  BY DEF TypeOK, CommitType
<1>2. /\ commits' \in Seq(CommitType) /\ commits' # <<>> /\ Last(commits') = c
      /\ Len(commits') = Len(commits) + 1
      /\ DOMAIN commits' = 1 .. Len(commits) + 1 /\ commits'[Len(commits) + 1] = c
      /\ \A i \in 1 .. Len(commits) : commits'[i] = commits[i]
  BY <1>1, AppendFacts
<1>3. DOMAIN commits = 1 .. Len(commits) /\ Len(commits) \in Nat
  BY Lengths
<1>4. \A i : i \in DOMAIN commits' <=> (i \in DOMAIN commits \/ i = Len(commits) + 1)
  BY <1>2, <1>3
<1>5. CommittedRuns' = CommittedRuns \cup c.runs
  <2>1. \A x : (\E i \in DOMAIN commits' : x \in commits'[i].runs) <=>
               ((\E i \in DOMAIN commits : x \in commits[i].runs) \/ x \in c.runs)
    BY <1>2, <1>3, <1>4
  <2>2. \A x : x \in CommittedRuns <=> \E i \in DOMAIN commits : x \in commits[i].runs
    BY DEF CommittedRuns
  <2>3. \A x : x \in CommittedRuns' <=> \E i \in DOMAIN commits' : x \in commits'[i].runs
    BY DEF CommittedRuns
  <2> QED BY <2>1, <2>2, <2>3
<1>6. CommittedAcceptances' = CommittedAcceptances \cup c.acceptances
  <2>1. \A x : (\E i \in DOMAIN commits' : x \in commits'[i].acceptances) <=>
               ((\E i \in DOMAIN commits : x \in commits[i].acceptances) \/ x \in c.acceptances)
    BY <1>2, <1>3, <1>4
  <2>2. \A x : x \in CommittedAcceptances <=>
               \E i \in DOMAIN commits : x \in commits[i].acceptances
    BY DEF CommittedAcceptances
  <2>3. \A x : x \in CommittedAcceptances' <=>
               \E i \in DOMAIN commits' : x \in commits'[i].acceptances
    BY DEF CommittedAcceptances
  <2> QED BY <2>1, <2>2, <2>3
<1>7. CommittedPointer' = c.pointer /\ (Checked' <=> c.checked)
  BY <1>2 DEF CommittedPointer, Checked
<1> QED BY <1>2, <1>3, <1>5, <1>6, <1>7 DEF HeadCommit

(* What a commit of the owner keeps, whatever it adds.                      *)
LEMMA GrowKeeps ==
  ASSUME AmendmentInv, Quiet, NEW c \in CommitType, commits' = Append(commits, c),
         UNCHANGED <<runVars, chain, accTemp, ptrTemps, pointer, fin, fresh>>,
         reported' \in BOOLEAN,
         \/ approvals' = approvals
         \/ \E r \in CommittedRuns :
              /\ r \in Runs /\ runs[r] = "AWAITING_REVIEW" /\ Len(approvals) < MaxApprovals
              /\ approvals' = Append(approvals, r)
  PROVE  /\ RunsInv' /\ Closes /\ TypeOK' /\ AloneInv' /\ ApprovalInv'
         /\ AcceptanceChainValid'
         /\ \A n \in DOMAIN chain' : chain'[n].approval <= Len(approvals')
         /\ \A n \in CommittedAcceptances : n \in DOMAIN chain' /\ CommittedPair(n)'
<1>1. TypeOK /\ RunsInv
  BY DEF AmendmentInv
<1>2. /\ commits' \in Seq(CommitType) /\ HeadCommit' = HeadCommit + 1 /\ HeadCommit \in Nat
      /\ DOMAIN commits = 1 .. HeadCommit /\ DOMAIN commits' = 1 .. HeadCommit + 1
      /\ \A i \in DOMAIN commits : commits'[i] = commits[i]
      /\ CommittedRuns' = CommittedRuns \cup c.runs
  BY <1>1, CommitsGrow
<1>3. DOMAIN commits \subseteq DOMAIN commits'
  BY <1>2
<1>4. RunsInv' /\ Closes
  BY <1>1, RunsStand, Types DEF runVars
<1>5. /\ approvals' \in Seq(Runs) /\ Len(approvals') <= MaxApprovals
      /\ Len(approvals) <= Len(approvals') /\ DOMAIN approvals \subseteq DOMAIN approvals'
      /\ \A k \in DOMAIN approvals : approvals'[k] = approvals[k]
      /\ \A k \in DOMAIN approvals' \ DOMAIN approvals :
           runs[approvals'[k]] = "AWAITING_REVIEW" /\ approvals'[k] \in CommittedRuns
  <2>1. /\ approvals \in Seq(Runs) /\ Len(approvals) <= MaxApprovals /\ Len(approvals) \in Nat
        /\ DOMAIN approvals = 1 .. Len(approvals)
    BY <1>1, Lengths DEF TypeOK
  <2>2. CASE approvals' = approvals
    BY <2>1, <2>2
  <2>3. ASSUME NEW r \in CommittedRuns, r \in Runs, runs[r] = "AWAITING_REVIEW",
               Len(approvals) < MaxApprovals, approvals' = Append(approvals, r)
        PROVE  <1>5!1
    <3>1. /\ approvals' \in Seq(Runs) /\ Len(approvals') = Len(approvals) + 1
          /\ DOMAIN approvals' = 1 .. Len(approvals) + 1
          /\ approvals'[Len(approvals) + 1] = r
          /\ \A k \in 1 .. Len(approvals) : approvals'[k] = approvals[k]
      <4>1. r \in Runs /\ approvals \in Seq(Runs)
        BY <2>1, <2>3
      <4>2. /\ Append(approvals, r) \in Seq(Runs)
            /\ Len(Append(approvals, r)) = Len(approvals) + 1
            /\ DOMAIN Append(approvals, r) = 1 .. Len(approvals) + 1
            /\ Append(approvals, r)[Len(approvals) + 1] = r
            /\ \A k \in 1 .. Len(approvals) : Append(approvals, r)[k] = approvals[k]
        BY <4>1, AppendFacts
      <4> QED BY <2>3, <4>2
    <3>2. /\ DOMAIN approvals \subseteq DOMAIN approvals'
          /\ \A k \in DOMAIN approvals' \ DOMAIN approvals : k = Len(approvals) + 1
      <4>1. \A n \in Nat : /\ 1 .. n \subseteq 1 .. n + 1
                           /\ \A k \in (1 .. n + 1) \ (1 .. n) : k = n + 1
        OBVIOUS
      <4>2. /\ 1 .. Len(approvals) \subseteq 1 .. Len(approvals) + 1
            /\ \A k \in (1 .. Len(approvals) + 1) \ (1 .. Len(approvals)) :
                 k = Len(approvals) + 1
        BY <2>1, <4>1
      <4> QED BY <2>1, <3>1, <4>2
    <3>3. Len(approvals') <= MaxApprovals /\ Len(approvals) <= Len(approvals')
      <4>1. \A m, n \in Nat : m < n => m + 1 <= n /\ m <= m + 1
        OBVIOUS
      <4>2. /\ Len(approvals) + 1 <= MaxApprovals /\ Len(approvals) <= Len(approvals) + 1
        BY <2>1, <2>3, <4>1, AmendmentAssumption
      <4> QED BY <3>1, <4>2
    <3>4. \A k \in DOMAIN approvals' \ DOMAIN approvals : approvals'[k] = r
      BY <3>1, <3>2
    <3>5. \A k \in DOMAIN approvals : approvals'[k] = approvals[k]
      BY <2>1, <3>1
    <3> QED BY <2>3, <3>1, <3>2, <3>3, <3>4, <3>5
  <2> QED BY <2>2, <2>3
<1>6. /\ chain' = chain /\ runs' = runs /\ pointer' = pointer /\ accTemp' = accTemp
      /\ ptrTemps' = ptrTemps /\ fin' = fin /\ fresh' = fresh
  BY DEF runVars
<1>7. /\ chain \in Seq(AcceptanceType) /\ DOMAIN chain = 1 .. Len(chain)
      /\ \A n \in DOMAIN chain : chain[n] \in AcceptanceType
  BY <1>1, Lengths DEF TypeOK, AcceptanceType
<1>8. TypeOK'
  <2>1. AcceptanceType \subseteq [approval : 1 .. MaxApprovals, commit : 1 .. Len(commits')]
    <3>1. 1 .. Len(commits) \subseteq 1 .. Len(commits')
      BY <1>2 DEF HeadCommit
    <3> QED BY <3>1 DEF AcceptanceType
  <2>2. chain' \in Seq([approval : 1 .. MaxApprovals, commit : 1 .. Len(commits')])
    BY <1>6, <1>7, <2>1, SeqMonotonic
  <2> QED BY <1>1, <1>2, <1>4, <1>5, <1>6, <2>2 DEF TypeOK, RunsInv, CommitType
<1>9. AloneInv'
  BY DEF AmendmentInv, AloneInv, Quiet, NobodyPrepares, runVars
<1>10. ApprovalInv'
  <2> SUFFICES ASSUME NEW k \in DOMAIN approvals'
               PROVE  runs[approvals'[k]] = "AWAITING_REVIEW" /\ approvals'[k] \in CommittedRuns
    BY <1>2, <1>6 DEF ApprovalInv
  <2>1. CASE k \in DOMAIN approvals
    BY <1>5, <2>1 DEF AmendmentInv, ApprovalInv
  <2> QED BY <1>5, <2>1
<1>11. ASSUME NEW n \in DOMAIN chain PROVE RunOf(chain[n])' = RunOf(chain[n])
  <2>1. chain[n].approval \in Nat /\ chain[n].approval # 0 /\ chain[n].approval <= Len(approvals)
    BY <1>7, AmendmentAssumption DEF AcceptanceType, AmendmentInv, ChainInv
  <2>2. chain[n].approval \in DOMAIN approvals
    BY <1>1, <2>1, Lengths
  <2> QED BY <1>5, <1>6, <2>2 DEF RunOf
<1>12. AcceptanceChainValid'
  <2> SUFFICES ASSUME NEW n \in DOMAIN chain
               PROVE  /\ ApprovalCommitOf(chain[n].commit, chain[n].approval)'
                      /\ (runs[RunOf(chain[n])] = "AWAITING_REVIEW")'
                      /\ (\E i \in 1 .. chain[n].commit : RunOf(chain[n]) \in commits[i].runs)'
                      /\ (n > 1 => chain[n - 1].approval < chain[n].approval)'
    BY <1>6 DEF AcceptanceChainValid
  <2>1. /\ ApprovalCommitOf(chain[n].commit, chain[n].approval)
        /\ runs[RunOf(chain[n])] = "AWAITING_REVIEW"
        /\ n > 1 => chain[n - 1].approval < chain[n].approval
    BY DEF AmendmentInv, ChainInv, AcceptanceChainValid
  <2>2. PICK i \in 1 .. chain[n].commit : RunOf(chain[n]) \in commits[i].runs
    BY DEF AmendmentInv, ChainInv, AcceptanceChainValid
  <2>3. chain[n].commit \in 1 .. HeadCommit
    BY <1>7 DEF AcceptanceType, HeadCommit
  <2>4. i \in DOMAIN commits
    BY <1>2, <2>3
  <2>5. (\E j \in 1 .. chain[n].commit : RunOf(chain[n]) \in commits[j].runs)'
    <3>1. RunOf(chain[n])' \in commits'[i].runs
      BY <1>2, <1>11, <2>2, <2>4
    <3> QED BY <1>6, <3>1
  <2>6. ApprovalCommitOf(chain[n].commit, chain[n].approval)'
    BY <1>2, <1>3, <1>6, <2>1 DEF ApprovalCommitOf
  <2>7. (runs[RunOf(chain[n])] = "AWAITING_REVIEW")'
    BY <1>6, <1>11, <2>1
  <2>8. (n > 1 => chain[n - 1].approval < chain[n].approval)'
    BY <1>6, <2>1
  <2> QED BY <2>5, <2>6, <2>7, <2>8
<1>13. ASSUME NEW n \in DOMAIN chain PROVE chain[n].approval <= Len(approvals')
  <2>1. chain[n].approval \in Nat /\ chain[n].approval <= Len(approvals)
    BY <1>7, AmendmentAssumption DEF AcceptanceType, AmendmentInv, ChainInv
  <2>2. Len(approvals) \in Nat /\ Len(approvals') \in Nat
    BY <1>1, <1>5, Lengths, LenProperties
  <2> QED BY <1>5, <2>1, <2>2
<1>14. ASSUME NEW n \in CommittedAcceptances PROVE n \in DOMAIN chain /\ CommittedPair(n)'
  <2>1. n \in DOMAIN chain /\ CommittedPair(n)
    BY DEF AmendmentInv, ChainInv
  <2> QED BY <1>2, <1>3, <1>6, <2>1 DEF CommittedPair
<1> QED BY <1>4, <1>6, <1>8, <1>9, <1>10, <1>12, <1>13, <1>14

LEMMA HeadType ==
  ASSUME AmendmentInv PROVE CommittedPointer \in Nat /\ Checked \in BOOLEAN
<1>1. CASE commits = <<>>
  BY <1>1 DEF CommittedPointer, Checked
<1>2. CASE commits # <<>>
  <2>1. Last(commits) \in CommitType
    <3>1. Last(commits) = commits[Len(commits)] /\ Len(commits) \in DOMAIN commits
      BY <1>2, Lengths DEF AmendmentInv
    <3> QED BY <3>1, Lengths DEF AmendmentInv
  <2> QED BY <1>2, <2>1 DEF CommittedPointer, Checked, CommitType
<1> QED BY <1>1, <1>2

(* A commit that adds no acceptance and does not check the box.             *)
LEMMA BoxStays ==
  ASSUME AmendmentInv, NEW c \in CommitType, commits' = Append(commits, c),
         UNCHANGED <<chain, pointer>>, c.acceptances = {},
         c.approval # 0 => ~c.checked, c.checked => Checked
  PROVE  CommitInv'
<1>1. /\ HeadCommit \in Nat /\ DOMAIN commits = 1 .. HeadCommit
      /\ DOMAIN commits' = 1 .. HeadCommit + 1
      /\ commits'[HeadCommit + 1] = c /\ Last(commits') = c
      /\ \A i \in DOMAIN commits : commits'[i] = commits[i]
      /\ (Checked' <=> c.checked)
  BY CommitsGrow DEF AmendmentInv
<1>2. \A i \in DOMAIN commits' : commits'[i].approval # 0 => ~commits'[i].checked
  <2> SUFFICES ASSUME NEW i \in DOMAIN commits'
               PROVE  commits'[i].approval # 0 => ~commits'[i].checked
    OBVIOUS
  <2>1. i \in DOMAIN commits \/ i = HeadCommit + 1
    BY <1>1
  <2> QED BY <1>1, <2>1 DEF AmendmentInv, CommitInv
<1>3. Checked' => pointer' = Len(chain') /\ chain' # <<>> /\ CheckboxCommitted(pointer)'
  <2> SUFFICES ASSUME Checked
               PROVE  pointer = Len(chain) /\ chain # <<>> /\ CheckboxCommitted(pointer)'
    BY <1>1
  <2>1. pointer = Len(chain) /\ chain # <<>> /\ CheckboxCommitted(pointer)
    BY DEF AmendmentInv, CommitInv
  <2>2. PICK i \in DOMAIN commits :
          /\ commits[i].acceptances = {pointer} /\ ~commits[i].checked
          /\ i + 1 \in DOMAIN commits
          /\ commits[i + 1] = [runs |-> {}, approval |-> 0, acceptances |-> {},
                               pointer |-> pointer, checked |-> TRUE]
    BY <2>1 DEF CheckboxCommitted
  <2>3. i \in DOMAIN commits' /\ i + 1 \in DOMAIN commits'
    BY <1>1, <2>2
  <2>4. commits'[i] = commits[i] /\ commits'[i + 1] = commits[i + 1] /\ pointer' = pointer
    BY <1>1, <2>2
  <2> QED BY <2>1, <2>2, <2>3, <2>4 DEF CheckboxCommitted
<1> QED BY <1>1, <1>2, <1>3 DEF CommitInv

LEMMA CommitRunsStep ==
  ASSUME AmendmentInv, CommitRuns PROVE AmendmentInv' /\ Closes
<1> DEFINE c == [runs |-> Published \ CommittedRuns, approval |-> 0, acceptances |-> {},
                 checked |-> Checked, pointer |-> CommittedPointer]
<1>1. /\ Quiet /\ reported = FALSE /\ approvals' = approvals /\ reported' = FALSE
      /\ commits' = Append(commits, c)
      /\ UNCHANGED <<runVars, chain, accTemp, ptrTemps, pointer, fin, fresh>>
  BY DEF CommitRuns, Commit, AmendmentInv, TypeOK
<1>2. c \in CommitType
  BY HeadType, AmendmentAssumption DEF CommitType, Published
<1>3. /\ c.runs = Published \ CommittedRuns /\ c.approval = 0 /\ c.acceptances = {}
      /\ c.checked = Checked /\ c.pointer = CommittedPointer
  OBVIOUS
<1> HIDE DEF c
<1>4. /\ RunsInv' /\ Closes /\ TypeOK' /\ AloneInv' /\ ApprovalInv' /\ AcceptanceChainValid'
      /\ \A n \in DOMAIN chain' : chain'[n].approval <= Len(approvals')
      /\ \A n \in CommittedAcceptances : n \in DOMAIN chain' /\ CommittedPair(n)'
  BY <1>1, <1>2, GrowKeeps
<1>5. CommittedAcceptances' = CommittedAcceptances
  <2>1. CommittedAcceptances' = CommittedAcceptances \cup c.acceptances
    BY <1>1, <1>2, CommitsGrow DEF AmendmentInv
  <2> QED BY <1>3, <2>1
<1>6. ChainInv' /\ PointerInv'
  BY <1>1, <1>4, <1>5 DEF AmendmentInv, ChainInv, PointerInv, Unselected
<1>7. CommitInv'
  BY <1>1, <1>2, <1>3, BoxStays DEF AmendmentInv, CommitInv
<1>8. FinalizeInv'
  BY <1>1 DEF Quiet, FinalizeInv
<1> QED BY <1>4, <1>6, <1>7, <1>8 DEF AmendmentInv

LEMMA ApproveStep ==
  ASSUME AmendmentInv, NEW r \in Runs, Approve(r) PROVE AmendmentInv' /\ Closes
<1> DEFINE c == [runs |-> {}, approval |-> Len(approvals) + 1, acceptances |-> {},
                 checked |-> FALSE, pointer |-> CommittedPointer]
<1>1. /\ Quiet /\ reported' = reported /\ approvals' = Append(approvals, r)
      /\ commits' = Append(commits, c)
      /\ r \in CommittedRuns /\ runs[r] = "AWAITING_REVIEW" /\ Len(approvals) < MaxApprovals
      /\ DOMAIN chain = CommittedAcceptances
      /\ UNCHANGED <<runVars, chain, accTemp, ptrTemps, pointer, fin, fresh>>
  BY DEF Approve, Commit
<1>2. reported = FALSE
  <2> SUFFICES ASSUME reported PROVE FALSE
    BY DEF AmendmentInv, TypeOK
  <2>1. DOMAIN chain \ CommittedAcceptances = {Len(chain)}
    BY DEF AmendmentInv, FinalizeInv, Open
  <2> QED BY <1>1, <2>1
<1>3. c \in CommitType
  <2>1. Len(approvals) + 1 \in 0 .. MaxApprovals
    BY <1>1, Lengths, AmendmentAssumption DEF AmendmentInv
  <2> QED BY <2>1, HeadType DEF CommitType
<1>4. c.acceptances = {} /\ c.checked = FALSE
  OBVIOUS
<1> HIDE DEF c
<1>5. /\ RunsInv' /\ Closes /\ TypeOK' /\ AloneInv' /\ ApprovalInv' /\ AcceptanceChainValid'
      /\ \A n \in DOMAIN chain' : chain'[n].approval <= Len(approvals')
      /\ \A n \in CommittedAcceptances : n \in DOMAIN chain' /\ CommittedPair(n)'
  BY <1>1, <1>2, <1>3, GrowKeeps
<1>6. CommittedAcceptances' = CommittedAcceptances
  BY <1>1, <1>3, <1>4, CommitsGrow DEF AmendmentInv
<1>7. ChainInv' /\ PointerInv'
  BY <1>1, <1>5, <1>6 DEF AmendmentInv, ChainInv, PointerInv, Unselected
<1>8. CommitInv'
  BY <1>1, <1>3, <1>4, BoxStays DEF AmendmentInv, CommitInv
<1>9. FinalizeInv'
  BY <1>1, <1>2 DEF Quiet, FinalizeInv
<1> QED BY <1>5, <1>7, <1>8, <1>9 DEF AmendmentInv

LEMMA CommitPublicationStep ==
  ASSUME AmendmentInv, CommitPublication PROVE AmendmentInv' /\ Closes
<1> DEFINE c == [runs |-> {}, approval |-> 0, acceptances |-> {Len(chain)},
                 checked |-> FALSE, pointer |-> pointer]
<1>1. Open /\ pointer = Len(chain) /\ Len(chain) \in Nat /\ Len(chain) \in DOMAIN chain
      /\ Last(chain) = chain[Len(chain)]
  <2>1. Open /\ pointer = Len(chain)
    BY DEF CommitPublication, AmendmentInv, FinalizeInv
  <2> QED BY <2>1, Lengths DEF Open, AmendmentInv
<1>2. /\ Quiet /\ approvals' = approvals /\ reported' = FALSE
      /\ UNCHANGED <<runVars, chain, accTemp, ptrTemps, pointer, fin, fresh>>
  BY DEF CommitPublication, Commit
<1>3. commits' = Append(commits, c)
  <2>1. DOMAIN chain \ CommittedAcceptances = {Len(chain)} /\ {Len(chain)} # {}
    BY <1>1 DEF Open
  <2> QED BY <2>1 DEF CommitPublication, Commit
<1>4. c \in CommitType
  BY <1>1, AmendmentAssumption DEF CommitType
<1>5. /\ c.runs = {} /\ c.approval = 0 /\ c.acceptances = {Len(chain)} /\ c.checked = FALSE
      /\ c.pointer = pointer
  OBVIOUS
<1> HIDE DEF c
<1>6. /\ RunsInv' /\ Closes /\ TypeOK' /\ AloneInv' /\ ApprovalInv' /\ AcceptanceChainValid'
      /\ \A n \in DOMAIN chain' : chain'[n].approval <= Len(approvals')
      /\ \A n \in CommittedAcceptances : n \in DOMAIN chain' /\ CommittedPair(n)'
  BY <1>2, <1>3, <1>4, GrowKeeps
<1>7. /\ CommittedAcceptances' = CommittedAcceptances \cup {Len(chain)}
      /\ HeadCommit \in Nat /\ DOMAIN commits = 1 .. HeadCommit
      /\ DOMAIN commits' = 1 .. HeadCommit + 1
      /\ commits'[HeadCommit + 1] = c /\ commits' # <<>> /\ Last(commits') = c
      /\ \A i \in DOMAIN commits : commits'[i] = commits[i]
      /\ CommittedPointer' = pointer /\ ~Checked'
  BY <1>3, <1>4, <1>5, CommitsGrow DEF AmendmentInv
<1>8. CommittedPair(Len(chain))'
  <2>1. chain' = chain /\ chain[Len(chain)].commit = HeadCommit
    BY <1>1, <1>2 DEF Open
  <2>2. HeadCommit + 1 \in DOMAIN commits' /\ HeadCommit + 1 - 1 = HeadCommit
    BY <1>7
  <2> QED BY <1>1, <1>5, <1>7, <2>1, <2>2 DEF CommittedPair
<1>9. ChainInv'
  BY <1>1, <1>2, <1>6, <1>7, <1>8 DEF ChainInv
<1>10. PointerInv'
  BY <1>1, <1>2 DEF AmendmentInv, PointerInv, Unselected
<1>11. CommitInv'
  <2>1. \A i \in DOMAIN commits' : commits'[i].approval # 0 => ~commits'[i].checked
    <3> SUFFICES ASSUME NEW i \in DOMAIN commits'
                 PROVE  commits'[i].approval # 0 => ~commits'[i].checked
      OBVIOUS
    <3>1. i \in DOMAIN commits \/ i = HeadCommit + 1
      BY <1>7
    <3> QED BY <1>5, <1>7, <3>1 DEF AmendmentInv, CommitInv
  <2> QED BY <1>1, <1>2, <1>5, <1>7, <2>1 DEF CommitInv
<1>12. FinalizeInv'
  BY <1>2 DEF Quiet, FinalizeInv
<1> QED BY <1>6, <1>9, <1>10, <1>11, <1>12 DEF AmendmentInv

LEMMA CheckBoxStep ==
  ASSUME AmendmentInv, CheckBox PROVE AmendmentInv' /\ Closes
<1> DEFINE c == [runs |-> {}, approval |-> 0, acceptances |-> {},
                 checked |-> TRUE, pointer |-> CommittedPointer]
<1>1. /\ Quiet /\ approvals' = approvals /\ reported' = reported
      /\ commits' = Append(commits, c) /\ commits # <<>> /\ Last(commits).acceptances # {}
      /\ UNCHANGED <<runVars, chain, accTemp, ptrTemps, pointer, fin, fresh>>
  BY DEF CheckBox, Commit
<1>2. reported = FALSE
  <2> SUFFICES ASSUME reported PROVE FALSE
    BY DEF AmendmentInv, TypeOK
  <2>1. Open
    BY DEF AmendmentInv, FinalizeInv
  <2> QED BY <1>1, <2>1, OpenHead
<1>3. /\ Last(commits).acceptances = {Len(chain)} /\ ~Checked
      /\ pointer = Len(chain) /\ CommittedPointer = pointer
  BY <1>1 DEF AmendmentInv, CommitInv
<1>4. c \in CommitType
  BY HeadType, AmendmentAssumption DEF CommitType
<1>5. /\ c.acceptances = {} /\ c.approval = 0
      /\ c = [runs |-> {}, approval |-> 0, acceptances |-> {}, pointer |-> pointer,
              checked |-> TRUE]
  BY <1>3
<1> HIDE DEF c
<1>6. /\ RunsInv' /\ Closes /\ TypeOK' /\ AloneInv' /\ ApprovalInv' /\ AcceptanceChainValid'
      /\ \A n \in DOMAIN chain' : chain'[n].approval <= Len(approvals')
      /\ \A n \in CommittedAcceptances : n \in DOMAIN chain' /\ CommittedPair(n)'
  BY <1>1, <1>2, <1>4, GrowKeeps
<1>7. /\ CommittedAcceptances' = CommittedAcceptances
      /\ HeadCommit \in Nat /\ DOMAIN commits = 1 .. HeadCommit
      /\ DOMAIN commits' = 1 .. HeadCommit + 1
      /\ commits'[HeadCommit + 1] = c /\ commits' # <<>> /\ Last(commits') = c
      /\ \A i \in DOMAIN commits : commits'[i] = commits[i]
  BY <1>1, <1>4, <1>5, CommitsGrow DEF AmendmentInv
<1>8. ChainInv' /\ PointerInv'
  BY <1>1, <1>6, <1>7 DEF AmendmentInv, ChainInv, PointerInv, Unselected
<1>9. CommitInv'
  <2>1. \A i \in DOMAIN commits' : commits'[i].approval # 0 => ~commits'[i].checked
    <3> SUFFICES ASSUME NEW i \in DOMAIN commits'
                 PROVE  commits'[i].approval # 0 => ~commits'[i].checked
      OBVIOUS
    <3>1. i \in DOMAIN commits \/ i = HeadCommit + 1
      BY <1>7
    <3> QED BY <1>5, <1>7, <3>1 DEF AmendmentInv, CommitInv
  <2>2. chain # <<>>
    <3>1. Last(commits) = commits[HeadCommit] /\ HeadCommit \in DOMAIN commits
      BY <1>1, <1>7, Lengths DEF HeadCommit, AmendmentInv
    <3>2. Len(chain) \in CommittedAcceptances
      BY <1>3, <3>1 DEF CommittedAcceptances
    <3>3. Len(chain) \in DOMAIN chain
      BY <3>2 DEF AmendmentInv, ChainInv
    <3> QED BY <3>3, Lengths DEF AmendmentInv
  <2>3. CheckboxCommitted(pointer)'
    <3>1. /\ HeadCommit \in DOMAIN commits /\ HeadCommit \in DOMAIN commits'
          /\ HeadCommit + 1 \in DOMAIN commits'
          /\ commits'[HeadCommit] = Last(commits)
      <4>1. HeadCommit # 0 /\ Last(commits) = commits[HeadCommit]
        BY <1>1, Lengths DEF HeadCommit, AmendmentInv
      <4>2. /\ HeadCommit \in DOMAIN commits /\ HeadCommit \in DOMAIN commits'
            /\ HeadCommit + 1 \in DOMAIN commits'
        BY <1>7, <4>1
      <4> QED BY <1>7, <4>1, <4>2
    <3>2. commits'[HeadCommit].acceptances = {pointer} /\ ~commits'[HeadCommit].checked
      BY <1>1, <1>3, <3>1 DEF Checked
    <3>3. pointer' = pointer
      BY <1>1
    <3> QED BY <1>5, <1>7, <3>1, <3>2, <3>3 DEF CheckboxCommitted
  <2> QED BY <1>1, <1>3, <1>5, <1>7, <2>1, <2>2, <2>3 DEF CommitInv
<1>10. FinalizeInv'
  BY <1>1, <1>2 DEF Quiet, FinalizeInv
<1> QED BY <1>6, <1>8, <1>9, <1>10 DEF AmendmentInv
--------------------------------------------------------------------------------
(* The specification.                                                       *)

LEMMA InitAmendment == Init => AmendmentInv
<1> SUFFICES ASSUME Init PROVE AmendmentInv
  OBVIOUS
<1>1. /\ staging = {} /\ runs = [r \in Runs |-> "none"] /\ attempts = 0
      /\ pc = [p \in Procs |-> "idle"] /\ own = [p \in Procs |-> 0]
      /\ empties = [p \in Procs |-> {}] /\ todo = [p \in Procs |-> {}]
      /\ group = [p \in Procs |-> 0] /\ stops = 0
      /\ commits = <<>> /\ approvals = <<>> /\ chain = <<>>
      /\ accTemp = FALSE /\ ptrTemps = <<>> /\ pointer = 0
      /\ fin = "idle" /\ fresh = FALSE /\ reported = FALSE
  BY DEF Init, RunsInit
<1>2. MaxRuns \in Nat /\ MaxStops \in Nat /\ MaxApprovals \in Nat
  BY AmendmentRunsAssumption, AmendmentAssumption
<1>3. RunsTypeOK
  BY <1>1, <1>2 DEF RunsTypeOK, RunSteps
<1>4. RunsInv
  <2>1. IdentityInv /\ ContainerInv
    BY <1>1 DEF IdentityInv, ContainerInv
  <2>2. \A p \in Procs : PrepareInv(p)
    BY <1>1 DEF PrepareInv
  <2> QED BY <1>3, <2>1, <2>2 DEF RunsInv
<1>5. /\ \A S : <<>> \in Seq(S)
      /\ Len(<<>>) = 0 /\ DOMAIN <<>> = {}
  <2>1. \A S : <<>> \in Seq(S)
    BY EmptySeq
  <2>2. Len(<<>>) = 0 /\ DOMAIN <<>> = 1 .. 0
    BY <2>1, EmptySeq, LenProperties
  <2> QED BY <2>1, <2>2
<1>6. TypeOK
  <2>1. Len(approvals) <= MaxApprovals /\ pointer \in 0 .. Len(chain) /\ "idle" \in FinSteps
    BY <1>1, <1>2, <1>5 DEF FinSteps
  <2> QED BY <1>1, <1>3, <1>5, <2>1 DEF TypeOK
<1>7. AloneInv /\ ApprovalInv /\ FinalizeInv
  BY <1>1, <1>5 DEF AloneInv, NobodyPrepares, ApprovalInv, FinalizeInv
<1>8. CommittedAcceptances = {} /\ ~Checked
  BY <1>1, <1>5 DEF CommittedAcceptances, Checked
<1>9. ChainInv /\ CommitInv
  BY <1>1, <1>5, <1>8 DEF ChainInv, AcceptanceChainValid, CommitInv
<1>10. PointerInv
  BY <1>1, <1>5 DEF PointerInv, Unselected
<1> QED BY <1>4, <1>6, <1>7, <1>9, <1>10 DEF AmendmentInv

LEMMA StutterAmendment ==
  ASSUME AmendmentInv, UNCHANGED vars PROVE AmendmentInv' /\ Closes
<1>1. /\ UNCHANGED <<staging, runs, attempts, pc, own, empties, todo, group, stops>>
      /\ UNCHANGED <<commits, approvals, chain, accTemp, ptrTemps, pointer, fin, fresh,
                     reported>>
  BY DEF vars, runVars, pubVars
<1>2. RunsInv' /\ Closes
  BY <1>1, RunsStand, Types DEF AmendmentInv
<1>3. TypeOK' /\ AloneInv' /\ ApprovalInv'
  BY <1>1, <1>2 DEF AmendmentInv, TypeOK, RunsInv, AloneInv, NobodyPrepares, ApprovalInv,
                    CommittedRuns
<1>4. AcceptanceChainValid'
  BY <1>1 DEF AmendmentInv, ChainInv, AcceptanceChainValid, ApprovalCommitOf, RunOf
<1>5. /\ CommittedAcceptances' = CommittedAcceptances
      /\ \A n : CommittedPair(n)' <=> CommittedPair(n)
  BY <1>1 DEF CommittedAcceptances, CommittedPair
<1>6. ChainInv' /\ PointerInv'
  BY <1>1, <1>4, <1>5 DEF AmendmentInv, ChainInv, PointerInv, Unselected
<1>7. CommitInv'
  BY <1>1 DEF AmendmentInv, CommitInv, Checked, CommittedPointer, CheckboxCommitted
<1>8. Open' <=> Open
  BY <1>1 DEF Open, HeadCommit, CommittedAcceptances
<1>9. FinalizeInv'
  BY <1>1, <1>5, <1>8 DEF AmendmentInv, FinalizeInv, SelectedPredecessor, ApprovalCommitOf,
                          HeadCommit, LatestApproval
<1> QED BY <1>2, <1>3, <1>6, <1>7, <1>9 DEF AmendmentInv

LEMMA NextAmendment ==
  ASSUME AmendmentInv, [Next]_vars PROVE AmendmentInv' /\ Closes
<1>1. CASE \E p \in Procs : PrepareStep(p)
  BY <1>1, PrepareKeeps
<1>2. CASE StartFinalize
  BY <1>2, StartFinalizeStep
<1>3. CASE Finalize
  BY <1>3, BindApprovalStep, RecoverPointerTempStep, CompletePublicationStep,
     PublishAcceptanceStep, ReplacePointerStep, RollBackAcceptanceStep DEF Finalize
<1>4. CASE PointerFails
  BY <1>4, PointerFailsStep
<1>5. CASE StopFinalize
  BY <1>5, StopFinalizeStep
<1>6. CASE Owner
  BY <1>6, CommitRunsStep, CommitPublicationStep, CheckBoxStep, ApproveStep DEF Owner
<1>7. CASE UNCHANGED vars
  BY <1>7, StutterAmendment
<1> QED BY <1>1, <1>2, <1>3, <1>4, <1>5, <1>6, <1>7 DEF Next

(* prepare, finalize and the owner's commits keep what each relies on: an    *)
(* attempt's identity is its maker's, an acceptance binds a committed pair,  *)
(* and the pointer lags by no more than the publication that is open.        *)
THEOREM AmendmentHolds == Spec => []AmendmentInv
BY InitAmendment, NextAmendment, PTL DEF Spec

(* A published run is never replaced, and an attempt with a durable identity *)
(* keeps it until a run of that identity is published, for any number of     *)
(* prepare invocations that recover each other's attempts.                   *)
THEOREM AttemptsCloseOnce == Spec => AttemptsAreClosedOnce
<1>1. AmendmentInv /\ [Next]_vars =>
        [/\ \A r \in Runs : runs[r] # "none" => runs'[r] = runs[r]
         /\ \A c \in staging :
              c.attempt = "whole" /\ runs'[c.run] = "none" =>
                \E d \in staging' : NameOf(d) = NameOf(c) /\ d.attempt = "whole"]_runVars
  BY NextAmendment DEF Closes, RunsKept, AttemptsKept
<1> QED BY <1>1, AmendmentHolds, PTL DEF Spec, AttemptsAreClosedOnce

(* Only the last acceptance can be unselected, and then it is not committed; *)
(* one pointer temporary at most is left, however often finalize stops.      *)
THEOREM OnePublicationIsOpen == Spec => []OneOpenPublication
<1>1. AmendmentInv => OneOpenPublication
  <2> SUFFICES ASSUME AmendmentInv PROVE OneOpenPublication
    OBVIOUS
  <2>1. Len(chain) \in Nat /\ pointer \in {Len(chain), Len(chain) - 1}
    BY Lengths DEF AmendmentInv, PointerInv
  <2>2. Len(chain) - pointer \in {0, 1}
    BY <2>1
  <2> QED BY <2>2 DEF AmendmentInv, PointerInv, OneOpenPublication
<1> QED BY <1>1, AmendmentHolds, PTL

(* A box that an owner checks after the commits the commands ask for is one  *)
(* that check_selected accepts.                                              *)
THEOREM BoxesVerify == Spec => []CheckedBoxVerifies
<1>1. AmendmentInv => CheckedBoxVerifies
  <2> SUFFICES ASSUME AmendmentInv, Checked, RepositoryClean PROVE SelectedVerifies
    BY DEF CheckedBoxVerifies
  <2>1. pointer = Len(chain) /\ chain # <<>> /\ CheckboxCommitted(pointer)
    BY DEF AmendmentInv, CommitInv
  <2>2. DOMAIN chain = CommittedAcceptances /\ Len(chain) \in DOMAIN chain
    BY <2>1, Lengths DEF AmendmentInv, RepositoryClean
  <2>3. CommittedPair(pointer) /\ AcceptanceChainValid
    BY <2>1, <2>2 DEF AmendmentInv, ChainInv
  <2> QED BY <2>1, <2>3 DEF SelectedVerifies
<1> QED BY <1>1, AmendmentHolds, PTL
--------------------------------------------------------------------------------
(* The selected history.                                                    *)

LEMMA HistoryKept ==
  ASSUME AmendmentInv, AmendmentInv', pointer <= Len(chain'),
         \A i \in 1 .. pointer : chain'[i] = chain[i]
  PROVE  IsPrefix(SubSeq(chain, 1, pointer), chain')
<1>1. pointer \in Nat /\ chain' \in Seq(AcceptanceType')
  <2>1. Len(chain) \in Nat /\ pointer \in 0 .. Len(chain)
    BY Lengths DEF AmendmentInv, TypeOK
  <2> QED BY <2>1 DEF AmendmentInv, TypeOK, AcceptanceType
<1>2. \A i \in 1 .. pointer : chain'[i] \in AcceptanceType'
  <2>1. Len(chain') \in Nat /\ \A i \in 1 .. Len(chain') : chain'[i] \in AcceptanceType'
    BY <1>1, SeqFacts
  <2> QED BY <1>1, <2>1
<1>3. /\ SubSeq(chain, 1, pointer) \in Seq(AcceptanceType')
      /\ Len(SubSeq(chain, 1, pointer)) = IF 1 <= pointer THEN pointer - 1 + 1 ELSE 0
      /\ \A i \in 1 .. pointer - 1 + 1 : SubSeq(chain, 1, pointer)[i] = chain[1 + i - 1]
  BY <1>1, <1>2, SubSeqProperties
<1>4. /\ SubSeq(chain', 1, pointer) \in Seq(AcceptanceType')
      /\ Len(SubSeq(chain', 1, pointer)) = IF 1 <= pointer THEN pointer - 1 + 1 ELSE 0
      /\ \A i \in 1 .. pointer - 1 + 1 : SubSeq(chain', 1, pointer)[i] = chain'[1 + i - 1]
  BY <1>1, <1>2, SubSeqProperties
<1>5. (IF 1 <= pointer THEN pointer - 1 + 1 ELSE 0) = pointer /\ pointer - 1 + 1 = pointer
  BY <1>1
<1>6. \A i \in 1 .. pointer : 1 + i - 1 = i
  BY <1>1
<1>7. SubSeq(chain, 1, pointer) = SubSeq(chain', 1, pointer)
  <2>1. \A i \in 1 .. Len(SubSeq(chain, 1, pointer)) :
          SubSeq(chain, 1, pointer)[i] = SubSeq(chain', 1, pointer)[i]
    BY <1>3, <1>4, <1>5, <1>6
  <2> QED BY <1>3, <1>4, <2>1, SeqEqual
<1> QED BY <1>3, <1>5, <1>7 DEF IsPrefix

(* The new acceptance leaves the ones before it where they are.             *)
LEMMA LinkGrows ==
  ASSUME AmendmentInv, fin = "link",
         chain' = Append(chain, [approval |-> LatestApproval, commit |-> HeadCommit])
  PROVE  Len(chain') = Len(chain) + 1 /\ \A i \in 1 .. Len(chain) : chain'[i] = chain[i]
<1>1. /\ chain \in Seq([approval : Nat, commit : Nat])
      /\ LatestApproval \in Nat /\ HeadCommit \in Nat
  <2>1. AcceptanceType \subseteq [approval : Nat, commit : Nat]
    BY Lengths, AmendmentAssumption DEF AcceptanceType, AmendmentInv
  <2>2. chain \in Seq(AcceptanceType)
    BY DEF AmendmentInv, TypeOK, AcceptanceType
  <2>3. LatestApproval \in Nat /\ HeadCommit \in Nat
    BY Lengths DEF AmendmentInv, LatestApproval, HeadCommit
  <2> QED BY <2>1, <2>2, <2>3, SeqMonotonic
<1>2. [approval |-> LatestApproval, commit |-> HeadCommit] \in [approval : Nat, commit : Nat]
  BY <1>1
<1> QED BY <1>1, <1>2, AppendFacts

LEMMA HistoryStep ==
  ASSUME AmendmentInv, [Next]_vars
  PROVE  /\ pointer' \in {pointer, pointer + 1}
         /\ IsPrefix(SubSeq(chain, 1, pointer), chain')
<1>1. AmendmentInv'
  BY NextAmendment
<1>2. /\ Len(chain) \in Nat /\ pointer \in Nat /\ pointer <= Len(chain)
      /\ pointer \in {Len(chain), Len(chain) - 1}
  <2>1. Len(chain) \in Nat /\ pointer \in 0 .. Len(chain)
    BY Lengths DEF AmendmentInv, TypeOK
  <2> QED BY <2>1 DEF AmendmentInv, PointerInv
<1>3. CASE pointer' \in {pointer, Len(chain)} /\ chain' = chain
  BY <1>1, <1>2, <1>3, HistoryKept
<1>4. CASE pointer' = pointer /\ fin = "link" /\ PublishAcceptance
  <2>1. chain' = Append(chain, [approval |-> LatestApproval, commit |-> HeadCommit])
    BY <1>4 DEF PublishAcceptance
  <2>2. Len(chain') = Len(chain) + 1 /\ \A i \in 1 .. Len(chain) : chain'[i] = chain[i]
    BY <2>1, LinkGrows, <1>4
  <2>3. pointer <= Len(chain') /\ \A i \in 1 .. pointer : chain'[i] = chain[i]
    BY <1>2, <2>2
  <2> QED BY <1>1, <1>4, <2>3, HistoryKept
<1>5. CASE RollBackAcceptance
  <2>1. pointer' = pointer /\ chain' = Front(chain) /\ Open /\ pointer = Len(chain) - 1
    BY <1>5 DEF RollBackAcceptance, AmendmentInv, FinalizeInv
  <2>2. chain \in Seq(AcceptanceType) /\ chain # <<>>
    BY <2>1 DEF AmendmentInv, TypeOK, AcceptanceType, Open
  <2>3. Len(chain') = Len(chain) - 1 /\ \A i \in 1 .. Len(chain) - 1 : chain'[i] = chain[i]
    BY <2>1, <2>2, FrontFacts
  <2>4. pointer <= Len(chain') /\ \A i \in 1 .. pointer : chain'[i] = chain[i]
    BY <1>2, <2>1, <2>3
  <2> QED BY <1>1, <2>1, <2>4, HistoryKept
<1>6. CASE PublishAcceptance /\ fin # "link"
  <2>1. pointer' = pointer /\ chain' = chain
    BY <1>6 DEF PublishAcceptance
  <2> QED BY <1>3, <2>1
<1>7. CASE Finalize /\ ~PublishAcceptance /\ ~RollBackAcceptance
  <2>1. chain' = chain /\ pointer' \in {pointer, Len(chain)}
    BY <1>7 DEF Finalize, BindApproval, RecoverPointerTemp, CompletePublication, ReplacePointer
  <2> QED BY <1>3, <2>1
<1>8. CASE ~Finalize
  <2>1. chain' = chain /\ pointer' = pointer
    BY <1>8 DEF Next, vars, pubVars, PrepareStep, StartFinalize, PointerFails, StopFinalize,
                Owner, CommitRuns, CommitPublication, CheckBox, Approve, Commit
  <2> QED BY <1>3, <2>1
<1>9. PublishAcceptance => pointer' = pointer
  BY DEF PublishAcceptance
<1> QED BY <1>4, <1>5, <1>6, <1>7, <1>8, <1>9

(* What was selected stays selected history, in its order, and the pointer   *)
(* goes forward by one acceptance at a time, also when a publication is      *)
(* withdrawn, interrupted or completed later.                                *)
THEOREM HistoryOnlyGrows == Spec => SelectedHistoryGrows
BY AmendmentHolds, HistoryStep, PTL DEF Spec, SelectedHistoryGrows
================================================================================
