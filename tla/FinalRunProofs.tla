--------------------------- MODULE FinalRunProofs ---------------------------
(***************************************************************************)
(* The checkpoint directory and the launches that run on it, for any       *)
(* number of processes, any plan, budgets and anchors.  What retention     *)
(* keeps is on disk, whole; what a launch reports is on disk, and          *)
(* TRAINING_COMPLETE is reported at most once.                             *)
(***************************************************************************)
EXTENDS FinalRun, WellFoundedInduction, TLAPS

-----------------------------------------------------------------------------
(* The plan and the order of its generations: of TrainerProofs, what the    *)
(* directory needs.                                                        *)

(* Least and greatest members of sets of naturals: the form in which the    *)
(* proofs below argue by induction.                                         *)
LessThan == {pair \in Nat \X Nat : pair[1] < pair[2]}

LEMMA LessThanWellFounded == IsWellFoundedOn(LessThan, Nat)
BY NatLessThanWellFounded DEF OpToRel, LessThan

LEMMA LeastMember ==
    ASSUME NEW S, \A m \in S : m \in Nat, S # {}
    PROVE  \E n \in S : \A m \in S : n <= m
<1>1. PICK n \in S : \A m \in S : ~ (<<m, n>> \in LessThan)
  BY LessThanWellFounded, WFMin
<1>2. ASSUME NEW m \in S PROVE n <= m
  <2>1. <<m, n>> \notin LessThan /\ n \in Nat /\ m \in Nat
    BY <1>1
  <2>2. ~ (m < n)
    BY <2>1 DEF LessThan
  <2> QED BY <2>1, <2>2
<1> QED BY <1>2

LEMMA GreatestMember ==
    ASSUME NEW S, \A m \in S : m \in Nat, S # {}, NEW b \in Nat, \A m \in S : m <= b
    PROVE  \E n \in S : \A m \in S : m <= n
<1> DEFINE T == {b - m : m \in S}
<1>1. (\A t \in T : t \in Nat) /\ T # {}
  OBVIOUS
<1>2. PICK t \in T : \A u \in T : t <= u
  <2> HIDE DEF T
  <2> QED BY <1>1, LeastMember
<1>3. PICK n \in S : t = b - n
  OBVIOUS
<1>4. ASSUME NEW m \in S PROVE m <= n
  <2>1. b - m \in T
    OBVIOUS
  <2>2. b - n <= b - m
    BY <1>2, <1>3, <2>1
  <2> QED BY <2>2
<1> QED BY <1>4

LEMMA PlanTypes ==
    /\ TargetsPerFullUpdate \in Nat /\ TargetsPerFullUpdate >= 1
    /\ FullUpdates \in Nat /\ FullUpdates >= 1
    /\ FinalUpdateTargets \in Nat /\ FinalUpdateTargets >= 1
    /\ FinalUpdateTargets <= TargetsPerFullUpdate
    /\ EventInterval \in Nat /\ EventInterval >= 1
BY PlanAssumption

(* Products of naturals are naturals and grow with their first factor.      *)
LEMMA ProductMonotone ==
    ASSUME NEW a \in Nat, NEW b \in Nat, NEW m \in Nat, a <= b
    PROVE  a * m \in Nat /\ b * m \in Nat /\ a * m <= b * m
<1>1. PICK d \in Nat : b = a + d
  <2>1. b - a \in Nat /\ b = a + (b - a)
    OBVIOUS
  <2> QED BY <2>1
<1>2. a * m \in Nat /\ d * m \in Nat
  OBVIOUS
<1>3. b * m = a * m + d * m
  BY <1>1
<1> QED BY <1>2, <1>3

LEMMA TotalTargetsType == TotalTargets \in Nat /\ TotalTargets >= 1 /\ TotalUpdates \in Nat
BY PlanTypes, ProductMonotone DEF TotalTargets, TotalUpdates

(* Each update moves the cursor by exactly its target count.                *)
LEMMA ConsumedStep ==
    ASSUME NEW u \in 0 .. FullUpdates
    PROVE  /\ ConsumedAfter(u + 1) = ConsumedAfter(u) + UpdateTargetCount(u + 1)
           /\ UpdateTargetCount(u + 1) \in 1 .. TargetsPerFullUpdate
<1> USE PlanTypes
<1>1. CASE u = FullUpdates
  <2>1. ~ (u + 1 \in 0 .. FullUpdates) /\ ~ (u + 1 \in 1 .. FullUpdates)
    BY <1>1
  <2> QED BY <1>1, <2>1 DEF ConsumedAfter, UpdateTargetCount, TotalTargets
<1>2. CASE u < FullUpdates
  <2>1. u + 1 \in 0 .. FullUpdates /\ u + 1 \in 1 .. FullUpdates
    BY <1>2
  <2>2. (u + 1) * TargetsPerFullUpdate = u * TargetsPerFullUpdate + TargetsPerFullUpdate
    OBVIOUS
  <2> QED BY <2>1, <2>2 DEF ConsumedAfter, UpdateTargetCount
<1> QED BY <1>1, <1>2

(* The cursor after u updates lies in the run, and only the last update     *)
(* takes it to the end.                                                     *)
LEMMA ConsumedBounds ==
    ASSUME NEW u \in 0 .. TotalUpdates
    PROVE  /\ ConsumedAfter(u) \in Cursor
           /\ u <= FullUpdates => ConsumedAfter(u) < TotalTargets
           /\ ConsumedAfter(0) = 0
           /\ ConsumedAfter(TotalUpdates) = TotalTargets
<1> USE PlanTypes, TotalTargetsType
<1>1. ConsumedAfter(0) = 0 /\ ConsumedAfter(TotalUpdates) = TotalTargets
  BY DEF ConsumedAfter, TotalUpdates
<1>2. CASE u <= FullUpdates
  <2>1. u * TargetsPerFullUpdate \in Nat
        /\ u * TargetsPerFullUpdate <= FullUpdates * TargetsPerFullUpdate
    BY <1>2, ProductMonotone
  <2>2. ConsumedAfter(u) = u * TargetsPerFullUpdate
    BY <1>2 DEF ConsumedAfter
  <2>3. ConsumedAfter(u) < TotalTargets /\ ConsumedAfter(u) \in Nat
    <3>1. FullUpdates * TargetsPerFullUpdate \in Nat
      OBVIOUS
    <3> QED BY <2>1, <2>2, <3>1 DEF TotalTargets
  <2> QED BY <1>1, <2>3 DEF Cursor
<1>3. CASE u = TotalUpdates
  BY <1>1, <1>3 DEF Cursor, TotalUpdates
<1> QED BY <1>2, <1>3 DEF TotalUpdates

LEMMA ProductOrder ==
    ASSUME NEW a \in Nat, NEW b \in Nat, NEW m \in Nat, m >= 1
    PROVE  /\ a * m <= b * m => a <= b
           /\ a * m < b * m + m => a <= b
           /\ a * m < b * m => a < b
<1>0. a * m \in Nat /\ b * m \in Nat
  OBVIOUS
<1>1. ASSUME a > b PROVE a * m >= b * m + m
  <2>1. b + 1 <= a /\ b + 1 \in Nat
    BY <1>1
  <2>2. (b + 1) * m <= a * m
    BY <2>1, ProductMonotone
  <2>3. (b + 1) * m = b * m + m
    OBVIOUS
  <2> QED BY <2>2, <2>3, <1>0
<1>2. ASSUME a >= b PROVE a * m >= b * m
  BY <1>2, ProductMonotone
<1>3. a * m <= b * m => a <= b
  BY <1>0, <1>1
<1>4. a * m < b * m + m => a <= b
  BY <1>0, <1>1
<1>5. a * m < b * m => a < b
  BY <1>0, <1>2
<1> QED BY <1>3, <1>4, <1>5

(* Two cursors the plan visits are equal only after the same update.        *)
LEMMA ConsumedInjective ==
    ASSUME NEW u \in 0 .. TotalUpdates, NEW w \in 0 .. TotalUpdates,
           ConsumedAfter(u) = ConsumedAfter(w)
    PROVE  u = w
<1> USE PlanTypes, TotalTargetsType
<1>1. CASE u <= FullUpdates /\ w <= FullUpdates
  <2>1. u * TargetsPerFullUpdate = w * TargetsPerFullUpdate
    BY <1>1 DEF ConsumedAfter
  <2>2. u <= w
    BY <2>1, ProductOrder
  <2>3. w <= u
    BY <2>1, ProductOrder
  <2> QED BY <2>2, <2>3
<1>2. CASE u = TotalUpdates /\ w <= FullUpdates
  BY <1>2, ConsumedBounds DEF Cursor
<1>3. CASE w = TotalUpdates /\ u <= FullUpdates
  BY <1>3, ConsumedBounds DEF Cursor
<1> QED BY <1>1, <1>2, <1>3 DEF TotalUpdates

(***************************************************************************)
(* The checkpoint directory.                                               *)
(***************************************************************************)

(* A generation that retention keeps out of a set, it keeps out of every    *)
(* part of that set which holds the generation.                             *)
LEMMA RetentionOfParts ==
    ASSUME NEW whole, NEW part \in SUBSET whole,
           NEW g \in part, g \in RetainedGenerations(whole)
    PROVE  g \in RetainedGenerations(part)
BY DEF RetainedGenerations, LatestTwo, FirstAtAnchors

LEMMA RetainedSubset ==
    ASSUME NEW G PROVE RetainedGenerations(G) \subseteq G
BY DEF RetainedGenerations, LatestTwo, FirstAtAnchors

(* Retention that is applied again to what it kept, whatever else is still  *)
(* there, keeps the same.                                                   *)
LEMMA RetentionOfKept ==
    ASSUME NEW whole, \A g \in whole : g \in Nat,
           NEW b \in Nat, \A g \in whole : g <= b,
           NEW part \in SUBSET whole, RetainedGenerations(whole) \subseteq part
    PROVE  RetainedGenerations(part) = RetainedGenerations(whole)
<1>1. RetainedGenerations(whole) \subseteq RetainedGenerations(part)
  BY RetentionOfParts
<1>2. ASSUME NEW g \in LatestTwo(part) PROVE g \in LatestTwo(whole)
  <2>0. g \in part /\ g \in whole
    BY DEF LatestTwo
  <2>1. SUFFICES ASSUME NEW x \in whole, NEW y \in whole, g < x, x < y PROVE FALSE
    BY <2>0 DEF LatestTwo
  <2>2. PICK n \in whole : \A m \in whole : m <= n
    BY <2>1, GreatestMember
  <2> DEFINE rest == whole \ {n}
  <2>3. x \in rest
    BY <2>1, <2>2
  <2>4. PICK m \in rest : \A r \in rest : r <= m
    <3>1. (\A r \in rest : r \in Nat) /\ rest # {} /\ \A r \in rest : r <= b
      BY <2>3
    <3> HIDE DEF rest
    <3> QED BY <3>1, GreatestMember
  <2>5. n \in LatestTwo(whole)
    BY <2>2 DEF LatestTwo
  <2>6. m \in LatestTwo(whole)
    BY <2>2, <2>4 DEF LatestTwo
  <2>7. m \in part /\ n \in part
    BY <2>5, <2>6 DEF RetainedGenerations
  <2>8. g < m /\ m < n
    BY <2>0, <2>1, <2>2, <2>3, <2>4
  <2> QED BY <2>7, <2>8 DEF LatestTwo
<1>3. ASSUME NEW g \in FirstAtAnchors(part) PROVE g \in FirstAtAnchors(whole)
  <2>1. PICK a \in RetentionAnchors : g >= a /\ \A h \in part : h >= a => g <= h
    BY DEF FirstAtAnchors
  <2>2. g \in part /\ g \in whole
    BY DEF FirstAtAnchors
  <2> DEFINE after == {h \in whole : h >= a}
  <2>3. PICK f \in after : \A h \in after : f <= h
    <3>1. (\A h \in after : h \in Nat) /\ after # {}
      BY <2>1, <2>2
    <3> HIDE DEF after
    <3> QED BY <3>1, LeastMember
  <2>4. f \in FirstAtAnchors(whole)
    BY <2>3 DEF FirstAtAnchors
  <2>5. f \in part
    BY <2>4 DEF RetainedGenerations
  <2>6. g <= f /\ f <= g
    BY <2>1, <2>2, <2>3, <2>5
  <2>7. g = f
    BY <2>2, <2>3, <2>6
  <2> QED BY <2>4, <2>7
<1> QED BY <1>1, <1>2, <1>3 DEF RetainedGenerations

LEMMA GenerationType == Generation \subseteq Nat
<1>1. \A u \in Update : u \in 0 .. TotalUpdates
  BY TotalTargetsType DEF Update
<1> QED BY <1>1, ConsumedBounds DEF Generation, Cursor

(* Naming a condition adds the generation to the whole ones or takes it out.*)
LEMMA SetFacts ==
    ASSUME NEW t, NEW c, Set(t, c)
    PROVE  /\ Present' = Present \cup {t}
           /\ \A x \in Present' : installed'[x] = IF x = t THEN c ELSE installed[x]
           /\ c = "whole" => Whole' = Whole \cup {t}
           /\ c # "whole" => Whole' = Whole \ {t}
<1>1. installed' = [x \in Present \cup {t} |-> IF x = t THEN c ELSE installed[x]]
  BY DEF Set
<1>2. Present' = Present \cup {t}
  BY <1>1 DEF Present
<1>3. \A x \in Present' : installed'[x] = IF x = t THEN c ELSE installed[x]
  BY <1>1, <1>2
<1>4. Whole' = {x \in Present' : installed'[x] = "whole"}
  BY DEF Whole
<1> QED BY <1>2, <1>3, <1>4 DEF Whole

-----------------------------------------------------------------------------
(* The inductive invariant.  RetainedKept is about what was ever installed; *)
(* a prune decides from what it listed, which may be less, and acts on that *)
(* decision after others have installed and removed more.                   *)

DoomedInv ==
    \A p \in Procs :
        /\ listed[p] \subseteq ever
        /\ doomed[p] \subseteq ever
        /\ doomed[p] \cap RetainedGenerations(ever) = {}

NewestInv == ever = {} \/ \E n \in ever : \A g \in ever : g <= n

PublishingInv == \A p \in Procs : pc[p] \in {"writing", "sealed"} => target[p] \in Generation

IInv ==
    /\ TypeOK
    /\ Whole \subseteq ever
    /\ RetainedKept
    /\ DoomedInv
    /\ NewestInv
    /\ PublishingInv

DoomedKeepsOff ==
    \A p \in Procs : /\ listed'[p] \subseteq ever
                     /\ doomed'[p] \subseteq ever
                     /\ doomed'[p] \cap RetainedGenerations(ever) = {}

(* Steps that leave the directory of generations as it is, and give no      *)
(* process anything worth keeping to remove.                                *)
LEMMA DirectoryUnchanged ==
    ASSUME IInv, TypeOK', PublishingInv', DoomedKeepsOff, UNCHANGED <<installed, ever>>
    PROVE  IInv' /\ Whole' = Whole
<1>1. Whole' = Whole
  BY DEF Whole, Present
<1> QED BY <1>1 DEF IInv, RetainedKept, DoomedInv, NewestInv, DoomedKeepsOff

Outcome == {"none", "published", "pruned", "failed"}

LEMMA ReturnStep ==
    ASSUME IInv, NEW p \in Procs, NEW how \in Outcome, Return(p, how),
           UNCHANGED <<installed, ever>>, orphans' \in BOOLEAN
    PROVE  IInv' /\ Whole' = Whole
<1>1. TypeOK'
  BY DEF IInv, TypeOK, Return, Goto, Location, Present, Outcome
<1>2. PublishingInv'
  BY DEF IInv, TypeOK, PublishingInv, Return, Goto
<1>3. DoomedKeepsOff
  BY DEF IInv, TypeOK, DoomedInv, DoomedKeepsOff, Return
<1> QED BY <1>1, <1>2, <1>3, DirectoryUnchanged

(* Steps that only move a process on within its call. *)
LEMMA GotoStep ==
    ASSUME IInv, NEW p \in Procs, NEW where \in Location, Goto(p, where),
           where = "sealed" => pc[p] = "writing",
           where # "writing",
           UNCHANGED <<disk, locals, result>>
    PROVE  IInv' /\ Whole' = Whole
<1> USE DEF disk, locals
<1>1. TypeOK'
  BY DEF IInv, TypeOK, Goto, Present
<1>2. PublishingInv'
  BY DEF IInv, TypeOK, PublishingInv, Goto
<1>3. DoomedKeepsOff
  BY DEF IInv, DoomedInv, DoomedKeepsOff
<1> QED BY <1>1, <1>2, <1>3, DirectoryUnchanged

LEMMA BeginPublishStep ==
    ASSUME IInv, NEW p \in Procs, NEW t \in Generation, BeginPublish(p, t)
    PROVE  IInv' /\ Whole' = Whole
<1> USE DEF BeginPublish, disk
<1>1. TypeOK'
  BY DEF IInv, TypeOK, Goto, Present, Location
<1>2. PublishingInv'
  BY DEF IInv, TypeOK, PublishingInv, Goto
<1>3. DoomedKeepsOff
  BY DEF IInv, DoomedInv, DoomedKeepsOff
<1> QED BY <1>1, <1>2, <1>3, DirectoryUnchanged

LEMMA BeginPruneStep ==
    ASSUME IInv, NEW p \in Procs, BeginPrune(p)
    PROVE  IInv' /\ Whole' = Whole
<1> USE DEF BeginPrune, disk
<1>1. TypeOK'
  BY DEF IInv, TypeOK, Goto, Present, Location
<1>2. PublishingInv'
  BY DEF IInv, TypeOK, PublishingInv, Goto
<1>3. DoomedKeepsOff
  BY DEF IInv, DoomedInv, DoomedKeepsOff
<1> QED BY <1>1, <1>2, <1>3, DirectoryUnchanged

LEMMA LoadListedStep ==
    ASSUME IInv, NEW p \in Procs, NEW t \in Generation, LoadListed(p, t)
    PROVE  IInv' /\ Whole' = Whole
<1> USE DEF LoadListed, disk
<1>1. TypeOK'
  BY DEF IInv, TypeOK, Present
<1>2. PublishingInv'
  BY DEF IInv, PublishingInv
<1>3. DoomedKeepsOff
  BY DEF IInv, TypeOK, DoomedInv, DoomedKeepsOff
<1> QED BY <1>1, <1>2, <1>3, DirectoryUnchanged

(* What a prune decides to remove is not worth keeping: it listed only      *)
(* generations that were once installed, and may have missed later ones,    *)
(* but retention of a part keeps what retention of the whole would keep.    *)
LEMMA ChooseDoomedStep ==
    ASSUME IInv, NEW p \in Procs, ChooseDoomed(p)
    PROVE  IInv' /\ Whole' = Whole
<1> USE DEF ChooseDoomed, disk
<1>0. listed[p] \subseteq ever /\ listed[p] \subseteq Generation
  BY DEF IInv, TypeOK, DoomedInv
<1>1. TypeOK'
  BY <1>0 DEF IInv, TypeOK, Goto, Present, Location
<1>2. PublishingInv'
  BY DEF IInv, TypeOK, PublishingInv, Goto
<1>3. (listed[p] \ RetainedGenerations(listed[p])) \cap RetainedGenerations(ever) = {}
  BY <1>0, RetentionOfParts
<1>4. DoomedKeepsOff
  BY <1>0, <1>3 DEF IInv, TypeOK, DoomedInv, DoomedKeepsOff
<1> QED BY <1>1, <1>2, <1>4, DirectoryUnchanged

(* A new generation takes its name: it is kept, and none that was doomed    *)
(* becomes worth keeping.                                                   *)
LEMMA InstallStep ==
    ASSUME IInv, NEW p \in Procs, Install(p)
    PROVE  IInv' /\ Whole \subseteq Whole'
<1> DEFINE t == target[p]
<1> USE DEF locals
<1>0. TypeOK /\ Set(t, "whole") /\ ever' = ever \cup {t} /\ pc[p] = "sealed"
      /\ UNCHANGED <<orphans, locals, result>> /\ Goto(p, "renamed")
  BY DEF IInv, Install
<1>1. t \in Generation
  BY <1>0 DEF IInv, PublishingInv
<1> HIDE DEF t
<1>2. /\ Present' = Present \cup {t}
      /\ Whole' = Whole \cup {t}
      /\ \A x \in Present' : installed'[x] = IF x = t THEN "whole" ELSE installed[x]
  BY <1>0, SetFacts
<1>3. TypeOK'
  <2>1. installed' \in [Present' -> Condition]
    BY <1>0, <1>2 DEF TypeOK, Condition, Set
  <2> QED BY <1>0, <1>1, <1>2, <2>1 DEF TypeOK, Goto, Location
<1>4. Whole' \subseteq ever'
  BY <1>0, <1>2 DEF IInv
<1>5. ASSUME NEW g \in ever, g \in RetainedGenerations(ever')
      PROVE  g \in RetainedGenerations(ever)
  BY <1>0, <1>5, RetentionOfParts
<1>6. RetainedKept'
  BY <1>0, <1>2, <1>5, RetainedSubset DEF IInv, RetainedKept
<1>7. DoomedInv'
  BY <1>0, <1>5 DEF IInv, DoomedInv
<1>8. NewestInv'
  <2>1. t \in Nat /\ ever \subseteq Nat
    BY <1>0, <1>1, GenerationType DEF TypeOK
  <2>2. CASE ever = {}
    BY <1>0, <2>1, <2>2 DEF NewestInv
  <2>3. ASSUME NEW n \in ever, \A g \in ever : g <= n PROVE NewestInv'
    <3>1. CASE t <= n
      BY <1>0, <2>1, <2>3, <3>1 DEF NewestInv
    <3>2. CASE ~ (t <= n)
      BY <1>0, <2>1, <2>3, <3>2 DEF NewestInv
    <3> QED BY <3>1, <3>2
  <2> QED BY <2>2, <2>3 DEF IInv, NewestInv
<1>9. PublishingInv'
  BY <1>0 DEF IInv, TypeOK, PublishingInv, Goto
<1> QED BY <1>2, <1>3, <1>4, <1>6, <1>7, <1>8, <1>9 DEF IInv

(* Steps that take from the whole generations at most one that is doomed.   *)
LEMMA LosesOnlyDoomed ==
    ASSUME IInv, TypeOK', NEW p \in Procs, NEW t \in Generation,
           Whole' \subseteq Whole, Whole \subseteq Whole' \cup {t},
           t \in Whole => t \in doomed[p],
           UNCHANGED <<ever, pc, listed>>,
           \A q \in Procs : doomed'[q] \subseteq doomed[q],
           \A q \in Procs : pc[q] \in {"writing", "sealed"} => target'[q] = target[q]
    PROVE  IInv'
<1>1. RetainedKept'
  BY DEF IInv, RetainedKept, DoomedInv
<1>2. DoomedInv' /\ NewestInv' /\ PublishingInv'
  BY DEF IInv, DoomedInv, NewestInv, PublishingInv
<1> QED BY <1>1, <1>2 DEF IInv

LEMMA BeginRemoveStep ==
    ASSUME IInv, NEW p \in Procs, NEW t \in Generation, BeginRemove(p, t)
    PROVE  /\ IInv'
           /\ Whole \subseteq Whole' \cup {t}
           /\ t \notin RetainedGenerations(ever)
<1> DEFINE c == IF installed[t] = "whole" THEN "damaged" ELSE installed[t]
<1>0. TypeOK /\ t \in doomed[p] /\ t \in Present /\ pc[p] = "removing"
  BY DEF IInv, BeginRemove
<1>1. Set(t, c) /\ c # "whole" /\ c \in Condition
  BY <1>0 DEF BeginRemove, TypeOK, Condition
<1> HIDE DEF c
<1>2. /\ Present' = Present \cup {t}
      /\ Whole' = Whole \ {t}
  BY <1>1, SetFacts
<1>3. TypeOK'
  <2>1. installed' \in [Present' -> Condition]
    BY <1>0, <1>1, <1>2 DEF TypeOK, Set
  <2>2. target' \in [Procs -> Generation \cup {NoTarget}]
    BY <1>0 DEF TypeOK, BeginRemove
  <2> QED BY <1>0, <1>2, <2>1, <2>2 DEF TypeOK, BeginRemove
<1>4. \A q \in Procs : pc[q] \in {"writing", "sealed"} => target'[q] = target[q]
  BY <1>0 DEF TypeOK, BeginRemove
<1>5. IInv'
  BY <1>0, <1>2, <1>3, <1>4, LosesOnlyDoomed DEF BeginRemove
<1> QED BY <1>0, <1>2, <1>5 DEF IInv, DoomedInv

LEMMA EmptyOutStep ==
    ASSUME IInv, NEW p \in Procs, EmptyOut(p)
    PROVE  IInv' /\ Whole' = Whole
<1> DEFINE t == target[p]
<1> USE DEF locals
<1>0. TypeOK /\ t \in Present /\ t \in Generation /\ installed[t] = "damaged" /\ Set(t, "empty")
  BY DEF IInv, TypeOK, EmptyOut
<1> HIDE DEF t
<1>2. Present' = Present \cup {t} /\ Whole' = Whole \ {t}
  BY <1>0, SetFacts
<1>3. t \notin Whole
  BY <1>0 DEF Whole
<1>4. TypeOK'
  <2>1. installed' \in [Present' -> Condition]
    BY <1>0, <1>2 DEF TypeOK, Set, Condition
  <2> QED BY <1>0, <1>2, <2>1 DEF TypeOK, EmptyOut
<1>5. Whole' = Whole
  BY <1>2, <1>3
<1>6. UNCHANGED <<ever, pc, listed, doomed, target>>
  BY DEF EmptyOut
<1> QED BY <1>0, <1>3, <1>4, <1>5, <1>6, LosesOnlyDoomed

LEMMA RemoveDirectoryStep ==
    ASSUME IInv, NEW p \in Procs, RemoveDirectory(p)
    PROVE  IInv' /\ Whole' = Whole
<1> DEFINE t == target[p]
<1>0. /\ TypeOK /\ t \in Present /\ t \in Generation /\ installed[t] = "empty"
      /\ installed' = [x \in Present \ {t} |-> installed[x]]
      /\ pc[p] = "removing"
  BY DEF IInv, TypeOK, RemoveDirectory
<1> HIDE DEF t
<1>2. Present' = Present \ {t}
  BY <1>0 DEF Present
<1>3. t \notin Whole /\ Whole' = Whole
  <2>1. Whole' = {x \in Present' : installed'[x] = "whole"}
    BY DEF Whole
  <2> QED BY <1>0, <1>2, <2>1 DEF Whole
<1>4. TypeOK'
  <2>1. installed' \in [Present' -> Condition]
    BY <1>0, <1>2 DEF TypeOK
  <2>2. doomed' \in [Procs -> SUBSET Generation]
    BY <1>0 DEF TypeOK, RemoveDirectory
  <2>3. target' \in [Procs -> Generation \cup {NoTarget}]
    BY <1>0 DEF TypeOK, RemoveDirectory
  <2> QED BY <1>0, <1>2, <2>1, <2>2, <2>3 DEF TypeOK, RemoveDirectory
<1>5. /\ \A q \in Procs : doomed'[q] \subseteq doomed[q]
      /\ \A q \in Procs : pc[q] \in {"writing", "sealed"} => target'[q] = target[q]
  BY <1>0 DEF TypeOK, RemoveDirectory
<1> QED BY <1>0, <1>3, <1>4, <1>5, LosesOnlyDoomed DEF RemoveDirectory
-----------------------------------------------------------------------------
LEMMA InitInv == Init => IInv
<1> SUFFICES ASSUME Init PROVE IInv
  OBVIOUS
<1>1. Present = {} /\ Whole = {}
  BY DEF Init, Present, Whole
<1>2. TypeOK
  BY <1>1 DEF Init, TypeOK, Location
<1>3. RetainedGenerations(ever) = {}
  BY RetainedSubset DEF Init
<1> QED BY <1>1, <1>2, <1>3 DEF Init, IInv, RetainedKept, DoomedInv, NewestInv, PublishingInv

(* Each step preserves the invariant, and takes away from the whole         *)
(* generations at most one that retention would not keep.                   *)
LEMMA NextInv ==
    IInv /\ [Next]_vars =>
        /\ IInv'
        /\ \A t \in Whole : t \notin Whole' => t \notin RetainedGenerations(ever)
<1> SUFFICES ASSUME IInv, [Next]_vars
             PROVE  /\ IInv'
                    /\ \A t \in Whole : t \notin Whole' => t \notin RetainedGenerations(ever)
  OBVIOUS
<1> DEFINE Goal == /\ IInv'
                   /\ \A t \in Whole : t \notin Whole' => t \notin RetainedGenerations(ever)
<1>0. orphans \in BOOLEAN
  BY DEF IInv, TypeOK
<1>1. ASSUME NEW p \in Procs, NEW t \in Generation,
             PublishRefused(p, t) \/ BeginPublish(p, t)
      PROVE  Goal
  BY <1>0, <1>1, ReturnStep, BeginPublishStep DEF PublishRefused, disk, Outcome
<1>2. ASSUME NEW p \in Procs, PublishStep(p) PROVE Goal
  <2>1. CASE WriteCheckpoint(p) \/ InstallRefused(p)
    BY <2>1, GotoStep DEF WriteCheckpoint, InstallRefused, Location
  <2>2. CASE Install(p)
    BY <2>2, InstallStep
  <2>3. CASE RereadManifest(p) \/ RemovePartial(p)
    BY <1>0, <2>3, ReturnStep DEF RereadManifest, RemovePartial, disk, Outcome
  <2> QED BY <1>2, <2>1, <2>2, <2>3 DEF PublishStep
<1>3. ASSUME NEW p \in Procs, PruneRefused(p) \/ BeginPrune(p) PROVE Goal
  BY <1>0, <1>3, ReturnStep, BeginPruneStep DEF PruneRefused, disk, Outcome
<1>4. ASSUME NEW p \in Procs, PruneStep(p) PROVE Goal
  <2>1. ASSUME NEW t \in Generation, LoadListed(p, t) PROVE Goal
    BY <2>1, LoadListedStep
  <2>2. ASSUME NEW t \in Generation, ScanRefused(p, t) PROVE Goal
    BY <1>0, <2>2, ReturnStep DEF ScanRefused, disk, Outcome
  <2>3. ASSUME NEW t \in Generation, BeginRemove(p, t) PROVE Goal
    BY <2>3, BeginRemoveStep
  <2>4. CASE ChooseDoomed(p)
    BY <2>4, ChooseDoomedStep
  <2>5. CASE EmptyOut(p)
    BY <2>5, EmptyOutStep
  <2>6. CASE RemoveDirectory(p)
    BY <2>6, RemoveDirectoryStep
  <2>7. CASE RemoveRefused(p) \/ FinishPrune(p)
    BY <1>0, <2>7, ReturnStep DEF RemoveRefused, FinishPrune, disk, Outcome
  <2> QED BY <1>4, <2>1, <2>2, <2>3, <2>4, <2>5, <2>6, <2>7 DEF PruneStep
<1>5. ASSUME NEW p \in Procs, Fault(p) PROVE Goal
  <2>1. CASE PublishFails(p)
    BY <1>0, <2>1, ReturnStep, GotoStep DEF PublishFails, disk, Outcome, Location
  <2>2. CASE LeavePartial(p) \/ Crash(p)
    BY <1>0, <2>2, ReturnStep DEF LeavePartial, Crash, Outcome
  <2>3. CASE PruneFails(p)
    BY <1>0, <2>3, ReturnStep DEF PruneFails, disk, Outcome
  <2> QED BY <1>5, <2>1, <2>2, <2>3 DEF Fault
<1>6. CASE UNCHANGED vars
  <2>1. TypeOK' /\ PublishingInv'
    BY <1>6 DEF IInv, TypeOK, PublishingInv, vars, Present
  <2>2. DoomedKeepsOff
    BY <1>6 DEF IInv, DoomedInv, DoomedKeepsOff, vars
  <2> QED BY <1>6, <2>1, <2>2, DirectoryUnchanged DEF vars
<1> QED BY <1>1, <1>2, <1>3, <1>4, <1>5, <1>6 DEF Next

LEMMA Invariance == Spec => []IInv
<1>1. IInv /\ [Next]_vars => IInv'
  BY NextInv
<1> QED BY <1>1, InitInv, PTL DEF Spec

(* Type correctness of the directory and of every process on it.            *)
THEOREM StoreTypeCorrect == Spec => []TypeOK
<1>1. IInv => TypeOK
  BY DEF IInv
<1> QED BY <1>1, Invariance, PTL

(* However many processes publish, prune, fail and crash on one root, what  *)
(* retention keeps of all that was ever installed is there and whole.       *)
THEOREM StoreKeepsRetained == Spec => []RetainedKept
<1>1. IInv => RetainedKept
  BY DEF IInv
<1> QED BY <1>1, Invariance, PTL

(* The generation a relaunch would resume from never becomes an older one.  *)
THEOREM StoreNeverGoesBack == Spec => ResumePointMonotone
<1>1. IInv /\ [Next]_vars => [\A t \in Whole : \E u \in Whole' : u >= t]_vars
  <2> SUFFICES ASSUME IInv, [Next]_vars, NEW t \in Whole
               PROVE  \E u \in Whole' : u >= t
    OBVIOUS
  <2>1. t \in ever /\ ever \subseteq Nat
    BY GenerationType DEF IInv, TypeOK
  <2>2. PICK n \in ever : \A g \in ever : g <= n
    BY <2>1 DEF IInv, NewestInv
  <2>3. n \in RetainedGenerations(ever)
    BY <2>1, <2>2 DEF RetainedGenerations, LatestTwo
  <2>4. n \in Whole /\ n \in Whole'
    BY <2>3, NextInv DEF IInv, RetainedKept
  <2> QED BY <2>1, <2>2, <2>4
<1> QED BY <1>1, Invariance, PTL DEF Spec, ResumePointMonotone
-----------------------------------------------------------------------------
(* One process on the root: a prune works on the directory it has listed.   *)
SoleInv(p) ==
    /\ pc[p] # "scanning" => listed[p] = {}
    /\ pc[p] = "scanning" => listed[p] \cup unseen[p] = Present /\ listed[p] \subseteq Whole
    /\ pc[p] = "removing" => Present = RetainedGenerations(ever) \cup doomed[p]
    /\ pc[p] = "idle" /\ result[p] = "pruned" => Present = RetainedGenerations(ever)

LEMMA SoleRetention ==
    ASSUME IInv, Whole = Present
    PROVE  RetainedGenerations(Present) = RetainedGenerations(ever)
<1>1. \A g \in ever : g \in Nat
  BY GenerationType DEF IInv, TypeOK
<1>2. CASE ever = {}
  BY <1>2 DEF IInv
<1>3. ASSUME NEW n \in ever, \A g \in ever : g <= n
      PROVE  RetainedGenerations(Present) = RetainedGenerations(ever)
  BY <1>1, <1>3, RetentionOfKept DEF IInv, RetainedKept
<1> QED BY <1>2, <1>3 DEF IInv, NewestInv

LEMMA SoleStep ==
    ASSUME NEW p, Procs = {p}, IInv, SoleInv(p), [Next]_vars
    PROVE  SoleInv(p)'
<1>0. TypeOK /\ p \in Procs
  BY DEF IInv
<1> USE <1>0 DEF TypeOK
<1>1. ASSUME NEW t \in Generation, PublishRefused(p, t) \/ BeginPublish(p, t)
      PROVE  SoleInv(p)'
  BY <1>1 DEF PublishRefused, BeginPublish, Return, Goto, SoleInv
<1>2. CASE PublishStep(p) \/ PublishFails(p) \/ LeavePartial(p) \/ Crash(p)
  <2>1. \/ pc'[p] \in {"sealed", "renamed", "cleaning"} /\ pc[p] # "scanning"
           /\ listed'[p] = listed[p]
        \/ pc'[p] = "idle" /\ result'[p] # "pruned" /\ listed'[p] = {}
    BY <1>2 DEF PublishStep, PublishFails, LeavePartial, Crash, WriteCheckpoint, Install,
                InstallRefused, RereadManifest, RemovePartial, Return, Goto, locals
  <2> QED BY <2>1 DEF SoleInv
<1>3. CASE PruneRefused(p) \/ PruneFails(p) \/ RemoveRefused(p)
  BY <1>3 DEF PruneRefused, PruneFails, RemoveRefused, Return, Goto, SoleInv
<1>4. ASSUME NEW t \in Generation, ScanRefused(p, t) PROVE SoleInv(p)'
  BY <1>4 DEF ScanRefused, Return, Goto, SoleInv
<1>5. CASE BeginPrune(p)
  <2>1. pc'[p] = "scanning" /\ unseen'[p] = Present /\ Present' = Present
    BY <1>5 DEF BeginPrune, Goto, disk, Present
  <2>2. listed'[p] = {}
    BY <1>5 DEF BeginPrune, SoleInv
  <2> QED BY <2>1, <2>2 DEF SoleInv
<1>6. ASSUME NEW t \in Generation, LoadListed(p, t) PROVE SoleInv(p)'
  <2>1. Present' = Present /\ Whole' = Whole
    BY <1>6 DEF LoadListed, disk, Present, Whole
  <2> QED BY <1>6, <2>1 DEF LoadListed, SoleInv
<1>7. CASE ChooseDoomed(p)
  <2>1. Present' = Present /\ ever' = ever /\ pc'[p] = "removing"
    BY <1>7 DEF ChooseDoomed, disk, Present, Goto
  <2>2. Whole = Present /\ listed[p] = Present
    BY <1>7 DEF ChooseDoomed, SoleInv, Whole
  <2>3. doomed'[p] = Present \ RetainedGenerations(ever)
    BY <1>7, <2>2, SoleRetention DEF ChooseDoomed
  <2>4. RetainedGenerations(ever) \subseteq Present
    BY <2>2 DEF IInv, RetainedKept
  <2>5. listed'[p] = {}
    BY <1>7 DEF ChooseDoomed
  <2> QED BY <2>1, <2>3, <2>4, <2>5 DEF SoleInv
<1>8. ASSUME NEW t \in Generation, BeginRemove(p, t) PROVE SoleInv(p)'
  <2>1. Present' = Present
    BY <1>8, SetFacts DEF BeginRemove
  <2> QED BY <1>8, <2>1 DEF BeginRemove, SoleInv
<1>9. CASE EmptyOut(p)
  <2>1. Present' = Present
    BY <1>9, SetFacts DEF EmptyOut
  <2> QED BY <1>9, <2>1 DEF EmptyOut, SoleInv, locals
<1>10. CASE RemoveDirectory(p)
  <2>1. Present' = Present \ {target[p]}
    BY <1>10 DEF RemoveDirectory, Present
  <2>2. /\ doomed'[p] = doomed[p] \ {target[p]} /\ ever' = ever
        /\ pc' = pc /\ pc[p] = "removing" /\ listed' = listed
    BY <1>10 DEF RemoveDirectory
  <2>3. target[p] \notin RetainedGenerations(ever)
    BY <1>10 DEF RemoveDirectory, IInv, RetainedKept, Whole
  <2> QED BY <2>1, <2>2, <2>3 DEF SoleInv
<1>11. CASE FinishPrune(p)
  <2>1. Present' = Present /\ ever' = ever /\ pc'[p] = "idle" /\ listed'[p] = {}
    BY <1>11 DEF FinishPrune, Return, Goto, disk, Present
  <2> QED BY <1>11, <2>1 DEF FinishPrune, SoleInv
<1>12. CASE UNCHANGED vars
  BY <1>12 DEF vars, SoleInv, Present, Whole
<1> QED BY <1>1, <1>2, <1>3, <1>4, <1>5, <1>6, <1>7, <1>8, <1>9, <1>10, <1>11, <1>12
        DEF Next, PruneStep, Fault

(* With one process on the root, a prune that succeeds leaves exactly what  *)
(* retention keeps of all that was ever installed, whichever prunes failed, *)
(* crashed or were left out before it.                                      *)
THEOREM SolePruneIsExact ==
    ASSUME NEW p, Procs = {p}
    PROVE  Spec => []SuccessfulPruneIsExact
<1>1. Init => SoleInv(p)
  BY DEF Init, SoleInv
<1>2. IInv /\ SoleInv(p) /\ [Next]_vars => SoleInv(p)'
  BY SoleStep
<1>3. SoleInv(p) => SuccessfulPruneIsExact
  BY DEF SoleInv, SuccessfulPruneIsExact
<1> QED BY <1>1, <1>2, <1>3, Invariance, PTL DEF Spec
(***************************************************************************)
(* The launches.                                                           *)
(***************************************************************************)

(* Where process p is in its call, what it writes, and how far its final    *)
(* checkpoint can be.                                                       *)
CallInv(p) ==
    /\ pc[p] \in {"writing", "sealed", "renamed", "cleaning"} =>
          phase[p] \in {"publishing", "sealing"}
    /\ pc[p] \in {"scanning", "removing"} => phase[p] \in {"pruning", "closing"}
    /\ pc[p] \in {"writing", "sealed", "renamed"} => target[p] = CursorOf(p)
    /\ phase[p] \notin {"off", "training"} => position[p] >= 1
    /\ phase[p] = "sealing" => ~IsFull(p)

(* Process p has put the generation at its cursor in place, in a call that  *)
(* has returned or not, and has not reported yet.                           *)
Wrote(p) ==
    \/ pc[p] = "renamed"
    \/ phase[p] \in {"publishing", "sealing"} /\ pc[p] = "idle" /\ result[p] = "published"
    \/ phase[p] = "pruning"
    \/ phase[p] = "training" /\ final[p] # NoTarget /\ final[p] = CursorOf(p)
    \/ phase[p] \in {"reloading", "closing"}

FinalInv(p) ==
    /\ Wrote(p) \/ phase[p] = "complete" => CursorOf(p) \in ever
    /\ phase[p] \in {"reloading", "closing", "complete"} => final[p] = CursorOf(p)
    /\ final[p] <= CursorOf(p)
    /\ phase[p] = "off" => final[p] = NoTarget
    /\ IsFull(p) => final[p] \in {NoTarget, TotalTargets}

(* At most one process at a time has written the last generation, and none  *)
(* that has not reported yet once a completion was reported.                *)
Finisher(p) == Wrote(p) /\ CursorOf(p) = TotalTargets

OnceInv ==
    /\ \A p, q \in Procs : Finisher(p) /\ Finisher(q) => p = q
    /\ completions <= 1
    /\ completions = 1 => TotalTargets \in ever /\ \A p \in Procs : ~Finisher(p)

RunInv ==
    /\ IInv
    /\ RunTypeOK
    /\ \A p \in Procs : CallInv(p) /\ FinalInv(p)
    /\ OnceInv
-----------------------------------------------------------------------------
(* What a step of p leaves alone. *)
StoreOthers(p) ==
    \A q \in Procs \ {p} :
        pc'[q] = pc[q] /\ target'[q] = target[q] /\ result'[q] = result[q]

RunOthers(p) ==
    \A q \in Procs \ {p} :
        /\ phase'[q] = phase[q] /\ position'[q] = position[q]
        /\ stop'[q] = stop[q] /\ final'[q] = final[q]

(* The types of the coordinator's variables. *)
CoordinatorTypes ==
    /\ phase \in [Procs -> Phase]
    /\ position \in [Procs -> 0 .. TotalUpdates]
    /\ stop \in [Procs -> Budgets \cup {TotalTargets}]
    /\ final \in [Procs -> Generation \cup {NoTarget}]
    /\ faults \in 0 .. MaxFaults
    /\ completions \in Nat

LEMMA CursorFacts ==
    ASSUME NEW u \in 0 .. TotalUpdates
    PROVE  /\ ConsumedAfter(u) \in 0 .. TotalTargets
           /\ u >= 1 => ConsumedAfter(u) \in Generation
           /\ u >= 1 <=> ConsumedAfter(u) >= 1
           /\ ConsumedAfter(u) < TotalTargets =>
                 u + 1 \in 0 .. TotalUpdates /\ ConsumedAfter(u) < ConsumedAfter(u + 1)
<1> USE PlanTypes, TotalTargetsType
<1>1. ConsumedAfter(u) \in 0 .. TotalTargets
  BY ConsumedBounds DEF Cursor
<1>2. u >= 1 => ConsumedAfter(u) \in Generation
  BY DEF Generation, Update
<1>3. u >= 1 <=> ConsumedAfter(u) >= 1
  <2>1. 0 \in 0 .. TotalUpdates /\ ConsumedAfter(0) = 0
    BY ConsumedBounds
  <2>2. ConsumedAfter(u) = 0 => u = 0
    BY <2>1, ConsumedInjective
  <2> QED BY <1>1, <2>1, <2>2
<1>4. ASSUME ConsumedAfter(u) < TotalTargets
      PROVE  u + 1 \in 0 .. TotalUpdates /\ ConsumedAfter(u) < ConsumedAfter(u + 1)
  <2>1. u # TotalUpdates
    BY <1>4, ConsumedBounds
  <2>2. u \in 0 .. FullUpdates
    BY <2>1 DEF TotalUpdates
  <2> QED BY <1>1, <2>2, ConsumedStep DEF TotalUpdates
<1> QED BY <1>1, <1>2, <1>3, <1>4

(* The last generation, once installed, is retained and so is on disk.      *)
LEMMA LastIsKept ==
    ASSUME IInv, TotalTargets \in ever
    PROVE  TotalTargets \in Whole
<1>1. \A g \in ever : g \in 0 .. TotalTargets
  BY CursorFacts, TotalTargetsType DEF IInv, TypeOK, Generation, Update
<1>2. TotalTargets \in RetainedGenerations(ever)
  BY <1>1, TotalTargetsType DEF RetainedGenerations, LatestTwo
<1> QED BY <1>2 DEF IInv, RetainedKept

-----------------------------------------------------------------------------
(* What the calls into the directory do to the state of their process.      *)
LEMMA PublishCall ==
    ASSUME TypeOK, NEW p \in Procs, NEW t \in Generation, Publish(p, t)
    PROVE  /\ StoreOthers(p) /\ ever' = ever
           /\ \/ pc'[p] = "writing" /\ target'[p] = t
              \/ pc'[p] = "idle" /\ result'[p] = "failed"
BY DEF TypeOK, Publish, PublishRefused, BeginPublish, Return, Goto, StoreOthers, disk

LEMMA PruneCall ==
    ASSUME TypeOK, NEW p \in Procs, Prune(p)
    PROVE  /\ StoreOthers(p) /\ ever' = ever
           /\ pc'[p] \in {"scanning", "idle"}
BY DEF TypeOK, Prune, PruneRefused, BeginPrune, Return, Goto, StoreOthers, disk

DirectoryEffect(p) ==
    \/ pc[p] = "writing" /\ pc'[p] = "sealed" /\ target'[p] = target[p]
    \/ pc[p] \in {"writing", "sealed"} /\ pc'[p] = "cleaning"
    \/ pc[p] = "renamed" /\ pc'[p] = "idle"
    \/ pc[p] = "cleaning" /\ pc'[p] = "idle" /\ result'[p] = "failed"
    \/ pc[p] \in {"scanning", "removing"} /\ pc'[p] \in {"scanning", "removing", "idle"}

DirectoryMove(p) ==
    \/ PublishStep(p) \/ PruneStep(p)
    \/ PublishFails(p) \/ LeavePartial(p) \/ PruneFails(p)

LEMMA DirectoryMoves ==
    ASSUME TypeOK, NEW p \in Procs, DirectoryMove(p)
    PROVE  /\ StoreOthers(p)
           /\ \/ Install(p)
              \/ ever' = ever /\ DirectoryEffect(p)
<1> USE DEF TypeOK, StoreOthers, DirectoryEffect, disk, locals
<1>1. CASE PublishStep(p)
  BY <1>1 DEF PublishStep, WriteCheckpoint, Install, InstallRefused, RereadManifest,
              RemovePartial, Return, Goto
<1>2. CASE PruneStep(p)
  <2>1. CASE \E t \in Generation : LoadListed(p, t) \/ ScanRefused(p, t) \/ BeginRemove(p, t)
    BY <2>1 DEF LoadListed, ScanRefused, BeginRemove, Return, Goto
  <2>2. CASE ChooseDoomed(p) \/ EmptyOut(p) \/ RemoveDirectory(p)
    BY <2>2 DEF ChooseDoomed, EmptyOut, RemoveDirectory, Goto
  <2>3. CASE RemoveRefused(p) \/ FinishPrune(p)
    BY <2>3 DEF RemoveRefused, FinishPrune, Return, Goto
  <2> QED BY <1>2, <2>1, <2>2, <2>3 DEF PruneStep
<1>3. CASE PublishFails(p) \/ LeavePartial(p) \/ PruneFails(p)
  BY <1>3 DEF PublishFails, LeavePartial, PruneFails, Return, Goto
<1> QED BY <1>1, <1>2, <1>3 DEF DirectoryMove

LEMMA CrashEffect ==
    ASSUME TypeOK, NEW p \in Procs, Crash(p)
    PROVE  StoreOthers(p) /\ ever' = ever /\ pc'[p] = "idle"
BY DEF TypeOK, Crash, Return, Goto, StoreOthers
-----------------------------------------------------------------------------
(* What each step of p establishes for p, and what it spares the others.    *)
OpenPhases == {"publishing", "pruning", "sealing", "closing"}

StepKeeps(p) ==
    /\ StoreOthers(p) /\ RunOthers(p) /\ ever \subseteq ever'
    /\ CoordinatorTypes'
    /\ pc'[p] # "idle" => phase'[p] \in OpenPhases
    /\ CallInv(p)' /\ FinalInv(p)'

LEMMA OthersKeep ==
    ASSUME RunInv, NEW p \in Procs, StoreOthers(p), RunOthers(p), ever \subseteq ever',
           NEW q \in Procs \ {p}
    PROVE  /\ CallInv(q)' /\ FinalInv(q)'
           /\ Finisher(q)' <=> Finisher(q)
           /\ pc'[q] # "idle" => phase'[q] \in OpenPhases
<1>1. /\ pc'[q] = pc[q] /\ target'[q] = target[q] /\ result'[q] = result[q]
      /\ phase'[q] = phase[q] /\ position'[q] = position[q]
      /\ stop'[q] = stop[q] /\ final'[q] = final[q]
  BY DEF StoreOthers, RunOthers
<1>2. CursorOf(q)' = CursorOf(q) /\ (IsFull(q)' <=> IsFull(q)) /\ (Wrote(q)' <=> Wrote(q))
  BY <1>1 DEF CursorOf, IsFull, Wrote
<1>3. CallInv(q)'
  BY <1>1, <1>2 DEF RunInv, CallInv
<1>4. FinalInv(q)'
  BY <1>1, <1>2 DEF RunInv, FinalInv
<1>5. pc'[q] # "idle" => phase'[q] \in OpenPhases
  BY <1>1 DEF RunInv, RunTypeOK, OpenPhases
<1> QED BY <1>2, <1>3, <1>4, <1>5 DEF Finisher

(* A step that makes no finisher and reports no completion.                 *)
LEMMA StepPreserves ==
    ASSUME RunInv, IInv', NEW p \in Procs, StepKeeps(p),
           completions' = completions, Finisher(p)' => Finisher(p)
    PROVE  RunInv'
<1>1. \A q \in Procs \ {p} : /\ CallInv(q)' /\ FinalInv(q)'
                             /\ Finisher(q)' <=> Finisher(q)
                             /\ pc'[q] # "idle" => phase'[q] \in OpenPhases
  BY OthersKeep DEF StepKeeps
<1>2. RunTypeOK'
  BY <1>1 DEF StepKeeps, RunTypeOK, CoordinatorTypes, IInv, OpenPhases
<1>3. OnceInv'
  BY <1>1 DEF RunInv, OnceInv, StepKeeps
<1> QED BY <1>1, <1>2, <1>3 DEF RunInv, StepKeeps

LEMMA ProcFacts ==
    ASSUME RunInv, NEW p \in Procs
    PROVE  /\ TypeOK /\ CoordinatorTypes /\ CallInv(p) /\ FinalInv(p)
           /\ CursorOf(p) \in 0 .. TotalTargets
           /\ position[p] \in 0 .. TotalUpdates
           /\ position[p] >= 1 => CursorOf(p) \in Generation
           /\ position[p] >= 1 <=> CursorOf(p) >= 1
           /\ CursorOf(p) < TotalTargets =>
                 /\ position[p] + 1 \in 0 .. TotalUpdates
                 /\ CursorOf(p) < ConsumedAfter(position[p] + 1)
           /\ stop[p] \in 1 .. TotalTargets
           /\ final[p] \in 0 .. TotalTargets
           /\ pc[p] # "idle" => phase[p] \in OpenPhases
<1>1. TypeOK /\ CoordinatorTypes /\ CallInv(p) /\ FinalInv(p) /\ position[p] \in 0 .. TotalUpdates
      /\ (pc[p] # "idle" => phase[p] \in OpenPhases)
  BY DEF RunInv, RunTypeOK, CoordinatorTypes, OpenPhases
<1>2. stop[p] \in 1 .. TotalTargets
  <2>1. stop[p] \in Budgets \cup {TotalTargets}
    BY <1>1 DEF CoordinatorTypes
  <2>2. \A b \in Budgets : b \in 1 .. TotalTargets - 1
    BY FinalRunAssumption
  <2> QED BY <2>1, <2>2, TotalTargetsType
<1>3. final[p] \in 0 .. TotalTargets
  BY <1>1, CursorFacts, TotalTargetsType DEF CoordinatorTypes, Generation, Update, NoTarget
<1> QED BY <1>1, <1>2, <1>3, CursorFacts DEF CursorOf

(* The process ends, wherever it was.                                       *)
LEMMA ExitStep ==
    ASSUME RunInv, IInv', NEW p \in Procs, Exit(p), pc'[p] = "idle",
           StoreOthers(p), ever' = ever,
           faults' \in 0 .. MaxFaults, completions' = completions
    PROVE  RunInv'
<1>0. /\ TypeOK /\ CoordinatorTypes
      /\ phase'[p] = "off" /\ position'[p] = 0 /\ final'[p] = NoTarget
      /\ stop'[p] = TotalTargets
  BY ProcFacts DEF Exit, Enter, CoordinatorTypes
<1>1. CursorOf(p)' = 0
  BY <1>0, ConsumedBounds, TotalTargetsType DEF CursorOf
<1>2. CoordinatorTypes'
  BY <1>0, TotalTargetsType DEF CoordinatorTypes, Exit, Enter, Phase
<1>3. RunOthers(p)
  BY <1>0 DEF CoordinatorTypes, Exit, Enter, RunOthers
<1>4. ~ Wrote(p)'
  BY <1>0 DEF Wrote
<1>5. CallInv(p)'
  BY <1>0 DEF CallInv
<1>6. FinalInv(p)'
  BY <1>0, <1>1, <1>4 DEF FinalInv, NoTarget
<1>7. StepKeeps(p)
  BY <1>2, <1>3, <1>5, <1>6 DEF StepKeeps
<1> QED BY <1>4, <1>7, StepPreserves DEF Finisher
-----------------------------------------------------------------------------
(* Every step of a launch is a step of the directory, or leaves it alone.   *)
LEMMA RunStepIsStoreStep ==
    ASSUME RunInv, [RunNext]_allVars
    PROVE  [Next]_vars
<1>1. CASE UNCHANGED allVars
  BY <1>1 DEF allVars
<1>2. ASSUME NEW p \in Procs,
             \/ \E limit \in Budgets \cup {TotalTargets} : Launch(p, limit)
             \/ RunStep(p) \/ Die(p) \/ DirectoryFails(p)
      PROVE  [Next]_vars
  <2>0. \A t \in Generation : Publish(p, t) => Next
    BY DEF Publish, Next
  <2>1. Prune(p) => Next
    BY DEF Prune, Next
  <2>2. CASE CompleteUpdate(p)
    <3>1. ConsumedAfter(position[p] + 1) \in Generation
      <4>1. CursorOf(p) < TotalTargets
        BY <2>2, ProcFacts, TotalTargetsType DEF CompleteUpdate
      <4>2. position[p] + 1 \in 0 .. TotalUpdates /\ position[p] + 1 >= 1
        BY <4>1, ProcFacts
      <4> QED BY <4>2, CursorFacts
    <3> QED BY <2>0, <2>2, <3>1 DEF CompleteUpdate
  <2>3. CASE CloseDiagnostic(p)
    <3>1. CursorOf(p) \in Generation
      BY <2>3, ProcFacts, TotalTargetsType DEF CloseDiagnostic
    <3> QED BY <2>0, <2>3, <3>1 DEF CloseDiagnostic
  <2>4. CASE AfterPublish(p) \/ Reload(p)
    BY <2>1, <2>4 DEF AfterPublish, Reload
  <2>5. CASE \/ AfterPrune(p) \/ AfterSeal(p) \/ CloseFull(p) \/ ReloadRefused(p)
             \/ Report(p) \/ Leave(p) \/ Abort(p)
             \/ \E limit \in Budgets \cup {TotalTargets} : Launch(p, limit)
    BY <2>5 DEF AfterPrune, AfterSeal, CloseFull, ReloadRefused, Report, Leave, Abort, Launch
  <2>6. CASE DirectoryStep(p)
    BY <2>6 DEF DirectoryStep, Next
  <2>7. CASE Die(p) \/ DirectoryFails(p)
    BY <2>7 DEF Die, DirectoryFails, Next, Fault
  <2> QED BY <1>2, <2>2, <2>3, <2>4, <2>5, <2>6, <2>7 DEF RunStep
<1> QED BY <1>1, <1>2 DEF RunNext

(* Steps that leave the directory alone.                                    *)
LEMMA StoreUntouched ==
    ASSUME UNCHANGED vars, NEW p \in Procs
    PROVE  StoreOthers(p) /\ ever' = ever /\ pc'[p] = pc[p] /\ result'[p] = result[p]
           /\ target'[p] = target[p]
BY DEF vars, StoreOthers

LEMMA LaunchStep ==
    ASSUME RunInv, IInv', NEW p \in Procs, NEW limit \in Budgets \cup {TotalTargets},
           Launch(p, limit)
    PROVE  RunInv'
<1>0. /\ CoordinatorTypes /\ phase[p] = "off" /\ pc[p] = "idle" /\ final[p] = NoTarget
      /\ StoreOthers(p) /\ ever' = ever /\ pc'[p] = "idle"
  BY ProcFacts, StoreUntouched DEF Launch, FinalInv, OpenPhases
<1>1. PICK u \in 0 .. TotalUpdates : position' = [position EXCEPT ![p] = u]
  BY DEF Launch
<1>2. CoordinatorTypes' /\ phase'[p] = "training" /\ position'[p] = u /\ final' = final
  BY <1>0, <1>1 DEF Launch, Enter, CoordinatorTypes, Phase
<1>3. RunOthers(p)
  BY <1>0, <1>1 DEF CoordinatorTypes, Launch, Enter, RunOthers
<1>4. ~ Wrote(p)'
  BY <1>0, <1>2 DEF Wrote
<1>5. CallInv(p)'
  BY <1>0, <1>2 DEF CallInv
<1>6. FinalInv(p)'
  <2>1. ConsumedAfter(u) \in 0 .. TotalTargets
    BY CursorFacts
  <2> QED BY <1>0, <1>2, <1>4, <2>1 DEF FinalInv, NoTarget, CursorOf
<1>7. StepKeeps(p)
  BY <1>0, <1>2, <1>3, <1>5, <1>6 DEF StepKeeps
<1> QED BY <1>4, <1>7, StepPreserves DEF Finisher, Launch

LEMMA CompleteUpdateStep ==
    ASSUME RunInv, IInv', NEW p \in Procs, CompleteUpdate(p)
    PROVE  RunInv'
<1> DEFINE u == position[p] + 1
<1>0. /\ TypeOK /\ CoordinatorTypes /\ phase[p] = "training" /\ pc[p] = "idle"
      /\ CursorOf(p) < TotalTargets /\ final[p] <= CursorOf(p)
      /\ CursorOf(p) \in Nat /\ final[p] \in Nat
  BY ProcFacts, TotalTargetsType DEF CompleteUpdate, OpenPhases, FinalInv
<1>1. /\ u \in 0 .. TotalUpdates /\ u >= 1
      /\ CursorOf(p) < ConsumedAfter(u) /\ ConsumedAfter(u) \in Generation
      /\ ConsumedAfter(u) \in Nat
  BY <1>0, ProcFacts, CursorFacts
<1> HIDE DEF u
<1>2. /\ position' = [position EXCEPT ![p] = u] /\ UNCHANGED <<stop, final, faults, completions>>
      /\ \/ Publish(p, ConsumedAfter(u)) /\ Enter(p, "publishing")
         \/ UNCHANGED <<vars, phase>>
  BY DEF CompleteUpdate, u
<1>3. /\ StoreOthers(p) /\ ever' = ever
      /\ \/ phase'[p] = "training" /\ pc'[p] = "idle"
         \/ /\ phase'[p] = "publishing"
            /\ \/ pc'[p] = "writing" /\ target'[p] = ConsumedAfter(u)
               \/ pc'[p] = "idle" /\ result'[p] = "failed"
  <2>1. CASE Publish(p, ConsumedAfter(u)) /\ Enter(p, "publishing")
    BY <1>0, <1>1, <2>1, PublishCall DEF Enter, CoordinatorTypes
  <2>2. CASE UNCHANGED <<vars, phase>>
    BY <1>0, <2>2, StoreUntouched
  <2> QED BY <1>2, <2>1, <2>2
<1>4. /\ CoordinatorTypes' /\ RunOthers(p) /\ position'[p] = u /\ final'[p] = final[p]
      /\ stop'[p] = stop[p] /\ CursorOf(p)' = ConsumedAfter(u)
  BY <1>0, <1>1, <1>2 DEF CoordinatorTypes, Enter, RunOthers, Phase, CursorOf
<1>5. ~ Wrote(p)'
  BY <1>0, <1>1, <1>3, <1>4 DEF Wrote
<1>6. CallInv(p)'
  BY <1>1, <1>3, <1>4 DEF CallInv
<1>7. FinalInv(p)'
  BY <1>0, <1>1, <1>3, <1>4, <1>5, ProcFacts DEF FinalInv, IsFull
<1>8. StepKeeps(p)
  BY <1>3, <1>4, <1>6, <1>7 DEF StepKeeps, OpenPhases
<1> QED BY <1>2, <1>5, <1>8, StepPreserves DEF Finisher

(* Steps that keep the trainer where it is, and may open a call.            *)
PhaseMoves(p) ==
    /\ position' = position /\ stop' = stop
    /\ phase' = [phase EXCEPT ![p] = phase'[p]] /\ phase'[p] \in Phase \ {"off"}
    /\ final' = [final EXCEPT ![p] = final'[p]] /\ final'[p] \in {final[p], CursorOf(p)}
    /\ faults' = faults

LEMMA PhaseStep ==
    ASSUME RunInv, IInv', NEW p \in Procs, PhaseMoves(p), phase[p] # "off",
           StoreOthers(p), ever' = ever, completions' = completions,
           pc'[p] # "idle" => phase'[p] \in OpenPhases,
           CallInv(p)', Wrote(p)' => Wrote(p),
           phase'[p] = "complete" => phase[p] = "complete",
           phase'[p] \in {"reloading", "closing"} => final'[p] = CursorOf(p),
           IsFull(p) => final'[p] \in {NoTarget, TotalTargets},
           final'[p] # final[p] => position[p] >= 1
    PROVE  RunInv'
<1>0. /\ CoordinatorTypes /\ FinalInv(p) /\ CursorOf(p) \in 0 .. TotalTargets
      /\ position[p] >= 1 => CursorOf(p) \in Generation
  BY ProcFacts
<1>1. /\ position'[p] = position[p] /\ stop'[p] = stop[p]
      /\ CursorOf(p)' = CursorOf(p) /\ (IsFull(p)' <=> IsFull(p))
  BY DEF PhaseMoves, CursorOf, IsFull
<1>2. CoordinatorTypes' /\ RunOthers(p)
  BY <1>0 DEF CoordinatorTypes, PhaseMoves, RunOthers
<1>3. FinalInv(p)'
  <2>1. final'[p] <= CursorOf(p)
    BY <1>0, TotalTargetsType DEF PhaseMoves, FinalInv
  <2>2. phase'[p] = "complete" => final'[p] = final[p]
    BY <1>0 DEF PhaseMoves, FinalInv
  <2> QED BY <1>0, <1>1, <2>1, <2>2 DEF FinalInv, PhaseMoves
<1>4. StepKeeps(p)
  BY <1>2, <1>3 DEF StepKeeps
<1> QED BY <1>1, <1>4, StepPreserves DEF Finisher

LEMMA AfterPublishStep ==
    ASSUME RunInv, IInv', NEW p \in Procs, AfterPublish(p)
    PROVE  RunInv'
<1>0. /\ TypeOK /\ CoordinatorTypes /\ CallInv(p) /\ FinalInv(p)
      /\ phase[p] = "publishing" /\ pc[p] = "idle" /\ result[p] = "published"
  BY ProcFacts DEF AfterPublish, Called
<1>1. StoreOthers(p) /\ ever' = ever /\ pc'[p] \in {"scanning", "idle"}
  BY <1>0, PruneCall DEF AfterPublish
<1>2. phase'[p] = "pruning" /\ PhaseMoves(p) /\ final' = final
  BY <1>0 DEF AfterPublish, Enter, PhaseMoves, CoordinatorTypes, Phase
<1>3. Wrote(p)
  BY <1>0 DEF Wrote
<1>4. CallInv(p)'
  BY <1>0, <1>1, <1>2 DEF CallInv, PhaseMoves
<1> QED BY <1>0, <1>1, <1>2, <1>3, <1>4, PhaseStep DEF AfterPublish, FinalInv, OpenPhases

LEMMA AfterPruneStep ==
    ASSUME RunInv, IInv', NEW p \in Procs, AfterPrune(p)
    PROVE  RunInv'
<1>0. /\ CoordinatorTypes /\ CallInv(p) /\ FinalInv(p)
      /\ phase[p] = "pruning" /\ pc[p] = "idle" /\ position[p] >= 1
  BY ProcFacts DEF AfterPrune, Called, CallInv
<1>1. StoreOthers(p) /\ ever' = ever /\ pc'[p] = "idle"
  BY <1>0, StoreUntouched DEF AfterPrune
<1>2. phase'[p] = "training" /\ PhaseMoves(p)
  BY <1>0 DEF AfterPrune, Enter, PhaseMoves, CoordinatorTypes, Phase
<1>3. Wrote(p)
  BY <1>0 DEF Wrote
<1>4. CallInv(p)'
  BY <1>1, <1>2 DEF CallInv
<1>5. IsFull(p) => final'[p] \in {NoTarget, TotalTargets}
  BY <1>0 DEF AfterPrune, CoordinatorTypes, FinalInv
<1> QED BY <1>0, <1>1, <1>2, <1>3, <1>4, <1>5, PhaseStep DEF AfterPrune

LEMMA CloseDiagnosticStep ==
    ASSUME RunInv, IInv', NEW p \in Procs, CloseDiagnostic(p)
    PROVE  RunInv'
<1>0. /\ TypeOK /\ CoordinatorTypes /\ CallInv(p) /\ FinalInv(p)
      /\ phase[p] = "training" /\ pc[p] = "idle" /\ ~IsFull(p)
  BY ProcFacts DEF CloseDiagnostic, OpenPhases
<1>1. position[p] >= 1 /\ CursorOf(p) \in Generation /\ CursorOf(p) # NoTarget
  <2>1. CursorOf(p) >= stop[p]
    BY DEF CloseDiagnostic
  <2> QED BY <2>1, ProcFacts, TotalTargetsType DEF NoTarget
<1>2. CASE final[p] = CursorOf(p)
  <2>1. /\ StoreOthers(p) /\ ever' = ever /\ pc'[p] = "idle"
        /\ phase'[p] = "reloading" /\ PhaseMoves(p) /\ final' = final
    BY <1>0, <1>2, StoreUntouched
       DEF CloseDiagnostic, Enter, PhaseMoves, CoordinatorTypes, Phase
  <2>2. Wrote(p)
    BY <1>0, <1>1, <1>2 DEF Wrote
  <2>3. CallInv(p)'
    BY <1>1, <2>1 DEF CallInv, PhaseMoves
  <2> QED BY <1>0, <1>2, <2>1, <2>2, <2>3, PhaseStep DEF CloseDiagnostic, FinalInv
<1>3. CASE final[p] # CursorOf(p)
  <2>1. Publish(p, CursorOf(p)) /\ Enter(p, "sealing")
    BY <1>3 DEF CloseDiagnostic
  <2>2. /\ StoreOthers(p) /\ ever' = ever
        /\ \/ pc'[p] = "writing" /\ target'[p] = CursorOf(p)
           \/ pc'[p] = "idle" /\ result'[p] = "failed"
    BY <1>0, <1>1, <2>1, PublishCall
  <2>3. phase'[p] = "sealing" /\ PhaseMoves(p) /\ final' = final
    BY <1>0, <2>1 DEF CloseDiagnostic, Enter, PhaseMoves, CoordinatorTypes, Phase
  <2>4. ~ Wrote(p)'
    BY <2>2, <2>3 DEF Wrote
  <2>5. CursorOf(p)' = CursorOf(p) /\ (IsFull(p)' <=> IsFull(p))
    BY <2>3 DEF PhaseMoves, CursorOf, IsFull
  <2>6. CallInv(p)'
    BY <1>0, <1>1, <2>2, <2>3, <2>5 DEF CallInv, PhaseMoves
  <2> QED BY <1>0, <2>2, <2>3, <2>4, <2>6, PhaseStep DEF CloseDiagnostic, FinalInv, OpenPhases
<1> QED BY <1>2, <1>3

LEMMA AfterSealStep ==
    ASSUME RunInv, IInv', NEW p \in Procs, AfterSeal(p)
    PROVE  RunInv'
<1>0. /\ CoordinatorTypes /\ CallInv(p) /\ FinalInv(p) /\ ~IsFull(p)
      /\ phase[p] = "sealing" /\ pc[p] = "idle" /\ position[p] >= 1 /\ result[p] = "published"
  BY ProcFacts DEF AfterSeal, Called, CallInv
<1>1. /\ StoreOthers(p) /\ ever' = ever /\ pc'[p] = "idle"
      /\ phase'[p] = "reloading" /\ PhaseMoves(p) /\ final'[p] = CursorOf(p)
  BY <1>0, StoreUntouched DEF AfterSeal, Enter, PhaseMoves, CoordinatorTypes, Phase
<1>2. Wrote(p)
  BY <1>0 DEF Wrote
<1>3. CallInv(p)'
  BY <1>0, <1>1 DEF CallInv, PhaseMoves
<1> QED BY <1>0, <1>1, <1>2, <1>3, PhaseStep DEF AfterSeal

LEMMA CloseFullStep ==
    ASSUME RunInv, IInv', NEW p \in Procs, CloseFull(p)
    PROVE  RunInv'
<1>0. /\ CoordinatorTypes /\ CallInv(p) /\ FinalInv(p)
      /\ phase[p] = "training" /\ pc[p] = "idle" /\ IsFull(p)
      /\ CursorOf(p) = TotalTargets /\ final[p] = TotalTargets /\ final[p] # NoTarget
      /\ position[p] >= 1
  BY ProcFacts, TotalTargetsType DEF CloseFull, OpenPhases, FinalInv
<1>1. /\ StoreOthers(p) /\ ever' = ever /\ pc'[p] = "idle"
      /\ phase'[p] = "reloading" /\ PhaseMoves(p) /\ final' = final
  BY <1>0, StoreUntouched DEF CloseFull, Enter, PhaseMoves, CoordinatorTypes, Phase
<1>2. Wrote(p)
  BY <1>0 DEF Wrote
<1>3. CallInv(p)'
  BY <1>0, <1>1 DEF CallInv, PhaseMoves
<1> QED BY <1>0, <1>1, <1>2, <1>3, PhaseStep DEF CloseFull

LEMMA ReloadStep ==
    ASSUME RunInv, IInv', NEW p \in Procs, Reload(p)
    PROVE  RunInv'
<1>0. /\ TypeOK /\ CoordinatorTypes /\ CallInv(p) /\ FinalInv(p)
      /\ phase[p] = "reloading" /\ pc[p] = "idle" /\ position[p] >= 1
  BY ProcFacts DEF Reload, CallInv, OpenPhases
<1>1. StoreOthers(p) /\ ever' = ever /\ pc'[p] \in {"scanning", "idle"}
  BY <1>0, PruneCall DEF Reload
<1>2. phase'[p] = "closing" /\ PhaseMoves(p) /\ final' = final
  BY <1>0 DEF Reload, Enter, PhaseMoves, CoordinatorTypes, Phase
<1>3. Wrote(p)
  BY <1>0 DEF Wrote
<1>4. CallInv(p)'
  BY <1>0, <1>1, <1>2 DEF CallInv, PhaseMoves
<1> QED BY <1>0, <1>1, <1>2, <1>3, <1>4, PhaseStep DEF Reload, FinalInv, OpenPhases

(* The one step that reports: it ends a finisher, which was the only one.   *)
LEMMA ReportStep ==
    ASSUME RunInv, IInv', NEW p \in Procs, Report(p)
    PROVE  RunInv'
<1>0. /\ TypeOK /\ CoordinatorTypes /\ CallInv(p) /\ FinalInv(p) /\ OnceInv
      /\ phase[p] = "closing" /\ pc[p] = "idle" /\ position[p] >= 1
      /\ CursorOf(p) \in 1 .. TotalTargets /\ final[p] = CursorOf(p)
  BY ProcFacts, TotalTargetsType DEF Report, Called, CallInv, FinalInv, RunInv
<1>1. /\ StoreOthers(p) /\ ever' = ever /\ pc'[p] = "idle"
      /\ phase'[p] = "complete" /\ final' = final /\ stop' = stop /\ position' = position
      /\ phase' = [phase EXCEPT ![p] = "complete"] /\ faults' = faults
  BY <1>0, StoreUntouched DEF Report, Enter, CoordinatorTypes
<1>2. CursorOf(p)' = CursorOf(p) /\ (IsFull(p)' <=> IsFull(p))
  BY <1>1 DEF CursorOf, IsFull
<1>3. ~ Wrote(p)' /\ Wrote(p)
  BY <1>0, <1>1 DEF Wrote
<1>4. CallInv(p)'
  BY <1>0, <1>1 DEF CallInv
<1>5. FinalInv(p)'
  BY <1>0, <1>1, <1>2, <1>3 DEF FinalInv
<1>6. IsFull(p) => completions = 0 /\ Finisher(p) /\ TotalTargets \in ever
  <2>1. IsFull(p) => final[p] = TotalTargets
    BY <1>0 DEF FinalInv, NoTarget
  <2>2. IsFull(p) => Finisher(p)
    BY <1>0, <1>3, <2>1 DEF Finisher
  <2> QED BY <1>0, <1>3, <2>1, <2>2 DEF OnceInv, FinalInv, CoordinatorTypes
<1>7. completions' = IF IsFull(p) THEN 1 ELSE completions
  BY <1>0, <1>6 DEF Report, CoordinatorTypes
<1>8. CoordinatorTypes' /\ RunOthers(p)
  BY <1>0, <1>1, <1>7 DEF CoordinatorTypes, RunOthers, Phase
<1>9. StepKeeps(p)
  BY <1>1, <1>4, <1>5, <1>8 DEF StepKeeps
<1>10. \A q \in Procs \ {p} : /\ CallInv(q)' /\ FinalInv(q)'
                              /\ Finisher(q)' <=> Finisher(q)
                              /\ pc'[q] # "idle" => phase'[q] \in OpenPhases
  BY <1>9, OthersKeep DEF StepKeeps
<1>11. RunTypeOK'
  BY <1>9, <1>10 DEF StepKeeps, RunTypeOK, CoordinatorTypes, IInv, OpenPhases
<1>12. OnceInv'
  BY <1>0, <1>1, <1>3, <1>6, <1>7, <1>10 DEF OnceInv, Finisher
<1> QED BY <1>9, <1>10, <1>11, <1>12 DEF RunInv, StepKeeps

(* A step inside the directory.  Only a publication that takes its place    *)
(* can make a finisher, and then the last generation was not there before.  *)
LEMMA DirectoryRunStep ==
    ASSUME RunInv, IInv', NEW p \in Procs, DirectoryMove(p), UNCHANGED coordinator,
           faults' \in 0 .. MaxFaults, completions' = completions
    PROVE  RunInv'
<1>0. /\ TypeOK /\ CoordinatorTypes /\ CallInv(p) /\ FinalInv(p) /\ OnceInv
      /\ CursorOf(p) \in 0 .. TotalTargets /\ position[p] >= 1 <=> CursorOf(p) >= 1
      /\ pc[p] # "idle" => phase[p] \in OpenPhases
  BY ProcFacts DEF RunInv
<1>1. /\ phase' = phase /\ position' = position /\ stop' = stop /\ final' = final
      /\ RunOthers(p) /\ CoordinatorTypes'
      /\ CursorOf(p)' = CursorOf(p) /\ (IsFull(p)' <=> IsFull(p))
  BY <1>0 DEF coordinator, RunOthers, CoordinatorTypes, CursorOf, IsFull
<1>2. CASE Install(p)
  <2>1. /\ pc[p] = "sealed" /\ target[p] = CursorOf(p) /\ CanReplace(target[p])
        /\ pc'[p] = "renamed" /\ target' = target /\ ever' = ever \cup {target[p]}
        /\ StoreOthers(p)
    BY <1>0, <1>2 DEF Install, CallInv, Goto, TypeOK, StoreOthers, locals
  <2>2. CallInv(p)' /\ FinalInv(p)'
    BY <1>0, <1>1, <2>1 DEF CallInv, FinalInv
  <2>3. StepKeeps(p)
    BY <1>0, <1>1, <2>1, <2>2 DEF StepKeeps, CallInv, OpenPhases
  <2>4. CASE CursorOf(p) # TotalTargets
    BY <1>1, <2>3, <2>4, StepPreserves DEF Finisher
  <2>5. CASE CursorOf(p) = TotalTargets
    <3>1. TotalTargets \notin ever
      BY <2>1, <2>5, LastIsKept DEF RunInv, CanReplace, Whole
    <3>2. \A q \in Procs : ~ Finisher(q)
      BY <3>1 DEF RunInv, FinalInv, Finisher
    <3>3. completions = 0
      BY <1>0, <3>1 DEF OnceInv, CoordinatorTypes
    <3>4. \A q \in Procs \ {p} : /\ CallInv(q)' /\ FinalInv(q)'
                                 /\ Finisher(q)' <=> Finisher(q)
                                 /\ pc'[q] # "idle" => phase'[q] \in OpenPhases
      BY <2>3, OthersKeep DEF StepKeeps
    <3>5. RunTypeOK'
      BY <2>3, <3>4 DEF StepKeeps, RunTypeOK, CoordinatorTypes, IInv, OpenPhases
    <3>6. OnceInv'
      BY <3>2, <3>3, <3>4 DEF OnceInv
    <3> QED BY <2>3, <3>4, <3>5, <3>6 DEF RunInv, StepKeeps
  <2> QED BY <2>4, <2>5
<1>3. CASE ever' = ever /\ DirectoryEffect(p) /\ StoreOthers(p)
  <2>1. CallInv(p)'
    BY <1>0, <1>1, <1>3 DEF DirectoryEffect, CallInv
  <2>2. Wrote(p)' => Wrote(p)
    BY <1>0, <1>1, <1>3 DEF DirectoryEffect, CallInv, Wrote
  <2>3. FinalInv(p)'
    BY <1>0, <1>1, <1>3, <2>2 DEF FinalInv
  <2>4. pc'[p] # "idle" => phase'[p] \in OpenPhases
    BY <1>0, <1>1, <1>3 DEF DirectoryEffect
  <2>5. StepKeeps(p)
    BY <1>1, <1>3, <2>1, <2>3, <2>4 DEF StepKeeps
  <2> QED BY <1>1, <2>2, <2>5, StepPreserves DEF Finisher
<1> QED BY <1>0, <1>2, <1>3, DirectoryMoves
-----------------------------------------------------------------------------
LEMMA RunInitInv == RunInit => RunInv
<1> SUFFICES ASSUME RunInit PROVE RunInv
  OBVIOUS
<1>1. IInv
  BY InitInv DEF RunInit
<1>2. \A p \in Procs :
         /\ pc[p] = "idle" /\ phase[p] = "off" /\ position[p] = 0
         /\ final[p] = NoTarget /\ stop[p] = TotalTargets
  BY DEF RunInit, Init
<1>3. \A p \in Procs : ~Wrote(p) /\ CursorOf(p) = 0
  BY <1>2, ConsumedBounds, TotalTargetsType DEF Wrote, CursorOf
<1>4. RunTypeOK
  BY <1>1, <1>2, TotalTargetsType, FinalRunAssumption
     DEF IInv, RunInit, RunTypeOK, Phase, Init
<1>5. \A p \in Procs : CallInv(p) /\ FinalInv(p)
  BY <1>2, <1>3 DEF CallInv, FinalInv, NoTarget
<1>6. OnceInv
  BY <1>3 DEF RunInit, OnceInv, Finisher
<1> QED BY <1>1, <1>4, <1>5, <1>6 DEF RunInv

LEMMA RunNextInv ==
    ASSUME RunInv, [RunNext]_allVars
    PROVE  RunInv'
<1>1. IInv'
  BY RunStepIsStoreStep, NextInv DEF RunInv
<1>2. ASSUME NEW p \in Procs, NEW limit \in Budgets \cup {TotalTargets}, Launch(p, limit)
      PROVE  RunInv'
  BY <1>1, <1>2, LaunchStep
<1>3. ASSUME NEW p \in Procs, RunStep(p) PROVE RunInv'
  <2>0. faults \in 0 .. MaxFaults
    BY DEF RunInv, RunTypeOK
  <2>1. CASE CompleteUpdate(p)
    BY <1>1, <2>1, CompleteUpdateStep
  <2>2. CASE AfterPublish(p)
    BY <1>1, <2>2, AfterPublishStep
  <2>3. CASE AfterPrune(p)
    BY <1>1, <2>3, AfterPruneStep
  <2>4. CASE CloseDiagnostic(p)
    BY <1>1, <2>4, CloseDiagnosticStep
  <2>5. CASE AfterSeal(p)
    BY <1>1, <2>5, AfterSealStep
  <2>6. CASE CloseFull(p)
    BY <1>1, <2>6, CloseFullStep
  <2>7. CASE Reload(p)
    BY <1>1, <2>7, ReloadStep
  <2>8. CASE Report(p)
    BY <1>1, <2>8, ReportStep
  <2>9. CASE ReloadRefused(p) \/ Leave(p) \/ Abort(p)
    <3>1. Exit(p) /\ UNCHANGED <<vars, faults, completions>> /\ pc[p] = "idle"
      BY <2>9, ProcFacts DEF ReloadRefused, Leave, Abort, Called, OpenPhases
    <3> QED BY <1>1, <2>0, <3>1, StoreUntouched, ExitStep
  <2>10. CASE DirectoryStep(p)
    BY <1>1, <2>0, <2>10, DirectoryRunStep DEF DirectoryStep, DirectoryMove, runVars
  <2> QED BY <1>3, <2>1, <2>2, <2>3, <2>4, <2>5, <2>6, <2>7, <2>8, <2>9, <2>10 DEF RunStep
<1>4. ASSUME NEW p \in Procs, Die(p) PROVE RunInv'
  <2>1. faults' \in 0 .. MaxFaults
    BY <1>4, FinalRunAssumption DEF RunInv, RunTypeOK, Die
  <2>2. StoreOthers(p) /\ ever' = ever /\ pc'[p] = "idle"
    BY <1>4, StoreUntouched, CrashEffect, ProcFacts DEF Die, Called
  <2> QED BY <1>1, <1>4, <2>1, <2>2, ExitStep DEF Die
<1>5. ASSUME NEW p \in Procs, DirectoryFails(p) PROVE RunInv'
  <2>1. faults' \in 0 .. MaxFaults
    BY <1>5, FinalRunAssumption DEF RunInv, RunTypeOK, DirectoryFails
  <2> QED BY <1>1, <1>5, <2>1, DirectoryRunStep DEF DirectoryFails, DirectoryMove
<1>6. CASE UNCHANGED allVars
  <2>1. RunTypeOK' /\ OnceInv'
    BY <1>1, <1>6 DEF RunInv, IInv, RunTypeOK, OnceInv, allVars, runVars, coordinator, vars,
                      Finisher, Wrote, CursorOf
  <2>2. \A p \in Procs : CallInv(p)' /\ FinalInv(p)'
    BY <1>6 DEF RunInv, CallInv, FinalInv, allVars, runVars, coordinator, vars,
                Wrote, CursorOf, IsFull
  <2> QED BY <1>1, <2>1, <2>2 DEF RunInv
<1> QED BY <1>2, <1>3, <1>4, <1>5, <1>6 DEF RunNext

LEMMA RunInvariance == RunSpec => []RunInv
<1>1. RunInv /\ [RunNext]_allVars => RunInv'
  BY RunNextInv
<1> QED BY <1>1, RunInitInv, PTL DEF RunSpec

(* Launches use the directory as CheckpointStore says: every behaviour of   *)
(* the coordinators is one of the directory, so that what is proved there   *)
(* holds of them.                                                           *)
THEOREM LaunchesRunOnTheStore == RunSpec => Spec
<1>1. RunInit => Init
  BY DEF RunInit
<1>2. RunInv /\ [RunNext]_allVars => [Next]_vars
  BY RunStepIsStoreStep
<1> QED BY <1>1, <1>2, RunInvariance, PTL DEF RunSpec, Spec

(* Whatever launches overlap, fail and are repeated: what retention keeps   *)
(* is on disk, whole, ...                                                   *)
THEOREM LaunchesKeepRetained == RunSpec => []RetainedKept
BY LaunchesRunOnTheStore, StoreKeepsRetained, PTL

(* ... and the generation a relaunch would resume from never becomes an     *)
(* older one.                                                               *)
THEOREM LaunchesNeverGoBack == RunSpec => ResumePointMonotone
BY LaunchesRunOnTheStore, StoreNeverGoesBack, PTL

(* TRAINING_COMPLETE is reported at most once on a root, however many       *)
(* launches are started and whichever generation each resumed from; and the *)
(* final generation is on disk, whole, while a launch reports it.           *)
THEOREM TrainingCompletesOnce == RunSpec => []CompletedOnce
<1>1. RunInv => CompletedOnce
  <2> SUFFICES ASSUME RunInv PROVE CompletedOnce
    OBVIOUS
  <2>1. ASSUME NEW p \in Procs, phase[p] = "complete", IsFull(p)
        PROVE  final[p] = TotalTargets /\ TotalTargets \in Whole
    <3>1. final[p] = CursorOf(p) /\ CursorOf(p) \in ever /\ position[p] >= 1
      BY <2>1 DEF RunInv, FinalInv, CallInv
    <3>2. final[p] = TotalTargets
      BY <2>1, <3>1, ProcFacts DEF FinalInv, NoTarget
    <3> QED BY <3>1, <3>2, LastIsKept DEF RunInv
  <2> QED BY <2>1 DEF RunInv, OnceInv, CompletedOnce, CompletionIsDurable
<1> QED BY <1>1, RunInvariance, PTL
-----------------------------------------------------------------------------
(* One process at a time, which resumes from the newest generation.         *)

(* Launched again and again, failing and crashing: a prune that succeeds    *)
(* leaves exactly what retention keeps of all that was ever installed.      *)
THEOREM RelaunchesPruneExactly ==
    ASSUME NEW p, Procs = {p}
    PROVE  RunSpec => []SuccessfulPruneIsExact
BY LaunchesRunOnTheStore, SolePruneIsExact, PTL

(* The process never falls behind what was installed before it.             *)
AheadInv(p) == phase[p] # "off" => \A g \in ever : g <= CursorOf(p)

(* What a launch may resume from is at least as new as all there ever was.  *)
LEMMA StartsAhead ==
    ASSUME IInv, ResumeNewest, NEW start \in Starts, NEW g \in ever
    PROVE  g <= start
<1>0. \A h \in ever : h \in Nat
  BY GenerationType DEF IInv, TypeOK
<1>1. PICK n \in ever : \A h \in ever : h <= n
  BY DEF IInv, NewestInv
<1>2. n \in Whole
  <2>1. n \in RetainedGenerations(ever)
    BY <1>0, <1>1 DEF RetainedGenerations, LatestTwo
  <2> QED BY <2>1 DEF IInv, RetainedKept
<1>3. start \in Whole /\ n <= start
  BY <1>2 DEF Starts
<1> QED BY <1>0, <1>1, <1>3 DEF IInv

LEMMA AheadStep ==
    ASSUME NEW p, Procs = {p}, ResumeNewest, RunInv, AheadInv(p), [RunNext]_allVars
    PROVE  AheadInv(p)'
<1>0. /\ p \in Procs /\ TypeOK /\ CoordinatorTypes /\ CursorOf(p) \in Nat
      /\ \A g \in ever : g \in Nat
  <2>1. TypeOK /\ CoordinatorTypes /\ CursorOf(p) \in Nat
    BY ProcFacts, TotalTargetsType
  <2> QED BY <2>1, GenerationType DEF TypeOK
<1>1. ASSUME NEW limit \in Budgets \cup {TotalTargets}, Launch(p, limit)
      PROVE  AheadInv(p)'
  <2>1. PICK start \in Starts, u \in 0 .. TotalUpdates :
            ConsumedAfter(u) = start /\ position' = [position EXCEPT ![p] = u]
    BY <1>1 DEF Launch
  <2>2. CursorOf(p)' = start
    BY <1>0, <2>1 DEF CursorOf, CoordinatorTypes
  <2>3. ever' = ever
    BY <1>0, <1>1, StoreUntouched DEF Launch
  <2> QED BY <2>2, <2>3, StartsAhead DEF AheadInv, RunInv
<1>2. CASE CompleteUpdate(p)
  <2>1. /\ CursorOf(p) < TotalTargets /\ phase[p] = "training"
        /\ position' = [position EXCEPT ![p] = @ + 1]
    BY <1>0, <1>2, ProcFacts, TotalTargetsType DEF CompleteUpdate
  <2>2. /\ position[p] + 1 \in 0 .. TotalUpdates
        /\ CursorOf(p) < ConsumedAfter(position[p] + 1)
    BY <1>0, <2>1, ProcFacts
  <2>3. CursorOf(p)' = ConsumedAfter(position[p] + 1) /\ CursorOf(p)' \in Nat
    <3>1. position'[p] = position[p] + 1
      BY <1>0, <2>1 DEF CoordinatorTypes
    <3> QED BY <2>2, <3>1, CursorFacts, TotalTargetsType DEF CursorOf
  <2>4. ever' = ever
    <3>1. ConsumedAfter(position[p] + 1) \in Generation
      BY <1>0, <2>2, CursorFacts, ProcFacts
    <3> QED BY <1>0, <1>2, <3>1, PublishCall, StoreUntouched DEF CompleteUpdate
  <2> QED BY <1>0, <2>1, <2>2, <2>3, <2>4 DEF AheadInv
<1>3. CASE \/ AfterPublish(p) \/ AfterPrune(p) \/ CloseDiagnostic(p) \/ AfterSeal(p)
           \/ CloseFull(p) \/ Reload(p) \/ Report(p)
  <2>1. position' = position /\ phase[p] # "off"
    BY <1>3 DEF AfterPublish, AfterPrune, CloseDiagnostic, AfterSeal, CloseFull, Reload, Report
  <2>2. ever' = ever
    <3>1. CASE CloseDiagnostic(p)
      <4>1. CursorOf(p) \in Generation
        BY <1>0, <3>1, ProcFacts, TotalTargetsType DEF CloseDiagnostic
      <4> QED BY <1>0, <3>1, <4>1, PublishCall, StoreUntouched DEF CloseDiagnostic
    <3>2. CASE AfterPublish(p) \/ Reload(p)
      BY <1>0, <3>2, PruneCall DEF AfterPublish, Reload
    <3>3. CASE AfterPrune(p) \/ AfterSeal(p) \/ CloseFull(p) \/ Report(p)
      BY <1>0, <3>3, StoreUntouched DEF AfterPrune, AfterSeal, CloseFull, Report
    <3> QED BY <1>3, <3>1, <3>2, <3>3
  <2> QED BY <2>1, <2>2 DEF AheadInv, CursorOf
<1>4. CASE ReloadRefused(p) \/ Leave(p) \/ Abort(p) \/ Die(p)
  <2>1. phase'[p] = "off"
    BY <1>0, <1>4 DEF ReloadRefused, Leave, Abort, Die, Exit, Enter, CoordinatorTypes
  <2> QED BY <2>1 DEF AheadInv
<1>5. CASE DirectoryStep(p) \/ DirectoryFails(p)
  <2>1. DirectoryMove(p) /\ UNCHANGED coordinator
    BY <1>5 DEF DirectoryStep, DirectoryFails, DirectoryMove, runVars
  <2>2. CASE ever' = ever
    BY <2>1, <2>2 DEF AheadInv, CursorOf, coordinator
  <2>3. CASE Install(p)
    <3>1. pc[p] = "sealed" /\ ever' = ever \cup {target[p]}
      BY <2>3 DEF Install
    <3>2. target[p] = CursorOf(p)
      BY <1>0, <3>1, ProcFacts DEF CallInv
    <3> QED BY <1>0, <2>1, <3>1, <3>2 DEF AheadInv, CursorOf, coordinator
  <2> QED BY <1>0, <2>1, <2>2, <2>3, DirectoryMoves
<1>6. CASE UNCHANGED allVars
  BY <1>6 DEF AheadInv, CursorOf, allVars, runVars, coordinator, vars
<1> QED BY <1>1, <1>2, <1>3, <1>4, <1>5, <1>6 DEF RunNext, RunStep

(* One launch after the other, each from the newest generation: a run that  *)
(* reports a result, diagnostic or full, has the checkpoint it reports on   *)
(* disk, whole, at the cursor it stopped at.                                *)
THEOREM ReportsAreDurable ==
    ASSUME NEW p, Procs = {p}, ResumeNewest
    PROVE  RunSpec => []ReportedIsDurable
<1>1. RunInit => AheadInv(p)
  BY DEF RunInit, AheadInv
<1>2. RunInv /\ AheadInv(p) /\ [RunNext]_allVars => AheadInv(p)'
  BY AheadStep
<1>3. RunInv /\ AheadInv(p) => ReportedIsDurable
  <2> SUFFICES ASSUME RunInv, AheadInv(p), phase[p] = "complete"
               PROVE  final[p] = CursorOf(p) /\ final[p] \in Whole
    BY DEF ReportedIsDurable
  <2>1. final[p] = CursorOf(p) /\ CursorOf(p) \in ever
    BY DEF RunInv, FinalInv
  <2>2. \A g \in ever : g \in Nat /\ g <= CursorOf(p)
    BY GenerationType DEF RunInv, IInv, TypeOK, AheadInv
  <2>3. CursorOf(p) \in RetainedGenerations(ever)
    BY <2>1, <2>2 DEF RetainedGenerations, LatestTwo
  <2> QED BY <2>1, <2>3 DEF RunInv, IInv, RetainedKept
<1> QED BY <1>1, <1>2, <1>3, RunInvariance, PTL DEF RunSpec
=============================================================================
