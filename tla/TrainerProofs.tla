--------------------------- MODULE TrainerProofs ---------------------------
(***************************************************************************)
(* Every snapshot a trainer hands out is a state of the uninterrupted run, *)
(* for every plan, every fault and every caller that respects errors.      *)
(***************************************************************************)
EXTENDS Trainer, TLAPS

-----------------------------------------------------------------------------
(* The arithmetic of the plan.                                             *)

LEMMA PlanTypes ==
    /\ TargetsPerFullUpdate \in Nat /\ TargetsPerFullUpdate >= 1
    /\ FullUpdates \in Nat /\ FullUpdates >= 1
    /\ FinalUpdateTargets \in Nat /\ FinalUpdateTargets >= 1
    /\ FinalUpdateTargets <= TargetsPerFullUpdate
    /\ EventInterval \in Nat /\ EventInterval >= 1
BY PlanAssumption

(* Products of naturals are naturals and grow with their first factor.      *)
LEMMA ProductMonotone ==
    ASSUME NEW a \in Nat, NEW b \in Nat, NEW m \in Nat, a <= b
    PROVE  a * m \in Nat /\ b * m \in Nat /\ a * m <= b * m
<1>1. PICK d \in Nat : b = a + d
  <2>1. b - a \in Nat /\ b = a + (b - a)
    OBVIOUS
  <2> QED BY <2>1
<1>2. a * m \in Nat /\ d * m \in Nat
  OBVIOUS
<1>3. b * m = a * m + d * m
  BY <1>1
<1> QED BY <1>2, <1>3

LEMMA TotalTargetsType == TotalTargets \in Nat /\ TotalTargets >= 1 /\ TotalUpdates \in Nat
BY PlanTypes, ProductMonotone DEF TotalTargets, TotalUpdates

(* Each update moves the cursor by exactly its target count.                *)
LEMMA ConsumedStep ==
    ASSUME NEW u \in 0 .. FullUpdates
    PROVE  /\ ConsumedAfter(u + 1) = ConsumedAfter(u) + UpdateTargetCount(u + 1)
           /\ UpdateTargetCount(u + 1) \in 1 .. TargetsPerFullUpdate
<1> USE PlanTypes
<1>1. CASE u = FullUpdates
  <2>1. ~ (u + 1 \in 0 .. FullUpdates) /\ ~ (u + 1 \in 1 .. FullUpdates)
    BY <1>1
  <2> QED BY <1>1, <2>1 DEF ConsumedAfter, UpdateTargetCount, TotalTargets
<1>2. CASE u < FullUpdates
  <2>1. u + 1 \in 0 .. FullUpdates /\ u + 1 \in 1 .. FullUpdates
    BY <1>2
  <2>2. (u + 1) * TargetsPerFullUpdate = u * TargetsPerFullUpdate + TargetsPerFullUpdate
    OBVIOUS
  <2> QED BY <2>1, <2>2 DEF ConsumedAfter, UpdateTargetCount
<1> QED BY <1>1, <1>2

(* The cursor after u updates lies in the run, and only the last update     *)
(* takes it to the end.                                                     *)
LEMMA ConsumedBounds ==
    ASSUME NEW u \in 0 .. TotalUpdates
    PROVE  /\ ConsumedAfter(u) \in Cursor
           /\ u <= FullUpdates => ConsumedAfter(u) < TotalTargets
           /\ ConsumedAfter(0) = 0
           /\ ConsumedAfter(TotalUpdates) = TotalTargets
<1> USE PlanTypes, TotalTargetsType
<1>1. ConsumedAfter(0) = 0 /\ ConsumedAfter(TotalUpdates) = TotalTargets
  BY DEF ConsumedAfter, TotalUpdates
<1>2. CASE u <= FullUpdates
  <2>1. u * TargetsPerFullUpdate \in Nat
        /\ u * TargetsPerFullUpdate <= FullUpdates * TargetsPerFullUpdate
    BY <1>2, ProductMonotone
  <2>2. ConsumedAfter(u) = u * TargetsPerFullUpdate
    BY <1>2 DEF ConsumedAfter
  <2>3. ConsumedAfter(u) < TotalTargets /\ ConsumedAfter(u) \in Nat
    <3>1. FullUpdates * TargetsPerFullUpdate \in Nat
      OBVIOUS
    <3> QED BY <2>1, <2>2, <3>1 DEF TotalTargets
  <2> QED BY <1>1, <2>3 DEF Cursor
<1>3. CASE u = TotalUpdates
  BY <1>1, <1>3 DEF Cursor, TotalUpdates
<1> QED BY <1>2, <1>3 DEF TotalUpdates

-----------------------------------------------------------------------------
(* Integer division, in the three forms the schedule needs.                 *)
LEMMA DivideBounds ==
    ASSUME NEW x \in Nat, NEW d \in Nat, d >= 1
    PROVE  /\ x \div d \in Nat
           /\ (x \div d) * d <= x
           /\ x < (x \div d) * d + d
OBVIOUS

LEMMA ProductOrder ==
    ASSUME NEW a \in Nat, NEW b \in Nat, NEW m \in Nat, m >= 1
    PROVE  /\ a * m <= b * m => a <= b
           /\ a * m < b * m + m => a <= b
           /\ a * m < b * m => a < b
<1>0. a * m \in Nat /\ b * m \in Nat
  OBVIOUS
<1>1. ASSUME a > b PROVE a * m >= b * m + m
  <2>1. b + 1 <= a /\ b + 1 \in Nat
    BY <1>1
  <2>2. (b + 1) * m <= a * m
    BY <2>1, ProductMonotone
  <2>3. (b + 1) * m = b * m + m
    OBVIOUS
  <2> QED BY <2>2, <2>3, <1>0
<1>2. ASSUME a >= b PROVE a * m >= b * m
  BY <1>2, ProductMonotone
<1>3. a * m <= b * m => a <= b
  BY <1>0, <1>1
<1>4. a * m < b * m + m => a <= b
  BY <1>0, <1>1
<1>5. a * m < b * m => a < b
  BY <1>0, <1>2
<1> QED BY <1>3, <1>4, <1>5

LEMMA DivideIs ==
    ASSUME NEW x \in Nat, NEW d \in Nat, d >= 1, NEW q \in Nat,
           q * d <= x, x < q * d + d
    PROVE  x \div d = q
<1>1. /\ x \div d \in Nat
      /\ (x \div d) * d <= x
      /\ x < (x \div d) * d + d
  BY DivideBounds
<1> DEFINE r == x \div d
<1>0. r * d \in Nat /\ q * d \in Nat /\ r \in Nat
  BY <1>1
<1>2. r * d < q * d + d /\ q * d < r * d + d
  BY <1>0, <1>1
<1>3. r <= q
  BY <1>0, <1>2, ProductOrder
<1>4. q <= r
  BY <1>0, <1>2, ProductOrder
<1> QED BY <1>0, <1>3, <1>4

(* Two cursors the plan visits are equal only after the same update.        *)
LEMMA ConsumedInjective ==
    ASSUME NEW u \in 0 .. TotalUpdates, NEW w \in 0 .. TotalUpdates,
           ConsumedAfter(u) = ConsumedAfter(w)
    PROVE  u = w
<1> USE PlanTypes, TotalTargetsType
<1>1. CASE u <= FullUpdates /\ w <= FullUpdates
  <2>1. u * TargetsPerFullUpdate = w * TargetsPerFullUpdate
    BY <1>1 DEF ConsumedAfter
  <2>2. u <= w
    BY <2>1, ProductOrder
  <2>3. w <= u
    BY <2>1, ProductOrder
  <2> QED BY <2>2, <2>3
<1>2. CASE u = TotalUpdates /\ w <= FullUpdates
  BY <1>2, ConsumedBounds DEF Cursor
<1>3. CASE w = TotalUpdates /\ u <= FullUpdates
  BY <1>3, ConsumedBounds DEF Cursor
<1> QED BY <1>1, <1>2, <1>3 DEF TotalUpdates

(* The cursor grows with the updates.                                       *)
LEMMA ConsumedMonotone ==
    ASSUME NEW u \in 0 .. TotalUpdates, NEW w \in 0 .. TotalUpdates, u <= w
    PROVE  ConsumedAfter(u) <= ConsumedAfter(w)
<1> USE PlanTypes, TotalTargetsType
<1>1. CASE w <= FullUpdates
  <2>1. u * TargetsPerFullUpdate <= w * TargetsPerFullUpdate
    BY ProductMonotone
  <2> QED BY <1>1, <2>1 DEF ConsumedAfter
<1>2. CASE w > FullUpdates
  <2>1. ConsumedAfter(w) = TotalTargets
    BY <1>2 DEF ConsumedAfter
  <2>2. ConsumedAfter(u) \in Cursor
    BY ConsumedBounds
  <2> QED BY <2>1, <2>2 DEF Cursor
<1> QED BY <1>1, <1>2

(* The first update that reaches a threshold is the one whose window holds  *)
(* it.                                                                      *)
LEMMA FirstUpdateWindow ==
    ASSUME NEW x \in Nat, x >= 1, x <= TotalTargets,
           NEW u \in 1 .. TotalUpdates
    PROVE  FirstUpdateReaching(x) = u <=>
              /\ ConsumedAfter(u - 1) < x
              /\ x <= ConsumedAfter(u)
<1> USE PlanTypes, TotalTargetsType
<1> DEFINE T == TargetsPerFullUpdate
           y == x + T - 1
           w == y \div T
<1>1. y \in Nat /\ w \in Nat /\ w * T <= y /\ y < w * T + T /\ w * T \in Nat
  BY DivideBounds
<1>2. FullUpdates * T \in Nat /\ x <= FullUpdates * T + T
  BY DEF TotalTargets
<1>3. w <= TotalUpdates
  <2>1. (FullUpdates + 1) * T = FullUpdates * T + T
    OBVIOUS
  <2>2. w * T < (FullUpdates + 1) * T + T
    BY <1>1, <1>2, <2>1
  <2>3. w <= FullUpdates + 1
    BY <2>2, <1>1, ProductOrder
  <2> QED BY <2>3 DEF TotalUpdates
<1>4. FirstUpdateReaching(x) = w
  BY <1>1, <1>3 DEF FirstUpdateReaching
<1>5. u - 1 \in 0 .. FullUpdates /\ ConsumedAfter(u - 1) = (u - 1) * T
  BY DEF TotalUpdates, ConsumedAfter
<1>6. (u - 1) * T \in Nat /\ u * T \in Nat /\ u * T = (u - 1) * T + T
  <2>1. u - 1 \in Nat /\ u \in Nat
    BY DEF TotalUpdates
  <2>2. (u - 1) * T \in Nat /\ u * T \in Nat
    BY <2>1
  <2>3. u * T = (u - 1) * T + T
    BY <2>1
  <2> QED BY <2>2, <2>3
<1>7. ASSUME w = u PROVE (u - 1) * T < x /\ x <= u * T
  BY <1>1, <1>6, <1>7
<1>8. ASSUME (u - 1) * T < x, x <= u * T PROVE w = u
  <2>1. u * T <= y /\ y < u * T + T
    BY <1>1, <1>6, <1>8
  <2> QED BY <2>1, <1>1, DivideIs DEF TotalUpdates
<1>9. x <= ConsumedAfter(u) <=> x <= u * T
  <2>1. CASE u <= FullUpdates
    BY <2>1 DEF ConsumedAfter
  <2>2. CASE u = TotalUpdates
    <3>1. ConsumedAfter(u) = TotalTargets
      BY <2>2, ConsumedBounds
    <3>2. TotalTargets <= u * T
      BY <2>2, <1>2, <1>6 DEF TotalUpdates, TotalTargets
    <3> QED BY <3>1, <3>2, <1>6
  <2> QED BY <2>1, <2>2 DEF TotalUpdates
<1> QED BY <1>4, <1>5, <1>7, <1>8, <1>9

(* The two formulations of the event schedule agree, for every plan: the    *)
(* update that process_batch evaluates after, because its cursor pair       *)
(* crosses a multiple of the interval, is one that validate_evaluations     *)
(* demands an evaluation of, and the other way round.                       *)
THEOREM ScheduleFormulationsAgree ==
    ASSUME NEW u \in 1 .. TotalUpdates
    PROVE  EventBoundaryCrossed(ConsumedAfter(u - 1), ConsumedAfter(u))
              <=> ConsumedAfter(u) \in EvaluationPositions
<1> USE PlanTypes, TotalTargetsType
<1> DEFINE E == EventInterval
           p == ConsumedAfter(u - 1)
           c == ConsumedAfter(u)
           K == TotalTargets \div E
<1>1. /\ u - 1 \in 0 .. FullUpdates /\ u \in 0 .. TotalUpdates
      /\ u - 1 \in 0 .. TotalUpdates
  BY DEF TotalUpdates
<1>2. /\ p \in Nat /\ c \in Nat
      /\ p <= TotalTargets /\ c <= TotalTargets /\ p < c
  <2>1. p \in Cursor /\ c \in Cursor
    BY <1>1, ConsumedBounds
  <2>2. u - 1 + 1 = u
    BY <1>1
  <2>3. c = p + UpdateTargetCount(u) /\ UpdateTargetCount(u) \in 1 .. TargetsPerFullUpdate
    BY <1>1, <2>2, ConsumedStep
  <2> QED BY <2>1, <2>3 DEF Cursor
<1>3. K \in Nat /\ K * E = TotalTargets /\ K >= 1
  <2>1. K \in Nat /\ K * E <= TotalTargets /\ TotalTargets < K * E + E
    BY DivideBounds
  <2>2. TotalTargets % E = 0
    BY PlanAssumption
  <2>3. TotalTargets = K * E + (TotalTargets % E)
    BY SMT
  <2>4. K * E = TotalTargets
    BY <2>1, <2>2, <2>3
  <2>5. K # 0
    BY <2>4
  <2> QED BY <2>1, <2>4, <2>5
(* Every threshold up to the end has a place in the run.                    *)
<1>4. ASSUME NEW k \in 1 .. K
      PROVE  /\ k * E \in Nat /\ k * E >= 1 /\ k * E <= TotalTargets
             /\ FirstUpdateReaching(k * E) \in 1 .. TotalUpdates
  <2>1. k \in Nat /\ k * E \in Nat /\ k * E <= K * E
    BY <1>3, ProductMonotone
  <2>2. 1 * E <= k * E
    BY <2>1, ProductMonotone
  <2>3. k * E >= 1 /\ k * E <= TotalTargets
    BY <2>1, <2>2, <1>3
  <2> DEFINE y == k * E + TargetsPerFullUpdate - 1
             w == y \div TargetsPerFullUpdate
  <2>4. y \in Nat /\ w \in Nat /\ y < w * TargetsPerFullUpdate + TargetsPerFullUpdate
    BY <2>1, <2>3, DivideBounds
  <2>5. w # 0
    BY <2>3, <2>4
  <2>6. FirstUpdateReaching(k * E) \in 1 .. TotalUpdates
    BY <2>4, <2>5 DEF FirstUpdateReaching, TotalUpdates
  <2> QED BY <2>1, <2>3, <2>6
<1>5. c \in EvaluationPositions <=> \E k \in 1 .. K : p < k * E /\ k * E <= c
  <2>1. ASSUME NEW k \in 1 .. K
        PROVE  c = ConsumedAfter(FirstUpdateReaching(k * E)) <=> (p < k * E /\ k * E <= c)
    <3>1. c = ConsumedAfter(FirstUpdateReaching(k * E)) <=> FirstUpdateReaching(k * E) = u
      <4>1. FirstUpdateReaching(k * E) \in 0 .. TotalUpdates
        BY <1>4
      <4> QED BY <1>1, <4>1, ConsumedInjective
    <3> QED BY <3>1, <1>4, FirstUpdateWindow
  <2> QED BY <2>1 DEF EvaluationPositions
(* A multiple of E lies in (p, c] iff the quotients differ.                 *)
<1>6. (p \div E < c \div E) <=> \E k \in 1 .. K : p < k * E /\ k * E <= c
  <2> DEFINE a == p \div E
             b == c \div E
  <2>1. /\ a \in Nat /\ a * E <= p /\ p < a * E + E
        /\ b \in Nat /\ b * E <= c /\ c < b * E + E
        /\ a * E \in Nat /\ b * E \in Nat
    <3>1. a \in Nat /\ a * E <= p /\ p < a * E + E
      BY <1>2, DivideBounds
    <3>2. b \in Nat /\ b * E <= c /\ c < b * E + E
      BY <1>2, DivideBounds
    <3> QED BY <3>1, <3>2
  <2>2. ASSUME a < b PROVE \E k \in 1 .. K : p < k * E /\ k * E <= c
    <3>1. a + 1 <= b /\ a + 1 \in Nat
      BY <2>1, <2>2
    <3>2. (a + 1) * E <= b * E /\ (a + 1) * E = a * E + E
      BY <2>1, <3>1, ProductMonotone
    <3>3. p < b * E
      <4> HIDE DEF p, a, b
      <4> QED BY <2>1, <3>2, <1>2
    <3>4. b * E <= K * E
      BY <2>1, <1>2, <1>3
    <3>5. b <= K
      BY <2>1, <3>4, <1>3, ProductOrder
    <3>6. b \in 1 .. K
      BY <2>1, <3>1, <3>5, <1>3
    <3> QED BY <2>1, <3>3, <3>6
  <2>3. ASSUME NEW k \in 1 .. K, p < k * E, k * E <= c PROVE a < b
    <3>1. k \in Nat /\ k * E \in Nat
      BY <1>4
    <3>2. a * E < k * E
      BY <2>1, <2>3, <3>1, <1>2
    <3>3. a < k
      BY <2>1, <3>1, <3>2, ProductOrder
    <3>4. k * E < b * E + E
      BY <2>1, <2>3, <3>1, <1>2
    <3>5. k <= b
      BY <2>1, <3>1, <3>4, ProductOrder
    <3> QED BY <2>1, <3>1, <3>3, <3>5
  <2> QED BY <2>2, <2>3
<1>7. c = TotalTargets => \E k \in 1 .. K : p < k * E /\ k * E <= c
  <2>1. K \in 1 .. K
    BY <1>3
  <2> QED BY <2>1, <1>2, <1>3
<1> QED BY <1>5, <1>6, <1>7 DEF EventBoundaryCrossed

-----------------------------------------------------------------------------
(* The trainer.                                                            *)

Window(c, n) == [t \in Target |-> IF c <= t /\ t < c + n THEN 1 ELSE 0]

LEMMA BagFacts ==
    /\ Nothing \in Bag
    /\ FirstTargets(0) = Nothing
    /\ \A c \in Nat : FirstTargets(c) \in Bag /\ Window(c, 0) = Nothing
    /\ \A b \in Bag : \A first, n \in Nat : AddWindow(b, first, n) \in Bag
    /\ \A a, b \in Bag : AddAll(a, b) \in Bag
<1>1. Target \subseteq Nat
  BY TotalTargetsType DEF Target
<1> QED BY <1>1 DEF Nothing, FirstTargets, Window, AddWindow, AddAll, Bag

(* Windows that continue one another add up to one window.                  *)
LEMMA WindowSums ==
    ASSUME NEW c \in Nat, NEW a \in Nat, NEW n \in Nat
    PROVE  /\ AddWindow(Window(c, a), c + a, n) = Window(c, a + n)
           /\ AddWindow(FirstTargets(c), c, n) = FirstTargets(c + n)
           /\ AddAll(FirstTargets(c), Window(c, n)) = FirstTargets(c + n)
<1>1. Target \subseteq Nat
  BY TotalTargetsType DEF Target
<1> QED BY <1>1 DEF Window, FirstTargets, AddWindow, AddAll

-----------------------------------------------------------------------------
(* The inductive invariant.  SnapshotsExact alone is not inductive: a good  *)
(* snapshot is copied from a trainer whose sums, generators and weights are *)
(* all at the cursor, or which gives no snapshot.                           *)

CursorInv ==
    /\ consumed = ConsumedAfter(completed)
    /\ lastUpdate = completed
    /\ completed = TotalUpdates => accumulated = 0
    /\ completed <= FullUpdates => accumulated <= Required
    /\ \A e \in evaluations : e <= consumed

SumsInv ==
    live => /\ overflowed => accumulated > 0
            /\ ~overflowed => /\ gradient = Window(consumed, accumulated)
                              /\ rng = FirstTargets(consumed + accumulated)
                              /\ backend.chain = rng

LearnedInv ==
    live => /\ backend.learned = FirstTargets(consumed)
            /\ backend.step = completed

Stuck == completed <= FullUpdates /\ accumulated = Required
EvaluationMissing ==
    \E e \in ExpectedEvaluations(consumed) : e \notin evaluations
TornInv == live /\ backend.torn => Stuck \/ EvaluationMissing

IInv == TypeOK /\ CursorInv /\ SumsInv /\ LearnedInv /\ TornInv /\ SnapshotsExact

-----------------------------------------------------------------------------
(* Facts every step needs.                                                  *)

LEMMA Numbers ==
    ASSUME TypeOK, CursorInv
    PROVE  /\ consumed \in Nat /\ completed \in Nat /\ accumulated \in Nat
           /\ Required \in 1 .. TargetsPerFullUpdate
           /\ completed <= FullUpdates \/ completed = TotalUpdates
           /\ consumed # TotalTargets <=> completed <= FullUpdates
           /\ completed <= FullUpdates =>
                 /\ consumed + Required = ConsumedAfter(completed + 1)
                 /\ consumed + Required \in Cursor
                 /\ completed + 1 \in 1 .. TotalUpdates
<1> USE PlanTypes, TotalTargetsType
<1>1. completed \in 0 .. TotalUpdates /\ consumed \in Nat /\ accumulated \in Nat
  BY DEF TypeOK, Cursor
<1>2. Required \in 1 .. TargetsPerFullUpdate
  BY <1>1 DEF Required, UpdateTargetCount
<1>3. completed <= FullUpdates \/ completed = TotalUpdates
  BY <1>1 DEF TotalUpdates
<1>4. consumed # TotalTargets <=> completed <= FullUpdates
  BY <1>1, <1>3, ConsumedBounds DEF CursorInv, TotalUpdates
<1>5. ASSUME completed <= FullUpdates
      PROVE  /\ consumed + Required = ConsumedAfter(completed + 1)
             /\ consumed + Required \in Cursor
             /\ completed + 1 \in 1 .. TotalUpdates
  <2>1. completed \in 0 .. FullUpdates /\ completed + 1 \in 1 .. TotalUpdates
        /\ completed + 1 \in 0 .. TotalUpdates
    BY <1>1, <1>5 DEF TotalUpdates
  <2>2. consumed + Required = ConsumedAfter(completed + 1)
    BY <2>1, ConsumedStep DEF CursorInv, Required
  <2> QED BY <2>1, <2>2, ConsumedBounds
<1> QED BY <1>1, <1>2, <1>3, <1>4, <1>5

(* A batch that reached the backend fits into an update that is not full.   *)
LEMMA ContributeFacts ==
    ASSUME IInv, NEW n \in BatchSizes, Contribute(n)
    PROVE  /\ n \in Nat /\ n >= 1
           /\ live
           /\ completed <= FullUpdates
           /\ accumulated + n <= Required
           /\ ~Stuck
           /\ Advanced(n) \in Backend
           /\ Advanced(n).learned = backend.learned
           /\ Advanced(n).step = backend.step
           /\ Advanced(n).torn = backend.torn
           /\ Advanced(n).chain = AddWindow(backend.chain, consumed + accumulated, n)
<1>1. TypeOK /\ CursorInv
  BY DEF IInv
<1>2. n \in Nat /\ n >= 1
  BY PlanTypes DEF BatchSizes
<1>3. live /\ completed <= FullUpdates /\ accumulated + n <= Required
  BY <1>1, Numbers DEF Contribute, Admissible
<1>4. ~Stuck
  BY <1>1, <1>2, <1>3, Numbers DEF Stuck
<1>5. backend \in Backend
  BY <1>1 DEF TypeOK
<1>6. /\ Advanced(n).learned = backend.learned
      /\ Advanced(n).step = backend.step
      /\ Advanced(n).torn = backend.torn
      /\ Advanced(n).chain = AddWindow(backend.chain, consumed + accumulated, n)
  BY <1>5 DEF Advanced, Backend
<1>7. AddWindow(backend.chain, consumed + accumulated, n) \in Bag
  BY <1>1, <1>2, <1>5, BagFacts, Numbers DEF Backend
<1>8. Advanced(n) \in Backend
  BY <1>5, <1>7 DEF Advanced, Backend
<1> QED BY <1>2, <1>3, <1>4, <1>6, <1>8

(* An evaluation once missed is never made up for.                          *)
LEMMA MissingStays ==
    ASSUME TypeOK, EvaluationMissing,
           consumed' \in Nat, consumed < consumed',
           evaluations' \subseteq evaluations \cup {consumed'}
    PROVE  EvaluationMissing'
<1>1. PICK e \in ExpectedEvaluations(consumed) : e \notin evaluations
  BY DEF EvaluationMissing
<1>2. consumed \in Nat
  BY DEF TypeOK, Cursor
<1>3. e = 0 \/ (e \in EvaluationPositions /\ e <= consumed)
  BY <1>1 DEF ExpectedEvaluations
<1>4. \A q \in EvaluationPositions : q \in Int
  <2>1. ASSUME NEW k \in 1 .. (TotalTargets \div EventInterval)
        PROVE  ConsumedAfter(FirstUpdateReaching(k * EventInterval)) \in Int
    <3> DEFINE y == k * EventInterval + TargetsPerFullUpdate - 1
               w == y \div TargetsPerFullUpdate
    <3>1. k \in Nat
      BY PlanTypes, TotalTargetsType, DivideBounds
    <3>2. y \in Nat
      BY <3>1, PlanTypes, ProductMonotone
    <3>3. w \in Nat
      BY <3>2, PlanTypes, DivideBounds
    <3>4. FirstUpdateReaching(k * EventInterval) \in 0 .. TotalUpdates
      BY <3>3, TotalTargetsType DEF FirstUpdateReaching
    <3> QED BY <3>4, ConsumedBounds DEF Cursor
  <2> QED BY <2>1 DEF EvaluationPositions
<1>5. e \in Int /\ e <= consumed'/\ e # consumed'
  BY <1>2, <1>3, <1>4
<1>6. e \in ExpectedEvaluations(consumed') /\ e \notin evaluations'
  BY <1>1, <1>3, <1>5 DEF ExpectedEvaluations
<1> QED BY <1>6 DEF EvaluationMissing

-----------------------------------------------------------------------------
(* One lemma per kind of step.                                              *)

(* A step that touches nothing but live, and starts no trainer.             *)
LEMMA KeepsState ==
    ASSUME IInv, live' \in BOOLEAN, live' => live,
           UNCHANGED <<counters, sums, rng, evaluations, lastUpdate, backend, handed>>
    PROVE  IInv'
<1> USE DEF counters, sums
<1>1. TypeOK'
  BY DEF IInv, TypeOK
<1>2. CursorInv'
  BY DEF IInv, CursorInv, Required
<1>3. SumsInv' /\ LearnedInv'
  BY DEF IInv, SumsInv, LearnedInv
<1>4. TornInv'
  BY DEF IInv, TornInv, Stuck, Required, EvaluationMissing
<1>5. SnapshotsExact'
  BY DEF IInv, SnapshotsExact
<1> QED BY <1>1, <1>2, <1>3, <1>4, <1>5 DEF IInv

(* The failures after which the caller has dropped the trainer: whatever    *)
(* they left behind is never seen again.                                    *)
LEMMA UnfencedFaultDrops ==
    ASSUME CallerRespectsErrors,
           NEW kind \in Faults, kind \notin FencedFaults, ReturnError(kind)
    PROVE  live' = FALSE
BY DEF CallerRespectsErrors, ReturnError

LEMMA DroppedWithBackend ==
    ASSUME IInv, live' = FALSE, backend' \in Backend, rng' \in Bag,
           UNCHANGED <<counters, sums, evaluations, lastUpdate, handed>>
    PROVE  IInv'
<1> USE DEF counters, sums
<1>1. TypeOK'
  BY DEF IInv, TypeOK
<1>2. CursorInv'
  BY DEF IInv, CursorInv, Required
<1>3. SumsInv' /\ LearnedInv' /\ TornInv'
  BY DEF SumsInv, LearnedInv, TornInv
<1>4. SnapshotsExact'
  BY DEF IInv, SnapshotsExact
<1> QED BY <1>1, <1>2, <1>3, <1>4 DEF IInv

LEMMA ContributionRefusedStep ==
    ASSUME IInv, CallerRespectsErrors, NEW n \in BatchSizes, ContributionRefused(n)
    PROVE  IInv'
<1>1. Contribute(n) /\ live
  BY DEF ContributionRefused, Contribute
<1>2. live' = FALSE
  BY UnfencedFaultDrops DEF ContributionRefused, FencedFaults
<1>3. backend' \in Backend
  BY <1>1, ContributeFacts DEF ContributionRefused
<1>4. rng' \in Bag
  BY DEF ContributionRefused, IInv, TypeOK
<1> QED BY <1>2, <1>3, <1>4, DroppedWithBackend DEF ContributionRefused

LEMMA LayoutMismatchStep ==
    ASSUME IInv, CallerRespectsErrors, NEW n \in BatchSizes, LayoutMismatch(n)
    PROVE  IInv'
<1>1. Contribute(n) /\ live
  BY DEF LayoutMismatch, Contribute
<1>2. live' = FALSE
  BY UnfencedFaultDrops DEF LayoutMismatch, FencedFaults
<1>3. backend' \in Backend /\ rng' \in Bag
  BY <1>1, ContributeFacts DEF LayoutMismatch, Backend
<1> QED BY <1>2, <1>3, DroppedWithBackend DEF LayoutMismatch

LEMMA EvaluateNowFailsStep ==
    ASSUME IInv, CallerRespectsErrors, EvaluateNowFails
    PROVE  IInv'
<1>1. live' = FALSE
  BY UnfencedFaultDrops DEF EvaluateNowFails, FencedFaults
<1>2. backend' \in Backend
  BY DEF EvaluateNowFails, IInv, TypeOK, Backend
<1>3. rng' \in Bag
  BY DEF EvaluateNowFails, IInv, TypeOK
<1> QED BY <1>1, <1>2, <1>3, DroppedWithBackend DEF EvaluateNowFails

(* A sum that overflows is an update that never fills: nothing is counted.  *)
LEMMA GradientOverflowsStep ==
    ASSUME IInv, NEW n \in BatchSizes, GradientOverflows(n)
    PROVE  IInv'
<1> USE DEF counters
<1>0. TypeOK /\ CursorInv /\ Contribute(n)
  BY DEF IInv, GradientOverflows
<1>1. live /\ ~Stuck /\ n \in Nat /\ n >= 1 /\ completed <= FullUpdates
      /\ Advanced(n) \in Backend /\ Advanced(n).chain \in Bag
      /\ Advanced(n).learned = backend.learned
      /\ Advanced(n).step = backend.step
      /\ Advanced(n).torn = backend.torn
  BY <1>0, ContributeFacts DEF Backend
<1>2. consumed + accumulated \in Nat /\ consumed \in Nat /\ accumulated \in Nat
  BY <1>0, Numbers
<1>3. accumulated > 0
  <2>1. CASE overflowed
    BY <2>1, <1>1 DEF IInv, SumsInv
  <2>2. CASE ~overflowed /\ accumulated = 0
    <3>1. gradient = Window(consumed, 0)
      BY <2>2, <1>1 DEF IInv, SumsInv
    <3> QED BY <3>1, <1>2, BagFacts DEF GradientOverflows
  <2> QED BY <2>1, <2>2, <1>2
<1>4. TypeOK'
  <2>1. live' \in BOOLEAN
    BY TrainerAssumption DEF GradientOverflows, ReturnError
  <2>2. gradient' \in Bag /\ rng' \in Bag /\ backend' \in Backend /\ overflowed' \in BOOLEAN
    BY <1>0, <1>1, <1>2, BagFacts DEF GradientOverflows, TypeOK
  <2> QED BY <1>0, <2>1, <2>2 DEF GradientOverflows, TypeOK
<1>5. CursorInv'
  BY <1>0 DEF GradientOverflows, CursorInv, Required
<1>6. SumsInv'
  BY <1>3 DEF GradientOverflows, SumsInv
<1>7. LearnedInv'
  BY <1>1 DEF IInv, GradientOverflows, LearnedInv
<1>8. TornInv'
  BY <1>1 DEF IInv, GradientOverflows, TornInv, Stuck, EvaluationMissing, Required
<1>9. SnapshotsExact'
  BY DEF IInv, GradientOverflows, SnapshotsExact
<1> QED BY <1>4, <1>5, <1>6, <1>7, <1>8, <1>9 DEF IInv

(* What summing a contribution establishes, whatever comes after it.        *)
LEMMA SummedFacts ==
    ASSUME IInv, NEW n \in BatchSizes, Summed(n)
    PROVE  /\ gradient = Window(consumed, accumulated)
           /\ AddWindow(gradient, consumed + accumulated, n)
                = Window(consumed, accumulated + n)
           /\ AddWindow(gradient, consumed + accumulated, n) \in Bag
           /\ Advanced(n).chain = FirstTargets(consumed + accumulated + n)
           /\ rng' = Advanced(n).chain
           /\ rng' \in Bag
           /\ backend.torn => EvaluationMissing
<1>1. TypeOK /\ CursorInv /\ Contribute(n) /\ ~overflowed
  BY DEF IInv, Summed
<1>2. live /\ ~Stuck /\ n \in Nat /\ Advanced(n) \in Backend
      /\ Advanced(n).chain = AddWindow(backend.chain, consumed + accumulated, n)
  BY <1>1, ContributeFacts
<1>3. consumed \in Nat /\ accumulated \in Nat /\ consumed + accumulated \in Nat
  BY <1>1, Numbers
<1>4. /\ gradient = Window(consumed, accumulated)
      /\ backend.chain = FirstTargets(consumed + accumulated)
  BY <1>1, <1>2 DEF IInv, SumsInv
<1>5. AddWindow(gradient, consumed + accumulated, n) = Window(consumed, accumulated + n)
  BY <1>2, <1>3, <1>4, WindowSums
<1>6. Advanced(n).chain = FirstTargets(consumed + accumulated + n)
  BY <1>2, <1>3, <1>4, WindowSums
<1>7. AddWindow(gradient, consumed + accumulated, n) \in Bag
  BY <1>1, <1>2, <1>3, BagFacts DEF TypeOK
<1>8. rng' = Advanced(n).chain /\ rng' \in Bag
  BY <1>2 DEF Summed, Backend
<1>9. backend.torn => EvaluationMissing
  BY <1>2 DEF IInv, TornInv
<1> QED BY <1>4, <1>5, <1>6, <1>7, <1>8, <1>9

(* A contribution that leaves the update unfilled.                          *)
LEMMA AccumulateStep ==
    ASSUME IInv, NEW n \in BatchSizes, Accumulate(n)
    PROVE  IInv'
<1> DEFINE a == accumulated + n
<1>0. TypeOK /\ CursorInv /\ Summed(n) /\ Contribute(n) /\ ~overflowed
  BY DEF IInv, Accumulate, Summed
<1>1. /\ n \in Nat /\ n >= 1 /\ live /\ completed <= FullUpdates
      /\ a <= Required /\ ~Stuck /\ Advanced(n) \in Backend
      /\ Advanced(n).learned = backend.learned
      /\ Advanced(n).step = backend.step
      /\ Advanced(n).torn = backend.torn
  BY <1>0, ContributeFacts
<1>2. /\ consumed \in Nat /\ accumulated \in Nat /\ completed \in Nat /\ a \in Nat
      /\ Required \in 1 .. TargetsPerFullUpdate
  BY <1>0, <1>1, Numbers
<1>3. a \in 0 .. TargetsPerFullUpdate
  BY <1>1, <1>2, PlanTypes
<1>4. TypeOK'
  <2>1. gradient' \in Bag /\ rng' \in Bag /\ backend' \in Backend
    BY <1>0, <1>1, SummedFacts DEF Accumulate
  <2> QED BY <1>0, <1>3, <2>1 DEF Accumulate, TypeOK
<1>5. CursorInv'
  BY <1>0, <1>1, PlanTypes DEF Accumulate, CursorInv, Required, TotalUpdates
<1>6. SumsInv'
  BY <1>0, <1>1, <1>2, SummedFacts DEF Accumulate, SumsInv
<1>7. LearnedInv'
  BY <1>1 DEF IInv, Accumulate, LearnedInv
<1>8. TornInv'
  BY <1>0, <1>1, SummedFacts DEF Accumulate, TornInv, EvaluationMissing
<1>9. SnapshotsExact'
  BY DEF IInv, Accumulate, SnapshotsExact
<1> QED BY <1>4, <1>5, <1>6, <1>7, <1>8, <1>9 DEF IInv

(* A failed optimizer leaves the update full, and full it stays.            *)
LEMMA OptimizerFailsStep ==
    ASSUME IInv, NEW n \in BatchSizes, OptimizerFails(n)
    PROVE  IInv'
<1>0. TypeOK /\ CursorInv /\ Summed(n) /\ Contribute(n) /\ ~overflowed
  BY DEF IInv, OptimizerFails, Summed
<1>1. /\ n \in Nat /\ n >= 1 /\ live /\ completed <= FullUpdates
      /\ Advanced(n) \in Backend
      /\ Advanced(n).learned = backend.learned
      /\ Advanced(n).step = backend.step
  BY <1>0, ContributeFacts
<1>2. /\ consumed \in Nat /\ accumulated \in Nat /\ completed \in Nat
      /\ Required \in 1 .. TargetsPerFullUpdate
  BY <1>0, Numbers
<1>3. accumulated' = Required /\ accumulated' = accumulated + n /\ Required' = Required
  BY DEF OptimizerFails, Required
<1>4. PICK t \in BOOLEAN : backend' = [Advanced(n) EXCEPT !.torn = @ \/ t]
  BY DEF OptimizerFails
<1>5. /\ backend' \in Backend
      /\ backend'.learned = backend.learned
      /\ backend'.step = backend.step
      /\ backend'.chain = Advanced(n).chain
  BY <1>1, <1>4 DEF Backend
<1>6. TypeOK'
  <2>1. live' \in BOOLEAN
    BY TrainerAssumption DEF OptimizerFails, ReturnError
  <2>2. gradient' \in Bag /\ rng' \in Bag
    BY <1>0, SummedFacts DEF OptimizerFails
  <2>3. accumulated' \in 0 .. TargetsPerFullUpdate
    BY <1>2, <1>3
  <2> QED BY <1>0, <1>5, <2>1, <2>2, <2>3 DEF OptimizerFails, TypeOK
<1>7. CursorInv'
  <2>1. completed # TotalUpdates
    BY <1>1, PlanTypes DEF TotalUpdates
  <2>2. Required <= Required
    BY <1>2
  <2>3. accumulated' <= Required'
    BY <1>3, <2>2
  <2> QED BY <1>0, <2>1, <2>3 DEF OptimizerFails, CursorInv
<1>8. SumsInv'
  BY <1>0, <1>1, <1>2, <1>3, <1>5, SummedFacts DEF OptimizerFails, SumsInv
<1>9. LearnedInv'
  BY <1>1, <1>5 DEF IInv, OptimizerFails, LearnedInv
<1>10. TornInv'
  BY <1>1, <1>3 DEF OptimizerFails, TornInv, Stuck
<1>11. SnapshotsExact'
  BY DEF IInv, OptimizerFails, SnapshotsExact
<1> QED BY <1>6, <1>7, <1>8, <1>9, <1>10, <1>11 DEF IInv

(* What an applied update establishes, evaluated or not.                    *)
LEMMA ApplyFacts ==
    ASSUME IInv, NEW n \in BatchSizes, ApplyUpdate(n)
    PROVE  /\ Summed(n) /\ Contribute(n) /\ live /\ ~overflowed
           /\ completed \in 0 .. FullUpdates
           /\ completed' \in 1 .. TotalUpdates
           /\ consumed' = consumed + Required
           /\ consumed' = ConsumedAfter(completed')
           /\ consumed' \in Cursor /\ consumed < consumed'
           /\ CursorInv' <=> \A e \in evaluations' : e <= consumed'
           /\ accumulated' = 0 /\ lastUpdate' = completed'
           /\ gradient' = Window(consumed', 0) /\ gradient' \in Bag
           /\ rng' = FirstTargets(consumed') /\ rng' \in Bag
           /\ Required' >= 1
           /\ Updated(n) \in Backend
           /\ Updated(n).learned = FirstTargets(consumed')
           /\ Updated(n).step = completed'
           /\ Updated(n).chain = rng'
           /\ Updated(n).torn => EvaluationMissing
<1>0. TypeOK /\ CursorInv /\ Summed(n) /\ Contribute(n) /\ ~overflowed
  BY DEF IInv, ApplyUpdate, Summed
<1>1. /\ n \in Nat /\ n >= 1 /\ live /\ completed <= FullUpdates
      /\ Advanced(n) \in Backend
      /\ Advanced(n).learned = backend.learned
      /\ Advanced(n).torn = backend.torn
  BY <1>0, ContributeFacts
<1>2. /\ consumed \in Nat /\ accumulated \in Nat /\ completed \in Nat
      /\ Required \in 1 .. TargetsPerFullUpdate
      /\ consumed + Required = ConsumedAfter(completed + 1)
      /\ consumed + Required \in Cursor
      /\ completed + 1 \in 1 .. TotalUpdates
  BY <1>0, <1>1, Numbers
<1>3. /\ accumulated + n = Required
      /\ consumed' = consumed + Required
      /\ completed' = completed + 1
      /\ accumulated' = 0
      /\ gradient' = Nothing
      /\ lastUpdate' = completed + 1
  BY DEF ApplyUpdate
<1>4. completed \in 0 .. FullUpdates
  BY <1>1, <1>2, PlanTypes
<1>5. consumed' \in Nat /\ consumed < consumed'
  BY <1>2, <1>3
<1>6. consumed + accumulated + n = consumed'
  BY <1>1, <1>2, <1>3
<1>7. rng' = FirstTargets(consumed') /\ rng' \in Bag
  BY <1>0, <1>6, SummedFacts
<1>8. gradient' = Window(consumed', 0) /\ gradient' \in Bag
  BY <1>3, <1>5, BagFacts
<1>9. Required' \in Nat /\ Required' >= 1
  BY PlanTypes DEF Required, UpdateTargetCount
<1>10. AddAll(Advanced(n).learned, AddWindow(gradient, consumed + accumulated, n))
          = FirstTargets(consumed')
  <2>1. Advanced(n).learned = FirstTargets(consumed)
    BY <1>1 DEF IInv, LearnedInv
  <2>2. AddWindow(gradient, consumed + accumulated, n) = Window(consumed, Required)
    BY <1>0, <1>3, SummedFacts
  <2> QED BY <2>1, <2>2, <1>2, <1>3, WindowSums
<1>11. /\ Updated(n) \in Backend
       /\ Updated(n).learned = FirstTargets(consumed')
       /\ Updated(n).step = completed'
       /\ Updated(n).chain = Advanced(n).chain
       /\ Updated(n).torn = backend.torn
  <2>1. FirstTargets(consumed') \in Bag
    BY <1>5, BagFacts
  <2>2. Updated(n) = [Advanced(n) EXCEPT !.learned = FirstTargets(consumed'),
                                         !.step = completed']
    BY <1>1, <1>3, <1>10 DEF Updated
  <2>3. completed' \in Nat
    BY <1>2, <1>3
  <2> DEFINE b == Advanced(n)
             bag == FirstTargets(consumed')
             k == completed'
  <2>4. b \in Backend /\ bag \in Bag /\ k \in Nat /\ b.torn = backend.torn
        /\ Updated(n) = [b EXCEPT !.learned = bag, !.step = k]
    BY <1>1, <2>1, <2>2, <2>3
  <2> HIDE DEF b, bag, k
  <2>5. /\ [b EXCEPT !.learned = bag, !.step = k] \in Backend
        /\ [b EXCEPT !.learned = bag, !.step = k].learned = bag
        /\ [b EXCEPT !.learned = bag, !.step = k].step = k
        /\ [b EXCEPT !.learned = bag, !.step = k].chain = b.chain
        /\ [b EXCEPT !.learned = bag, !.step = k].torn = b.torn
    BY <2>4 DEF Backend
  <2> QED BY <2>4, <2>5 DEF b, bag, k
<1>12. Updated(n).chain = rng'
  BY <1>0, <1>11, SummedFacts
<1>13. Updated(n).torn => EvaluationMissing
  BY <1>0, <1>11, SummedFacts
<1>14. CursorInv' <=> \A e \in evaluations' : e <= consumed'
  BY <1>2, <1>3, <1>9 DEF CursorInv
<1> QED BY <1>0, <1>1, <1>2, <1>3, <1>4, <1>5, <1>7, <1>8, <1>9, <1>11, <1>12,
           <1>13, <1>14

(* An update whose evaluation, if it owes one, succeeds.                    *)
LEMMA CompleteUpdateStep ==
    ASSUME IInv, NEW n \in BatchSizes, CompleteUpdate(n)
    PROVE  IInv'
<1>0. TypeOK /\ CursorInv /\ ApplyUpdate(n)
  BY DEF IInv, CompleteUpdate
<1>1. backend' = Updated(n) /\ live' = live /\ overflowed' = overflowed /\ handed' = handed
  BY DEF CompleteUpdate
<1>2. consumed \in Nat /\ consumed' \in Nat /\ consumed' \in Cursor /\ consumed < consumed'
      /\ consumed' = consumed + Required
  BY <1>0, Numbers, ApplyFacts DEF Cursor
<1>3. evaluations' \subseteq evaluations \cup {consumed'}
  BY <1>2 DEF CompleteUpdate
<1>4. TypeOK'
  <2>1. evaluations' \in SUBSET Cursor
    BY <1>0, <1>2, <1>3 DEF TypeOK
  <2>2. completed' \in 0 .. TotalUpdates /\ lastUpdate' \in 0 .. TotalUpdates
    BY <1>0, ApplyFacts, TotalTargetsType
  <2>3. accumulated' \in 0 .. TargetsPerFullUpdate
    BY <1>0, ApplyFacts, PlanTypes
  <2> QED BY <1>0, <1>1, <1>2, <2>1, <2>2, <2>3, ApplyFacts DEF TypeOK
<1>5. CursorInv'
  <2>1. \A e \in evaluations : e \in Nat /\ e <= consumed
    BY <1>0 DEF CursorInv, TypeOK, Cursor
  <2>2. \A e \in evaluations' : e <= consumed'
    BY <1>2, <1>3, <2>1
  <2> QED BY <1>0, <2>2, ApplyFacts
<1>6. SumsInv'
  BY <1>0, <1>1, <1>2, ApplyFacts DEF SumsInv
<1>7. LearnedInv'
  BY <1>0, <1>1, ApplyFacts DEF LearnedInv
<1>8. TornInv'
  BY <1>0, <1>1, <1>2, <1>3, ApplyFacts, MissingStays DEF TornInv
<1>9. SnapshotsExact'
  BY <1>1 DEF IInv, SnapshotsExact
<1> QED BY <1>4, <1>5, <1>6, <1>7, <1>8, <1>9 DEF IInv

(* An update without the evaluation it owed: the schedule the snapshot is   *)
(* validated against is the one that called for the evaluation.             *)
LEMMA EvaluationFailsStep ==
    ASSUME IInv, NEW n \in BatchSizes, EvaluationFails(n)
    PROVE  IInv'
<1>0. TypeOK /\ CursorInv /\ ApplyUpdate(n)
  BY DEF IInv, EvaluationFails
<1>1. overflowed' = overflowed /\ handed' = handed /\ evaluations' = evaluations
  BY DEF EvaluationFails
<1>2. consumed \in Nat /\ consumed' \in Nat /\ consumed' \in Cursor /\ consumed < consumed'
      /\ consumed' = consumed + Required
  BY <1>0, Numbers, ApplyFacts DEF Cursor
<1>3. PICK t \in BOOLEAN : backend' = [Updated(n) EXCEPT !.torn = @ \/ t]
  BY DEF EvaluationFails
<1>4. /\ backend' \in Backend
      /\ backend'.learned = Updated(n).learned
      /\ backend'.step = Updated(n).step
      /\ backend'.chain = Updated(n).chain
  <2>1. Updated(n) \in Backend
    BY <1>0, ApplyFacts
  <2> QED BY <1>3, <2>1 DEF Backend
<1>5. TypeOK'
  <2>1. completed' \in 0 .. TotalUpdates /\ lastUpdate' \in 0 .. TotalUpdates
    BY <1>0, ApplyFacts, TotalTargetsType
  <2>2. accumulated' \in 0 .. TargetsPerFullUpdate
    BY <1>0, ApplyFacts, PlanTypes
  <2>3. live' \in BOOLEAN
    BY TrainerAssumption DEF EvaluationFails, ReturnError
  <2> QED BY <1>0, <1>1, <1>2, <1>4, <2>1, <2>2, <2>3, ApplyFacts DEF TypeOK
<1>6. \A e \in evaluations : e \in Nat /\ e <= consumed
  BY <1>0 DEF CursorInv, TypeOK, Cursor
<1>7. CursorInv'
  BY <1>0, <1>1, <1>2, <1>6, ApplyFacts
<1>8. SumsInv'
  BY <1>0, <1>1, <1>2, <1>4, ApplyFacts DEF SumsInv
<1>9. LearnedInv'
  BY <1>0, <1>4, ApplyFacts DEF LearnedInv
<1>10. TornInv'
  <2>1. completed' \in 1 .. TotalUpdates /\ completed' - 1 = completed
        /\ consumed = ConsumedAfter(completed) /\ consumed' = ConsumedAfter(completed')
    BY <1>0, ApplyFacts DEF ApplyUpdate, CursorInv
  <2>2. EventBoundaryCrossed(consumed, consumed')
    BY <1>2 DEF EvaluationFails
  <2>3. consumed' \in EvaluationPositions
    BY <2>1, <2>2, ScheduleFormulationsAgree
  <2>4. consumed' \in ExpectedEvaluations(consumed')
    BY <1>2, <2>3 DEF ExpectedEvaluations
  <2>5. consumed' \notin evaluations'
    BY <1>1, <1>2, <1>6
  <2> QED BY <2>4, <2>5 DEF TornInv, EvaluationMissing
<1>11. SnapshotsExact'
  BY <1>1 DEF IInv, SnapshotsExact
<1> QED BY <1>5, <1>7, <1>8, <1>9, <1>10, <1>11 DEF IInv

(* A trainer that passes snapshot's checks is where the canonical run is.   *)
LEMMA SnapshotIsCanonical ==
    ASSUME IInv, TakeSnapshot
    PROVE  SnapshotNow \in Snapshot /\ SnapshotNow = CanonicalSnapshot(completed)
<1>0. TypeOK /\ CursorInv /\ live /\ accumulated = 0
  BY DEF IInv, TakeSnapshot
<1>1. consumed \in Nat /\ Required >= 1
  BY <1>0, Numbers
<1>2. lastUpdate = completed /\ evaluations = ExpectedEvaluations(consumed)
      /\ consumed = ConsumedAfter(completed)
  BY DEF TakeSnapshot, SnapshotValid, SnapshotNow
<1>3. rng = FirstTargets(consumed) /\ backend.chain = FirstTargets(consumed)
  <2>1. ~overflowed
    BY <1>0 DEF IInv, SumsInv
  <2>2. consumed + accumulated = consumed
    BY <1>0, <1>1
  <2> QED BY <1>0, <2>1, <2>2 DEF IInv, SumsInv
<1>4. backend.learned = FirstTargets(consumed) /\ backend.step = completed
  BY <1>0 DEF IInv, LearnedInv
<1>5. ~Stuck
  BY <1>0, <1>1 DEF Stuck
<1>6. ~EvaluationMissing
  BY <1>2 DEF EvaluationMissing
<1>7. backend.torn = FALSE
  BY <1>0, <1>5, <1>6 DEF IInv, TornInv, TypeOK, Backend
<1>8. backend = [learned |-> FirstTargets(consumed), step |-> completed,
                 torn |-> FALSE, chain |-> FirstTargets(consumed)]
  BY <1>0, <1>3, <1>4, <1>7 DEF TypeOK, Backend
<1>9. SnapshotNow \in Snapshot
  BY <1>0 DEF TypeOK, SnapshotNow, Snapshot
<1> QED BY <1>2, <1>3, <1>8, <1>9 DEF SnapshotNow, CanonicalSnapshot

LEMMA TakeSnapshotStep ==
    ASSUME IInv, TakeSnapshot
    PROVE  IInv'
<1> USE DEF counters, sums
<1>1. handed' = handed \cup {SnapshotNow} /\ SnapshotNow \in Snapshot
      /\ SnapshotNow = CanonicalSnapshot(completed)
      /\ SnapshotNow.completed = completed
  BY SnapshotIsCanonical DEF TakeSnapshot, SnapshotNow
<1>2. TypeOK'
  BY <1>1 DEF IInv, TypeOK, TakeSnapshot
<1>3. CursorInv' /\ SumsInv' /\ LearnedInv'
  BY DEF IInv, CursorInv, SumsInv, LearnedInv, Required, TakeSnapshot
<1>4. TornInv'
  BY DEF IInv, TornInv, Stuck, Required, EvaluationMissing, TakeSnapshot
<1>5. SnapshotsExact'
  BY <1>1 DEF IInv, SnapshotsExact
<1> QED BY <1>2, <1>3, <1>4, <1>5 DEF IInv

(* A new trainer, from nothing or from a snapshot, is at its cursor.        *)
LEMMA StartFreshStep ==
    ASSUME IInv, StartFresh
    PROVE  IInv'
<1> USE PlanTypes, TotalTargetsType
<1>1. ConsumedAfter(0) = 0
  BY ConsumedBounds
<1>2. Nothing \in Bag /\ FirstTargets(0) = Nothing /\ Window(0, 0) = Nothing
  BY BagFacts
<1>3. FreshBackend \in Backend
  BY <1>2 DEF FreshBackend, Backend
<1>4. TypeOK'
  <2>1. 0 \in Cursor /\ 0 \in 0 .. TotalUpdates /\ 0 \in 0 .. TargetsPerFullUpdate
        /\ {0} \in SUBSET Cursor
    BY DEF Cursor
  <2> QED BY <1>2, <1>3, <2>1 DEF IInv, TypeOK, StartFresh
<1>5. CursorInv'
  BY <1>1 DEF StartFresh, CursorInv, Required, UpdateTargetCount, TotalUpdates
<1>6. SumsInv' /\ LearnedInv' /\ TornInv'
  BY <1>2 DEF StartFresh, SumsInv, LearnedInv, TornInv, FreshBackend
<1>7. SnapshotsExact'
  BY DEF IInv, SnapshotsExact, StartFresh
<1> QED BY <1>4, <1>5, <1>6, <1>7 DEF IInv

LEMMA FromSnapshotStep ==
    ASSUME IInv, NEW s \in handed, FromSnapshot(s)
    PROVE  IInv'
<1> USE PlanTypes, TotalTargetsType
<1> DEFINE k == s.completed
           c == ConsumedAfter(k)
<1>1. s \in Snapshot /\ s = CanonicalSnapshot(k)
  BY DEF IInv, TypeOK, SnapshotsExact
<1>2. /\ k \in 0 .. TotalUpdates /\ s.backend \in Backend /\ s.rng \in Bag
      /\ s.consumed \in Cursor /\ s.evaluations \in SUBSET Cursor
      /\ s.lastUpdate \in 0 .. TotalUpdates
  BY <1>1 DEF Snapshot
<1> HIDE DEF k
<1>3. /\ s.consumed = c /\ s.lastUpdate = k /\ s.rng = FirstTargets(c)
      /\ s.evaluations = ExpectedEvaluations(c)
      /\ s.backend.learned = FirstTargets(c) /\ s.backend.step = k
      /\ s.backend.torn = FALSE /\ s.backend.chain = FirstTargets(c)
  BY <1>1 DEF CanonicalSnapshot
<1>4. c \in Nat /\ c + 0 = c /\ Window(c, 0) = Nothing /\ Nothing \in Bag
  BY <1>2, ConsumedBounds, BagFacts DEF Cursor
<1>5. /\ live' = TRUE /\ consumed' = s.consumed /\ completed' = k
      /\ accumulated' = 0 /\ gradient' = Nothing /\ overflowed' = FALSE
      /\ rng' = s.rng /\ evaluations' = s.evaluations
      /\ lastUpdate' = s.lastUpdate /\ backend' = s.backend /\ handed' = handed
  BY DEF FromSnapshot, k
<1>6. TypeOK'
  <2>1. 0 \in 0 .. TargetsPerFullUpdate
    OBVIOUS
  <2> QED BY <1>2, <1>4, <1>5, <2>1 DEF IInv, TypeOK
<1>7. CursorInv'
  <2>1. \A e \in ExpectedEvaluations(c) : e <= c
    BY <1>4 DEF ExpectedEvaluations
  <2>2. Required' \in Nat /\ accumulated' <= Required'
    BY <1>5 DEF Required, UpdateTargetCount
  <2> QED BY <1>3, <1>5, <2>1, <2>2 DEF CursorInv
<1>8. SumsInv' /\ LearnedInv' /\ TornInv'
  BY <1>3, <1>4, <1>5 DEF SumsInv, LearnedInv, TornInv
<1>9. SnapshotsExact'
  BY <1>5 DEF IInv, SnapshotsExact
<1> QED BY <1>6, <1>7, <1>8, <1>9 DEF IInv

-----------------------------------------------------------------------------
LEMMA InitInv == Init => IInv
<1> USE PlanTypes, TotalTargetsType
<1> SUFFICES ASSUME Init PROVE IInv
  OBVIOUS
<1>1. ConsumedAfter(0) = 0
  BY ConsumedBounds
<1>2. Nothing \in Bag /\ FirstTargets(0) = Nothing /\ Window(0, 0) = Nothing
  BY BagFacts
<1>3. FreshBackend \in Backend
  BY <1>2 DEF FreshBackend, Backend
<1>4. TypeOK
  <2>1. 0 \in Cursor /\ 0 \in 0 .. TotalUpdates /\ 0 \in 0 .. TargetsPerFullUpdate
        /\ {0} \in SUBSET Cursor
    BY DEF Cursor
  <2>2. {} \in SUBSET Snapshot
    OBVIOUS
  <2> QED BY <1>2, <1>3, <2>1, <2>2 DEF Init, TypeOK
<1>5. CursorInv
  BY <1>1 DEF Init, CursorInv, Required, UpdateTargetCount, TotalUpdates
<1>6. SumsInv /\ LearnedInv /\ TornInv /\ SnapshotsExact
  BY <1>2 DEF Init, SumsInv, LearnedInv, TornInv, FreshBackend, SnapshotsExact
<1> QED BY <1>4, <1>5, <1>6 DEF IInv

LEMMA NextInv ==
    ASSUME CallerRespectsErrors
    PROVE  IInv /\ [Next]_vars => IInv'
<1> SUFFICES ASSUME IInv, [Next]_vars PROVE IInv'
  OBVIOUS
<1>1. live \in BOOLEAN
  BY DEF IInv, TypeOK
<1>2. ASSUME NEW n \in BatchSizes, AccumulateFails(n) PROVE IInv'
  BY <1>2, TrainerAssumption, KeepsState DEF AccumulateFails, ReturnError
<1>3. ASSUME NEW n \in BatchSizes, ProcessBatch(n) PROVE IInv'
  BY <1>2, <1>3, ContributionRefusedStep, LayoutMismatchStep, GradientOverflowsStep,
     AccumulateStep, OptimizerFailsStep, CompleteUpdateStep, EvaluationFailsStep
     DEF ProcessBatch
<1>4. ASSUME NEW first \in Cursor, NEW n \in BatchSizes, RejectBatch(first, n) PROVE IInv'
  BY <1>4, TrainerAssumption, KeepsState DEF RejectBatch, ReturnError
<1>5. CASE EvaluateNowFails
  BY <1>5, EvaluateNowFailsStep
<1>6. CASE TakeSnapshot
  BY <1>6, TakeSnapshotStep
<1>7. CASE SnapshotRefused
  BY <1>7, TrainerAssumption, KeepsState DEF SnapshotRefused, ReturnError
<1>8. CASE Drop
  BY <1>8, KeepsState DEF Drop
<1>9. CASE StartFresh
  BY <1>9, StartFreshStep
<1>10. ASSUME NEW s \in handed, FromSnapshot(s) PROVE IInv'
  BY <1>10, FromSnapshotStep
<1>11. CASE UNCHANGED vars
  BY <1>1, <1>11, KeepsState DEF vars
<1> QED BY <1>3, <1>4, <1>5, <1>6, <1>7, <1>8, <1>9, <1>10, <1>11 DEF Next

LEMMA Invariance ==
    ASSUME CallerRespectsErrors
    PROVE  Spec => []IInv
<1>1. IInv /\ [Next]_vars => IInv'
  BY NextInv
<1> QED BY <1>1, InitInv, PTL DEF Spec

(* Type correctness, for every plan; in particular no sequence of batches,  *)
(* failures and resumes takes the cursor past the end of the run.           *)
THEOREM TrainerTypeCorrect ==
    ASSUME CallerRespectsErrors
    PROVE  Spec => []TypeOK
<1>1. IInv => TypeOK
  BY DEF IInv
<1> QED BY <1>1, Invariance, PTL

(* Exact resume: whatever failures, retries, drops and resumes lie behind   *)
(* it, a snapshot is the state of the uninterrupted run at its cursor.      *)
THEOREM EverySnapshotIsExact ==
    ASSUME CallerRespectsErrors
    PROVE  Spec => []SnapshotsExact
<1>1. IInv => SnapshotsExact
  BY DEF IInv
<1> QED BY <1>1, Invariance, PTL

(* The weights of a trainer that would give a snapshot have learned exactly *)
(* the targets below its cursor.                                            *)
THEOREM WeightsStayWithCursor ==
    ASSUME CallerRespectsErrors
    PROVE  Spec => []WeightsMatchCursor
<1>1. ASSUME IInv PROVE WeightsMatchCursor
  <2>1. SUFFICES ASSUME live, ~Fenced
                 PROVE  /\ consumed = ConsumedAfter(completed)
                        /\ backend.learned = FirstTargets(consumed)
                        /\ backend.step = completed
                        /\ lastUpdate = completed
                        /\ ~backend.torn
    BY DEF WeightsMatchCursor
  <2>2. ~Stuck /\ ~EvaluationMissing
    BY <2>1 DEF Fenced, Stuck, EvaluationMissing
  <2> QED BY <1>1, <2>1, <2>2 DEF IInv, CursorInv, LearnedInv, TornInv
<1> QED BY <1>1, Invariance, PTL

(* Every position an evaluation is asked for is the end of an update.       *)
LEMMA PositionsAreUpdateEnds ==
    ASSUME NEW q \in EvaluationPositions
    PROVE  \E v \in 0 .. TotalUpdates : q = ConsumedAfter(v)
<1> USE PlanTypes, TotalTargetsType
<1>1. PICK k \in 1 .. (TotalTargets \div EventInterval) :
          q = ConsumedAfter(FirstUpdateReaching(k * EventInterval))
  BY DEF EvaluationPositions
<1> DEFINE y == k * EventInterval + TargetsPerFullUpdate - 1
           w == y \div TargetsPerFullUpdate
<1>2. k \in Nat
  BY DivideBounds
<1>3. y \in Nat
  BY <1>2, ProductMonotone
<1>4. w \in Nat
  BY <1>3, DivideBounds
<1>5. FirstUpdateReaching(k * EventInterval) \in 0 .. TotalUpdates
  BY <1>4 DEF FirstUpdateReaching
<1> QED BY <1>1, <1>5

(* No position lies inside an update, so the record changes exactly when    *)
(* the schedule asks for the update's end.                                  *)
THEOREM ScheduleStaysComplete ==
    ASSUME CallerRespectsErrors
    PROVE  Spec => UpdateKeepsSchedule
<1>1. ASSUME IInv, [Next]_vars
      PROVE  [\A n \in BatchSizes :
                 CompleteUpdate(n) /\ evaluations = ExpectedEvaluations(consumed)
                     => evaluations' = ExpectedEvaluations(consumed')]_vars
  <2>1. SUFFICES ASSUME NEW n \in BatchSizes, CompleteUpdate(n),
                        evaluations = ExpectedEvaluations(consumed)
                 PROVE  evaluations' = ExpectedEvaluations(consumed')
    OBVIOUS
  <2>2. /\ ApplyUpdate(n) /\ completed \in 0 .. FullUpdates /\ completed' \in 1 .. TotalUpdates
        /\ consumed' = consumed + Required /\ consumed' = ConsumedAfter(completed')
        /\ consumed < consumed'
    BY <1>1, <2>1, ApplyFacts DEF CompleteUpdate
  <2>3. consumed = ConsumedAfter(completed) /\ consumed \in Nat
    BY <1>1 DEF IInv, TypeOK, CursorInv, Cursor
  <2>4. completed' = completed + 1
    BY <2>2 DEF ApplyUpdate
  <2>5. EventBoundaryCrossed(consumed, consumed') <=> consumed' \in EvaluationPositions
    <3>1. completed' - 1 = completed
      BY <2>2, <2>4
    <3> QED BY <2>2, <2>3, <3>1, ScheduleFormulationsAgree
  <2>6. ASSUME NEW q \in EvaluationPositions
        PROVE  q <= consumed' <=> q <= consumed \/ q = consumed'
    <3>1. PICK v \in 0 .. TotalUpdates : q = ConsumedAfter(v)
      BY PositionsAreUpdateEnds
    <3>2. q \in Nat /\ consumed' \in Nat
      BY <2>2, <3>1, ConsumedBounds, TotalTargetsType DEF Cursor
    <3>3. completed \in 0 .. TotalUpdates /\ completed' \in 0 .. TotalUpdates
      BY <2>2, PlanTypes DEF TotalUpdates
    <3>4. CASE v <= completed
      BY <2>2, <2>3, <3>1, <3>2, <3>3, <3>4, ConsumedMonotone
    <3>5. CASE v >= completed'
      <4>1. consumed' <= q
        BY <2>2, <3>1, <3>3, <3>5, ConsumedMonotone
      <4> QED BY <2>2, <2>3, <3>2, <4>1
    <3> QED BY <2>4, <3>3, <3>4, <3>5
  <2>7. ExpectedEvaluations(consumed') =
            IF consumed' \in EvaluationPositions
            THEN ExpectedEvaluations(consumed) \cup {consumed'}
            ELSE ExpectedEvaluations(consumed)
    BY <2>2, <2>3, <2>6 DEF ExpectedEvaluations
  <2> QED BY <2>1, <2>2, <2>5, <2>7 DEF CompleteUpdate
<1> QED BY <1>1, Invariance, PTL DEF Spec, UpdateKeepsSchedule

(* The trainer implements the canonical run: each of its steps is a         *)
(* completed update, a snapshot, a restart, or nothing at all.              *)
THEOREM TrainerImplementsCanonicalRun ==
    ASSUME CallerRespectsErrors
    PROVE  Spec => ImplementsCanonicalRun
<1>1. Init => Canon!Init
  BY DEF Init, Canon!Init
<1>2. ASSUME IInv, [Next]_vars PROVE [Canon!Next]_<<completed, handed>>
  <2> USE DEF counters, sums
  <2>1. ASSUME NEW n \in BatchSizes, CompleteUpdate(n) \/ EvaluationFails(n)
        PROVE  Canon!CompleteUpdate
    <3>1. ApplyUpdate(n) /\ handed' = handed
      BY <2>1 DEF CompleteUpdate, EvaluationFails
    <3>2. completed \in 0 .. FullUpdates
      BY <1>2, <3>1, ApplyFacts
    <3>3. completed' = completed + 1
      BY <3>1 DEF ApplyUpdate
    <3> QED BY <3>1, <3>2, <3>3, PlanTypes DEF Canon!CompleteUpdate, TotalUpdates
  <2>2. ASSUME NEW n \in BatchSizes, ProcessBatch(n)
        PROVE  Canon!CompleteUpdate \/ UNCHANGED <<completed, handed>>
    BY <2>1, <2>2 DEF ProcessBatch, AccumulateFails, ContributionRefused,
       LayoutMismatch, GradientOverflows, Accumulate, OptimizerFails
  <2>3. CASE TakeSnapshot
    BY <1>2, <2>3, SnapshotIsCanonical DEF TakeSnapshot, Canon!HandOut, Canon!Next
  <2>4. CASE StartFresh
    BY <2>4 DEF StartFresh, Canon!Restart, Canon!Next
  <2>5. ASSUME NEW s \in handed, FromSnapshot(s) PROVE Canon!Next
    <3>1. s = CanonicalSnapshot(s.completed) /\ s.completed \in 0 .. TotalUpdates
      BY <1>2 DEF IInv, SnapshotsExact, TypeOK, Snapshot
    <3> QED BY <2>5, <3>1 DEF FromSnapshot, Canon!Restart, Canon!Next
  <2> QED BY <1>2, <2>2, <2>3, <2>4, <2>5 DEF Next, vars, RejectBatch,
          EvaluateNowFails, SnapshotRefused, Drop, Canon!Next
<1> QED BY <1>1, <1>2, Invariance, PTL DEF Spec, ImplementsCanonicalRun, Canon!Spec
=============================================================================
