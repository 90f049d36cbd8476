------------------------- MODULE AcquisitionProofs -------------------------
(***************************************************************************)
(* What a published tree holds, for all configurations, inputs, answers of *)
(* the origins, and numbers of processes, kills and replaced files.        *)
(***************************************************************************)
EXTENDS Acquisition, WellFoundedInduction, FiniteSetTheorems, SequenceTheorems, TLAPS

-----------------------------------------------------------------------------
(* Induction, for a set of naturals.                                        *)
LessThan == OpToRel(<, Nat)

LEMMA AllNaturals ==
    ASSUME NEW S, 0 \in S, \A n \in Nat : n \in S => n + 1 \in S
    PROVE  \A n \in Nat : n \in S
<1> DEFINE left == {n \in Nat : n \notin S}
<1>1. SUFFICES ASSUME left # {} PROVE FALSE
  OBVIOUS
<1>2. IsWellFoundedOn(LessThan, Nat)
  BY NatLessThanWellFounded DEF OpToRel, LessThan
<1>3. PICK n \in left : \A m \in left : ~ (<<m, n>> \in LessThan)
  <2>1. left \subseteq Nat
    OBVIOUS
  <2> HIDE DEF left
  <2> QED BY <1>1, <1>2, <2>1, WFMin
<1>4. n # 0 /\ n - 1 \in Nat /\ n - 1 < n
  OBVIOUS
<1>5. n - 1 \in S
  <2>1. <<n - 1, n>> \in LessThan
    BY <1>4 DEF LessThan, OpToRel
  <2> QED BY <1>3, <1>4, <2>1
<1>6. (n - 1) + 1 \in S /\ (n - 1) + 1 = n
  BY <1>4, <1>5
<1> QED BY <1>6

LEMMA Elements ==
    ASSUME NEW S, NEW s \in Seq(S)
    PROVE  /\ Len(s) \in Nat /\ DOMAIN s = 1 .. Len(s)
           /\ \A i \in 1 .. Len(s) : s[i] \in S
           /\ s = <<>> <=> Len(s) = 0
BY EmptySeq, LenProperties

(* FlattenSeq is the last of the sequences it joins one by one.             *)
Joined(f, ss, n) ==
    f = [i \in 1 .. n |-> IF i = 1 THEN ss[i] ELSE f[i - 1] \o ss[i]]

LEMMA JoinedIs ==
    ASSUME NEW ss, NEW n \in Nat, NEW f,
           DOMAIN f = 1 .. n, f = [i \in 1 .. n |-> f[i]],
           \A i \in 1 .. n : f[i] = IF i = 1 THEN ss[i] ELSE f[i - 1] \o ss[i]
    PROVE  Joined(f, ss, n)
BY DEF Joined

LEMMA JoinedExists ==
    ASSUME NEW ss PROVE \A n \in Nat : \E f : Joined(f, ss, n)
<1> DEFINE S == {n \in Nat : \E f : Joined(f, ss, n)}
<1>1. 0 \in S
  <2> DEFINE e == [i \in 1 .. 0 |-> ss]
  <2>1. /\ DOMAIN e = 1 .. 0 /\ e = [i \in 1 .. 0 |-> e[i]] /\ 0 \in Nat
        /\ \A i \in 1 .. 0 : e[i] = IF i = 1 THEN ss[i] ELSE e[i - 1] \o ss[i]
    OBVIOUS
  <2> HIDE DEF e
  <2>2. Joined(e, ss, 0)
    BY <2>1, JoinedIs
  <2> QED BY <2>2
<1>2. ASSUME NEW n \in Nat, n \in S PROVE n + 1 \in S
  <2>1. PICK f : Joined(f, ss, n)
    BY <1>2
  <2> DEFINE g == [i \in 1 .. n + 1 |->
                      IF i <= n THEN f[i] ELSE IF i = 1 THEN ss[i] ELSE f[i - 1] \o ss[i]]
  <2>2. \A i \in 1 .. n : f[i] = IF i = 1 THEN ss[i] ELSE f[i - 1] \o ss[i]
    BY <2>1 DEF Joined
  <2>3. \A i \in 1 .. n + 1 : g[i] = IF i = 1 THEN ss[i] ELSE g[i - 1] \o ss[i]
    <3>1. ASSUME NEW i \in 1 .. n + 1 PROVE g[i] = IF i = 1 THEN ss[i] ELSE g[i - 1] \o ss[i]
      <4>1. i # 1 => i - 1 \in 1 .. n /\ g[i - 1] = f[i - 1]
        BY <1>2
      <4> QED BY <2>2, <4>1
    <3> QED BY <3>1
  <2>4. Joined(g, ss, n + 1)
    <3>1. DOMAIN g = 1 .. n + 1 /\ g = [i \in 1 .. n + 1 |-> g[i]] /\ n + 1 \in Nat
      OBVIOUS
    <3> HIDE DEF g
    <3> QED BY <2>3, <3>1, JoinedIs
  <2> QED BY <2>4
<1> HIDE DEF S
<1>3. \A n \in Nat : n \in S
  BY <1>1, <1>2, AllNaturals
<1> QED BY <1>3 DEF S

LEMMA FlatIs ==
    ASSUME NEW ss, Len(ss) \in Nat \ {0}
    PROVE  \E f : Joined(f, ss, Len(ss)) /\ Flat(ss) = f[Len(ss)]
<1> DEFINE f == CHOOSE f : f = [i \in 1 .. Len(ss) |-> IF i = 1 THEN ss[i] ELSE f[i - 1] \o ss[i]]
<1>1. Joined(f, ss, Len(ss))
  BY Zenon, JoinedExists DEF Joined
<1>2. Flat(ss) = f[Len(ss)]
  BY DEF Flat, FlattenSeq
<1> QED BY <1>1, <1>2

LEMMA JoinsAgree ==
    ASSUME NEW ss, NEW tt, NEW n \in Nat, NEW m \in Nat, NEW f, NEW g,
           Joined(f, ss, n), Joined(g, tt, m), n <= m, \A i \in 1 .. n : ss[i] = tt[i]
    PROVE  \A i \in 1 .. n : f[i] = g[i]
<1> DEFINE S == {i \in Nat : i \in 1 .. n => f[i] = g[i]}
<1>1. 0 \in S
  OBVIOUS
<1>2. ASSUME NEW i \in Nat, i \in S PROVE i + 1 \in S
  <2>1. SUFFICES ASSUME i + 1 \in 1 .. n PROVE f[i + 1] = g[i + 1]
    OBVIOUS
  <2>2. /\ f[i + 1] = IF i + 1 = 1 THEN ss[i + 1] ELSE f[(i + 1) - 1] \o ss[i + 1]
        /\ g[i + 1] = IF i + 1 = 1 THEN tt[i + 1] ELSE g[(i + 1) - 1] \o tt[i + 1]
    <3>1. i + 1 \in 1 .. m
      BY <2>1
    <3> QED BY <2>1, <3>1 DEF Joined
  <2>3. (i + 1) - 1 = i /\ (i + 1 # 1 => i \in 1 .. n)
    BY <2>1
  <2>4. i + 1 # 1 => f[i] = g[i]
    BY <1>2, <2>3
  <2> QED BY <2>1, <2>2, <2>3, <2>4
<1> HIDE DEF S
<1>3. \A i \in Nat : i \in S
  BY <1>1, <1>2, AllNaturals
<1> QED BY <1>3 DEF S

LEMMA JoinsType ==
    ASSUME NEW S, NEW ss \in Seq(Seq(S)), NEW n \in Nat, n <= Len(ss), NEW f, Joined(f, ss, n)
    PROVE  \A i \in 1 .. n : f[i] \in Seq(S)
<1> DEFINE T == {i \in Nat : i \in 1 .. n => f[i] \in Seq(S)}
<1>0. \A i \in 1 .. n : ss[i] \in Seq(S)
  BY Elements
<1>1. 0 \in T
  OBVIOUS
<1>2. ASSUME NEW i \in Nat, i \in T PROVE i + 1 \in T
  <2>1. SUFFICES ASSUME i + 1 \in 1 .. n PROVE f[i + 1] \in Seq(S)
    OBVIOUS
  <2>2. f[i + 1] = IF i + 1 = 1 THEN ss[i + 1] ELSE f[i] \o ss[i + 1]
    <3>1. (i + 1) - 1 = i
      OBVIOUS
    <3> QED BY <2>1, <3>1 DEF Joined
  <2>3. ss[i + 1] \in Seq(S)
    BY <1>0, <2>1
  <2>4. i + 1 # 1 => f[i] \in Seq(S)
    BY <1>2, <2>1
  <2> QED BY <2>2, <2>3, <2>4, ConcatProperties
<1> HIDE DEF T
<1>3. \A i \in Nat : i \in T
  BY <1>1, <1>2, AllNaturals
<1> QED BY <1>3 DEF T

(* What is flattened is a sequence, and flattening goes on with Append.     *)
LEMMA FlatEmpty == Flat(<<>>) = <<>>
BY EmptySeq DEF Flat, FlattenSeq

LEMMA FlatType ==
    ASSUME NEW S, NEW ss \in Seq(Seq(S)) PROVE Flat(ss) \in Seq(S)
<1>1. CASE ss = <<>>
  BY <1>1, FlatEmpty, EmptySeq
<1>2. CASE ss # <<>>
  <2>1. Len(ss) \in Nat \ {0}
    BY <1>2, Elements
  <2>2. PICK f : Joined(f, ss, Len(ss)) /\ Flat(ss) = f[Len(ss)]
    BY <2>1, FlatIs
  <2> QED BY <2>1, <2>2, JoinsType
<1> QED BY <1>1, <1>2

LEMMA FlatAppend ==
    ASSUME NEW S, NEW ss \in Seq(Seq(S)), NEW s \in Seq(S)
    PROVE  Flat(Append(ss, s)) = Flat(ss) \o s
<1> DEFINE tt == Append(ss, s)
<1>1. /\ Len(ss) \in Nat /\ Len(tt) = Len(ss) + 1 /\ Len(tt) \in Nat \ {0}
      /\ \A i \in 1 .. Len(ss) : tt[i] = ss[i]
      /\ tt[Len(ss) + 1] = s
  BY AppendProperties, Elements
<1> HIDE DEF tt
<1>2. PICK g : Joined(g, tt, Len(tt)) /\ Flat(tt) = g[Len(tt)]
  BY <1>1, FlatIs
<1>3. g[Len(tt)] = IF Len(tt) = 1 THEN s ELSE g[Len(ss)] \o s
  <2>1. Len(tt) \in 1 .. Len(tt) /\ Len(tt) - 1 = Len(ss)
    BY <1>1
  <2> QED BY <1>1, <1>2, <2>1 DEF Joined
<1>4. CASE ss = <<>>
  <2>1. Len(tt) = 1 /\ Flat(ss) = <<>>
    BY <1>1, <1>4, FlatEmpty, EmptySeq
  <2> QED BY <1>2, <1>3, <2>1, ConcatEmptySeq DEF tt
<1>5. CASE ss # <<>>
  <2>1. Len(ss) \in Nat \ {0}
    BY <1>5, Elements
  <2>2. PICK f : Joined(f, ss, Len(ss)) /\ Flat(ss) = f[Len(ss)]
    BY <2>1, FlatIs
  <2>3. f[Len(ss)] = g[Len(ss)]
    <3> DEFINE n == Len(ss)
               m == Len(tt)
    <3>1. /\ n \in Nat /\ m \in Nat /\ n <= m /\ n \in 1 .. n
          /\ \A i \in 1 .. n : ss[i] = tt[i]
      BY <1>1, <2>1
    <3>2. Joined(f, ss, n) /\ Joined(g, tt, m)
      BY <1>2, <2>2
    <3> HIDE DEF n, m
    <3>3. \A i \in 1 .. n : f[i] = g[i]
      BY SMTT(60), <3>1, <3>2, JoinsAgree
    <3> QED BY <3>1, <3>3 DEF n
  <2>4. Len(tt) # 1
    BY <1>1, <2>1
  <2> QED BY <1>2, <1>3, <2>2, <2>3, <2>4 DEF tt
<1> QED BY <1>4, <1>5

LEMMA FlatOne ==
    ASSUME NEW S, NEW s \in Seq(S) PROVE Flat(<<s>>) = s
<1>1. <<>> \in Seq(Seq(S)) /\ Append(<<>>, s) = <<s>>
  BY EmptySeq
<1>2. Flat(<<s>>) = <<>> \o s
  BY <1>1, FlatAppend, FlatEmpty
<1> QED BY <1>2, ConcatEmptySeq

(* Induction, for a set of sequences.                                       *)
LEMMA AllSequences ==
    ASSUME NEW S, NEW P, <<>> \in P,
           \A s \in Seq(S) : \A e \in S : s \in P => Append(s, e) \in P
    PROVE  \A s \in Seq(S) : s \in P
<1> DEFINE T == {n \in Nat : \A s \in Seq(S) : Len(s) = n => s \in P}
<1>1. 0 \in T
  BY Elements
<1>2. ASSUME NEW n \in Nat, n \in T PROVE n + 1 \in T
  <2>1. SUFFICES ASSUME NEW s \in Seq(S), Len(s) = n + 1 PROVE s \in P
    OBVIOUS
  <2>2. s # <<>>
    BY <2>1, EmptySeq
  <2>3. PICK front \in Seq(S), e \in S : s = Append(front, e)
    BY <2>2, SequenceEmptyOrAppend
  <2>4. Len(front) = n
    BY <2>1, <2>3, AppendProperties, Elements
  <2> QED BY <1>2, <2>3, <2>4
<1> HIDE DEF T
<1>3. \A n \in Nat : n \in T
  BY <1>1, <1>2, AllNaturals
<1> QED BY <1>3, Elements DEF T

LEMMA AppendToConcat ==
    ASSUME NEW S, NEW a \in Seq(S), NEW b \in Seq(S), NEW e \in S
    PROVE  a \o Append(b, e) = Append(a \o b, e)
<1>1. <<e>> \in Seq(S)
  BY EmptySeq, AppendProperties
<1>2. Append(b, e) = b \o <<e>> /\ Append(a \o b, e) = (a \o b) \o <<e>>
  BY AppendIsConcat, ConcatProperties
<1> QED BY <1>1, <1>2, ConcatAssociative

LEMMA FlatConcat ==
    ASSUME NEW S, NEW a \in Seq(Seq(S)), NEW b \in Seq(Seq(S))
    PROVE  Flat(a \o b) = Flat(a) \o Flat(b)
<1> DEFINE P == {c \in Seq(Seq(S)) : Flat(a \o c) = Flat(a) \o Flat(c)}
<1>1. <<>> \in P
  BY ConcatEmptySeq, FlatEmpty, FlatType, EmptySeq
<1>2. ASSUME NEW c \in Seq(Seq(S)), NEW s \in Seq(S), c \in P PROVE Append(c, s) \in P
  <2>0. a \o Append(c, s) = Append(a \o c, s)
    BY SMTT(60), AppendToConcat
  <2>1. a \o Append(c, s) = Append(a \o c, s) /\ a \o c \in Seq(Seq(S))
    BY <2>0, ConcatProperties
  <2>2. Flat(a \o Append(c, s)) = Flat(a \o c) \o s
    BY <2>1, FlatAppend
  <2>3. Flat(Append(c, s)) = Flat(c) \o s
    BY FlatAppend
  <2>4. Flat(a) \in Seq(S) /\ Flat(c) \in Seq(S)
    BY FlatType
  <2>5. (Flat(a) \o Flat(c)) \o s = Flat(a) \o (Flat(c) \o s)
    BY SMTT(60), <2>4, ConcatAssociative
  <2>6. Append(c, s) \in Seq(Seq(S))
    BY AppendProperties
  <2> QED BY <1>2, <2>2, <2>3, <2>5, <2>6
<1> HIDE DEF P
<1>3. \A c \in Seq(Seq(S)) : c \in P
  BY <1>1, <1>2, AllSequences
<1> QED BY <1>3 DEF P

(* Generations that are all full, and what is left over.                    *)
LEMMA FlatOfFull ==
    ASSUME NEW S, NEW size \in Nat, NEW gs \in Seq(Seq(S)),
           \A g \in 1 .. Len(gs) : Len(gs[g]) = size
    PROVE  Len(Flat(gs)) = Len(gs) * size
<1> DEFINE P == {c \in Seq(Seq(S)) :
                    (\A g \in 1 .. Len(c) : Len(c[g]) = size) => Len(Flat(c)) = Len(c) * size}
<1>1. <<>> \in P
  BY FlatEmpty, EmptySeq
<1>2. ASSUME NEW c \in Seq(Seq(S)), NEW s \in Seq(S), c \in P PROVE Append(c, s) \in P
  <2>1. SUFFICES ASSUME \A g \in 1 .. Len(Append(c, s)) : Len(Append(c, s)[g]) = size
                 PROVE  Len(Flat(Append(c, s))) = Len(Append(c, s)) * size
    BY AppendProperties
  <2>2. /\ Len(c) \in Nat /\ Len(Append(c, s)) = Len(c) + 1
        /\ \A g \in 1 .. Len(c) : Append(c, s)[g] = c[g]
        /\ Append(c, s)[Len(c) + 1] = s
    BY AppendProperties, Elements
  <2>3. Len(s) = size /\ \A g \in 1 .. Len(c) : Len(c[g]) = size
    BY <2>1, <2>2
  <2>4. Len(Flat(c)) = Len(c) * size /\ Flat(c) \in Seq(S)
    BY <1>2, <2>3, FlatType
  <2>5. Len(Flat(Append(c, s))) = Len(Flat(c)) + Len(s)
    BY <2>4, FlatAppend, ConcatProperties
  <2>6. (Len(c) + 1) * size = Len(c) * size + size
    BY <2>2
  <2> QED BY <2>2, <2>3, <2>4, <2>5, <2>6
<1> HIDE DEF P
<1>3. \A c \in Seq(Seq(S)) : c \in P
  BY <1>1, <1>2, AllSequences
<1> QED BY <1>3 DEF P

LEMMA ProductMonotone ==
    ASSUME NEW a \in Nat, NEW b \in Nat, NEW m \in Nat, a <= b
    PROVE  a * m \in Nat /\ b * m \in Nat /\ a * m <= b * m
<1>1. PICK d \in Nat : b = a + d
  <2>1. b - a \in Nat /\ b = a + (b - a)
    OBVIOUS
  <2> QED BY <2>1
<1>2. a * m \in Nat /\ d * m \in Nat
  OBVIOUS
<1>3. b * m = a * m + d * m
  BY <1>1
<1> QED BY <1>2, <1>3

LEMMA Quotients ==
    ASSUME NEW x \in Nat, NEW d \in Nat \ {0}
    PROVE  /\ x \div d \in Nat /\ (x \div d) * d \in Nat
           /\ (x \div d) * d <= x /\ x < (x \div d) * d + d
OBVIOUS

(* The first n pieces of a size.                                            *)
Cut(rows, size, n) == [g \in 1 .. n |-> SubSeq(rows, (g - 1) * size + 1, g * size)]

LEMMA Pieces ==
    ASSUME NEW S, NEW rows \in Seq(S), NEW size \in Nat \ {0}, NEW n \in Nat, n * size <= Len(rows)
    PROVE  /\ Cut(rows, size, n) \in Seq(Seq(S)) /\ Len(Cut(rows, size, n)) = n
           /\ \A g \in 1 .. n : Len(Cut(rows, size, n)[g]) = size
<1> DEFINE cut == Cut(rows, size, n)
<1>1. ASSUME NEW g \in 1 .. n PROVE cut[g] \in Seq(S) /\ Len(cut[g]) = size
  <2> DEFINE from == (g - 1) * size
             to == g * size
  <2>1. from \in Nat /\ to \in Nat /\ to = from + size /\ to <= n * size
    BY ProductMonotone
  <2>2. \A i \in from + 1 .. to : rows[i] \in S
    BY <2>1, Elements
  <2>3. cut[g] = SubSeq(rows, from + 1, to)
    BY DEF Cut
  <2> HIDE DEF from, to
  <2>4. SubSeq(rows, from + 1, to) \in Seq(S) /\ Len(SubSeq(rows, from + 1, to)) = size
    BY <2>1, <2>2, SubSeqProperties
  <2> QED BY <2>3, <2>4
<1>2. cut \in [1 .. n -> Seq(S)]
  BY <1>1 DEF Cut
<1>3. cut \in Seq(Seq(S)) /\ Len(cut) = n
  <2> HIDE DEF cut
  <2> QED BY <1>2
<1> QED BY <1>1, <1>3

LEMMA PiecesJoin ==
    ASSUME NEW S, NEW rows \in Seq(S), NEW size \in Nat \ {0}
    PROVE  \A n \in Nat : n * size <= Len(rows) =>
               Flat(Cut(rows, size, n)) = SubSeq(rows, 1, n * size)
<1> DEFINE P == {n \in Nat : n * size <= Len(rows) =>
                               Flat(Cut(rows, size, n)) = SubSeq(rows, 1, n * size)}
<1>1. 0 \in P
  <2>1. Cut(rows, size, 0) = <<>>
    BY DEF Cut
  <2>2. SubSeq(rows, 1, 0 * size) = <<>>
    BY SubSeqEmpty
  <2> QED BY <2>1, <2>2, FlatEmpty
<1>2. ASSUME NEW n \in Nat, n \in P PROVE n + 1 \in P
  <2>1. ASSUME (n + 1) * size <= Len(rows)
        PROVE  Flat(Cut(rows, size, n + 1)) = SubSeq(rows, 1, (n + 1) * size)
    <3> DEFINE from == n * size
               piece == SubSeq(rows, from + 1, from + size)
    <3>2. from \in Nat /\ (n + 1) * size = from + size /\ from + size <= Len(rows) /\ Len(rows) \in Nat
      BY <2>1, Elements
    <3>3. /\ Cut(rows, size, n) \in Seq(Seq(S)) /\ Len(Cut(rows, size, n)) = n
          /\ Cut(rows, size, n + 1) \in Seq(Seq(S)) /\ Len(Cut(rows, size, n + 1)) = n + 1
      <4>1. n * size <= Len(rows) /\ n + 1 \in Nat
        BY <3>2
      <4> QED BY <2>1, <4>1, Pieces
    <3>4. piece = Cut(rows, size, n + 1)[n + 1]
      BY <3>2 DEF Cut
    <3>5. piece \in Seq(S)
      <4>1. n + 1 \in 1 .. n + 1
        OBVIOUS
      <4> HIDE DEF piece
      <4> QED BY <3>3, <3>4, <4>1, ElementOfSeq
    <3>6. \A g \in 1 .. n : Cut(rows, size, n + 1)[g] = Cut(rows, size, n)[g]
      BY DEF Cut
    <3> HIDE DEF piece
    <3>7. Cut(rows, size, n + 1) = Append(Cut(rows, size, n), piece)
      <4>1. /\ Append(Cut(rows, size, n), piece) \in Seq(Seq(S))
            /\ Len(Append(Cut(rows, size, n), piece)) = n + 1
            /\ \A g \in 1 .. n : Append(Cut(rows, size, n), piece)[g] = Cut(rows, size, n)[g]
            /\ Append(Cut(rows, size, n), piece)[n + 1] = piece
        BY <3>3, <3>5, AppendProperties
      <4>2. ASSUME NEW g \in 1 .. n + 1
            PROVE  Cut(rows, size, n + 1)[g] = Append(Cut(rows, size, n), piece)[g]
        <5>1. CASE g = n + 1
          BY <3>4, <4>1, <5>1
        <5>2. CASE g # n + 1
          <6>1. g \in 1 .. n
            BY <5>2
          <6> QED BY <3>6, <4>1, <6>1
        <5> QED BY <5>1, <5>2
      <4> QED BY <3>3, <4>1, <4>2, SeqEqual
    <3>8. Flat(Cut(rows, size, n + 1)) = Flat(Cut(rows, size, n)) \o piece
      BY <3>3, <3>5, <3>7, FlatAppend
    <3>9. Flat(Cut(rows, size, n)) = SubSeq(rows, 1, from)
      <4>1. n * size <= Len(rows)
        BY <3>2
      <4> QED BY <1>2, <4>1
    <3>10. SubSeq(rows, 1, from) \o piece = SubSeq(rows, 1, from + size)
      <4> HIDE DEF from
      <4>1. 1 \in 1 .. Len(rows) + 1 /\ from \in 1 - 1 .. Len(rows) /\ from + size \in from .. Len(rows)
        BY <3>2
      <4> QED BY <4>1, ConcatAdjacentSubSeq DEF piece
    <3> QED BY <3>2, <3>8, <3>9, <3>10
  <2> QED BY <2>1
<1> HIDE DEF P
<1>3. \A n \in Nat : n \in P
  BY <1>1, <1>2, AllNaturals
<1> QED BY <1>3 DEF P

(* FullGenerations cuts off as many rows as there are full generations of.  *)
LEMMA FullAre ==
    ASSUME NEW S, NEW rows \in Seq(S), NEW size \in Nat \ {0}
    PROVE  LET full == FullGenerations(rows, size)
               n == Len(full) * size
           IN  /\ full \in Seq(Seq(S)) /\ Len(full) \in Nat
               /\ \A g \in 1 .. Len(full) : Len(full[g]) = size
               /\ n \in Nat /\ n <= Len(rows) /\ Len(rows) < n + size
               /\ Flat(full) = SubSeq(rows, 1, n)
<1> DEFINE k == Len(rows) \div size
<1>1. k \in Nat /\ k * size \in Nat /\ k * size <= Len(rows) /\ Len(rows) < k * size + size
  BY Quotients, Elements
<1>2. FullGenerations(rows, size) = Cut(rows, size, k)
  BY DEF FullGenerations, Cut
<1> HIDE DEF k
<1>3. /\ FullGenerations(rows, size) \in Seq(Seq(S)) /\ Len(FullGenerations(rows, size)) = k
      /\ \A g \in 1 .. k : Len(FullGenerations(rows, size)[g]) = size
  BY SMTT(60), <1>1, <1>2, Pieces
<1>4. Flat(FullGenerations(rows, size)) = SubSeq(rows, 1, k * size)
  BY <1>1, <1>2, PiecesJoin
<1> QED BY <1>1, <1>3, <1>4

(* What ListedAsPinned asks of the generations.                             *)
Chunked(gs, size) ==
    \A g \in DOMAIN gs : /\ gs[g] # <<>> /\ Len(gs[g]) <= size
                         /\ g < Len(gs) => Len(gs[g]) = size

LEMMA ChunksAre ==
    ASSUME NEW S, NEW rows \in Seq(S), NEW size \in Nat \ {0}
    PROVE  /\ Chunks(rows, size) \in Seq(Seq(S))
           /\ Flat(Chunks(rows, size)) = rows
           /\ Chunked(Chunks(rows, size), size)
           /\ rows # <<>> => Chunks(rows, size) # <<>>
<1> DEFINE full == FullGenerations(rows, size)
           n == Len(full) * size
           rest == SubSeq(rows, n + 1, Len(rows))
<1>1. /\ full \in Seq(Seq(S)) /\ Len(full) \in Nat /\ DOMAIN full = 1 .. Len(full)
      /\ \A g \in 1 .. Len(full) : full[g] # <<>> /\ Len(full[g]) = size
      /\ n \in Nat /\ n <= Len(rows) /\ Len(rows) < n + size /\ Len(rows) \in Nat
      /\ Flat(full) = SubSeq(rows, 1, n)
  <2>1. Len(rows) \in Nat
    BY Elements
  <2>2. full \in Seq(Seq(S)) /\ \A g \in 1 .. Len(full) : Len(full[g]) = size
    BY FullAre
  <2>3. \A g \in 1 .. Len(full) : full[g] # <<>>
    BY <2>2, EmptySeq
  <2>4. DOMAIN full = 1 .. Len(full)
    BY <2>2, Elements
  <2> QED BY <2>1, <2>2, <2>3, <2>4, FullAre
<1>2. Chunks(rows, size) = IF rest = <<>> THEN full ELSE Append(full, rest)
  BY DEF Chunks
<1> HIDE DEF full
<1>3. rest \in Seq(S) /\ Len(rest) = Len(rows) - n
  <2>1. \A i \in n + 1 .. Len(rows) : rows[i] \in S
    BY <1>1, Elements
  <2> HIDE DEF n
  <2>2. /\ SubSeq(rows, n + 1, Len(rows)) \in Seq(S)
        /\ Len(SubSeq(rows, n + 1, Len(rows))) = IF n + 1 <= Len(rows) THEN Len(rows) - (n + 1) + 1 ELSE 0
    BY <1>1, <2>1, SubSeqProperties
  <2> QED BY <1>1, <2>2
<1>4. CASE rest = <<>>
  <2>1. Len(rest) = 0
    BY <1>4, EmptySeq
  <2>2. n = Len(rows)
    <3> HIDE DEF n, rest
    <3> QED BY <1>1, <1>3, <2>1
  <2>3. Flat(full) = rows
    BY <1>1, <2>2, SubSeqFull
  <2>4. Chunked(full, size)
    BY <1>1 DEF Chunked
  <2>5. rows # <<>> => full # <<>>
    BY <2>3, FlatEmpty
  <2> QED BY <1>1, <1>2, <1>4, <2>3, <2>4, <2>5
<1>5. CASE rest # <<>>
  <2>1. /\ Append(full, rest) \in Seq(Seq(S)) /\ Len(Append(full, rest)) = Len(full) + 1
        /\ Append(full, rest) # <<>>
        /\ \A g \in 1 .. Len(full) : Append(full, rest)[g] = full[g]
        /\ Append(full, rest)[Len(full) + 1] = rest
    <3>1. full \in Seq(Seq(S)) /\ rest \in Seq(S)
      BY <1>1, <1>3
    <3> HIDE DEF rest, n
    <3> QED BY ONLY <3>1, AppendProperties
  <2>2. DOMAIN Append(full, rest) = 1 .. Len(full) + 1
    BY <2>1, Elements
  <2>3. Chunked(Append(full, rest), size)
    <3>1. Len(rest) <= size
      BY <1>1, <1>3
    <3> HIDE DEF rest
    <3> QED BY <1>1, <1>5, <2>1, <2>2, <3>1 DEF Chunked
  <2>4. Flat(Append(full, rest)) = SubSeq(rows, 1, n) \o rest
    <3> HIDE DEF rest
    <3> QED BY <1>1, <1>3, FlatAppend
  <2>5. SubSeq(rows, 1, n) \o rest = SubSeq(rows, 1, Len(rows))
    <3> HIDE DEF n
    <3>1. 1 \in 1 .. Len(rows) + 1 /\ n \in 1 - 1 .. Len(rows) /\ Len(rows) \in n .. Len(rows)
      BY <1>1
    <3> QED BY <3>1, ConcatAdjacentSubSeq
  <2>6. Flat(Append(full, rest)) = rows
    BY <2>4, <2>5, SubSeqFull
  <2> QED BY <1>2, <1>5, <2>1, <2>3, <2>6
<1> QED BY <1>4, <1>5

(* Full generations, and chunks after them.                                 *)
LEMMA ChunkedAfterFull ==
    ASSUME NEW S, NEW size \in Nat \ {0}, NEW gs \in Seq(Seq(S)), NEW cs \in Seq(Seq(S)),
           \A g \in 1 .. Len(gs) : Len(gs[g]) = size, Chunked(cs, size)
    PROVE  Chunked(gs \o cs, size)
<1> DEFINE all == gs \o cs
<1>1. /\ all \in Seq(Seq(S)) /\ Len(all) = Len(gs) + Len(cs) /\ Len(gs) \in Nat /\ Len(cs) \in Nat
      /\ \A i \in 1 .. Len(gs) + Len(cs) : all[i] = IF i <= Len(gs) THEN gs[i] ELSE cs[i - Len(gs)]
  BY ConcatProperties, Elements
<1>2. DOMAIN all = 1 .. Len(gs) + Len(cs) /\ DOMAIN cs = 1 .. Len(cs)
  BY <1>1, Elements
<1> HIDE DEF all
<1>3. ASSUME NEW g \in 1 .. Len(gs) PROVE gs[g] # <<>> /\ Len(gs[g]) = size
  BY EmptySeq
<1>4. ASSUME NEW g \in DOMAIN all
      PROVE  all[g] # <<>> /\ Len(all[g]) <= size /\ (g < Len(all) => Len(all[g]) = size)
  <2>1. CASE g <= Len(gs)
    BY SMTT(60), <1>1, <1>2, <1>3, <2>1
  <2>2. CASE g > Len(gs)
    <3>1. g - Len(gs) \in 1 .. Len(cs) /\ all[g] = cs[g - Len(gs)]
      BY SMTT(60), <1>1, <1>2, <2>2
    <3>2. g < Len(all) => g - Len(gs) < Len(cs)
      BY <1>1, <1>2, <2>2
    <3> QED BY <1>2, <3>1, <3>2 DEF Chunked
  <2> QED BY <1>1, <1>2, <2>1, <2>2
<1> QED BY <1>4 DEF Chunked, all

(* As many identifiers as there are entries.                                *)
Distinct(s) == \A i, k \in DOMAIN s : s[i].id = s[k].id => i = k
IdsOf(s) == {s[i].id : i \in DOMAIN s}

LEMMA DistinctCount ==
    ASSUME NEW S, NEW s \in Seq(S), Distinct(s)
    PROVE  Cardinality({e.id : e \in ToSet(s)}) = Len(s) /\ IsFiniteSet(IdsOf(s))
<1> DEFINE f == [i \in 1 .. Len(s) |-> s[i].id]
<1>1. Len(s) \in Nat /\ DOMAIN s = 1 .. Len(s)
  BY Elements
<1>2. f \in Bijection(1 .. Len(s), IdsOf(s))
  BY <1>1 DEF Distinct, IdsOf, Bijection, Injection, Surjection, IsInjective
<1>3. {e.id : e \in ToSet(s)} = IdsOf(s)
  BY DEF ToSet, IdsOf
<1>4. ExistsBijection(1 .. Len(s), IdsOf(s))
  BY <1>2 DEF ExistsBijection
<1>5. Cardinality(IdsOf(s)) = Len(s)
  BY <1>1, <1>4, FS_CountingElements
<1>6. IsFiniteSet(IdsOf(s))
  BY <1>1, <1>4, FS_NatBijection
<1> QED BY <1>3, <1>5, <1>6

-----------------------------------------------------------------------------
(* The folds.  A fold takes the greatest index that is left, so it adds the *)
(* rows one after the other.                                                *)
LEMMA GreatestIs ==
    ASSUME NEW n \in Nat, NEW s \in SUBSET (1 .. n + 1), n + 1 \in s PROVE Max(s) = n + 1
<1>1. \A y \in s : n + 1 >= y
  OBVIOUS
<1>2. \A x \in s : (\A y \in s : x >= y) => x = n + 1
  OBVIOUS
<1> QED BY <1>1, <1>2 DEF Max

Sums(f, rows, n) ==
    f = [s \in SUBSET (1 .. n) |->
            IF s = {} THEN 0 ELSE f[s \ {Max(s)}] + LengthOf[rows[Max(s)].content]]

LEMMA SumsExist == ASSUME NEW rows PROVE \A n \in Nat : \E f : Sums(f, rows, n)
<1> DEFINE P == {n \in Nat : \E f : Sums(f, rows, n)}
<1>1. 0 \in P
  <2> DEFINE f == [s \in SUBSET (1 .. 0) |-> 0]
  <2>1. \A s \in SUBSET (1 .. 0) : s = {}
    OBVIOUS
  <2>2. Sums(f, rows, 0)
    BY <2>1 DEF Sums
  <2> QED BY <2>2
<1>2. ASSUME NEW n \in Nat, n \in P PROVE n + 1 \in P
  <2>1. PICK f : Sums(f, rows, n)
    BY <1>2
  <2> DEFINE g == [s \in SUBSET (1 .. n + 1) |->
                      IF n + 1 \in s THEN f[s \ {n + 1}] + LengthOf[rows[n + 1].content] ELSE f[s]]
  <2>2. ASSUME NEW s \in SUBSET (1 .. n + 1)
        PROVE  g[s] = IF s = {} THEN 0 ELSE g[s \ {Max(s)}] + LengthOf[rows[Max(s)].content]
    <3>1. CASE n + 1 \in s
      <4>1. Max(s) = n + 1 /\ s \ {n + 1} \in SUBSET (1 .. n + 1) /\ n + 1 \notin s \ {n + 1}
        BY <3>1, GreatestIs
      <4>2. g[s \ {n + 1}] = f[s \ {n + 1}]
        BY <4>1
      <4>3. g[s] = f[s \ {n + 1}] + LengthOf[rows[n + 1].content]
        BY <3>1
      <4> QED BY <3>1, <4>1, <4>2, <4>3
    <3>2. CASE n + 1 \notin s
      <4> DEFINE top == Max(s)
      <4>0. f[s] = IF s = {} THEN 0 ELSE f[s \ {top}] + LengthOf[rows[top].content]
        <5>1. s \in SUBSET (1 .. n)
          BY <3>2
        <5> QED BY <2>1, <5>1 DEF Sums
      <4>5. SUFFICES g[s] = IF s = {} THEN 0 ELSE g[s \ {top}] + LengthOf[rows[top].content]
        OBVIOUS
      <4> HIDE DEF top
      <4>1. s \ {top} \in SUBSET (1 .. n + 1)
        OBVIOUS
      <4>3. n + 1 \notin s \ {top}
        BY <3>2
      <4>2. g[s] = f[s] /\ g[s \ {top}] = f[s \ {top}]
        BY <3>2, <4>1, <4>3
      <4> QED BY <4>0, <4>2
    <3> QED BY <3>1, <3>2
  <2>3. g = [s \in SUBSET (1 .. n + 1) |-> g[s]]
    OBVIOUS
  <2>4. Sums(g, rows, n + 1)
    <3> HIDE DEF g
    <3> QED BY <2>2, <2>3 DEF Sums
  <2> QED BY <2>4
<1> HIDE DEF P
<1>3. \A n \in Nat : n \in P
  BY <1>1, <1>2, AllNaturals
<1> QED BY <1>3 DEF P

LEMMA SumsGoOn ==
    ASSUME NEW rows, NEW n \in Nat, NEW f, Sums(f, rows, n)
    PROVE  /\ f[1 .. 0] = 0
           /\ \A k \in 1 .. n : f[1 .. k] = f[1 .. k - 1] + LengthOf[rows[k].content]
<1>1. f[1 .. 0] = 0
  <2>1. 1 .. 0 = {} /\ 1 .. 0 \in SUBSET (1 .. n)
    OBVIOUS
  <2> QED BY <2>1 DEF Sums
<1>2. ASSUME NEW k \in 1 .. n PROVE f[1 .. k] = f[1 .. k - 1] + LengthOf[rows[k].content]
  <2>1. 1 .. k \in SUBSET (1 .. n) /\ 1 .. k # {} /\ (1 .. k) \ {k} = 1 .. k - 1
    OBVIOUS
  <2>2. Max(1 .. k) = k
    <3>1. k - 1 \in Nat /\ (k - 1) + 1 = k /\ k \in 1 .. k
      OBVIOUS
    <3>2. 1 .. k \in SUBSET (1 .. (k - 1) + 1) /\ (k - 1) + 1 \in 1 .. k
      BY <3>1
    <3>3. Max(1 .. k) = (k - 1) + 1
      BY <3>1, <3>2, GreatestIs
    <3> QED BY <3>1, <3>3
  <2>3. f[1 .. k] = f[(1 .. k) \ {k}] + LengthOf[rows[k].content]
    BY <2>1, <2>2 DEF Sums
  <2> QED BY <2>1, <2>3
<1> QED BY <1>1, <1>2

LEMMA BytesAre ==
    ASSUME NEW S, NEW rows \in Seq(S)
    PROVE  \E f : Sums(f, rows, Len(rows)) /\ BytesOf(rows) = f[1 .. Len(rows)]
<1> DEFINE f == CHOOSE f : f = [s \in SUBSET DOMAIN rows |->
                    IF s = {} THEN 0 ELSE f[s \ {Max(s)}] + LengthOf[rows[Max(s)].content]]
<1>1. DOMAIN rows = 1 .. Len(rows) /\ Len(rows) \in Nat
  BY Elements
<1>2. Sums(f, rows, Len(rows))
  <2>1. \E g : Sums(g, rows, Len(rows))
    BY <1>1, SumsExist
  <2>2. \E g : g = [s \in SUBSET DOMAIN rows |->
                    IF s = {} THEN 0 ELSE g[s \ {Max(s)}] + LengthOf[rows[Max(s)].content]]
    BY <1>1, <2>1 DEF Sums
  <2>3. f = [s \in SUBSET DOMAIN rows |->
                    IF s = {} THEN 0 ELSE f[s \ {Max(s)}] + LengthOf[rows[Max(s)].content]]
    BY <2>2
  <2> HIDE DEF f
  <2> QED BY <1>1, <2>3 DEF Sums
<1>3. BytesOf(rows) = f[DOMAIN rows]
  BY DEF BytesOf, FoldLeft, MapThenFoldSet
<1> QED BY <1>1, <1>2, <1>3

LEMMA SumsAgree ==
    ASSUME NEW rows, NEW other, NEW n \in Nat, NEW m \in Nat, n <= m, NEW f, NEW g,
           Sums(f, rows, n), Sums(g, other, m),
           \A k \in 1 .. n : rows[k].content = other[k].content
    PROVE  f[1 .. n] = g[1 .. n]
<1> DEFINE P == {k \in Nat : k <= n => f[1 .. k] = g[1 .. k]}
<1>0. /\ f[1 .. 0] = 0 /\ g[1 .. 0] = 0
      /\ \A k \in 1 .. n : f[1 .. k] = f[1 .. k - 1] + LengthOf[rows[k].content]
      /\ \A k \in 1 .. m : g[1 .. k] = g[1 .. k - 1] + LengthOf[other[k].content]
  BY ZenonT(60), SumsGoOn
<1>1. 0 \in P
  BY <1>0
<1>2. ASSUME NEW k \in Nat, k \in P PROVE k + 1 \in P
  <2>1. SUFFICES ASSUME k + 1 <= n PROVE f[1 .. k + 1] = g[1 .. k + 1]
    OBVIOUS
  <2>2. k + 1 \in 1 .. n /\ k + 1 \in 1 .. m /\ (k + 1) - 1 = k /\ k <= n
    BY <2>1
  <2>3. f[1 .. k] = g[1 .. k]
    BY <1>2, <2>2
  <2>4. /\ f[1 .. k + 1] = f[1 .. k] + LengthOf[rows[k + 1].content]
        /\ g[1 .. k + 1] = g[1 .. k] + LengthOf[other[k + 1].content]
    BY <1>0, <2>2
  <2>5. rows[k + 1].content = other[k + 1].content
    BY <2>2
  <2> QED BY <2>3, <2>4, <2>5
<1> HIDE DEF P
<1>3. n \in P
  BY <1>1, <1>2, AllNaturals
<1> QED BY <1>3 DEF P

LEMMA BytesSame ==
    ASSUME NEW S, NEW T, NEW rows \in Seq(S), NEW other \in Seq(T), Len(rows) = Len(other),
           \A k \in 1 .. Len(rows) : rows[k].content = other[k].content
    PROVE  BytesOf(rows) = BytesOf(other)
<1>1. PICK n \in Nat : n = Len(rows) /\ n = Len(other)
  BY Elements
<1>2. PICK f : Sums(f, rows, n) /\ BytesOf(rows) = f[1 .. n]
  BY <1>1, BytesAre
<1>3. PICK g : Sums(g, other, n) /\ BytesOf(other) = g[1 .. n]
  BY <1>1, BytesAre
<1>4. \A k \in 1 .. n : rows[k].content = other[k].content
  BY <1>1
<1>5. n <= n
  OBVIOUS
<1>6. Sums(f, rows, n) /\ Sums(g, other, n)
  BY <1>2, <1>3
<1>7. f[1 .. n] = g[1 .. n]
  BY ONLY <1>4, <1>5, <1>6, SumsAgree
<1> QED BY <1>2, <1>3, <1>7

LEMMA BytesEmpty == BytesOf(<<>>) = 0
<1>1. <<>> \in Seq(Nat) /\ Len(<<>>) = 0 /\ 0 \in Nat
  BY EmptySeq
<1>2. PICK f : Sums(f, <<>>, 0) /\ BytesOf(<<>>) = f[1 .. 0]
  BY <1>1, BytesAre
<1> QED BY <1>1, <1>2, SumsGoOn

LEMMA BytesAppend ==
    ASSUME NEW S, NEW rows \in Seq(S), NEW row \in S
    PROVE  BytesOf(Append(rows, row)) = BytesOf(rows) + LengthOf[row.content]
<1> DEFINE more == Append(rows, row)
           n == Len(rows)
<1>1. /\ n \in Nat /\ more \in Seq(S) /\ Len(more) = n + 1
      /\ (\A k \in 1 .. n : more[k] = rows[k]) /\ more[n + 1] = row
  BY AppendProperties, Elements
<1> HIDE DEF more
<1>2. PICK f : Sums(f, rows, n) /\ BytesOf(rows) = f[1 .. n]
  BY BytesAre
<1> HIDE DEF n
<1>3. PICK g : Sums(g, more, n + 1) /\ BytesOf(more) = g[1 .. n + 1]
  BY <1>1, BytesAre
<1>4. n + 1 \in Nat /\ n <= n + 1 /\ n + 1 \in 1 .. n + 1 /\ (n + 1) - 1 = n
  BY <1>1
<1>5. \A k \in 1 .. n : rows[k].content = more[k].content
  BY <1>1
<1>6. f[1 .. n] = g[1 .. n]
  BY <1>1, <1>2, <1>3, <1>4, <1>5, SumsAgree
<1>7. g[1 .. n + 1] = g[1 .. n] + LengthOf[more[n + 1].content]
  BY <1>3, <1>4, SumsGoOn
<1>8. BytesOf(more) = BytesOf(rows) + LengthOf[row.content]
  BY <1>1, <1>2, <1>3, <1>6, <1>7
<1> QED BY <1>8 DEF more

-----------------------------------------------------------------------------
(* The place of an element of a finite set, in the order of their keys.     *)
Place(S, key, x) == Cardinality({y \in S : key[y] <= key[x]})

LEMMA Places ==
    ASSUME NEW S, IsFiniteSet(S), NEW key \in [S -> Nat], \A x, y \in S : key[x] = key[y] => x = y
    PROVE  /\ Cardinality(S) \in Nat
           /\ \A x \in S : Place(S, key, x) \in 1 .. Cardinality(S)
           /\ \A x, y \in S : key[x] < key[y] <=> Place(S, key, x) < Place(S, key, y)
           /\ \A x, y \in S : Place(S, key, x) = Place(S, key, y) => x = y
           /\ \A n \in 1 .. Cardinality(S) : \E x \in S : Place(S, key, x) = n
<1>1. Cardinality(S) \in Nat
  BY FS_CardinalityType
<1>0. \A x \in S : key[x] \in Nat
  OBVIOUS
<1>2. ASSUME NEW x \in S PROVE Place(S, key, x) \in 1 .. Cardinality(S)
  <2> DEFINE below == {y \in S : key[y] <= key[x]}
  <2>1. below \in SUBSET S /\ x \in below
    OBVIOUS
  <2> HIDE DEF below
  <2>2. IsFiniteSet(below) /\ Cardinality(below) <= Cardinality(S)
    BY <2>1, FS_Subset
  <2>3. Cardinality(below) \in Nat /\ Cardinality(below) # 0
    BY <2>1, <2>2, FS_CardinalityType, FS_EmptySet
  <2>4. Cardinality(below) \in 1 .. Cardinality(S)
    BY <1>1, <2>2, <2>3
  <2> QED BY <2>4 DEF Place, below
<1>3. ASSUME NEW x \in S, NEW y \in S, key[x] < key[y] PROVE Place(S, key, x) < Place(S, key, y)
  <2> DEFINE a == {z \in S : key[z] <= key[x]}
             b == {z \in S : key[z] <= key[y]}
  <2>0. key[x] \in Nat /\ key[y] \in Nat
    BY <1>0
  <2>5. \A z \in S : key[z] <= key[x] => key[z] <= key[y]
    BY <1>0, <1>3
  <2>7. b \in SUBSET S /\ a \in SUBSET b
    BY <2>5
  <2>8. y \in b /\ y \notin a
    BY <1>3, <2>0
  <2> HIDE DEF a, b
  <2>2. IsFiniteSet(b)
    BY <2>7, FS_Subset
  <2>3. IsFiniteSet(a) /\ Cardinality(a) <= Cardinality(b) /\ Cardinality(b) # Cardinality(a)
    BY <2>2, <2>7, <2>8, FS_Subset
  <2>4. Cardinality(a) \in Nat /\ Cardinality(b) \in Nat
    BY <2>2, <2>3, FS_CardinalityType
  <2>6. Cardinality(a) < Cardinality(b)
    BY <2>3, <2>4
  <2> QED BY <2>6 DEF Place, a, b
<1>4. ASSUME NEW x \in S, NEW y \in S
      PROVE  /\ key[x] < key[y] <=> Place(S, key, x) < Place(S, key, y)
             /\ Place(S, key, x) = Place(S, key, y) => x = y
  <2>1. key[x] < key[y] => Place(S, key, x) < Place(S, key, y)
    BY <1>3
  <2>2. key[y] < key[x] => Place(S, key, y) < Place(S, key, x)
    BY <1>3
  <2>3. Place(S, key, x) \in Nat /\ Place(S, key, y) \in Nat
    BY <1>1, <1>2
  <2>4. x = y => Place(S, key, x) = Place(S, key, y)
    OBVIOUS
  <2>5. key[x] \in Nat /\ key[y] \in Nat /\ (key[x] = key[y] => x = y)
    BY <1>0
  <2> HIDE DEF Place
  <2> QED BY <2>1, <2>2, <2>3, <2>4, <2>5
<1>5. \A n \in 1 .. Cardinality(S) : \E x \in S : Place(S, key, x) = n
  <2> DEFINE f == [x \in S |-> Place(S, key, x)]
  <2>1. f \in [S -> 1 .. Cardinality(S)]
    BY <1>2
  <2>2. \A x, y \in S : f[x] = f[y] => x = y
    BY <1>4
  <2>3. f \in Injection(S, 1 .. Cardinality(S))
    BY <2>1, <2>2 DEF Injection, IsInjective
  <2>4. IsFiniteSet(1 .. Cardinality(S)) /\ Cardinality(1 .. Cardinality(S)) = Cardinality(S)
    BY <1>1, FS_Interval
  <2>5. f \in Surjection(S, 1 .. Cardinality(S))
    BY <2>3, <2>4, FS_Injection
  <2> QED BY <2>5 DEF Surjection
<1> QED BY <1>1, <1>2, <1>4, <1>5

(* The elements of a set of indices, in the order of keys.                  *)
InPlace(rows, chosen, key) ==
    [n \in 1 .. Cardinality(chosen) |-> rows[CHOOSE i \in chosen : Place(chosen, key, i) = n]]

PlacedAs(o, rows, chosen, key) ==
    \A n \in DOMAIN o : \E i \in chosen : o[n] = rows[i] /\ Place(chosen, key, i) = n

Placed(o, S, rows, chosen, key) ==
    /\ o \in Seq(S) /\ Len(o) = Cardinality(chosen) /\ Cardinality(chosen) \in Nat
    /\ ToSet(o) = {rows[i] : i \in chosen}
    /\ PlacedAs(o, rows, chosen, key)

LEMMA InPlaceIs ==
    ASSUME NEW S, NEW rows \in Seq(S), NEW chosen \in SUBSET (DOMAIN rows),
           NEW key \in [chosen -> Nat], \A x, y \in chosen : key[x] = key[y] => x = y
    PROVE  Placed(InPlace(rows, chosen, key), S, rows, chosen, key)
<1>1. DOMAIN rows = 1 .. Len(rows) /\ Len(rows) \in Nat /\ \A i \in 1 .. Len(rows) : rows[i] \in S
  BY Elements
<1>3. IsFiniteSet(chosen)
  <2>1. IsFiniteSet(1 .. Len(rows)) /\ chosen \in SUBSET (1 .. Len(rows))
    BY <1>1, FS_Interval
  <2> QED BY <2>1, FS_Subset
<1> DEFINE C == Cardinality(chosen)
<1>4. /\ C \in Nat
      /\ \A x \in chosen : Place(chosen, key, x) \in 1 .. C
      /\ \A n \in 1 .. C : \E x \in chosen : Place(chosen, key, x) = n
      /\ \A x, y \in chosen : Place(chosen, key, x) = Place(chosen, key, y) => x = y
  BY <1>3, Places
<1> DEFINE o == InPlace(rows, chosen, key)
<1>6. ASSUME NEW n \in 1 .. C PROVE \E i \in chosen : o[n] = rows[i] /\ Place(chosen, key, i) = n
  <2> DEFINE i == CHOOSE x \in chosen : Place(chosen, key, x) = n
  <2>1. i \in chosen /\ Place(chosen, key, i) = n
    BY <1>4
  <2>2. o[n] = rows[i]
    BY DEF InPlace
  <2> HIDE DEF i, o
  <2> QED BY <2>1, <2>2
<1>5. o = [n \in 1 .. C |-> o[n]] /\ DOMAIN o = 1 .. C
  BY DEF InPlace
<1> HIDE DEF o, C
<1>7. ASSUME NEW i \in chosen PROVE Place(chosen, key, i) \in 1 .. C /\ o[Place(chosen, key, i)] = rows[i]
  <2>1. Place(chosen, key, i) \in 1 .. C
    BY <1>4
  <2>2. PICK k \in chosen : /\ o[Place(chosen, key, i)] = rows[k]
                            /\ Place(chosen, key, k) = Place(chosen, key, i)
    BY <1>6, <2>1
  <2>3. k = i
    BY <1>4, <2>2
  <2> QED BY <2>1, <2>2, <2>3
<1>9. o \in Seq(S)
  <2>1. \A n \in 1 .. C : o[n] \in S
    BY <1>1, <1>6
  <2>2. o \in [1 .. C -> S]
    BY <1>5, <2>1
  <2> QED BY <1>4, <2>2, SeqDef
<1>10. ToSet(o) = {rows[i] : i \in chosen}
  <2>1. \A x \in ToSet(o) : x \in {rows[i] : i \in chosen}
    BY <1>5, <1>6 DEF ToSet
  <2>2. \A i \in chosen : rows[i] \in ToSet(o)
    BY <1>5, <1>7 DEF ToSet
  <2> QED BY <2>1, <2>2
<1>11. Len(o) = C
  BY <1>4, <1>5, <1>9, Elements
<1>12. PlacedAs(o, rows, chosen, key)
  BY <1>5, <1>6 DEF PlacedAs
<1>13. Placed(o, S, rows, chosen, key)
  BY <1>4, <1>9, <1>10, <1>11, <1>12 DEF Placed, C
<1> QED BY <1>13 DEF o

LEMMA InOrderIs ==
    ASSUME NEW S, NEW rows \in Seq(S), NEW chosen \in SUBSET (DOMAIN rows)
    PROVE  /\ InOrder(rows, chosen) \in Seq(S)
           /\ ToSet(InOrder(rows, chosen)) = {rows[i] : i \in chosen}
           /\ (\A i, k \in chosen : rows[i].id = rows[k].id => i = k) =>
                  Distinct(InOrder(rows, chosen))
<1> DEFINE key == [i \in chosen |-> i]
           o == InPlace(rows, chosen, key)
<1>1. DOMAIN rows = 1 .. Len(rows) /\ Len(rows) \in Nat
  BY Elements
<1>2. key \in [chosen -> Nat] /\ \A x, y \in chosen : key[x] = key[y] => x = y
  BY <1>1
<1>3. InOrder(rows, chosen) = o
  <2>1. \A i \in chosen : {k \in chosen : k <= i} = {k \in chosen : key[k] <= key[i]}
    OBVIOUS
  <2>2. \A i \in chosen : Cardinality({k \in chosen : k <= i}) = Place(chosen, key, i)
    BY <2>1 DEF Place
  <2>3. \A n \in 1 .. Cardinality(chosen) : (CHOOSE i \in chosen : Cardinality({k \in chosen : k <= i}) = n)
                  = CHOOSE i \in chosen : Place(chosen, key, i) = n
    BY <2>2
  <2>4. InOrder(rows, chosen) = [n \in 1 .. Cardinality(chosen) |->
            rows[CHOOSE i \in chosen : Cardinality({k \in chosen : k <= i}) = n]]
    BY DEF InOrder
  <2>5. o = [n \in 1 .. Cardinality(chosen) |-> rows[CHOOSE i \in chosen : Place(chosen, key, i) = n]]
    BY DEF InPlace
  <2> QED BY <2>3, <2>4, <2>5
<1> HIDE DEF key
<1>4. o \in Seq(S) /\ ToSet(o) = {rows[i] : i \in chosen} /\ PlacedAs(o, rows, chosen, key)
  <2>1. Placed(o, S, rows, chosen, key)
    BY <1>2, InPlaceIs
  <2> QED BY <2>1 DEF Placed
<1> HIDE DEF o
<1>5. ASSUME \A i, k \in chosen : rows[i].id = rows[k].id => i = k PROVE Distinct(o)
  <2> SUFFICES ASSUME NEW n \in DOMAIN o, NEW m \in DOMAIN o, o[n].id = o[m].id PROVE n = m
    BY DEF Distinct
  <2>1. PICK i \in chosen : o[n] = rows[i] /\ Place(chosen, key, i) = n
    BY <1>4 DEF PlacedAs
  <2>2. PICK k \in chosen : o[m] = rows[k] /\ Place(chosen, key, k) = m
    BY <1>4 DEF PlacedAs
  <2>3. i = k
    BY <1>5, <2>1, <2>2
  <2> QED BY <2>1, <2>2, <2>3
<1> QED BY <1>3, <1>4, <1>5

Ascending(rows) == \A i, k \in DOMAIN rows : i < k => rows[i].id < rows[k].id

LEMMA AscendingIsDistinct ==
    ASSUME NEW S, NEW rows \in Seq(S), \A i \in DOMAIN rows : rows[i].id \in Nat, Ascending(rows)
    PROVE  Distinct(rows)
<1>1. \A i \in DOMAIN rows : i \in Nat
  BY Elements
<1> SUFFICES ASSUME NEW i \in DOMAIN rows, NEW k \in DOMAIN rows, rows[i].id = rows[k].id
             PROVE  i = k
  BY DEF Distinct
<1>2. ~ (i < k) /\ ~ (k < i)
  BY DEF Ascending
<1> QED BY <1>1, <1>2

LEMMA SortedIs ==
    ASSUME NEW S, NEW rows \in Seq(S), \A i \in DOMAIN rows : rows[i].id \in Nat, Distinct(rows)
    PROVE  /\ Sorted(rows) \in Seq(S) /\ Len(Sorted(rows)) = Len(rows)
           /\ ToSet(Sorted(rows)) = ToSet(rows)
           /\ Ascending(Sorted(rows)) /\ Distinct(Sorted(rows))
<1> DEFINE D == DOMAIN rows
           key == [i \in D |-> rows[i].id]
           o == InPlace(rows, D, key)
           UpTo(i) == {k \in D : rows[k].id < rows[i].id \/ (rows[k].id = rows[i].id /\ k <= i)}
<1>1. D = 1 .. Len(rows) /\ Len(rows) \in Nat /\ IsFiniteSet(D) /\ Cardinality(D) = Len(rows)
  BY SMTT(60), Elements, FS_Interval
<1>2. key \in [D -> Nat] /\ \A x, y \in D : key[x] = key[y] => x = y
  BY DEF Distinct
<1>3. Sorted(rows) = o
  <2>1. ASSUME NEW i \in D PROVE UpTo(i) = {k \in D : key[k] <= key[i]}
    <3>1. ASSUME NEW k \in D
          PROVE  (rows[k].id < rows[i].id \/ (rows[k].id = rows[i].id /\ k <= i)) <=> key[k] <= key[i]
      <4>1. key[k] = rows[k].id /\ key[i] = rows[i].id /\ rows[k].id \in Nat /\ rows[i].id \in Nat
        OBVIOUS
      <4>2. rows[k].id = rows[i].id => k = i
        BY DEF Distinct
      <4>3. k \in Nat /\ i \in Nat
        BY <1>1
      <4> QED BY <4>1, <4>2, <4>3
    <3> QED BY <3>1
  <2>2. \A i \in D : Cardinality(UpTo(i)) = Place(D, key, i)
    BY <2>1 DEF Place
  <2>3. \A n \in D : (CHOOSE i \in D : Cardinality(UpTo(i)) = n) = CHOOSE i \in D : Place(D, key, i) = n
    BY <2>2
  <2>4. Sorted(rows) = [n \in D |-> rows[CHOOSE i \in D : Cardinality(UpTo(i)) = n]]
    BY DEF Sorted
  <2>5. o = [n \in D |-> rows[CHOOSE i \in D : Place(D, key, i) = n]]
    BY <1>1 DEF InPlace
  <2> QED BY <2>3, <2>4, <2>5
<1>4. D \in SUBSET DOMAIN rows
  OBVIOUS
<1>5. \A i \in D : key[i] = rows[i].id
  OBVIOUS
<1> HIDE DEF key
<1>6. /\ o \in Seq(S) /\ Len(o) = Cardinality(D) /\ ToSet(o) = {rows[i] : i \in D}
      /\ PlacedAs(o, rows, D, key)
  <2>1. Placed(o, S, rows, D, key)
    BY <1>2, <1>4, InPlaceIs
  <2> HIDE DEF o
  <2> QED BY <2>1 DEF Placed
<1>7. /\ \A x \in D : Place(D, key, x) \in 1 .. Cardinality(D)
      /\ \A x, y \in D : key[x] < key[y] <=> Place(D, key, x) < Place(D, key, y)
  BY <1>1, <1>2, Places
<1> HIDE DEF o
<1>8. Ascending(o)
  <2> SUFFICES ASSUME NEW n \in DOMAIN o, NEW m \in DOMAIN o, n < m PROVE o[n].id < o[m].id
    BY DEF Ascending
  <2>1. PICK i \in D : o[n] = rows[i] /\ Place(D, key, i) = n
    BY <1>6 DEF PlacedAs
  <2>2. PICK k \in D : o[m] = rows[k] /\ Place(D, key, k) = m
    BY <1>6 DEF PlacedAs
  <2>3. key[i] < key[k]
    BY <1>7, <2>1, <2>2
  <2> QED BY <1>5, <2>1, <2>2, <2>3
<1>9. \A n \in DOMAIN o : o[n].id \in Nat
  BY <1>6 DEF PlacedAs
<1>10. Distinct(o)
  BY <1>6, <1>8, <1>9, AscendingIsDistinct
<1>11. ToSet(o) = ToSet(rows)
  BY <1>6 DEF ToSet
<1> QED BY <1>1, <1>3, <1>6, <1>8, <1>10, <1>11

-----------------------------------------------------------------------------
(* The files of a tree.                                                     *)
(* The files are those of the rows.                                         *)
Holds(files, rows) ==
    /\ DOMAIN files = IdsOf(rows)
    /\ \A i \in DOMAIN rows : files[rows[i].id] = rows[i].content

LEMMA HoldsNothing == Holds(<<>>, <<>>)
BY DEF Holds, IdsOf

LEMMA HoldsMore ==
    ASSUME NEW S, NEW a \in Seq(S), NEW b \in Seq(S), NEW files, Holds(files, a), Distinct(a \o b)
    PROVE  Holds(AddFiles(files, b), a \o b)
<1> DEFINE all == a \o b
           last == [name \in {b[i].id : i \in DOMAIN b} |->
                        b[Max({i \in DOMAIN b : b[i].id = name})].content]
<1>1. /\ DOMAIN a = 1 .. Len(a) /\ DOMAIN b = 1 .. Len(b) /\ Len(a) \in Nat /\ Len(b) \in Nat
      /\ DOMAIN all = 1 .. Len(a) + Len(b)
      /\ \A i \in 1 .. Len(a) : all[i] = a[i]
      /\ \A i \in 1 .. Len(b) : all[Len(a) + i] = b[i]
  BY ConcatProperties, Elements
<1> HIDE DEF all
<1>2. ASSUME NEW i \in DOMAIN b PROVE last[b[i].id] = b[i].content
  <2>1. \A k \in DOMAIN b : b[k].id = b[i].id => k = i
    <3> SUFFICES ASSUME NEW k \in DOMAIN b, b[k].id = b[i].id PROVE k = i
      OBVIOUS
    <3>1. Len(a) + k \in DOMAIN all /\ Len(a) + i \in DOMAIN all
      BY <1>1
    <3>2. all[Len(a) + k].id = all[Len(a) + i].id
      BY <1>1
    <3>3. Len(a) + k = Len(a) + i
      BY <3>1, <3>2 DEF Distinct, all
    <3> QED BY <1>1, <3>3
  <2>2. {k \in DOMAIN b : b[k].id = b[i].id} = {i}
    BY <2>1
  <2>3. Max({i}) = i
    BY <1>1 DEF Max
  <2>4. b[i].id \in {b[k].id : k \in DOMAIN b}
    OBVIOUS
  <2>5. last[b[i].id] = b[Max({k \in DOMAIN b : b[k].id = b[i].id})].content
    BY <2>4
  <2> QED BY <2>2, <2>3, <2>5
<1>3. DOMAIN last = IdsOf(b)
  BY DEF IdsOf
<1> DEFINE new == AddFiles(files, b)
<1>4. /\ DOMAIN new = DOMAIN files \cup IdsOf(b)
      /\ \A x \in IdsOf(b) : new[x] = last[x]
      /\ \A x \in DOMAIN files : x \notin IdsOf(b) => new[x] = files[x]
  BY DEF AddFiles, IdsOf
<1> HIDE DEF last, new
<1>5. IdsOf(all) = IdsOf(a) \cup IdsOf(b)
  <2>1. \A x \in IdsOf(all) : x \in IdsOf(a) \cup IdsOf(b)
    <3> SUFFICES ASSUME NEW i \in DOMAIN all PROVE all[i].id \in IdsOf(a) \cup IdsOf(b)
      BY DEF IdsOf
    <3>1. CASE i <= Len(a)
      BY <1>1, <3>1 DEF IdsOf
    <3>2. CASE i > Len(a)
      <4>1. i - Len(a) \in 1 .. Len(b) /\ Len(a) + (i - Len(a)) = i
        BY <1>1, <3>2
      <4>2. all[i] = b[i - Len(a)]
        BY <1>1, <4>1
      <4> QED BY <1>1, <4>1, <4>2 DEF IdsOf
    <3> QED BY <1>1, <3>1, <3>2
  <2>2. \A i \in DOMAIN a : a[i].id \in IdsOf(all)
    BY <1>1 DEF IdsOf
  <2>3. \A i \in DOMAIN b : b[i].id \in IdsOf(all)
    <3> SUFFICES ASSUME NEW i \in DOMAIN b PROVE b[i].id \in IdsOf(all)
      OBVIOUS
    <3>1. Len(a) + i \in DOMAIN all /\ all[Len(a) + i] = b[i]
      BY <1>1
    <3> QED BY <3>1 DEF IdsOf
  <2> QED BY <2>1, <2>2, <2>3 DEF IdsOf
<1>6. DOMAIN new = IdsOf(all)
  BY <1>4, <1>5 DEF Holds
<1>7. ASSUME NEW i \in DOMAIN all PROVE new[all[i].id] = all[i].content
  <2>1. CASE i <= Len(a)
    <3>1. i \in DOMAIN a /\ all[i] = a[i]
      BY <1>1, <2>1
    <3>2. a[i].id \notin IdsOf(b)
      <4> SUFFICES ASSUME NEW k \in DOMAIN b, b[k].id = a[i].id PROVE FALSE
        BY DEF IdsOf
      <4>1. Len(a) + k \in DOMAIN all /\ all[Len(a) + k] = b[k]
        BY <1>1
      <4>2. i = Len(a) + k
        BY <3>1, <4>1 DEF Distinct, all
      <4> QED BY <1>1, <2>1, <4>2
    <3>3. a[i].id \in DOMAIN files /\ files[a[i].id] = a[i].content
      BY <3>1 DEF Holds, IdsOf
    <3> QED BY <1>4, <3>1, <3>2, <3>3
  <2>2. CASE i > Len(a)
    <3>1. i - Len(a) \in 1 .. Len(b) /\ Len(a) + (i - Len(a)) = i
      BY <1>1, <2>2
    <3>2. i - Len(a) \in DOMAIN b /\ all[i] = b[i - Len(a)]
      BY <1>1, <3>1
    <3>3. b[i - Len(a)].id \in IdsOf(b) /\ last[b[i - Len(a)].id] = b[i - Len(a)].content
      BY <1>2, <1>3, <3>2 DEF IdsOf
    <3> QED BY <1>4, <3>2, <3>3
  <2> QED BY <1>1, <2>1, <2>2
<1> QED BY <1>6, <1>7 DEF Holds, all, new

LEMMA HoldsOne ==
    ASSUME NEW S, NEW a \in Seq(S), NEW e \in S, NEW files, Holds(files, a), Distinct(Append(a, e))
    PROVE  Holds(With(files, e.id, e.content), Append(a, e))
<1> DEFINE all == Append(a, e)
           new == With(files, e.id, e.content)
           n == Len(a)
<1>1. /\ DOMAIN a = 1 .. n /\ n \in Nat /\ DOMAIN all = 1 .. n + 1
      /\ (\A i \in 1 .. n : all[i] = a[i]) /\ all[n + 1] = e
  BY AppendProperties, Elements
<1>2. /\ DOMAIN new = {e.id} \cup DOMAIN files /\ new[e.id] = e.content
      /\ \A other \in DOMAIN files : other # e.id => new[other] = files[other]
  BY DEF With
<1> HIDE DEF all, new, n
<1>3. IdsOf(all) = {e.id} \cup IdsOf(a)
  <2>1. \A i \in DOMAIN all : all[i].id \in {e.id} \cup IdsOf(a)
    <3> SUFFICES ASSUME NEW i \in DOMAIN all PROVE all[i].id \in {e.id} \cup IdsOf(a)
      OBVIOUS
    <3>1. i = n + 1 \/ i \in 1 .. n
      BY <1>1
    <3> QED BY <1>1, <3>1 DEF IdsOf
  <2>2. n + 1 \in DOMAIN all /\ \A i \in DOMAIN a : i \in DOMAIN all
    BY <1>1
  <2> QED BY <1>1, <2>1, <2>2 DEF IdsOf
<1>4. ASSUME NEW i \in DOMAIN all PROVE new[all[i].id] = all[i].content
  <2>1. CASE i = n + 1
    BY <1>1, <1>2, <2>1
  <2>2. CASE i \in 1 .. n
    <3>1. i \in DOMAIN a /\ all[i] = a[i] /\ n + 1 \in DOMAIN all /\ i # n + 1
      BY <1>1, <2>2
    <3>2. a[i].id # e.id
      BY <1>1, <3>1 DEF Distinct, all
    <3>3. a[i].id \in DOMAIN files /\ files[a[i].id] = a[i].content
      BY <3>1 DEF Holds, IdsOf
    <3> QED BY <1>2, <3>1, <3>2, <3>3
  <2> QED BY <1>1, <2>1, <2>2
<1>5. DOMAIN new = IdsOf(all)
  BY <1>2, <1>3 DEF Holds
<1> QED BY <1>4, <1>5 DEF Holds, all, new

-----------------------------------------------------------------------------
(* What a command knows of the documents it has gathered.                   *)
EntryType == [id : Nat, content : Contents, repo : STRING \cup {"none"}]

(* What a row of a shard makes a job list.                                  *)
Meant(j, row) ==
    [id |-> row.id, repo |-> row.repo,
     content |-> IF j.kind = "blobs" THEN row.id ELSE row.content]
ListOf(j, rows) == {Meant(j, rows[i]) : i \in NewRows(j, rows, {})}
EligibleIds(j, rows) == {rows[i].id : i \in {k \in DOMAIN rows : Eligible(j, rows[k])}}

(* The rows of the first n shards of a job, as they are pinned.             *)
RowsUpTo(j, n) == Flat([k \in 1 .. n |-> PinnedRows[j.shards[k]]])

Gathered(run) == Flat(run.generations) \o Entries(run.picked)

(* n shards have been read.                                                 *)
GatheredFrom(j, run, n) ==
    /\ run.picked \in Seq(RowType) /\ run.generations \in Seq(Seq(EntryType))
    /\ Distinct(Gathered(run))
    /\ IdsOf(Gathered(run)) = run.seen
    /\ ~run.raced => /\ run.seen = EligibleIds(j, RowsUpTo(j, n))
                     /\ ToSet(Gathered(run)) = ListOf(j, RowsUpTo(j, n))
    /\ j.kind = "blobs" \/ j.verified => \A e \in ToSet(Gathered(run)) : e.content = e.id
    /\ Len(Gathered(run)) <= j.maxDocuments
    /\ \A g \in 1 .. Len(run.generations) : Len(run.generations[g]) = j.perGeneration

(* What there is to fetch, as it will be listed.                            *)
Fetched(j, run) ==
    IF j.kind = "blobs"
    THEN Entries(run.picked)
    ELSE [i \in DOMAIN j.assets |->
            [id |-> j.assets[i].name, content |-> j.assets[i].content, repo |-> "none"]]

(* The items before the next one have arrived.                              *)
Arrived(j, run, t) ==
    LET have == SubSeq(Fetched(j, run), 1, run.next - 1)
    IN  /\ run.next \in 1 .. Len(Fetched(j, run)) + 1
        /\ run.at = "fetching" <=> run.next <= Len(Fetched(j, run))
        /\ Holds(t.files, have)
        /\ j.kind = "blobs" => run.bytes = BytesOf(have) /\ run.bytes <= j.maxBytes

AssetsSound(j, run, t) ==
    /\ run.at \in {"fetching", "sharding"}
    /\ Arrived(j, run, t)

BlobsSound(j, run, t) ==
    /\ run.generations = <<>>
    /\ \/ /\ run.at \in {"verifying", "reading"}
          /\ run.next \in 1 .. Len(j.shards) /\ run.bytes = 0
          /\ GatheredFrom(j, run, run.next - 1)
       \/ /\ run.at \in {"fetching", "sharding"}
          /\ GatheredFrom(j, run, Len(j.shards))
          /\ run.picked # <<>> /\ Ascending(run.picked)
          /\ Arrived(j, run, t)

RowsSound(j, run, t) ==
    /\ Holds(t.files, Flat(run.generations))
    /\ \/ /\ run.at \in {"verifying", "reading"}
          /\ run.next \in 1 .. Len(j.shards)
          /\ GatheredFrom(j, run, run.next - 1)
       \/ /\ run.at = "sharding"
          /\ GatheredFrom(j, run, Len(j.shards))

TreeEntries(names) ==
    {[id |-> name, content |-> Tree[name].content, repo |-> Tree[name].repo] :
        name \in {n \in names : Tree[n].sort = "regular"}}

TreeSound(j, run) ==
    /\ run.picked \in Seq(EntryType) /\ run.generations = <<>>
    /\ run.seen \subseteq DOMAIN Tree
    /\ Distinct(run.picked) /\ IdsOf(run.picked) \subseteq run.seen
    /\ ~run.raced => ToSet(run.picked) = TreeEntries(run.seen)
    /\ \/ run.at = "walking"
       \/ /\ run.at = "sharding"
          /\ run.seen = DOMAIN Tree /\ Ascending(run.picked)
          /\ Len(run.picked) \in 1 .. j.maxDocuments

RunFields ==
    {"job", "at", "next", "hops", "retries", "picked", "seen", "generations", "bytes", "raced"}
TreeFields == {"files", "generations", "index"}

(* run is a run that has not ended, and t its partial tree.                 *)
Sound(run, t) ==
    LET j == Jobs[run.job]
    IN  /\ DOMAIN run = RunFields /\ run.job \in DOMAIN Jobs /\ Valid(j)
        /\ run.next \in Nat \ {0} /\ run.raced \in BOOLEAN
        /\ Publishes(j) /\ run.at \notin {"verifying", "reading", "walking"} => DOMAIN t = TreeFields
        /\ IF run.at \in {"publishing", "installing"}
           THEN Publishes(j) /\ ListedAsPinned(t, run) /\ FilesAsListed(t, run)
           ELSE CASE j.kind = "assets" -> AssetsSound(j, run, t) /\ ~run.raced
                  [] j.kind = "discover" -> run.at = "fetching" /\ run.next <= Len(j.assets)
                  [] j.kind = "blobs" -> BlobsSound(j, run, t)
                  [] j.kind = "rows" -> RowsSound(j, run, t) /\ DOMAIN t = TreeFields
                  [] OTHER -> TreeSound(j, run)

RunSound(p) ==
    Running(p) => Sound(runs[p], partial[<<Job(p).root, p>>])

RootSound(r) ==
    Exists(r) => ListedAsPinned(root[r].tree, root[r].by) /\ FilesAsListed(root[r].tree, root[r].by)

OkSound(p) ==
    runs[p].at = "ok" =>
        /\ runs[p].job \in DOMAIN Jobs /\ Publishes(Job(p))
        /\ Exists(Job(p).root) /\ root[Job(p).root].by.process = p

StateType ==
    /\ DOMAIN partial = Roots \X Procs /\ DOMAIN root = Roots /\ DOMAIN runs = Procs
    /\ DOMAIN shards = DOMAIN PinnedRows /\ DOMAIN tree = DOMAIN Tree

IInv ==
    /\ StateType
    /\ \A p \in Procs : RunSound(p) /\ OkSound(p)
    /\ \A r \in Roots : RootSound(r)

-----------------------------------------------------------------------------
(* The rows that count.                                                     *)
LEMMA Least ==
    ASSUME NEW S \in SUBSET Nat, S # {} PROVE \E n \in S : \A m \in S : n <= m
<1>1. IsWellFoundedOn(LessThan, Nat)
  BY NatLessThanWellFounded DEF OpToRel, LessThan
<1>2. PICK n \in S : \A m \in S : ~ (<<m, n>> \in LessThan)
  BY <1>1, WFMin
<1>3. \A m \in S : n <= m
  <2>1. \A m \in S : m < n => <<m, n>> \in LessThan
    BY DEF LessThan, OpToRel
  <2>2. \A m \in S : ~ (m < n)
    BY <1>2, <2>1
  <2>3. n \in Nat /\ \A m \in S : m \in Nat
    OBVIOUS
  <2> QED BY <2>2, <2>3
<1> QED BY <1>3

LEMMA NewRowsAre ==
    ASSUME NEW j, NEW rows \in Seq(RowType), NEW seen
    PROVE  /\ NewRows(j, rows, seen) \in SUBSET DOMAIN rows
           /\ \A i \in NewRows(j, rows, seen) : Eligible(j, rows[i]) /\ rows[i].id \notin seen
           /\ \A i, k \in NewRows(j, rows, seen) : rows[i].id = rows[k].id => i = k
           /\ \A i \in DOMAIN rows : Eligible(j, rows[i]) /\ rows[i].id \notin seen =>
                 \E k \in NewRows(j, rows, seen) : rows[k].id = rows[i].id
<1> DEFINE N == NewRows(j, rows, seen)
<1>1. DOMAIN rows = 1 .. Len(rows) /\ Len(rows) \in Nat
  BY Elements
<1>2. N \in SUBSET DOMAIN rows /\ \A i \in N : Eligible(j, rows[i]) /\ rows[i].id \notin seen
  BY DEF NewRows
<1>3. ASSUME NEW i \in N, NEW k \in N, rows[i].id = rows[k].id PROVE i = k
  <2>1. i \in 1 .. Len(rows) /\ k \in 1 .. Len(rows)
    BY <1>1, <1>2
  <2>2. ~ (i \in 1 .. k - 1) /\ ~ (k \in 1 .. i - 1)
    BY <1>2, <1>3 DEF NewRows
  <2> HIDE DEF N
  <2> QED BY <1>1, <2>1, <2>2
<1>4. ASSUME NEW i \in DOMAIN rows, Eligible(j, rows[i]), rows[i].id \notin seen
      PROVE  \E k \in N : rows[k].id = rows[i].id
  <2> DEFINE same == {k \in DOMAIN rows : Eligible(j, rows[k]) /\ rows[k].id = rows[i].id}
  <2>1. same \in SUBSET Nat /\ same # {}
    BY <1>1, <1>4
  <2>2. \A k \in same : k \in DOMAIN rows /\ Eligible(j, rows[k]) /\ rows[k].id = rows[i].id
    OBVIOUS
  <2>3. \A k \in DOMAIN rows : Eligible(j, rows[k]) /\ rows[k].id = rows[i].id => k \in same
    OBVIOUS
  <2> HIDE DEF same
  <2>4. PICK n \in same : \A m \in same : n <= m
    BY <2>1, Least
  <2>5. \A k \in 1 .. n - 1 : ~ (Eligible(j, rows[k]) /\ rows[k].id = rows[n].id)
    <3> SUFFICES ASSUME NEW k \in 1 .. n - 1, Eligible(j, rows[k]), rows[k].id = rows[n].id
                 PROVE  FALSE
      OBVIOUS
    <3>1. n \in 1 .. Len(rows)
      BY <1>1, <2>2
    <3>2. k \in DOMAIN rows /\ ~ (n <= k)
      BY <1>1, <3>1
    <3> QED BY <2>2, <2>3, <2>4, <3>2
  <2>6. n \in N
    BY <1>4, <2>2, <2>5 DEF NewRows
  <2> QED BY <2>2, <2>6
<1> QED BY <1>2, <1>3, <1>4

LEMMA ListMore ==
    ASSUME NEW j, NEW R \in Seq(RowType), NEW S \in Seq(RowType)
    PROVE  /\ ListOf(j, R \o S) = ListOf(j, R) \cup
                {Meant(j, S[i]) : i \in NewRows(j, S, EligibleIds(j, R))}
           /\ EligibleIds(j, R \o S) = EligibleIds(j, R) \cup
                {S[i].id : i \in NewRows(j, S, EligibleIds(j, R))}
<1> DEFINE all == R \o S
           seen == EligibleIds(j, R)
           n == Len(R)
           N == NewRows(j, S, seen)
<1>1. /\ DOMAIN R = 1 .. n /\ DOMAIN S = 1 .. Len(S) /\ n \in Nat /\ Len(S) \in Nat
      /\ DOMAIN all = 1 .. n + Len(S)
      /\ \A i \in 1 .. n : all[i] = R[i]
      /\ \A i \in 1 .. Len(S) : all[n + i] = S[i]
  BY ConcatProperties, Elements
<1>2. \A i \in DOMAIN all : i \in 1 .. n \/ \E k \in 1 .. Len(S) : i = n + k
  <2> SUFFICES ASSUME NEW i \in DOMAIN all, i \notin 1 .. n PROVE \E k \in 1 .. Len(S) : i = n + k
    OBVIOUS
  <2>1. i - n \in 1 .. Len(S) /\ i = n + (i - n)
    BY <1>1
  <2> QED BY <2>1
<1> HIDE DEF all, n, seen
<1>3. ASSUME NEW i \in 1 .. n PROVE i \in NewRows(j, all, {}) <=> i \in NewRows(j, R, {})
  <2>1. i \in DOMAIN all /\ i \in DOMAIN R /\ all[i] = R[i]
    BY <1>1
  <2>2. \A k \in 1 .. i - 1 : k \in 1 .. n /\ all[k] = R[k]
    BY <1>1
  <2> QED BY <2>1, <2>2 DEF NewRows
<1>4. ASSUME NEW i \in 1 .. Len(S) PROVE n + i \in NewRows(j, all, {}) <=> i \in N
  <2>1. n + i \in DOMAIN all /\ i \in DOMAIN S /\ all[n + i] = S[i]
    BY <1>1
  <2> DEFINE Taken(row) == Eligible(j, row) /\ row.id = S[i].id
  <2>2. (\A k \in 1 .. (n + i) - 1 : ~ Taken(all[k]))
          <=> (\A k \in 1 .. n : ~ Taken(R[k])) /\ (\A k \in 1 .. i - 1 : ~ Taken(S[k]))
    <3> HIDE DEF Taken
    <3>1. \A k \in 1 .. n : k \in 1 .. (n + i) - 1 /\ all[k] = R[k]
      BY <1>1
    <3>2. \A k \in 1 .. i - 1 : n + k \in 1 .. (n + i) - 1 /\ all[n + k] = S[k]
      BY <1>1
    <3>3. ASSUME NEW k \in 1 .. (n + i) - 1
          PROVE  (k \in 1 .. n /\ all[k] = R[k]) \/ (k - n \in 1 .. i - 1 /\ all[k] = S[k - n])
      <4>1. CASE k <= n
        BY <1>1, <4>1
      <4>2. CASE k > n
        <5>1. k - n \in 1 .. Len(S) /\ k - n \in 1 .. i - 1 /\ n + (k - n) = k
          BY <1>1, <4>2
        <5> QED BY <1>1, <5>1
      <4> QED BY <1>1, <4>1, <4>2
    <3> QED BY <3>1, <3>2, <3>3
  <2>3. S[i].id \notin seen <=> \A k \in 1 .. n : ~ Taken(R[k])
    BY <1>1 DEF seen, EligibleIds
  <2>4. n + i \in NewRows(j, all, {})
           <=> Eligible(j, S[i]) /\ \A k \in 1 .. (n + i) - 1 : ~ Taken(all[k])
    BY <2>1 DEF NewRows
  <2>5. i \in N <=> Eligible(j, S[i]) /\ S[i].id \notin seen /\ \A k \in 1 .. i - 1 : ~ Taken(S[k])
    BY <2>1 DEF NewRows
  <2> HIDE DEF Taken, N
  <2> QED BY <2>2, <2>3, <2>4, <2>5
<1>5. NewRows(j, all, {}) \in SUBSET DOMAIN all /\ NewRows(j, R, {}) \in SUBSET (1 .. n)
      /\ N \in SUBSET (1 .. Len(S))
  BY <1>1 DEF NewRows
<1> HIDE DEF N
<1>6. ListOf(j, all) = ListOf(j, R) \cup {Meant(j, S[i]) : i \in N}
  <2>1. ASSUME NEW i \in NewRows(j, all, {})
        PROVE  Meant(j, all[i]) \in ListOf(j, R) \cup {Meant(j, S[k]) : k \in N}
    <3>1. CASE i \in 1 .. n
      BY <1>1, <1>3, <3>1 DEF ListOf
    <3>2. CASE \E k \in 1 .. Len(S) : i = n + k
      BY <1>1, <1>4, <3>2
    <3> QED BY <1>2, <1>5, <3>1, <3>2
  <2>2. \A i \in NewRows(j, R, {}) : Meant(j, R[i]) \in ListOf(j, all)
    <3> SUFFICES ASSUME NEW i \in NewRows(j, R, {}) PROVE Meant(j, R[i]) \in ListOf(j, all)
      OBVIOUS
    <3>1. i \in 1 .. n /\ all[i] = R[i] /\ i \in NewRows(j, all, {})
      BY <1>1, <1>3, <1>5
    <3> QED BY <3>1 DEF ListOf
  <2>3. \A i \in N : Meant(j, S[i]) \in ListOf(j, all)
    <3> SUFFICES ASSUME NEW i \in N PROVE Meant(j, S[i]) \in ListOf(j, all)
      OBVIOUS
    <3>1. all[n + i] = S[i] /\ n + i \in NewRows(j, all, {})
      BY <1>1, <1>4, <1>5
    <3> QED BY <3>1 DEF ListOf
  <2>4. \A x \in ListOf(j, all) : x \in ListOf(j, R) \cup {Meant(j, S[k]) : k \in N}
    BY <2>1 DEF ListOf
  <2>5. \A x \in ListOf(j, R) : x \in ListOf(j, all)
    BY <2>2 DEF ListOf
  <2> QED BY <2>3, <2>4, <2>5
<1>7. EligibleIds(j, all) = seen \cup {S[i].id : i \in N}
  <2>0. /\ \A i \in N : Eligible(j, S[i]) /\ S[i].id \notin seen
        /\ \A i \in DOMAIN S : Eligible(j, S[i]) /\ S[i].id \notin seen =>
              \E k \in N : S[k].id = S[i].id
    BY NewRowsAre DEF N
  <2>1. ASSUME NEW i \in DOMAIN all, Eligible(j, all[i])
        PROVE  all[i].id \in seen \cup {S[k].id : k \in N}
    <3>1. CASE i \in 1 .. n
      BY <1>1, <2>1, <3>1 DEF seen, EligibleIds
    <3>2. CASE \E k \in 1 .. Len(S) : i = n + k
      BY <1>1, <2>0, <2>1, <3>2
    <3> QED BY <1>2, <3>1, <3>2
  <2>2. \A x \in seen : x \in EligibleIds(j, all)
    <3> SUFFICES ASSUME NEW i \in DOMAIN R, Eligible(j, R[i]) PROVE R[i].id \in EligibleIds(j, all)
      BY DEF seen, EligibleIds
    <3>1. i \in DOMAIN all /\ all[i] = R[i]
      BY <1>1
    <3> QED BY <3>1 DEF EligibleIds
  <2>3. \A i \in N : S[i].id \in EligibleIds(j, all)
    <3> SUFFICES ASSUME NEW i \in N PROVE S[i].id \in EligibleIds(j, all)
      OBVIOUS
    <3>1. n + i \in DOMAIN all /\ all[n + i] = S[i] /\ Eligible(j, S[i])
      BY <1>1, <1>5, <2>0
    <3> QED BY <3>1 DEF EligibleIds
  <2>4. \A x \in EligibleIds(j, all) : x \in seen \cup {S[k].id : k \in N}
    BY <2>1 DEF EligibleIds
  <2> QED BY <2>2, <2>3, <2>4
<1> QED BY <1>6, <1>7 DEF all, seen, N

LEMMA ExpectedIs ==
    ASSUME NEW j, j.kind \in {"blobs", "rows"}, AllRows(j) \in Seq(RowType)
    PROVE  Expected(j) = ListOf(j, AllRows(j))
<1> DEFINE rows == AllRows(j)
           Good == {i \in DOMAIN rows : Eligible(j, rows[i])}
           First == {i \in Good : \A k \in Good : rows[k].id = rows[i].id => i <= k}
<1>1. DOMAIN rows = 1 .. Len(rows) /\ Len(rows) \in Nat
  BY Elements
<1>2. First = NewRows(j, rows, {})
  <2> HIDE DEF rows
  <2>1. ASSUME NEW i \in DOMAIN rows, Eligible(j, rows[i])
        PROVE  (\A k \in Good : rows[k].id = rows[i].id => i <= k)
                 <=> (\A k \in 1 .. i - 1 : ~ (Eligible(j, rows[k]) /\ rows[k].id = rows[i].id))
    <3>1. ASSUME NEW k \in 1 .. i - 1 PROVE k \in DOMAIN rows /\ ~ (i <= k)
      BY <1>1
    <3>2. ASSUME NEW k \in DOMAIN rows, ~ (i <= k) PROVE k \in 1 .. i - 1
      BY <1>1, <3>2
    <3> QED BY <3>1, <3>2
  <2> QED BY <2>1 DEF NewRows
<1>3. Expected(j) = {[id |-> rows[i].id, repo |-> rows[i].repo,
                      content |-> IF j.kind = "blobs" THEN rows[i].id ELSE rows[i].content] : i \in First}
  BY DEF Expected
<1> QED BY <1>2, <1>3 DEF ListOf, Meant

LEMMA RowsUpToIs ==
    ASSUME NEW j, j.shards \in Seq(DOMAIN PinnedRows), NEW n \in Nat, n <= Len(j.shards)
    PROVE  /\ RowsUpTo(j, n) \in Seq(RowType)
           /\ n < Len(j.shards) =>
                 RowsUpTo(j, n + 1) = RowsUpTo(j, n) \o PinnedRows[j.shards[n + 1]]
<1> DEFINE f(m) == [k \in 1 .. m |-> PinnedRows[j.shards[k]]]
<1>1. \A k \in 1 .. Len(j.shards) : PinnedRows[j.shards[k]] \in Seq(RowType)
  BY AcquisitionAssumption, Elements
<1>2. ASSUME NEW m \in Nat, m <= Len(j.shards) PROVE f(m) \in Seq(Seq(RowType))
  <2>1. \A k \in 1 .. m : k \in 1 .. Len(j.shards)
    BY Elements, <1>2
  <2>2. f(m) \in [1 .. m -> Seq(RowType)]
    BY <1>1, <2>1
  <2> HIDE DEF f
  <2> QED BY <2>2, SeqDef
<1>3. RowsUpTo(j, n) \in Seq(RowType)
  <2>1. f(n) \in Seq(Seq(RowType))
    BY <1>2
  <2>2. RowsUpTo(j, n) = Flat(f(n))
    BY DEF RowsUpTo
  <2> HIDE DEF f
  <2> QED BY <2>1, <2>2, FlatType
<1>4. ASSUME n < Len(j.shards)
      PROVE  RowsUpTo(j, n + 1) = RowsUpTo(j, n) \o PinnedRows[j.shards[n + 1]]
  <2> DEFINE last == PinnedRows[j.shards[n + 1]]
             a == f(n)
             b == f(n + 1)
  <2>0. Len(j.shards) \in Nat /\ n + 1 \in Nat /\ n + 1 <= Len(j.shards) /\ n + 1 \in 1 .. Len(j.shards)
    BY <1>4, Elements
  <2>1. last \in Seq(RowType) /\ a \in Seq(Seq(RowType)) /\ b \in Seq(Seq(RowType))
    BY <1>1, <1>2, <2>0
  <2>2. DOMAIN a = 1 .. n /\ DOMAIN b = 1 .. n + 1
        /\ (\A k \in 1 .. n : b[k] = a[k]) /\ b[n + 1] = last
    OBVIOUS
  <2>3. RowsUpTo(j, n + 1) = Flat(b) /\ RowsUpTo(j, n) = Flat(a)
    BY DEF RowsUpTo
  <2> HIDE DEF a, b, last, f
  <2>4. Len(a) = n /\ Len(b) = n + 1
    BY <2>0, <2>1, <2>2, Elements
  <2>5. b = Append(a, last)
    <3> DEFINE c == Append(a, last)
    <3>1. c \in Seq(Seq(RowType)) /\ Len(c) = n + 1 /\ (\A k \in 1 .. n : c[k] = a[k]) /\ c[n + 1] = last
      BY <2>1, <2>4, AppendProperties
    <3> HIDE DEF c
    <3>2. \A k \in 1 .. Len(b) : b[k] = c[k]
      <4>1. \A k \in 1 .. n + 1 : k \in 1 .. n \/ k = n + 1
        OBVIOUS
      <4> QED BY <2>2, <2>4, <3>1, <4>1
    <3>3. b = c
      BY <2>1, <2>4, <3>1, <3>2, SeqEqual
    <3> QED BY <3>3 DEF c
  <2>6. Flat(b) = Flat(a) \o last
    BY <2>1, <2>5, FlatAppend
  <2> QED BY <2>3, <2>6 DEF last
<1> QED BY <1>3, <1>4

-----------------------------------------------------------------------------
(* The entries of rows.                                                     *)
LEMMA EntriesAre ==
    ASSUME NEW rows \in Seq(RowType)
    PROVE  /\ Entries(rows) \in Seq(EntryType) /\ Len(Entries(rows)) = Len(rows)
           /\ DOMAIN Entries(rows) = DOMAIN rows
           /\ \A i \in DOMAIN rows : Entries(rows)[i] = Entry(rows[i])
<1>1. DOMAIN rows = 1 .. Len(rows) /\ Len(rows) \in Nat /\ \A i \in 1 .. Len(rows) : rows[i] \in RowType
  BY Elements
<1>2. \A row \in RowType : Entry(row) \in EntryType
  BY AcquisitionAssumption DEF RowType, EntryType, Entry
<1> DEFINE es == Entries(rows)
<1>3. DOMAIN es = 1 .. Len(rows) /\ es = [i \in 1 .. Len(rows) |-> es[i]]
      /\ \A i \in 1 .. Len(rows) : es[i] = Entry(rows[i])
  BY <1>1 DEF Entries
<1> HIDE DEF es
<1>4. es \in [1 .. Len(rows) -> EntryType]
  BY <1>1, <1>2, <1>3
<1>5. es \in Seq(EntryType)
  BY <1>1, <1>4, SeqDef
<1>6. Len(es) = Len(rows)
  BY <1>1, <1>3, <1>5, Elements
<1> QED BY <1>1, <1>3, <1>5, <1>6 DEF es

LEMMA EntriesConcat ==
    ASSUME NEW a \in Seq(RowType), NEW b \in Seq(RowType)
    PROVE  Entries(a \o b) = Entries(a) \o Entries(b)
<1> DEFINE all == a \o b
           ea == Entries(a)
           eb == Entries(b)
           es == Entries(all)
<1>1. /\ all \in Seq(RowType) /\ Len(all) = Len(a) + Len(b) /\ Len(a) \in Nat /\ Len(b) \in Nat
      /\ \A i \in 1 .. Len(a) + Len(b) : all[i] = IF i <= Len(a) THEN a[i] ELSE b[i - Len(a)]
      /\ DOMAIN all = 1 .. Len(a) + Len(b) /\ DOMAIN a = 1 .. Len(a) /\ DOMAIN b = 1 .. Len(b)
  BY ConcatProperties, Elements
<1> HIDE DEF all
<1>2. /\ es \in Seq(EntryType) /\ Len(es) = Len(a) + Len(b)
      /\ \A i \in 1 .. Len(a) + Len(b) : es[i] = Entry(all[i])
  BY <1>1, EntriesAre
<1>3. /\ ea \in Seq(EntryType) /\ Len(ea) = Len(a) /\ \A i \in 1 .. Len(a) : ea[i] = Entry(a[i])
      /\ eb \in Seq(EntryType) /\ Len(eb) = Len(b) /\ \A i \in 1 .. Len(b) : eb[i] = Entry(b[i])
  BY <1>1, EntriesAre
<1> HIDE DEF ea, eb, es
<1> DEFINE both == ea \o eb
<1>4. /\ both \in Seq(EntryType) /\ Len(both) = Len(a) + Len(b)
      /\ \A i \in 1 .. Len(a) + Len(b) : both[i] = IF i <= Len(a) THEN ea[i] ELSE eb[i - Len(a)]
  <2>1. /\ both \in Seq(EntryType) /\ Len(both) = Len(ea) + Len(eb)
        /\ \A i \in 1 .. Len(ea) + Len(eb) : both[i] = IF i <= Len(ea) THEN ea[i] ELSE eb[i - Len(ea)]
    <3>1. ea \in Seq(EntryType) /\ eb \in Seq(EntryType)
      BY <1>3
    <3> QED BY ONLY <3>1, ConcatProperties
  <2> HIDE DEF both
  <2> QED BY <1>3, <2>1
<1> HIDE DEF both
<1>5. ASSUME NEW i \in 1 .. Len(a) + Len(b) PROVE es[i] = both[i]
  <2>1. CASE i <= Len(a)
    BY <1>1, <1>2, <1>3, <1>4, <2>1
  <2>2. CASE i > Len(a)
    <3>1. i - Len(a) \in 1 .. Len(b) /\ ~ (i <= Len(a))
      BY <1>1, <2>2
    <3> QED BY <1>1, <1>2, <1>3, <1>4, <3>1
  <2> QED BY <1>1, <2>1, <2>2
<1>6. es = both
  BY <1>2, <1>4, <1>5, SeqEqual
<1> QED BY <1>6 DEF es, both, ea, eb, all

LEMMA ConcatParts ==
    ASSUME NEW S, NEW a \in Seq(S), NEW b \in Seq(S)
    PROVE  /\ ToSet(a \o b) = ToSet(a) \cup ToSet(b)
           /\ IdsOf(a \o b) = IdsOf(a) \cup IdsOf(b)
           /\ Distinct(a) /\ Distinct(b) /\ IdsOf(a) \cap IdsOf(b) = {} => Distinct(a \o b)
<1> DEFINE all == a \o b
           n == Len(a)
<1>1. /\ DOMAIN a = 1 .. n /\ DOMAIN b = 1 .. Len(b) /\ n \in Nat /\ Len(b) \in Nat
      /\ DOMAIN all = 1 .. n + Len(b)
      /\ \A i \in 1 .. n : all[i] = a[i]
      /\ \A i \in 1 .. Len(b) : all[n + i] = b[i]
  BY ConcatProperties, Elements
<1> HIDE DEF all, n
<1>2. \A i \in DOMAIN all : i \in 1 .. n \/ \E k \in 1 .. Len(b) : i = n + k
  <2> SUFFICES ASSUME NEW i \in DOMAIN all, i \notin 1 .. n PROVE \E k \in 1 .. Len(b) : i = n + k
    OBVIOUS
  <2>1. i - n \in 1 .. Len(b) /\ i = n + (i - n)
    BY <1>1
  <2> QED BY <2>1
<1>3. /\ \A i \in DOMAIN all : (i \in DOMAIN a /\ all[i] = a[i])
                                 \/ \E k \in DOMAIN b : i = n + k /\ all[i] = b[k]
      /\ \A i \in DOMAIN a : i \in DOMAIN all /\ all[i] = a[i]
      /\ \A k \in DOMAIN b : n + k \in DOMAIN all /\ all[n + k] = b[k]
  <2>1. \A i \in DOMAIN all : (i \in DOMAIN a /\ all[i] = a[i])
                                \/ \E k \in DOMAIN b : i = n + k /\ all[i] = b[k]
    BY <1>1, <1>2
  <2>2. \A i \in DOMAIN a : i \in DOMAIN all /\ all[i] = a[i]
    BY <1>1
  <2>3. \A k \in DOMAIN b : n + k \in DOMAIN all /\ all[n + k] = b[k]
    BY <1>1
  <2> QED BY <2>1, <2>2, <2>3
<1>4. ToSet(all) = ToSet(a) \cup ToSet(b)
  <2>1. \A x \in ToSet(all) : x \in ToSet(a) \cup ToSet(b)
    BY <1>3 DEF ToSet
  <2>2. \A x \in ToSet(a) \cup ToSet(b) : x \in ToSet(all)
    BY <1>3 DEF ToSet
  <2> QED BY <2>1, <2>2
<1>5. IdsOf(all) = IdsOf(a) \cup IdsOf(b)
  <2>1. \A x \in IdsOf(all) : x \in IdsOf(a) \cup IdsOf(b)
    BY <1>3 DEF IdsOf
  <2>2. \A x \in IdsOf(a) \cup IdsOf(b) : x \in IdsOf(all)
    BY <1>3 DEF IdsOf
  <2> QED BY <2>1, <2>2
<1>6. ASSUME Distinct(a), Distinct(b), IdsOf(a) \cap IdsOf(b) = {} PROVE Distinct(all)
  <2> SUFFICES ASSUME NEW i \in DOMAIN all, NEW k \in DOMAIN all, all[i].id = all[k].id PROVE i = k
    BY DEF Distinct
  <2>1. \A x \in DOMAIN a, y \in DOMAIN b : a[x].id # b[y].id
    BY <1>6 DEF IdsOf
  <2>2. CASE i \in DOMAIN a /\ all[i] = a[i]
    <3>1. k \in DOMAIN a /\ all[k] = a[k]
      BY <1>3, <2>1, <2>2
    <3> QED BY <1>6, <2>2, <3>1 DEF Distinct
  <2>3. CASE \E y \in DOMAIN b : i = n + y /\ all[i] = b[y]
    <3>1. PICK y \in DOMAIN b : i = n + y /\ all[i] = b[y]
      BY <2>3
    <3>2. PICK z \in DOMAIN b : k = n + z /\ all[k] = b[z]
      BY <1>3, <2>1, <3>1
    <3>3. y = z
      BY <1>6, <3>1, <3>2 DEF Distinct
    <3> QED BY <3>1, <3>2, <3>3
  <2> QED BY <1>3, <2>2, <2>3
<1> QED BY <1>4, <1>5, <1>6 DEF all

(* The new rows of a shard, as the command keeps them.                      *)
MeantRow(j, row) == IF j.kind = "blobs" THEN [row EXCEPT !.content = row.id] ELSE row
More(j, rows, seen) ==
    LET more == InOrder(rows, NewRows(j, rows, seen))
    IN  [i \in DOMAIN more |-> MeantRow(j, more[i])]
IdsOfNew(j, rows, seen) == {rows[i].id : i \in NewRows(j, rows, seen)}

AreNew(es, j, rows, seen) ==
    /\ es \in Seq(EntryType) /\ Distinct(es)
    /\ IdsOf(es) = IdsOfNew(j, rows, seen) /\ IdsOfNew(j, rows, seen) \cap seen = {}
    /\ ToSet(es) = {Meant(j, rows[i]) : i \in NewRows(j, rows, seen)}

LEMMA MoreAre ==
    ASSUME NEW j, NEW rows \in Seq(RowType), NEW seen
    PROVE  /\ More(j, rows, seen) \in Seq(RowType)
           /\ AreNew(Entries(More(j, rows, seen)), j, rows, seen)
<1> DEFINE N == NewRows(j, rows, seen)
           o == InOrder(rows, N)
           m == More(j, rows, seen)
           es == Entries(m)
<1>1. /\ N \in SUBSET DOMAIN rows
      /\ \A i \in N : Eligible(j, rows[i]) /\ rows[i].id \notin seen
      /\ \A i, k \in N : rows[i].id = rows[k].id => i = k
  BY NewRowsAre
<1> HIDE DEF N
<1>2. o \in Seq(RowType) /\ ToSet(o) = {rows[i] : i \in N} /\ Distinct(o)
  BY <1>1, InOrderIs
<1>3. DOMAIN m = DOMAIN o /\ m = [i \in DOMAIN o |-> m[i]] /\ \A i \in DOMAIN o : m[i] = MeantRow(j, o[i])
  BY DEF More, N
<1> HIDE DEF o, m
<1>4. \A row \in RowType : MeantRow(j, row) \in RowType /\ Entry(MeantRow(j, row)) = Meant(j, row)
  BY DEF MeantRow, Meant, Entry, RowType
<1>5. DOMAIN o = 1 .. Len(o) /\ Len(o) \in Nat /\ \A i \in 1 .. Len(o) : o[i] \in RowType
  BY <1>2, Elements
<1>6. m \in Seq(RowType)
  <2>1. m \in [1 .. Len(o) -> RowType]
    BY <1>3, <1>4, <1>5
  <2> QED BY <1>5, <2>1, SeqDef
<1>7. es \in Seq(EntryType) /\ DOMAIN es = DOMAIN o /\ \A i \in DOMAIN o : es[i] = Entry(m[i])
  BY <1>3, <1>6, EntriesAre
<1> HIDE DEF es
<1>8. \A i \in DOMAIN o : es[i] = Meant(j, o[i]) /\ es[i].id = o[i].id
  BY <1>3, <1>4, <1>5, <1>7 DEF Meant
<1>9. Distinct(es)
  BY <1>2, <1>7, <1>8 DEF Distinct
<1>10. /\ \A i \in DOMAIN o : \E k \in N : o[i] = rows[k]
       /\ \A k \in N : \E i \in DOMAIN o : o[i] = rows[k]
  BY <1>2 DEF ToSet
<1>11. IdsOf(es) = {rows[i].id : i \in N}
  <2>1. \A x \in IdsOf(es) : x \in {rows[i].id : i \in N}
    BY SMTT(60), <1>7, <1>8, <1>10 DEF IdsOf
  <2>2. \A k \in N : rows[k].id \in IdsOf(es)
    BY SMTT(60), <1>7, <1>8, <1>10 DEF IdsOf
  <2> QED BY <2>1, <2>2
<1>12. ToSet(es) = {Meant(j, rows[i]) : i \in N}
  <2>1. \A x \in ToSet(es) : x \in {Meant(j, rows[i]) : i \in N}
    BY <1>7, <1>8, <1>10 DEF ToSet
  <2>2. \A k \in N : Meant(j, rows[k]) \in ToSet(es)
    BY <1>7, <1>8, <1>10 DEF ToSet
  <2> QED BY <2>1, <2>2
<1>13. {rows[i].id : i \in N} \cap seen = {}
  BY <1>1
<1>14. m \in Seq(RowType) /\ AreNew(es, j, rows, seen)
  BY <1>6, <1>7, <1>9, <1>11, <1>12, <1>13 DEF IdsOfNew, N, AreNew
<1> QED BY <1>14 DEF es, m, N

FullOf(full, S, rows, size) ==
    /\ full \in Seq(Seq(S)) /\ Len(full) \in Nat
    /\ \A g \in 1 .. Len(full) : Len(full[g]) = size
    /\ Len(full) * size \in Nat /\ Len(full) * size <= Len(rows)
    /\ Len(rows) < Len(full) * size + size
    /\ Flat(full) = SubSeq(rows, 1, Len(full) * size)

LEMMA FullIs ==
    ASSUME NEW S, NEW rows \in Seq(S), NEW size \in Nat \ {0}
    PROVE  FullOf(FullGenerations(rows, size), S, rows, size)
BY FullAre DEF FullOf

(* What is flushed and what is left are what there was.                     *)
FlushedAre(written, rest, gs, new, rows, size) ==
    /\ written \in Seq(RowType) /\ rest \in Seq(RowType)
    /\ gs \o new \in Seq(Seq(EntryType))
    /\ \A g \in 1 .. Len(gs \o new) : Len((gs \o new)[g]) = size
    /\ Flat(gs \o new) = Flat(gs) \o Entries(written)
    /\ Flat(gs \o new) \o Entries(rest) = Flat(gs) \o Entries(rows)

LEMMA Flushed ==
    ASSUME NEW rows \in Seq(RowType), NEW size \in Nat \ {0}, NEW gs \in Seq(Seq(EntryType)),
           NEW written, written = Flat(FullGenerations(rows, size)),
           NEW rest, rest = SubSeq(rows, Len(written) + 1, Len(rows)),
           NEW new, new = FullGenerations(Entries(written), size),
           \A g \in 1 .. Len(gs) : Len(gs[g]) = size
    PROVE  FlushedAre(written, rest, gs, new, rows, size)
<1> DEFINE full == FullGenerations(rows, size)
           n == Len(full) * size
           es == Entries(written)
<1>1. /\ full \in Seq(Seq(RowType)) /\ Len(full) \in Nat
      /\ n \in Nat /\ n <= Len(rows) /\ Len(rows) \in Nat
      /\ written = SubSeq(rows, 1, n)
  <2> HIDE DEF full
  <2>1. full = FullGenerations(rows, size)
    BY DEF full
  <2>2. /\ full \in Seq(Seq(RowType)) /\ Len(full) \in Nat
        /\ Len(full) * size \in Nat /\ Len(full) * size <= Len(rows)
        /\ Flat(full) = SubSeq(rows, 1, Len(full) * size)
    <3>1. FullOf(full, RowType, rows, size)
      BY <2>1, FullIs
    <3> QED BY <3>1 DEF FullOf
  <2> QED BY <2>1, <2>2, Elements
<1> HIDE DEF full
<1>2. written \in Seq(RowType) /\ Len(written) = n
  <2>1. \A i \in 1 .. n : rows[i] \in RowType
    BY <1>1, Elements
  <2>2. 1 \in Int /\ n \in Int
    BY <1>1
  <2> HIDE DEF n
  <2>3. /\ SubSeq(rows, 1, n) \in Seq(RowType)
        /\ Len(SubSeq(rows, 1, n)) = IF 1 <= n THEN n - 1 + 1 ELSE 0
    BY SMTT(60), <2>1, <2>2, SubSeqProperties
  <2> QED BY <1>1, <2>3
<1>3. rest \in Seq(RowType) /\ written \o rest = rows
  <2>1. \A i \in n + 1 .. Len(rows) : rows[i] \in RowType
    BY <1>1, Elements
  <2>2. n + 1 \in Int /\ Len(rows) \in Int
    BY <1>1
  <2>3. rest = SubSeq(rows, n + 1, Len(rows))
    BY <1>2
  <2> HIDE DEF n
  <2>4. rest \in Seq(RowType)
    BY <2>1, <2>2, <2>3, SubSeqProperties
  <2>5. 1 \in 1 .. Len(rows) + 1 /\ n \in 1 - 1 .. Len(rows) /\ Len(rows) \in n .. Len(rows)
    BY <1>1
  <2>6. SubSeq(rows, 1, n) \o SubSeq(rows, n + 1, Len(rows)) = SubSeq(rows, 1, Len(rows))
    BY <2>5, ConcatAdjacentSubSeq
  <2>7. SubSeq(rows, 1, Len(rows)) = rows
    BY SubSeqFull
  <2> QED BY Zenon, <1>1, <2>3, <2>4, <2>6, <2>7
<1>4. es \in Seq(EntryType) /\ Len(es) = n
  BY <1>2, EntriesAre
<1> HIDE DEF es
<1>5. /\ new \in Seq(Seq(EntryType)) /\ Len(new) \in Nat /\ \A g \in 1 .. Len(new) : Len(new[g]) = size
      /\ Len(new) * size \in Nat /\ Len(new) * size <= Len(es) /\ Len(es) < Len(new) * size + size
      /\ Flat(new) = SubSeq(es, 1, Len(new) * size)
  <2>1. new = FullGenerations(es, size)
    BY DEF es
  <2>2. es \in Seq(EntryType) /\ size \in Nat \ {0}
    BY <1>4
  <2>3. FullOf(new, EntryType, es, size)
    BY <2>1, <2>2, FullIs
  <2> QED BY <2>3 DEF FullOf
<1>6. Len(new) * size = n
  <2>1. ~ (Len(new) < Len(full))
    <3> SUFFICES ASSUME Len(new) < Len(full) PROVE FALSE
      OBVIOUS
    <3>1. Len(new) + 1 \in Nat /\ Len(new) + 1 <= Len(full) /\ size \in Nat
      BY <1>1, <1>5
    <3>2. (Len(new) + 1) * size <= n
      BY <1>1, <3>1, ProductMonotone
    <3>3. (Len(new) + 1) * size = Len(new) * size + size
      BY <1>5
    <3> HIDE DEF n
    <3> QED BY <1>1, <1>4, <1>5, <3>2, <3>3
  <2>2. Len(full) <= Len(new) /\ size \in Nat
    BY <1>1, <1>5, <2>1
  <2>3. n <= Len(new) * size
    BY <1>1, <1>5, <2>2, ProductMonotone
  <2> HIDE DEF n
  <2> QED BY <1>1, <1>4, <1>5, <2>3
<1> HIDE DEF n
<1>7. Flat(new) = es
  <2>1. SubSeq(es, 1, Len(es)) = es
    BY <1>4, SubSeqFull
  <2> QED BY <1>4, <1>5, <1>6, <2>1
<1>8. /\ gs \o new \in Seq(Seq(EntryType)) /\ Len(gs \o new) = Len(gs) + Len(new)
      /\ \A i \in 1 .. Len(gs) + Len(new) :
            (gs \o new)[i] = IF i <= Len(gs) THEN gs[i] ELSE new[i - Len(gs)]
  BY <1>5, ConcatProperties
<1>9. ASSUME NEW g \in 1 .. Len(gs \o new) PROVE Len((gs \o new)[g]) = size
  <2>0. Len(gs) \in Nat /\ Len(new) \in Nat
    BY <1>5, Elements
  <2>1. CASE g <= Len(gs)
    BY <1>8, <2>0, <2>1
  <2>2. CASE g > Len(gs)
    <3>1. g - Len(gs) \in 1 .. Len(new) /\ ~ (g <= Len(gs))
      BY <1>8, <2>0, <2>2
    <3> QED BY Zenon, <1>5, <1>8, <3>1
  <2> QED BY <1>8, <2>0, <2>1, <2>2
<1>10. Flat(gs \o new) = Flat(gs) \o es
  BY <1>5, <1>7, FlatConcat
<1>11. Entries(rows) = es \o Entries(rest)
  BY ZenonT(60), <1>2, <1>3, EntriesConcat DEF es
<1>12. Flat(gs) \in Seq(EntryType) /\ Entries(rest) \in Seq(EntryType)
  BY <1>3, FlatType, EntriesAre
<1>13. (Flat(gs) \o es) \o Entries(rest) = Flat(gs) \o (es \o Entries(rest))
  <2>1. ASSUME NEW x \in Seq(EntryType), NEW y \in Seq(EntryType), NEW z \in Seq(EntryType)
        PROVE  (x \o y) \o z = x \o (y \o z)
    BY ONLY SMTT(60), x \in Seq(EntryType), y \in Seq(EntryType), z \in Seq(EntryType), ConcatAssociative
  <2> QED BY ZenonT(60), <1>4, <1>12, <2>1
<1>14. Flat(gs \o new) \o Entries(rest) = Flat(gs) \o Entries(rows)
  BY <1>10, <1>11, <1>13
<1> QED BY <1>2, <1>3, <1>8, <1>9, <1>10, <1>14 DEF es, FlushedAre

-----------------------------------------------------------------------------
(* From one shard to the next.                                              *)
LEMMA NothingGathered ==
    ASSUME NEW j, j.maxDocuments \in Nat,
           NEW run, run.picked = <<>>, run.generations = <<>>, run.seen = {}
    PROVE  GatheredFrom(j, run, 0)
<1>1. <<>> \in Seq(RowType) /\ <<>> \in Seq(EntryType) /\ <<>> \in Seq(Seq(EntryType))
      /\ Len(<<>>) = 0 /\ DOMAIN <<>> = {}
  BY EmptySeq
<1>2. Entries(<<>>) = <<>>
  <2>1. Entries(<<>>) \in Seq(EntryType) /\ Len(Entries(<<>>)) = 0
    BY <1>1, EntriesAre
  <2> QED BY <2>1, Elements
<1>3. Gathered(run) = <<>>
  <2>1. Gathered(run) = <<>> \o <<>>
    BY <1>2, FlatEmpty DEF Gathered
  <2> QED BY <1>1, <2>1, ConcatEmptySeq
<1>4. RowsUpTo(j, 0) = <<>>
  <2>1. [k \in 1 .. 0 |-> PinnedRows[j.shards[k]]] = <<>>
    OBVIOUS
  <2> QED BY <2>1, FlatEmpty DEF RowsUpTo
<1>5. ListOf(j, <<>>) = {} /\ EligibleIds(j, <<>>) = {}
  <2>1. NewRows(j, <<>>, {}) = {}
    BY <1>1 DEF NewRows
  <2> QED BY <1>1, <2>1 DEF ListOf, EligibleIds
<1>6. ToSet(<<>>) = {} /\ IdsOf(<<>>) = {} /\ Distinct(<<>>)
  BY <1>1 DEF ToSet, IdsOf, Distinct
<1>7. Len(<<>>) <= j.maxDocuments
  BY <1>1
<1>8. \A g \in 1 .. Len(run.generations) : Len(run.generations[g]) = j.perGeneration
  BY <1>1
<1> QED BY <1>1, <1>3, <1>4, <1>5, <1>6, <1>7, <1>8 DEF GatheredFrom

(* What a shard adds: run2 is run with the rows of its nth shard.           *)
Adds(j, n, m, run, rows, run2) ==
    /\ j.kind \in {"blobs", "rows"} /\ j.shards \in Seq(DOMAIN PinnedRows)
    /\ n \in 1 .. Len(j.shards) /\ m = n - 1 /\ GatheredFrom(j, run, m)
    /\ rows \in Seq(RowType) /\ ~ Torn(j, rows)
    /\ run2.picked \in Seq(RowType) /\ run2.generations \in Seq(Seq(EntryType))
    /\ Gathered(run2) = Gathered(run) \o Entries(More(j, rows, run.seen))
    /\ run2.seen = run.seen \cup IdsOfNew(j, rows, run.seen)
    /\ ~ run2.raced => ~ run.raced /\ rows = PinnedRows[j.shards[n]]
    /\ Len(Gathered(run2)) <= j.maxDocuments
    /\ \A g \in 1 .. Len(run2.generations) : Len(run2.generations[g]) = j.perGeneration

LEMMA MoreGathered ==
    ASSUME NEW j, NEW n, NEW m, NEW run, NEW rows, NEW run2, Adds(j, n, m, run, rows, run2)
    PROVE  GatheredFrom(j, run2, n)
<1> USE DEF Adds
<1> DEFINE had == Gathered(run)
           more == Entries(More(j, rows, run.seen))
           new == IdsOfNew(j, rows, run.seen)
<1>1. /\ more \in Seq(EntryType) /\ Distinct(more) /\ IdsOf(more) = new /\ new \cap run.seen = {}
      /\ ToSet(more) = {Meant(j, rows[i]) : i \in NewRows(j, rows, run.seen)}
  <2>1. AreNew(more, j, rows, run.seen)
    BY MoreAre
  <2> HIDE DEF more
  <2> QED BY <2>1 DEF AreNew
<1>2. had \in Seq(EntryType)
  <2>1. Flat(run.generations) \in Seq(EntryType) /\ Entries(run.picked) \in Seq(EntryType)
    BY FlatType, EntriesAre DEF GatheredFrom
  <2> QED BY <2>1, ConcatProperties DEF Gathered
<1>3. Distinct(had) /\ IdsOf(had) = run.seen
  BY DEF GatheredFrom
<1>4. Gathered(run2) = had \o more
  OBVIOUS
<1> HIDE DEF had, more, new
<1>5. /\ ToSet(Gathered(run2)) = ToSet(had) \cup ToSet(more)
      /\ IdsOf(Gathered(run2)) = run2.seen
      /\ Distinct(Gathered(run2))
  <2>1. /\ ToSet(had \o more) = ToSet(had) \cup ToSet(more)
        /\ IdsOf(had \o more) = IdsOf(had) \cup IdsOf(more)
        /\ Distinct(had) /\ Distinct(more) /\ IdsOf(had) \cap IdsOf(more) = {} => Distinct(had \o more)
    BY <1>1, <1>2, ConcatParts
  <2>2. IdsOf(had) \cap IdsOf(more) = {}
    BY <1>1, <1>3
  <2>3. run2.seen = run.seen \cup new
    BY DEF new
  <2> QED BY <1>1, <1>3, <1>4, <2>1, <2>2, <2>3
<1>6. ASSUME ~ run2.raced
      PROVE  /\ run2.seen = EligibleIds(j, RowsUpTo(j, n))
             /\ ToSet(Gathered(run2)) = ListOf(j, RowsUpTo(j, n))
  <2> DEFINE R == RowsUpTo(j, n - 1)
  <2>1. ~ run.raced /\ rows = PinnedRows[j.shards[n]]
    BY <1>6
  <2>2. run.seen = EligibleIds(j, R) /\ ToSet(had) = ListOf(j, R)
    BY <2>1 DEF GatheredFrom, had
  <2>3. R \in Seq(RowType) /\ RowsUpTo(j, n) = R \o rows
    <3>1. n - 1 \in Nat /\ n - 1 <= Len(j.shards) /\ n - 1 < Len(j.shards) /\ (n - 1) + 1 = n
      BY Elements
    <3>2. RowsUpTo(j, n - 1) \in Seq(RowType)
      BY <3>1, RowsUpToIs
    <3>3. RowsUpTo(j, (n - 1) + 1) = RowsUpTo(j, n - 1) \o PinnedRows[j.shards[(n - 1) + 1]]
      BY <3>1, RowsUpToIs
    <3> QED BY <2>1, <3>1, <3>2, <3>3
  <2> HIDE DEF R
  <2>4. /\ ListOf(j, R \o rows) = ListOf(j, R) \cup
              {Meant(j, rows[i]) : i \in NewRows(j, rows, EligibleIds(j, R))}
        /\ EligibleIds(j, R \o rows) = EligibleIds(j, R) \cup
              {rows[i].id : i \in NewRows(j, rows, EligibleIds(j, R))}
    BY <2>3, ListMore
  <2> QED BY <1>1, <1>5, <2>2, <2>3, <2>4 DEF IdsOfNew
<1>7. ASSUME j.kind = "blobs" \/ j.verified PROVE \A e \in ToSet(Gathered(run2)) : e.content = e.id
  <2>1. \A e \in ToSet(had) : e.content = e.id
    BY <1>7 DEF GatheredFrom, had
  <2>2. \A i \in NewRows(j, rows, run.seen) : i \in DOMAIN rows /\ Eligible(j, rows[i])
    BY DEF NewRows
  <2>3. \A i \in NewRows(j, rows, run.seen) : Meant(j, rows[i]).content = Meant(j, rows[i]).id
    BY <1>7, <2>2 DEF Meant, Torn
  <2> QED BY <1>1, <1>5, <2>1, <2>3
<1> QED BY <1>5, <1>6, <1>7 DEF GatheredFrom

LEMMA EntryId == \A row : Entry(row).id = row.id /\ Entry(row).content = row.content
BY DEF Entry

LEMMA GatheredSorted ==
    ASSUME NEW j, NEW n, NEW run, GatheredFrom(j, run, n), run.generations = <<>>,
           NEW run2, run2.picked = Sorted(run.picked), run2.generations = <<>>,
           run2.seen = run.seen, run2.raced = run.raced
    PROVE  /\ GatheredFrom(j, run2, n) /\ Ascending(run2.picked)
           /\ Len(run2.picked) = Len(run.picked)
<1> DEFINE a == run.picked
           b == run2.picked
<1>1. a \in Seq(RowType)
  BY DEF GatheredFrom
<1>2. \A rows \in Seq(RowType) : Entries(rows) \in Seq(EntryType) /\ <<>> \o Entries(rows) = Entries(rows)
  BY EntriesAre, ConcatEmptySeq
<1>3. Gathered(run) = Entries(a)
  BY <1>1, <1>2, FlatEmpty DEF Gathered
<1>4. \A i \in DOMAIN a : a[i].id \in Nat
  <2>1. \A i \in DOMAIN a : a[i] \in RowType
    BY <1>1, Elements
  <2> QED BY <2>1, AcquisitionAssumption DEF RowType
<1>5. DOMAIN Entries(a) = DOMAIN a /\ \A i \in DOMAIN a : Entries(a)[i] = Entry(a[i])
  BY <1>1, EntriesAre
<1>6. Distinct(a)
  <2>1. Distinct(Entries(a))
    BY <1>3 DEF GatheredFrom
  <2>2. \A i \in DOMAIN a : Entries(a)[i].id = a[i].id
    BY <1>5, EntryId
  <2> QED BY <1>5, <2>1, <2>2 DEF Distinct
<1>7. b \in Seq(RowType) /\ Len(b) = Len(a) /\ ToSet(b) = ToSet(a) /\ Ascending(b) /\ Distinct(b)
  BY <1>1, <1>4, <1>6, SortedIs
<1>8. Gathered(run2) = Entries(b)
  BY <1>2, <1>7, FlatEmpty DEF Gathered
<1>9. DOMAIN Entries(b) = DOMAIN b /\ \A i \in DOMAIN b : Entries(b)[i] = Entry(b[i])
  BY <1>7, EntriesAre
<1>10. Distinct(Entries(b))
  <2>2. \A i \in DOMAIN b : Entries(b)[i].id = b[i].id
    BY <1>9, EntryId
  <2> QED BY <1>7, <1>9, <2>2 DEF Distinct
<1>11. ToSet(Entries(b)) = ToSet(Entries(a)) /\ IdsOf(Entries(b)) = IdsOf(Entries(a))
  <2>1. /\ \A i \in DOMAIN b : \E k \in DOMAIN a : b[i] = a[k]
        /\ \A k \in DOMAIN a : \E i \in DOMAIN b : b[i] = a[k]
    BY <1>7 DEF ToSet
  <2>2. /\ \A i \in DOMAIN b : \E k \in DOMAIN a : Entries(b)[i] = Entries(a)[k]
        /\ \A k \in DOMAIN a : \E i \in DOMAIN b : Entries(b)[i] = Entries(a)[k]
    BY <1>5, <1>9, <2>1
  <2>3. ToSet(Entries(b)) = ToSet(Entries(a))
    BY <1>5, <1>9, <2>2 DEF ToSet
  <2>4. IdsOf(Entries(b)) = IdsOf(Entries(a))
    BY <1>5, <1>9, <2>2 DEF IdsOf
  <2> QED BY <2>3, <2>4
<1>12. Len(Entries(b)) = Len(b) /\ Len(Entries(a)) = Len(a)
  BY <1>1, <1>7, EntriesAre
<1>13. Len(Gathered(run2)) <= j.maxDocuments
  <2>1. Len(Gathered(run)) <= j.maxDocuments
    BY DEF GatheredFrom
  <2> QED BY <1>3, <1>7, <1>8, <1>12, <2>1
<1>14. \A g \in 1 .. Len(run2.generations) : Len(run2.generations[g]) = j.perGeneration
  BY EmptySeq
<1>15. <<>> \in Seq(Seq(EntryType))
  BY EmptySeq
<1>16. GatheredFrom(j, run2, n)
  <2>1. IdsOf(Gathered(run2)) = run2.seen
    BY <1>3, <1>8, <1>11 DEF GatheredFrom
  <2>2. ~ run2.raced => /\ run2.seen = EligibleIds(j, RowsUpTo(j, n))
                        /\ ToSet(Gathered(run2)) = ListOf(j, RowsUpTo(j, n))
    BY <1>3, <1>8, <1>11 DEF GatheredFrom
  <2>3. j.kind = "blobs" \/ j.verified => \A e \in ToSet(Gathered(run2)) : e.content = e.id
    BY <1>3, <1>8, <1>11 DEF GatheredFrom
  <2> QED BY <1>7, <1>8, <1>10, <1>13, <1>14, <1>15, <2>1, <2>2, <2>3 DEF GatheredFrom
<1> QED BY <1>7, <1>16

(* What makes a listing as pinned.                                          *)
LEMMA Listing ==
    ASSUME NEW run, NEW t, NEW j, j = Jobs[run.job], NEW list \in Seq(EntryType),
           list = Flat(t.generations), t.index = Len(t.generations), Distinct(list),
           ~ run.raced => ToSet(list) = Expected(j),
           j.kind = "blobs" \/ (j.kind = "rows" /\ j.verified) =>
               \A e \in ToSet(list) : e.content = e.id,
           j.kind \in {"blobs", "tree"} => Ascending(list),
           j.kind # "assets" => Chunked(t.generations, j.perGeneration),
           Len(list) <= j.maxDocuments,
           j.kind \in {"assets", "blobs"} => BytesOf(list) <= j.maxBytes
    PROVE  ListedAsPinned(t, run)
<1>1. Cardinality({e.id : e \in ToSet(list)}) = Len(list)
  BY DistinctCount
<1>2. DOMAIN list = 1 .. Len(list) /\ Len(list) \in Nat
  BY Elements
<1>3. j.kind \in {"blobs", "tree"} => \A i \in 1 .. Len(list) - 1 : list[i].id < list[i + 1].id
  <2> SUFFICES ASSUME j.kind \in {"blobs", "tree"}, NEW i \in 1 .. Len(list) - 1
               PROVE  list[i].id < list[i + 1].id
    OBVIOUS
  <2>1. i \in DOMAIN list /\ i + 1 \in DOMAIN list /\ i < i + 1
    BY <1>2
  <2> QED BY <2>1 DEF Ascending
<1> QED BY <1>1, <1>3 DEF ListedAsPinned, Chunked

LEMMA Filing ==
    ASSUME NEW run, NEW t, NEW list, list = Flat(t.generations), Jobs[run.job].kind # "assets",
           Jobs[run.job].kind # "tree" => Holds(t.files, list)
    PROVE  FilesAsListed(t, run)
<1>1. {e.id : e \in ToSet(list)} = IdsOf(list)
  BY DEF ToSet, IdsOf
<1>2. Jobs[run.job].kind # "tree" => \A e \in ToSet(list) : t.files[e.id] = e.content
  BY DEF Holds, ToSet
<1> QED BY <1>1, <1>2 DEF FilesAsListed, Holds

-----------------------------------------------------------------------------
(* What there is to fetch, and one more of it.                              *)
LEMMA AssetEntry ==
    ASSUME NEW a \in [name : Nat, content : Contents]
    PROVE  /\ [id |-> a.name, content |-> a.content, repo |-> "none"] \in EntryType
           /\ [id |-> a.name, content |-> a.content, repo |-> "none"].id = a.name
<1>1. a.name \in Nat /\ a.content \in Contents
  OBVIOUS
<1> DEFINE e == [id |-> a.name, content |-> a.content, repo |-> "none"]
<1>2. e.id = a.name /\ e.content = a.content /\ e.repo = "none"
  OBVIOUS
<1>3. e \in [id : Nat, content : Contents, repo : STRING \cup {"none"}]
  BY <1>1
<1> QED BY <1>2, <1>3 DEF EntryType

LEMMA FetchedAssets ==
    ASSUME NEW j, j.kind = "assets", j.assets \in Seq([name : Nat, content : Contents]), NEW run
    PROVE  /\ Fetched(j, run) \in Seq(EntryType) /\ Len(Fetched(j, run)) = Len(j.assets)
           /\ DOMAIN Fetched(j, run) = DOMAIN j.assets
           /\ \A i \in DOMAIN j.assets : Fetched(j, run)[i] =
                 [id |-> j.assets[i].name, content |-> j.assets[i].content, repo |-> "none"]
           /\ ValidAssets(j) => Distinct(Fetched(j, run))
<1> DEFINE list == Fetched(j, run)
           A == [name : Nat, content : Contents]
<1>1. /\ DOMAIN j.assets = 1 .. Len(j.assets) /\ Len(j.assets) \in Nat
      /\ \A i \in 1 .. Len(j.assets) : j.assets[i] \in A
  BY Elements
<1>2. list = [i \in DOMAIN j.assets |->
                [id |-> j.assets[i].name, content |-> j.assets[i].content, repo |-> "none"]]
  BY DEF Fetched
<1>3. DOMAIN list = 1 .. Len(j.assets) /\ list = [i \in 1 .. Len(j.assets) |-> list[i]]
      /\ \A i \in 1 .. Len(j.assets) : list[i] =
            [id |-> j.assets[i].name, content |-> j.assets[i].content, repo |-> "none"]
  BY <1>1, <1>2
<1> HIDE DEF list
<1>4. \A i \in 1 .. Len(j.assets) : list[i] \in EntryType
  <2> SUFFICES ASSUME NEW i \in 1 .. Len(j.assets) PROVE list[i] \in EntryType
    OBVIOUS
  <2>1. j.assets[i] \in A
    BY <1>1
  <2>2. [id |-> j.assets[i].name, content |-> j.assets[i].content, repo |-> "none"] \in EntryType
    BY <2>1, AssetEntry
  <2> QED BY <1>3, <2>2
<1>5. list \in Seq(EntryType)
  <2>1. list \in [1 .. Len(j.assets) -> EntryType]
    BY <1>3, <1>4
  <2> QED BY SMTT(60), <1>1, <2>1, SeqDef
<1>6. Len(list) = Len(j.assets)
  BY <1>1, <1>3, <1>5, Elements
<1>7. ASSUME ValidAssets(j) PROVE Distinct(list)
  <2>1. \A i \in DOMAIN list : list[i].id = j.assets[i].name
    <3> SUFFICES ASSUME NEW i \in 1 .. Len(j.assets) PROVE list[i].id = j.assets[i].name
      BY <1>3
    <3>1. list[i] = [id |-> j.assets[i].name, content |-> j.assets[i].content, repo |-> "none"]
      BY <1>3
    <3> QED BY <3>1
  <2>2. \A i, k \in DOMAIN j.assets : i # k => j.assets[i].name # j.assets[k].name
    BY <1>7 DEF ValidAssets
  <2>3. DOMAIN list = DOMAIN j.assets
    BY <1>1, <1>3
  <2> QED BY <2>1, <2>2, <2>3 DEF Distinct
<1> QED BY <1>1, <1>3, <1>5, <1>6, <1>7 DEF list

LEMMA FetchedBlobs ==
    ASSUME NEW j, j.kind = "blobs", NEW n, NEW run, GatheredFrom(j, run, n), run.generations = <<>>
    PROVE  /\ Fetched(j, run) = Entries(run.picked) /\ Fetched(j, run) = Gathered(run)
           /\ Fetched(j, run) \in Seq(EntryType) /\ Len(Fetched(j, run)) = Len(run.picked)
           /\ Distinct(Fetched(j, run))
           /\ \A i \in DOMAIN run.picked :
                 /\ Fetched(j, run)[i] = Entry(run.picked[i])
                 /\ run.picked[i].content = run.picked[i].id
                 /\ run.picked[i].content \in Contents
<1>1. run.picked \in Seq(RowType) /\ Fetched(j, run) = Entries(run.picked)
  BY DEF GatheredFrom, Fetched
<1>2. /\ Entries(run.picked) \in Seq(EntryType) /\ Len(Entries(run.picked)) = Len(run.picked)
      /\ DOMAIN Entries(run.picked) = DOMAIN run.picked
      /\ \A i \in DOMAIN run.picked : Entries(run.picked)[i] = Entry(run.picked[i])
  BY <1>1, EntriesAre
<1>3. Gathered(run) = Entries(run.picked)
  <2>1. Gathered(run) = <<>> \o Entries(run.picked)
    BY FlatEmpty DEF Gathered
  <2> QED BY <1>2, <2>1, ConcatEmptySeq
<1>4. Distinct(Entries(run.picked)) /\ \A e \in ToSet(Entries(run.picked)) : e.content = e.id
  BY <1>3 DEF GatheredFrom
<1>5. ASSUME NEW i \in DOMAIN run.picked
      PROVE  run.picked[i].content = run.picked[i].id /\ run.picked[i].content \in Contents
  <2>1. Entry(run.picked[i]) \in ToSet(Entries(run.picked))
    BY <1>2 DEF ToSet
  <2>2. Entry(run.picked[i]).content = Entry(run.picked[i]).id
    BY <1>4, <2>1
  <2>3. run.picked[i] \in RowType
    BY <1>1, Elements
  <2> QED BY <2>2, <2>3, EntryId DEF RowType
<1> QED BY <1>1, <1>2, <1>3, <1>4, <1>5

LEMMA OneMore ==
    ASSUME NEW S, NEW list \in Seq(S), NEW n \in 1 .. Len(list), Distinct(list)
    PROVE  /\ SubSeq(list, 1, n - 1) \in Seq(S)
           /\ SubSeq(list, 1, n) = Append(SubSeq(list, 1, n - 1), list[n])
           /\ Distinct(SubSeq(list, 1, n))
<1>1. DOMAIN list = 1 .. Len(list) /\ Len(list) \in Nat /\ \A i \in 1 .. Len(list) : list[i] \in S
  BY Elements
<1> DEFINE a == SubSeq(list, 1, n - 1)
           b == SubSeq(list, 1, n)
<1>2. ASSUME NEW m \in 0 .. Len(list)
      PROVE  /\ SubSeq(list, 1, m) \in Seq(S) /\ Len(SubSeq(list, 1, m)) = m
             /\ \A i \in 1 .. m : SubSeq(list, 1, m)[i] = list[i]
  <2>1. 1 \in Int /\ m \in Int /\ \A i \in 1 .. m : list[i] \in S
    BY <1>1
  <2>2. /\ SubSeq(list, 1, m) \in Seq(S)
        /\ Len(SubSeq(list, 1, m)) = IF 1 <= m THEN m - 1 + 1 ELSE 0
        /\ \A i \in 1 .. m - 1 + 1 : SubSeq(list, 1, m)[i] = list[1 + i - 1]
    BY <2>1, SubSeqProperties
  <2>3. \A i \in 1 .. m : i \in 1 .. m - 1 + 1 /\ 1 + i - 1 = i
    OBVIOUS
  <2>4. \A i \in 1 .. m : SubSeq(list, 1, m)[i] = list[i]
    BY <2>2, <2>3
  <2> QED BY <2>2, <2>4
<1>3. n - 1 \in 0 .. Len(list) /\ n \in 0 .. Len(list) /\ n \in Nat
  BY <1>1
<1>4. /\ a \in Seq(S) /\ Len(a) = n - 1 /\ \A i \in 1 .. n - 1 : a[i] = list[i]
  BY <1>2, <1>3
<1>5. /\ b \in Seq(S) /\ Len(b) = n /\ \A i \in 1 .. n : b[i] = list[i]
  BY <1>2, <1>3
<1> HIDE DEF a, b
<1>6. b = Append(a, list[n])
  <2> DEFINE c == Append(a, list[n])
  <2>0. list[n] \in S
    BY <1>1
  <2>1. /\ c \in Seq(S) /\ Len(c) = Len(a) + 1 /\ (\A i \in 1 .. Len(a) : c[i] = a[i])
        /\ c[Len(a) + 1] = list[n]
    BY <1>4, <2>0, AppendProperties
  <2> HIDE DEF c
  <2>2. \A i \in 1 .. n : b[i] = c[i]
    <3>1. \A i \in 1 .. n : i \in 1 .. n - 1 \/ i = n
      BY <1>3
    <3>2. (n - 1) + 1 = n
      BY <1>3
    <3> QED BY <1>4, <1>5, <2>1, <3>1, <3>2
  <2>3. Len(b) = Len(c)
    BY <1>3, <1>4, <1>5, <2>1
  <2>4. b = c
    BY <1>5, <2>1, <2>2, <2>3, SeqEqual
  <2> QED BY <2>4 DEF c
<1>7. DOMAIN b = 1 .. n
  BY <1>5, Elements
<1>8. \A i \in 1 .. n : i \in 1 .. Len(list)
  BY <1>1
<1>9. Distinct(b)
  BY <1>1, <1>5, <1>7, <1>8 DEF Distinct
<1> QED BY <1>4, <1>6, <1>9 DEF a, b

LEMMA NothingArrived ==
    ASSUME NEW j, NEW run, NEW t, Fetched(j, run) \in Seq(EntryType), Len(Fetched(j, run)) # 0,
           run.at = "fetching", run.next = 1, run.bytes = 0, t.files = <<>>, j.maxBytes \in Nat
    PROVE  Arrived(j, run, t)
<1>1. Len(Fetched(j, run)) \in Nat /\ 1 - 1 = 0
  BY Elements
<1>2. SubSeq(Fetched(j, run), 1, run.next - 1) = <<>>
  <2>1. SubSeq(Fetched(j, run), 1, 0) = <<>>
    BY SubSeqEmpty
  <2> QED BY <1>1, <2>1
<1>3. run.next \in 1 .. Len(Fetched(j, run)) + 1 /\ run.next <= Len(Fetched(j, run))
  BY <1>1
<1>4. run.bytes <= j.maxBytes
  OBVIOUS
<1> QED BY <1>2, <1>3, <1>4, HoldsNothing, BytesEmpty DEF Arrived

LEMMA OneArrives ==
    ASSUME NEW j, NEW run, NEW t, Arrived(j, run, t), run.at = "fetching",
           NEW list \in Seq(EntryType), list = Fetched(j, run), Distinct(list),
           NEW run2, Fetched(j, run2) = list, run2.next = run.next + 1,
           run2.at = IF run.next < Len(list) THEN "fetching" ELSE "sharding",
           NEW t2, t2.files = With(t.files, list[run.next].id, list[run.next].content),
           j.kind = "blobs" => /\ run2.bytes = run.bytes + LengthOf[list[run.next].content]
                               /\ run2.bytes <= j.maxBytes
    PROVE  Arrived(j, run2, t2)
<1> DEFINE n == run.next
           a == SubSeq(list, 1, n - 1)
           b == SubSeq(list, 1, n)
<1>1. n \in 1 .. Len(list) /\ Len(list) \in Nat
  <2>1. Len(list) \in Nat
    BY Elements
  <2> QED BY <2>1 DEF Arrived
<1>2. a \in Seq(EntryType) /\ b = Append(a, list[n]) /\ Distinct(b) /\ list[n] \in EntryType
  BY <1>1, OneMore, Elements
<1>3. Holds(t.files, a)
  BY DEF Arrived
<1>4. (n + 1) - 1 = n /\ n + 1 \in 1 .. Len(list) + 1
  BY <1>1
<1>5. j.kind = "blobs" => run.bytes = BytesOf(a)
  BY DEF Arrived
<1>6. run2.at = "fetching" <=> run2.next <= Len(list)
  BY <1>1
<1> HIDE DEF a, b, n
<1>7. Holds(t2.files, b)
  BY <1>2, <1>3, HoldsOne DEF n
<1>8. BytesOf(b) = BytesOf(a) + LengthOf[list[n].content]
  BY <1>2, BytesAppend
<1>9. SubSeq(Fetched(j, run2), 1, run2.next - 1) = b
  BY <1>4 DEF b, n
<1>10. run2.next \in 1 .. Len(list) + 1
  BY <1>4 DEF n
<1>11. j.kind = "blobs" => run2.bytes = BytesOf(b)
  BY <1>5, <1>8 DEF n
<1> QED BY <1>6, <1>7, <1>9, <1>10, <1>11 DEF Arrived

-----------------------------------------------------------------------------
(* What a step of a process touches.                                        *)
Moves(p) ==
    /\ DOMAIN runs' = Procs /\ \A q \in Procs : q # p => runs'[q] = runs[q]
    /\ DOMAIN partial' = Roots \X Procs
    /\ \A r \in Roots, q \in Procs : q # p => partial'[<<r, q>>] = partial[<<r, q>>]
    /\ UNCHANGED <<shards, tree>>

(* A run that goes on, and is still sound, or has ended without success.    *)
GoesOn(p) ==
    /\ runs'[p].at # "ok"
    /\ runs'[p].at \notin Ended =>
          Sound(runs'[p], partial'[<<Jobs[runs'[p].job].root, p>>])

LEMMA JobsAre ==
    ASSUME NEW n \in DOMAIN Jobs
    PROVE  /\ Jobs[n].kind \in {"assets", "discover", "blobs", "rows", "tree"}
           /\ Jobs[n].maxDocuments \in Nat /\ Jobs[n].maxBytes \in Nat
           /\ Jobs[n].perGeneration \in Nat \ {0}
           /\ Jobs[n].kind \in {"assets", "discover"} =>
                 Jobs[n].assets \in Seq([name : Nat, content : Contents])
           /\ Jobs[n].kind \in {"blobs", "rows"} => Jobs[n].shards \in Seq(DOMAIN PinnedRows)
           /\ Jobs[n].kind # "discover" => Jobs[n].root \in Roots
BY AcquisitionAssumption

LEMMA DiscoverySound ==
    ASSUME NEW run, NEW t, NEW t2, Sound(run, t), Jobs[run.job].kind = "discover"
    PROVE  Sound(run, t2)
<1>1. ~ Publishes(Jobs[run.job])
  BY DEF Publishes
<1>2. run.at \notin {"publishing", "installing"}
  BY <1>1 DEF Sound
<1> QED BY <1>1, <1>2 DEF Sound

LEMMA OthersSound ==
    ASSUME IInv, NEW p \in Procs, Moves(p), NEW q \in Procs, q # p PROVE RunSound(q)'
<1> SUFFICES ASSUME runs[q].at \notin Ended
             PROVE  Sound(runs[q], partial'[<<Jobs[runs[q].job].root, q>>])
  BY DEF Moves, RunSound, Running, Job
<1>1. Sound(runs[q], partial[<<Jobs[runs[q].job].root, q>>])
  BY DEF IInv, RunSound, Running, Job
<1>2. CASE Jobs[runs[q].job].kind = "discover"
  BY <1>1, <1>2, DiscoverySound
<1>3. CASE Jobs[runs[q].job].kind # "discover"
  <2>1. runs[q].job \in DOMAIN Jobs
    BY <1>1 DEF Sound
  <2>2. Jobs[runs[q].job].root \in Roots
    BY <1>3, <2>1, JobsAre
  <2>3. partial'[<<Jobs[runs[q].job].root, q>>] = partial[<<Jobs[runs[q].job].root, q>>]
    BY <2>2 DEF Moves
  <2> QED BY <1>1, <2>3
<1> QED BY <1>2, <1>3

LEMMA Carried ==
    ASSUME IInv, NEW p \in Procs, Moves(p), GoesOn(p), root' = root PROVE IInv'
<1>1. StateType'
  BY DEF IInv, StateType, Moves
<1>2. ASSUME NEW q \in Procs PROVE RunSound(q)' /\ OkSound(q)'
  <2>1. CASE q = p
    <3>1. RunSound(p)'
      BY DEF GoesOn, RunSound, Running, Job
    <3>2. OkSound(p)'
      BY DEF GoesOn, OkSound
    <3> QED BY <2>1, <3>1, <3>2
  <2>2. CASE q # p
    <3>1. RunSound(q)'
      BY <2>2, OthersSound
    <3>2. runs'[q] = runs[q]
      BY <2>2 DEF Moves
    <3>3. OkSound(q)
      BY DEF IInv
    <3>4. OkSound(q)'
      BY <3>2, <3>3 DEF OkSound, Job, Exists
    <3> QED BY <3>1, <3>4
  <2> QED BY <2>1, <2>2
<1>3. ASSUME NEW r \in Roots PROVE RootSound(r)'
  <2>1. RootSound(r)
    BY DEF IInv
  <2> QED BY <2>1 DEF RootSound, Exists
<1> QED BY <1>1, <1>2, <1>3 DEF IInv

(* The ways a step sets the run of its process and its partial trees.       *)
LEMMA RunsMove ==
    ASSUME IInv, NEW p \in Procs, NEW run, runs' = [runs EXCEPT ![p] = run]
    PROVE  DOMAIN runs' = Procs /\ runs'[p] = run /\ \A q \in Procs : q # p => runs'[q] = runs[q]
BY DEF IInv, StateType

LEMMA PartialMoves ==
    ASSUME IInv, NEW p \in Procs, NEW r \in Roots, NEW t, partial' = [partial EXCEPT ![<<r, p>>] = t]
    PROVE  /\ DOMAIN partial' = Roots \X Procs /\ partial'[<<r, p>>] = t
           /\ \A s \in Roots, q \in Procs : q # p => partial'[<<s, q>>] = partial[<<s, q>>]
<1>1. DOMAIN partial = Roots \X Procs /\ <<r, p>> \in Roots \X Procs
  BY DEF IInv, StateType
<1>2. \A s \in Roots, q \in Procs : <<s, q>> \in Roots \X Procs /\ (q # p => <<s, q>> # <<r, p>>)
  OBVIOUS
<1> QED BY <1>1, <1>2

LEMMA PartialStays ==
    ASSUME IInv, NEW p \in Procs, UNCHANGED partial
    PROVE  /\ DOMAIN partial' = Roots \X Procs
           /\ \A s \in Roots, q \in Procs : q # p => partial'[<<s, q>>] = partial[<<s, q>>]
BY DEF IInv, StateType

LEMMA RunIs ==
    ASSUME IInv, NEW p \in Procs, Running(p)
    PROVE  /\ Sound(runs[p], partial[<<Job(p).root, p>>])
           /\ DOMAIN runs[p] = RunFields /\ runs[p].job \in DOMAIN Jobs /\ Job(p) = Jobs[runs[p].job]
           /\ Publishes(Job(p)) => Job(p).root \in Roots
<1>1. Sound(runs[p], partial[<<Job(p).root, p>>])
  BY DEF IInv, RunSound
<1>2. runs[p].job \in DOMAIN Jobs /\ DOMAIN runs[p] = RunFields
  BY <1>1 DEF Sound
<1> QED BY <1>1, <1>2, JobsAre DEF Job, Publishes

LEMMA EndCarried ==
    ASSUME IInv, NEW p \in Procs, Running(p), NEW how \in {"failed", "done", "idle"}, Reported(p, how),
           UNCHANGED partial \/ (Publishes(Job(p)) /\ DropPartial(p, Job(p).root)),
           UNCHANGED <<root, shards, tree>>
    PROVE  IInv'
<1>1. DOMAIN runs' = Procs /\ runs'[p] = [at |-> how] /\ \A q \in Procs : q # p => runs'[q] = runs[q]
  BY RunsMove DEF Reported
<1>2. /\ DOMAIN partial' = Roots \X Procs
      /\ \A s \in Roots, q \in Procs : q # p => partial'[<<s, q>>] = partial[<<s, q>>]
  <2>1. CASE UNCHANGED partial
    BY <2>1, PartialStays
  <2>2. CASE Publishes(Job(p)) /\ DropPartial(p, Job(p).root)
    <3>1. Job(p).root \in Roots
      BY <2>2, RunIs
    <3> QED BY <2>2, <3>1, PartialMoves DEF DropPartial
  <2> QED BY <2>1, <2>2
<1>3. Moves(p)
  BY <1>1, <1>2 DEF Moves
<1>4. GoesOn(p)
  <2>1. runs'[p].at = how
    BY <1>1
  <2> QED BY <2>1 DEF GoesOn, Ended
<1> QED BY <1>3, <1>4, Carried

LEMMA FailCarried ==
    ASSUME IInv, NEW p \in Procs, Running(p), Fail(p), UNCHANGED <<root, shards, tree>> PROVE IInv'
<1>1. Reported(p, "failed") /\ (UNCHANGED partial \/ (Publishes(Job(p)) /\ DropPartial(p, Job(p).root)))
  BY DEF Fail
<1> QED BY <1>1, EndCarried

(* Only what says how far the transfers got has changed.                    *)
LEMMA SameSound ==
    ASSUME NEW run, NEW t, Sound(run, t), NEW run2, DOMAIN run2 = RunFields,
           run2.job = run.job, run2.at = run.at, run2.next = run.next, run2.picked = run.picked,
           run2.seen = run.seen, run2.generations = run.generations, run2.bytes = run.bytes,
           run2.raced = run.raced
    PROVE  Sound(run2, t)
<1> DEFINE j == Jobs[run.job]
<1>1. Jobs[run2.job] = j
  OBVIOUS
<1>2. Gathered(run2) = Gathered(run) /\ Fetched(j, run2) = Fetched(j, run)
  BY DEF Gathered, Fetched
<1>3. \A n : GatheredFrom(j, run, n) => GatheredFrom(j, run2, n)
  BY <1>2 DEF GatheredFrom
<1>4. Arrived(j, run, t) => Arrived(j, run2, t)
  BY <1>2 DEF Arrived
<1>5. /\ AssetsSound(j, run, t) => AssetsSound(j, run2, t)
      /\ BlobsSound(j, run, t) => BlobsSound(j, run2, t)
      /\ RowsSound(j, run, t) => RowsSound(j, run2, t)
      /\ TreeSound(j, run) => TreeSound(j, run2)
  <2>1. AssetsSound(j, run, t) => AssetsSound(j, run2, t)
    BY <1>4 DEF AssetsSound
  <2>2. BlobsSound(j, run, t) => BlobsSound(j, run2, t)
    BY <1>3, <1>4 DEF BlobsSound
  <2>3. RowsSound(j, run, t) => RowsSound(j, run2, t)
    BY <1>3 DEF RowsSound
  <2>4. TreeSound(j, run) => TreeSound(j, run2)
    BY DEF TreeSound
  <2> QED BY <2>1, <2>2, <2>3, <2>4
<1>6. ListedAsPinned(t, run2) = ListedAsPinned(t, run) /\ FilesAsListed(t, run2) = FilesAsListed(t, run)
  BY DEF ListedAsPinned, FilesAsListed
<1> QED BY <1>1, <1>5, <1>6 DEF Sound

(* A step after which the run goes on, in its partial tree t.               *)
LEMMA GoesOnCarried ==
    ASSUME IInv, NEW p \in Procs, Running(p),
           DOMAIN runs' = Procs, \A q \in Procs : q # p => runs'[q] = runs[q],
           NEW run, runs'[p] = run, run.job = runs[p].job, run.at # "ok",
           NEW t, \/ UNCHANGED partial /\ t = partial[<<Job(p).root, p>>]
                  \/ Publishes(Job(p)) /\ partial' = [partial EXCEPT ![<<Job(p).root, p>>] = t],
           Sound(run, t), UNCHANGED <<root, shards, tree>>
    PROVE  IInv'
<1>1. /\ DOMAIN partial' = Roots \X Procs
      /\ \A s \in Roots, q \in Procs : q # p => partial'[<<s, q>>] = partial[<<s, q>>]
      /\ partial'[<<Job(p).root, p>>] = t
  <2>1. CASE UNCHANGED partial /\ t = partial[<<Job(p).root, p>>]
    BY <2>1, PartialStays
  <2>2. CASE Publishes(Job(p)) /\ partial' = [partial EXCEPT ![<<Job(p).root, p>>] = t]
    <3>1. Job(p).root \in Roots
      BY <2>2, RunIs
    <3> QED BY <2>2, <3>1, PartialMoves
  <2> QED BY <2>1, <2>2
<1>2. Moves(p)
  BY <1>1 DEF Moves
<1>3. Jobs[runs'[p].job].root = Job(p).root
  BY DEF Job
<1>4. GoesOn(p)
  BY <1>1, <1>3 DEF GoesOn
<1> QED BY <1>2, <1>4, Carried

(* Where a run can be says what kind of job it is.                          *)
LEMMA KindAt ==
    ASSUME NEW run, NEW t, Sound(run, t)
    PROVE  /\ run.at \in {"verifying", "reading"} => Jobs[run.job].kind \in {"blobs", "rows"}
           /\ run.at = "walking" => Jobs[run.job].kind = "tree"
           /\ run.at = "fetching" => Jobs[run.job].kind \in {"assets", "discover", "blobs"}
           /\ run.at \in {"sharding", "publishing", "installing"} => Publishes(Jobs[run.job])
<1> DEFINE j == Jobs[run.job]
<1>1. j.kind \in {"assets", "discover", "blobs", "rows", "tree"}
  BY JobsAre DEF Sound
<1>2. CASE run.at \in {"publishing", "installing"}
  BY <1>2 DEF Sound
<1>3. CASE run.at \notin {"publishing", "installing"}
  <2>1. CASE j.kind = "assets"
    BY <1>3, <2>1 DEF Sound, AssetsSound, Publishes
  <2>2. CASE j.kind = "discover"
    BY <1>3, <2>2 DEF Sound
  <2>3. CASE j.kind = "blobs"
    BY <1>3, <2>3 DEF Sound, BlobsSound, Publishes
  <2>4. CASE j.kind = "rows"
    BY <1>3, <2>4 DEF Sound, RowsSound, Publishes
  <2>5. CASE j.kind = "tree"
    BY <1>3, <2>5 DEF Sound, TreeSound, Publishes
  <2> QED BY <1>1, <2>1, <2>2, <2>3, <2>4, <2>5
<1> QED BY <1>2, <1>3

(* From the digest of a shard to its rows.                                  *)
LEMMA VerifiedSound ==
    ASSUME NEW run, NEW t, Sound(run, t), run.at = "verifying", NEW run2, DOMAIN run2 = RunFields,
           run2.job = run.job, run2.at = "reading", run2.next = run.next, run2.picked = run.picked,
           run2.seen = run.seen, run2.generations = run.generations, run2.bytes = run.bytes,
           run2.raced = run.raced
    PROVE  Sound(run2, t)
<1> DEFINE j == Jobs[run.job]
<1>1. Gathered(run2) = Gathered(run)
  BY DEF Gathered
<1>2. \A n : GatheredFrom(j, run, n) => GatheredFrom(j, run2, n)
  BY <1>1 DEF GatheredFrom
<1>3. /\ BlobsSound(j, run, t) => BlobsSound(j, run2, t)
      /\ RowsSound(j, run, t) => RowsSound(j, run2, t)
  <2>1. BlobsSound(j, run, t) => BlobsSound(j, run2, t)
    BY <1>2 DEF BlobsSound
  <2>2. RowsSound(j, run, t) => RowsSound(j, run2, t)
    BY <1>2 DEF RowsSound
  <2> QED BY <2>1, <2>2
<1>4. j.kind \in {"blobs", "rows"}
  BY KindAt
<1> QED BY <1>3, <1>4 DEF Sound

LEMMA VerifyShardCarried ==
    ASSUME IInv, NEW p \in Procs, VerifyShard(p) PROVE IInv'
<1>1. Running(p) /\ runs[p].at = "verifying" /\ UNCHANGED <<root, shards, tree>>
  BY DEF VerifyShard, Running, Ended
<1>2. CASE Fail(p)
  BY <1>1, <1>2, FailCarried
<1>3. CASE runs' = [runs EXCEPT ![p].at = "reading"] /\ UNCHANGED partial
  <2> DEFINE run == [runs[p] EXCEPT !.at = "reading"]
             t == partial[<<Job(p).root, p>>]
  <2>1. Sound(runs[p], t) /\ DOMAIN runs[p] = RunFields
    BY <1>1, RunIs
  <2>2. DOMAIN runs' = Procs /\ runs'[p] = run /\ \A q \in Procs : q # p => runs'[q] = runs[q]
    BY <1>3, RunsMove
  <2>3. /\ DOMAIN run = RunFields /\ run.at = "reading"
        /\ run.job = runs[p].job /\ run.next = runs[p].next /\ run.picked = runs[p].picked
        /\ run.seen = runs[p].seen /\ run.generations = runs[p].generations
        /\ run.bytes = runs[p].bytes /\ run.raced = runs[p].raced
    BY <2>1 DEF RunFields
  <2>4. PICK run2 : run2 = run
    OBVIOUS
  <2> HIDE DEF run
  <2>5. Sound(run2, t)
    BY <1>1, <2>1, <2>3, <2>4, VerifiedSound
  <2> QED BY <1>1, <1>3, <2>2, <2>3, <2>4, <2>5, GoesOnCarried
<1> QED BY <1>2, <1>3 DEF VerifyShard

LEMMA TransfersGoOn ==
    ASSUME IInv, NEW p \in Procs, Running(p), NEW run, runs' = [runs EXCEPT ![p] = run],
           \E hops, retries : run = [runs[p] EXCEPT !.hops = hops, !.retries = retries],
           UNCHANGED <<partial, root, shards, tree>>
    PROVE  IInv'
<1> DEFINE t == partial[<<Job(p).root, p>>]
<1>1. Sound(runs[p], t) /\ DOMAIN runs[p] = RunFields
  BY RunIs
<1>2. DOMAIN runs' = Procs /\ runs'[p] = run /\ \A q \in Procs : q # p => runs'[q] = runs[q]
  BY RunsMove
<1>3. /\ DOMAIN run = RunFields /\ run.at = runs[p].at
      /\ run.job = runs[p].job /\ run.next = runs[p].next /\ run.picked = runs[p].picked
      /\ run.seen = runs[p].seen /\ run.generations = runs[p].generations
      /\ run.bytes = runs[p].bytes /\ run.raced = runs[p].raced
  BY <1>1 DEF RunFields
<1>4. Sound(run, t)
  BY <1>1, <1>3, SameSound
<1>5. run.at # "ok"
  BY <1>3 DEF Running, Ended
<1> QED BY <1>2, <1>3, <1>4, <1>5, GoesOnCarried

LEMMA TransferCarried ==
    ASSUME IInv, NEW p \in Procs, Redirected(p) \/ NotNow(p) \/ NotThis(p) PROVE IInv'
<1>1. Running(p) /\ UNCHANGED <<root, shards, tree>>
  BY DEF Redirected, NotNow, NotThis, Running, Ended
<1>2. CASE Fail(p)
  BY <1>1, <1>2, FailCarried
<1>3. DOMAIN runs[p] = RunFields /\ DOMAIN runs = Procs
  BY <1>1, RunIs DEF IInv, StateType
<1>4. ASSUME NEW hops, NEW retries, UNCHANGED partial,
             runs' = [runs EXCEPT ![p] = [runs[p] EXCEPT !.hops = hops, !.retries = retries]]
      PROVE  IInv'
  <2>1. PICK run : run = [runs[p] EXCEPT !.hops = hops, !.retries = retries]
    OBVIOUS
  <2>2. runs' = [runs EXCEPT ![p] = run]
    BY <1>4, <2>1
  <2>3. \E h, r : run = [runs[p] EXCEPT !.hops = h, !.retries = r]
    BY <2>1
  <2> QED BY ONLY IInv, p \in Procs, <1>1, <1>4, <2>2, <2>3, TransfersGoOn
<1>5. CASE runs' = [runs EXCEPT ![p].hops = @ + 1] /\ UNCHANGED partial
  <2>1. PICK hops, retries : hops = runs[p].hops + 1 /\ retries = runs[p].retries
    OBVIOUS
  <2>2. runs' = [runs EXCEPT ![p] = [runs[p] EXCEPT !.hops = hops, !.retries = retries]]
    BY <1>3, <1>5, <2>1 DEF RunFields
  <2> QED BY <1>4, <1>5, <2>2
<1>6. CASE runs' = [runs EXCEPT ![p].retries = @ + 1, ![p].hops = 0] /\ UNCHANGED partial
  <2>1. PICK hops, retries : hops = 0 /\ retries = runs[p].retries + 1
    OBVIOUS
  <2>2. runs' = [runs EXCEPT ![p] = [runs[p] EXCEPT !.hops = hops, !.retries = retries]]
    BY <1>3, <1>6, <2>1 DEF RunFields
  <2> QED BY <1>4, <1>6, <2>2
<1> QED BY <1>2, <1>5, <1>6 DEF Redirected, NotNow, NotThis

(* Looking before the rename, and the rename that is refused.               *)
LEMMA LookedSound ==
    ASSUME NEW run, NEW t, Sound(run, t), run.at = "publishing", NEW run2, DOMAIN run2 = RunFields,
           run2.job = run.job, run2.at = "installing", run2.next = run.next, run2.raced = run.raced
    PROVE  Sound(run2, t)
<1>1. ListedAsPinned(t, run2) = ListedAsPinned(t, run) /\ FilesAsListed(t, run2) = FilesAsListed(t, run)
  BY DEF ListedAsPinned, FilesAsListed
<1> QED BY <1>1 DEF Sound

LEMMA LookCarried ==
    ASSUME IInv, NEW p \in Procs, LookBeforeRename(p) PROVE IInv'
<1>1. Running(p) /\ runs[p].at = "publishing" /\ UNCHANGED <<root, shards, tree>>
  BY DEF LookBeforeRename, Running, Ended
<1>2. CASE Fail(p)
  BY <1>1, <1>2, FailCarried
<1>3. CASE runs' = [runs EXCEPT ![p].at = "installing"] /\ UNCHANGED partial
  <2> DEFINE run == [runs[p] EXCEPT !.at = "installing"]
             t == partial[<<Job(p).root, p>>]
  <2>1. Sound(runs[p], t) /\ DOMAIN runs[p] = RunFields
    BY <1>1, RunIs
  <2>2. DOMAIN runs' = Procs /\ runs'[p] = run /\ \A q \in Procs : q # p => runs'[q] = runs[q]
    BY <1>3, RunsMove
  <2>3. /\ DOMAIN run = RunFields /\ run.at = "installing"
        /\ run.job = runs[p].job /\ run.next = runs[p].next /\ run.raced = runs[p].raced
    BY <2>1 DEF RunFields
  <2>4. PICK run2 : run2 = run
    OBVIOUS
  <2> HIDE DEF run
  <2>5. Sound(run2, t)
    BY <1>1, <2>1, <2>3, <2>4, LookedSound
  <2> QED BY <1>1, <1>3, <2>2, <2>3, <2>4, <2>5, GoesOnCarried
<1> QED BY <1>2, <1>3 DEF LookBeforeRename

LEMMA RefusedCarried ==
    ASSUME IInv, NEW p \in Procs, RenameRefused(p) PROVE IInv'
<1>1. Running(p) /\ UNCHANGED <<root, shards, tree>> /\ Fail(p)
  BY DEF RenameRefused, Running, Ended
<1> QED BY <1>1, FailCarried

(* The rename.                                                              *)
LEMMA InstallCarried ==
    ASSUME IInv, NEW p \in Procs, Install(p) PROVE IInv'
<1> DEFINE run == runs[p]
           r == Job(p).root
           t == partial[<<r, p>>]
           label == [job |-> run.job, process |-> p, raced |-> run.raced]
<1>1. Running(p) /\ run.at = "installing" /\ UNCHANGED <<shards, tree>>
  BY DEF Install, Running, Ended
<1>2. Sound(run, t) /\ run.job \in DOMAIN Jobs
  BY <1>1, RunIs
<1>3. Publishes(Job(p)) /\ ListedAsPinned(t, run) /\ FilesAsListed(t, run)
  BY <1>1, <1>2 DEF Sound, Job
<1>4. r \in Roots
  BY <1>1, <1>3, RunIs
<1>5. /\ ~ Exists(r) /\ root' = [root EXCEPT ![r] = [tree |-> t, by |-> label]]
      /\ partial' = [partial EXCEPT ![<<r, p>>] = Absent]
      /\ \/ runs' = [runs EXCEPT ![p] = [at |-> "ok", job |-> run.job]]
         \/ runs' = [runs EXCEPT ![p] = [at |-> "failed"]]
  BY DEF Install, RenameNoReplace, Reported
<1>6. DOMAIN runs = Procs /\ DOMAIN root = Roots
  BY DEF IInv, StateType
<1>7. /\ root'[r] = [tree |-> t, by |-> label]
      /\ \A s \in Roots : s # r => root'[s] = root[s]
      /\ DOMAIN root' = Roots
  BY <1>4, <1>5, <1>6
<1>8. ListedAsPinned(t, label) /\ FilesAsListed(t, label)
  <2>1. ListedAsPinned(t, label) = ListedAsPinned(t, run)
    BY DEF ListedAsPinned
  <2>2. FilesAsListed(t, label) = FilesAsListed(t, run)
    BY DEF FilesAsListed
  <2> QED BY <1>3, <2>1, <2>2
<1>9. ASSUME NEW s \in Roots PROVE RootSound(s)'
  <2>1. CASE s = r
    <3>1. ListedAsPinned(root'[s].tree, root'[s].by) /\ FilesAsListed(root'[s].tree, root'[s].by)
      <4>1. root'[s].tree = t /\ root'[s].by = label
        BY <1>7, <2>1
      <4> HIDE DEF t, label
      <4> QED BY <1>8, <4>1
    <3> QED BY <3>1 DEF RootSound
  <2>2. CASE s # r
    <3>1. RootSound(s)
      BY DEF IInv
    <3> QED BY <1>7, <2>2, <3>1 DEF RootSound, Exists
  <2> QED BY <2>1, <2>2
<1>10. /\ DOMAIN runs' = Procs /\ \A q \in Procs : q # p => runs'[q] = runs[q]
       /\ runs'[p] = [at |-> "ok", job |-> run.job] \/ runs'[p] = [at |-> "failed"]
  BY <1>5, <1>6
<1>11. /\ DOMAIN partial' = Roots \X Procs
       /\ \A s \in Roots, q \in Procs : q # p => partial'[<<s, q>>] = partial[<<s, q>>]
  BY <1>4, <1>5, PartialMoves
<1>12. Moves(p)
  BY <1>1, <1>10, <1>11 DEF Moves
<1>13. StateType'
  BY <1>12, <1>7 DEF IInv, StateType, Moves
<1>14. ASSUME NEW q \in Procs PROVE RunSound(q)' /\ OkSound(q)'
  <2>1. CASE q = p
    <3>1. runs'[p].at \in {"ok", "failed"}
      BY <1>10
    <3>2. RunSound(p)'
      BY <3>1 DEF RunSound, Running, Ended
    <3>3. CASE runs'[p] = [at |-> "failed"]
      BY <2>1, <3>2, <3>3 DEF OkSound
    <3>4. CASE runs'[p] = [at |-> "ok", job |-> run.job]
      <4>1. runs'[p].job = run.job /\ runs'[p].at = "ok"
        BY <3>4
      <4>2. root'[r].by.process = p /\ root'[r] # Absent
        <5>1. root'[r].by.process = p
          BY <1>7
        <5>2. DOMAIN root'[r] = {"tree", "by"}
          BY <1>7
        <5>3. DOMAIN Absent = {"absent"}
          BY DEF Absent
        <5> QED BY <5>1, <5>2, <5>3
      <4>3. Job(p)' = Job(p)
        BY <4>1 DEF Job
      <4> QED BY <1>2, <1>3, <2>1, <3>2, <4>1, <4>2, <4>3 DEF OkSound, Exists
    <3> QED BY <1>10, <3>3, <3>4
  <2>2. CASE q # p
    <3>1. RunSound(q)'
      BY <1>12, <2>2, OthersSound
    <3>2. OkSound(q) /\ runs'[q] = runs[q]
      BY <1>10, <2>2 DEF IInv
    <3>3. ASSUME runs[q].at = "ok" PROVE root'[Job(q).root] = root[Job(q).root]
      <4>1. Exists(Job(q).root) /\ Job(q).root \in Roots
        BY <3>2, <3>3, JobsAre DEF OkSound, Publishes, Job
      <4>2. Job(q).root # r
        BY <1>5, <4>1
      <4> QED BY <1>7, <4>1, <4>2
    <3>4. OkSound(q)'
      <4> SUFFICES ASSUME runs'[q].at = "ok" PROVE OkSound(q)'
        BY DEF OkSound
      <4>1. Job(q)' = Job(q)
        BY <3>2 DEF Job
      <4> QED BY <3>2, <3>3, <4>1 DEF OkSound, Exists
    <3> QED BY <3>1, <3>4
  <2> QED BY <2>1, <2>2
<1> QED BY <1>9, <1>13, <1>14 DEF IInv

(* The environment.                                                         *)
LEMMA KillCarried ==
    ASSUME IInv, NEW p \in Procs, Kill(p) PROVE IInv'
<1>1. Running(p) /\ Reported(p, "idle") /\ UNCHANGED <<partial, root, shards, tree>>
  BY DEF Kill, Reported, Idle, treeVars
<1> QED BY <1>1, EndCarried

LEMMA TouchCarried ==
    ASSUME IInv, UNCHANGED <<partial, root, runs>>,
           DOMAIN shards' = DOMAIN shards, DOMAIN tree' = DOMAIN tree
    PROVE  IInv'
<1>1. StateType'
  BY DEF IInv, StateType
<1>2. \A p \in Procs : RunSound(p)' = RunSound(p) /\ OkSound(p)' = OkSound(p)
  BY DEF RunSound, OkSound, Running, Job, Exists
<1>3. \A r \in Roots : RootSound(r)' = RootSound(r)
  BY DEF RootSound, Exists
<1> QED BY <1>1, <1>2, <1>3 DEF IInv

(* Bodies that arrive.                                                      *)
LEMMA ContinueMoves ==
    ASSUME IInv, NEW p \in Procs, Running(p), NEW bytes, Continue(p, bytes)
    PROVE  /\ DOMAIN runs' = Procs /\ \A q \in Procs : q # p => runs'[q] = runs[q]
           /\ DOMAIN runs'[p] = RunFields /\ runs'[p].job = runs[p].job
           /\ runs'[p].next = runs[p].next + 1 /\ runs'[p].bytes = bytes
           /\ runs'[p].at = IF runs[p].next < Len(Items(p)) THEN runs[p].at ELSE "sharding"
           /\ runs'[p].picked = runs[p].picked /\ runs'[p].seen = runs[p].seen
           /\ runs'[p].generations = runs[p].generations /\ runs'[p].raced = runs[p].raced
<1>1. DOMAIN runs = Procs /\ DOMAIN runs[p] = RunFields
  BY RunIs DEF IInv, StateType
<1>2. PICK at : at = IF runs[p].next < Len(Items(p)) THEN runs[p].at ELSE "sharding"
  OBVIOUS
<1>3. runs' = [runs EXCEPT ![p] = [runs[p] EXCEPT !.bytes = bytes, !.retries = 0, !.hops = 0,
                                                   !.next = runs[p].next + 1, !.at = at]]
  BY <1>1, <1>2 DEF Continue, RunFields
<1>4. runs'[p] = [runs[p] EXCEPT !.bytes = bytes, !.retries = 0, !.hops = 0,
                                 !.next = runs[p].next + 1, !.at = at]
  BY <1>1, <1>3
<1>5. DOMAIN runs' = Procs /\ \A q \in Procs : q # p => runs'[q] = runs[q]
  BY <1>1, <1>3
<1> QED BY <1>1, <1>2, <1>4, <1>5 DEF RunFields

LEMMA FileWritten ==
    ASSUME NEW t, DOMAIN t = TreeFields, NEW files
    PROVE  /\ DOMAIN [t EXCEPT !.files = files] = TreeFields
           /\ [t EXCEPT !.files = files].files = files
           /\ [t EXCEPT !.files = files].generations = t.generations
           /\ [t EXCEPT !.files = files].index = t.index
BY DEF TreeFields

LEMMA AssetSound ==
    ASSUME NEW run, NEW t, Sound(run, t), NEW j, j = Jobs[run.job], j.kind = "assets", run.at = "fetching",
           NEW run2, DOMAIN run2 = RunFields, run2.job = run.job, run2.next = run.next + 1,
           run2.at = IF run.next < Len(j.assets) THEN "fetching" ELSE "sharding", run2.raced = run.raced,
           NEW t2, DOMAIN t2 = TreeFields,
           t2.files = With(t.files, j.assets[run.next].name, j.assets[run.next].content)
    PROVE  Sound(run2, t2)
<1>1. /\ run.job \in DOMAIN Jobs /\ Valid(j) /\ run.next \in Nat \ {0} /\ run.raced \in BOOLEAN
      /\ AssetsSound(j, run, t) /\ ~ run.raced
  BY DEF Sound
<1>2. Arrived(j, run, t)
  BY <1>1 DEF AssetsSound
<1>3. ValidAssets(j)
  BY <1>1 DEF Valid
<1>4. j.assets \in Seq([name : Nat, content : Contents])
  BY <1>1, JobsAre
<1>5. PICK list : list = Fetched(j, run)
  OBVIOUS
<1>6. /\ list \in Seq(EntryType) /\ Len(list) = Len(j.assets) /\ Distinct(list)
      /\ \A i \in DOMAIN j.assets : list[i] =
            [id |-> j.assets[i].name, content |-> j.assets[i].content, repo |-> "none"]
  BY ZenonT(60), <1>3, <1>4, <1>5, FetchedAssets
<1>7. Fetched(j, run2) = list
  BY <1>5 DEF Fetched
<1>8. run.next \in DOMAIN j.assets
  <2>1. run.next <= Len(list)
    BY <1>2, <1>5 DEF Arrived
  <2> QED BY <1>1, <1>4, <1>6, <2>1
<1>9. list[run.next].id = j.assets[run.next].name /\ list[run.next].content = j.assets[run.next].content
  <2>1. list[run.next] =
          [id |-> j.assets[run.next].name, content |-> j.assets[run.next].content, repo |-> "none"]
    BY SMTT(60), <1>6, <1>8
  <2> QED BY SMTT(60), <2>1
<1>10. t2.files = With(t.files, list[run.next].id, list[run.next].content)
  BY Zenon, <1>9
<1>11. run2.at = IF run.next < Len(list) THEN "fetching" ELSE "sharding"
  BY <1>6
<1>12. Arrived(j, run2, t2)
  <2>1. j.kind # "blobs"
    OBVIOUS
  <2> QED BY ONLY <1>2, run.at = "fetching", <1>6, <1>5, <1>7, run2.next = run.next + 1, <1>11, <1>10,
                  <2>1, OneArrives
<1>13. AssetsSound(j, run2, t2)
  BY <1>12 DEF AssetsSound
<1>14. Jobs[run2.job] = j /\ run2.next \in Nat \ {0} /\ run2.at \notin {"publishing", "installing"}
  BY <1>1
<1> QED BY <1>1, <1>13, <1>14 DEF Sound

LEMMA AssetCarried ==
    ASSUME IInv, NEW p \in Procs, AssetArrives(p) PROVE IInv'
<1>1. Running(p) /\ runs[p].at = "fetching" /\ Job(p).kind = "assets" /\ UNCHANGED <<root, shards, tree>>
  BY DEF AssetArrives, Running, Ended
<1>2. CASE Fail(p)
  BY <1>1, <1>2, FailCarried
<1>3. ASSUME NEW body, body = Item(p).content,
             Continue(p, runs[p].bytes + LengthOf[body]), WriteFile(p, Job(p).root, Item(p).name, body)
      PROVE  IInv'
  <2> DEFINE r == Job(p).root
             t == partial[<<r, p>>]
             t2 == [t EXCEPT !.files = With(t.files, Item(p).name, body)]
  <2>1. Sound(runs[p], t) /\ Job(p) = Jobs[runs[p].job] /\ Publishes(Job(p)) /\ r \in Roots
    BY <1>1, RunIs DEF Publishes
  <2>2. DOMAIN t = TreeFields
    BY <1>1, <2>1 DEF Sound
  <2>3. DOMAIN t2 = TreeFields /\ t2.files = With(t.files, Item(p).name, body)
    BY <2>2, FileWritten
  <2>4. Items(p) = Job(p).assets
    BY <1>1 DEF Items
  <2>5. PICK run2 : run2 = runs'[p]
    OBVIOUS
  <2>6. /\ DOMAIN runs' = Procs /\ \A q \in Procs : q # p => runs'[q] = runs[q]
        /\ DOMAIN run2 = RunFields /\ run2.job = runs[p].job
        /\ run2.next = runs[p].next + 1 /\ run2.raced = runs[p].raced
        /\ run2.at = IF runs[p].next < Len(Job(p).assets) THEN "fetching" ELSE "sharding"
    BY <1>1, <1>3, <2>4, <2>5, ContinueMoves
  <2>7. partial' = [partial EXCEPT ![<<r, p>>] = t2]
    BY <1>3 DEF WriteFile
  <2>8. PICK t3 : t3 = t2
    OBVIOUS
  <2> HIDE DEF t2
  <2>9. t3.files = With(t.files, Job(p).assets[runs[p].next].name, Job(p).assets[runs[p].next].content)
    BY <1>3, <2>3, <2>4, <2>8 DEF Item
  <2>10. PICK j, run, u : j = Job(p) /\ run = runs[p] /\ u = t
    OBVIOUS
  <2> HIDE DEF t
  <2>11. Sound(run2, t3)
    <3>1. Sound(run, u) /\ j = Jobs[run.job] /\ j.kind = "assets" /\ run.at = "fetching"
      BY <1>1, <2>1, <2>10
    <3>2. run2.job = run.job /\ run2.next = run.next + 1 /\ run2.raced = run.raced
      BY <2>6, <2>10
    <3>3. run2.at = IF run.next < Len(j.assets) THEN "fetching" ELSE "sharding"
      BY <2>6, <2>10
    <3>4. DOMAIN t3 = TreeFields
      BY <2>3, <2>8
    <3>5. t3.files = With(u.files, j.assets[run.next].name, j.assets[run.next].content)
      BY <2>9, <2>10
    <3>6. DOMAIN run2 = RunFields
      BY <2>6
    <3> HIDE DEF r
    <3> QED BY <3>1, <3>2, <3>3, <3>4, <3>5, <3>6, AssetSound
  <2>12. run2.at # "ok"
    BY <2>6
  <2> QED BY <1>1, <2>1, <2>5, <2>6, <2>7, <2>8, <2>11, <2>12, GoesOnCarried
<1> QED BY <1>1, <1>2, <1>3 DEF AssetArrives

LEMMA SameGathered ==
    ASSUME NEW j, NEW n, NEW run, GatheredFrom(j, run, n), NEW run2, run2.picked = run.picked,
           run2.generations = run.generations, run2.seen = run.seen, run2.raced = run.raced
    PROVE  GatheredFrom(j, run2, n)
<1>1. Gathered(run2) = Gathered(run)
  BY DEF Gathered
<1> QED BY <1>1 DEF GatheredFrom

LEMMA BlobSound ==
    ASSUME NEW run, NEW t, Sound(run, t), NEW j, j = Jobs[run.job], j.kind = "blobs", run.at = "fetching",
           NEW run2, DOMAIN run2 = RunFields, run2.job = run.job, run2.next = run.next + 1,
           run2.at = IF run.next < Len(run.picked) THEN "fetching" ELSE "sharding", run2.raced = run.raced,
           run2.picked = run.picked, run2.generations = run.generations, run2.seen = run.seen,
           NEW body, body = run.picked[run.next].id,
           run2.bytes = run.bytes + LengthOf[body], run2.bytes <= j.maxBytes,
           NEW t2, DOMAIN t2 = TreeFields, t2.files = With(t.files, run.picked[run.next].id, body)
    PROVE  Sound(run2, t2)
<1>1. /\ run.job \in DOMAIN Jobs /\ Valid(j) /\ run.next \in Nat \ {0} /\ run.raced \in BOOLEAN
      /\ BlobsSound(j, run, t)
  BY DEF Sound
<1>2. /\ run.generations = <<>> /\ GatheredFrom(j, run, Len(j.shards)) /\ run.picked # <<>>
      /\ Ascending(run.picked) /\ Arrived(j, run, t)
  BY <1>1 DEF BlobsSound
<1>3. PICK list : list = Fetched(j, run)
  OBVIOUS
<1>4. PICK n : n = Len(j.shards)
  OBVIOUS
<1>5. /\ list \in Seq(EntryType) /\ Len(list) = Len(run.picked) /\ Distinct(list)
      /\ \A i \in DOMAIN run.picked : /\ list[i] = Entry(run.picked[i])
                                      /\ run.picked[i].content = run.picked[i].id
  BY <1>2, <1>3, <1>4, FetchedBlobs
<1>6. run.picked \in Seq(RowType)
  BY <1>2 DEF GatheredFrom
<1>7. Fetched(j, run2) = list
  BY <1>3 DEF Fetched
<1>8. run.next \in DOMAIN run.picked
  <2>1. run.next <= Len(list)
    BY <1>2, <1>3 DEF Arrived
  <2> QED BY <1>1, <1>5, <1>6, <2>1
<1>9. list[run.next].id = body /\ list[run.next].content = body
  <2>1. list[run.next] = Entry(run.picked[run.next]) /\ run.picked[run.next].content = body
    BY <1>5, <1>8
  <2> QED BY <2>1, EntryId
<1>10. t2.files = With(t.files, list[run.next].id, list[run.next].content)
  BY <1>9
<1>11. run2.at = IF run.next < Len(list) THEN "fetching" ELSE "sharding"
  BY <1>5
<1>12. run2.bytes = run.bytes + LengthOf[list[run.next].content]
  BY <1>9
<1>13. Arrived(j, run2, t2)
  BY ONLY <1>2, run.at = "fetching", <1>5, <1>3, <1>7, run2.next = run.next + 1, <1>11, <1>10,
          <1>12, run2.bytes <= j.maxBytes, OneArrives
<1>14. GatheredFrom(j, run2, n)
  BY <1>2, <1>4, SameGathered
<1>15. run2.at \in {"fetching", "sharding"}
  BY <1>11
<1>16. BlobsSound(j, run2, t2)
  BY <1>2, <1>4, <1>13, <1>14, <1>15 DEF BlobsSound
<1>17. Jobs[run2.job] = j /\ run2.next \in Nat \ {0} /\ run2.at \notin {"publishing", "installing"}
  BY <1>1, <1>15
<1> QED BY <1>1, <1>16, <1>17 DEF Sound

LEMMA BlobCarried ==
    ASSUME IInv, NEW p \in Procs, BlobArrives(p) PROVE IInv'
<1>1. Running(p) /\ runs[p].at = "fetching" /\ Job(p).kind = "blobs" /\ UNCHANGED <<root, shards, tree>>
  BY DEF BlobArrives, Running, Ended
<1>2. CASE Fail(p)
  BY <1>1, <1>2, FailCarried
<1>3. ASSUME NEW body, body = Item(p).id, NEW bytes, bytes = runs[p].bytes + LengthOf[body],
             bytes <= Job(p).maxBytes,
             Continue(p, bytes), WriteFile(p, Job(p).root, Item(p).id, body)
      PROVE  IInv'
  <2> DEFINE r == Job(p).root
             t == partial[<<r, p>>]
             t2 == [t EXCEPT !.files = With(t.files, Item(p).id, body)]
  <2>1. Sound(runs[p], t) /\ Job(p) = Jobs[runs[p].job] /\ Publishes(Job(p)) /\ r \in Roots
    BY <1>1, RunIs DEF Publishes
  <2>2. DOMAIN t = TreeFields
    BY <1>1, <2>1 DEF Sound
  <2>3. DOMAIN t2 = TreeFields /\ t2.files = With(t.files, Item(p).id, body)
    BY <2>2, FileWritten
  <2>4. Items(p) = runs[p].picked
    BY <1>1 DEF Items
  <2>5. PICK run2 : run2 = runs'[p]
    OBVIOUS
  <2>6. /\ DOMAIN runs' = Procs /\ \A q \in Procs : q # p => runs'[q] = runs[q]
        /\ DOMAIN run2 = RunFields /\ run2.job = runs[p].job
        /\ run2.next = runs[p].next + 1 /\ run2.raced = runs[p].raced /\ run2.picked = runs[p].picked
        /\ run2.generations = runs[p].generations /\ run2.seen = runs[p].seen /\ run2.bytes = bytes
        /\ run2.at = IF runs[p].next < Len(runs[p].picked) THEN "fetching" ELSE "sharding"
    BY <1>1, <1>3, <2>4, <2>5, ContinueMoves
  <2>7. partial' = [partial EXCEPT ![<<r, p>>] = t2]
    BY <1>3 DEF WriteFile
  <2>8. PICK t3 : t3 = t2
    OBVIOUS
  <2> HIDE DEF t2
  <2>9. body = runs[p].picked[runs[p].next].id
    BY <1>3, <2>4 DEF Item
  <2>10. t3.files = With(t.files, runs[p].picked[runs[p].next].id, body)
    BY <2>3, <2>4, <2>8 DEF Item
  <2>11. PICK j, run, u : j = Job(p) /\ run = runs[p] /\ u = t
    OBVIOUS
  <2> HIDE DEF t
  <2>12. Sound(run2, t3)
    <3>1. Sound(run, u) /\ j = Jobs[run.job] /\ j.kind = "blobs" /\ run.at = "fetching"
      BY <1>1, <2>1, <2>11
    <3>2. /\ run2.job = run.job /\ run2.next = run.next + 1 /\ run2.raced = run.raced
          /\ run2.picked = run.picked /\ run2.generations = run.generations /\ run2.seen = run.seen
      BY <2>6, <2>11
    <3>3. run2.at = IF run.next < Len(run.picked) THEN "fetching" ELSE "sharding"
      BY <2>6, <2>11
    <3>4. DOMAIN t3 = TreeFields
      BY <2>3, <2>8
    <3>5. t3.files = With(u.files, run.picked[run.next].id, body) /\ body = run.picked[run.next].id
      BY <2>9, <2>10, <2>11
    <3>6. run2.bytes = run.bytes + LengthOf[body] /\ run2.bytes <= j.maxBytes
      BY <1>3, <2>6, <2>11
    <3>7. DOMAIN run2 = RunFields
      BY <2>6
    <3> HIDE DEF r
    <3> QED BY <3>1, <3>2, <3>3, <3>4, <3>5, <3>6, <3>7, BlobSound
  <2>13. run2.at # "ok"
    BY <2>6
  <2> QED BY <1>1, <2>1, <2>5, <2>6, <2>7, <2>8, <2>12, <2>13, GoesOnCarried
<1> QED BY <1>1, <1>2, <1>3 DEF BlobArrives

LEMMA ProbeCarried ==
    ASSUME IInv, NEW p \in Procs, ProbeArrives(p) PROVE IInv'
<1>1. Running(p) /\ runs[p].at = "fetching" /\ Job(p).kind = "discover" /\ UNCHANGED <<root, shards, tree>>
  BY DEF ProbeArrives, Running, Ended
<1>2. CASE Fail(p)
  BY <1>1, <1>2, FailCarried
<1>3. CASE Reported(p, "done") /\ UNCHANGED partial
  BY <1>1, <1>3, EndCarried
<1>4. CASE Continue(p, 0) /\ UNCHANGED partial /\ runs[p].next < Len(Items(p))
  <2> DEFINE t == partial[<<Job(p).root, p>>]
  <2>1. Sound(runs[p], t) /\ Job(p) = Jobs[runs[p].job] /\ ~ Publishes(Job(p))
    BY <1>1, RunIs DEF Publishes
  <2>2. Items(p) = Job(p).assets
    BY <1>1 DEF Items
  <2>3. PICK run2 : run2 = runs'[p]
    OBVIOUS
  <2>4. /\ DOMAIN runs' = Procs /\ \A q \in Procs : q # p => runs'[q] = runs[q]
        /\ DOMAIN run2 = RunFields /\ run2.job = runs[p].job
        /\ run2.next = runs[p].next + 1 /\ run2.raced = runs[p].raced /\ run2.at = "fetching"
    BY <1>1, <1>4, <2>3, ContinueMoves
  <2>5. /\ runs[p].job \in DOMAIN Jobs /\ Valid(Job(p)) /\ runs[p].next \in Nat \ {0}
        /\ runs[p].raced \in BOOLEAN
    BY <2>1 DEF Sound
  <2>6. Len(Job(p).assets) \in Nat
    BY <1>1, <2>1, <2>5, JobsAre
  <2>7. run2.next \in Nat \ {0} /\ run2.next <= Len(Job(p).assets)
    BY <1>4, <2>2, <2>4, <2>5, <2>6
  <2>8. Jobs[run2.job] = Job(p)
    BY <2>1, <2>4
  <2>9. Sound(run2, t)
    BY <1>1, <2>1, <2>4, <2>5, <2>7, <2>8 DEF Sound
  <2> HIDE DEF t
  <2>10. PICK u : u = t
    OBVIOUS
  <2> USE DEF t
  <2>11. u = partial[<<Job(p).root, p>>] /\ Sound(run2, u)
    BY <2>9, <2>10
  <2> QED BY <1>1, <1>4, <2>3, <2>4, <2>11, GoesOnCarried
<1> QED BY <1>1, <1>2, <1>3, <1>4 DEF ProbeArrives

(* The walk through the tree.                                               *)
LEMMA IdsAre ==
    ASSUME NEW s, NEW u, ToSet(s) = ToSet(u) PROVE IdsOf(s) = IdsOf(u)
<1>1. \A w : IdsOf(w) = {e.id : e \in ToSet(w)}
  BY DEF IdsOf, ToSet
<1> QED BY <1>1

LEMMA AppendParts ==
    ASSUME NEW S, NEW s \in Seq(S), NEW e \in S
    PROVE  /\ ToSet(Append(s, e)) = ToSet(s) \cup {e} /\ IdsOf(Append(s, e)) = IdsOf(s) \cup {e.id}
           /\ Distinct(s) /\ e.id \notin IdsOf(s) => Distinct(Append(s, e))
<1>1. DOMAIN Append(s, e) = 1 .. Len(s) + 1 /\ DOMAIN s = 1 .. Len(s) /\ Len(s) \in Nat
  OBVIOUS
<1>2. /\ \A i \in 1 .. Len(s) : Append(s, e)[i] = s[i]
      /\ Append(s, e)[Len(s) + 1] = e
  OBVIOUS
<1>3. ToSet(Append(s, e)) = ToSet(s) \cup {e}
  BY <1>1, <1>2 DEF ToSet
<1>4. IdsOf(Append(s, e)) = IdsOf(s) \cup {e.id}
  BY <1>1, <1>2 DEF IdsOf
<1>5. ASSUME Distinct(s), e.id \notin IdsOf(s) PROVE Distinct(Append(s, e))
  BY <1>1, <1>2, <1>5 DEF Distinct, IdsOf
<1> QED BY <1>3, <1>4, <1>5

LEMMA WalkedSound ==
    ASSUME NEW j, NEW run, TreeSound(j, run), run.at = "walking",
           NEW name \in DOMAIN Tree \ run.seen, NEW file \in FileType,
           NEW run2, run2.at = "walking", run2.generations = run.generations,
           run2.seen = run.seen \cup {name}, ~ run2.raced => ~ run.raced /\ file = Tree[name],
           run2.picked = IF file.sort = "regular"
                         THEN Append(run.picked, [id |-> name, content |-> file.content, repo |-> file.repo])
                         ELSE run.picked
    PROVE  TreeSound(j, run2)
<1>1. /\ run.picked \in Seq(EntryType) /\ run.generations = <<>> /\ run.seen \subseteq DOMAIN Tree
      /\ Distinct(run.picked) /\ IdsOf(run.picked) \subseteq run.seen
      /\ ~ run.raced => ToSet(run.picked) = TreeEntries(run.seen)
  BY DEF TreeSound
<1>2. CASE file.sort = "regular"
  <2> DEFINE new == [id |-> name, content |-> file.content, repo |-> file.repo]
  <2>1. new \in EntryType /\ new.id = name
    BY AcquisitionAssumption DEF EntryType, FileType
  <2>2. PICK e : e = new
    OBVIOUS
  <2>3. run2.picked = Append(run.picked, e)
    BY <1>2, <2>2
  <2> HIDE DEF new
  <2>8. e \in EntryType /\ e.id = name /\ e.id \notin IdsOf(run.picked)
    BY <1>1, <2>1, <2>2
  <2>9. PICK E, s, x : E = EntryType /\ s = run.picked /\ s \in Seq(E) /\ x = Append(s, e)
    BY <1>1
  <2>4. /\ ToSet(run2.picked) = ToSet(run.picked) \cup {e}
        /\ IdsOf(run2.picked) = IdsOf(run.picked) \cup {e.id}
        /\ Distinct(run2.picked)
    <3>1. s \in Seq(E) /\ e \in E /\ Distinct(s) /\ e.id \notin IdsOf(s)
      BY <1>1, <2>8, <2>9
    <3>2. /\ ToSet(Append(s, e)) = ToSet(s) \cup {e} /\ IdsOf(Append(s, e)) = IdsOf(s) \cup {e.id}
          /\ Distinct(Append(s, e))
      BY <3>1, AppendParts
    <3>3. run2.picked = Append(s, e) /\ s = run.picked
      BY <2>3, <2>9
    <3> QED BY <3>2, <3>3
  <2>5. run2.picked \in Seq(EntryType)
    <3>1. e \in E /\ s \in Seq(E)
      BY <2>8, <2>9
    <3>2. Append(s, e) \in Seq(E)
      BY <3>1
    <3> QED BY <2>3, <2>9, <3>2
  <2>6. ASSUME ~ run2.raced PROVE ToSet(run2.picked) = TreeEntries(run2.seen)
    <3>1. ToSet(run.picked) = TreeEntries(run.seen) /\ file = Tree[name]
      BY <1>1, <2>6
    <3>2. TreeEntries(run.seen \cup {name}) = TreeEntries(run.seen) \cup {e}
      BY <1>2, <2>2, <3>1 DEF TreeEntries, new
    <3> QED BY <2>4, <3>1, <3>2
  <2>7. IdsOf(run2.picked) \subseteq run2.seen /\ run2.seen \subseteq DOMAIN Tree
    BY <1>1, <2>1, <2>2, <2>4
  <2> QED BY <1>1, <2>4, <2>5, <2>6, <2>7 DEF TreeSound
<1>3. CASE file.sort # "regular"
  <2>1. run2.picked = run.picked
    BY <1>3
  <2>2. ASSUME ~ run2.raced PROVE ToSet(run2.picked) = TreeEntries(run2.seen)
    <3>1. ToSet(run.picked) = TreeEntries(run.seen) /\ file = Tree[name]
      BY <1>1, <2>2
    <3>2. TreeEntries(run.seen \cup {name}) = TreeEntries(run.seen)
      BY <1>3, <3>1 DEF TreeEntries
    <3> QED BY <2>1, <3>1, <3>2
  <2>3. IdsOf(run2.picked) \subseteq run2.seen /\ run2.seen \subseteq DOMAIN Tree
    BY <1>1, <2>1
  <2> QED BY <1>1, <2>1, <2>2, <2>3 DEF TreeSound
<1> QED BY <1>2, <1>3

LEMMA WalkCarried ==
    ASSUME IInv, NEW p \in Procs, WalkEntry(p) PROVE IInv'
<1> DEFINE t == partial[<<Job(p).root, p>>]
           Taken(name, file) ==
               [runs[p] EXCEPT
                   !.seen = runs[p].seen \cup {name},
                   !.raced = runs[p].raced \/ tree[name] # "pinned",
                   !.picked = IF file.sort = "regular"
                              THEN Append(runs[p].picked,
                                          [id |-> name, content |-> file.content, repo |-> file.repo])
                              ELSE runs[p].picked]
<1>1. Running(p) /\ runs[p].at = "walking" /\ UNCHANGED <<partial, root, shards, tree>>
  BY DEF WalkEntry, Running, Ended, treeVars
<1>2. Sound(runs[p], t) /\ DOMAIN runs[p] = RunFields /\ DOMAIN runs = Procs /\ DOMAIN tree = DOMAIN Tree
  BY <1>1, RunIs DEF IInv, StateType
<1>3. PICK name \in DOMAIN tree \ runs[p].seen : runs' = [runs EXCEPT ![p] = Taken(name, FileNow(name))]
  <2>1. PICK name \in DOMAIN tree \ runs[p].seen :
          runs' = [runs EXCEPT
              ![p].seen = @ \cup {name},
              ![p].raced = @ \/ tree[name] # "pinned",
              ![p].picked =
                  IF FileNow(name).sort = "regular"
                  THEN Append(@, [id |-> name, content |-> FileNow(name).content, repo |-> FileNow(name).repo])
                  ELSE @]
    BY DEF WalkEntry
  <2>2. runs' = [runs EXCEPT ![p] = Taken(name, FileNow(name))]
    BY <1>2, <2>1 DEF RunFields
  <2> QED BY <2>2
<1>4. PICK file : file = FileNow(name)
  OBVIOUS
<1>5. file \in FileType /\ (tree[name] = "pinned" => file = Tree[name])
  BY <1>2, <1>4, AcquisitionAssumption DEF FileNow
<1>6. PICK run2 : run2 = Taken(name, file)
  OBVIOUS
<1>7. DOMAIN runs' = Procs /\ runs'[p] = run2 /\ \A q \in Procs : q # p => runs'[q] = runs[q]
  <2>1. runs' = [runs EXCEPT ![p] = run2]
    BY <1>3, <1>4, <1>6
  <2> QED BY <2>1, RunsMove
<1>8. /\ DOMAIN run2 = RunFields /\ run2.at = "walking" /\ run2.job = runs[p].job
      /\ run2.next = runs[p].next /\ run2.generations = runs[p].generations
      /\ run2.seen = runs[p].seen \cup {name}
      /\ run2.raced = (runs[p].raced \/ tree[name] # "pinned")
      /\ run2.picked = IF file.sort = "regular"
                       THEN Append(runs[p].picked,
                                   [id |-> name, content |-> file.content, repo |-> file.repo])
                       ELSE runs[p].picked
  BY <1>1, <1>2, <1>6 DEF RunFields
<1> HIDE DEF Taken
<1>9. Jobs[runs[p].job].kind = "tree"
  BY <1>1, <1>2, KindAt
<1>10. /\ runs[p].job \in DOMAIN Jobs /\ Valid(Jobs[runs[p].job]) /\ runs[p].next \in Nat \ {0}
       /\ runs[p].raced \in BOOLEAN /\ TreeSound(Jobs[runs[p].job], runs[p])
  BY <1>1, <1>2, <1>9 DEF Sound
<1>11. PICK j, run : j = Jobs[runs[p].job] /\ run = runs[p]
  OBVIOUS
<1>12. TreeSound(j, run2)
  <2>1. TreeSound(j, run) /\ run.at = "walking" /\ name \in DOMAIN Tree \ run.seen
    BY <1>1, <1>2, <1>10, <1>11
  <2>2. /\ run2.at = "walking" /\ run2.generations = run.generations /\ run2.seen = run.seen \cup {name}
        /\ ~ run2.raced => ~ run.raced /\ file = Tree[name]
    BY <1>5, <1>8, <1>11
  <2>3. run2.picked = IF file.sort = "regular"
                      THEN Append(run.picked, [id |-> name, content |-> file.content, repo |-> file.repo])
                      ELSE run.picked
    BY <1>8, <1>11
  <2> QED BY <1>5, <2>1, <2>2, <2>3, WalkedSound
<1>13. run2.raced \in BOOLEAN
  BY <1>8, <1>10
<1>14. Sound(run2, t)
  BY <1>8, <1>9, <1>10, <1>11, <1>12, <1>13 DEF Sound
<1>15. PICK u : u = partial[<<Job(p).root, p>>] /\ Sound(run2, u)
  BY <1>14
<1>16. run2.at # "ok"
  BY <1>8
<1> HIDE DEF t
<1> QED BY <1>1, <1>7, <1>8, <1>15, <1>16, GoesOnCarried

LEMMA SortedTree ==
    ASSUME NEW j, NEW run, TreeSound(j, run), run.seen = DOMAIN Tree,
           Len(run.picked) \in 1 .. j.maxDocuments,
           NEW run2, run2.at = "sharding", run2.generations = run.generations,
           run2.seen = run.seen, run2.raced = run.raced, run2.picked = Sorted(run.picked)
    PROVE  TreeSound(j, run2)
<1>1. /\ run.picked \in Seq(EntryType) /\ run.generations = <<>> /\ run.seen \subseteq DOMAIN Tree
      /\ Distinct(run.picked) /\ IdsOf(run.picked) \subseteq run.seen
      /\ ~ run.raced => ToSet(run.picked) = TreeEntries(run.seen)
  BY DEF TreeSound
<1>2. PICK s, o : s = run.picked /\ o = Sorted(s)
  OBVIOUS
<1>3. \A i \in DOMAIN s : s[i].id \in Nat
  <2>1. \A i \in DOMAIN s : s[i] \in EntryType
    BY <1>1, <1>2, Elements
  <2> QED BY <2>1 DEF EntryType
<1>4. PICK E : E = EntryType /\ s \in Seq(E)
  BY <1>1, <1>2
<1>5. /\ o \in Seq(E) /\ Len(o) = Len(s) /\ ToSet(o) = ToSet(s) /\ Ascending(o) /\ Distinct(o)
  BY <1>1, <1>2, <1>3, <1>4, SortedIs
<1>6. IdsOf(o) = IdsOf(s)
  BY <1>5, IdsAre
<1>7. run2.picked = o
  BY <1>2
<1> QED BY <1>1, <1>2, <1>4, <1>5, <1>6, <1>7 DEF TreeSound

LEMMA EndWalkCarried ==
    ASSUME IInv, NEW p \in Procs, EndWalk(p) PROVE IInv'
<1> DEFINE t == partial[<<Job(p).root, p>>]
<1>1. Running(p) /\ runs[p].at = "walking" /\ runs[p].seen = DOMAIN tree /\ UNCHANGED <<root, shards, tree>>
  BY DEF EndWalk, Running, Ended
<1>2. CASE Fail(p)
  BY <1>1, <1>2, FailCarried
<1>3. CASE /\ Len(runs[p].picked) \in 1 .. Job(p).maxDocuments
           /\ runs' = [runs EXCEPT ![p].at = "sharding", ![p].picked = Sorted(@)]
           /\ CreatePartial(p, Job(p).root)
  <2>1. Sound(runs[p], t) /\ DOMAIN runs[p] = RunFields /\ DOMAIN runs = Procs /\ DOMAIN tree = DOMAIN Tree
    BY <1>1, RunIs DEF IInv, StateType
  <2>2. PICK o : o = Sorted(runs[p].picked)
    OBVIOUS
  <2>3. PICK run2 : run2 = [runs[p] EXCEPT !.at = "sharding", !.picked = o]
    OBVIOUS
  <2>4. runs' = [runs EXCEPT ![p] = run2]
    BY <1>3, <2>1, <2>2, <2>3 DEF RunFields
  <2>5. DOMAIN runs' = Procs /\ runs'[p] = run2 /\ \A q \in Procs : q # p => runs'[q] = runs[q]
    BY <2>4, RunsMove
  <2>6. /\ DOMAIN run2 = RunFields /\ run2.at = "sharding" /\ run2.job = runs[p].job
        /\ run2.next = runs[p].next /\ run2.generations = runs[p].generations
        /\ run2.seen = runs[p].seen /\ run2.raced = runs[p].raced
        /\ run2.picked = Sorted(runs[p].picked)
    BY <2>1, <2>2, <2>3 DEF RunFields
  <2>7. Jobs[runs[p].job].kind = "tree" /\ Job(p) = Jobs[runs[p].job]
    BY <1>1, <2>1, KindAt, RunIs
  <2>8. /\ runs[p].job \in DOMAIN Jobs /\ Valid(Job(p)) /\ runs[p].next \in Nat \ {0}
        /\ runs[p].raced \in BOOLEAN /\ TreeSound(Job(p), runs[p])
    BY <1>1, <2>1, <2>7 DEF Sound
  <2>9. PICK j, run : j = Job(p) /\ run = runs[p]
    OBVIOUS
  <2>10. TreeSound(j, run2)
    <3>1. TreeSound(j, run) /\ run.seen = DOMAIN Tree /\ Len(run.picked) \in 1 .. j.maxDocuments
      BY <1>1, <1>3, <2>1, <2>8, <2>9
    <3>2. /\ run2.at = "sharding" /\ run2.generations = run.generations /\ run2.seen = run.seen
          /\ run2.raced = run.raced /\ run2.picked = Sorted(run.picked)
      BY <2>6, <2>9
    <3> QED BY <3>1, <3>2, SortedTree
  <2>11. PICK u : u = EmptyTree
    OBVIOUS
  <2>12. DOMAIN u = TreeFields
    BY <2>11 DEF EmptyTree, TreeFields
  <2>13. Sound(run2, u)
    BY <2>6, <2>7, <2>8, <2>9, <2>10, <2>12 DEF Sound
  <2>14. Publishes(Job(p)) /\ partial' = [partial EXCEPT ![<<Job(p).root, p>>] = u]
    BY <1>3, <2>7, <2>11 DEF Publishes, CreatePartial
  <2>15. run2.at # "ok"
    BY <2>6
  <2> HIDE DEF t
  <2> QED BY <1>1, <2>5, <2>6, <2>13, <2>14, <2>15, GoesOnCarried
<1> QED BY <1>1, <1>2, <1>3 DEF EndWalk

(* The manifests are written: the listing and the files are what counts.    *)
LEMMA ManifestsCarried ==
    ASSUME IInv, NEW p \in Procs, Running(p), runs[p].at = "sharding",
           runs' = [runs EXCEPT ![p].at = "publishing"],
           NEW gens, NEW files, WriteManifests(p, Job(p).root, gens, files),
           NEW u, u = [files |-> files, generations |-> gens, index |-> Len(gens)],
           ListedAsPinned(u, runs[p]), FilesAsListed(u, runs[p]),
           UNCHANGED <<root, shards, tree>>
    PROVE  IInv'
<1> DEFINE t == partial[<<Job(p).root, p>>]
<1>1. /\ Sound(runs[p], t) /\ DOMAIN runs[p] = RunFields /\ DOMAIN runs = Procs
      /\ Job(p) = Jobs[runs[p].job]
  BY RunIs DEF IInv, StateType
<1>2. Publishes(Job(p))
  BY <1>1, KindAt
<1>3. PICK run2 : run2 = [runs[p] EXCEPT !.at = "publishing"]
  OBVIOUS
<1>4. runs' = [runs EXCEPT ![p] = run2]
  BY <1>1, <1>3 DEF RunFields
<1>5. DOMAIN runs' = Procs /\ runs'[p] = run2 /\ \A q \in Procs : q # p => runs'[q] = runs[q]
  BY <1>4, RunsMove
<1>6. /\ DOMAIN run2 = RunFields /\ run2.at = "publishing" /\ run2.job = runs[p].job
      /\ run2.next = runs[p].next /\ run2.raced = runs[p].raced
  BY <1>1, <1>3 DEF RunFields
<1>7. runs[p].job \in DOMAIN Jobs /\ Valid(Job(p)) /\ runs[p].next \in Nat \ {0} /\ runs[p].raced \in BOOLEAN
  BY <1>1 DEF Sound
<1>8. ListedAsPinned(u, run2) /\ FilesAsListed(u, run2)
  <2>1. ListedAsPinned(u, run2) = ListedAsPinned(u, runs[p])
    BY <1>6 DEF ListedAsPinned
  <2>2. FilesAsListed(u, run2) = FilesAsListed(u, runs[p])
    BY <1>6 DEF FilesAsListed
  <2> QED BY <2>1, <2>2
<1>9. DOMAIN u = TreeFields
  BY DEF TreeFields
<1>10. Sound(run2, u)
  BY <1>1, <1>2, <1>6, <1>7, <1>8, <1>9 DEF Sound
<1>11. partial' = [partial EXCEPT ![<<Job(p).root, p>>] = u]
  BY DEF WriteManifests
<1>12. run2.at # "ok"
  BY <1>6
<1> HIDE DEF t
<1> QED BY <1>2, <1>5, <1>6, <1>10, <1>11, <1>12, GoesOnCarried

(* The listings that are published.                                         *)
LEMMA TreeListed ==
    ASSUME NEW run, NEW t, Sound(run, t), run.at = "sharding", NEW j, j = Jobs[run.job], j.kind = "tree",
           NEW gens, gens = Chunks(run.picked, j.perGeneration),
           NEW u, u.generations = gens, u.index = Len(gens)
    PROVE  ListedAsPinned(u, run) /\ FilesAsListed(u, run)
<1>1. run.job \in DOMAIN Jobs /\ TreeSound(j, run)
  BY DEF Sound
<1>2. /\ run.picked \in Seq(EntryType) /\ Distinct(run.picked) /\ run.seen = DOMAIN Tree
      /\ Ascending(run.picked) /\ Len(run.picked) \in 1 .. j.maxDocuments
      /\ ~ run.raced => ToSet(run.picked) = TreeEntries(run.seen)
  BY <1>1 DEF TreeSound
<1>3. PICK list, size : list = run.picked /\ size = j.perGeneration
  OBVIOUS
<1>4. size \in Nat \ {0} /\ j.maxDocuments \in Nat
  BY <1>1, <1>3, JobsAre
<1>5. list \in Seq(EntryType) /\ gens = Chunks(list, size)
  BY <1>2, <1>3
<1>6. gens \in Seq(Seq(EntryType)) /\ Flat(gens) = list /\ Chunked(gens, size)
  BY <1>4, <1>5, ChunksAre
<1>7. Expected(j) = TreeEntries(DOMAIN Tree)
  BY DEF Expected, TreeEntries
<1>8. list = Flat(u.generations) /\ u.index = Len(u.generations) /\ Distinct(list) /\ Ascending(list)
  BY <1>2, <1>3, <1>6
<1>9. ~ run.raced => ToSet(list) = Expected(j)
  BY <1>2, <1>3, <1>7
<1>10. Chunked(u.generations, j.perGeneration) /\ Len(list) <= j.maxDocuments
  BY <1>2, <1>3, <1>4, <1>6
<1>11. ListedAsPinned(u, run)
  BY <1>5, <1>8, <1>9, <1>10, Listing
<1>12. FilesAsListed(u, run)
  BY <1>8, Filing
<1> QED BY <1>11, <1>12

LEMMA TreeManifestsCarried ==
    ASSUME IInv, NEW p \in Procs, WriteTreeManifests(p) PROVE IInv'
<1> DEFINE t == partial[<<Job(p).root, p>>]
<1>1. /\ Running(p) /\ runs[p].at = "sharding" /\ Job(p).kind = "tree" /\ UNCHANGED <<root, shards, tree>>
      /\ runs' = [runs EXCEPT ![p].at = "publishing"]
  BY DEF WriteTreeManifests, Running, Ended
<1>2. Sound(runs[p], t) /\ Job(p) = Jobs[runs[p].job]
  BY <1>1, RunIs
<1>3. PICK gens, files : /\ gens = Chunks(runs[p].picked, Job(p).perGeneration)
                         /\ WriteManifests(p, Job(p).root, gens, files)
  BY DEF WriteTreeManifests
<1>4. PICK u : u = [files |-> files, generations |-> gens, index |-> Len(gens)]
  OBVIOUS
<1>5. PICK run, j, v : run = runs[p] /\ j = Job(p) /\ v = t
  OBVIOUS
<1> HIDE DEF t
<1>6. ListedAsPinned(u, run) /\ FilesAsListed(u, run)
  <2>1. Sound(run, v) /\ run.at = "sharding" /\ j = Jobs[run.job] /\ j.kind = "tree"
    BY <1>1, <1>2, <1>5
  <2>2. gens = Chunks(run.picked, j.perGeneration)
    BY <1>3, <1>5
  <2>3. u.generations = gens /\ u.index = Len(gens)
    BY <1>4
  <2> QED BY <2>1, <2>2, <2>3, TreeListed
<1> QED BY <1>1, <1>3, <1>4, <1>5, <1>6, ManifestsCarried

(* The rows of all shards.                                                  *)
LEMMA ListedRows ==
    ASSUME NEW j, j.kind \in {"blobs", "rows"}, j.shards \in Seq(DOMAIN PinnedRows),
           NEW n, n = Len(j.shards)
    PROVE  RowsUpTo(j, n) \in Seq(RowType) /\ Expected(j) = ListOf(j, RowsUpTo(j, n))
<1>1. n \in Nat /\ DOMAIN j.shards = 1 .. n
  OBVIOUS
<1>2. RowsUpTo(j, n) \in Seq(RowType)
  BY <1>1, RowsUpToIs
<1>3. AllRows(j) = RowsUpTo(j, n)
  BY <1>1 DEF AllRows, RowsUpTo
<1> QED BY <1>2, <1>3, ExpectedIs

LEMMA BlobsListed ==
    ASSUME NEW run, NEW t, Sound(run, t), run.at = "sharding", NEW j, j = Jobs[run.job], j.kind = "blobs",
           NEW gens, gens = Chunks(Entries(run.picked), j.perGeneration),
           NEW u, u.files = t.files, u.generations = gens, u.index = Len(gens)
    PROVE  ListedAsPinned(u, run) /\ FilesAsListed(u, run)
<1>1. run.job \in DOMAIN Jobs /\ BlobsSound(j, run, t)
  BY DEF Sound
<1>2. PICK n : n = Len(j.shards)
  OBVIOUS
<1>3. /\ run.generations = <<>> /\ GatheredFrom(j, run, n) /\ Ascending(run.picked) /\ Arrived(j, run, t)
  BY <1>1, <1>2 DEF BlobsSound
<1>4. PICK list, size : list = Entries(run.picked) /\ size = j.perGeneration
  OBVIOUS
<1>5. /\ size \in Nat \ {0} /\ j.maxDocuments \in Nat /\ j.shards \in Seq(DOMAIN PinnedRows)
      /\ run.picked \in Seq(RowType)
  BY <1>1, <1>3, <1>4, JobsAre DEF GatheredFrom
<1>6. /\ list = Fetched(j, run) /\ list = Gathered(run) /\ list \in Seq(EntryType) /\ Distinct(list)
  BY <1>3, <1>4, FetchedBlobs
<1>7. gens = Chunks(list, size)
  BY <1>4
<1>8. gens \in Seq(Seq(EntryType)) /\ Flat(gens) = list /\ Chunked(gens, size)
  BY <1>5, <1>6, <1>7, ChunksAre
<1>9. Ascending(list)
  <2>1. DOMAIN list = DOMAIN run.picked /\ \A i \in DOMAIN run.picked : list[i].id = run.picked[i].id
    BY <1>4, <1>5, EntriesAre, EntryId
  <2> QED BY <1>3, <2>1 DEF Ascending
<1>10. BytesOf(list) <= j.maxBytes /\ Holds(t.files, list)
  <2>1. Len(list) \in Nat
    BY <1>6
  <2>2. run.next = Len(list) + 1
    BY <1>3, <1>6, <2>1 DEF Arrived
  <2>3. SubSeq(list, 1, run.next - 1) = list
    <3>1. run.next - 1 = Len(list)
      BY <2>1, <2>2
    <3>2. \A S : \A s \in Seq(S) : SubSeq(s, 1, Len(s)) = s
      OBVIOUS
    <3> QED BY <1>6, <3>1, <3>2
  <2> QED BY <1>3, <1>6, <2>3 DEF Arrived
<1>11. ~ run.raced => ToSet(list) = Expected(j)
  <2>1. Expected(j) = ListOf(j, RowsUpTo(j, n))
    BY <1>2, <1>5, ListedRows
  <2> QED BY <1>3, <1>6, <2>1 DEF GatheredFrom
<1>12. (\A e \in ToSet(list) : e.content = e.id) /\ Len(list) <= j.maxDocuments
  BY <1>3, <1>6 DEF GatheredFrom
<1>13. /\ list = Flat(u.generations) /\ u.index = Len(u.generations)
       /\ Chunked(u.generations, j.perGeneration)
  BY <1>4, <1>8
<1>14. ListedAsPinned(u, run)
  BY <1>6, <1>9, <1>10, <1>11, <1>12, <1>13, Listing
<1>15. FilesAsListed(u, run)
  BY <1>10, <1>13, Filing
<1> QED BY <1>14, <1>15

LEMMA BlobManifestsCarried ==
    ASSUME IInv, NEW p \in Procs, WriteBlobManifests(p) PROVE IInv'
<1> DEFINE t == partial[<<Job(p).root, p>>]
<1>1. /\ Running(p) /\ runs[p].at = "sharding" /\ Job(p).kind = "blobs" /\ UNCHANGED <<root, shards, tree>>
      /\ runs' = [runs EXCEPT ![p].at = "publishing"]
  BY DEF WriteBlobManifests, Running, Ended
<1>2. Sound(runs[p], t) /\ Job(p) = Jobs[runs[p].job]
  BY <1>1, RunIs
<1>3. PICK gens, files : /\ gens = Chunks(Entries(runs[p].picked), Job(p).perGeneration)
                         /\ files = t.files /\ WriteManifests(p, Job(p).root, gens, files)
  BY DEF WriteBlobManifests, FilesOf
<1>4. PICK u : u = [files |-> files, generations |-> gens, index |-> Len(gens)]
  OBVIOUS
<1>5. PICK run, j, v : run = runs[p] /\ j = Job(p) /\ v = t
  OBVIOUS
<1> HIDE DEF t
<1>6. ListedAsPinned(u, run) /\ FilesAsListed(u, run)
  <2>1. Sound(run, v) /\ run.at = "sharding" /\ j = Jobs[run.job] /\ j.kind = "blobs"
    BY <1>1, <1>2, <1>5
  <2>2. gens = Chunks(Entries(run.picked), j.perGeneration)
    BY <1>3, <1>5
  <2>3. u.files = v.files /\ u.generations = gens /\ u.index = Len(gens)
    BY <1>3, <1>4, <1>5
  <2> QED BY <2>1, <2>2, <2>3, BlobsListed
<1> QED BY <1>1, <1>3, <1>4, <1>5, <1>6, ManifestsCarried

LEMMA GreatestOf ==
    ASSUME NEW n \in Nat, NEW S \in SUBSET (1 .. n), S # {}
    PROVE  Max(S) \in S
<1> DEFINE R == {n - x : x \in S}
<1>1. R \in SUBSET Nat /\ R # {}
  <2>1. \A x \in S : n - x \in Nat
    OBVIOUS
  <2>2. R # {}
    OBVIOUS
  <2> QED BY <2>1, <2>2
<1>2. PICK r \in R : \A m \in R : r <= m
  BY <1>1, Least
<1>3. PICK x \in S : r = n - x
  OBVIOUS
<1>4. \A y \in S : x >= y
  <2>1. \A y \in S : r <= n - y
    BY <1>2
  <2> QED BY <1>3, <2>1
<1> QED BY <1>3, <1>4 DEF Max

LEMMA AddEntries ==
    ASSUME NEW rows \in Seq(RowType), NEW files
    PROVE  AddFiles(files, Entries(rows)) = AddFiles(files, rows)
<1>1. PICK es : es = Entries(rows)
  OBVIOUS
<1>2. DOMAIN es = DOMAIN rows
      /\ \A i \in DOMAIN rows : es[i].id = rows[i].id /\ es[i].content = rows[i].content
  BY <1>1, EntriesAre, EntryId
<1>3. {es[i].id : i \in DOMAIN es} = {rows[i].id : i \in DOMAIN rows}
  BY <1>2
<1>4. ASSUME NEW name, name \in {rows[i].id : i \in DOMAIN rows}
      PROVE  es[Max({i \in DOMAIN es : es[i].id = name})].content =
             rows[Max({i \in DOMAIN rows : rows[i].id = name})].content
  <2>1. {i \in DOMAIN es : es[i].id = name} = {i \in DOMAIN rows : rows[i].id = name}
    BY <1>2
  <2>2. PICK m : m = Max({i \in DOMAIN rows : rows[i].id = name})
    OBVIOUS
  <2>3. m \in DOMAIN rows
    <3>1. PICK n : n \in Nat /\ n = Len(rows)
      OBVIOUS
    <3>2. {i \in DOMAIN rows : rows[i].id = name} \in SUBSET (1 .. n)
          /\ {i \in DOMAIN rows : rows[i].id = name} # {}
      BY <1>4, <3>1
    <3> QED BY <2>2, <3>1, <3>2, GreatestOf
  <2> QED BY <1>2, <2>1, <2>2, <2>3
<1>5. AddFiles(files, es) = AddFiles(files, rows)
  BY <1>3, <1>4 DEF AddFiles
<1> QED BY <1>1, <1>5

LEMMA RowsListed ==
    ASSUME NEW run, NEW t, Sound(run, t), run.at = "sharding", NEW j, j = Jobs[run.job], j.kind = "rows",
           NEW gens, gens = run.generations \o Chunks(Entries(run.picked), j.perGeneration),
           NEW u, u.files = AddFiles(t.files, run.picked), u.generations = gens, u.index = Len(gens)
    PROVE  ListedAsPinned(u, run) /\ FilesAsListed(u, run)
<1>1. run.job \in DOMAIN Jobs /\ RowsSound(j, run, t)
  BY DEF Sound
<1>2. PICK n : n = Len(j.shards)
  OBVIOUS
<1>3. GatheredFrom(j, run, n) /\ Holds(t.files, Flat(run.generations))
  BY <1>1, <1>2 DEF RowsSound
<1>4. PICK gs, es, size : gs = run.generations /\ es = Entries(run.picked) /\ size = j.perGeneration
  OBVIOUS
<1>5. /\ size \in Nat \ {0} /\ j.maxDocuments \in Nat /\ j.shards \in Seq(DOMAIN PinnedRows)
      /\ run.picked \in Seq(RowType) /\ gs \in Seq(Seq(EntryType))
      /\ \A g \in 1 .. Len(gs) : Len(gs[g]) = size
  BY <1>1, <1>3, <1>4, JobsAre DEF GatheredFrom
<1>6. es \in Seq(EntryType)
  BY <1>4, <1>5, EntriesAre
<1>7. PICK cs : cs = Chunks(es, size)
  OBVIOUS
<1>8. cs \in Seq(Seq(EntryType)) /\ Flat(cs) = es /\ Chunked(cs, size)
  BY <1>5, <1>6, <1>7, ChunksAre
<1>9. gens = gs \o cs
  BY <1>4, <1>7
<1>10. Chunked(gs \o cs, size)
  BY <1>5, <1>8, ChunkedAfterFull
<1>11. Flat(gs \o cs) = Flat(gs) \o es
  BY <1>5, <1>8, FlatConcat
<1>12. PICK flat : flat = Flat(gs) /\ flat \in Seq(EntryType)
  BY <1>5, FlatType
<1>13. PICK list : list = flat \o es
  OBVIOUS
<1>14. list = Gathered(run) /\ list \in Seq(EntryType) /\ list = Flat(gens)
  <2>1. list \in Seq(EntryType)
    BY SMTT(60), <1>6, <1>12, <1>13
  <2> QED BY <1>4, <1>9, <1>11, <1>12, <1>13, <2>1 DEF Gathered
<1>15. Distinct(list) /\ Len(list) <= j.maxDocuments
       /\ (j.verified => \A e \in ToSet(list) : e.content = e.id)
  BY Zenon, <1>3, <1>14 DEF GatheredFrom
<1>16. ~ run.raced => ToSet(list) = Expected(j)
  <2>1. Expected(j) = ListOf(j, RowsUpTo(j, n))
    <3>1. j.shards \in Seq(DOMAIN PinnedRows) /\ n = Len(j.shards) /\ j.kind \in {"blobs", "rows"}
      BY <1>2, <1>5
    <3> QED BY ONLY <3>1, ListedRows
  <2> QED BY <1>3, <1>14, <2>1 DEF GatheredFrom
<1>17. Holds(u.files, list)
  <2>1. Holds(t.files, flat)
    BY <1>3, <1>4, <1>12
  <2>2. Distinct(flat \o es)
    BY <1>13, <1>15
  <2>3. PICK files : files = t.files
    OBVIOUS
  <2>4. Holds(AddFiles(files, es), flat \o es)
    BY <1>6, <1>12, <2>1, <2>2, <2>3, HoldsMore
  <2>5. AddFiles(files, es) = AddFiles(files, run.picked)
    BY <1>4, <1>5, AddEntries
  <2> QED BY <1>13, <2>3, <2>4, <2>5
<1>18. /\ list = Flat(u.generations) /\ u.index = Len(u.generations)
       /\ Chunked(u.generations, j.perGeneration)
  BY ZenonT(60), <1>4, <1>9, <1>10, <1>14
<1>19. ListedAsPinned(u, run)
  BY <1>14, <1>15, <1>16, <1>18, Listing
<1>20. FilesAsListed(u, run)
  BY <1>17, <1>18, Filing
<1> QED BY <1>19, <1>20

LEMMA TailCarried ==
    ASSUME IInv, NEW p \in Procs, WriteTail(p) PROVE IInv'
<1> DEFINE t == partial[<<Job(p).root, p>>]
<1>1. /\ Running(p) /\ runs[p].at = "sharding" /\ Job(p).kind = "rows" /\ UNCHANGED <<root, shards, tree>>
  BY DEF WriteTail, Running, Ended
<1>2. Sound(runs[p], t) /\ Job(p) = Jobs[runs[p].job]
  BY <1>1, RunIs
<1>3. CASE Fail(p)
  BY Zenon, <1>1, <1>3, FailCarried
<1>4. ASSUME NEW gens, gens = runs[p].generations \o Chunks(Entries(runs[p].picked), Job(p).perGeneration),
             NEW files, files = AddFiles(FilesOf(p), runs[p].picked),
             WriteManifests(p, Job(p).root, gens, files), runs' = [runs EXCEPT ![p].at = "publishing"]
      PROVE  IInv'
  <2>1. PICK u : u = [files |-> files, generations |-> gens, index |-> Len(gens)]
    OBVIOUS
  <2>2. PICK run, j, v : run = runs[p] /\ j = Job(p) /\ v = t
    OBVIOUS
  <2>3. FilesOf(p) = v.files
    BY <2>2 DEF FilesOf
  <2> HIDE DEF t
  <2>4. ListedAsPinned(u, run) /\ FilesAsListed(u, run)
    <3>1. Sound(run, v) /\ run.at = "sharding" /\ j = Jobs[run.job] /\ j.kind = "rows"
      BY <1>1, <1>2, <2>2
    <3>2. gens = run.generations \o Chunks(Entries(run.picked), j.perGeneration)
      BY Zenon, <1>4, <2>2
    <3>3. u.files = AddFiles(v.files, run.picked) /\ u.generations = gens /\ u.index = Len(gens)
      BY <1>4, <2>1, <2>2, <2>3
    <3> QED BY <3>1, <3>2, <3>3, RowsListed
  <2> QED BY <1>1, <1>4, <2>1, <2>2, <2>4, ManifestsCarried
<1>5. PICK all : /\ all = runs[p].generations \o Chunks(Entries(runs[p].picked), Job(p).perGeneration)
                 /\ \/ Fail(p)
                    \/ /\ WriteManifests(p, Job(p).root, all, AddFiles(FilesOf(p), runs[p].picked))
                       /\ runs' = [runs EXCEPT ![p].at = "publishing"]
  BY DEF WriteTail
<1>6. PICK files : files = AddFiles(FilesOf(p), runs[p].picked)
  OBVIOUS
<1> QED BY <1>3, <1>4, <1>5, <1>6

LEMMA AssetsListed ==
    ASSUME NEW run, NEW t, Sound(run, t), run.at = "sharding", NEW j, j = Jobs[run.job], j.kind = "assets",
           NEW list, list = Fetched(j, run),
           NEW gens, gens = <<list>>,
           NEW u, u.files = With(t.files, ManifestName, "manifest"), u.generations = gens,
           u.index = Len(gens)
    PROVE  ListedAsPinned(u, run) /\ FilesAsListed(u, run)
<1>1. run.job \in DOMAIN Jobs /\ Valid(j) /\ AssetsSound(j, run, t)
  BY DEF Sound
<1>2. Arrived(j, run, t) /\ ValidAssets(j)
  BY <1>1 DEF AssetsSound, Valid
<1>3. j.assets \in Seq([name : Nat, content : Contents]) /\ j.maxDocuments \in Nat
  BY <1>1, JobsAre
<1>5. /\ list \in Seq(EntryType) /\ Len(list) = Len(j.assets) /\ DOMAIN list = DOMAIN j.assets
      /\ Distinct(list)
      /\ \A i \in DOMAIN j.assets : list[i] =
            [id |-> j.assets[i].name, content |-> j.assets[i].content, repo |-> "none"]
  BY ZenonT(60), <1>2, <1>3, FetchedAssets
<1>6. Holds(t.files, list)
  <2>1. Len(list) \in Nat
    BY <1>5
  <2>2. run.next = Len(list) + 1
    BY <1>2, <2>1 DEF Arrived
  <2>3. SubSeq(list, 1, run.next - 1) = list
    <3>1. run.next - 1 = Len(list)
      BY <2>1, <2>2
    <3>2. \A S : \A s \in Seq(S) : SubSeq(s, 1, Len(s)) = s
      OBVIOUS
    <3> QED BY <1>5, <3>1, <3>2
  <2> QED BY <1>2, <2>3 DEF Arrived
<1>7. Flat(gens) = list
  BY <1>5, FlatOne
<1>8. ToSet(list) = Expected(j)
  <2>1. Expected(j) = {[id |-> a.name, content |-> a.content, repo |-> "none"] : a \in ToSet(j.assets)}
    BY DEF Expected
  <2>2. ToSet(list) = {list[i] : i \in DOMAIN j.assets}
    BY <1>5 DEF ToSet
  <2>3. PICK as : as = j.assets
    OBVIOUS
  <2>4. Expected(j) = {[id |-> as[i].name, content |-> as[i].content, repo |-> "none"] : i \in DOMAIN as}
    BY <2>1, <2>3 DEF ToSet
  <2>5. \A i \in DOMAIN as : list[i] = [id |-> as[i].name, content |-> as[i].content, repo |-> "none"]
    BY <1>5, <2>3
  <2>6. ASSUME NEW e PROVE e \in ToSet(list) <=> e \in Expected(j)
    <3>1. e \in ToSet(list) <=> \E i \in DOMAIN as : e = list[i]
      BY <2>2, <2>3
    <3>2. e \in Expected(j) <=>
            \E i \in DOMAIN as : e = [id |-> as[i].name, content |-> as[i].content, repo |-> "none"]
      BY <2>4
    <3> QED BY <2>5, <3>1, <3>2, Zenon
  <2> QED BY <2>6
<1>9. BytesOf(list) <= j.maxBytes
  <2>1. ASSUME NEW i \in DOMAIN j.assets PROVE list[i].content = j.assets[i].content
    <3>1. list[i] = [id |-> j.assets[i].name, content |-> j.assets[i].content, repo |-> "none"]
      BY <1>5
    <3> QED BY <3>1
  <2>2. PICK E, A, as : /\ E = EntryType /\ A = [name : Nat, content : Contents] /\ as = j.assets
                        /\ list \in Seq(E) /\ as \in Seq(A)
    BY <1>3, <1>5
  <2>3. Len(list) = Len(as) /\ \A k \in 1 .. Len(list) : list[k].content = as[k].content
    BY <1>5, <2>1, <2>2
  <2>4. BytesOf(list) = BytesOf(as)
    BY SMTT(60), <2>2, <2>3, BytesSame
  <2> QED BY <1>2, <2>2, <2>4 DEF ValidAssets
<1>10. Len(list) <= j.maxDocuments
  BY <1>2, <1>3, <1>5 DEF ValidAssets
<1>11. list = Flat(u.generations) /\ u.index = Len(u.generations)
  BY <1>7
<1>12. ListedAsPinned(u, run)
  BY <1>5, <1>8, <1>9, <1>10, <1>11, Listing
<1>13. FilesAsListed(u, run)
  <2>1. \A e \in ToSet(list) : \E i \in DOMAIN list : e = list[i]
    BY DEF ToSet
  <2>2. /\ DOMAIN t.files = IdsOf(list)
        /\ \A i \in DOMAIN list : t.files[list[i].id] = list[i].content /\ list[i].id \in DOMAIN t.files
    BY <1>6 DEF Holds, IdsOf
  <2>3. /\ DOMAIN u.files = DOMAIN t.files \cup {ManifestName}
        /\ \A n \in DOMAIN t.files : n # ManifestName => u.files[n] = t.files[n]
    BY DEF With
  <2>4. {e.id : e \in ToSet(list)} = IdsOf(list)
    BY DEF IdsOf, ToSet
  <2>5. \A e \in ToSet(list) : e.id \notin {ManifestName} => u.files[e.id] = e.content
    BY <2>1, <2>2, <2>3
  <2>6. DOMAIN u.files = {e.id : e \in ToSet(list)} \cup {ManifestName}
    BY <2>2, <2>3, <2>4
  <2> QED BY <1>11, <2>5, <2>6 DEF FilesAsListed
<1> QED BY <1>12, <1>13

LEMMA AssetManifestCarried ==
    ASSUME IInv, NEW p \in Procs, WriteAssetManifest(p) PROVE IInv'
<1> DEFINE t == partial[<<Job(p).root, p>>]
<1>1. /\ Running(p) /\ runs[p].at = "sharding" /\ Job(p).kind = "assets" /\ UNCHANGED <<root, shards, tree>>
      /\ runs' = [runs EXCEPT ![p].at = "publishing"]
  BY DEF WriteAssetManifest, Running, Ended
<1>2. Sound(runs[p], t) /\ Job(p) = Jobs[runs[p].job]
  BY <1>1, RunIs
<1>3. PICK list : list = [i \in DOMAIN Job(p).assets |->
                [id |-> Job(p).assets[i].name, content |-> Job(p).assets[i].content, repo |-> "none"]]
  OBVIOUS
<1>4. PICK gens, files : gens = <<list>> /\ files = With(FilesOf(p), ManifestName, "manifest")
  OBVIOUS
<1>5. WriteManifests(p, Job(p).root, gens, files)
  BY <1>3, <1>4 DEF WriteAssetManifest
<1>6. PICK u : u = [files |-> files, generations |-> gens, index |-> Len(gens)]
  OBVIOUS
<1>7. PICK run, j, v : run = runs[p] /\ j = Job(p) /\ v = t
  OBVIOUS
<1>8. FilesOf(p) = v.files
  BY <1>7 DEF FilesOf
<1> HIDE DEF t
<1>9. ListedAsPinned(u, run) /\ FilesAsListed(u, run)
  <2>1. Sound(run, v) /\ run.at = "sharding" /\ j = Jobs[run.job] /\ j.kind = "assets"
    BY <1>1, <1>2, <1>7
  <2>2. list = Fetched(j, run)
    BY <1>1, <1>3, <1>7 DEF Fetched
  <2>3. u.files = With(v.files, ManifestName, "manifest") /\ u.generations = gens /\ u.index = Len(gens)
    BY <1>4, <1>6, <1>8
  <2> QED BY <1>4, <2>1, <2>2, <2>3, AssetsListed
<1> QED BY <1>1, <1>5, <1>6, <1>7, <1>9, ManifestsCarried

(* A shard is read.                                                         *)
LEMMA DistinctPrefix ==
    ASSUME NEW S, NEW a \in Seq(S), NEW b \in Seq(S), Distinct(a \o b) PROVE Distinct(a)
<1>1. /\ DOMAIN a = 1 .. Len(a) /\ Len(a) \in Nat /\ Len(b) \in Nat
      /\ DOMAIN (a \o b) = 1 .. Len(a) + Len(b)
      /\ \A i \in DOMAIN a : (a \o b)[i] = a[i]
  OBVIOUS
<1>2. DOMAIN a \subseteq DOMAIN (a \o b)
  BY <1>1
<1>3. PICK c : c = a \o b /\ Distinct(c) /\ DOMAIN a \subseteq DOMAIN c /\ \A i \in DOMAIN a : c[i] = a[i]
  BY <1>1, <1>2
<1> QED BY <1>3 DEF Distinct

PickedAre(picked, more, flat) ==
    /\ more \in Seq(RowType) /\ picked \o more \in Seq(RowType) /\ Entries(more) \in Seq(EntryType)
    /\ flat \o Entries(picked \o more) = (flat \o Entries(picked)) \o Entries(more)

LEMMA PickedMore ==
    ASSUME NEW j, NEW rows \in Seq(RowType), NEW seen, NEW picked \in Seq(RowType),
           NEW more, more = More(j, rows, seen), NEW flat \in Seq(EntryType)
    PROVE  PickedAre(picked, more, flat)
<1>1. more \in Seq(RowType)
  BY MoreAre
<1>2. PICK a, b, c : a = Entries(picked) /\ b = Entries(more) /\ c = Entries(picked \o more)
  OBVIOUS
<1>3. a \in Seq(EntryType) /\ b \in Seq(EntryType) /\ c = a \o b
  BY <1>1, <1>2, EntriesAre, EntriesConcat
<1>4. ASSUME NEW x \in Seq(EntryType), NEW y \in Seq(EntryType), NEW z \in Seq(EntryType)
      PROVE  (x \o y) \o z = x \o (y \o z)
  BY ONLY SMTT(60), x \in Seq(EntryType), y \in Seq(EntryType), z \in Seq(EntryType), ConcatAssociative
<1>5. flat \o c = (flat \o a) \o b
  BY <1>3, <1>4
<1>6. picked \o more \in Seq(RowType)
  BY SMTT(60), <1>1
<1> QED BY <1>1, <1>2, <1>3, <1>5, <1>6 DEF PickedAre

(* A shard whose full generations are written.                              *)
Flushes(run, t, j, rows, acc, written, run2, t2) ==
    /\ Sound(run, t) /\ run.at = "reading" /\ j = Jobs[run.job] /\ j.kind = "rows"
    /\ rows \in Seq(RowType) /\ ~ Torn(j, rows)
    /\ acc = run.picked \o More(j, rows, run.seen)
    /\ written = Flat(FullGenerations(acc, j.perGeneration))
    /\ Len(run.generations) * j.perGeneration + Len(acc) <= j.maxDocuments
    /\ DOMAIN run2 = RunFields /\ run2.job = run.job /\ run2.next = run.next + 1
    /\ run2.at = IF run.next = Len(j.shards) THEN "sharding" ELSE "verifying"
    /\ run2.seen = run.seen \cup IdsOfNew(j, rows, run.seen)
    /\ run2.raced \in BOOLEAN
    /\ ~ run2.raced => ~ run.raced /\ rows = PinnedRows[j.shards[run.next]]
    /\ run2.picked = SubSeq(acc, Len(written) + 1, Len(acc))
    /\ run2.generations = run.generations \o FullGenerations(Entries(written), j.perGeneration)
    /\ DOMAIN t2 = TreeFields /\ t2.files = AddFiles(t.files, written)

LEMMA FlushedSound ==
    ASSUME NEW run, NEW t, NEW j, NEW rows, NEW acc, NEW written, NEW run2, NEW t2,
           Flushes(run, t, j, rows, acc, written, run2, t2)
    PROVE  Sound(run2, t2)
<1> USE DEF Flushes
<1>1. /\ run.job \in DOMAIN Jobs /\ Valid(j) /\ RowsSound(j, run, t) /\ run.next \in Nat \ {0}
  BY DEF Sound
<1>2. /\ Holds(t.files, Flat(run.generations)) /\ run.next \in 1 .. Len(j.shards)
      /\ GatheredFrom(j, run, run.next - 1)
  BY Zenon, <1>1 DEF RowsSound
<1>3. PICK gs, size, n : gs = run.generations /\ size = j.perGeneration /\ n = run.next
  BY Zenon
<1>4. /\ size \in Nat \ {0} /\ j.maxDocuments \in Nat /\ j.shards \in Seq(DOMAIN PinnedRows)
      /\ run.picked \in Seq(RowType) /\ gs \in Seq(Seq(EntryType))
      /\ \A g \in 1 .. Len(gs) : Len(gs[g]) = size
  BY Zenon, <1>1, <1>2, <1>3, JobsAre DEF GatheredFrom
<1>5. PICK flat : flat = Flat(gs) /\ flat \in Seq(EntryType)
  BY Zenon, <1>4, FlatType
<1>6. PICK more, picked, seen : more = More(j, rows, run.seen) /\ picked = run.picked /\ seen = run.seen
  BY Zenon
<1>7. /\ acc = picked \o more /\ acc \in Seq(RowType) /\ Entries(more) \in Seq(EntryType)
      /\ flat \o Entries(acc) = (flat \o Entries(picked)) \o Entries(more)
  <2>1. more = More(j, rows, seen) /\ picked \in Seq(RowType) /\ acc = picked \o more
    BY ZenonT(60), <1>4, <1>6
  <2>2. flat \in Seq(EntryType)
    BY <1>5
  <2>3. PickedAre(picked, more, flat)
    BY ONLY ZenonT(60), rows \in Seq(RowType), <2>1, <2>2, PickedMore
  <2> QED BY Zenon, <2>1, <2>3 DEF PickedAre
<1>8. PICK rest, new : /\ rest = SubSeq(acc, Len(written) + 1, Len(acc))
                       /\ new = FullGenerations(Entries(written), size)
  OBVIOUS
<1>9. written = Flat(FullGenerations(acc, size))
  BY <1>3
<1>10. /\ written \in Seq(RowType) /\ rest \in Seq(RowType)
       /\ gs \o new \in Seq(Seq(EntryType))
       /\ \A g \in 1 .. Len(gs \o new) : Len((gs \o new)[g]) = size
       /\ Flat(gs \o new) = Flat(gs) \o Entries(written)
       /\ Flat(gs \o new) \o Entries(rest) = Flat(gs) \o Entries(acc)
  <2>1. FlushedAre(written, rest, gs, new, acc, size)
    BY ONLY <1>4, <1>7, <1>8, <1>9, Flushed
  <2> QED BY Zenon, <2>1 DEF FlushedAre
<1>11. run2.picked = rest /\ run2.generations = gs \o new
  BY <1>3, <1>8
<1>12. Gathered(run2) = Gathered(run) \o Entries(more)
  <2>1. Gathered(run) = flat \o Entries(picked)
    BY ZenonT(60), <1>3, <1>5, <1>6 DEF Gathered
  <2>2. Gathered(run2) = Flat(gs \o new) \o Entries(rest)
    BY <1>11 DEF Gathered
  <2> QED BY Zenon, <1>5, <1>7, <1>10, <2>1, <2>2
<1>13. Len(Gathered(run2)) <= j.maxDocuments
  <2>1. Gathered(run2) = flat \o Entries(acc)
    BY Zenon, <1>5, <1>10, <1>11 DEF Gathered
  <2>2. Len(Entries(acc)) = Len(acc) /\ Entries(acc) \in Seq(EntryType)
    BY <1>7, EntriesAre
  <2>3. Len(flat) = Len(gs) * size
    BY ZenonT(60), <1>4, <1>5, FlatOfFull
  <2>4. PICK es : es = Entries(acc)
    OBVIOUS
  <2>5. Len(flat \o es) = Len(flat) + Len(es)
    <3>1. flat \in Seq(EntryType) /\ es \in Seq(EntryType)
      BY <1>5, <2>2, <2>4
    <3> QED BY ONLY <3>1
  <2>6. Len(gs) * size + Len(acc) <= j.maxDocuments
    BY <1>3
  <2> QED BY Zenon, <2>1, <2>2, <2>3, <2>4, <2>5, <2>6
<1>14. PICK r3 : r3 = run2
  OBVIOUS
<1>15. GatheredFrom(j, run2, n)
  <2>8. PICK m : m = n - 1
    BY Zenon
  <2>1. j.kind \in {"blobs", "rows"} /\ n \in 1 .. Len(j.shards) /\ GatheredFrom(j, run, m)
    BY Zenon, <1>2, <1>3, <2>8
  <2>2. run2.picked \in Seq(RowType) /\ run2.generations \in Seq(Seq(EntryType))
    BY Zenon, <1>10, <1>11
  <2>3. Gathered(run2) = Gathered(run) \o Entries(More(j, rows, run.seen))
    BY Zenon, <1>6, <1>12
  <2>4. ~ run2.raced => ~ run.raced /\ rows = PinnedRows[j.shards[n]]
    BY Zenon, <1>3
  <2>5. \A g \in 1 .. Len(run2.generations) : Len(run2.generations[g]) = j.perGeneration
    BY ZenonT(60), <1>3, <1>10, <1>11
  <2>6. run2.seen = run.seen \cup IdsOfNew(j, rows, run.seen)
    BY Zenon
  <2>7. rows \in Seq(RowType) /\ ~ Torn(j, rows) /\ j.shards \in Seq(DOMAIN PinnedRows)
    BY <1>4
  <2>9. Adds(j, n, m, run, rows, run2)
    BY ONLY Zenon, <1>13, <2>1, <2>2, <2>3, <2>4, <2>5, <2>6, <2>7, <2>8 DEF Adds
  <2> QED BY Zenon, <2>9, MoreGathered
<1>16. Holds(t2.files, Flat(run2.generations))
  <2>1. PICK ws : ws = Entries(written) /\ ws \in Seq(EntryType)
    BY Zenon, <1>10, EntriesAre
  <2>2. PICK whole, es : whole = flat \o ws /\ es = Entries(rest) /\ whole \in Seq(EntryType) /\ es \in Seq(EntryType)
    <3>1. Entries(rest) \in Seq(EntryType)
      BY Zenon, <1>10, EntriesAre
    <3>2. flat \o ws \in Seq(EntryType)
      <4>1. flat \in Seq(EntryType) /\ ws \in Seq(EntryType)
        BY Zenon, <1>5, <2>1
      <4> QED BY ONLY SMTT(60), <4>1
    <3> QED BY Zenon, <3>1, <3>2
  <2>3. Gathered(run2) = whole \o es /\ Flat(run2.generations) = whole
    BY Zenon, <1>5, <1>10, <1>11, <2>1, <2>2 DEF Gathered
  <2>4. Distinct(whole \o es)
    BY Zenon, <1>15, <2>3 DEF GatheredFrom
  <2>5. PICK E : E = EntryType
    BY Zenon
  <2>6. whole \in Seq(E) /\ es \in Seq(E)
    BY Zenon, <2>2, <2>5
  <2>7. Distinct(whole)
    BY Zenon, <2>4, <2>6, DistinctPrefix
  <2>8. Distinct(flat \o ws) /\ Holds(t.files, flat)
    BY Zenon, <1>2, <1>3, <1>5, <2>2, <2>7
  <2>9. PICK files : files = t.files
    BY Zenon
  <2>10. Holds(AddFiles(files, ws), flat \o ws)
    BY Zenon, <1>5, <2>1, <2>8, <2>9, HoldsMore
  <2>11. AddFiles(files, ws) = AddFiles(files, written)
    BY Zenon, <1>10, <2>1, AddEntries
  <2> QED BY Zenon, <2>2, <2>3, <2>9, <2>10, <2>11
<1>17. run2.next \in Nat \ {0} /\ Jobs[run2.job] = j /\ run2.at \notin {"publishing", "installing"}
  BY <1>1
<1>18. RowsSound(j, run2, t2)
  <2>1. CASE n = Len(j.shards)
    <3>1. run2.at = "sharding" /\ GatheredFrom(j, run2, Len(j.shards))
      BY Zenon, <1>3, <1>15, <2>1
    <3> QED BY Zenon, <1>16, <3>1 DEF RowsSound
  <2>2. CASE n # Len(j.shards)
    <3>1. PICK top : top = Len(j.shards) /\ top \in Nat
      BY Zenon, <1>4, Elements
    <3>2. run2.next \in 1 .. Len(j.shards) /\ run2.next - 1 = n
      BY SMTT(60), <1>2, <1>3, <2>2, <3>1
    <3>3. run2.at = "verifying"
      BY Zenon, <1>3, <2>2
    <3>4. GatheredFrom(j, run2, run2.next - 1)
      BY <1>15, <3>2
    <3> QED BY Zenon, <1>16, <3>2, <3>3, <3>4 DEF RowsSound
  <2> QED BY Zenon, <2>1, <2>2
<1> QED BY Zenon, <1>1, <1>17, <1>18 DEF Sound

LEMMA GatheredBlobs ==
    ASSUME NEW run, NEW t, Sound(run, t), run.at = "reading", NEW j, j = Jobs[run.job], j.kind = "blobs",
           NEW rows \in Seq(RowType),
           NEW acc, acc = run.picked \o More(j, rows, run.seen), Len(acc) <= j.maxDocuments,
           NEW run2, run2.picked = acc, run2.generations = run.generations,
           run2.seen = run.seen \cup IdsOfNew(j, rows, run.seen),
           ~ run2.raced => ~ run.raced /\ rows = PinnedRows[j.shards[run.next]]
    PROVE  GatheredFrom(j, run2, run.next)
<1>1. run.job \in DOMAIN Jobs /\ BlobsSound(j, run, t)
  BY DEF Sound
<1>2. PICK n, m : n = run.next /\ m = n - 1
  OBVIOUS
<1>3. run.generations = <<>> /\ n \in 1 .. Len(j.shards) /\ GatheredFrom(j, run, m)
  BY <1>1, <1>2 DEF BlobsSound
<1>4. /\ j.maxDocuments \in Nat /\ j.shards \in Seq(DOMAIN PinnedRows) /\ run.picked \in Seq(RowType)
      /\ run.generations \in Seq(Seq(EntryType))
  BY <1>1, <1>3, JobsAre DEF GatheredFrom
<1>5. PICK flat : flat = Flat(run.generations) /\ flat \in Seq(EntryType) /\ flat = <<>>
  <2>1. Flat(run.generations) = <<>>
    BY <1>3, FlatEmpty
  <2>2. <<>> \in Seq(EntryType)
    OBVIOUS
  <2> QED BY <2>1, <2>2
<1>6. PICK more, picked, seen : more = More(j, rows, run.seen) /\ picked = run.picked /\ seen = run.seen
  OBVIOUS
<1>7. /\ acc = picked \o more /\ acc \in Seq(RowType) /\ Entries(more) \in Seq(EntryType)
      /\ flat \o Entries(acc) = (flat \o Entries(picked)) \o Entries(more)
  <2>1. more = More(j, rows, seen) /\ picked \in Seq(RowType) /\ acc = picked \o more
    BY <1>4, <1>6
  <2>2. flat \in Seq(EntryType)
    BY <1>5
  <2>3. PickedAre(picked, more, flat)
    BY ONLY rows \in Seq(RowType), <2>1, <2>2, PickedMore
  <2> QED BY <2>1, <2>3 DEF PickedAre
<1>8. Gathered(run2) = flat \o Entries(acc) /\ Gathered(run) = flat \o Entries(picked)
  BY SMTT(60), <1>5, <1>6 DEF Gathered
<1>9. Len(Gathered(run2)) = Len(acc)
  <2>1. PICK es : es = Entries(acc)
    OBVIOUS
  <2>2. es \in Seq(EntryType) /\ Len(es) = Len(acc)
    BY <1>7, <2>1, EntriesAre
  <2>3. flat \o es = es
    BY <1>5, <2>2
  <2> QED BY <1>8, <2>1, <2>2, <2>3
<1>10. Adds(j, n, m, run, rows, run2)
  <2>1. j.kind \in {"blobs", "rows"} /\ m = n - 1 /\ ~ Torn(j, rows)
    BY <1>2 DEF Torn
  <2>2. run2.picked \in Seq(RowType) /\ run2.generations \in Seq(Seq(EntryType))
    BY Zenon, <1>4, <1>7
  <2>3. Gathered(run2) = Gathered(run) \o Entries(More(j, rows, run.seen))
    BY <1>6, <1>7, <1>8
  <2>4. run2.seen = run.seen \cup IdsOfNew(j, rows, run.seen)
    OBVIOUS
  <2>5. ~ run2.raced => ~ run.raced /\ rows = PinnedRows[j.shards[n]]
    BY <1>2
  <2>6. \A g \in 1 .. Len(run2.generations) : Len(run2.generations[g]) = j.perGeneration
    BY <1>3
  <2>7. Len(Gathered(run2)) <= j.maxDocuments
    BY <1>9
  <2> QED BY ONLY rows \in Seq(RowType), <1>3, <1>4, <2>1, <2>2, <2>3, <2>4, <2>5, <2>6, <2>7 DEF Adds
<1> QED BY <1>2, <1>10, MoreGathered

LEMMA KeptSound ==
    ASSUME NEW run, NEW t, Sound(run, t), run.at = "reading", NEW j, j = Jobs[run.job], j.kind = "blobs",
           NEW rows \in Seq(RowType), run.next # Len(j.shards),
           NEW acc, acc = run.picked \o More(j, rows, run.seen), Len(acc) <= j.maxDocuments,
           NEW run2, DOMAIN run2 = RunFields, run2.job = run.job, run2.next = run.next + 1,
           run2.at = "verifying", run2.bytes = run.bytes, run2.raced \in BOOLEAN,
           run2.picked = acc, run2.generations = run.generations,
           run2.seen = run.seen \cup IdsOfNew(j, rows, run.seen),
           ~ run2.raced => ~ run.raced /\ rows = PinnedRows[j.shards[run.next]]
    PROVE  Sound(run2, t)
<1>1. run.job \in DOMAIN Jobs /\ Valid(j) /\ BlobsSound(j, run, t)
  BY DEF Sound
<1>2. run.generations = <<>> /\ run.next \in 1 .. Len(j.shards) /\ run.bytes = 0
  BY <1>1 DEF BlobsSound
<1>3. GatheredFrom(j, run2, run.next)
  BY GatheredBlobs
<1>4. PICK top : top = Len(j.shards) /\ top \in Nat
  BY <1>1, JobsAre, Elements
<1>5. run2.next \in 1 .. Len(j.shards) /\ run2.next - 1 = run.next /\ run2.next \in Nat \ {0}
  BY <1>2, <1>4
<1>6. GatheredFrom(j, run2, run2.next - 1)
  BY <1>3, <1>5
<1>7. BlobsSound(j, run2, t)
  BY <1>2, <1>5, <1>6 DEF BlobsSound
<1> QED BY <1>1, <1>5, <1>7 DEF Sound

LEMMA LastSound ==
    ASSUME NEW run, NEW t, Sound(run, t), run.at = "reading", NEW j, j = Jobs[run.job], j.kind = "blobs",
           NEW rows \in Seq(RowType), run.next = Len(j.shards),
           NEW acc, acc = run.picked \o More(j, rows, run.seen), Len(acc) <= j.maxDocuments, acc # <<>>,
           NEW run2, DOMAIN run2 = RunFields, run2.job = run.job, run2.next = 1,
           run2.at = "fetching", run2.bytes = run.bytes, run2.raced \in BOOLEAN,
           run2.picked = Sorted(acc), run2.generations = run.generations,
           run2.seen = run.seen \cup IdsOfNew(j, rows, run.seen),
           ~ run2.raced => ~ run.raced /\ rows = PinnedRows[j.shards[run.next]]
    PROVE  Sound(run2, EmptyTree)
<1>1. run.job \in DOMAIN Jobs /\ Valid(j) /\ BlobsSound(j, run, t)
  BY DEF Sound
<1>2. run.generations = <<>> /\ run.bytes = 0
  BY <1>1 DEF BlobsSound
<1>3. PICK r : r = [picked |-> acc, generations |-> run.generations, seen |-> run2.seen, raced |-> run2.raced]
  OBVIOUS
<1>4. r.picked = acc /\ r.generations = run.generations /\ r.seen = run2.seen /\ r.raced = run2.raced
  BY <1>3
<1>5. PICK n : n = run.next
  OBVIOUS
<1>6. GatheredFrom(j, r, n)
  <2>1. r.seen = run.seen \cup IdsOfNew(j, rows, run.seen)
    BY <1>4
  <2>2. ~ r.raced => ~ run.raced /\ rows = PinnedRows[j.shards[run.next]]
    BY <1>4
  <2> QED BY <1>4, <1>5, <2>1, <2>2, GatheredBlobs
<1>7. /\ GatheredFrom(j, run2, n) /\ Ascending(run2.picked) /\ Len(run2.picked) = Len(acc)
  <2>1. r.generations = <<>> /\ run2.generations = <<>> /\ run2.picked = Sorted(r.picked)
        /\ run2.seen = r.seen /\ run2.raced = r.raced
    BY <1>2, <1>4
  <2>2. GatheredFrom(j, run2, n) /\ Ascending(run2.picked) /\ Len(run2.picked) = Len(r.picked)
    BY ONLY <1>6, <2>1, GatheredSorted
  <2> QED BY <1>4, <2>2
<1>8. Len(acc) # 0 /\ acc \in Seq(RowType)
  <2>1. acc \in Seq(RowType)
    BY <1>4, <1>6 DEF GatheredFrom
  <2> QED BY <2>1, Elements
<1>9. run2.picked \in Seq(RowType) /\ run2.picked # <<>>
  <2>1. run2.picked \in Seq(RowType)
    BY <1>7 DEF GatheredFrom
  <2> QED BY <1>7, <1>8, <2>1, Elements
<1>10. Fetched(j, run2) \in Seq(EntryType) /\ Len(Fetched(j, run2)) = Len(run2.picked)
  <2>1. run2.generations = <<>> /\ GatheredFrom(j, run2, n)
    BY <1>2, <1>7
  <2> QED BY ONLY j.kind = "blobs", <2>1, FetchedBlobs
<1>11. PICK u : u = EmptyTree
  OBVIOUS
<1>12. u.files = <<>> /\ DOMAIN u = TreeFields
  BY <1>11 DEF EmptyTree, TreeFields
<1>13. j.maxBytes \in Nat
  BY <1>1, JobsAre
<1>14. Arrived(j, run2, u)
  BY <1>2, <1>7, <1>8, <1>10, <1>12, <1>13, NothingArrived
<1>15. GatheredFrom(j, run2, Len(j.shards))
  BY <1>5, <1>7
<1>16. BlobsSound(j, run2, u)
  BY <1>2, <1>7, <1>9, <1>14, <1>15 DEF BlobsSound
<1>17. run2.next \in Nat \ {0} /\ Jobs[run2.job] = j
  BY SMTT(60)
<1> QED BY <1>1, <1>11, <1>12, <1>16, <1>17 DEF Sound

LEMMA AfterRowsIs ==
    ASSUME NEW p, NEW rows, NEW new, new = NewRows(Job(p), rows, runs[p].seen)
    PROVE  /\ AfterRows(p, rows, new).picked = runs[p].picked \o More(Job(p), rows, runs[p].seen)
           /\ AfterRows(p, rows, new).seen = runs[p].seen \cup IdsOfNew(Job(p), rows, runs[p].seen)
BY DEF AfterRows, More, MeantRow, IdsOfNew

(* The rows that are read, and what they are if nothing was replaced.       *)
LEMMA RowsRead ==
    ASSUME IInv, NEW p \in Procs, Running(p), runs[p].at = "reading",
           NEW s, s = Job(p).shards[runs[p].next], NEW rows, rows = RowsNow(s)
    PROVE  /\ rows \in Seq(RowType) /\ (shards[s] = "pinned" => rows = PinnedRows[s])
           /\ Job(p).kind \in {"blobs", "rows"} /\ runs[p].raced \in BOOLEAN
<1> DEFINE t == partial[<<Job(p).root, p>>]
<1>1. Sound(runs[p], t) /\ Job(p) = Jobs[runs[p].job] /\ runs[p].job \in DOMAIN Jobs
  BY RunIs
<1>2. Job(p).kind \in {"blobs", "rows"}
  BY <1>1, KindAt
<1>3. runs[p].next \in 1 .. Len(Job(p).shards)
  <2>1. CASE Job(p).kind = "blobs"
    BY <1>1, <2>1 DEF Sound, BlobsSound
  <2>2. CASE Job(p).kind = "rows"
    BY <1>1, <2>2 DEF Sound, RowsSound
  <2> QED BY <1>2, <2>1, <2>2
<1>4. Job(p).shards \in Seq(DOMAIN PinnedRows)
  BY <1>1, <1>2, JobsAre
<1>5. s \in DOMAIN PinnedRows
  BY <1>3, <1>4, Elements
<1>6. PinnedRows[s] \in Seq(RowType) /\ OtherRows[s] \in Seq(RowType)
  BY <1>5, AcquisitionAssumption
<1>7. runs[p].raced \in BOOLEAN
  BY <1>1 DEF Sound
<1> QED BY <1>2, <1>6, <1>7 DEF RowsNow

LEMMA FlushCarried ==
    ASSUME IInv, NEW p \in Procs, Running(p), runs[p].at = "reading", Job(p).kind = "rows",
           NEW s, s = Job(p).shards[runs[p].next], NEW rows, rows = RowsNow(s), ~ Torn(Job(p), rows),
           NEW new, new = NewRows(Job(p), rows, runs[p].seen),
           NEW after, after = AfterRows(p, rows, new), FlushFull(p, after),
           UNCHANGED <<root, shards, tree>>
    PROVE  IInv'
<1> DEFINE t == partial[<<Job(p).root, p>>]
<1>1. CASE Fail(p)
  BY <1>1, FailCarried
<1>2. /\ Sound(runs[p], t) /\ Job(p) = Jobs[runs[p].job] /\ Publishes(Job(p))
      /\ DOMAIN runs[p] = RunFields /\ DOMAIN runs = Procs
  BY Zenon, RunIs DEF Publishes, IInv, StateType
<1>3. /\ rows \in Seq(RowType) /\ (shards[s] = "pinned" => rows = PinnedRows[s]) /\ runs[p].raced \in BOOLEAN
  BY Zenon, RowsRead
<1>4. PICK acc, seen : /\ acc = after.picked /\ acc = runs[p].picked \o More(Job(p), rows, runs[p].seen)
                       /\ seen = after.seen /\ seen = runs[p].seen \cup IdsOfNew(Job(p), rows, runs[p].seen)
  BY Zenon, AfterRowsIs
<1>5. PICK written, files : /\ written = Flat(FullGenerations(acc, Job(p).perGeneration))
                            /\ files = AddFiles(t.files, written)
  BY Zenon
<1>6. ASSUME ~ Fail(p)
      PROVE  /\ Len(runs[p].generations) * Job(p).perGeneration + Len(acc) <= Job(p).maxDocuments
             /\ runs' = [runs EXCEPT
                  ![p].next = @ + 1,
                  ![p].at = IF runs[p].next = Len(Job(p).shards) THEN "sharding" ELSE "verifying",
                  ![p].seen = seen,
                  ![p].raced = @ \/ shards[s] # "pinned",
                  ![p].picked = SubSeq(acc, Len(written) + 1, Len(acc)),
                  ![p].generations = @ \o FullGenerations(Entries(written), Job(p).perGeneration),
                  ![p].bytes = runs[p].bytes + BytesOf(written)]
             /\ partial' = [partial EXCEPT ![<<Job(p).root, p>>].files = files]
  <2>1. ~ (Len(runs[p].generations) * Job(p).perGeneration + Len(acc) > Job(p).maxDocuments)
    BY Zenon, <1>4, <1>6 DEF FlushFull
  <2>2. PICK size, max : /\ size = Len(runs[p].generations) * Job(p).perGeneration + Len(acc)
                         /\ max = Job(p).maxDocuments
    OBVIOUS
  <2>3. size \in Int /\ max \in Int
    <3>1. max \in Nat /\ Job(p).perGeneration \in Nat
      BY Zenon, <1>2, <2>2, JobsAre DEF Sound
    <3>2. runs[p].generations \in Seq(Seq(EntryType)) /\ runs[p].picked \in Seq(RowType)
      BY Zenon, <1>2 DEF Sound, RowsSound, GatheredFrom
    <3>3. Len(runs[p].generations) \in Nat
      BY SMTT(60), <3>2
    <3>4. acc \in Seq(RowType)
      <4>1. More(Job(p), rows, runs[p].seen) \in Seq(RowType)
        BY <1>3, MoreAre
      <4>2. \A a \in Seq(RowType), b \in Seq(RowType) : a \o b \in Seq(RowType)
        OBVIOUS
      <4> QED BY Zenon, <1>4, <3>2, <4>1, <4>2
    <3>5. Len(acc) \in Nat
      BY <3>4
    <3> QED BY SMTT(60), <2>2, <3>1, <3>3, <3>5
  <2>4. size <= max
    <3>1. ~ (size > max)
      BY Zenon, <2>1, <2>2
    <3> QED BY ONLY SMTT(60), <3>1, <2>3
  <2> QED BY Zenon, <1>4, <1>5, <1>6, <2>2, <2>4 DEF FlushFull
<1>7. CASE ~ Fail(p)
  <2>1. PICK at, raced, rest, gens, bytes :
          /\ at = IF runs[p].next = Len(Job(p).shards) THEN "sharding" ELSE "verifying"
          /\ raced = (runs[p].raced \/ shards[s] # "pinned")
          /\ rest = SubSeq(acc, Len(written) + 1, Len(acc))
          /\ gens = runs[p].generations \o FullGenerations(Entries(written), Job(p).perGeneration)
          /\ bytes = runs[p].bytes + BytesOf(written)
    OBVIOUS
  <2>2. PICK run2 : run2 = [runs[p] EXCEPT !.next = runs[p].next + 1, !.at = at, !.seen = seen, !.raced = raced,
                                           !.picked = rest, !.generations = gens, !.bytes = bytes]
    OBVIOUS
  <2>13. runs' = [runs EXCEPT ![p].next = @ + 1, ![p].at = at, ![p].seen = seen, ![p].raced = raced,
                             ![p].picked = rest, ![p].generations = gens, ![p].bytes = bytes]
    BY ZenonT(60), <1>2, <1>3, <1>6, <1>7, <2>1 DEF RunFields
  <2>3. runs' = [runs EXCEPT ![p] = run2]
    BY ONLY <1>2, p \in Procs, <2>2, <2>13 DEF RunFields
  <2>4. DOMAIN runs' = Procs /\ runs'[p] = run2 /\ \A q \in Procs : q # p => runs'[q] = runs[q]
    BY <2>3, RunsMove
  <2>5. /\ DOMAIN run2 = RunFields /\ run2.job = runs[p].job /\ run2.next = runs[p].next + 1
        /\ run2.at = at /\ run2.seen = seen /\ run2.raced = raced /\ run2.picked = rest
        /\ run2.generations = gens
    BY Zenon, <1>2, <2>2 DEF RunFields
  <2>6. DOMAIN t = TreeFields
    BY <1>2 DEF Sound
  <2>7. PICK t2 : t2 = [t EXCEPT !.files = files]
    OBVIOUS
  <2>8. DOMAIN t2 = TreeFields /\ t2.files = files
    BY <2>6, <2>7, FileWritten
  <2>9. partial' = [partial EXCEPT ![<<Job(p).root, p>>] = t2]
    BY Zenon, <1>6, <1>7, <2>7
  <2>10. PICK run, j, v : run = runs[p] /\ j = Job(p) /\ v = t
    BY Zenon
  <2> HIDE DEF t
  <2>11. Sound(run2, t2)
    <3>1. Sound(run, v) /\ run.at = "reading" /\ j = Jobs[run.job] /\ j.kind = "rows"
      BY Zenon, <1>2, <2>10
    <3>2. rows \in Seq(RowType) /\ ~ Torn(j, rows)
      BY Zenon, <1>3, <2>10
    <3>3. /\ acc = run.picked \o More(j, rows, run.seen)
          /\ written = Flat(FullGenerations(acc, j.perGeneration))
          /\ Len(run.generations) * j.perGeneration + Len(acc) <= j.maxDocuments
      BY Zenon, <1>4, <1>5, <1>6, <1>7, <2>10
    <3>4. DOMAIN run2 = RunFields /\ run2.job = run.job /\ run2.next = run.next + 1
      BY Zenon, <2>5, <2>10
    <3>5. run2.at = IF run.next = Len(j.shards) THEN "sharding" ELSE "verifying"
      BY Zenon, <2>1, <2>5, <2>10
    <3>6. run2.seen = run.seen \cup IdsOfNew(j, rows, run.seen)
      BY Zenon, <1>4, <2>5, <2>10
    <3>7. run2.raced \in BOOLEAN
      BY Zenon, <1>3, <2>1, <2>5
    <3>8. ~ run2.raced => ~ run.raced /\ rows = PinnedRows[j.shards[run.next]]
      BY Zenon, <1>3, <2>1, <2>5, <2>10
    <3>9. run2.picked = SubSeq(acc, Len(written) + 1, Len(acc))
      BY Zenon, <2>1, <2>5
    <3>10. run2.generations = run.generations \o FullGenerations(Entries(written), j.perGeneration)
      BY Zenon, <2>1, <2>5, <2>10
    <3>11. DOMAIN t2 = TreeFields /\ t2.files = AddFiles(v.files, written)
      BY ZenonT(60), <1>5, <2>8, <2>10 DEF t
    <3>12. Flushes(run, v, j, rows, acc, written, run2, t2)
      BY ONLY <3>1, <3>2, <3>3, <3>4, <3>5, <3>6, <3>7, <3>8, <3>9, <3>10, <3>11 DEF Flushes
    <3> QED BY Zenon, <3>12, FlushedSound
  <2>12. run2.at # "ok"
    BY Zenon, <2>1, <2>5
  <2> QED BY ZenonT(60), <1>2, <2>4, <2>5, <2>9, <2>11, <2>12, GoesOnCarried
<1> QED BY <1>1, <1>7

LEMMA KeepCarried ==
    ASSUME IInv, NEW p \in Procs, Running(p), runs[p].at = "reading", Job(p).kind = "blobs",
           NEW s, s = Job(p).shards[runs[p].next], NEW rows, rows = RowsNow(s),
           NEW new, new = NewRows(Job(p), rows, runs[p].seen),
           NEW after, after = AfterRows(p, rows, new), KeepRows(p, after),
           UNCHANGED <<root, shards, tree>>
    PROVE  IInv'
<1> DEFINE t == partial[<<Job(p).root, p>>]
<1>1. CASE Fail(p)
  BY <1>1, FailCarried
<1>2. ASSUME NEW how \in {"done", "failed"}, Reported(p, how), UNCHANGED partial PROVE IInv'
  BY <1>2, EndCarried
<1>3. /\ Sound(runs[p], t) /\ Job(p) = Jobs[runs[p].job] /\ Publishes(Job(p))
      /\ DOMAIN runs[p] = RunFields /\ DOMAIN runs = Procs
  BY Zenon, RunIs DEF Publishes, IInv, StateType
<1>4. /\ rows \in Seq(RowType) /\ (shards[s] = "pinned" => rows = PinnedRows[s]) /\ runs[p].raced \in BOOLEAN
  BY Zenon, RowsRead
<1>5. PICK acc, seen : /\ acc = after.picked /\ acc = runs[p].picked \o More(Job(p), rows, runs[p].seen)
                       /\ seen = after.seen /\ seen = runs[p].seen \cup IdsOfNew(Job(p), rows, runs[p].seen)
  BY Zenon, AfterRowsIs
<1>6. PICK last, raced, sorted : /\ last = Len(Job(p).shards)
                                 /\ raced = (runs[p].raced \/ shards[s] # "pinned")
                                 /\ sorted = Sorted(acc)
  OBVIOUS
<1>7. raced \in BOOLEAN
  BY <1>4, <1>6
<1>8. ASSUME ~ (Len(acc) > Job(p).maxDocuments) PROVE Len(acc) <= Job(p).maxDocuments
  <2>1. Job(p).maxDocuments \in Nat
    BY ZenonT(60), <1>3, JobsAre DEF Sound
  <2>2. runs[p].picked \in Seq(RowType)
    <3>1. BlobsSound(Job(p), runs[p], t)
      BY Zenon, <1>3 DEF Sound
    <3>2. \E k \in Nat : GatheredFrom(Job(p), runs[p], k)
      <4>1. PICK run, j, v : run = runs[p] /\ j = Job(p) /\ v = t
        BY Zenon
      <4>2. BlobsSound(j, run, v) /\ run.at = "reading"
        BY Zenon, <3>1, <4>1
      <4>3. \E k \in Nat : GatheredFrom(j, run, k)
        BY ONLY <4>2 DEF BlobsSound
      <4> QED BY Zenon, <4>1, <4>3
    <3> QED BY Zenon, <3>2 DEF GatheredFrom
  <2>3. More(Job(p), rows, runs[p].seen) \in Seq(RowType)
    BY <1>4, MoreAre
  <2>4. \A a \in Seq(RowType), b \in Seq(RowType) : a \o b \in Seq(RowType)
    BY ONLY SMTT(60)
  <2>5. acc \in Seq(RowType)
    BY Zenon, <1>5, <2>2, <2>3, <2>4
  <2>6. PICK n, max : n = Len(acc) /\ max = Job(p).maxDocuments
    OBVIOUS
  <2>7. n \in Nat /\ max \in Nat
    BY <2>1, <2>5, <2>6
  <2> QED BY SMTT(60), <1>8, <2>6, <2>7
<1>9. PICK run, j, v : run = runs[p] /\ j = Job(p) /\ v = t
  BY Zenon
<1> HIDE DEF t
<1>10. /\ Sound(run, v) /\ run.at = "reading" /\ j = Jobs[run.job] /\ j.kind = "blobs"
       /\ acc = run.picked \o More(j, rows, run.seen)
  BY Zenon, <1>3, <1>5, <1>9
<1>11. CASE /\ Len(acc) <= Job(p).maxDocuments /\ runs[p].next # last
            /\ runs' = [runs EXCEPT ![p].seen = seen, ![p].raced = raced,
                                    ![p].at = "verifying", ![p].next = @ + 1, ![p].picked = acc]
            /\ UNCHANGED partial
  <2>1. PICK run2 : run2 = [runs[p] EXCEPT !.seen = seen, !.raced = raced, !.at = "verifying",
                                           !.next = runs[p].next + 1, !.picked = acc]
    BY Zenon
  <2>2. runs' = [runs EXCEPT ![p] = run2]
    BY Zenon, <1>3, <1>11, <2>1 DEF RunFields
  <2>3. DOMAIN runs' = Procs /\ runs'[p] = run2 /\ \A q \in Procs : q # p => runs'[q] = runs[q]
    BY Zenon, <2>2, RunsMove
  <2>4. /\ DOMAIN run2 = RunFields /\ run2.job = runs[p].job /\ run2.next = runs[p].next + 1
        /\ run2.at = "verifying" /\ run2.seen = seen /\ run2.raced = raced /\ run2.picked = acc
        /\ run2.generations = runs[p].generations /\ run2.bytes = runs[p].bytes
    BY Zenon, <1>3, <2>1 DEF RunFields
  <2>5. Sound(run2, v)
    <3>1. Len(acc) <= j.maxDocuments /\ run.next # Len(j.shards)
      BY Zenon, <1>6, <1>9, <1>11
    <3>2. /\ DOMAIN run2 = RunFields /\ run2.job = run.job /\ run2.next = run.next + 1
          /\ run2.at = "verifying" /\ run2.bytes = run.bytes /\ run2.raced \in BOOLEAN
          /\ run2.picked = acc /\ run2.generations = run.generations
      BY <1>7, <1>9, <2>4
    <3>3. run2.seen = run.seen \cup IdsOfNew(j, rows, run.seen)
      BY Zenon, <1>5, <1>9, <2>4
    <3>4. ~ run2.raced => ~ run.raced /\ rows = PinnedRows[j.shards[run.next]]
      BY <1>4, <1>6, <1>9, <2>4
    <3>5. rows \in Seq(RowType)
      BY <1>4
    <3> QED BY ONLY ZenonT(60), <1>10, <3>1, <3>2, <3>3, <3>4, <3>5, KeptSound
  <2>6. UNCHANGED partial /\ v = partial[<<Job(p).root, p>>]
    BY <1>9, <1>11 DEF t
  <2>7. run2.at # "ok"
    BY Zenon, <2>4
  <2> QED BY <2>3, <2>4, <2>5, <2>6, <2>7, GoesOnCarried
<1>12. CASE /\ Len(acc) <= Job(p).maxDocuments /\ runs[p].next = last /\ acc # <<>>
            /\ runs' = [runs EXCEPT ![p].seen = seen, ![p].raced = raced,
                                    ![p].at = "fetching", ![p].next = 1, ![p].picked = sorted]
            /\ CreatePartial(p, Job(p).root)
  <2>1. PICK run2 : run2 = [runs[p] EXCEPT !.seen = seen, !.raced = raced, !.at = "fetching",
                                           !.next = 1, !.picked = sorted]
    OBVIOUS
  <2>2. runs' = [runs EXCEPT ![p] = run2]
    BY Zenon, <1>3, <1>12, <2>1 DEF RunFields
  <2>3. DOMAIN runs' = Procs /\ runs'[p] = run2 /\ \A q \in Procs : q # p => runs'[q] = runs[q]
    BY <2>2, RunsMove
  <2>4. /\ DOMAIN run2 = RunFields /\ run2.job = runs[p].job /\ run2.next = 1
        /\ run2.at = "fetching" /\ run2.seen = seen /\ run2.raced = raced /\ run2.picked = sorted
        /\ run2.generations = runs[p].generations /\ run2.bytes = runs[p].bytes
    BY Zenon, <1>3, <2>1 DEF RunFields
  <2>5. Sound(run2, EmptyTree)
    <3>1. Len(acc) <= j.maxDocuments /\ run.next = Len(j.shards) /\ acc # <<>>
      BY <1>6, <1>9, <1>12
    <3>2. /\ DOMAIN run2 = RunFields /\ run2.job = run.job /\ run2.next = 1
          /\ run2.at = "fetching" /\ run2.bytes = run.bytes /\ run2.raced \in BOOLEAN
          /\ run2.picked = Sorted(acc) /\ run2.generations = run.generations
      BY Zenon, <1>6, <1>7, <1>9, <2>4
    <3>3. run2.seen = run.seen \cup IdsOfNew(j, rows, run.seen)
      BY ZenonT(60), <1>5, <1>9, <2>4
    <3>4. ~ run2.raced => ~ run.raced /\ rows = PinnedRows[j.shards[run.next]]
      BY <1>4, <1>6, <1>9, <2>4
    <3>5. rows \in Seq(RowType)
      BY <1>4
    <3> QED BY ONLY <1>10, <3>1, <3>2, <3>3, <3>4, <3>5, LastSound
  <2>6. PICK u : u = EmptyTree
    OBVIOUS
  <2>7. Sound(run2, u) /\ Publishes(Job(p)) /\ partial' = [partial EXCEPT ![<<Job(p).root, p>>] = u]
    BY <1>3, <1>12, <2>5, <2>6 DEF CreatePartial
  <2>8. run2.at # "ok"
    BY Zenon, <2>4
  <2> QED BY <2>3, <2>4, <2>7, <2>8, GoesOnCarried
<1>13. \/ Fail(p)
       \/ UNCHANGED partial /\ (Reported(p, "done") \/ Reported(p, "failed"))
       \/ /\ ~ (Len(acc) > Job(p).maxDocuments) /\ runs[p].next = last /\ acc # <<>>
          /\ runs' = [runs EXCEPT ![p].seen = seen, ![p].raced = raced,
                                  ![p].at = "fetching", ![p].next = 1, ![p].picked = sorted]
          /\ CreatePartial(p, Job(p).root)
       \/ /\ ~ (Len(acc) > Job(p).maxDocuments) /\ runs[p].next # last
          /\ runs' = [runs EXCEPT ![p].seen = seen, ![p].raced = raced,
                                  ![p].at = "verifying", ![p].next = @ + 1, ![p].picked = acc]
          /\ UNCHANGED partial
  <2> DEFINE kept == [runs EXCEPT ![p].seen = after.seen,
                                  ![p].raced = @ \/ shards[Job(p).shards[runs[p].next]] # "pinned"]
  <2>2. kept = [runs EXCEPT ![p].seen = seen, ![p].raced = raced]
    BY Zenon, <1>3, <1>4, <1>5, <1>6 DEF RunFields
  <2>6. \/ Fail(p)
        \/ UNCHANGED partial /\ Reported(p, IF Job(p).partitioned THEN "done" ELSE "failed")
        \/ /\ ~ (Len(after.picked) > Job(p).maxDocuments)
           /\ runs[p].next = Len(Job(p).shards) /\ after.picked # <<>>
           /\ runs' = [kept EXCEPT ![p].at = "fetching", ![p].next = 1, ![p].picked = Sorted(after.picked)]
           /\ CreatePartial(p, Job(p).root)
        \/ /\ ~ (Len(after.picked) > Job(p).maxDocuments) /\ runs[p].next # Len(Job(p).shards)
           /\ runs' = [kept EXCEPT ![p].at = "verifying", ![p].next = @ + 1, ![p].picked = after.picked]
           /\ UNCHANGED partial
    <3> DEFINE over == Len(after.picked) > Job(p).maxDocuments
               atLast == runs[p].next = Len(Job(p).shards)
               none == after.picked = <<>>
    <3>1. CASE over
      <4>1. Fail(p)
        BY Zenon, <3>1 DEF KeepRows
      <4> QED BY Zenon, <4>1
    <3>2. CASE ~ over /\ atLast /\ none
      <4>1. UNCHANGED partial /\ Reported(p, IF Job(p).partitioned THEN "done" ELSE "failed")
        BY Zenon, <3>2 DEF KeepRows
      <4> QED BY Zenon, <4>1
    <3>3. CASE ~ over /\ atLast /\ ~ none
      <4>1. /\ runs' = [kept EXCEPT ![p].at = "fetching", ![p].next = 1, ![p].picked = Sorted(after.picked)]
            /\ CreatePartial(p, Job(p).root)
        BY Zenon, <3>3 DEF KeepRows
      <4> QED BY Zenon, <3>3, <4>1
    <3>4. CASE ~ over /\ ~ atLast
      <4>1. /\ runs' = [kept EXCEPT ![p].at = "verifying", ![p].next = @ + 1, ![p].picked = after.picked]
            /\ UNCHANGED partial
        BY Zenon, <3>4 DEF KeepRows
      <4> QED BY Zenon, <3>4, <4>1
    <3> QED BY Zenon, <3>1, <3>2, <3>3, <3>4
  <2> HIDE DEF kept
  <2>3. \/ Fail(p)
        \/ UNCHANGED partial /\ (Reported(p, "done") \/ Reported(p, "failed"))
        \/ /\ ~ (Len(acc) > Job(p).maxDocuments) /\ runs[p].next = last /\ acc # <<>>
           /\ runs' = [kept EXCEPT ![p].at = "fetching", ![p].next = 1, ![p].picked = Sorted(acc)]
           /\ CreatePartial(p, Job(p).root)
        \/ /\ ~ (Len(acc) > Job(p).maxDocuments) /\ runs[p].next # last
           /\ runs' = [kept EXCEPT ![p].at = "verifying", ![p].next = @ + 1, ![p].picked = acc]
           /\ UNCHANGED partial
    BY Zenon, <1>5, <1>6, <2>6
  <2>4. [kept EXCEPT ![p].at = "fetching", ![p].next = 1, ![p].picked = sorted] =
        [runs EXCEPT ![p].seen = seen, ![p].raced = raced,
                     ![p].at = "fetching", ![p].next = 1, ![p].picked = sorted]
    BY Zenon, <1>3, <2>2 DEF RunFields
  <2>5. [kept EXCEPT ![p].at = "verifying", ![p].next = @ + 1, ![p].picked = acc] =
        [runs EXCEPT ![p].seen = seen, ![p].raced = raced,
                     ![p].at = "verifying", ![p].next = @ + 1, ![p].picked = acc]
    BY Zenon, <1>3, <2>2 DEF RunFields
  <2> QED BY Zenon, <1>6, <2>3, <2>4, <2>5
<1> QED BY <1>1, <1>2, <1>8, <1>11, <1>12, <1>13

LEMMA ReadCarried ==
    ASSUME IInv, NEW p \in Procs, ReadShard(p) PROVE IInv'
<1>1. Running(p) /\ runs[p].at = "reading" /\ UNCHANGED <<root, shards, tree>>
  BY DEF ReadShard, Running, Ended
<1>2. PICK s, rows, new, after :
        /\ s = Job(p).shards[runs[p].next] /\ rows = RowsNow(s)
        /\ new = NewRows(Job(p), rows, runs[p].seen) /\ after = AfterRows(p, rows, new)
        /\ \/ Fail(p)
           \/ ~ Torn(Job(p), rows) /\ Job(p).kind = "rows" /\ FlushFull(p, after)
           \/ Job(p).kind # "rows" /\ KeepRows(p, after)
  <2>1. \A rows, after :
          (CASE Torn(Job(p), rows) -> Fail(p)
             [] ~Torn(Job(p), rows) /\ Job(p).kind = "rows" -> FlushFull(p, after)
             [] OTHER -> KeepRows(p, after)) =>
          \/ Fail(p)
          \/ ~ Torn(Job(p), rows) /\ Job(p).kind = "rows" /\ FlushFull(p, after)
          \/ Job(p).kind # "rows" /\ KeepRows(p, after)
    OBVIOUS
  <2> QED BY <2>1 DEF ReadShard
<1>3. CASE Fail(p)
  BY <1>1, <1>3, FailCarried
<1>4. CASE ~ Torn(Job(p), rows) /\ Job(p).kind = "rows" /\ FlushFull(p, after)
  BY <1>1, <1>2, <1>4, FlushCarried
<1>5. CASE Job(p).kind # "rows" /\ KeepRows(p, after)
  <2>1. Job(p).kind = "blobs"
    BY <1>1, <1>2, <1>5, RowsRead
  <2> QED BY SMTT(60), <1>1, <1>2, <1>5, <2>1, KeepCarried
<1> QED BY <1>2, <1>3, <1>4, <1>5

(* A command starts.                                                        *)
Fresh(run, n, at) ==
    /\ DOMAIN run = RunFields /\ run.job = n /\ run.at = at /\ run.next = 1
    /\ run.picked = <<>> /\ run.seen = {} /\ run.generations = <<>> /\ run.bytes = 0
    /\ run.raced = FALSE

LEMMA NewRunIs == \A n, at : Fresh(NewRun(n, at), n, at)
BY DEF Fresh, NewRun, RunFields

LEMMA NewSound ==
    ASSUME NEW n \in DOMAIN Jobs, NEW j, j = Jobs[n], Valid(j), NEW run, run = NewRun(n, FirstStep(j)),
           NEW t, j.kind \in {"assets", "rows"} => t = EmptyTree
    PROVE  Sound(run, t)
<1>1. /\ DOMAIN run = RunFields /\ run.job = n /\ run.at = FirstStep(j) /\ run.next = 1
      /\ run.picked = <<>> /\ run.seen = {} /\ run.generations = <<>> /\ run.bytes = 0
      /\ run.raced = FALSE
  BY NewRunIs DEF Fresh
<1>2. /\ j.kind \in {"assets", "discover", "blobs", "rows", "tree"}
      /\ j.maxDocuments \in Nat /\ j.maxBytes \in Nat
      /\ j.kind \in {"assets", "discover"} => j.assets \in Seq([name : Nat, content : Contents])
      /\ j.kind \in {"blobs", "rows"} => j.shards \in Seq(DOMAIN PinnedRows)
  BY JobsAre
<1>3. EmptyTree.files = <<>> /\ DOMAIN EmptyTree = TreeFields
  BY DEF EmptyTree, TreeFields
<1>4. Jobs[run.job] = j /\ run.job \in DOMAIN Jobs /\ run.next \in Nat \ {0} /\ run.raced \in BOOLEAN
  <2>1. run.raced \in BOOLEAN
    BY <1>1
  <2>2. Jobs[run.job] = j /\ run.job \in DOMAIN Jobs /\ run.next \in Nat \ {0}
    BY <1>1
  <2> QED BY <2>1, <2>2
<1>5. CASE j.kind = "assets"
  <2>1. run.at = "fetching" /\ t = EmptyTree
    BY <1>1, <1>5 DEF FirstStep
  <2>2. ValidAssets(j) /\ j.assets \in Seq([name : Nat, content : Contents])
    BY <1>2, <1>5 DEF Valid
  <2>3. Fetched(j, run) \in Seq(EntryType) /\ Len(Fetched(j, run)) = Len(j.assets)
    BY ONLY <1>5, <2>2, FetchedAssets
  <2>4. Len(j.assets) # 0
    BY <1>2, <2>2 DEF ValidAssets
  <2>5. t.files = <<>> /\ DOMAIN t = TreeFields
    BY <1>3, <2>1
  <2>6. Arrived(j, run, t)
    BY <1>1, <1>2, <2>1, <2>3, <2>4, <2>5, NothingArrived
  <2>7. AssetsSound(j, run, t)
    BY <2>1, <2>6 DEF AssetsSound
  <2> QED BY <1>1, <1>4, <1>5, <2>1, <2>5, <2>7 DEF Sound
<1>6. CASE j.kind = "discover"
  <2>1. run.at = "fetching" /\ ~ Publishes(j)
    BY <1>1, <1>6 DEF FirstStep, Publishes
  <2>2. Len(j.assets) \in 1 .. j.maxDocuments
    BY <1>6 DEF Valid, ValidDiscovery
  <2>3. run.next <= Len(j.assets)
    BY <1>1, <1>2, <2>2
  <2> QED BY <1>1, <1>4, <1>6, <2>1, <2>3 DEF Sound
<1>7. CASE j.kind \in {"blobs", "rows"}
  <2>1. run.at = "verifying"
    BY <1>1, <1>7 DEF FirstStep
  <2>2. j.shards # <<>> /\ j.shards \in Seq(DOMAIN PinnedRows)
    BY <1>2, <1>7 DEF Valid, ValidBlobs, ValidRows
  <2>3. PICK top : top = Len(j.shards) /\ top \in Nat /\ top # 0
    BY <2>2, Elements
  <2>4. run.next \in 1 .. Len(j.shards) /\ run.next - 1 = 0
    BY <1>1, <2>3
  <2>5. GatheredFrom(j, run, 0)
    BY <1>1, <1>2, NothingGathered
  <2>6. GatheredFrom(j, run, run.next - 1)
    BY <2>4, <2>5
  <2>7. CASE j.kind = "blobs"
    <3>1. BlobsSound(j, run, t)
      BY <1>1, <2>1, <2>4, <2>6 DEF BlobsSound
    <3> QED BY <1>1, <1>4, <2>1, <2>7, <3>1 DEF Sound
  <2>8. CASE j.kind = "rows"
    <3>1. t = EmptyTree
      BY <2>8
    <3>2. Holds(t.files, Flat(run.generations))
      <4>1. Flat(run.generations) = <<>>
        BY <1>1, FlatEmpty
      <4> QED BY <1>3, <3>1, <4>1, HoldsNothing
    <3>3. RowsSound(j, run, t)
      BY <2>1, <2>4, <2>6, <3>2 DEF RowsSound
    <3> QED BY <1>1, <1>3, <1>4, <2>1, <2>8, <3>1, <3>3 DEF Sound
  <2> QED BY <1>7, <2>7, <2>8
<1>8. CASE j.kind = "tree"
  <2>1. run.at = "walking"
    BY <1>1, <1>8 DEF FirstStep
  <2>2. ToSet(run.picked) = {} /\ IdsOf(run.picked) = {} /\ Distinct(run.picked)
    BY <1>1 DEF ToSet, IdsOf, Distinct
  <2>3. TreeEntries({}) = {}
    BY DEF TreeEntries
  <2>4. <<>> \in Seq(EntryType)
    OBVIOUS
  <2>5. TreeSound(j, run)
    BY <1>1, <2>1, <2>2, <2>3, <2>4 DEF TreeSound
  <2> QED BY <1>1, <1>4, <1>8, <2>1, <2>5 DEF Sound
<1> QED BY <1>2, <1>5, <1>6, <1>7, <1>8

LEMMA OpenCarried ==
    ASSUME IInv, NEW p \in Procs, NEW n \in DOMAIN Jobs, Open(p, n) PROVE IInv'
<1>1. UNCHANGED <<root, shards, tree>>
  BY DEF Open
<1>2. CASE Reported(p, "failed") /\ UNCHANGED partial
  <2>1. DOMAIN runs' = Procs /\ runs'[p] = [at |-> "failed"] /\ \A q \in Procs : q # p => runs'[q] = runs[q]
    BY <1>2, RunsMove DEF Reported
  <2>2. Moves(p)
    BY <1>1, <1>2, <2>1, PartialStays DEF Moves
  <2>3. GoesOn(p)
    BY <2>1 DEF GoesOn, Ended
  <2> QED BY <1>1, <2>2, <2>3, Carried
<1>3. ASSUME NEW j, j = Jobs[n], Valid(j), NEW run, run = NewRun(n, FirstStep(j)),
             runs' = [runs EXCEPT ![p] = run],
             IF j.kind \in {"assets", "rows"} THEN CreatePartial(p, j.root) ELSE UNCHANGED partial
      PROVE  IInv'
  <2>1. DOMAIN runs' = Procs /\ runs'[p] = run /\ \A q \in Procs : q # p => runs'[q] = runs[q]
    BY <1>3, RunsMove
  <2>2. /\ DOMAIN partial' = Roots \X Procs
        /\ \A s \in Roots, q \in Procs : q # p => partial'[<<s, q>>] = partial[<<s, q>>]
        /\ j.kind \in {"assets", "rows"} => partial'[<<j.root, p>>] = EmptyTree
    <3>1. CASE j.kind \in {"assets", "rows"}
      <4>1. j.root \in Roots /\ partial' = [partial EXCEPT ![<<j.root, p>>] = EmptyTree]
        BY <1>3, <3>1, JobsAre DEF CreatePartial
      <4>2. PICK u, r : u = EmptyTree /\ r = j.root
        OBVIOUS
      <4> QED BY <4>1, <4>2, PartialMoves
    <3>2. CASE j.kind \notin {"assets", "rows"}
      BY <1>3, <3>2, PartialStays
    <3> QED BY <3>1, <3>2
  <2>3. PICK t : t = partial'[<<j.root, p>>]
    OBVIOUS
  <2>4. Sound(run, t)
    BY <1>3, <2>2, <2>3, NewSound
  <2>5. run.job = n /\ run.at = FirstStep(j)
    BY <1>3, NewRunIs DEF Fresh
  <2>6. run.at # "ok"
    BY <2>5 DEF FirstStep
  <2>7. GoesOn(p)
    BY <1>3, <2>1, <2>3, <2>4, <2>5, <2>6 DEF GoesOn
  <2>8. Moves(p)
    BY <1>1, <2>1, <2>2 DEF Moves
  <2> QED BY <1>1, <2>7, <2>8, Carried
<1>4. CASE Valid(Jobs[n]) /\ OutputFree(Jobs[n])
  <2>1. PICK j, run : j = Jobs[n] /\ run = NewRun(n, FirstStep(j))
    OBVIOUS
  <2>2. /\ runs' = [runs EXCEPT ![p] = run]
        /\ IF j.kind \in {"assets", "rows"} THEN CreatePartial(p, j.root) ELSE UNCHANGED partial
    BY <1>4, <2>1 DEF Open
  <2> QED BY <1>3, <1>4, <2>1, <2>2
<1>5. CASE ~ (Valid(Jobs[n]) /\ OutputFree(Jobs[n]))
  BY <1>2, <1>5 DEF Open
<1> QED BY <1>4, <1>5

-----------------------------------------------------------------------------
(* The inductive invariant holds, and what it says.                         *)
LEMMA InvInit == AcquisitionInit => IInv
<1> SUFFICES ASSUME AcquisitionInit PROVE IInv
  OBVIOUS
<1>1. /\ runs = [p \in Procs |-> Idle] /\ root = [r \in Roots |-> Absent]
      /\ partial = [place \in Roots \X Procs |-> Absent]
      /\ shards = [s \in DOMAIN PinnedRows |-> "pinned"] /\ tree = [name \in DOMAIN Tree |-> "pinned"]
  BY DEF AcquisitionInit, TreeInit
<1>2. StateType
  BY <1>1 DEF StateType
<1>3. ASSUME NEW p \in Procs PROVE RunSound(p) /\ OkSound(p)
  <2>1. runs[p].at = "idle"
    BY <1>1 DEF Idle
  <2> QED BY <2>1 DEF RunSound, OkSound, Running, Ended
<1>4. ASSUME NEW r \in Roots PROVE RootSound(r)
  BY <1>1 DEF RootSound, Exists
<1> QED BY <1>2, <1>3, <1>4 DEF IInv

LEMMA StepCarried ==
    ASSUME IInv, NEW p \in Procs, Step(p) PROVE IInv'
BY VerifyShardCarried, ReadCarried, TransferCarried, AssetCarried, BlobCarried, ProbeCarried,
   WalkCarried, EndWalkCarried, AssetManifestCarried, BlobManifestsCarried, TreeManifestsCarried,
   TailCarried, LookCarried, InstallCarried, RefusedCarried DEF Step

LEMMA InvNext == IInv /\ [Next]_vars => IInv'
<1> SUFFICES ASSUME IInv, [Next]_vars PROVE IInv'
  OBVIOUS
<1>1. ASSUME NEW p \in Procs, Step(p) PROVE IInv'
  BY <1>1, StepCarried
<1>2. ASSUME NEW p \in Procs, Kill(p) PROVE IInv'
  BY <1>2, KillCarried
<1>3. ASSUME NEW p \in Procs, NEW n \in DOMAIN Jobs, Open(p, n) PROVE IInv'
  BY <1>3, OpenCarried
<1>4. ASSUME NEW s \in DOMAIN PinnedRows, ReplaceShard(s) PROVE IInv'
  BY <1>4, TouchCarried DEF ReplaceShard, treeVars
<1>5. ASSUME NEW name \in DOMAIN Tree, EditTree(name) PROVE IInv'
  BY <1>5, TouchCarried DEF EditTree, treeVars
<1>6. CASE UNCHANGED vars
  BY <1>6, TouchCarried DEF vars, treeVars, acquisitionVars
<1> QED BY <1>1, <1>2, <1>3, <1>4, <1>5, <1>6 DEF Next

(* What each command has picked, fetched and written at its place is what   *)
(* its configuration and inputs call for up to there, and so is every       *)
(* published tree (acquire, discover, materialize_stack_source,             *)
(* materialize_stack_content, materialize_source).                          *)
THEOREM AcquisitionHolds == Spec => []IInv
BY InvInit, InvNext, PTL DEF Spec

(* Whatever the origins answered, who else was at work on the same root,    *)
(* which process was killed and what was left by one with the same id, a    *)
(* published tree lists what its configuration pins, once, in full          *)
(* generations, within its bounds, and its documents are those listed       *)
(* (PartialTree, acquire, resolve_and_publish, materialize_stack_content,   *)
(* materialize_source).                                                     *)
THEOREM TreesAreAsPinned == Spec => []PublishedAsPinned
<1>1. IInv => PublishedAsPinned
  BY DEF IInv, RootSound, PublishedAsPinned
<1> QED BY <1>1, AcquisitionHolds, PTL

(* A command that reports a publication made the tree that is there, and a  *)
(* published tree is never changed or removed (publish_create_new).         *)
THEOREM PublicationIsFinal == Spec => PublishedOnce
<1> DEFINE Made == \A p \in Procs : runs[p].at = "ok" =>
                       Exists(Job(p).root) /\ root[Job(p).root].by.process = p
           Kept == \A r \in Roots : Exists(r) => root'[r] = root[r]
<1>1. IInv => Made
  BY DEF IInv, OkSound
<1>2. IInv /\ [Next]_vars => [Kept]_root
  <2> SUFFICES ASSUME IInv, [Next]_vars, root' # root PROVE Kept
    BY Zenon
  <2>1. PICK p \in Procs : Install(p)
    BY ZenonT(60) DEF Next, Step, vars, treeVars, Kill, Open, ReplaceShard, EditTree, VerifyShard, ReadShard,
           Redirected, NotNow, NotThis, AssetArrives, BlobArrives, ProbeArrives, WalkEntry, EndWalk,
           WriteAssetManifest, WriteBlobManifests, WriteTreeManifests, WriteTail, LookBeforeRename,
           RenameRefused
  <2>2. ~ Exists(Job(p).root) /\ \E tree2, by : root' = [root EXCEPT ![Job(p).root] = [tree |-> tree2, by |-> by]]
    BY <2>1 DEF Install, RenameNoReplace
  <2> QED BY <2>2 DEF IInv, StateType
<1>3. Spec => [][Kept]_root
  BY <1>2, AcquisitionHolds, PTL DEF Spec
<1>4. Spec => []Made
  BY <1>1, AcquisitionHolds, PTL
<1> QED BY <1>3, <1>4, PTL DEF PublishedOnce
=============================================================================
