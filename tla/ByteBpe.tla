------------------------------ MODULE ByteBpe ------------------------------
(***************************************************************************)
(* train-tokenizer and the encoder (src/tokenizer.rs).  Training keeps the *)
(* documents as arrays of tokens in which merged tokens are dead, and      *)
(* updates the counts of adjacent pairs and the positions where each pair  *)
(* occurs instead of counting again; positions are only appended, so they  *)
(* may be stale when a pair is merged.  The encoder takes merges from a    *)
(* heap that holds stale candidates too.                                   *)
(*                                                                         *)
(* NextLive and PreviousLive stand for the linked list of the live tokens. *)
(***************************************************************************)
EXTENDS Integers, Sequences, SequencesExt, FiniteSetsExt

CONSTANTS
    Bytes,              \* how many byte values there are
    MergeCount,         \* VOCABULARY_SIZE - BASE_VOCABULARY_SIZE
    MinMergeFrequency,  \* MIN_MERGE_FREQUENCY
    RepositoryByteCap,  \* REPOSITORY_BYTE_CAP
    GlobalByteCap       \* GLOBAL_SAMPLE_BYTE_CAP

ASSUME ByteBpeAssumption ==
    /\ Bytes \in Nat \ {0} /\ MergeCount \in Nat /\ MinMergeFrequency \in Nat \ {0}
    /\ RepositoryByteCap \in Nat \ {0} /\ GlobalByteCap \in Nat \ {0}

VARIABLES
    sample,             \* the selected documents: [repo, bytes]
    tokens,             \* their tokens, None where one is dead
    counts,             \* pair -> how often it occurs, no entry for 0
    occurrences,        \* pair -> positions where it occurred once
    merging,            \* the pair being merged, or <<>>
    frequency,          \* its count when it was selected
    starts,             \* its positions still to be visited
    rules,              \* the MergeRules so far
    training            \* where the command is

bpeVars == <<sample, tokens, counts, occurrences, merging, frequency, starts, rules, training>>

None == -1
FirstByteId == 4        \* after PAD, BOS, EOS and UNK
BaseVocabulary == FirstByteId + Bytes
NewId == BaseVocabulary + Len(rules)

BpeInit ==
    /\ sample = <<>> /\ tokens = <<>>
    /\ counts = <<>> /\ occurrences = <<>>
    /\ merging = <<>> /\ frequency = 0 /\ starts = {}
    /\ rules = <<>>
    /\ training = "waiting"

ByteIds(bytes) == [i \in DOMAIN bytes |-> FirstByteId + bytes[i]]

(* select_documents: of the documents in the order of their hashed ranks,   *)
(* those that fit under both caps.                                          *)
SumSeq(seq) == FoldLeft(LAMBDA a, b : a + b, 0, seq)
TotalBytes(docs) == SumSeq([i \in DOMAIN docs |-> Len(docs[i].bytes)])
Selected(ranked) ==
    FoldLeft(LAMBDA taken, doc :
                 LET ofRepo == SelectSeq(taken, LAMBDA t : t.repo = doc.repo)
                 IN  IF /\ TotalBytes(ofRepo) + Len(doc.bytes) <= RepositoryByteCap
                        /\ TotalBytes(taken) + Len(doc.bytes) <= GlobalByteCap
                     THEN Append(taken, doc) ELSE taken,
             <<>>, ranked)

(* ranked: the documents of the sample manifest by rank.                    *)
SelectSample(ranked) ==
    /\ training = "waiting"
    /\ sample' = Selected(ranked)
    /\ tokens' = [d \in DOMAIN sample' |-> ByteIds(sample'[d].bytes)]
    /\ training' = IF sample' = <<>> THEN "refused" ELSE "counting"
    /\ UNCHANGED <<counts, occurrences, merging, frequency, starts, rules>>

(* The live neighbours in a string of tokens: next[i] and previous[i].      *)
NextLive(toks, i) ==
    LET later == {j \in i + 1 .. Len(toks) : toks[j] # None}
    IN  IF later = {} THEN None ELSE Min(later)
PreviousLive(toks, i) ==
    LET earlier == {j \in 1 .. i - 1 : toks[j] # None}
    IN  IF earlier = {} THEN None ELSE Max(earlier)

(* The positions in front of another token of their document.              *)
PairAt(at) == <<tokens[at[1]][at[2]], tokens[at[1]][NextLive(tokens[at[1]], at[2])]>>
PairStarts ==
    UNION {{<<d, i>> : i \in {i \in DOMAIN tokens[d] :
                                tokens[d][i] # None /\ NextLive(tokens[d], i) # None}} :
           d \in DOMAIN tokens}

(* pair -> where it occurs.                                                 *)
Places ==
    LET where == [at \in PairStarts |-> PairAt(at)]
    IN  [p \in {where[at] : at \in DOMAIN where} |-> {at \in DOMAIN where : where[at] = p}]

(* Everything before the first merge.                                       *)
CountPairs ==
    /\ training = "counting"
    /\ occurrences' = Places
    /\ counts' = [p \in DOMAIN occurrences' |-> Cardinality(occurrences'[p])]
    /\ training' = "merging"
    /\ UNCHANGED <<sample, tokens, merging, frequency, starts, rules>>

(* The order of ranking: the highest count, then the lowest pair.           *)
Best ==
    CHOOSE p \in DOMAIN counts : \A q \in DOMAIN counts :
        \/ counts[p] > counts[q]
        \/ counts[p] = counts[q] /\ (p[1] < q[1] \/ (p[1] = q[1] /\ p[2] <= q[2]))

Filling == training = "merging" /\ merging = <<>> /\ Len(rules) < MergeCount
Exhausted == \A p \in DOMAIN counts : counts[p] < MinMergeFrequency

SelectRule ==
    /\ Filling /\ ~Exhausted
    /\ merging' = Best
    /\ frequency' = counts[Best]
    /\ starts' = IF Best \in DOMAIN occurrences THEN occurrences[Best] ELSE {}
    /\ occurrences' = [p \in DOMAIN occurrences \ {Best} |-> occurrences[p]]
    /\ UNCHANGED <<sample, tokens, counts, rules, training>>

Underfilled ==          \* TOKENIZER_VOCABULARY_UNDERFILLED
    /\ Filling /\ Exhausted
    /\ training' = "refused"
    /\ UNCHANGED <<sample, tokens, counts, occurrences, merging, frequency, starts, rules>>
-----------------------------------------------------------------------------
(* One turn of the loop over the positions of the pair. *)

CountOf(c, p) == IF p \in DOMAIN c THEN c[p] ELSE 0
Adjust(c, p, delta) ==  \* adjust_count
    LET value == CountOf(c, p) + delta
    IN  IF value = 0 THEN [q \in DOMAIN c \ {p} |-> c[q]] ELSE (p :> value) @@ c

Occur(o, p, i) == (p :> ((IF p \in DOMAIN o THEN o[p] ELSE {}) \cup {i})) @@ o

(* Is the pair still at this position?  It may overlap itself.              *)
Applies(toks, i) ==
    /\ toks[i] = merging[1]
    /\ NextLive(toks, i) # None
    /\ toks[NextLive(toks, i)] = merging[2]

(* The pairs the merge takes apart; before and after are tokens.            *)
Decremented(before, after) ==
    LET c1 == IF before = None THEN counts ELSE Adjust(counts, <<before, merging[1]>>, -1)
        c2 == Adjust(c1, merging, -1)
    IN  IF after = None THEN c2 ELSE Adjust(c2, <<merging[2], after>>, -1)

TokenAt(toks, i) == IF i = None THEN None ELSE toks[i]

MergeAt(d, i) ==
    LET toks == tokens[d]
        right == NextLive(toks, i)
        left == PreviousLive(toks, i)
        before == TokenAt(toks, left)
        after == TokenAt(toks, NextLive(toks, right))
        low == Decremented(before, after)
        c1 == IF before = None THEN low ELSE Adjust(low, <<before, NewId>>, 1)
        o1 == IF before = None THEN occurrences
              ELSE Occur(occurrences, <<before, NewId>>, <<d, left>>)
    IN  IF \E p \in DOMAIN low : low[p] < 0
        THEN /\ training' = "diverged"
             /\ UNCHANGED <<tokens, counts, occurrences>>
        ELSE /\ tokens' = [tokens EXCEPT ![d] = [@ EXCEPT ![i] = NewId, ![right] = None]]
             /\ counts' = IF after = None THEN c1 ELSE Adjust(c1, <<NewId, after>>, 1)
             /\ occurrences' = IF after = None THEN o1
                               ELSE Occur(o1, <<NewId, after>>, <<d, i>>)
             /\ UNCHANGED training

(* Mutant of FirstStart: the positions are visited from the end.            *)
FirstStart_FromTheEnd ==
    CHOOSE s \in starts : \A t \in starts : s[1] > t[1] \/ (s[1] = t[1] /\ s[2] >= t[2])

FirstStart ==
    CHOOSE s \in starts : \A t \in starts : s[1] < t[1] \/ (s[1] = t[1] /\ s[2] <= t[2])

VisitStart ==
    /\ training = "merging" /\ merging # <<>> /\ starts # {}
    /\ starts' = starts \ {FirstStart}
    /\ IF Applies(tokens[FirstStart[1]], FirstStart[2])
       THEN MergeAt(FirstStart[1], FirstStart[2])
       ELSE UNCHANGED <<tokens, counts, occurrences, training>>
    /\ UNCHANGED <<sample, merging, frequency, rules>>

(* The pair must be gone from the counts.                                   *)
CloseRule ==
    /\ training = "merging" /\ merging # <<>> /\ starts = {}
    /\ IF merging \in DOMAIN counts
       THEN training' = "diverged" /\ UNCHANGED <<merging, rules>>
       ELSE /\ rules' = Append(rules, [left |-> merging[1], right |-> merging[2],
                                       frequency |-> frequency])
            /\ merging' = <<>>
            /\ UNCHANGED training
    /\ UNCHANGED <<sample, tokens, counts, occurrences, frequency, starts>>

(* validate_artifact.                                                       *)
ArtifactValid ==
    /\ \A r \in DOMAIN rules :
          /\ rules[r].left < BaseVocabulary + r - 1 /\ rules[r].right < BaseVocabulary + r - 1
          /\ rules[r].frequency >= MinMergeFrequency
    /\ \A r, s \in DOMAIN rules :
          r # s => <<rules[r].left, rules[r].right>> # <<rules[s].left, rules[s].right>>

PublishTokenizer ==
    /\ training = "merging" /\ merging = <<>> /\ Len(rules) = MergeCount
    /\ training' = IF ArtifactValid THEN "published" ELSE "diverged"
    /\ UNCHANGED <<sample, tokens, counts, occurrences, merging, frequency, starts, rules>>

SampleUnreadable ==     \* a document is missing or not as declared
    /\ training = "waiting"
    /\ training' = "refused"
    /\ UNCHANGED <<sample, tokens, counts, occurrences, merging, frequency, starts, rules>>

BpeStep ==
    CountPairs \/ SelectRule \/ Underfilled \/ VisitStart \/ CloseRule \/ PublishTokenizer
-----------------------------------------------------------------------------
(* ByteBpeTokenizer with the rules of the artifact. *)

RuleFor(p) == CHOOSE r \in DOMAIN rules : <<rules[r].left, rules[r].right>> = p
IsRule(p) == \E r \in DOMAIN rules : <<rules[r].left, rules[r].right>> = p

(* push_encode_candidate: <<rank, left, right>>.                            *)
Candidate(toks, i) ==
    LET j == IF i = None THEN None ELSE NextLive(toks, i)
    IN  IF j = None THEN {}
        ELSE IF IsRule(<<toks[i], toks[j]>>)
        THEN {<<BaseVocabulary + RuleFor(<<toks[i], toks[j]>>) - 1, i, j>>}
        ELSE {}

(* The heap's order: by rank, then by position.                             *)
First(heap) == CHOOSE c \in heap : \A d \in heap :
                  c[1] < d[1] \/ (c[1] = d[1] /\ c[2] <= d[2])

(* Is the candidate's merge still there to be made?                         *)
Current(toks, c) ==
    /\ toks[c[2]] # None /\ toks[c[3]] # None
    /\ NextLive(toks, c[2]) = c[3]
    /\ Candidate(toks, c[2]) = {c}

RECURSIVE Drain(_, _)
Drain(toks, heap) ==
    IF heap = {} THEN SelectSeq(toks, LAMBDA t : t # None)
    ELSE LET c == First(heap)
             merged == [toks EXCEPT ![c[2]] = c[1], ![c[3]] = None]
         IN  IF Current(toks, c)
             THEN Drain(merged, (heap \ {c}) \cup Candidate(merged, PreviousLive(merged, c[2]))
                                             \cup Candidate(merged, c[2]))
             ELSE Drain(toks, heap \ {c})

Encode(bytes) ==
    LET toks == ByteIds(bytes)
    IN  Drain(toks, UNION {Candidate(toks, i) : i \in DOMAIN toks})

(* decode_source: a merged id is replaced by its two parts.                 *)
RECURSIVE Decode(_)
Decode(ids) ==
    IF ids = <<>> THEN <<>>
    ELSE LET id == Head(ids)
         IN  IF id < BaseVocabulary THEN <<id - FirstByteId>> \o Decode(Tail(ids))
             ELSE LET rule == rules[id - BaseVocabulary + 1]
                  IN  Decode(<<rule.left, rule.right>> \o Tail(ids))
-----------------------------------------------------------------------------
(* The incremental counts are those of the tokens, at every step of a merge *)
(* of a pair that may overlap itself and with stale positions; and every    *)
(* place where a pair occurs is on its list, or still to be visited.  So no *)
(* check of the accounting and of the artifact fails.                       *)
CountsExact ==
    training = "merging" =>
        LET places == Places
        IN  /\ counts = [p \in DOMAIN places |-> Cardinality(places[p])]
            /\ \A p \in DOMAIN places :
                  places[p] \subseteq IF p = merging THEN starts ELSE occurrences[p]

Accounted == training # "diverged" /\ CountsExact

(* What training has left of a document of the sample.                      *)
TrainedTokens(d) == SelectSeq(tokens[d], LAMBDA t : t # None)
=============================================================================
