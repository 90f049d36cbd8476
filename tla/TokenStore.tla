----------------------------- MODULE TokenStore -----------------------------
(***************************************************************************)
(* The token corpus (src/storage.rs): tokenize writes the documents of the *)
(* governed corpus as three streams of token ids, cut into shards, with an *)
(* index of documents and one of training sequences; VerifiedTokenCorpus   *)
(* opens such a generation and reads it back across the shards.            *)
(*                                                                         *)
(* A token id is its place in its document; the last one is the EOS.  What *)
(* is in a file is what was written to it: open hashes every file it reads *)
(* against the manifest.                                                   *)
(***************************************************************************)
EXTENDS Integers, Sequences, SequencesExt, FiniteSetsExt

CONSTANTS
    MaxDocuments, MaxLength,    \* bounds on the corpus
    ShardMaximumIds,            \* limits.shard_maximum_ids
    MaximumStoredIds,           \* limits.maximum_total_stored_ids
    TrainingPrefixIds,          \* TRAINING_PREFIX_IDS, 2,000,000,001
    SequenceTargets             \* SEQUENCE_TARGETS, 2,048

ASSUME TokenStoreAssumption ==
    /\ MaxDocuments \in Nat \ {0} /\ MaxLength \in Nat \ {0}
    /\ ShardMaximumIds \in Nat \ {0} /\ MaximumStoredIds \in Nat \ {0}
    /\ TrainingPrefixIds \in Nat \ {0, 1} /\ SequenceTargets \in Nat \ {0}

VARIABLES
    documents,          \* the corpus, sorted
    next,               \* the document under way
    written,            \* how many of its ids have been appended
    writers,            \* the ShardWriter of each split
    entries,            \* document_entries
    total,              \* total_stored_ids
    closed,             \* train_closed
    skipped,            \* unmaterialized_training_documents
    spans,              \* the sequence index, by split
    spanned,            \* first_id of the next span of each split
    phase

corpusVars == <<documents, next, written, entries, total, closed, skipped>>
vars == <<corpusVars, writers, spans, spanned, phase>>

Order == <<"train", "validation", "test">>      \* CorpusSplit's Ord
Split == {Order[i] : i \in 1 .. 3}
Rank(s) == CHOOSE i \in 1 .. 3 : Order[i] = s

Document == [split : Split, length : 1 .. MaxLength]
Smaller(m, n) == IF m <= n THEN m ELSE n

(* The ids of document d: its encoding and the EOS. *)
Ids(d) == [k \in 1 .. documents[d].length + 1 |-> <<d, k>>]
IsEos(id) == id[2] = documents[id[1]].length + 1

NewWriter ==    \* ShardWriter::new
    [buffer |-> <<>>, stored |-> 0, flushed |-> 0, documents |-> 0,
     tokens |-> 0, shards |-> <<>>]

(* documents.sort_by: by split first.  The order within a split, by keys    *)
(* that validate_corpus has found to be distinct, is the order of names.    *)
Init ==
    /\ \E n \in 1 .. MaxDocuments :
          documents \in {c \in [1 .. n -> Document] :
                            \A i \in 1 .. n - 1 : Rank(c[i].split) <= Rank(c[i + 1].split)}
    /\ next = 1 /\ written = 0
    /\ writers = [s \in Split |-> NewWriter]
    /\ entries = <<>>
    /\ total = 0 /\ closed = FALSE /\ skipped = 0
    /\ spans = [s \in Split |-> <<>>]
    /\ spanned = [s \in Split |-> 0]
    /\ phase = "reading"
-----------------------------------------------------------------------------
(* The loop over the documents. *)

Reading == phase = "reading" /\ next <= Len(documents)
Unwanted == closed /\ documents[next].split = "train"
Stored == documents[next].length + 1

SkipDocument ==
    /\ Reading /\ Unwanted
    /\ skipped' = skipped + 1
    /\ next' = next + 1
    /\ UNCHANGED <<documents, written, entries, total, closed, writers, spans, spanned, phase>>

(* The document is read and encoded, and its index entry prepared.         *)
TakeDocument ==
    /\ Reading /\ ~Unwanted
    /\ total + Stored <= MaximumStoredIds
    /\ total' = total + Stored
    /\ LET w == writers[documents[next].split]
       IN  entries' = Append(entries,
              [split |-> documents[next].split, order |-> w.documents,
               first |-> w.stored, tokens |-> documents[next].length])
    /\ written' = 0
    /\ phase' = "appending"
    /\ UNCHANGED <<documents, next, closed, skipped, writers, spans, spanned>>

CapacityExceeded ==     \* TOKEN_CAPACITY_EXCEEDED
    /\ Reading /\ ~Unwanted
    /\ total + Stored > MaximumStoredIds
    /\ phase' = "failed"
    /\ UNCHANGED <<corpusVars, writers, spans, spanned>>

(* ShardWriter::flush. *)
Flush(w) ==
    IF w.buffer = <<>> THEN w
    ELSE [w EXCEPT !.shards = Append(@, [first |-> w.flushed, ids |-> w.buffer]),
                   !.flushed = @ + Len(w.buffer),
                   !.buffer = <<>>]

(* One turn of ShardWriter::append. *)
AppendId ==
    /\ phase = "appending"
    /\ written < Stored
    /\ LET w == [writers[documents[next].split] EXCEPT
                    !.buffer = Append(@, Ids(next)[written + 1]),
                    !.stored = @ + 1]
       IN  writers' = [writers EXCEPT ![documents[next].split] =
                          IF Len(w.buffer) = ShardMaximumIds THEN Flush(w) ELSE w]
    /\ written' = written + 1
    /\ UNCHANGED <<documents, next, entries, total, closed, skipped, spans, spanned, phase>>

EndDocument ==
    /\ phase = "appending"
    /\ written = Stored
    /\ writers' = [writers EXCEPT
          ![documents[next].split].documents = @ + 1,
          ![documents[next].split].tokens = @ + documents[next].length]
    /\ closed' = (closed \/ /\ documents[next].split = "train"
                            /\ writers["train"].stored >= TrainingPrefixIds)
    /\ next' = next + 1
    /\ phase' = "reading"
    /\ UNCHANGED <<documents, written, entries, total, skipped, spans, spanned>>
-----------------------------------------------------------------------------
(* The end: the last shards, the indexes, the manifest.                    *)

Finish ==
    /\ phase = "reading" /\ next > Len(documents)
    /\ writers' = [s \in Split |-> Flush(writers[s])]
    /\ \A s \in Split : writers'[s].flushed = writers'[s].stored
    /\ phase' = "indexing"
    /\ UNCHANGED <<corpusVars, spans, spanned>>

(* Mutant of Usable: the target that the prefix has one id more than is     *)
(* forgotten.                                                               *)
Usable_OfTargets(s) ==
    IF s = "train" THEN Smaller(writers[s].stored, TrainingPrefixIds - 1)
                   ELSE writers[s].stored

(* training_prefix_ids for the training stream.                             *)
Usable(s) ==
    IF s = "train" THEN Smaller(writers[s].stored, TrainingPrefixIds)
                   ELSE writers[s].stored

(* The loop of build_sequence_index goes on. *)
SpansLeft(s) == spanned[s] + 1 < Usable(s)

IndexSpan(s) ==
    /\ phase = "indexing"
    /\ \A r \in Split : Rank(r) < Rank(s) => ~SpansLeft(r)
    /\ SpansLeft(s)
    /\ LET valid == Smaller(Usable(s) - spanned[s] - 1, SequenceTargets)
       IN  /\ spans' = [spans EXCEPT ![s] =
                 Append(@, [first |-> spanned[s], ids |-> valid + 1, valid |-> valid])]
           /\ spanned' = [spanned EXCEPT ![s] = @ + valid]
    /\ UNCHANGED <<corpusVars, writers, phase>>

(* validate_manifest_relations.  Source bytes are summed like tokens.      *)
RelationsValid ==
    /\ MapThenSumSet(LAMBDA s : Len(FlattenSeq([i \in 1 .. Len(writers[s].shards) |->
                                                   writers[s].shards[i].ids])), Split) = total
    /\ MapThenSumSet(LAMBDA s : writers[s].stored, Split) = total
    /\ total <= MaximumStoredIds
    /\ \A s \in Split : writers[s].tokens + writers[s].documents = writers[s].stored
    /\ Len(entries) + skipped = Len(documents)

Indexed == phase = "indexing" /\ \A s \in Split : ~SpansLeft(s)

Publish ==
    /\ Indexed
    /\ RelationsValid
    /\ phase' = "published"
    /\ UNCHANGED <<corpusVars, writers, spans, spanned>>

(* An input does not have its declared length or hash or does not round     *)
(* trip, a write fails, the output root has appeared: the partial           *)
(* generation is removed.                                                   *)
Fail ==
    /\ phase \in {"reading", "appending", "indexing"}
    /\ phase' = "failed"
    /\ UNCHANGED <<corpusVars, writers, spans, spanned>>

Next ==
    \/ SkipDocument \/ TakeDocument \/ CapacityExceeded
    \/ AppendId \/ EndDocument
    \/ Finish \/ \E s \in Split : IndexSpan(s)
    \/ Publish \/ Fail

Spec == Init /\ [][Next]_vars
-----------------------------------------------------------------------------
(* VerifiedTokenCorpus. *)

Shards(s) == writers[s].shards
EntriesOf(s) == SelectSeq(entries, LAMBDA e : e.split = s)

(* read_range: what the shards of the split hold of [first, first + n);     *)
(* fewer than n ids are an error.                                           *)
ReadRange(s, first, n) ==
    FlattenSeq([i \in 1 .. Len(Shards(s)) |->
        LET shard == Shards(s)[i]
            start == IF first > shard.first THEN first ELSE shard.first
            end == Smaller(first + n, shard.first + Len(shard.ids))
        IN  SubSeq(shard.ids, start - shard.first + 1, end - shard.first)])

(* read_sequence and read_document_tokens. *)
ReadSequence(s, i) == ReadRange(s, spans[s][i].first, spans[s][i].ids)
ReadDocument(e) == ReadRange(e.split, e.first, e.tokens + 1)

(* validate_shard_eos: EOS ids are where the document index says.          *)
EosValid(s) ==
    \A i \in 1 .. Len(Shards(s)) : \A k \in 1 .. Len(Shards(s)[i].ids) :
        IsEos(Shards(s)[i].ids[k]) <=>
            \E j \in 1 .. Len(EntriesOf(s)) :
                EntriesOf(s)[j].first + EntriesOf(s)[j].tokens = Shards(s)[i].first + k - 1

(* Does seq run on without a gap from 0 to end, entry by entry, Start and   *)
(* Size telling where an entry begins and how far it reaches?               *)
Contiguous(seq, Start(_), Size(_), end) ==
    /\ \A i \in 1 .. Len(seq) :
          Start(seq[i]) = IF i = 1 THEN 0 ELSE Start(seq[i - 1]) + Size(seq[i - 1])
    /\ end = IF seq = <<>> THEN 0 ELSE Start(Last(seq)) + Size(Last(seq))

(* validate_indexes. *)
IndexesValid(s) ==
    /\ Contiguous(Shards(s), LAMBDA x : x.first, LAMBDA x : Len(x.ids), writers[s].stored)
    /\ Contiguous(EntriesOf(s), LAMBDA e : e.first, LAMBDA e : e.tokens + 1, writers[s].stored)
    /\ \A i \in 1 .. Len(EntriesOf(s)) : EntriesOf(s)[i].order = i - 1
    /\ Contiguous(spans[s], LAMBDA x : x.first, LAMBDA x : x.valid,
                  IF Usable(s) = 0 THEN 0 ELSE Usable(s) - 1)
    /\ \A i \in 1 .. Len(spans[s]) :
          /\ spans[s][i].ids = spans[s][i].valid + 1
          /\ spans[s][i].valid \in 1 .. SequenceTargets
          /\ spans[s][i].first + spans[s][i].ids <= Usable(s)

Opens == RelationsValid /\ \A s \in Split : IndexesValid(s) /\ EosValid(s)
-----------------------------------------------------------------------------
(* Every variable holds a value of its kind, no shard and no generation     *)
(* outgrows its limit.                                                      *)
TypeOK ==
    /\ documents \in Seq(Document)
    /\ next \in 1 .. Len(documents) + 1
    /\ written \in 0 .. MaxLength + 1
    /\ \A s \in Split :
          /\ writers[s].stored \in Nat /\ writers[s].flushed \in Nat
          /\ Len(writers[s].buffer) < ShardMaximumIds
          /\ \A i \in 1 .. Len(Shards(s)) : Len(Shards(s)[i].ids) \in 1 .. ShardMaximumIds
    /\ total \in 0 .. MaximumStoredIds
    /\ closed \in BOOLEAN /\ skipped \in Nat
    /\ \A s \in Split : spanned[s] \in Nat
    /\ phase \in {"reading", "appending", "indexing", "published", "failed"}

(* The types hold, and what tokenize has built is never refused by the      *)
(* check of its own manifest, and passes every check of open: the writer    *)
(* and the reader, which recomputes all accounting, agree on shards cut in  *)
(* the middle of documents, on empty splits and on the cut training stream. *)
BuiltOpens == TypeOK /\ (Indexed \/ phase = "published" => Opens)

(* The ids of the documents of a split, one document after another.         *)
CorpusIds(s) ==
    FlattenSeq([d \in 1 .. Len(documents) |->
                   IF documents[d].split = s THEN Ids(d) ELSE <<>>])

(* Read back across the shards, the spans of a split have, one after the    *)
(* other, every id but the last as an input once and every id but the first *)
(* as a target once, in the order of the corpus; the training spans stop    *)
(* exactly at the prefix, though it ends inside a document.                 *)
SpansFollowCorpus ==
    phase = "published" =>
        \A s \in Split :
            LET all == CorpusIds(s)
                end == IF s = "train" THEN Smaller(Len(all), TrainingPrefixIds) ELSE Len(all)
                read == [i \in 1 .. Len(spans[s]) |-> ReadSequence(s, i)]
            IN  /\ FlattenSeq([i \in DOMAIN read |-> Front(read[i])]) = SubSeq(all, 1, end - 1)
                /\ FlattenSeq([i \in DOMAIN read |-> Tail(read[i])]) = SubSeq(all, 2, end)

(* Every indexed document reads back whole, with its EOS, and a training    *)
(* document is left out only when those before it fill the prefix.          *)
DocumentsReadBack ==
    phase = "published" =>
        /\ \A s \in Split :
              LET taken == EntriesOf(s)
              IN  \A i \in 1 .. Len(taken) :
                      ReadDocument(taken[i]) =
                          SubSeq(CorpusIds(s), taken[i].first + 1,
                                 taken[i].first + taken[i].tokens + 1)
                      /\ IsEos(Last(ReadDocument(taken[i])))
        /\ skipped > 0 => \E i \in 1 .. Len(EntriesOf("train")) :
              /\ i = Len(EntriesOf("train"))
              /\ EntriesOf("train")[i].first < TrainingPrefixIds
              /\ writers["train"].stored >= TrainingPrefixIds

(* What was built opens, and reads back as it was read: both ways of        *)
(* reading it, by spans and by documents, return exactly the ids that went  *)
(* in.                                                                      *)
CorpusReadsBack == BuiltOpens /\ SpansFollowCorpus /\ DocumentsReadBack
=============================================================================
