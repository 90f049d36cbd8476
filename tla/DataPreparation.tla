-------------------------- MODULE DataPreparation --------------------------
(***************************************************************************)
(* The data commands one after another: curate, prepare-corpus,            *)
(* train-tokenizer, tokenize and plan-spans, each on what the ones before  *)
(* it published, bound to it by hashes.  The governed documents become the *)
(* documents of the token corpus, those of the training split also the     *)
(* sample of the tokenizer.                                                *)
(***************************************************************************)
EXTENDS CorpusPolicy, ByteBpe, TokenStore

CONSTANTS
    BytesOf,            \* the bytes of each content
    SampleRanks         \* the orders sample_rank may give the documents

ASSUME DataPreparationAssumption ==
    /\ \A c \in Contents : BytesOf[c] \in Seq(0 .. Bytes - 1) /\ Len(BytesOf[c]) \in 1 .. MaxLength
    /\ SampleRanks # {}

VARIABLES
    tokenizing,         \* has tokenize been started?
    order,              \* of plan-spans: ordered_spans
    turn,               \* i + 1 of its loop
    planning            \* and where it is

planVars == <<order, turn, planning>>
preparationVars == <<curationVars, policyVars, bpeVars, vars, tokenizing, planVars>>

PrepareInit ==
    /\ CurationInit /\ PolicyInit /\ BpeInit
    /\ documents = <<>>
    /\ next = 1 /\ written = 0
    /\ writers = [s \in Split |-> NewWriter]
    /\ entries = <<>>
    /\ total = 0 /\ closed = FALSE /\ skipped = 0
    /\ spans = [s \in Split |-> <<>>]
    /\ spanned = [s \in Split |-> 0]
    /\ phase = "reading"
    /\ tokenizing = FALSE
    /\ order = <<>> /\ turn = 0 /\ planning = "waiting"

GovernedBytes(i) == BytesOf[ContentOf(governed[i].document)]

(* The sample manifest has the governed documents of the training split.    *)
StartTraining ==
    /\ preparation = "published"
    /\ \E rank \in SampleRanks :
          LET chosen == {i \in DOMAIN governed : governed[i].split = "train"}
              ranked == SetToSortSeq(chosen,
                  LAMBDA i, j : rank[governed[i].document] < rank[governed[j].document])
          IN  SelectSample([k \in DOMAIN ranked |->
                  [repo |-> source[governed[ranked[k]].document].repo,
                   bytes |-> GovernedBytes(ranked[k])]])
    /\ UNCHANGED <<curationVars, policyVars, vars, tokenizing, planVars>>

(* The governed documents, sorted again by tokenize; their order within a   *)
(* split is that of the manifest.  The tokenizer is known by its rules.     *)
StartTokenize ==
    /\ training = "published" /\ ~tokenizing
    /\ documents' = [i \in DOMAIN governed |->
          [split |-> governed[i].split, length |-> Len(Encode(GovernedBytes(i)))]]
    /\ tokenizing' = TRUE
    /\ sample' = <<>> /\ tokens' = <<>> /\ counts' = <<>> /\ occurrences' = <<>>
    /\ UNCHANGED <<merging, frequency, starts, rules, training>>
    /\ UNCHANGED <<next, written, writers, entries, total, closed, skipped, spans, spanned, phase>>
    /\ UNCHANGED <<curationVars, policyVars, planVars>>
-----------------------------------------------------------------------------
(* plan-spans: the training spans in the order they are trained on.         *)

Targets == Usable("train") - 1
CompleteCount == Targets \div SequenceTargets

(* Mutant of Partial: the rest is taken of the ids, not of the targets.     *)
Partial_OfIds ==
    LET left == Usable("train") % SequenceTargets
    IN  IF left = 0 THEN <<>>
        ELSE <<[first |-> CompleteCount * SequenceTargets, valid |-> left]>>

Partial ==
    LET left == Targets % SequenceTargets
    IN  IF left = 0 THEN <<>>
        ELSE <<[first |-> CompleteCount * SequenceTargets, valid |-> left]>>

StartPlan ==
    /\ phase = "published" /\ planning = "waiting"
    /\ IF Usable("train") < 2
       THEN planning' = "refused" /\ UNCHANGED <<order, turn>>
       ELSE /\ order' = [k \in 1 .. CompleteCount |->
                           [first |-> (k - 1) * SequenceTargets, valid |-> SequenceTargets]]
            /\ turn' = CompleteCount
            /\ planning' = "shuffling"
    /\ UNCHANGED <<curationVars, policyVars, bpeVars, vars, tokenizing>>

(* A turn of the shuffle; the seeded generator may draw any j.              *)
Swap ==
    /\ planning = "shuffling" /\ turn > 1
    /\ \E j \in 1 .. turn :
          order' = [order EXCEPT ![turn] = order[j], ![j] = order[turn]]
    /\ turn' = turn - 1
    /\ UNCHANGED planning
    /\ UNCHANGED <<curationVars, policyVars, bpeVars, vars, tokenizing>>

(* validate_span_order.                                                     *)
OrderValid(ordered) ==
    LET complete == {k \in DOMAIN ordered : ordered[k].valid = SequenceTargets}
    IN  /\ \A k \in DOMAIN ordered :
              /\ ordered[k].first < Targets
              /\ k \notin complete => /\ k = Len(ordered)
                                      /\ ordered[k].first = CompleteCount * SequenceTargets
        /\ \A k, l \in complete : k # l => ordered[k].first # ordered[l].first
        /\ {ordered[k].first : k \in complete} = {k * SequenceTargets : k \in 0 .. CompleteCount - 1}
        /\ SumSeq([k \in DOMAIN ordered |-> ordered[k].valid]) = Targets

EndPlan ==
    /\ planning = "shuffling" /\ turn <= 1
    /\ order' = order \o Partial
    /\ planning' = IF OrderValid(order') THEN "published" ELSE "refused"
    /\ UNCHANGED turn
    /\ UNCHANGED <<curationVars, policyVars, bpeVars, vars, tokenizing>>

PrepareNext ==
    \/ CurationStep /\ UNCHANGED <<bpeVars, vars, tokenizing, planVars>>
    \/ PreparationStep /\ UNCHANGED <<bpeVars, vars, tokenizing, planVars>>
    \/ StartTraining
    \/ /\ preparation = "published" /\ BpeStep
       /\ UNCHANGED <<curationVars, policyVars, vars, tokenizing, planVars>>
    \/ StartTokenize
    \/ tokenizing /\ Next /\ UNCHANGED <<curationVars, policyVars, bpeVars, tokenizing, planVars>>
    \/ StartPlan \/ Swap \/ EndPlan

PrepareSpec == PrepareInit /\ [][PrepareNext]_preparationVars
-----------------------------------------------------------------------------
(* The trainer's incremental accounting is exact throughout, and the        *)
(* encoder, run on a document of the sample with the published rules, gives *)
(* the tokens training left it with, though it merges by rank from a heap   *)
(* and training merged pair after pair; and whatever document is            *)
(* encoded, sampled or not, its tokens decode to its bytes.                 *)
ArtifactEncodes ==
    /\ Accounted
    /\ training = "published" /\ ~tokenizing =>
          /\ \A d \in DOMAIN sample : Encode(sample[d].bytes) = TrainedTokens(d)
          /\ \A bytes \in {BytesOf[c] : c \in Contents} : Decode(Encode(bytes)) = bytes

(* The order names every training span of the sequence index exactly once,  *)
(* with the targets the index has there, the short one last: plan-spans     *)
(* computes it from the length of the prefix alone, tokenize by cutting the *)
(* stream; and an order that was built is not refused.                      *)
OrderCoversIndex ==
    /\ planning = "published" =>
          LET index == spans["train"]
          IN  /\ Len(order) = Len(index)
              /\ ToSet(order) = {[first |-> index[i].first, valid |-> index[i].valid] :
                                    i \in DOMAIN index}
              /\ \A k \in DOMAIN order : order[k].valid < SequenceTargets => k = Len(order)
    /\ planning = "refused" => Usable("train") < 2
=============================================================================
