---------------------------- MODULE CorpusPolicy ----------------------------
(***************************************************************************)
(* prepare-corpus (src/corpus.rs) on the generation that curate published: *)
(* every accepted document is loaded and matched against the protected     *)
(* benchmark records, exact and near duplicates are clustered, clusters    *)
(* with a protected member are dropped, whole components of repositories   *)
(* and clusters go to one split, and one document of each cluster is       *)
(* published.  Only fingerprints are kept between the passes: a document   *)
(* is read again, and verified again, whenever its bytes are needed.       *)
(*                                                                         *)
(* Lexical similarity is a property of contents: Similar holds the pairs   *)
(* whose exact Jaccard exceeds 0.85, Banded those that share an LSH band.  *)
(* A hash is a function nothing is known about, so the split of a          *)
(* component may be any.                                                   *)
(***************************************************************************)
EXTENDS Curation, SequencesExt, FiniteSetsExt

CONSTANTS
    Similar, Banded,        \* sets of unordered pairs of contents
    Protected,              \* contents match_document finds a record for
    QualityOf,              \* representative_order without the source id
    MaximumCandidatePairs   \* limits.maximum_candidate_pairs

ASSUME CorpusPolicyAssumption ==
    /\ \A p \in Similar \cup Banded : p \subseteq Contents
    /\ Protected \subseteq Contents
    /\ QualityOf \in [Contents -> Nat]
    /\ MaximumCandidatePairs \in Nat \ {0}

VARIABLES
    curated,            \* what has become of each file of the generation
    loaded,             \* the documents loaded and matched so far
    clusters,           \* the union-find of deduplicate: document -> root
    candidates,         \* LSH candidate pairs not compared yet
    cachedLeft,         \* the left document whose tokens are held, or 0
    assignments,        \* RepresentativeAssignments, in order
    governed,           \* the governed documents written so far
    preparation         \* where the command is

policyVars == <<curated, loaded, clusters, candidates, cachedLeft, assignments,
                governed, preparation>>

CorpusSplits == <<"train", "validation", "test">>
SplitOrder(s) == CHOOSE i \in DOMAIN CorpusSplits : CorpusSplits[i] = s

PolicyInit ==
    /\ curated = [d \in DOMAIN source |-> "declared"]
    /\ loaded = {} /\ clusters = <<>>
    /\ candidates = {} /\ cachedLeft = 0
    /\ assignments = <<>> /\ governed = <<>>
    /\ preparation = "waiting"

Accepted == {d \in DOMAIN outcomes : outcomes[d].status = "POLICY_ACCEPTED"}
ContentOf(d) == source[d].content
Unchanged(d) == curated[d] = "declared"     \* length and hash are verified
Matched(d) == ContentOf(d) \in Protected    \* match_document found a record

RefusePreparation ==
    /\ preparation' = "refused"
    /\ UNCHANGED <<curated, loaded, clusters, candidates, cachedLeft, assignments, governed>>
-----------------------------------------------------------------------------
(* load_documents. *)

(* The generation has accepted documents.  At least one is required.        *)
OpenGeneration ==
    /\ curation = "published" /\ preparation = "waiting"
    /\ IF Accepted = {} THEN RefusePreparation
       ELSE /\ preparation' = "loading"
            /\ UNCHANGED <<curated, loaded, clusters, candidates, cachedLeft,
                           assignments, governed>>
    /\ UNCHANGED curationVars

LoadDocument ==
    /\ preparation = "loading"
    /\ loaded # Accepted
    /\ LET d == Min(Accepted \ loaded)
       IN  IF ~Unchanged(d) THEN RefusePreparation
           ELSE /\ loaded' = loaded \cup {d}
                /\ UNCHANGED <<curated, clusters, candidates, cachedLeft, assignments,
                               governed, preparation>>
    /\ UNCHANGED curationVars
-----------------------------------------------------------------------------
(* deduplicate. *)

(* Mutant of Merge: only the document itself joins the other cluster.       *)
Merge_Single(p, d, e) == [p EXCEPT ![e] = p[d]]

(* UnionFind::union, every document under the root of its cluster.          *)
Merge(p, d, e) == [x \in DOMAIN p |-> IF p[x] = p[e] THEN p[d] ELSE p[x]]

Pairs == {<<d, e>> \in loaded \X loaded : d < e}
SameBytes(d, e) == ContentOf(d) = ContentOf(e)
SharesBand(d, e) == SameBytes(d, e) \/ {ContentOf(d), ContentOf(e)} \in Banded
ExceedsThreshold(d, e) == {ContentOf(d), ContentOf(e)} \in Similar     \* jaccard_exceeds

(* Equal hashes are linked at once; documents that share a band become      *)
(* candidates, up to the configured number of pairs.                        *)
LinkExact ==
    /\ preparation = "loading" /\ loaded = Accepted
    /\ LET banded == {p \in Pairs : SharesBand(p[1], p[2])}
       IN  IF Cardinality(banded) > MaximumCandidatePairs THEN RefusePreparation
           ELSE /\ clusters' = [d \in loaded |-> Min({e \in loaded : SameBytes(d, e)})]
                /\ candidates' = banded
                /\ preparation' = "comparing"
                /\ UNCHANGED <<curated, loaded, cachedLeft, assignments, governed>>
    /\ UNCHANGED curationVars

(* The first of the ordered set of candidates.                              *)
NextPair == CHOOSE p \in candidates :
               \A q \in candidates : p[1] < q[1] \/ (p[1] = q[1] /\ p[2] <= q[2])

(* Both documents are read and parsed again, the left one unless its tokens *)
(* are still held.                                                          *)
ComparePair ==
    /\ preparation = "comparing" /\ candidates # {}
    /\ LET d == NextPair[1]
           e == NextPair[2]
           readable == (cachedLeft = d \/ Unchanged(d)) /\ Unchanged(e)
       IN  IF SameBytes(d, e)
           THEN /\ candidates' = candidates \ {NextPair}
                /\ UNCHANGED <<curated, loaded, clusters, cachedLeft, assignments,
                               governed, preparation>>
           ELSE IF ~readable THEN RefusePreparation
           ELSE /\ clusters' = IF ExceedsThreshold(d, e)
                               THEN Merge(clusters, d, e) ELSE clusters
                /\ cachedLeft' = d
                /\ candidates' = candidates \ {NextPair}
                /\ UNCHANGED <<curated, loaded, assignments, governed, preparation>>
    /\ UNCHANGED curationVars
-----------------------------------------------------------------------------
(* decontaminate and assign_splits. *)

ClusterOf(d) == {e \in loaded : clusters[e] = clusters[d]}
Clusters == {ClusterOf(d) : d \in loaded}

(* representative: the least in representative_order, the source id last.   *)
RepresentativeOf(c) ==
    CHOOSE d \in c : \A e \in c :
        \/ QualityOf[ContentOf(d)] < QualityOf[ContentOf(e)]
        \/ QualityOf[ContentOf(d)] = QualityOf[ContentOf(e)] /\ d <= e

(* A cluster is rejected when the load pass matched any member.             *)
Survives(c) == \A d \in c : ~Matched(d)

Surviving == UNION {c \in Clusters : Survives(c)}

(* Mutant of Grouping: a repository links its documents only within what    *)
(* the duplicates already link.                                             *)
Grouping_DuplicatesOnly == clusters

(* The union-find of assign_splits: surviving clusters, and each document   *)
(* with the first one of its repository.                                    *)
Grouping ==
    LET FirstOf(d) == Min({e \in Surviving : source[e].repo = source[d].repo})
    IN  FoldLeft(LAMBDA p, d : Merge(p, FirstOf(d), d), clusters,
                 SetToSortSeq(Surviving, <))

ComponentOf(d) == {e \in Surviving : Grouping[e] = Grouping[d]}
Components == {ComponentOf(d) : d \in Surviving}

(* By split, then component; a component's name is a hash, its order any.   *)
InOrder(a, b) ==
    \/ SplitOrder(a.split) < SplitOrder(b.split)
    \/ a.split = b.split /\ Min(a.component) < Min(b.component)
    \/ a.split = b.split /\ a.component = b.component /\ a.document <= b.document

Assign ==
    /\ preparation = "comparing" /\ candidates = {}
    /\ \E splitOf \in [Components -> Range(CorpusSplits)] :
          assignments' = SetToSortSeq(
              {[document |-> RepresentativeOf(c),
                component |-> ComponentOf(RepresentativeOf(c)),
                split |-> splitOf[ComponentOf(RepresentativeOf(c))]] :
                  c \in {k \in Clusters : Survives(k)}}, InOrder)
    /\ preparation' = "writing"
    /\ UNCHANGED <<curated, loaded, clusters, candidates, cachedLeft, governed>>
    /\ UNCHANGED curationVars
-----------------------------------------------------------------------------
(* The corpus generation. *)

(* Mutant of WriteGoverned: the file is copied without verifying it again.  *)
WriteGoverned_Unverified ==
    /\ preparation = "writing"
    /\ Len(governed) < Len(assignments)
    /\ LET next == assignments[Len(governed) + 1]
       IN  governed' = Append(governed, next @@ [bytes |-> curated[next.document]])
    /\ UNCHANGED <<curated, loaded, clusters, candidates, cachedLeft, assignments, preparation>>
    /\ UNCHANGED curationVars

(* The next representative is read again and copied.                        *)
WriteGoverned ==
    /\ preparation = "writing"
    /\ Len(governed) < Len(assignments)
    /\ LET next == assignments[Len(governed) + 1]
       IN  IF ~Unchanged(next.document) THEN RefusePreparation
           ELSE /\ governed' = Append(governed, next @@ [bytes |-> curated[next.document]])
                /\ UNCHANGED <<curated, loaded, clusters, candidates, cachedLeft,
                               assignments, preparation>>
    /\ UNCHANGED curationVars

(* excluded_documents of the generation manifest.                           *)
Excluded == Cardinality(loaded \ Surviving)

(* The manifests, then the rename.  The tokenizer sample lists the training *)
(* documents.                                                               *)
PublishCorpus ==
    /\ preparation = "writing"
    /\ Len(governed) = Len(assignments)
    /\ preparation' = "published"
    /\ UNCHANGED <<curated, loaded, clusters, candidates, cachedLeft, assignments, governed>>
    /\ UNCHANGED curationVars

(* Somebody touches a document of the curated generation.                   *)
TouchCurated(d) ==
    /\ preparation \in {"loading", "comparing", "writing"}
    /\ \A e \in DOMAIN curated : Unchanged(e)
    /\ d \in Accepted
    /\ curated' = [curated EXCEPT ![d] = "rewritten"]
    /\ UNCHANGED <<loaded, clusters, candidates, cachedLeft, assignments, governed, preparation>>
    /\ UNCHANGED curationVars
-----------------------------------------------------------------------------
CurationStep ==
    /\ \/ LoadRemovals \/ ProcessDocument \/ PublishCuration
       \/ \E d \in DOMAIN source : TouchRaw(d)
    /\ UNCHANGED policyVars

PreparationStep ==
    \/ OpenGeneration \/ LoadDocument \/ LinkExact \/ ComparePair
    \/ Assign \/ WriteGoverned \/ PublishCorpus
    \/ \E d \in DOMAIN source : TouchCurated(d)
-----------------------------------------------------------------------------
(* What a corpus that is about to be published promises, in terms of the    *)
(* accepted documents.                                                      *)

Complete == preparation = "writing" /\ Len(governed) = Len(assignments)

Duplicates(d, e) ==
    \/ SameBytes(d, e)
    \/ SharesBand(d, e) /\ ExceedsThreshold(d, e)

(* The documents a chain of Link leads to from d, within S.                 *)
Reach(d, S, Link(_, _)) ==
    {e \in S : \A K \in SUBSET S :
        d \in K /\ (\A x \in K, y \in S : Link(x, y) => y \in K) => e \in K}

Tainted == {d \in Accepted :
    \E e \in Reach(d, Accepted, Duplicates) : Matched(e)}

Published == {governed[i].document : i \in DOMAIN governed}

(* Every chain of duplicates is published as exactly one document, unless a *)
(* member of it matches a protected record: then no member is.  The count   *)
(* of the manifest is the number of documents dropped that way.             *)
OneOfEachChain ==
    /\ \A d \in Accepted :
          Cardinality(Reach(d, Accepted, Duplicates) \cap Published) =
              IF d \in Tainted THEN 0 ELSE 1
    /\ Excluded = Cardinality(Tainted)

(* And no repository and no chain of duplicates reaches from one split into *)
(* another: along the surviving documents, published or not, everything a   *)
(* published document is linked to, in any number of steps, has its split.  *)
SplitsKeptApart ==
    Complete =>
        /\ OneOfEachChain
        /\ \A i \in DOMAIN governed :
            LET linked == Reach(governed[i].document, Accepted \ Tainted,
                               LAMBDA d, e : Duplicates(d, e) \/ source[d].repo = source[e].repo)
            IN  \A j \in DOMAIN governed :
                    governed[j].document \in linked => governed[j].split = governed[i].split

(* What is published is what the source manifest declared, verified at each *)
(* pass though the files may change between them, and nothing that the      *)
(* newest snapshot of an authority removes.                                 *)
PublishedAsDeclared ==
    \A i \in DOMAIN governed :
        LET d == governed[i].document
        IN  /\ governed[i].bytes = "declared" /\ outcomes[d].bytes = "declared"
            /\ \A s \in DOMAIN supplied :
                  \/ d \notin supplied[s].records /\ source[d].repo \notin supplied[s].repositories
                  \/ \E t \in OfAuthority(supplied[s].authority) : supplied[t].order > supplied[s].order
=============================================================================
