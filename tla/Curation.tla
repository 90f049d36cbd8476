------------------------------ MODULE Curation ------------------------------
(***************************************************************************)
(* curate (src/data.rs): the documents of a source manifest are judged one *)
(* by one against the newest removal snapshot of every required authority, *)
(* the license, size and encoding rules, the parser and the sensitive      *)
(* content policy; the accepted ones are copied into a create-new          *)
(* generation with one outcome for every document.                         *)
(*                                                                         *)
(* A document is its content and its repository group; the bytes of a file *)
(* are the declared ones or not.  Files are read by path, so they may have *)
(* changed since the manifest was written.                                 *)
(***************************************************************************)
EXTENDS Integers, Sequences, FiniteSets

CONSTANTS
    Contents,           \* the contents a document may have
    Verdict,            \* what license, size, parser and policy make of each
    Oversize,           \* the contents longer than MAX_CANONICAL_BYTES
    Authorities,        \* required_removal_authorities
    SourceCases         \* source manifests, each with the snapshots supplied

ASSUME CurationAssumption ==
    /\ Oversize \subseteq Contents
    /\ Verdict \in [Contents -> {"POLICY_ACCEPTED", "QUARANTINED", "REJECTED"}]
    /\ \A c \in Oversize : Verdict[c] = "REJECTED"

VARIABLES
    source,             \* the prepared documents, by source id: repo, content
    supplied,           \* the removal manifests of the configuration
    selected,           \* the snapshot load_removal_snapshots took, by authority
    raw,                \* what has become of each document's file
    outcomes,           \* the outcomes so far, in the order of source
    curation            \* where the command is

curationVars == <<source, supplied, selected, raw, outcomes, curation>>

FileState == {"declared", "rewritten", "resized"}

CurationInit ==
    /\ \E case \in SourceCases :
          /\ source = case.source
          /\ supplied = case.supplied
    /\ selected = <<>>
    /\ raw = [d \in DOMAIN source |-> "declared"]
    /\ outcomes = <<>>
    /\ curation = "opening"

OfAuthority(a) == {i \in DOMAIN supplied : supplied[i].authority = a}

(* The checks of load_removal_snapshots: known authorities, one snapshot of *)
(* each at least, no snapshot and no place in a provider's order twice.     *)
RemovalsUsable ==
    /\ \A i \in DOMAIN supplied : supplied[i].authority \in Authorities
    /\ \A a \in Authorities :
          /\ OfAuthority(a) # {}
          /\ \A i, j \in OfAuthority(a) : i # j =>
                /\ supplied[i].snapshot # supplied[j].snapshot
                /\ supplied[i].order # supplied[j].order

(* snapshots.pop() after sort_by_key(provider_order).                       *)
NewestOf(a) ==
    supplied[CHOOSE i \in OfAuthority(a) :
                \A j \in OfAuthority(a) : supplied[j].order <= supplied[i].order]

(* Everything before the first document: removal snapshots, content and     *)
(* output roots, the partial generation.                                    *)
LoadRemovals ==
    /\ curation = "opening"
    /\ IF RemovalsUsable
       THEN /\ selected' = [a \in Authorities |-> NewestOf(a)]
            /\ curation' = "judging"
       ELSE /\ curation' = "refused"
            /\ UNCHANGED selected
    /\ UNCHANGED <<source, supplied, raw, outcomes>>

(* By record id or by repository, at any authority.                         *)
Removed(d) ==
    \E a \in Authorities :
        d \in selected[a].records \/ source[d].repo \in selected[a].repositories

(* The document is not what the manifest declares.  An oversize one is      *)
(* rejected on its length, without being read.                              *)
Detected(d) ==
    \/ raw[d] = "resized"
    \/ raw[d] = "rewritten" /\ source[d].content \notin Oversize

(* Any reason before the parser runs rejects: a removed document is neither *)
(* parsed nor searched for sensitive content.                               *)
StatusOf(d) == IF Removed(d) THEN "REJECTED" ELSE Verdict[source[d].content]

(* process_document. *)
ProcessDocument ==
    /\ curation = "judging"
    /\ Len(outcomes) < Len(source)
    /\ LET d == Len(outcomes) + 1
       IN  IF Detected(d)
           THEN curation' = "refused" /\ UNCHANGED outcomes
           ELSE /\ outcomes' = Append(outcomes, [status |-> StatusOf(d), bytes |-> raw[d]])
                /\ UNCHANGED curation
    /\ UNCHANGED <<source, supplied, selected, raw>>

(* The generation manifest, then the rename.                                *)
PublishCuration ==
    /\ curation = "judging"
    /\ Len(outcomes) = Len(source)
    /\ curation' = "published"
    /\ UNCHANGED <<source, supplied, selected, raw, outcomes>>

(* Somebody touches a file of the content root.                             *)
TouchRaw(d) ==
    /\ curation \in {"opening", "judging"}
    /\ \A e \in DOMAIN raw : raw[e] = "declared"
    /\ raw' \in {[raw EXCEPT ![d] = s] : s \in FileState \ {"declared"}}
    /\ UNCHANGED <<source, supplied, selected, outcomes, curation>>
=============================================================================
