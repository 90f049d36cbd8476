----------------------------- MODULE Acquisition -----------------------------
(***************************************************************************)
(* The commands that bring sources in: acquire and discover (acquire.rs),  *)
(* materialize-stack-source and materialize-stack-content (stack.rs) and   *)
(* materialize-source (materialize.rs).  Processes run them at the same    *)
(* time, on the same roots or on others, and are killed; origins answer    *)
(* with anything; shards and source trees are rewritten.                   *)
(*                                                                         *)
(* A content is its own address: the number of a content stands for its    *)
(* SHA-256 and for its Git blob identity.  A name is a number too, in the  *)
(* order of the names; documents/<blob>.py has the number of the blob.     *)
(***************************************************************************)
EXTENDS OutputTree, SequencesExt, FiniteSetsExt

CONSTANTS
    Contents,           \* the bytes there are, in the order of their address
    LengthOf,           \* their lengths
    Jobs,               \* the configurations, a sequence
    PinnedRows,         \* the rows of each shard, as its digest pins them
    OtherRows,          \* the rows of a file somebody puts in its place
    Tree, OtherTree,    \* the files of the authorized tree, by name, and
                        \* what somebody makes of them
    ManifestName,       \* manifest.json as a name of an asset
    MaxLaunches, MaxKills, MaxTouches

(* The rules of a row's own that refuse it, row_license among them.         *)
RowFaults == {"none", "incomplete", "language", "license", "path", "identity", "oversize"}

RowType == [id : Contents, content : Contents, repo : STRING, fault : RowFaults]
FileType == [sort : STRING, content : Contents, repo : STRING]

ASSUME AcquisitionAssumption ==
    /\ Contents \subseteq Nat
    /\ LengthOf \in [Contents -> Nat \ {0}]
    /\ DOMAIN OtherRows = DOMAIN PinnedRows
    /\ \A s \in DOMAIN PinnedRows :
          PinnedRows[s] \in Seq(RowType) /\ OtherRows[s] \in Seq(RowType)
    /\ DOMAIN Tree \subseteq Nat /\ IsFiniteSet(DOMAIN Tree) /\ DOMAIN OtherTree = DOMAIN Tree
    /\ \A name \in DOMAIN Tree : Tree[name] \in FileType /\ OtherTree[name] \in FileType
    /\ \A n \in DOMAIN Jobs :
          LET j == Jobs[n]
          IN  /\ j.kind \in {"assets", "discover", "blobs", "rows", "tree"}
              /\ j.maxDocuments \in Nat /\ j.maxBytes \in Nat /\ j.perGeneration \in Nat \ {0}
              /\ j.kind \in {"assets", "discover"} =>
                    j.assets \in Seq([name : Nat, content : Contents])
              /\ j.kind \in {"blobs", "rows"} => j.shards \in Seq(DOMAIN PinnedRows)
              /\ j.kind # "discover" => j.root \in Roots

VARIABLES
    runs,               \* each process: its job and how far it got
    shards,             \* the shard files: "pinned" or "other"
    tree,               \* the files of the source tree: "pinned" or "other"
    launches, kills, touches    \* bounds

bounds == <<launches, kills, touches>>
acquisitionVars == <<runs, shards, tree, bounds>>
vars == <<treeVars, acquisitionVars>>

Idle == [at |-> "idle"]

AcquisitionInit ==
    /\ TreeInit
    /\ runs = [p \in Procs |-> Idle]
    /\ shards = [s \in DOMAIN PinnedRows |-> "pinned"]
    /\ tree = [name \in DOMAIN Tree |-> "pinned"]
    /\ launches = 0
    /\ kills = 0
    /\ touches = 0

Ended == {"idle", "ok", "done", "failed"}
Running(p) == runs[p].at \notin Ended
Job(p) == Jobs[runs[p].job]
Publishes(j) == j.kind # "discover"

-----------------------------------------------------------------------------
(* Opening.                                                                 *)

BytesOf(rows) == FoldLeft(LAMBDA sum, row : sum + LengthOf[row.content], 0, rows)

(* What the validate functions ask, beyond well-formed texts.               *)
ValidAssets(j) ==
    /\ j.maxBytes > 0
    /\ Len(j.assets) \in 1 .. j.maxDocuments
    /\ \A i, k \in DOMAIN j.assets : i # k => j.assets[i].name # j.assets[k].name
    /\ BytesOf(j.assets) <= j.maxBytes
ValidDiscovery(j) == j.maxBytes > 0 /\ Len(j.assets) \in 1 .. j.maxDocuments
ValidPartition(j) == j.partition # {}
ValidBlobs(j) ==
    /\ j.shards # <<>> /\ IsInjective(j.shards)
    /\ j.maxBytes > 0 /\ j.maxDocuments > 0
    /\ ValidPartition(j)
ValidRows(j) ==
    /\ j.shards # <<>> /\ IsInjective(j.shards)
    /\ j.maxBytes > 0 /\ j.maxDocuments > 0
ValidTree(j) == j.maxDocuments > 0
Valid(j) ==
    CASE j.kind = "assets" -> ValidAssets(j)
      [] j.kind = "discover" -> ValidDiscovery(j)
      [] j.kind = "blobs" -> ValidBlobs(j)
      [] j.kind = "rows" -> ValidRows(j)
      [] OTHER -> ValidTree(j)

(* Where a command goes from its opening; stack-source creates its partial  *)
(* tree after the shards were read, materialize-source after the walk.      *)
FirstStep(j) ==
    CASE j.kind \in {"assets", "discover"} -> "fetching"
      [] j.kind \in {"blobs", "rows"} -> "verifying"
      [] OTHER -> "walking"

Reported(p, how) == runs' = [runs EXCEPT ![p] = [at |-> how]]

NewRun(n, at) ==
    [job |-> n, at |-> at, next |-> 1, hops |-> 0, retries |-> 0,
     picked |-> <<>>, seen |-> {}, generations |-> <<>>, bytes |-> 0, raced |-> FALSE]

(* require_output_boundary: nothing is there yet.                           *)
OutputFree(j) == Publishes(j) => ~Exists(j.root)

(* The command starts: configuration, output boundary.                      *)
Open(p, n) ==
    /\ ~Running(p)
    /\ launches < MaxLaunches
    /\ launches' = launches + 1
    /\ LET j == Jobs[n]
       IN  IF Valid(j) /\ OutputFree(j)
           THEN /\ runs' = [runs EXCEPT ![p] = NewRun(n, FirstStep(j))]
                /\ IF j.kind \in {"assets", "rows"}
                   THEN CreatePartial(p, j.root)
                   ELSE UNCHANGED partial
           ELSE /\ Reported(p, "failed")
                /\ UNCHANGED partial
    /\ UNCHANGED <<root, shards, tree, kills, touches>>

(* Every early return: the command reports an error and drops its tree.     *)
Fail(p) ==
    /\ Reported(p, "failed")
    /\ IF Publishes(Job(p)) THEN DropPartial(p, Job(p).root) ELSE UNCHANGED partial

-----------------------------------------------------------------------------
(* Shards.                                                                  *)

(* verify_shard_digest: the file is read through and compared.              *)
VerifyShard(p) ==
    /\ runs[p].at = "verifying"
    /\ IF shards[Job(p).shards[runs[p].next]] = "pinned"
       THEN runs' = [runs EXCEPT ![p].at = "reading"] /\ UNCHANGED partial
       ELSE Fail(p)
    /\ UNCHANGED <<root, shards, tree, bounds>>

(* The file is opened again, by its path.                                   *)
RowsNow(s) == IF shards[s] = "pinned" THEN PinnedRows[s] ELSE OtherRows[s]

(* project_batch and project_content_batch.  fault is the first rule of a   *)
(* row's own that refuses it, "none" when there is none; the partition is   *)
(* asked next, then the identifiers that were seen before.                  *)
Eligible(j, row) == row.fault = "none" /\ row.id \in j.partition
NewRows(j, rows, seen) ==
    {i \in DOMAIN rows :
        /\ Eligible(j, rows[i])
        /\ rows[i].id \notin seen
        /\ \A k \in 1 .. (i - 1) : ~(Eligible(j, rows[k]) /\ rows[k].id = rows[i].id)}

(* A content that is not the one its row names.                             *)
Torn(j, rows) ==
    /\ j.kind = "rows" /\ j.verified
    /\ \E i \in DOMAIN rows : Eligible(j, rows[i]) /\ rows[i].content # rows[i].id

InOrder(rows, chosen) ==
    [n \in 1 .. Cardinality(chosen) |->
        rows[CHOOSE i \in chosen : Cardinality({k \in chosen : k <= i}) = n]]

(* The sort by identifier, which keeps equal rows in their order.           *)
Sorted(rows) ==
    LET UpTo(i) == {k \in DOMAIN rows :
                        rows[k].id < rows[i].id \/ (rows[k].id = rows[i].id /\ k <= i)}
    IN  [n \in DOMAIN rows |-> rows[CHOOSE i \in DOMAIN rows : Cardinality(UpTo(i)) = n]]

(* What the command knows after the shard; a row of metadata stands for the *)
(* content its identifier names.                                            *)
AfterRows(p, rows, new) ==
    LET Meant(row) == IF Job(p).kind = "blobs" THEN [row EXCEPT !.content = row.id] ELSE row
        more == InOrder(rows, new)
    IN  [picked |-> runs[p].picked \o [i \in DOMAIN more |-> Meant(more[i])],
         seen |-> runs[p].seen \cup {rows[i].id : i \in new}]

(* What a source manifest says of a document.                               *)
Entry(row) == [id |-> row.id, content |-> row.content, repo |-> row.repo]
Entries(rows) == [i \in DOMAIN rows |-> Entry(rows[i])]

FullGenerations(rows, size) ==
    [g \in 1 .. (Len(rows) \div size) |-> SubSeq(rows, (g - 1) * size + 1, g * size)]
Chunks(rows, size) ==
    LET full == FullGenerations(rows, size)
        rest == SubSeq(rows, Len(full) * size + 1, Len(rows))
    IN  IF rest = <<>> THEN full ELSE Append(full, rest)
Flat(generations) == FlattenSeq(generations)

(* The documents are written one by one: of two with a name the last stays. *)
AddFiles(files, rows) ==
    LET names == {rows[i].id : i \in DOMAIN rows}
        LastOf(name) == Max({i \in DOMAIN rows : rows[i].id = name})
    IN  [name \in DOMAIN files \cup names |->
            IF name \in names THEN rows[LastOf(name)].content ELSE files[name]]

(* A shard of materialize_stack_content: the full generations are written,  *)
(* then both bounds are checked.                                            *)
FlushFull(p, acc) ==
    LET j == Job(p)
        full == FullGenerations(acc.picked, j.perGeneration)
        written == Flat(full)
        bytes == runs[p].bytes + BytesOf(written)
        files == partial[<<j.root, p>>].files
    IN  IF Len(runs[p].generations) * j.perGeneration + Len(acc.picked) > j.maxDocuments
           \/ bytes > j.maxBytes
        THEN Fail(p)
        ELSE /\ runs' = [runs EXCEPT
                  ![p].next = @ + 1,
                  ![p].at = IF runs[p].next = Len(j.shards) THEN "sharding" ELSE "verifying",
                  ![p].seen = acc.seen,
                  ![p].raced = @ \/ shards[j.shards[runs[p].next]] # "pinned",
                  ![p].picked = SubSeq(acc.picked, Len(written) + 1, Len(acc.picked)),
                  ![p].generations = @ \o FullGenerations(Entries(written), j.perGeneration),
                  ![p].bytes = bytes]
             /\ partial' = [partial EXCEPT ![<<j.root, p>>].files = AddFiles(files, written)]

(* A shard of materialize_stack_source, and the sort after the last one.    *)
(* Nothing selected: that is a success which publishes nothing for a        *)
(* partition (empty_partition_result), and an error otherwise.              *)
KeepRows(p, acc) ==
    LET j == Job(p)
        last == runs[p].next = Len(j.shards)
        kept == [runs EXCEPT
                  ![p].seen = acc.seen,
                  ![p].raced = @ \/ shards[j.shards[runs[p].next]] # "pinned"]
    IN  IF Len(acc.picked) > j.maxDocuments
        THEN Fail(p)
        ELSE CASE last /\ acc.picked = <<>> ->
                    /\ Reported(p, IF j.partitioned THEN "done" ELSE "failed")
                    /\ UNCHANGED partial
               [] last /\ acc.picked # <<>> ->
                    /\ runs' = [kept EXCEPT ![p].at = "fetching", ![p].next = 1,
                                            ![p].picked = Sorted(acc.picked)]
                    /\ CreatePartial(p, j.root)
               [] OTHER ->
                    /\ runs' = [kept EXCEPT ![p].at = "verifying", ![p].next = @ + 1,
                                            ![p].picked = acc.picked]
                    /\ UNCHANGED partial

ReadShard(p) ==
    /\ runs[p].at = "reading"
    /\ \E rows \in {RowsNow(Job(p).shards[runs[p].next])} :
       \E new \in {NewRows(Job(p), rows, runs[p].seen)} :
       \E after \in {AfterRows(p, rows, new)} :
          CASE Torn(Job(p), rows) -> Fail(p)
            [] ~Torn(Job(p), rows) /\ Job(p).kind = "rows" -> FlushFull(p, after)
            [] OTHER -> KeepRows(p, after)
    /\ UNCHANGED <<root, shards, tree, bounds>>

-----------------------------------------------------------------------------
(* Transfers.                                                               *)

Items(p) == IF Job(p).kind = "blobs" THEN runs[p].picked ELSE Job(p).assets
Item(p) == Items(p)[runs[p].next]

(* What require_acquisition_url makes of the location of a redirect.        *)
Locations == {"missing", "refused", "permitted"}

(* A redirect is followed by hand, each location under the rule for URLs.   *)
Redirected(p) ==
    /\ runs[p].at = "fetching"
    /\ \E location \in Locations :
          IF location = "permitted" /\ runs[p].hops < Job(p).maxRedirects
          THEN runs' = [runs EXCEPT ![p].hops = @ + 1] /\ UNCHANGED partial
          ELSE Fail(p)
    /\ UNCHANGED <<root, shards, tree, bounds>>

(* Mutant: the retries are not counted.                                      *)
NotNowUncounted(p) ==
    /\ runs[p].at = "fetching"
    /\ IF runs[p].retries < Job(p).attempts
       THEN /\ runs' = [runs EXCEPT ![p].hops = 0]
            /\ UNCHANGED partial
       ELSE Fail(p)
    /\ UNCHANGED <<root, shards, tree, bounds>>

(* Status 429 or 5xx, or the transport failed, before or within the body:   *)
(* the transfer starts again, from its own URL.  acquire and discover do    *)
(* not retry.                                                               *)
NotNow(p) ==
    /\ runs[p].at = "fetching"
    /\ IF runs[p].retries < Job(p).attempts
       THEN /\ runs' = [runs EXCEPT ![p].retries = @ + 1, ![p].hops = 0]
            /\ UNCHANGED partial
       ELSE Fail(p)
    /\ UNCHANGED <<root, shards, tree, bounds>>

(* Any other status, a missing credential, a body over the ceiling.         *)
NotThis(p) ==
    /\ runs[p].at = "fetching"
    /\ Fail(p)
    /\ UNCHANGED <<root, shards, tree, bounds>>

Continue(p, bytes) ==
    runs' = [runs EXCEPT ![p].bytes = bytes, ![p].retries = 0, ![p].hops = 0,
                         ![p].next = @ + 1,
                         ![p].at = IF runs[p].next < Len(Items(p)) THEN @ ELSE "sharding"]

(* A body arrives that was not cut off at the ceiling: length, then digest. *)
AssetArrives(p) ==
    /\ runs[p].at = "fetching" /\ Job(p).kind = "assets"
    /\ \E body \in Contents :
          IF /\ LengthOf[body] = LengthOf[Item(p).content]
             /\ body = Item(p).content
          THEN /\ Continue(p, runs[p].bytes + LengthOf[body])
               /\ WriteFile(p, Job(p).root, Item(p).name, body)
          ELSE Fail(p)
    /\ UNCHANGED <<root, shards, tree, bounds>>

(* Decoded: length, identifier, then the bound on what has been resolved.   *)
BlobArrives(p) ==
    /\ runs[p].at = "fetching" /\ Job(p).kind = "blobs"
    /\ \E body \in Contents :
          LET bytes == runs[p].bytes + LengthOf[body]
          IN  IF /\ LengthOf[body] = LengthOf[Item(p).content]
                 /\ body = Item(p).id
                 /\ bytes <= Job(p).maxBytes
              THEN /\ Continue(p, bytes)
                   /\ WriteFile(p, Job(p).root, Item(p).id, body)
              ELSE Fail(p)
    /\ UNCHANGED <<root, shards, tree, bounds>>

(* Nothing to verify against: any body under the ceiling is reported.       *)
ProbeArrives(p) ==
    /\ runs[p].at = "fetching" /\ Job(p).kind = "discover"
    /\ \E body \in Contents :
          CASE LengthOf[body] > Job(p).maxBytes -> Fail(p)
            [] LengthOf[body] <= Job(p).maxBytes /\ runs[p].next < Len(Items(p)) ->
                  Continue(p, 0) /\ UNCHANGED partial
            [] OTHER -> Reported(p, "done") /\ UNCHANGED partial
    /\ UNCHANGED <<root, shards, tree, bounds>>

-----------------------------------------------------------------------------
(* The authorized tree.                                                     *)

(* enumerate: one entry of the walk, which comes in no particular order.    *)
(* Links, empty files and names that are not portable are left out.         *)
FileNow(name) == IF tree[name] = "pinned" THEN Tree[name] ELSE OtherTree[name]

WalkEntry(p) ==
    /\ runs[p].at = "walking"
    /\ \E name \in DOMAIN tree \ runs[p].seen :
       LET file == FileNow(name)
       IN  runs' = [runs EXCEPT
              ![p].seen = @ \cup {name},
              ![p].raced = @ \/ tree[name] # "pinned",
              ![p].picked =
                  IF file.sort = "regular"
                  THEN Append(@, [id |-> name, content |-> file.content, repo |-> file.repo])
                  ELSE @]
    /\ UNCHANGED <<treeVars, shards, tree, bounds>>

EndWalk(p) ==
    /\ runs[p].at = "walking"
    /\ runs[p].seen = DOMAIN tree
    /\ IF Len(runs[p].picked) \in 1 .. Job(p).maxDocuments
       THEN /\ runs' = [runs EXCEPT ![p].at = "sharding",
                                    ![p].picked = Sorted(@)]
            /\ CreatePartial(p, Job(p).root)
       ELSE Fail(p)
    /\ UNCHANGED <<root, shards, tree, bounds>>

-----------------------------------------------------------------------------
(* Manifests and publication.                                               *)

FilesOf(p) == partial[<<Job(p).root, p>>].files

(* acquire lists its assets in one manifest, in the tree beside them.       *)
WriteAssetManifest(p) ==
    /\ runs[p].at = "sharding" /\ Job(p).kind = "assets"
    /\ LET assets == Job(p).assets
           listed == [i \in DOMAIN assets |->
                        [id |-> assets[i].name, content |-> assets[i].content, repo |-> "none"]]
       IN  WriteManifests(p, Job(p).root, <<listed>>, With(FilesOf(p), ManifestName, "manifest"))
    /\ runs' = [runs EXCEPT ![p].at = "publishing"]
    /\ UNCHANGED <<root, shards, tree, bounds>>

(* A source manifest for every generation, and their index.                 *)
WriteBlobManifests(p) ==
    /\ runs[p].at = "sharding" /\ Job(p).kind = "blobs"
    /\ \E all \in {Chunks(Entries(runs[p].picked), Job(p).perGeneration)} :
          WriteManifests(p, Job(p).root, all, FilesOf(p))
    /\ runs' = [runs EXCEPT ![p].at = "publishing"]
    /\ UNCHANGED <<root, shards, tree, bounds>>

WriteTreeManifests(p) ==
    /\ runs[p].at = "sharding" /\ Job(p).kind = "tree"
    /\ \E all \in {Chunks(runs[p].picked, Job(p).perGeneration)} :
          WriteManifests(p, Job(p).root, all, FilesOf(p))
    /\ runs' = [runs EXCEPT ![p].at = "publishing"]
    /\ UNCHANGED <<root, shards, tree, bounds>>

(* The last generation, which no bound is checked against.                  *)
WriteTail(p) ==
    /\ runs[p].at = "sharding" /\ Job(p).kind = "rows"
    /\ \E all \in {runs[p].generations \o Chunks(Entries(runs[p].picked), Job(p).perGeneration)} :
          IF all = <<>>
          THEN Fail(p)
          ELSE /\ WriteManifests(p, Job(p).root, all, AddFiles(FilesOf(p), runs[p].picked))
               /\ runs' = [runs EXCEPT ![p].at = "publishing"]
    /\ UNCHANGED <<root, shards, tree, bounds>>

(* publish_create_new looks before it renames.                              *)
LookBeforeRename(p) ==
    /\ runs[p].at = "publishing"
    /\ IF Exists(Job(p).root)
       THEN Fail(p)
       ELSE runs' = [runs EXCEPT ![p].at = "installing"] /\ UNCHANGED partial
    /\ UNCHANGED <<root, shards, tree, bounds>>

(* The rename; the sync of the parent directory may still fail, and then an *)
(* error is reported of a tree that is published.                           *)
Install(p) ==
    /\ runs[p].at = "installing"
    /\ LET run == runs[p]
           label == [job |-> run.job, process |-> p, raced |-> run.raced]
       IN  /\ RenameNoReplace(p, Job(p).root, label)
           /\ \/ runs' = [runs EXCEPT ![p] = [at |-> "ok", job |-> run.job]]
              \/ Reported(p, "failed")
    /\ UNCHANGED <<shards, tree, bounds>>

RenameRefused(p) ==
    /\ runs[p].at = "installing"
    /\ Exists(Job(p).root)
    /\ Fail(p)
    /\ UNCHANGED <<root, shards, tree, bounds>>

-----------------------------------------------------------------------------
(* The environment.                                                         *)

Kill(p) ==
    /\ Running(p)
    /\ kills < MaxKills
    /\ kills' = kills + 1
    /\ runs' = [runs EXCEPT ![p] = Idle]
    /\ UNCHANGED <<treeVars, shards, tree, launches, touches>>

ReplaceShard(s) ==
    /\ touches < MaxTouches
    /\ touches' = touches + 1
    /\ shards' = [shards EXCEPT ![s] = IF @ = "pinned" THEN "other" ELSE "pinned"]
    /\ UNCHANGED <<treeVars, runs, tree, launches, kills>>

EditTree(name) ==
    /\ touches < MaxTouches
    /\ touches' = touches + 1
    /\ tree' = [tree EXCEPT ![name] = IF @ = "pinned" THEN "other" ELSE "pinned"]
    /\ UNCHANGED <<treeVars, runs, shards, launches, kills>>

Step(p) ==
    \/ VerifyShard(p) \/ ReadShard(p)
    \/ Redirected(p) \/ NotNow(p) \/ NotThis(p)
    \/ AssetArrives(p) \/ BlobArrives(p) \/ ProbeArrives(p)
    \/ WalkEntry(p) \/ EndWalk(p)
    \/ WriteAssetManifest(p) \/ WriteBlobManifests(p) \/ WriteTreeManifests(p) \/ WriteTail(p)
    \/ LookBeforeRename(p) \/ Install(p) \/ RenameRefused(p)

Next ==
    \/ \E p \in Procs : Step(p) \/ Kill(p)
    \/ \E p \in Procs, n \in DOMAIN Jobs : Open(p, n)
    \/ \E s \in DOMAIN PinnedRows : ReplaceShard(s)
    \/ \E name \in DOMAIN Tree : EditTree(name)

(* Both timeouts are required to be positive: a transfer always goes on.    *)
Spec == AcquisitionInit /\ [][Next]_vars /\ \A p \in Procs : WF_vars(Step(p))

-----------------------------------------------------------------------------
(* What has been published.                                                 *)

(* What a job should list, from the pinned inputs: of the rows with one     *)
(* identifier the first admissible one counts.                              *)
AllRows(j) == Flat([k \in DOMAIN j.shards |-> PinnedRows[j.shards[k]]])
Expected(j) ==
    CASE j.kind = "assets" ->
            {[id |-> a.name, content |-> a.content, repo |-> "none"] : a \in ToSet(j.assets)}
      [] j.kind \in {"blobs", "rows"} ->
            LET rows == AllRows(j)
                Good == {i \in DOMAIN rows :
                            Eligible(j, rows[i])}
                First == {i \in Good : \A k \in Good : rows[k].id = rows[i].id => i <= k}
            IN  {[id |-> rows[i].id, repo |-> rows[i].repo,
                  content |-> IF j.kind = "blobs" THEN rows[i].id ELSE rows[i].content] :
                    i \in First}
      [] OTHER ->
            {[id |-> name, content |-> Tree[name].content, repo |-> Tree[name].repo] :
                name \in {n \in DOMAIN Tree : Tree[n].sort = "regular"}}

ListedAsPinned(t, run) ==
    LET j == Jobs[run.job]
        listed == Flat(t.generations)
        Ids == {e.id : e \in ToSet(listed)}
    IN  /\ t.index = Len(t.generations)
        /\ Cardinality(Ids) = Len(listed)
        /\ ~run.raced => ToSet(listed) = Expected(j)
        /\ j.kind = "blobs" \/ (j.kind = "rows" /\ j.verified) =>
              \A e \in ToSet(listed) : e.content = e.id
        /\ j.kind \in {"blobs", "tree"} =>
              \A i \in 1 .. Len(listed) - 1 : listed[i].id < listed[i + 1].id
        /\ j.kind # "assets" =>
              \A g \in DOMAIN t.generations :
                  /\ t.generations[g] # <<>>
                  /\ Len(t.generations[g]) <= j.perGeneration
                  /\ g < Len(t.generations) => Len(t.generations[g]) = j.perGeneration
        /\ Len(listed) <= j.maxDocuments
        /\ j.kind \in {"assets", "blobs"} => BytesOf(listed) <= j.maxBytes

(* The documents are those that are listed, with the bytes they are listed  *)
(* with; an asset of the manifest's own name is lost under it.              *)
FilesAsListed(t, run) ==
    LET listed == ToSet(Flat(t.generations))
        own == IF Jobs[run.job].kind = "assets" THEN {ManifestName} ELSE {}
    IN  Jobs[run.job].kind # "tree" =>
            /\ DOMAIN t.files = {e.id : e \in listed} \cup own
            /\ \A e \in listed : e.id \notin own => t.files[e.id] = e.content

(* Every published tree holds what its configuration pins, listed once, in  *)
(* full generations, within its bounds, whatever the origins answered, who  *)
(* else was at work on the same root, which process was killed, and what    *)
(* was left by one with the same id.  Rows of a shard that was replaced     *)
(* after its digest was taken are only bound by the identity of their       *)
(* content.  (PartialTree, acquire, resolve_and_publish,                    *)
(* materialize_stack_content, materialize_source.)                          *)
PublishedAsPinned ==
    \A r \in Roots : Exists(r) =>
        /\ ListedAsPinned(root[r].tree, root[r].by)
        /\ FilesAsListed(root[r].tree, root[r].by)

(* A command that reports a publication made the tree that is there, and no *)
(* published tree is ever changed or removed (publish_create_new).          *)
PublishedOnce ==
    /\ [](\A p \in Procs : runs[p].at = "ok" =>
              Exists(Job(p).root) /\ root[Job(p).root].by.process = p)
    /\ [][\A r \in Roots : Exists(r) => root'[r] = root[r]]_root

(* Redirects and retries are bounded: whatever the origins answer, every    *)
(* command ends (fetch_with_retry, fetch_one_classified).                   *)
EveryCommandEnds == \A p \in Procs : Running(p) ~> ~Running(p)
=============================================================================
