# Verification of python-slm

TLA+ models of this repository, checked with TLC on small instances. The safety
properties of the training core (plan, trainer, checkpoint directory, final run, span
pipeline with its device transfers, batch source) and of the parts of `xtask` that make and
write evidence (P1A execution and publication, audited process, P0A amendment) are also
proved with TLAPS, for every instance. Paths are relative to the repository's two crates: `train/trainer.rs` is
`src/train/trainer.rs` of the program, `xtask/p1a.rs` is `xtask/src/p1a.rs` of its
release tooling.

## Inventory

The program brings Python sources in, curates them, builds a token corpus, trains a
135M-parameter model on exactly two billion targets in 30,518 optimizer updates, and
publishes checkpoints from which a run can be resumed exactly. `xtask` qualifies the
machine and the toolchain, and records the evidence in the repository.

| Part | State | Operations | Hard behaviour | Correct when |
|---|---|---|---|---|
| Acquisition, stack, materialisation (`acquire.rs`, `stack.rs`, `materialize.rs`) | output trees, partial directories | `acquire`, `discover`, `materialize-*` | origins that redirect, fail, answer with anything; other processes on the root; kills; inputs replaced between two reads | what is published is what was pinned, once |
| Curation (`data.rs`, `data/source.rs`) | outcome of each document | `curate` | files touched between two reads; removals | what is declared and nothing removed is passed on |
| Corpus policy (`corpus.rs`) | union-find, assignments | `prepare-corpus`, `plan-spans` | chains of near-duplicates, shared repositories, decontamination | one of each chain; splits apart |
| Tokenizer (`tokenizer.rs`) | token arrays, pair counts, positions | `train-tokenizer`, encode, decode | stale positions and heap entries | accounting exact; encoder and training agree |
| Token storage (`storage.rs`) | shard writers, document and sequence index | `tokenize`, `open`, reads | documents, spans and shards end at different places | what is written opens and reads back |
| Training plan (`train/trainer.rs`, `train/checkpoint.rs`) | none | schedule, retention policy | two formulations, ragged final update | they agree on every plan |
| Trainer (`train/trainer.rs`) over a backend | counters, gradients, RNG, evaluations | `process_batch`, `snapshot`, `from_snapshot` | a call that fails half way; resume | every snapshot is a state of the uninterrupted run |
| Checkpoint directory (`train/checkpoint.rs`) | generations, partial directories | publish, load, prune | crashes between file operations; unsynchronised processes | what retention keeps is never lost |
| Final run (`train/final_run.rs`, `train/launch.rs`) | loop position, last publication | full run, bounded diagnostic | failures between publication, retention and report; overlapping launches | what is reported is durable; relaunching finishes |
| Span pipeline (`train.rs`), batch source (`train/launch.rs`) | read-ahead buffer, transfers in flight | `next_device_batch`, `next_batch`, `fast_forward_to` | cancellation from another thread; errors with tickets in flight | the spans in order, each once, then a stable end or error |
| Device transfers (`train/cuda_transfer.rs`, `rocm_transfer.rs`, `unified_transfer.rs`) | context references, pinned and device memory, streams | submit, wait, cancel, drops | any driver call fails | given back once, not under a running copy |
| P1A publication (`xtask/p1a.rs`) | journal, stage, runs, acceptances, pointer | `qualify-p1a`, recovery | a kill at any file operation; two invocations | one verdict per run, one acceptance per PASS |
| P1A execution (`xtask/p1a.rs`, `p1a_windows.rs`, `p1a_receipt.rs`, `p1a_artifacts.rs`) | the run being recorded | admission, host probe, builds, quality commands, comparisons | tools, files, commits, clock and processes change while it reads them | a PASS was produced by what it names |
| Audited process (`xtask/p1a_process.rs`) | debug events, Job samples | `run` | a process tree that moves between any two steps; reused process numbers | nothing outlives the run, nothing is unseen |
| P0A amendment (`xtask/p0a.rs`) | attempts, approvals, chain, pointer, box | `prepare`, `finalize`, `check` | no lock; recovery of attempts that are alive; owner's commits between the steps | history only grows; interrupted work is finished |
| Model, kernels, backends, numeric policies | tensors | forward, backward | numeric | out of reach of model checking |
| Stability, profile, quality, benchmark, scale-up | reports | trials, validation | wall-clock measurement | not modelled |
| Later gates, evidence of other phases, command lines | none that persists | checks of committed files | | not modelled |

How the parts interact. The data commands run one after another, each on what the one
before it published and verified again. A launch opens the token corpus, builds a backend
and a trainer (fresh or from a loaded checkpoint), moves the batch source ahead to the
trainer's cursor, and loops: the batch source pulls spans through the pipeline, the
trainer consumes windows, and after an update that crosses an event boundary the
coordinator publishes a snapshot and prunes. All of this is one thread per process; the
concurrency is between processes on one root, which nothing locks, between the
reader and whoever holds a `LoaderCancellation`, and with failures and crashes. In `xtask`
a named mutex keeps qualifications apart, the amendment has none, and the concurrency is
with the rest of the machine: the audited processes, the other processes of the host, and
whoever edits, commits or sets the clock.

## Modules

| Module | Models | State and actions against the code |
|---|---|---|
| `TrainingPlan` | the frozen arithmetic and the retention policy | operators; the real numbers are constants |
| `CanonicalRun` | abstract: what exact resume promises | a position and the snapshots handed out |
| `Trainer` | `DeterministicTrainer` with its backend | one action per outcome of a call: each `?` that leaves something behind is an action guarded by `Faults`; `StopsAfter` says which errors make the caller drop the trainer |
| `CheckpointStore` | the checkpoint directory | `pc[p]` is the place in publish or prune; one action per file operation that another process or a crash can fall between |
| `FinalRun` | coordinator and launches, over `CheckpointStore` | `phase[p]` is the coordinator's place, `position[p]` its trainer's cursor |
| `OrderedStream` | abstract: what a reader of spans is promised | the spans delivered, the last answer |
| `DeviceTransfer` | the CUDA and ROCm tickets, call by call | operators from a ledger of allocations, contexts and failures to the ledgers a method can leave |
| `SpanPipeline` | `SpanLoader`, `TransferPipeline`, `LoaderCancellation`, over an adapter | a call of `next_device_batch` is cut into steps where the flag is read |
| `BatchSource` | `CorpusBatchSource`, over `SpanPipeline` | `job` is the method under way, `waiting` says it is in the pipeline |
| `OutputTree` | `PartialTree` and `publish_create_new` | partial directories by root and process id; the rename never replaces |
| `Acquisition` | the four fetching and materialising commands | `runs[p]` is a command's place; origins are a choice of answers; shards and trees can be replaced |
| `Curation`, `CorpusPolicy`, `ByteBpe`, `TokenStore` | `curate`; `prepare-corpus`; `train-tokenizer` and the encoder; `tokenize` and the verified reader | one action per document, pair, merge or token the loops go over; a document can be touched between two reads |
| `DataPreparation` | these commands in sequence, and `plan-spans` | the governed documents are what is tokenized; the shuffle draws any permutation |
| `AcceptanceLog` | abstract: what receipt publication promises | verdicts, the accepted runs, the selected entry |
| `Qualification` | `qualify-p1a` from lock to pointer, its recovery, the owner's receipt commits | `pc[p]` is the place in the command; every file operation is an action; `Stop` at any of them |
| `HostProbe` | selection of Visual Studio, tools, runtime, SDK, core topology | operators over a host record |
| `Isolation` | the load window, and the launchers of the verifier | polls read a table of processes that changes between them |
| `ArtifactScan` | the scan of a built target with its archives and ZIP files | operators over artifact records |
| `ReceiptRules` | the rules that relate commands, audits, transcripts, artifacts, commits | one operator per validation |
| `Execution` | the qualification itself, over the four above | `pc` is the place in the plan, `disk` and `log` what the environment changes, `run` what will be published |
| `AuditedProcess` | `run` of the auditor and a Windows process tree | a process that raised an event stands still until it is continued; the auditor's loop is one action per wait, event or sample |
| `AmendmentRuns`, `Amendment` | `prepare` with its recovery; `finalize`, `check` and the commits | containers below `.staging`, attempts, and the chain, one action per file operation |
| `MC*` | constants for TLC | |
| `TrainerProofs`, `FinalRunProofs`, `StreamProofs`, `AcquisitionProofs`, `QualificationProofs`, `ExecutionProofs`, `AuditedProcessProofs`, `AmendmentProofs` | | theorems, and the inductive invariants they rest on |

`map` in `PROJECT.json` names the source lines of every definition. Definitions whose name
carries a suffix (`CudaCleanup_Unsynchronized`, `RenameReplace`, marked "Mutant of" where
they stand) are plausible bugs in the definition they are named after, used to
show that a property notices them. They are no part of any specification.

Abstractions:

* **Tensors.** A gradient, the weights and the RNG chain are functions from targets to the
  number of times each went in. Trainers that consumed the same targets in the same
  updates are equal, which is what bitwise determinism means; `torn` is any other
  change of the backend, `overflowed` a nonfinite gradient.
* **A generation directory** is whole, damaged or empty: what `load_checkpoint` can tell.
* **Contents** are model values or small sequences, and a hash is the content: integrity
  checks are taken to detect what they are for. Similarity, LSH bands, benchmark
  matches, licences and policy verdicts of contents are constants of the instance, and every
  split assignment a hash could produce occurs.
* **Names and times** keep their order only, where the code sorts or compares them. The
  monotonic clock of `Execution` counts steps, the wall clock is that plus an offset
  somebody can change.
* **A version** in `Execution` stands for the bytes of a tool, of the tracked files, of
  the headers, caches and sources the builds read; a command records the versions it used.
* **Crashes** lose a process's memory, not what is on disk. Files that are written in
  place can be torn; what was renamed or removed stays so.
* **Driver calls** succeed or fail and nothing else; a copy counts as running until a
  synchronisation of its stream succeeds. Freeing outside the ticket's context may fail.

## Runs

| Run | Question | Properties |
|---|---|---|
| `trainer` | with every failure, a caller that carries on after the four fenced ones and drops the trainer after the others, and restarts: is every snapshot exact? | `SnapshotsExact`, `WeightsMatchCursor`, `ImplementsCanonicalRun`, `UpdateKeepsSchedule` |
| `relaunched_run` | full runs and diagnostics launched from the newest generation, three faults: is each report durable, each successful prune exact, the final generation on disk at last? | `ReportedIsDurable`, `SuccessfulPruneIsExact`, `EventuallyDurable` |
| `two_launches` | two overlapping launches from arbitrary generations: is anything retained lost, the resume point moved back, a completion reported twice? | `RetainedKept`, `CompletedOnce`, `ResumePointMonotone` |
| `retention_stops` | is storage bounded after crashes? No: finding | `StorageBounded` |
| `data_path` | under every request, failure, driver failure and cancellation: is the stream in order, are windows the stream, is what tickets hold given back, does every request return? | `ImplementsOrderedStream`, `NothingAfterCancel`, `TicketsAccounted`, `WindowsFollowStream`, `RequestReturns` |
| `acquisition` | two processes, any answers, kills and replaced inputs: is what is published what was pinned, published once, and does every command end? | `PublishedAsPinned`, `PublishedOnce`, `EveryCommandEnds` |
| `data_preparation` | five commands over small sources, a file touched between any two reads: are the splits apart, the contents verified, the tokenizer exact, the corpus and the order complete? | `SplitsKeptApart`, `PublishedAsDeclared`, `ArtifactEncodes`, `CorpusReadsBack`, `OrderCoversIndex` |
| `qualification` | two invocations and the owner, killed at any file operation: one verdict per run, one acceptance per PASS, one commit that settles it, interrupted attempts closed? | `ImplementsAcceptanceLog`, `LaggingPointerIsJournalled`, `OneCommitSettles`, `InterruptedIsClosed` |
| `next_invocation` | does the next invocation always finish what was interrupted? No: finding | `NextInvocationFinishes` |
| `amendment` | two prepares, one finalize, the owner's commits, a kill or failure anywhere: does the selected history only grow, is one publication open at a time, is interrupted work finished? | `CheckedBoxVerifies`, `OneOpenPublication`, `AttemptsAreClosedOnce`, `SelectedHistoryGrows`, `InterruptedIsFinished` |
| `audited_process` | a process tree that spawns, maps, exits and lingers: does nothing outlive the run, is everything in the evidence, is the verdict justified, does the run return? | `NothingOutlivesTheRun`, `EvidenceIsComplete`, `VerdictIsJustified`, `RunReturns` |
| `execution` | while tools, files, commits, clock and processes change: does a PASS mean what it says, what can make a published run invalid, which attempts stay open? | `QualifiedHostWasQuiet`, `PassMeansExecuted`, `RefusedOnlyFor`, `EveryAttemptIsClosed` |

Type invariants are checked as conjuncts: `RunTypeOK` (with `CompletionIsDurable`) of
`CompletedOnce`, `PipelineTypeOK` of `TicketsAccounted`, `TypeOK` of `EvidenceIsComplete`
(with `SampledBeforeEntry`), of `LaggingPointerIsJournalled` and of `CorpusReadsBack`
(with `BuiltOpens`). `OneOfEachChain` is a part of `SplitsKeptApart`, the incremental
accounting of the tokenizer (`Accounted`) one of `ArtifactEncodes`, the ledger of the
device adapters (`Contained`) one of `TicketsAccounted`.

### Bounds

* `trainer`: 3 updates of 3, 3 and 2 targets with the interval 4, so that an update takes
  one to three micro-batches, one boundary falls inside an update and the last coincides with
  completion. `MaxDraws = 2` bounds how often a target enters the RNG chain: one retry.
* `relaunched_run`: seven full updates and a ragged one, an event every third target, so
  that updates with and without an event alternate and generations are removed; three
  faults. Liveness needs a bound: a run that fails for ever never finishes.
* `two_launches`: four full updates and a final one, each an event, one anchor, a diagnostic
  budget of two, one fault, processes symmetric; 1.85 million states. Three generations can be
  kept, so a prune has something to remove while the other process publishes.
* `data_path`: six spans of 2, 2, 2, 2, 2 and 1 targets, a buffer of two, three transfers in
  flight, two failing driver calls. Both limits are reached several times, windows are
  aligned and misaligned, the end is ragged, and a cleanup can fail after the call that made
  it necessary.
* `acquisition`: two process ids, seven jobs (assets, blobs, rows, trees), two roots, four
  contents, two launches, one kill, one replacement; so a process id comes back to its own
  partial directory, and both roots see a race.
* `data_preparation`: four documents over nine assignments of contents and five of
  repositories, and the cases with removals; a two-letter alphabet, two merges of
  frequency two, sample caps 12 and 16, length at most 7; shards of three ids,
  sequences of two targets, a prefix of seven ids, a capacity of 14. Documents lie across
  shards, the prefix cuts a document, both caps bite, a chain has four members, and capacity
  is exceeded. 424,417 states.
* `qualification`: two processes, three runs, three stops: an interrupted recovery of an
  interrupted attempt, and another attempt after it.
* `amendment`: two processes, two runs, one stop, two approvals, one finalizer; 426,198
  states. The second run is what moves the branch on while a publication is open.
* `audited_process`: four processes (a root, a 32-bit child that may survive, a native tool, a
  console host the debugger never hears of), one module, two slices of each deadline; one
  process number is used twice. 493,275 states.
* `execution`: two versions of each thing, at most two changes (three of the tracked files),
  three process events over two polls, four process numbers, eleven hosts, three pairs of
  locks, twelve targets; 179,906 states. Two changes are what it takes to change something
  and change it back. `AncestryLimit`, 64 in the code, is 5, one more than the process
  numbers. The proofs take any number of changes, processes and polls.

### Deadlock

`CHECK_DEADLOCK FALSE` is set where the system really stops: a source or pipeline that was
dropped, finished runs, commands that have ended. The trainer is checked for deadlock.

### Fairness

* `FinalRun` (`FairRunSpec`), weak: a running process takes its next step, and the operator
  relaunches the full run after a failure. Failures and crashes get none.
* `BatchSource` (`SourceSpec`), weak: a method under way runs on, on the caller's own thread.
  Nothing is assumed of `Cancel`, of drops or of a next request.
* `Acquisition`, weak, per process: both transfer timeouts are required to be positive, so an
  exchange always ends somehow.
* `Qualification`, `Amendment` (`RecoverySpec`): a command that was started runs on; the owner
  repeats it while something is open, and commits what it reports. Strong fairness for
  starting a command of the amendment, since another one can be in its way again and again.
* `AuditedProcess`: the auditor runs on, and time passes in its waits (strong, since events
  interrupt them again and again). The audited processes get none.
* `Execution`, weak: each command has a deadline, and a later invocation takes up an attempt
  that was left. Nothing is assumed of the environment.

## Findings

Two runs show a disagreement between the code and its documents; `PROJECT.json` quotes
the lines.

1. One partial directory left by a crash stops retention for good (`train/checkpoint.rs:705`).
2. A process killed between moving the attempt journal out of the stage and removing the
   stage leaves what recovery takes for two attempts; every later invocation refuses
   (`xtask/p1a.rs:7063`).

Other facts that came up while modelling. Most are visible as the exceptions in a
property's statement.

* **Trainer.** After a refused first contribution of an update the backend's generators are
  ahead of the cursor, and a snapshot is still accepted (`train/trainer.rs:839`); likewise
  after a mutation that `evaluate_now` reports and cannot undo (988). The callers in this
  repository drop the trainer; `CallerRespectsErrors` of the proofs says so.
* **Final run.** A diagnostic resumed from an older generation can prune the checkpoint
  it reports (`train/final_run.rs:369`); `relaunched_run` has it resume the newest one.
* **Device transfers.** When the context cannot be pushed during the synchronisation of a CUDA
  cleanup, the memory is freed all the same, and a second failing push lets the
  last pop remove the caller's context. The ROCm cleanup does nothing when the
  device cannot be bound. It is tried again for tickets that were submitted or cancelled,
  not for one whose wait failed, and not for batches.
* **Acquisition.** An asset named `manifest.json` is overwritten by the generation's manifest
  (`acquire.rs:684`). Rows of a shard that is replaced between digest and reopening are bound
  only by the identity of their content. The tail generation of `stack.rs` is not held to
  `maximum_total_bytes`. When the sync of the parent fails after the rename, the command
  reports an error although the tree is published. The comment at `materialize.rs:157` says
  that entries `curate` would abort on are left out, but a `.py` path whose origin URL has a
  space, a `?` or a letter outside ASCII is listed, and `curate` aborts on it. Upper-case blob
  identities match no partition.
* **P1A publication.** A published run is validated only after it is published, and by every
  later admission: one its own rules refuse blocks the phase. `RefusedOnlyFor` lists the
  five causes.
* **P1A execution.** Recovery closes an attempt only under the same source and with an empty
  recorder: a commit or an edit blocks it until undone, and a branch that contains
  the user's name for ever. What is changed and changed back between two
  comparisons (headers, registry cache, probe sources, the compilers cargo starts) goes
  unnoticed, and the manifest is not compared with the commit's blobs, so three edits of
  a tracked file can give a PASS whose manifest is not the commit's. `PassMeansExecuted`
  states both limits. Git is bound by its path class only. A launcher that ended before it was
  approved lets through whoever has its process number; inaccessible processes are only counted.
* **Audited process.** A timeout before the initial breakpoint is reported as
  `P1A_DEBUG_INITIAL_BREAKPOINT_MISSING`. The survivors it terminates (753) are judged by a
  list of process numbers taken before the last wait of the drain: a child that a surviving
  `vctip.exe` starts in that wait is terminated before its first instruction, whatever
  program it is, and the result still says that only qualified tools were cleaned up, which
  is less than the comment at `xtask/p1b.rs:1042` says of the flag. `VerdictIsJustified`
  therefore speaks of the processes that had begun to execute. After a refusal the process is continued until the guard ends the Job;
  `exit_races` is never incremented.
* **P0A amendment.** Interrupting `remove_dir_all` (702) leaves a container no later `prepare`
  can read, and a torn `evidence.json` temporary after a rollback keeps the repository dirty.
  A second `prepare` closes an attempt that is still alive (545, 623). When it has also taken
  the stage away between the first one's look for the final name and its rename (1043), the
  first one reports `AWAITING_REVIEW` for a run that was published as FAIL. The model does not
  separate that look from the rename and takes the exit for any run another process published.
  The liveness property excludes the first two.

## Proofs

Assumed are the constants' types and what the code pins: `PlanAssumption` (what
`CanonicalTrainingPlan::validate` pins, and that the interval divides the total),
`TrainerAssumption`, `StoreAssumption`, `FinalRunAssumption`, `PipelineAssumption`,
`BatchSourceAssumption`, `AcquisitionAssumption` (rows, files and configurations have the
fields the closed parsers demand, identities are comparable, no content is empty, a generation
holds at least one document, the tree that is walked is finite), `QualificationAssumption`,
`ExecutionAssumption` (the first three
process numbers exist, a package is plain, a provider or Python, and the artifacts of a target
are of their format: an archive is nothing but its members, only objects and images define
or import), `AuditedProcessAssumption`, `AmendmentRunsAssumption`, `AmendmentAssumption`. The
number of processes, updates, targets, anchors, spans, transfers, runs, commands, polls,
approvals, changes and faults is arbitrary. Some theorems
have hypotheses of their own, which their statements name:

* `CallerRespectsErrors` (trainer): the caller carries on at most after the four fenced
  failures (`FencedFaults`).
* `Procs = {p}` (`SolePruneIsExact`, `RelaunchesPruneExactly`, `ReportsAreDurable`): one
  process on the root at a time, which relaunches and crashes as it likes. With two, a prune
  is not exact: each works on its own listing.
* `ResumeNewest` (`ReportsAreDurable`): the diagnostic resumes the newest generation. See
  the facts above for what happens otherwise.

The arguments, and what makes each property inductive:

* **Plan** (`TrainerProofs`, first part; `FinalRunProofs` repeats the lemmas about the cursor
  that it needs, because the two components' states have the same names). `ScheduleFormulationsAgree`: an update crosses a boundary
  exactly if its end is the first update end at or after some threshold. The lemmas characterise
  division and the monotone cursor (`ConsumedMonotone`). It lets the trainer's invariant say
  that the evaluations it records are those that validation will ask for.
* **Trainer** (`TrainerProofs`): `TrainerTypeCorrect`, `EverySnapshotIsExact`,
  `WeightsStayWithCursor`, `ScheduleStaysComplete`, `TrainerImplementsCanonicalRun`. It
  must be known what a live trainer holds in the middle of an update and after each failure.
  The strengthening says that a live trainer is *clean* (weights, RNG, chain, gradient and
  evaluations are those of the cursor, in the middle of an update too) or *fenced*: an update
  is full and stuck, its sum is nonfinite, or an evaluation is missing, each of which
  `snapshot()` refuses and no later call repairs.
* **Checkpoint directory** (`FinalRunProofs`, first half): `StoreTypeCorrect`,
  `StoreKeepsRetained`, `StoreNeverGoesBack`, `SolePruneIsExact`. A process's listing was
  installed at some time, its doomed generations are not retained in the set of everything ever
  installed, and damaged or empty directories are not retained either. The argument is a
  monotonicity of the policy: a generation that is not retained in a set is not retained in a
  larger one, proved as lemmas about `LatestTwo` and `FirstAtAnchors`.
* **Final run** (`FinalRunProofs`, second half): every step of a launch is a step of the directory or a
  stutter (`LaunchesRunOnTheStore`), so the theorems above hold of launches
  (`LaunchesKeepRetained`, `LaunchesNeverGoBack`). `TrainingCompletesOnce` rests on the rename
  that never replaces: the launch that installed the final generation is the only one
  that can go on to report it. `ReportsAreDurable` needs in addition that a sole process
  which resumes the newest generation is ahead of all that was ever installed, so that what
  it has just published is retained.
* **Span pipeline and batch source** (`StreamProofs`): `PipelineImplementsStream`,
  `CancellationIsHeard`, `WindowsNeverSkipOrRepeat`, `SourceReadsThePipeline`. The invariant
  lays the stream out in order over what was delivered, is in flight, is buffered and is not
  read yet; for the source, over what was returned and what a window under way has taken.
  `DeviceIsAccounted` adds the ledger of the device adapters: each operator of
  `DeviceTransfer` gives back what it took or counts it as lost, by one lemma for each, and
  the ledger is then the sum over the tickets in flight and the batches alive.
* **Acquisition** (`AcquisitionProofs`): `AcquisitionHolds` (the inductive invariant),
  `TreesAreAsPinned`, `PublicationIsFinal`. For every place of a command the invariant
  (`Sound`) says what it has gathered: after the first shards, exactly the eligible rows of
  those shards with an identifier that was not seen before, unless an input was replaced; from
  the first generation on, that what was written and what is still held add up to it, in full
  generations; that the files of the partial tree are those of the entries written so
  far; and once the manifests are there, what is to be published (`ListedAsPinned`,
  `FilesAsListed`). Two commands never share a partial directory while both run, because
  its name holds the process id. The bulk of the module is about data: flattening and
  cutting a list into generations, sums of bytes over a list, the stable sort, first
  occurrences, and files written one by one, each by induction over a set of naturals.
* **P1A publication** (`QualificationProofs`): `PublicationHolds` (the inductive invariant),
  `PointerLagIsTold`, `ClosedIsOneCommitAway`, `PublicationImplementsLog`. The invariant
  says, for every place a command can be killed at, what stage, journal, marker, temporaries,
  acceptances and pointer can look like, and that all is committed but the
  files of at most one run, the journal's while there is one.
* **P1A execution** (`ExecutionProofs`): `RunFollowsPlan`, `QualifiedWasExecuted`,
  `RefusedOnlyForThese`, `HostWasQuiet`. `Stage` numbers the 35 places a run that has not
  failed can be at (`clean` and `manifest` come twice), `Types /\ Progress` says that the
  commands recorded are those of the plan up to there, and every action is one of a few
  kinds (`StepsTaken`), so that each part of the invariant is kept by a few cases:
  - `Claims`: each comparison that was passed holds of what was recorded;
  - `Records`, `Uses`: from the stage a thing goes on record (`Opened`) to the one that
    compares it again (`Closed`), a version that was used and is not the one on record costs
    one change, and two once the thing is back; an audited image is bound in its command;
  - `Manifests`: the manifest is compared twice with a checkout that is clean twice, so that
    a part that is not the commit's costs three changes;
  - `Audits`, `Timed`, `Admitted`, `Transcribed`, `Shown`: what validation asks of audits,
    times, the commit, transcripts and images holds of a prefix of the plan, unless one
    of the five causes has occurred; a FAIL is validated on its prefix, a PASS on all of it;
  - `WindowInv`: who was listed before the window is in the first snapshot, or started after
    it and its whole load is counted.
  The scan is taken apart by depth: an archive that is accepted has at most three levels and
  whatever is inside is `Harmless`, so `Clean` says so of everything in reach.
* **Audited process** (`AuditedProcessProofs`): `AuditHolds` (the inductive invariant),
  `RunLeavesNothing`, `EvidenceCoversTheTree`, `FlagsSayWhatWasDone`. The drop guard covers
  what was started at every place an error can leave from; what was sampled is followed until it
  is gone; and a process that executes is on the last list of the Job, so that only one whose
  creation is still to be served can be missing from it.
* **P0A amendment** (`AmendmentProofs`): `AmendmentHolds` (the inductive invariant),
  `AttemptsCloseOnce`, `HistoryOnlyGrows`, `OnePublicationIsOpen`, `BoxesVerify`. For prepare:
  nothing on disk or in anybody's list bears a run identity before its maker has made its
  container, a fail container is made once, and who is about to publish or remove has seen what
  it relies on. For finalize: acceptance, approval commit and HEAD stand in the relation
  its place tells, from the binding of the pair until what is reported is committed. Any number
  of invocations of prepare may recover each other's attempts: that they do not overlap
  after the first approval (`MayPrepare`) bounds the run, and no proof uses it.

Only model-checked:

* Liveness: `EventuallyDurable`, `RequestReturns`, `EveryCommandEnds`, `InterruptedIsClosed`,
  `InterruptedIsFinished`, `RunReturns`, `EveryAttemptIsClosed`. Fairness and ENABLED are
  out of the prover's reach.
* `ByteBpe`, `Curation`, `CorpusPolicy`, `TokenStore`, `DataPreparation`: what they promise is
  the result of a recursion over data that runs over many actions, or of a recursive operator,
  which the prover cannot unfold. What is available, and used for the cursor and for the lists
  of `Acquisition`, is the least counterexample in a set of naturals; these components are
  not carried through it.
* The two findings, which are violated.

## Plan

Done: the training core, the data path down to the driver calls, acquisition and data
preparation, and the publication, execution, process audit and amendment of `xtask`; the
proofs of the training core, of the data path, of acquisition, and of those four parts of
`xtask`.

1. Proofs: `CorpusPolicy` (`SplitsKeptApart`) and `TokenStore` (`CorpusReadsBack`), over the
   lemmas on lists of `AcquisitionProofs`.
2. Power loss: operations durable only once synchronised (outside Windows nothing
   synchronises the parent after the rename of a checkpoint, `checkpoint.rs:656`), for `CheckpointStore`,
   `OutputTree` and the data generations (`data/publication.rs`, `xtask/publication.rs`).
   The checkpoint directory orders a publication before the prunes of the same process,
   not before those of another.
3. Two concurrent finalizers of the amendment, and unsynchronised `.staging` on a disk that
   loses operations.
4. The later gates (`xtask/p1b.rs`, `p2.rs`, `p0.rs`, `quality_gate.rs`): mostly checks of
   committed files, with an evidence chain of the form `AcceptanceLog` states.
5. The restart trial of `train/stability.rs`.

## Not modelled

* Floating-point arithmetic, kernels, the model, and the numeric policies on top: no
  finite abstraction says anything about them.
* The completion SLA clock: it compares two readings of a wall clock when a launch
  ends, and changes nothing of the run.
* Profiling, quality evaluation, stability, benchmark, scale-up: measurements and their
  reports.
* Policy, licence, sensitive-data and parser verdicts: functions from a text to a verdict, taken
  as constants by `Curation`.
* Closed validation of single JSON documents, COFF, PE and ZIP byte formats, hashing: the models
  keep what the rules above them tell apart.
* The reading of CPU features, power schemes and registry values into records; loading of
  driver libraries.
* Command lines, configuration, errors: dispatch and parsing without state.
* Experiments and scripts: around the program, not part of it.
