---------------------------- MODULE BatchSource ----------------------------
(***************************************************************************)
(* CorpusBatchSource (src/train/launch.rs): the span pipeline presented as *)
(* exact windows [first, first + n) of the target stream.  Spans are never *)
(* split; a window that is not a whole number of spans is an error.  The   *)
(* caller asks for any window, moves ahead to a resume cursor, and may go  *)
(* on asking after an error, which has cost it the spans pulled so far.    *)
(* It reads through HostStagedTransfer; a pipeline over a device adapter   *)
(* has a reader that asks it for batches itself.                           *)
(***************************************************************************)
EXTENDS SpanPipeline

CONSTANT SpanTargets        \* valid_targets of every span

ASSUME BatchSourceAssumption == SpanTargets \in [0 .. Spans - 1 -> Nat \ {0}]

VARIABLES
    nextFirst,          \* next_first_target
    job,                \* the method under way
    goal,               \* where it is to end
    taken, accumulated, \* next_batch: its spans and their targets
    waiting,            \* is it in next_device_batch?
    served              \* history: spans batched or skipped, in order

sourceVars == <<nextFirst, job, goal, taken, accumulated, waiting, served>>
allVars == <<pipelineVars, sourceVars>>

(* first_id: SpanLoader::new holds every entry to the sum of the sizes     *)
(* before it.                                                              *)
FirstId[i \in 0 .. Spans] ==
    IF i = 0 THEN 0 ELSE FirstId[i - 1] + SpanTargets[i - 1]

Init ==
    /\ PipelineInit
    /\ nextFirst = 0
    /\ job = "none" /\ goal = 0 /\ taken = <<>> /\ accumulated = 0 /\ waiting = FALSE
    /\ served = <<>>

(* Where the method stands: in next_batch, behind the spans taken so far.  *)
Reached == nextFirst + accumulated

(* The method returns; its locals are gone. *)
MethodReturns ==
    /\ job' = "none" /\ goal' = 0 /\ taken' = <<>> /\ accumulated' = 0
    /\ waiting' = FALSE

(* The method returns an error; the spans it pulled are gone.              *)
GiveUp ==
    /\ MethodReturns
    /\ UNCHANGED <<nextFirst, served>>
-----------------------------------------------------------------------------
(* next_batch(first_target, valid_targets) and fast_forward_to(target).  A  *)
(* window that does not begin at the cursor is refused, and a target behind *)
(* the cursor is reached: neither touches the stream.                      *)
NextBatch(first, n) ==
    /\ job = "none" /\ ~dropped
    /\ first = nextFirst
    /\ job' = "batch"
    /\ goal' = first + n
    /\ UNCHANGED <<pipelineVars, nextFirst, taken, accumulated, waiting, served>>

FastForwardTo(target) ==
    /\ job = "none" /\ ~dropped
    /\ nextFirst < target
    /\ job' = "skip"
    /\ goal' = target
    /\ UNCHANGED <<pipelineVars, nextFirst, taken, accumulated, waiting, served>>

(* pull_span. *)
PullSpan ==
    /\ job # "none" /\ ~waiting
    /\ Reached < goal
    /\ waiting' = TRUE
    /\ NextDeviceBatch \/ RepeatError
    /\ UNCHANGED <<nextFirst, job, goal, taken, accumulated, served>>

Pulled == waiting /\ call = "idle" /\ answer = "batch"
Span == delivered[Len(delivered)]

(* The pipeline failed, or the stream ended too early.                     *)
PullFails ==
    /\ waiting /\ call = "idle"
    /\ answer \in {"error", "end"}
    /\ GiveUp
    /\ UNCHANGED pipelineVars

Contiguous == FirstId[Span] = Reached

TakeSpan ==
    /\ job = "batch" /\ Pulled
    /\ Contiguous
    /\ taken' = Append(taken, Span)
    /\ accumulated' = accumulated + SpanTargets[Span]
    /\ waiting' = FALSE
    /\ UNCHANGED <<pipelineVars, nextFirst, job, goal, served>>

SkipSpan ==
    /\ job = "skip" /\ Pulled
    /\ Contiguous
    /\ nextFirst + SpanTargets[Span] <= goal
    /\ nextFirst' = nextFirst + SpanTargets[Span]
    /\ served' = Append(served, Span)
    /\ waiting' = FALSE
    /\ UNCHANGED <<pipelineVars, job, goal, taken, accumulated>>

(* The span is not the next one, or a skipped one would pass the target.   *)
SpanRefused ==
    /\ Pulled
    /\ \/ ~Contiguous
       \/ job = "skip" /\ nextFirst + SpanTargets[Span] > goal
    /\ GiveUp
    /\ UNCHANGED pipelineVars

(* Mutant of ReturnBatch: the window need not end where the spans do.       *)
ReturnBatch_Overlong ==
    /\ job = "batch" /\ ~waiting
    /\ Reached >= goal
    /\ nextFirst' = goal
    /\ served' = served \o taken
    /\ MethodReturns
    /\ UNCHANGED pipelineVars

ReturnBatch ==
    /\ job = "batch" /\ ~waiting
    /\ Reached = goal
    /\ nextFirst' = goal
    /\ served' = served \o taken
    /\ MethodReturns
    /\ UNCHANGED pipelineVars

(* The window ends inside a span. *)
NotSpanAligned ==
    /\ job = "batch" /\ ~waiting
    /\ Reached > goal
    /\ GiveUp
    /\ UNCHANGED pipelineVars

EndSkip ==
    /\ job = "skip" /\ ~waiting
    /\ nextFirst = goal
    /\ MethodReturns
    /\ UNCHANGED <<pipelineVars, nextFirst, served>>

(* What happens between the calls of the caller. *)
SourceStep ==
    \/ PullSpan \/ PullFails \/ TakeSpan \/ SkipSpan \/ SpanRefused
    \/ ReturnBatch \/ NotSpanAligned \/ EndSkip
    \/ PipelineStep /\ UNCHANGED sourceVars

Requests ==
    /\ adapter = "staged"
    /\ \E first \in 0 .. FirstId[Spans] :
          \/ \E n \in 1 .. FirstId[Spans] : NextBatch(first, n)
          \/ FastForwardTo(first)

SourceNext ==
    \/ Requests
    \/ adapter # "staged" /\ (NextDeviceBatch \/ RepeatError) /\ UNCHANGED sourceVars
    \/ SourceStep
    \/ DropBatch /\ UNCHANGED sourceVars
    \/ Cancel /\ UNCHANGED sourceVars
    \/ job = "none" /\ DropPipeline /\ UNCHANGED sourceVars

(* A method under way runs on. *)
SourceSpec == Init /\ [][SourceNext]_allVars /\ WF_allVars(SourceStep)
-----------------------------------------------------------------------------
(* The cursor and the spans given out agree after any sequence of requests, *)
(* errors, cancellations and retries: the windows returned and the spans    *)
(* skipped are the stream from its beginning, each span once, and the       *)
(* cursor is where the last of them ends.  A span lost in a failed request  *)
(* is never stepped over.                                                   *)
WindowsFollowStream ==
    /\ served = [i \in 1 .. Len(served) |-> i - 1]
    /\ nextFirst = FirstId[Len(served)]

(* Every request returns, with its window or an error, whatever the loader  *)
(* and the transfer do: fill never spins on a loader that has no more to    *)
(* say, and the loop over the spans never waits for one that cannot come.   *)
RequestReturns == job # "none" ~> job = "none"
=============================================================================
