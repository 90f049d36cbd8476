---------------------------- MODULE SpanPipeline ----------------------------
(***************************************************************************)
(* Loading of training spans (src/train.rs): SpanLoader reads ahead into a *)
(* bounded buffer, TransferPipeline keeps a bounded number of transfers in *)
(* flight, and any holder of the LoaderCancellation may cancel at any      *)
(* moment.  The transfer is one of the device adapters (DeviceTransfer) or *)
(* the counting one of src/train/launch.rs (HostStagedTransfer;            *)
(* unified_transfer.rs counts the same way).                               *)
(*                                                                         *)
(* A span is its sequence number.  SpanLoader::new has accepted the index, *)
(* so entry i is span i.  One call of next_device_batch is a sequence of   *)
(* steps, cut where the cancellation flag is read.                         *)
(***************************************************************************)
EXTENDS DeviceTransfer

CONSTANTS
    Spans,              \* number of entries of the split
    Capacity,           \* of the loader's buffer
    MaximumInFlight,    \* of the pipeline
    Adapters            \* the transfers it is built with

ASSUME PipelineAssumption ==
    /\ Spans \in Nat
    /\ Capacity \in Nat \ {0}
    /\ MaximumInFlight \in Nat \ {0}
    /\ Adapters \subseteq {"staged", "cuda", "rocm"}

VARIABLES
    cancelled,          \* LoaderCancellation
    nextEntry, buffer, loaderTerminal,              \* SpanLoader
    inFlight, exhausted, terminalError, dropped,    \* TransferPipeline
    adapter,                                        \* its transfer
    submitted, retired,     \* HostStagedTransfer; else history
    driver,             \* the ledger of a device adapter
    batches,            \* device batches the reader has not dropped
    call,               \* where the reader's call is
    late,               \* history: had this call no more to expect?
    delivered, answer   \* what the reader got, and was told last

loader == <<nextEntry, buffer, loaderTerminal>>
counts == <<submitted, retired>>
device == <<adapter, driver, batches>>
told == <<delivered, answer>>
pipelineVars == <<cancelled, loader, inFlight, exhausted, terminalError, dropped,
                  counts, device, call, late, told>>

PipelineInit ==
    /\ cancelled = FALSE
    /\ nextEntry = 0 /\ buffer = <<>> /\ loaderTerminal = FALSE
    /\ inFlight = <<>> /\ exhausted = FALSE
    /\ terminalError = FALSE /\ dropped = FALSE
    /\ submitted = 0 /\ retired = 0
    /\ call = "idle"
    /\ adapter \in Adapters /\ driver = NewLedger /\ batches = 0
    /\ late = FALSE
    /\ delivered = <<>> /\ answer = "none"

(* cancel_pending: the tickets go in order, each moving retired past it.   *)
CancelPending(pending, ledger) ==
    /\ inFlight' = <<>>
    /\ driver' \in CancelTickets(adapter, ledger, pending)
    /\ UNCHANGED <<adapter, batches>>
    /\ retired' = IF pending = <<>> THEN retired ELSE pending[Len(pending)].order + 1

(* Mutant of Fail: terminal_error is not recorded.                          *)
Fail_Forgets(pending, ledger) ==
    /\ CancelPending(pending, ledger)
    /\ call' = "idle"
    /\ answer' = "error"
    /\ UNCHANGED <<cancelled, exhausted, terminalError, dropped, submitted, late, delivered>>

(* The call returns an error, and so will every later one.                 *)
Fail(pending, ledger) ==
    /\ CancelPending(pending, ledger)
    /\ terminalError' = TRUE
    /\ call' = "idle"
    /\ answer' = "error"
    /\ UNCHANGED <<cancelled, exhausted, dropped, submitted, late, delivered>>
-----------------------------------------------------------------------------
Cancel ==
    /\ ~cancelled
    /\ cancelled' = TRUE
    /\ UNCHANGED <<loader, inFlight, exhausted, terminalError, dropped, counts, device,
                   call, late, told>>

(* next_device_batch. *)
NextDeviceBatch ==
    /\ call = "idle" /\ ~dropped
    /\ ~terminalError
    /\ call' = "filling"
    /\ late' = (cancelled /\ ~exhausted)
    /\ UNCHANGED <<cancelled, loader, inFlight, exhausted, terminalError, dropped,
                   counts, device, told>>

RepeatError ==
    /\ call = "idle" /\ ~dropped
    /\ terminalError
    /\ answer' = "error"
    /\ UNCHANGED <<cancelled, loader, inFlight, exhausted, terminalError, dropped,
                   counts, device, call, late, delivered>>

(* The loop of TransferPipeline::fill goes on. *)
Filling == call = "filling" /\ Len(inFlight) < MaximumInFlight /\ ~exhausted

(* Mutant of AskLoader: SpanLoader::fill does not look at the flag first.   *)
AskLoader_Unchecked ==
    /\ Filling
    /\ ~loaderTerminal
    /\ call' = "loading"
    /\ UNCHANGED <<cancelled, loader, inFlight, exhausted, terminalError, dropped,
                   counts, device, late, told>>

AskLoader ==
    /\ Filling
    /\ ~loaderTerminal
    /\ ~cancelled
    /\ call' = "loading"
    /\ UNCHANGED <<cancelled, loader, inFlight, exhausted, terminalError, dropped,
                   counts, device, late, told>>

(* The loop of SpanLoader::fill goes on. *)
MoreToLoad == Len(buffer) < Capacity /\ nextEntry < Spans

LoadSpan ==
    /\ call = "loading"
    /\ MoreToLoad
    /\ ~cancelled
    /\ buffer' = Append(buffer, nextEntry)
    /\ nextEntry' = nextEntry + 1
    /\ UNCHANGED <<cancelled, loaderTerminal, inFlight, exhausted, terminalError,
                   dropped, counts, device, call, late, told>>

LoaderFails ==
    /\ buffer' = <<>>
    /\ loaderTerminal' = TRUE
    /\ UNCHANGED nextEntry
    /\ Fail(inFlight, driver)

(* require_active, at the start of fill and before every read.             *)
LoadCancelled ==
    /\ cancelled
    /\ \/ Filling /\ ~loaderTerminal
       \/ call = "loading" /\ MoreToLoad
    /\ LoaderFails

(* A read fails, or the span has another length than its entry.            *)
LoadFails ==
    /\ call = "loading"
    /\ MoreToLoad
    /\ ~cancelled
    /\ LoaderFails

(* next_span returns the front of the buffer, and it is submitted.         *)
Submit ==
    /\ call = "loading" /\ ~MoreToLoad
    /\ buffer # <<>>
    /\ inFlight' = Append(inFlight, [order |-> submitted, span |-> Head(buffer)])
    /\ submitted' = submitted + 1
    /\ \E submit \in SubmitTo(adapter, driver) : submit.ok /\ driver' = submit.ledger
    /\ buffer' = Tail(buffer)
    /\ call' = "filling"
    /\ UNCHANGED <<cancelled, nextEntry, loaderTerminal, exhausted, terminalError,
                   dropped, retired, adapter, batches, late, told>>

SubmitFails ==
    /\ call = "loading" /\ ~MoreToLoad
    /\ buffer # <<>>
    /\ buffer' = Tail(buffer)
    /\ UNCHANGED <<nextEntry, loaderTerminal>>
    /\ \E submit \in SubmitTo(adapter, driver) : ~submit.ok /\ Fail(inFlight, submit.ledger)

(* Nothing is left in the loader, or it is terminal already: Ok(None).     *)
LoaderIsEmpty ==
    IF loaderTerminal THEN Filling
    ELSE call = "loading" /\ ~MoreToLoad /\ buffer = <<>>

(* Mutant of StreamEnds: the pipeline does not note that the source is      *)
(* exhausted.                                                               *)
StreamEnds_Unnoted ==
    /\ LoaderIsEmpty
    /\ loaderTerminal' = TRUE
    /\ call' = "filling"
    /\ UNCHANGED <<cancelled, nextEntry, buffer, inFlight, exhausted, terminalError,
                   dropped, counts, device, late, told>>

StreamEnds ==
    /\ LoaderIsEmpty
    /\ loaderTerminal' = TRUE
    /\ exhausted' = TRUE
    /\ call' = "filling"
    /\ UNCHANGED <<cancelled, nextEntry, buffer, inFlight, terminalError, dropped,
                   counts, device, late, told>>

Retiring == call = "filling" /\ ~Filling /\ inFlight # <<>>

(* Only the counting adapter looks at the order.                           *)
InTurn == adapter = "staged" => Head(inFlight).order = retired

(* The oldest ticket is waited for, and its span handed over.              *)
Retire ==
    /\ Retiring
    /\ InTurn
    /\ \E wait \in WaitFor(adapter, driver) : wait.ok /\ driver' = wait.ledger
    /\ batches' = IF adapter = "staged" THEN batches ELSE batches + 1
    /\ delivered' = Append(delivered, Head(inFlight).span)
    /\ inFlight' = Tail(inFlight)
    /\ retired' = retired + 1
    /\ answer' = "batch"
    /\ call' = "idle"
    /\ UNCHANGED <<cancelled, loader, exhausted, terminalError, dropped, submitted,
                   adapter, late>>

(* The wait fails, as it must for a ticket out of order.  Its ticket is    *)
(* dropped, the others are cancelled.                                      *)
RetireFails ==
    /\ Retiring
    /\ \E wait \in WaitFor(adapter, driver) :
          /\ ~(InTurn /\ wait.ok)
          /\ Fail(Tail(inFlight), wait.ledger)
    /\ UNCHANGED loader

ReportEnd ==
    /\ call = "filling" /\ ~Filling
    /\ inFlight = <<>>
    /\ answer' = "end"
    /\ call' = "idle"
    /\ UNCHANGED <<cancelled, loader, inFlight, exhausted, terminalError, dropped,
                   counts, device, late, delivered>>

(* Drop for TransferPipeline. *)
DropPipeline ==
    /\ call = "idle" /\ ~dropped
    /\ dropped' = TRUE
    /\ CancelPending(inFlight, driver)
    /\ UNCHANGED <<cancelled, loader, exhausted, terminalError, submitted, call, late, told>>

(* The reader drops a device batch, at any time. *)
DropBatch ==
    /\ batches > 0
    /\ driver' \in DropBatchOf(adapter, driver)
    /\ batches' = batches - 1
    /\ UNCHANGED <<cancelled, loader, inFlight, exhausted, terminalError, dropped,
                   counts, adapter, call, late, told>>

(* What happens between the calls of the reader. *)
PipelineStep ==
    \/ AskLoader
    \/ LoadSpan \/ LoadCancelled \/ LoadFails
    \/ Submit \/ SubmitFails
    \/ StreamEnds
    \/ Retire \/ RetireFails
    \/ ReportEnd

Next == Cancel \/ NextDeviceBatch \/ RepeatError \/ PipelineStep \/ DropPipeline \/ DropBatch

Spec == PipelineInit /\ [][Next]_pipelineVars
-----------------------------------------------------------------------------
(* Every variable holds a value of its kind, and neither the host buffer    *)
(* nor the transfers in flight outgrow their capacity.                      *)
PipelineTypeOK ==
    /\ {cancelled, loaderTerminal, exhausted, terminalError, dropped, late} \subseteq BOOLEAN
    /\ nextEntry \in 0 .. Spans
    /\ buffer \in Seq(0 .. Spans - 1) /\ Len(buffer) <= Capacity
    /\ inFlight \in Seq([order : Nat, span : 0 .. Spans - 1])
    /\ Len(inFlight) <= MaximumInFlight
    /\ submitted \in Nat /\ retired \in Nat
    /\ call \in {"idle", "filling", "loading"}
    /\ adapter \in Adapters /\ driver \in Ledgers /\ batches \in Nat
    /\ delivered \in Seq(0 .. Spans - 1)
    /\ answer \in {"none", "batch", "end", "error"}

(* The reader gets the spans in order, hears the end only after the last    *)
(* one, although a loader that failed or was cancelled answers Ok(None),    *)
(* too, and hears the same error ever after.                                *)
Stream == INSTANCE OrderedStream WITH Length <- Spans
ImplementsOrderedStream == Stream!Spec

(* The types hold and the queues keep their bounds.  Tickets retire in the  *)
(* order of submission, so that the wait never refuses the oldest one.      *)
(* Whichever driver calls fail: contexts, memory and streams are held for   *)
(* exactly the tickets in flight and the batches alive, for no ticket after *)
(* an error or a drop, unless freeing them failed or their context or       *)
(* device could not be made current (hipSetDevice alone failing costs only  *)
(* a batch its memory: a ticket needs a second failure); memory is freed    *)
(* under a running copy only after a synchronisation that did not take      *)
(* place; and the caller's context is current again.                        *)
TicketsAccounted ==
    /\ PipelineTypeOK
    /\ Contained(adapter, Len(inFlight), batches, driver)
    /\ IF terminalError \/ dropped THEN inFlight = <<>>
       ELSE /\ retired + Len(inFlight) = submitted
            /\ \A i \in 1 .. Len(inFlight) : inFlight[i].order = retired + i - 1

(* A call that begins after the cancellation, before the source is known to *)
(* be exhausted, hands over nothing, whatever is loaded or in flight.       *)
NothingAfterCancel == late /\ call = "idle" => answer = "error"
=============================================================================
