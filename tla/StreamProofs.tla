---------------------------- MODULE StreamProofs ----------------------------
(***************************************************************************)
(* The training spans reach the reader in order, the windows that are cut  *)
(* from them follow the stream, and what the device adapters hold is       *)
(* accounted for: for every number of spans, capacity, depth of the        *)
(* pipeline and size of the spans, every transfer and every driver fault.  *)
(***************************************************************************)
EXTENDS BatchSource, WellFoundedInduction, SequenceTheorems, TLAPS

(* Sequences: what the provers need of them, in one place.                  *)
LEMMA Elements ==
    ASSUME NEW S, NEW s \in Seq(S)
    PROVE  /\ Len(s) \in Nat
           /\ \A i \in 1 .. Len(s) : s[i] \in S
           /\ s = <<>> <=> Len(s) = 0
BY EmptySeq, LenProperties

LEMMA Appended ==
    ASSUME NEW S, NEW s \in Seq(S), NEW e \in S
    PROVE  /\ Append(s, e) \in Seq(S)
           /\ Len(Append(s, e)) = Len(s) + 1
           /\ Append(s, e)[Len(s) + 1] = e
           /\ \A i \in 1 .. Len(s) : Append(s, e)[i] = s[i]
           /\ Append(s, e) # <<>>
BY AppendProperties

LEMMA Tailed ==
    ASSUME NEW S, NEW s \in Seq(S), s # <<>>
    PROVE  /\ Len(s) \in Nat /\ Len(s) >= 1
           /\ Head(s) = s[1] /\ Head(s) \in S
           /\ Tail(s) \in Seq(S)
           /\ Len(Tail(s)) = Len(s) - 1
           /\ \A i \in 1 .. Len(s) - 1 : Tail(s)[i] = s[i + 1]
<1>1. Len(s) \in Nat /\ Len(s) # 0
  BY EmptySeq, LenProperties
<1> QED BY <1>1, HeadTailProperties

-----------------------------------------------------------------------------
(* Orders and counts of what is between the loader and the reader.          *)

(* While the pipeline lives, what was delivered, what is in flight and what *)
(* is buffered are consecutive spans from the beginning of the index.       *)
Flow ==
    LET d == Len(delivered)
        f == Len(inFlight)
    IN  /\ \A i \in 1 .. f : inFlight[i].span = d + i - 1
        /\ \A i \in 1 .. Len(buffer) : buffer[i] = d + f + i - 1
        /\ d + f + Len(buffer) = nextEntry

Tickets ==
    /\ retired + Len(inFlight) = submitted
    /\ \A i \in 1 .. Len(inFlight) : inFlight[i].order = retired + i - 1

Alive == ~terminalError /\ ~dropped

Entry == 0 .. Spans - 1
Ticket == [order : Nat, span : Entry]

(* The types the stream depends on: those of PipelineTypeOK except for the  *)
(* ledger of the device.                                                    *)
StreamTypes ==
    /\ cancelled \in BOOLEAN /\ loaderTerminal \in BOOLEAN /\ exhausted \in BOOLEAN
    /\ terminalError \in BOOLEAN /\ dropped \in BOOLEAN /\ late \in BOOLEAN
    /\ nextEntry \in 0 .. Spans
    /\ buffer \in Seq(Entry) /\ Len(buffer) <= Capacity
    /\ inFlight \in Seq(Ticket)
    /\ Len(inFlight) <= MaximumInFlight
    /\ submitted \in Nat /\ retired \in Nat
    /\ call \in {"idle", "filling", "loading"}
    /\ delivered \in Seq(Entry)
    /\ answer \in {"none", "batch", "end", "error"}

StreamInv ==
    /\ StreamTypes
    /\ \A i \in 1 .. Len(delivered) : delivered[i] = i - 1
    /\ Alive => Flow /\ Tickets
    /\ ~Alive => inFlight = <<>> /\ call = "idle"
    /\ terminalError <=> answer = "error"
    /\ ~terminalError => (loaderTerminal <=> exhausted)
    /\ ~terminalError /\ exhausted => nextEntry = Spans /\ buffer = <<>>
    /\ call = "loading" => ~exhausted /\ Len(inFlight) < MaximumInFlight
    /\ call = "idle" => Len(inFlight) < MaximumInFlight
    /\ answer = "end" => /\ exhausted /\ inFlight = <<>>
                         /\ Len(delivered) = Spans
    /\ late => IF call = "idle" THEN answer = "error"
               ELSE call = "filling" /\ cancelled /\ ~exhausted /\ Len(inFlight) < MaximumInFlight
-----------------------------------------------------------------------------
LEMMA InitStream == PipelineInit => StreamInv
<1> SUFFICES ASSUME PipelineInit PROVE StreamInv
  OBVIOUS
<1>1. StreamTypes
  <2>1. <<>> \in Seq(Entry) /\ <<>> \in Seq(Ticket) /\ Len(<<>>) = 0
    BY EmptySeq
  <2>2. 0 \in 0 .. Spans /\ 0 <= Capacity /\ 0 <= MaximumInFlight
    BY PipelineAssumption
  <2> QED BY <2>1, <2>2 DEF PipelineInit, StreamTypes
<1>2. Flow /\ Tickets
  BY DEF PipelineInit, Flow, Tickets
<1> QED BY <1>1, <1>2, PipelineAssumption DEF PipelineInit, StreamInv, Alive

(* Steps that leave the loader, the tickets and what the reader has alone.  *)
streamVars == <<loader, inFlight, exhausted, terminalError, dropped, counts, told>>

LEMMA CancelStep ==
    ASSUME StreamInv, Cancel PROVE StreamInv'
BY DEF Cancel, StreamInv, StreamTypes, Flow, Tickets, Alive, loader, counts, told

LEMMA NextDeviceBatchStep ==
    ASSUME StreamInv, NextDeviceBatch PROVE StreamInv'
<1>1. UNCHANGED <<cancelled, streamVars>> /\ call' = "filling" /\ call = "idle" /\ Alive
      /\ late' = (cancelled /\ ~exhausted)
  BY DEF NextDeviceBatch, Alive, streamVars
<1>2. StreamTypes'
  BY <1>1 DEF StreamInv, StreamTypes, streamVars, loader, counts, told
<1>3. Flow' /\ Tickets' /\ Alive'
  BY <1>1 DEF StreamInv, Flow, Tickets, Alive, streamVars, loader, counts, told
<1> QED BY <1>1, <1>2, <1>3 DEF StreamInv, streamVars, loader, counts, told

LEMMA RepeatErrorStep ==
    ASSUME StreamInv, RepeatError PROVE StreamInv'
<1>1. answer = "error" /\ answer' = answer
  BY DEF StreamInv, RepeatError
<1> QED BY <1>1 DEF RepeatError, StreamInv, StreamTypes, Flow, Tickets, Alive, loader, counts

LEMMA DropBatchStep ==
    ASSUME StreamInv, DropBatch PROVE StreamInv'
BY DEF DropBatch, StreamInv, StreamTypes, Flow, Tickets, Alive, loader, counts, told

LEMMA AskLoaderStep ==
    ASSUME StreamInv, AskLoader PROVE StreamInv'
<1>1. UNCHANGED <<cancelled, streamVars, late>> /\ call' = "loading" /\ call = "filling"
      /\ ~exhausted /\ Len(inFlight) < MaximumInFlight /\ ~late
  BY DEF AskLoader, Filling, StreamInv, streamVars
<1>2. StreamTypes'
  BY <1>1 DEF StreamInv, StreamTypes, streamVars, loader, counts, told
<1>3. Flow' /\ Tickets' /\ Alive'
  BY <1>1 DEF StreamInv, Flow, Tickets, Alive, streamVars, loader, counts, told
<1> QED BY <1>1, <1>2, <1>3 DEF StreamInv, streamVars, loader, counts, told

(* The call is under way. *)
LEMMA Calling ==
    ASSUME StreamInv, call # "idle"
    PROVE  /\ Alive /\ Flow /\ Tickets /\ StreamTypes
           /\ ~terminalError /\ ~dropped /\ answer # "error"
           /\ late => call = "filling"
BY DEF StreamInv, Alive

LEMMA LoadSpanStep ==
    ASSUME StreamInv, LoadSpan PROVE StreamInv'
<1>0. /\ Alive /\ Flow /\ Tickets /\ StreamTypes /\ ~late /\ ~exhausted
      /\ nextEntry < Spans /\ Len(buffer) < Capacity
      /\ call' = "loading" /\ call = "loading"
      /\ buffer' = Append(buffer, nextEntry) /\ nextEntry' = nextEntry + 1
      /\ UNCHANGED <<cancelled, loaderTerminal, inFlight, exhausted, terminalError,
                     dropped, counts, late, told>>
  BY Calling DEF LoadSpan, MoreToLoad, StreamInv
<1>1. nextEntry \in 0 .. Spans - 1 /\ nextEntry' \in 0 .. Spans
  BY <1>0, PipelineAssumption DEF StreamTypes
<1>2. /\ buffer' \in Seq(Entry) /\ Len(buffer') = Len(buffer) + 1
      /\ buffer'[Len(buffer) + 1] = nextEntry
      /\ \A i \in 1 .. Len(buffer) : buffer'[i] = buffer[i]
  BY <1>0, <1>1, Appended DEF StreamTypes, Entry
<1>3. StreamTypes'
  BY <1>0, <1>1, <1>2, PipelineAssumption DEF StreamTypes, counts, told
<1>4. Flow'
  <2>1. Len(buffer) \in Nat /\ Len(inFlight) \in Nat /\ Len(delivered) \in Nat
    BY <1>0, Elements DEF StreamTypes
  <2>2. nextEntry = Len(delivered) + Len(inFlight) + Len(buffer)
    BY <1>0 DEF Flow
  <2>3. ASSUME NEW i \in 1 .. Len(buffer')
        PROVE  buffer'[i] = Len(delivered) + Len(inFlight) + i - 1
    <3>1. CASE i <= Len(buffer)
      BY <1>0, <1>2, <2>1, <3>1 DEF Flow
    <3>2. CASE i = Len(buffer) + 1
      BY <1>2, <2>1, <2>2, <3>2
    <3> QED BY <1>2, <2>1, <3>1, <3>2
  <2>4. nextEntry' = Len(delivered) + Len(inFlight) + Len(buffer')
    BY <1>0, <1>2, <2>1, <2>2
  <2>5. UNCHANGED <<delivered, inFlight>>
    BY <1>0 DEF told
  <2> QED BY <1>0, <2>3, <2>4, <2>5 DEF Flow
<1>5. Tickets' /\ Alive'
  BY <1>0 DEF Tickets, Alive, counts
<1> QED BY <1>0, <1>3, <1>4, <1>5 DEF StreamInv, counts, told

(* The call fails: nothing is left in flight, and no later call is made.    *)
LEMMA FailStep ==
    ASSUME StreamInv, NEW ledger, NEW pending \in Seq(Ticket),
           Fail(pending, ledger), call # "idle",
           answer # "end",
           nextEntry' = nextEntry, loaderTerminal' \in BOOLEAN,
           buffer' \in Seq(Entry), Len(buffer') <= Capacity
    PROVE  StreamInv'
<1>1. /\ inFlight' = <<>> /\ terminalError' = TRUE /\ call' = "idle" /\ answer' = "error"
      /\ UNCHANGED <<cancelled, exhausted, dropped, submitted, late, delivered>>
      /\ retired' = IF pending = <<>> THEN retired ELSE pending[Len(pending)].order + 1
  BY DEF Fail, CancelPending
<1>2. retired' \in Nat
  <2>1. pending # <<>> => pending[Len(pending)] \in Ticket
    BY Elements
  <2> QED BY <1>1, <2>1 DEF StreamInv, StreamTypes, Ticket
<1>3. StreamTypes'
  BY <1>1, <1>2, EmptySeq, PipelineAssumption DEF StreamInv, StreamTypes
<1> QED BY <1>1, <1>3, EmptySeq, PipelineAssumption DEF StreamInv, Alive

LEMMA LoaderFailsStep ==
    ASSUME StreamInv, LoadCancelled \/ LoadFails PROVE StreamInv'
<1>1. LoaderFails /\ ~exhausted /\ call # "idle"
  BY DEF LoadCancelled, LoadFails, Filling, StreamInv
<1>2. /\ Fail(inFlight, driver) /\ nextEntry' = nextEntry
      /\ loaderTerminal' = TRUE /\ buffer' = <<>>
  BY <1>1 DEF LoaderFails
<1>3. buffer' \in Seq(Entry) /\ Len(buffer') <= Capacity
  BY <1>2, EmptySeq, PipelineAssumption
<1>4. inFlight \in Seq(Ticket) /\ answer # "end"
  BY <1>1 DEF StreamInv, StreamTypes
<1> QED BY <1>1, <1>2, <1>3, <1>4, FailStep

LEMMA SubmitStep ==
    ASSUME StreamInv, Submit PROVE StreamInv'
<1>0. /\ Alive /\ Flow /\ Tickets /\ StreamTypes /\ ~late /\ ~exhausted
      /\ call' = "filling" /\ call = "loading" /\ buffer # <<>>
      /\ Len(inFlight) < MaximumInFlight
      /\ inFlight' = Append(inFlight, [order |-> submitted, span |-> Head(buffer)])
      /\ submitted' = submitted + 1
      /\ buffer' = Tail(buffer)
      /\ UNCHANGED <<cancelled, nextEntry, loaderTerminal, exhausted, terminalError,
                     dropped, retired, late, told>>
  BY Calling DEF Submit, StreamInv
<1> DEFINE ticket == [order |-> submitted, span |-> Head(buffer)]
<1>1. /\ ticket \in Ticket
      /\ ticket.span = buffer[1] /\ ticket.order = submitted
      /\ buffer' \in Seq(Entry) /\ Len(buffer') = Len(buffer) - 1
      /\ \A i \in 1 .. Len(buffer') : buffer'[i] = buffer[i + 1]
      /\ 1 \in 1 .. Len(buffer)
  BY <1>0, Tailed DEF StreamTypes, Ticket
<1> HIDE DEF ticket
<1>2. /\ inFlight' \in Seq(Ticket)
      /\ Len(inFlight') = Len(inFlight) + 1
      /\ inFlight'[Len(inFlight) + 1] = ticket
      /\ \A i \in 1 .. Len(inFlight) : inFlight'[i] = inFlight[i]
  <2>1. inFlight' = Append(inFlight, ticket)
    BY <1>0 DEF ticket
  <2> QED BY <1>0, <1>1, <2>1, Appended DEF StreamTypes
<1>3. StreamTypes'
  <2>1. Len(inFlight') <= MaximumInFlight /\ Len(buffer') <= Capacity
    BY <1>0, <1>1, <1>2, PipelineAssumption, Elements DEF StreamTypes
  <2> QED BY <1>0, <1>1, <1>2, <2>1 DEF StreamTypes, told
<1>4. Flow'
  <2>1. /\ Len(inFlight) \in Nat /\ Len(delivered) \in Nat /\ Len(buffer) \in Nat
        /\ UNCHANGED <<delivered, nextEntry>>
    BY <1>0, Elements DEF StreamTypes, told
  <2>2. ticket.span = Len(delivered) + Len(inFlight)
    BY <1>0, <1>1, <2>1 DEF Flow
  <2>3. ASSUME NEW i \in 1 .. Len(inFlight')
        PROVE  inFlight'[i].span = Len(delivered') + i - 1
    <3>1. CASE i \in 1 .. Len(inFlight)
      BY <1>0, <1>2, <2>1, <3>1 DEF Flow
    <3>2. CASE i = Len(inFlight) + 1
      BY <1>2, <2>1, <2>2, <3>2
    <3> QED BY <1>2, <2>1, <3>1, <3>2
  <2>4. /\ \A i \in 1 .. Len(buffer') :
               buffer'[i] = Len(delivered') + Len(inFlight') + i - 1
        /\ Len(delivered') + Len(inFlight') + Len(buffer') = nextEntry'
    BY <1>0, <1>1, <1>2, <2>1 DEF Flow
  <2> QED BY <2>3, <2>4 DEF Flow
<1>5. Tickets' /\ Alive'
  BY <1>0, <1>1, <1>2, Elements DEF StreamTypes, Tickets, Alive
<1> QED BY <1>0, <1>3, <1>4, <1>5 DEF StreamInv, told

LEMMA SubmitFailsStep ==
    ASSUME StreamInv, SubmitFails PROVE StreamInv'
<1>1. /\ call = "loading" /\ buffer # <<>> /\ buffer' = Tail(buffer)
      /\ UNCHANGED <<nextEntry, loaderTerminal>>
  BY DEF SubmitFails
<1>2. PICK ledger : Fail(inFlight, ledger)
  BY DEF SubmitFails
<1>3. /\ buffer' \in Seq(Entry) /\ Len(buffer') <= Capacity
      /\ inFlight \in Seq(Ticket)
      /\ answer # "end" /\ loaderTerminal' \in BOOLEAN
  BY <1>1, Tailed, Elements, PipelineAssumption DEF StreamInv, StreamTypes
<1> QED BY <1>1, <1>2, <1>3, FailStep

LEMMA StreamEndsStep ==
    ASSUME StreamInv, StreamEnds PROVE StreamInv'
<1>1. /\ call # "idle" /\ call' = "filling" /\ loaderTerminal' = TRUE /\ exhausted' = TRUE
      /\ UNCHANGED <<cancelled, nextEntry, buffer, inFlight, terminalError, dropped,
                     counts, late, told>>
  BY DEF StreamEnds, LoaderIsEmpty, Filling
<1>2. call = "loading" /\ ~MoreToLoad /\ buffer = <<>>
  BY <1>1, Calling DEF StreamEnds, LoaderIsEmpty, Filling, StreamInv
<1>3. nextEntry = Spans /\ ~late
  BY <1>1, <1>2, Calling, PipelineAssumption DEF MoreToLoad, StreamTypes
<1>4. StreamTypes' /\ Flow' /\ Tickets' /\ Alive'
  BY <1>1, Calling DEF StreamTypes, Flow, Tickets, Alive, counts, told
<1> QED BY <1>1, <1>2, <1>3, <1>4 DEF StreamInv, counts, told

LEMMA RetireStep ==
    ASSUME StreamInv, Retire
    PROVE  /\ StreamInv'
           /\ answer \notin {"end", "error"} /\ Len(delivered) < Spans
           /\ delivered' = Append(delivered, Len(delivered))
<1>0. /\ Alive /\ Flow /\ Tickets /\ StreamTypes /\ ~late
      /\ call' = "idle" /\ call = "filling" /\ inFlight # <<>>
      /\ answer \notin {"end", "error"}
      /\ delivered' = Append(delivered, Head(inFlight).span)
      /\ inFlight' = Tail(inFlight)
      /\ retired' = retired + 1
      /\ answer' = "batch"
      /\ UNCHANGED <<cancelled, loader, exhausted, terminalError, dropped, submitted, late>>
  BY Calling DEF Retire, Retiring, Filling, StreamInv
<1>1. /\ Len(inFlight) >= 1 /\ 1 \in 1 .. Len(inFlight)
      /\ Head(inFlight) = inFlight[1] /\ inFlight[1] \in Ticket
      /\ inFlight' \in Seq(Ticket)
      /\ Len(inFlight') = Len(inFlight) - 1
      /\ \A i \in 1 .. Len(inFlight') : inFlight'[i] = inFlight[i + 1]
  BY <1>0, Tailed DEF StreamTypes
<1>2. Head(inFlight).span = Len(delivered) /\ Len(delivered) \in Entry
  BY <1>0, <1>1, Elements DEF Flow, StreamTypes, Ticket
<1>3. /\ delivered' = Append(delivered, Len(delivered)) /\ Len(delivered) < Spans
      /\ delivered' \in Seq(Entry) /\ Len(delivered') = Len(delivered) + 1
      /\ \A i \in 1 .. Len(delivered') : delivered'[i] = i - 1
  <2>1. delivered \in Seq(Entry) /\ \A i \in 1 .. Len(delivered) : delivered[i] = i - 1
    BY <1>0 DEF StreamTypes, StreamInv
  <2>2. Len(delivered) \in Nat
    BY <2>1, Elements
  <2>3. /\ delivered' \in Seq(Entry) /\ Len(delivered') = Len(delivered) + 1
        /\ delivered'[Len(delivered) + 1] = Len(delivered)
        /\ \A i \in 1 .. Len(delivered) : delivered'[i] = delivered[i]
    BY <1>0, <1>2, <2>1, Appended
  <2>4. \A i \in 1 .. Len(delivered') : delivered'[i] = i - 1
    BY <2>1, <2>2, <2>3
  <2>5. Len(delivered) < Spans
    BY <1>2, PipelineAssumption DEF Entry
  <2> QED BY <1>0, <1>2, <2>3, <2>4, <2>5
<1>4. StreamTypes' /\ Len(inFlight') < MaximumInFlight
  <2>1. Len(inFlight') < MaximumInFlight
    <3>1. Len(inFlight) \in Nat /\ Len(inFlight) <= MaximumInFlight
      BY <1>0, Elements DEF StreamTypes
    <3> QED BY <1>1, <3>1, PipelineAssumption
  <2>2. retired' \in Nat /\ Len(inFlight') <= MaximumInFlight
    BY <1>0, <1>1, <2>1, PipelineAssumption DEF StreamTypes
  <2> QED BY <1>0, <1>1, <1>3, <2>1, <2>2 DEF StreamTypes, loader
<1>5. Flow'
  <2>1. /\ Len(inFlight) \in Nat /\ Len(delivered) \in Nat /\ Len(buffer) \in Nat
        /\ UNCHANGED <<buffer, nextEntry>>
    BY <1>0, Elements DEF StreamTypes, loader
  <2>2. \A i \in 1 .. Len(inFlight') : inFlight'[i].span = Len(delivered') + i - 1
    BY <1>0, <1>1, <1>3, <2>1 DEF Flow
  <2>3. /\ \A i \in 1 .. Len(buffer) : buffer[i] = Len(delivered') + Len(inFlight') + i - 1
        /\ Len(delivered') + Len(inFlight') + Len(buffer) = nextEntry
    BY <1>0, <1>1, <1>3, <2>1 DEF Flow
  <2> QED BY <2>1, <2>2, <2>3 DEF Flow
<1>6. Tickets'
  <2>1. /\ Len(inFlight) \in Nat /\ retired \in Nat /\ submitted' = submitted
        /\ retired + Len(inFlight) = submitted
    BY <1>0, Elements DEF StreamTypes, Tickets
  <2>2. retired' + Len(inFlight') = submitted'
    BY <1>0, <1>1, <2>1
  <2>3. ASSUME NEW i \in 1 .. Len(inFlight') PROVE inFlight'[i].order = retired' + i - 1
    <3>1. i + 1 \in 1 .. Len(inFlight) /\ inFlight'[i] = inFlight[i + 1]
      BY <1>1, <2>1
    <3>2. inFlight[i + 1].order = retired + (i + 1) - 1
      BY <1>0, <3>1 DEF Tickets
    <3> QED BY <1>0, <2>1, <3>1, <3>2
  <2> QED BY <2>2, <2>3 DEF Tickets
<1>7. Alive'
  BY <1>0 DEF Alive
<1> QED BY <1>0, <1>3, <1>4, <1>5, <1>6, <1>7 DEF StreamInv, loader

LEMMA RetireFailsStep ==
    ASSUME StreamInv, RetireFails PROVE StreamInv' /\ answer # "end"
<1>1. /\ call = "filling" /\ inFlight # <<>> /\ UNCHANGED loader /\ answer # "end"
  BY DEF RetireFails, Retiring, Filling, StreamInv
<1>2. PICK ledger : Fail(Tail(inFlight), ledger)
  BY DEF RetireFails
<1>3. /\ buffer' \in Seq(Entry) /\ Len(buffer') <= Capacity
      /\ Tail(inFlight) \in Seq(Ticket)
      /\ loaderTerminal' \in BOOLEAN /\ nextEntry' = nextEntry
  BY <1>1, Tailed, PipelineAssumption DEF StreamInv, StreamTypes, loader
<1> QED BY <1>1, <1>2, <1>3, FailStep

LEMMA ReportEndStep ==
    ASSUME StreamInv, ReportEnd PROVE StreamInv' /\ answer # "error" /\ Len(delivered) = Spans
<1>1. /\ call = "filling" /\ ~Filling /\ inFlight = <<>> /\ answer' = "end" /\ call' = "idle"
      /\ UNCHANGED <<cancelled, loader, inFlight, exhausted, terminalError, dropped,
                     counts, late, delivered>>
  BY DEF ReportEnd
<1>2. exhausted /\ ~late /\ nextEntry = Spans /\ buffer = <<>>
  BY <1>1, Calling, PipelineAssumption DEF Filling, StreamInv
<1>3. Len(delivered) = Spans
  BY <1>1, <1>2, Calling DEF Flow, StreamTypes
<1>4. StreamTypes' /\ Flow' /\ Tickets' /\ Alive'
  BY <1>1, Calling DEF StreamTypes, Flow, Tickets, Alive, loader, counts
<1> QED BY <1>1, <1>2, <1>3, <1>4, Calling, PipelineAssumption DEF StreamInv, loader, counts

LEMMA DropPipelineStep ==
    ASSUME StreamInv, DropPipeline PROVE StreamInv'
<1>1. /\ call = "idle" /\ dropped' = TRUE /\ inFlight' = <<>>
      /\ UNCHANGED <<cancelled, loader, exhausted, terminalError, submitted, call, late, told>>
      /\ retired' = IF inFlight = <<>> THEN retired ELSE inFlight[Len(inFlight)].order + 1
  BY DEF DropPipeline, CancelPending
<1>2. retired' \in Nat
  <2>1. inFlight # <<>> =>
            inFlight[Len(inFlight)] \in Ticket
    BY Elements DEF StreamInv, StreamTypes
  <2> QED BY <1>1, <2>1 DEF StreamInv, StreamTypes, Ticket
<1>3. StreamTypes'
  BY <1>1, <1>2, EmptySeq, PipelineAssumption DEF StreamInv, StreamTypes, loader, told
<1> QED BY <1>1, <1>3, EmptySeq, PipelineAssumption DEF StreamInv, Alive, loader, told
-----------------------------------------------------------------------------
LEMMA NextStream ==
    ASSUME StreamInv, [Next]_pipelineVars PROVE StreamInv'
<1>1. CASE UNCHANGED pipelineVars
  BY <1>1 DEF pipelineVars, loader, counts, device, told,
              StreamInv, StreamTypes, Flow, Tickets, Alive
<1>2. CASE PipelineStep
  BY <1>2, AskLoaderStep, LoadSpanStep, LoaderFailsStep, SubmitStep, SubmitFailsStep,
     StreamEndsStep, RetireStep, RetireFailsStep, ReportEndStep DEF PipelineStep
<1> QED
  BY <1>1, <1>2, CancelStep, NextDeviceBatchStep, RepeatErrorStep, DropPipelineStep,
     DropBatchStep DEF Next

LEMMA StreamInvHolds == Spec => []StreamInv
BY InitStream, NextStream, PTL DEF Spec

(* A call of next_device_batch that begins after the cancellation hands     *)
(* over no span, for every index, capacity and depth of the pipeline, and   *)
(* whatever was loaded or in flight (src/train.rs).                         *)
THEOREM CancellationIsHeard == Spec => []NothingAfterCancel
<1>1. StreamInv => NothingAfterCancel
  BY DEF StreamInv, NothingAfterCancel
<1> QED BY <1>1, StreamInvHolds, PTL

LEMMA StreamStep ==
    ASSUME StreamInv, [Next]_pipelineVars
    PROVE  [Stream!Next]_told
<1>1. CASE UNCHANGED told
  BY <1>1
<1>2. CASE Retire
  BY <1>2, RetireStep DEF Retire, StreamInv, StreamTypes, Stream!Next, Stream!Deliver
<1>3. CASE ReportEnd
  BY <1>3, ReportEndStep DEF ReportEnd, Stream!Next, Stream!End
<1>4. CASE RepeatError
  BY <1>4 DEF RepeatError, StreamInv, Stream!Next, Stream!Fail
<1>5. CASE LoadCancelled \/ LoadFails \/ SubmitFails \/ RetireFails
  <2>1. answer # "end"
    BY <1>5, RetireFailsStep
       DEF LoadCancelled, LoadFails, SubmitFails, Filling, StreamInv
  <2>2. answer' = "error" /\ delivered' = delivered
    BY <1>5 DEF LoadCancelled, LoadFails, SubmitFails, RetireFails, LoaderFails, Fail
  <2> QED BY <2>1, <2>2 DEF Stream!Next, Stream!Fail
<1>6. CASE UNCHANGED pipelineVars
  BY <1>6 DEF pipelineVars, told
<1>7. CASE Cancel \/ NextDeviceBatch \/ AskLoader \/ LoadSpan \/ Submit \/ StreamEnds
           \/ DropPipeline \/ DropBatch
  BY <1>7 DEF Cancel, NextDeviceBatch, AskLoader, LoadSpan, Submit, StreamEnds,
              DropPipeline, DropBatch, told
<1> QED
  BY <1>1, <1>2, <1>3, <1>4, <1>5, <1>6, <1>7 DEF Next, PipelineStep

(* The pipeline implements the ordered stream: handing over a span, the end *)
(* and a failure are the steps of the abstract reader, and everything else  *)
(* changes nothing it can see (TransferPipeline, SpanLoader in src/train.rs).*)
THEOREM PipelineImplementsStream == Spec => ImplementsOrderedStream
<1>1. PipelineInit => Stream!Init
  BY DEF PipelineInit, Stream!Init
<1>2. StreamInv /\ [Next]_pipelineVars => [Stream!Next]_<<delivered, answer>>
  BY StreamStep DEF told
<1> QED BY <1>1, <1>2, StreamInvHolds, PTL DEF Spec, ImplementsOrderedStream, Stream!Spec
-----------------------------------------------------------------------------
(* The batch source asks for spans by the steps of the pipeline only.       *)
LEMMA SourceOnPipeline ==
    ASSUME [SourceNext]_allVars PROVE [Next]_pipelineVars
<1>1. CASE SourceStep
  BY <1>1 DEF SourceStep, PullSpan, PullFails, TakeSpan, SkipSpan, SpanRefused,
              ReturnBatch, NotSpanAligned, EndSkip, Next
<1>2. CASE Requests
  BY <1>2 DEF Requests, NextBatch, FastForwardTo
<1>3. CASE UNCHANGED allVars
  BY <1>3 DEF allVars
<1> QED BY <1>1, <1>2, <1>3 DEF SourceNext, Next

(* CorpusBatchSource (src/train/launch.rs) reads the pipeline as any other  *)
(* reader may: what is proved of the pipeline holds under it.               *)
THEOREM SourceReadsThePipeline == SourceSpec => Spec
BY SourceOnPipeline, PTL DEF SourceSpec, Spec, Init
-----------------------------------------------------------------------------
(* The sizes of the spans add up.                                           *)
Below == {pair \in Nat \X Nat : pair[1] < pair[2]}

LEMMA LeastOf ==
    ASSUME NEW S, \A m \in S : m \in Nat, S # {}
    PROVE  \E n \in S : \A m \in S : n <= m
<1>1. IsWellFoundedOn(Below, Nat)
  BY NatLessThanWellFounded DEF Below, OpToRel
<1>2. S \subseteq Nat
  OBVIOUS
<1>3. IsWellFoundedOn(Below, S)
  BY <1>1, <1>2, IsWellFoundedOnSubset
<1>4. PICK n \in S : \A m \in S : ~ (<<m, n>> \in Below)
  BY <1>3, WFMin
<1>5. ASSUME NEW m \in S PROVE n <= m
  <2>1. <<m, n>> \notin Below /\ n \in Nat /\ m \in Nat
    BY <1>4
  <2>2. ~ (m < n)
    BY <2>1 DEF Below
  <2> QED BY <2>1, <2>2
<1> QED BY <1>5

(* The definition of FirstId up to entry n, of a function f.                *)
Sums(f, n) ==
    f = [i \in 0 .. n |-> IF i = 0 THEN 0 ELSE f[i - 1] + SpanTargets[i - 1]]

LEMMA SumsGrow ==
    ASSUME NEW n \in Nat, NEW f, Sums(f, n)
    PROVE  \E g : Sums(g, n + 1)
<1> DEFINE g == [i \in 0 .. n + 1 |-> IF i = n + 1 THEN f[n] + SpanTargets[n] ELSE f[i]]
<1>1. ASSUME NEW i \in 0 .. n + 1
      PROVE  g[i] = IF i = 0 THEN 0 ELSE g[i - 1] + SpanTargets[i - 1]
  <2>1. CASE i = n + 1
    BY <2>1
  <2>2. CASE i \in 0 .. n
    BY <2>2 DEF Sums
  <2> QED BY <2>1, <2>2
<1>2. g = [i \in 0 .. n + 1 |-> IF i = 0 THEN 0 ELSE g[i - 1] + SpanTargets[i - 1]]
  BY <1>1
<1> HIDE DEF g
<1> QED BY <1>2 DEF Sums

LEMMA SumsExist == \E f : Sums(f, Spans)
<1> DEFINE Missing == {n \in 0 .. Spans : ~\E f : Sums(f, n)}
<1>1. Spans \in Nat
  BY PipelineAssumption
<1>2. ASSUME Missing # {} PROVE FALSE
  <2>1. \A m \in Missing : m \in Nat
    BY <1>1
  <2>2. PICK n \in Missing : \A m \in Missing : n <= m
    <3> HIDE DEF Missing
    <3> QED BY <1>2, <2>1, LeastOf
  <2>3. CASE n = 0
    <3> DEFINE f == [i \in 0 .. 0 |-> 0]
    <3>1. \A i \in 0 .. 0 : f[i] = IF i = 0 THEN 0 ELSE f[i - 1] + SpanTargets[i - 1]
      OBVIOUS
    <3>2. f = [i \in 0 .. 0 |-> IF i = 0 THEN 0 ELSE f[i - 1] + SpanTargets[i - 1]]
      BY <3>1
    <3> HIDE DEF f
    <3>3. \E h : Sums(h, 0)
      BY <3>2 DEF Sums
    <3> QED BY <2>2, <2>3, <3>3
  <2>4. CASE n # 0
    <3>1. n - 1 \in 0 .. Spans /\ n - 1 \notin Missing /\ n - 1 \in Nat /\ (n - 1) + 1 = n
      BY <1>1, <2>2, <2>4
    <3>2. PICK f : Sums(f, n - 1)
      BY <3>1
    <3>3. \E g : Sums(g, (n - 1) + 1)
      BY <3>1, <3>2, SumsGrow
    <3> QED BY <2>2, <3>1, <3>3
  <2> QED BY <2>3, <2>4
<1>3. Spans \notin Missing
  BY <1>2
<1> QED BY <1>1, <1>3

LEMMA FirstIds ==
    /\ FirstId[0] = 0
    /\ \A i \in 0 .. Spans - 1 : FirstId[i + 1] = FirstId[i] + SpanTargets[i]
<1>1. Spans \in Nat
  BY PipelineAssumption
<1>2. FirstId = CHOOSE f : Sums(f, Spans)
  BY DEF FirstId, Sums
<1>3. Sums(FirstId, Spans)
  BY <1>2, SumsExist
<1>4. \A i \in 0 .. Spans :
          FirstId[i] = IF i = 0 THEN 0 ELSE FirstId[i - 1] + SpanTargets[i - 1]
  BY <1>3 DEF Sums
<1>5. 0 \in 0 .. Spans
  BY <1>1
<1>6. ASSUME NEW i \in 0 .. Spans - 1 PROVE FirstId[i + 1] = FirstId[i] + SpanTargets[i]
  <2>1. i + 1 \in 0 .. Spans /\ i + 1 # 0 /\ (i + 1) - 1 = i
    BY <1>1
  <2> QED BY <1>4, <2>1
<1> QED BY <1>4, <1>5, <1>6
LEMMA FirstIdGrows ==
    /\ \A i \in 0 .. Spans : FirstId[i] \in Nat
    /\ \A i, j \in 0 .. Spans : i < j => FirstId[i] < FirstId[j]
<1>1. Spans \in Nat /\ \A i \in 0 .. Spans - 1 : SpanTargets[i] \in Nat \ {0}
  BY PipelineAssumption, BatchSourceAssumption
<1>2. ASSUME NEW i \in 0 .. Spans PROVE FirstId[i] \in Nat
  <2> DEFINE Bad == {n \in 0 .. Spans : FirstId[n] \notin Nat}
  <2>1. ASSUME Bad # {} PROVE FALSE
    <3>1. \A m \in Bad : m \in Nat
      BY <1>1
    <3>2. PICK n \in Bad : \A m \in Bad : n <= m
      <4> HIDE DEF Bad
      <4> QED BY <2>1, <3>1, LeastOf
    <3>3. n # 0
      BY <3>2, FirstIds
    <3>4. n - 1 \in 0 .. Spans - 1 /\ FirstId[n - 1] \in Nat /\ (n - 1) + 1 = n
      BY <1>1, <3>2, <3>3
    <3>5. FirstId[n] = FirstId[n - 1] + SpanTargets[n - 1]
      BY <3>4, FirstIds
    <3> QED BY <1>1, <3>2, <3>4, <3>5
  <2> QED BY <2>1
<1>3. ASSUME NEW i \in 0 .. Spans, NEW j \in 0 .. Spans, i < j
      PROVE  FirstId[i] < FirstId[j]
  <2> DEFINE Bad == {n \in i + 1 .. Spans : ~ (FirstId[i] < FirstId[n])}
  <2>1. ASSUME Bad # {} PROVE FALSE
    <3>1. \A m \in Bad : m \in Nat
      BY <1>1
    <3>2. PICK n \in Bad : \A m \in Bad : n <= m
      <4> HIDE DEF Bad
      <4> QED BY <2>1, <3>1, LeastOf
    <3>3. n - 1 \in 0 .. Spans - 1 /\ n - 1 \in 0 .. Spans /\ (n - 1) + 1 = n
      BY <1>1, <3>2
    <3>4. FirstId[n] = FirstId[n - 1] + SpanTargets[n - 1]
      BY <3>3, FirstIds
    <3>5. FirstId[i] <= FirstId[n - 1]
      <4>1. CASE n = i + 1
        BY <1>2, <4>1
      <4>2. CASE n # i + 1
        <5>1. n - 1 \in i + 1 .. Spans /\ n - 1 < n
          BY <1>1, <3>2, <4>2
        <5>2. FirstId[i] < FirstId[n - 1]
          BY <3>2, <5>1
        <5> QED BY <1>2, <3>3, <5>2
      <4> QED BY <4>1, <4>2
    <3>6. ~ (FirstId[i] < FirstId[n])
      BY <3>2
    <3> QED BY <1>1, <1>2, <3>3, <3>4, <3>5, <3>6
  <2>2. j \in i + 1 .. Spans
    BY <1>1, <1>3
  <2> QED BY <2>1, <2>2
<1> QED BY <1>2, <1>3

LEMMA FirstIdInjective ==
    ASSUME NEW i \in 0 .. Spans, NEW j \in 0 .. Spans, FirstId[i] = FirstId[j]
    PROVE  i = j
<1>1. Spans \in Nat
  BY PipelineAssumption
<1>2. i \in Nat /\ j \in Nat /\ FirstId[i] \in Nat
  BY <1>1, FirstIdGrows
<1>3. ~ (i < j) /\ ~ (j < i)
  BY <1>2, FirstIdGrows
<1> QED BY <1>2, <1>3
-----------------------------------------------------------------------------
(* What the source gave out and what next_batch has pulled so far are the   *)
(* spans from the beginning, and the cursors stand where they end.          *)
SourceInv ==
    /\ job \in {"none", "batch", "skip"}
    /\ served \in Seq(Entry) /\ taken \in Seq(Entry)
    /\ Len(served) + Len(taken) <= Spans
    /\ \A i \in 1 .. Len(served) : served[i] = i - 1
    /\ \A i \in 1 .. Len(taken) : taken[i] = Len(served) + i - 1
    /\ nextFirst = FirstId[Len(served)]
    /\ accumulated \in Nat /\ Reached = FirstId[Len(served) + Len(taken)]
    /\ job # "batch" => taken = <<>> /\ accumulated = 0
    /\ delivered \in Seq(Entry)
    /\ answer = "batch" => delivered # <<>>
LEMMA InitSource == Init => SourceInv
<1> SUFFICES ASSUME Init PROVE SourceInv
  OBVIOUS
<1>1. <<>> \in Seq(Entry) /\ Len(<<>>) = 0
  BY EmptySeq
<1>2. Spans \in Nat /\ FirstId[0] = 0
  BY PipelineAssumption, FirstIds
<1> QED BY <1>1, <1>2 DEF Init, PipelineInit, SourceInv, Reached

(* A step that leaves the cursors alone: what the reader has told is enough.*)
LEMMA ReaderStep ==
    ASSUME StreamInv, SourceInv, [SourceNext]_allVars
    PROVE  delivered' \in Seq(Entry) /\ (answer' = "batch" => delivered' # <<>>)
<1>1. StreamInv' /\ [Stream!Next]_told
  BY SourceOnPipeline, NextStream, StreamStep
<1>2. delivered' \in Seq(Entry)
  BY <1>1 DEF StreamInv, StreamTypes
<1>3. CASE Stream!Deliver
  <2>1. delivered' = Append(delivered, Len(delivered)) /\ Len(delivered) < Spans
    BY <1>3 DEF Stream!Deliver
  <2>2. delivered \in Seq(Entry) /\ Len(delivered) \in Nat /\ Spans \in Nat
    BY Elements, PipelineAssumption DEF StreamInv, StreamTypes
  <2>3. Len(delivered) \in Entry
    BY <2>1, <2>2 DEF Entry
  <2>4. delivered' # <<>>
    BY <2>1, <2>2, <2>3, Appended
  <2> QED BY <1>2, <2>4
<1>4. CASE Stream!End \/ Stream!Fail
  BY <1>2, <1>4 DEF Stream!End, Stream!Fail
<1>5. CASE UNCHANGED told
  BY <1>2, <1>5 DEF told, SourceInv
<1> QED BY <1>1, <1>3, <1>4, <1>5 DEF Stream!Next

(* The methods that leave the cursors alone, and those that give up.        *)
LEMMA CursorsKept ==
    ASSUME SourceInv, delivered' \in Seq(Entry), answer' = "batch" => delivered' # <<>>,
           UNCHANGED <<nextFirst, served>>,
           \/ UNCHANGED <<taken, accumulated>> /\ (job' = job \/ (job = "none" /\ job' \in {"batch", "skip"}))
           \/ MethodReturns
    PROVE  SourceInv'
<1>1. CASE UNCHANGED <<taken, accumulated>> /\ (job' = job \/ (job = "none" /\ job' \in {"batch", "skip"}))
  BY <1>1 DEF SourceInv, Reached
<1>2. CASE MethodReturns
  <2>1. <<>> \in Seq(Entry) /\ Len(<<>>) = 0
    BY EmptySeq
  <2>2. Len(served) \in Nat /\ Len(taken) \in Nat /\ Spans \in Nat
    BY Elements, PipelineAssumption DEF SourceInv
  <2>3. Len(served) \in 0 .. Spans /\ nextFirst \in Nat
    BY <2>2, FirstIdGrows DEF SourceInv
  <2>4. taken' = <<>> /\ accumulated' = 0 /\ job' = "none"
    BY <1>2 DEF MethodReturns
  <2>5. Reached' = FirstId[Len(served') + Len(taken')]
    BY <2>1, <2>2, <2>3, <2>4 DEF SourceInv, Reached
  <2>6. Len(served') + Len(taken') <= Spans
    BY <2>1, <2>2, <2>3, <2>4
  <2> QED BY <2>1, <2>4, <2>5, <2>6 DEF SourceInv
<1> QED BY <1>1, <1>2

(* A span that continues where the method stands is the next one.           *)
LEMMA NextSpan ==
    ASSUME SourceInv, Pulled, Contiguous
    PROVE  LET k == Len(served) + Len(taken)
           IN  /\ Span = k /\ k \in Entry /\ k + 1 \in 0 .. Spans
               /\ Reached + SpanTargets[Span] = FirstId[k + 1]
               /\ SpanTargets[Span] \in Nat
<1> DEFINE k == Len(served) + Len(taken)
<1>1. Spans \in Nat /\ Len(served) \in Nat /\ Len(taken) \in Nat /\ k \in 0 .. Spans
  BY Elements, PipelineAssumption DEF SourceInv
<1>2. Span \in Entry
  <2>1. delivered \in Seq(Entry) /\ delivered # <<>>
    BY DEF Pulled, SourceInv
  <2>2. Len(delivered) \in 1 .. Len(delivered)
    BY <2>1, Tailed
  <2> QED BY <2>1, <2>2, Elements DEF Span
<1>3. Span \in 0 .. Spans /\ Span \in 0 .. Spans - 1
  BY <1>1, <1>2 DEF Entry
<1>4. FirstId[Span] = FirstId[k]
  BY DEF Contiguous, SourceInv
<1>5. Span = k
  <2> HIDE DEF k
  <2> QED BY <1>1, <1>3, <1>4, FirstIdInjective
<1>6. FirstId[k + 1] = FirstId[k] + SpanTargets[k]
  BY <1>3, <1>5, FirstIds
<1>7. SpanTargets[Span] \in Nat
  BY <1>3, BatchSourceAssumption
<1> QED BY <1>1, <1>2, <1>3, <1>5, <1>6, <1>7 DEF SourceInv

LEMMA TakeSpanStep ==
    ASSUME SourceInv, TakeSpan PROVE SourceInv'
<1> DEFINE k == Len(served) + Len(taken)
<1>1. /\ job = "batch" /\ Pulled /\ Contiguous
      /\ taken' = Append(taken, Span)
      /\ accumulated' = accumulated + SpanTargets[Span]
      /\ UNCHANGED <<nextFirst, job, served, delivered, answer>>
  BY DEF TakeSpan, pipelineVars, told
<1>2. /\ Span = k /\ Span \in Entry /\ k + 1 \in 0 .. Spans
      /\ Reached + SpanTargets[Span] = FirstId[k + 1]
      /\ SpanTargets[Span] \in Nat
  BY <1>1, NextSpan
<1>3. /\ Len(served) \in Nat /\ Len(taken) \in Nat /\ Spans \in Nat
      /\ nextFirst \in Nat /\ accumulated \in Nat
  <2>1. Len(served) \in Nat /\ Len(taken) \in Nat /\ Spans \in Nat
    BY Elements, PipelineAssumption DEF SourceInv
  <2> QED BY <2>1, FirstIdGrows DEF SourceInv
<1>4. /\ taken' \in Seq(Entry) /\ Len(taken') = Len(taken) + 1
      /\ taken'[Len(taken) + 1] = Span
      /\ \A i \in 1 .. Len(taken) : taken'[i] = taken[i]
  BY <1>1, <1>2, Appended DEF SourceInv
<1>5. ASSUME NEW i \in 1 .. Len(taken') PROVE taken'[i] = Len(served) + i - 1
  <2>1. CASE i \in 1 .. Len(taken)
    <3>1. taken'[i] = taken[i]
      BY <1>4, <2>1
    <3> QED BY <2>1, <3>1 DEF SourceInv
  <2>2. CASE i = Len(taken) + 1
    BY <1>2, <1>3, <1>4, <2>2
  <2> QED BY <1>3, <1>4, <2>1, <2>2
<1>6. /\ accumulated' \in Nat
      /\ Reached' = FirstId[Len(served') + Len(taken')]
      /\ Len(served') + Len(taken') <= Spans
  <2>1. Len(served') + Len(taken') = k + 1
    BY <1>1, <1>3, <1>4
  <2>2. Reached' = Reached + SpanTargets[Span]
    BY <1>1, <1>2, <1>3 DEF Reached
  <2> QED BY <1>1, <1>2, <1>3, <2>1, <2>2
<1> QED BY <1>1, <1>4, <1>5, <1>6 DEF SourceInv

LEMMA SkipSpanStep ==
    ASSUME SourceInv, SkipSpan PROVE SourceInv'
<1>1. /\ job = "skip" /\ Pulled /\ Contiguous
      /\ nextFirst' = nextFirst + SpanTargets[Span]
      /\ served' = Append(served, Span)
      /\ UNCHANGED <<job, taken, accumulated, delivered, answer>>
  BY DEF SkipSpan, pipelineVars, told
<1>2. taken = <<>> /\ Len(taken) = 0 /\ accumulated = 0
  BY <1>1, EmptySeq DEF SourceInv
<1>3. Len(served) \in Nat /\ Spans \in Nat /\ nextFirst \in Nat
  <2>1. Len(served) \in Nat /\ Spans \in Nat
    BY Elements, PipelineAssumption DEF SourceInv
  <2> QED BY <1>2, <2>1, FirstIdGrows DEF SourceInv
<1>4. /\ Span = Len(served) /\ Span \in Entry /\ Len(served) + 1 \in 0 .. Spans
      /\ nextFirst + SpanTargets[Span] = FirstId[Len(served) + 1]
      /\ SpanTargets[Span] \in Nat
  BY <1>1, <1>2, <1>3, NextSpan DEF Reached
<1>5. /\ served' \in Seq(Entry) /\ Len(served') = Len(served) + 1
      /\ served'[Len(served) + 1] = Span
      /\ \A i \in 1 .. Len(served) : served'[i] = served[i]
  BY <1>1, <1>4, Appended DEF SourceInv
<1>6. ASSUME NEW i \in 1 .. Len(served') PROVE served'[i] = i - 1
  <2>1. CASE i \in 1 .. Len(served)
    BY <1>5, <2>1 DEF SourceInv
  <2>2. CASE i = Len(served) + 1
    BY <1>3, <1>4, <1>5, <2>2
  <2> QED BY <1>3, <1>5, <2>1, <2>2
<1>7. /\ nextFirst' = FirstId[Len(served')] /\ nextFirst' \in Nat
      /\ Len(served') + Len(taken') = Len(served')
      /\ Len(served') + Len(taken') <= Spans
  BY <1>1, <1>2, <1>3, <1>4, <1>5
<1>8. Reached' = FirstId[Len(served') + Len(taken')]
  BY <1>1, <1>2, <1>7 DEF Reached
<1> QED BY <1>1, <1>2, <1>5, <1>6, <1>7, <1>8 DEF SourceInv

LEMMA ReturnBatchStep ==
    ASSUME SourceInv, ReturnBatch PROVE SourceInv'
<1>1. /\ Reached = goal /\ nextFirst' = goal /\ served' = served \o taken
      /\ taken' = <<>> /\ accumulated' = 0 /\ job' = "none"
      /\ UNCHANGED <<delivered, answer>>
  BY DEF ReturnBatch, MethodReturns, pipelineVars, told
<1>2. <<>> \in Seq(Entry) /\ Len(<<>>) = 0
  BY EmptySeq
<1>3. Len(served) \in Nat /\ Len(taken) \in Nat /\ Spans \in Nat
  BY Elements, PipelineAssumption DEF SourceInv
<1>4. /\ served' \in Seq(Entry)
      /\ Len(served') = Len(served) + Len(taken)
      /\ \A i \in 1 .. Len(served) + Len(taken) :
            served'[i] = IF i <= Len(served) THEN served[i] ELSE taken[i - Len(served)]
  BY <1>1, ConcatProperties DEF SourceInv
<1>5. ASSUME NEW i \in 1 .. Len(served') PROVE served'[i] = i - 1
  <2>1. i \in 1 .. Len(served) + Len(taken)
    BY <1>4
  <2>2. CASE i <= Len(served)
    <3>1. served'[i] = served[i] /\ i \in 1 .. Len(served)
      BY <1>3, <1>4, <2>1, <2>2
    <3> QED BY <3>1 DEF SourceInv
  <2>3. CASE i > Len(served)
    <3>1. i - Len(served) \in 1 .. Len(taken) /\ served'[i] = taken[i - Len(served)]
      BY <1>3, <1>4, <2>1, <2>3
    <3>2. taken[i - Len(served)] = Len(served) + (i - Len(served)) - 1
      BY <3>1 DEF SourceInv
    <3> QED BY <1>3, <2>1, <3>1, <3>2
  <2> QED BY <1>3, <2>1, <2>2, <2>3
<1>6. Len(served') \in 0 .. Spans /\ nextFirst' = FirstId[Len(served')]
  <2>1. Len(served) + Len(taken) <= Spans /\ Reached = FirstId[Len(served) + Len(taken)]
    BY DEF SourceInv
  <2>2. Len(served) + Len(taken) \in 0 .. Spans
    BY <1>3, <2>1
  <2> QED BY <1>1, <1>4, <2>1, <2>2
<1>7. nextFirst' \in Nat
  BY <1>6, FirstIdGrows
<1>8. /\ Len(served') + Len(taken') <= Spans
      /\ Reached' = FirstId[Len(served') + Len(taken')]
  BY <1>1, <1>2, <1>3, <1>6, <1>7 DEF Reached
<1> QED BY <1>1, <1>2, <1>4, <1>5, <1>6, <1>8 DEF SourceInv

LEMMA NextSource ==
    ASSUME StreamInv, SourceInv, [SourceNext]_allVars PROVE SourceInv'
<1>0. delivered' \in Seq(Entry) /\ (answer' = "batch" => delivered' # <<>>)
  BY ReaderStep
<1>1. CASE TakeSpan \/ SkipSpan \/ ReturnBatch
  BY <1>1, TakeSpanStep, SkipSpanStep, ReturnBatchStep
<1>2. CASE PullFails \/ SpanRefused \/ NotSpanAligned \/ EndSkip
  <2>1. MethodReturns /\ UNCHANGED <<nextFirst, served>>
    BY <1>2 DEF PullFails, SpanRefused, NotSpanAligned, EndSkip, GiveUp
  <2> QED BY <1>0, <2>1, CursorsKept
<1>3. ASSUME UNCHANGED <<nextFirst, served, taken, accumulated>>,
             job' = job \/ (job = "none" /\ job' \in {"batch", "skip"})
      PROVE  SourceInv'
  <2>1. UNCHANGED <<nextFirst, served>> /\ UNCHANGED <<taken, accumulated>>
    BY <1>3
  <2> QED BY <1>0, <1>3, <2>1, CursorsKept
<1>4. CASE Requests
  BY <1>3, <1>4 DEF Requests, NextBatch, FastForwardTo
<1>5. CASE PullSpan \/ UNCHANGED sourceVars
  <2>1. UNCHANGED <<nextFirst, served, taken, accumulated>> /\ job' = job
    BY <1>5 DEF PullSpan, sourceVars
  <2> QED BY <1>3, <2>1
<1>6. CASE UNCHANGED allVars
  BY <1>5, <1>6 DEF allVars
<1> QED
  BY <1>1, <1>2, <1>4, <1>5, <1>6 DEF SourceNext, SourceStep

(* The windows returned and the spans skipped are the stream from its       *)
(* beginning, each span once, and the cursor stands where the last of them  *)
(* ends, whatever the sizes of the spans and after any sequence of requests,*)
(* failures, cancellations and retries (CorpusBatchSource in                *)
(* src/train/launch.rs).                                                    *)
THEOREM WindowsNeverSkipOrRepeat == SourceSpec => []WindowsFollowStream
<1>1. SourceInv => WindowsFollowStream
  <2> SUFFICES ASSUME SourceInv PROVE WindowsFollowStream
    OBVIOUS
  <2>1. served \in [1 .. Len(served) -> Entry]
    BY LenProperties DEF SourceInv
  <2>2. served = [i \in 1 .. Len(served) |-> i - 1]
    BY <2>1 DEF SourceInv
  <2> QED BY <2>2 DEF SourceInv, WindowsFollowStream
<1>2. SourceSpec => []StreamInv
  BY SourceReadsThePipeline, StreamInvHolds
<1>3. StreamInv /\ SourceInv /\ [SourceNext]_allVars => SourceInv'
  BY NextSource
<1> QED BY <1>1, <1>2, <1>3, InitSource, PTL DEF SourceSpec
-----------------------------------------------------------------------------
(* The ledger of a device adapter.  x is a ledger or the state of a method, *)
(* which has the fields of one; need says what is still wanted of each kind *)
(* of resource.                                                             *)
Stacks == Seq({"caller", "ours"})
Outer == <<"caller">>
Inner == <<"caller", "ours">>
Needs == [Resources -> Nat]

States == [owns : SUBSET Resources, copying : BOOLEAN, ok : BOOLEAN, out : [Resources -> Nat],
           stack : Stacks, torn : BOOLEAN, failed : [Calls -> Nat], left : 0 .. MaxDriverFaults]

FailedIn(x, kinds) == \E c \in kinds : x.failed[c] > 0
Unwaited(x) == FailedIn(x, {"synchronize", "push", "bind"})
Unstacked(x) == FailedIn(x, {"push", "pop"})

(* The failures after which a resource of kind r may be lost, and after     *)
(* which it is.                                                             *)
Excused(x, r) ==
    \/ FailedIn(x, {"free"})
    \/ r # "context" /\ FailedIn(x, {"push"})
    \/ FailedIn(x, {"bind"}) /\ (r = "device" \/ x.left + 2 <= MaxDriverFaults)

Accounted(x, need, stack) ==
    /\ x.torn => Unwaited(x)
    /\ x.stack = stack \/ Unstacked(x)
    /\ FailedIn(x, Calls) => x.left + 1 <= MaxDriverFaults
    /\ \A r \in Resources : x.out[r] >= need[r] /\ (x.out[r] > need[r] => Excused(x, r))

(* A state in which a method may go on: an error is one of a driver call,   *)
(* and a copy under way has a stream to wait for.                           *)
Good(s, need, stack) ==
    /\ s \in States
    /\ Accounted(s, need, stack)
    /\ s.copying => "stream" \in s.owns \/ Unwaited(s)
    /\ ~s.ok => FailedIn(s, Calls)

(* t comes after s. *)
Grown(s, t) ==
    /\ \A c \in Calls : t.failed[c] >= s.failed[c]
    /\ t.left <= s.left

SameButOk(s, t) ==
    /\ t.owns = s.owns /\ t.copying = s.copying /\ t.out = s.out /\ t.stack = s.stack
    /\ t.torn = s.torn /\ t.failed = s.failed /\ t.left = s.left

(* What a call that failed leaves. *)
CallFailed(s, t, kind) ==
    /\ t.owns = s.owns /\ t.copying = s.copying /\ t.out = s.out /\ t.stack = s.stack
    /\ t.torn = s.torn
    /\ t.failed = [s.failed EXCEPT ![kind] = @ + 1] /\ t.left = s.left - 1
    /\ s.left > 0 /\ t.ok = FALSE

LEMMA Called ==
    ASSUME NEW s \in States, NEW after \in States, NEW kind \in Calls,
           NEW t \in Call(s, kind, after)
    PROVE  /\ t \in States
           /\ \/ t.ok /\ SameButOk(after, t)
              \/ CallFailed(s, t, kind)
<1>1. CASE t = [after EXCEPT !.ok = TRUE]
  BY <1>1 DEF States, SameButOk
<1>2. CASE s.left > 0 /\ t = [s EXCEPT !.ok = FALSE, !.failed[kind] = @ + 1, !.left = @ - 1]
  <2>1. s.failed[kind] \in Nat /\ s.left - 1 \in 0 .. MaxDriverFaults
    BY <1>2, DeviceTransferAssumption DEF States
  <2>2. [s.failed EXCEPT ![kind] = @ + 1] \in [Calls -> Nat]
    BY <2>1 DEF States
  <2>3. t \in States
    BY <1>2, <2>1, <2>2 DEF States
  <2>4. CallFailed(s, t, kind)
    BY <1>2, <2>3 DEF CallFailed, States
  <2> QED BY <2>3, <2>4
<1> QED BY <1>1, <1>2 DEF Call, If

LEMMA GrownExcuses ==
    ASSUME NEW s \in States, NEW t \in States, Grown(s, t)
    PROVE  /\ Unwaited(s) => Unwaited(t)
           /\ Unstacked(s) => Unstacked(t)
           /\ FailedIn(s, {"push"}) => FailedIn(t, {"push"})
           /\ FailedIn(s, {"bind"}) => FailedIn(t, {"bind"})
           /\ FailedIn(s, Calls) => FailedIn(t, Calls)
           /\ \A r \in Resources : Excused(s, r) => Excused(t, r)
<1>1. ASSUME NEW kinds \in SUBSET Calls, FailedIn(s, kinds) PROVE FailedIn(t, kinds)
  <2>1. PICK c \in kinds : s.failed[c] > 0
    BY <1>1 DEF FailedIn
  <2>2. t.failed[c] >= s.failed[c] /\ s.failed[c] \in Nat /\ t.failed[c] \in Nat
    BY <2>1 DEF Grown, States
  <2> QED BY <2>1, <2>2 DEF FailedIn
<1>2. /\ {"push"} \in SUBSET Calls /\ {"bind"} \in SUBSET Calls /\ Calls \in SUBSET Calls
      /\ {"free"} \in SUBSET Calls
      /\ {"push", "pop"} \in SUBSET Calls /\ {"synchronize", "push", "bind"} \in SUBSET Calls
  BY DEF Calls
<1>3. t.left <= s.left /\ s.left \in Nat /\ t.left \in Nat
  BY DeviceTransferAssumption DEF Grown, States
<1>4. \A r \in Resources : Excused(s, r) => Excused(t, r)
  BY <1>1, <1>2, <1>3, DeviceTransferAssumption DEF Excused
<1> QED BY <1>1, <1>2, <1>4 DEF Unwaited, Unstacked

LEMMA GrownTransitive ==
    ASSUME NEW s \in States, NEW t \in States, NEW u \in States, Grown(s, t), Grown(t, u)
    PROVE  Grown(s, u)
BY DeviceTransferAssumption DEF Grown, States

LEMMA FailureIsNoted ==
    ASSUME NEW s \in States, NEW t \in States, NEW kind \in Calls, CallFailed(s, t, kind)
    PROVE  /\ Grown(s, t) /\ FailedIn(t, {kind})
           /\ t.left + 1 <= s.left /\ t.left + 1 <= MaxDriverFaults
<1>1. s.failed \in [Calls -> Nat] /\ s.left \in 0 .. MaxDriverFaults
  BY DEF States
<1> QED BY <1>1, DeviceTransferAssumption DEF CallFailed, Grown, FailedIn

(* A failed call leaves the accounts as they were. *)
LEMMA FailedCall ==
    ASSUME NEW s, NEW t \in States, NEW kind \in Calls, CallFailed(s, t, kind),
           NEW need, NEW stack, Good(s, need, stack)
    PROVE  Good(t, need, stack) /\ Grown(s, t) /\ FailedIn(t, {kind})
           /\ t.left + 1 <= s.left
<1>1. s \in States
  BY DEF Good
<1>2. /\ Grown(s, t) /\ FailedIn(t, {kind})
      /\ t.left + 1 <= s.left /\ t.left + 1 <= MaxDriverFaults
  BY <1>1, FailureIsNoted
<1>3. Good(t, need, stack)
  <2>1. FailedIn(t, Calls)
    BY <1>2 DEF FailedIn
  <2> QED BY <1>1, <1>2, <2>1, GrownExcuses DEF Good, Accounted, CallFailed
<1> QED BY <1>2, <1>3

(* The stack of the calling thread, outside and inside of the context.      *)
LEMMA Nesting ==
    /\ Outer \in Stacks /\ Inner \in Stacks /\ Inner # <<>>
    /\ Append(Outer, "ours") = Inner /\ Last(Inner) = "ours" /\ Front(Inner) = Outer
<1>1. /\ Outer \in Stacks /\ Len(Outer) = 1 /\ Outer[1] = "caller"
  BY DEF Outer, Stacks
<1>2. /\ Inner \in Stacks /\ Len(Inner) = 2 /\ Inner # <<>>
      /\ Inner[1] = "caller" /\ Inner[2] = "ours"
  BY DEF Inner, Stacks
<1>3. Append(Outer, "ours") = Inner
  <2>1. "ours" \in {"caller", "ours"}
    OBVIOUS
  <2>2. /\ Append(Outer, "ours") \in Stacks /\ Len(Append(Outer, "ours")) = 2
        /\ Append(Outer, "ours")[2] = "ours" /\ Append(Outer, "ours")[1] = "caller"
    BY <1>1, <2>1, Appended DEF Stacks
  <2> QED BY <1>2, <2>2, SeqEqual DEF Stacks
<1>4. Last(Inner) = "ours"
  BY <1>2 DEF Last
<1>5. Front(Inner) = Outer
  <2>1. Front(Inner) = SubSeq(Inner, 1, 1)
    BY <1>2 DEF Front
  <2>2. /\ SubSeq(Inner, 1, 1) \in Stacks
        /\ Len(SubSeq(Inner, 1, 1)) = 1
        /\ SubSeq(Inner, 1, 1)[1] = "caller"
    BY <1>2, SubSeqProperties DEF Stacks
  <2> QED BY <1>1, <2>1, <2>2, SeqEqual DEF Stacks
<1> QED BY <1>1, <1>2, <1>3, <1>4, <1>5

LEMMA PoppedStack ==
    ASSUME NEW s \in Stacks, s # <<>> PROVE Front(s) \in Stacks
<1>1. Len(s) \in Nat /\ Len(s) >= 1 /\ \A i \in 1 .. Len(s) : s[i] \in {"caller", "ours"}
  BY Elements, Tailed DEF Stacks
<1> QED BY <1>1 DEF Front, Stacks

LEMMA PushedStack ==
    ASSUME NEW s \in Stacks
    PROVE  /\ Append(s, "ours") \in Stacks /\ Append(s, "ours") # <<>>
           /\ Last(Append(s, "ours")) = "ours"
BY Appended DEF Stacks, Last

(* The same accounts, another ok. *)
LEMMA Judged ==
    ASSUME NEW s \in States, NEW ok \in BOOLEAN, NEW need, NEW stack,
           Good(s, need, stack), ok \/ FailedIn(s, Calls)
    PROVE  LET t == [s EXCEPT !.ok = ok]
           IN  /\ Good(t, need, stack) /\ Grown(s, t) /\ SameButOk(s, t)
               /\ t.ok = ok
<1> DEFINE t == [s EXCEPT !.ok = ok]
<1>1. t \in States /\ SameButOk(s, t) /\ t.ok = ok
  BY DEF States, SameButOk
<1>2. Grown(s, t)
  BY <1>1, DeviceTransferAssumption DEF Grown, SameButOk, States
<1> HIDE DEF t
<1>3. Good(t, need, stack)
  BY <1>1, <1>2, GrownExcuses DEF Good, Accounted, SameButOk, FailedIn, Unwaited, Unstacked, Excused
<1> QED BY <1>1, <1>2, <1>3 DEF t

(* A copy under way that is not waited for has been excused already. *)
Idle(s) == s.copying => Unwaited(s)
InOurs(s) == (s.stack # <<>> /\ Last(s.stack) = "ours") \/ FailedIn(s, {"push"})

LEMMA PushStep ==
    ASSUME NEW need, NEW s, Good(s, need, Outer), NEW t \in Push(s)
    PROVE  /\ Good(t, need, Inner) /\ Grown(s, t) /\ InOurs(t)
           /\ t.owns = s.owns /\ t.copying = s.copying
           /\ ~t.ok => Good(t, need, Outer) /\ FailedIn(t, {"push"})
<1> DEFINE after == [s EXCEPT !.stack = Append(s.stack, "ours")]
<1>1. s \in States /\ s.stack \in Stacks
  BY DEF Good, States
<1>2. after \in States
  BY <1>1, PushedStack DEF States
<1>3. after.owns = s.owns /\ after.copying = s.copying /\ after.out = s.out
      /\ after.torn = s.torn /\ after.failed = s.failed /\ after.left = s.left
      /\ after.stack = Append(s.stack, "ours")
  BY <1>1 DEF States
<1>4. t \in Call(s, "push", after)
  BY DEF Push
<1>5. "push" \in Calls
  BY DEF Calls
<1> HIDE DEF after
<1>6. t \in States /\ ((t.ok /\ SameButOk(after, t)) \/ CallFailed(s, t, "push"))
  BY <1>1, <1>2, <1>4, <1>5, Called
<1>7. CASE t.ok /\ SameButOk(after, t)
  <2>1. Grown(s, t)
    BY <1>1, <1>3, <1>6, <1>7, DeviceTransferAssumption DEF Grown, SameButOk, States
  <2>2. t.stack = Inner \/ Unstacked(t)
    <3>1. s.stack = Outer \/ Unstacked(t)
      BY <1>1, <1>6, <2>1, GrownExcuses DEF Good, Accounted
    <3> QED BY <1>3, <1>7, <3>1, Nesting DEF SameButOk
  <2>3. Good(t, need, Inner)
    BY <1>1, <1>3, <1>6, <1>7, <2>1, <2>2, GrownExcuses
       DEF Good, Accounted, SameButOk, FailedIn, Unwaited, Unstacked, Excused
  <2>4. InOurs(t)
    BY <1>1, <1>3, <1>7, PushedStack DEF InOurs, SameButOk
  <2> QED BY <1>3, <1>7, <2>1, <2>3, <2>4 DEF SameButOk
<1>8. CASE CallFailed(s, t, "push")
  <2>1. Good(t, need, Outer) /\ Grown(s, t) /\ FailedIn(t, {"push"})
    BY <1>5, <1>6, <1>8, FailedCall
  <2>2. Unstacked(t)
    BY <2>1 DEF Unstacked, FailedIn
  <2>3. Good(t, need, Inner)
    BY <2>1, <2>2 DEF Good, Accounted
  <2> QED BY <1>8, <2>1, <2>3 DEF InOurs, CallFailed
<1> QED BY <1>6, <1>7, <1>8

LEMMA PopStep ==
    ASSUME NEW need, NEW s, Good(s, need, Inner), NEW t \in Pop(s)
    PROVE  /\ Good(t, need, Outer) /\ Grown(s, t)
           /\ t.owns = s.owns /\ t.copying = s.copying
<1>1. s \in States /\ s.stack \in Stacks /\ (s.stack = Inner \/ Unstacked(s))
  BY DEF Good, Accounted, States
<1>2. Unstacked(s) => FailedIn(s, Calls)
  BY DEF Unstacked, FailedIn, Calls
<1>3. CASE s.stack = <<>> /\ t = [s EXCEPT !.ok = FALSE]
  <2>1. Unstacked(s)
    BY <1>1, <1>3, Nesting
  <2>2. Good(t, need, Inner) /\ Grown(s, t) /\ SameButOk(s, t)
    BY <1>1, <1>2, <1>3, <2>1, Judged
  <2>3. t \in States /\ Unstacked(t)
    BY <1>1, <2>1, <2>2, GrownExcuses DEF Good
  <2> QED BY <2>2, <2>3 DEF SameButOk, Good, Accounted
<1>4. CASE s.stack # <<>>
  <2> DEFINE after == [s EXCEPT !.stack = Front(s.stack)]
  <2>1. PICK u \in Call(s, "pop", after) : t = [u EXCEPT !.ok = u.ok /\ Last(s.stack) = "ours"]
    BY <1>4 DEF Pop
  <2>2. after \in States
    BY <1>1, <1>4, PoppedStack DEF States
  <2>3. after.owns = s.owns /\ after.copying = s.copying /\ after.out = s.out
        /\ after.torn = s.torn /\ after.failed = s.failed /\ after.left = s.left
        /\ after.stack = Front(s.stack)
    BY <1>1 DEF States
  <2>4. "pop" \in Calls
    BY DEF Calls
  <2> HIDE DEF after
  <2>5. u \in States /\ ((u.ok /\ SameButOk(after, u)) \/ CallFailed(s, u, "pop"))
    BY <1>1, <2>1, <2>2, <2>4, Called
  <2>6. /\ Good(u, need, Outer) /\ Grown(s, u)
        /\ u.owns = s.owns /\ u.copying = s.copying
    <3>1. CASE u.ok /\ SameButOk(after, u)
      <4>1. Grown(s, u)
        BY <1>1, <2>3, <2>5, <3>1, DeviceTransferAssumption DEF Grown, SameButOk, States
      <4>2. u.stack = Outer \/ Unstacked(u)
        <5>1. s.stack = Inner \/ Unstacked(u)
          BY <1>1, <2>5, <4>1, GrownExcuses
        <5> QED BY <2>3, <3>1, <5>1, Nesting DEF SameButOk
      <4>3. Good(u, need, Outer)
        BY <1>1, <2>3, <2>5, <3>1, <4>1, <4>2, GrownExcuses
           DEF Good, Accounted, SameButOk, FailedIn, Unwaited, Unstacked, Excused
      <4> QED BY <2>3, <3>1, <4>1, <4>3 DEF SameButOk
    <3>2. CASE CallFailed(s, u, "pop")
      <4>1. Good(u, need, Inner) /\ Grown(s, u) /\ FailedIn(u, {"pop"})
        BY <2>4, <2>5, <3>2, FailedCall
      <4>2. Unstacked(u)
        BY <4>1 DEF Unstacked, FailedIn
      <4> QED BY <3>2, <4>1, <4>2 DEF Good, Accounted, CallFailed
    <3> QED BY <2>5, <3>1, <3>2
  <2>7. FailedIn(u, Calls) \/ (u.ok /\ Last(s.stack) = "ours")
    <3>1. Unstacked(s) => FailedIn(u, Calls)
      BY <1>1, <1>2, <2>5, <2>6, GrownExcuses
    <3>2. ~u.ok => FailedIn(u, Calls)
      BY <2>6 DEF Good
    <3> QED BY <1>1, <3>1, <3>2, Nesting
  <2>8. (u.ok /\ Last(s.stack) = "ours") \in BOOLEAN
    OBVIOUS
  <2>9. Good(t, need, Outer) /\ Grown(u, t) /\ SameButOk(u, t)
    BY <2>1, <2>5, <2>6, <2>7, <2>8, Judged
  <2>10. t \in States
    BY <2>9 DEF Good
  <2> QED BY <1>1, <2>5, <2>6, <2>9, <2>10, GrownTransitive DEF SameButOk
<1> QED BY <1>3, <1>4 DEF Pop

(* What is wanted when the ticket owns what it owns, beside base.           *)
Own(s, base) == [r \in Resources |-> base[r] + (IF r \in s.owns THEN 1 ELSE 0)]
Holding(s, base, stack) == Good(s, Own(s, base), stack)
Less(need, r) == [need EXCEPT ![r] = @ - 1]

LEMMA HoldingSame ==
    ASSUME NEW s, NEW t, t.owns = s.owns
    PROVE  \A base : Own(t, base) = Own(s, base)
BY DEF Own

LEMMA ObtainStep ==
    ASSUME NEW base \in Needs, NEW stack, NEW s, Holding(s, base, stack),
           NEW r \in Resources, r \notin s.owns, NEW t \in Obtain(s, r)
    PROVE  /\ Holding(t, base, stack) /\ Grown(s, t) /\ t.copying = s.copying
           /\ t.owns = IF t.ok THEN s.owns \cup {r} ELSE s.owns
<1> DEFINE after == [s EXCEPT !.owns = s.owns \cup {r}, !.out = [s.out EXCEPT ![r] = @ + 1]]
<1>1. s \in States /\ s.owns \in SUBSET Resources /\ s.out \in [Resources -> Nat]
  BY DEF Holding, Good, States
<1>2. after \in States
  <2>1. s.owns \cup {r} \in SUBSET Resources
    BY <1>1
  <2>2. [s.out EXCEPT ![r] = @ + 1] \in [Resources -> Nat]
    BY <1>1
  <2> QED BY <1>1, <2>1, <2>2 DEF States
<1>3. /\ after.owns = s.owns \cup {r} /\ after.copying = s.copying
      /\ after.out = [s.out EXCEPT ![r] = @ + 1]
      /\ after.stack = s.stack
      /\ after.torn = s.torn /\ after.failed = s.failed /\ after.left = s.left
  BY <1>1 DEF States
<1>4. t \in Call(s, "obtain", after) /\ "obtain" \in Calls
  BY DEF Obtain, Calls
<1> HIDE DEF after
<1>5. t \in States /\ ((t.ok /\ SameButOk(after, t)) \/ CallFailed(s, t, "obtain"))
  BY <1>1, <1>2, <1>4, Called
<1>6. CASE t.ok /\ SameButOk(after, t)
  <2>1. Grown(s, t)
    BY <1>1, <1>3, <1>5, <1>6, DeviceTransferAssumption DEF Grown, SameButOk, States
  <2>2. ASSUME NEW q \in Resources
        PROVE  /\ t.out[q] >= Own(t, base)[q]
               /\ t.out[q] > Own(t, base)[q] => Excused(t, q)
    <3>1. /\ s.out[q] >= Own(s, base)[q]
          /\ s.out[q] > Own(s, base)[q] => Excused(t, q)
      BY <1>1, <1>5, <2>1, GrownExcuses DEF Holding, Good, Accounted
    <3>2. s.out[q] \in Nat /\ base[q] \in Nat
      BY <1>1 DEF Needs
    <3>3. CASE q = r
      <4>1. Own(s, base)[q] = base[q] /\ Own(t, base)[q] = base[q] + 1
            /\ t.out[q] = s.out[q] + 1
        BY <1>1, <1>3, <1>6, <3>2, <3>3 DEF Own, SameButOk
      <4> QED BY <3>1, <3>2, <4>1
    <3>4. CASE q # r
      <4>1. Own(s, base)[q] = Own(t, base)[q] /\ t.out[q] = s.out[q]
        BY <1>1, <1>3, <1>6, <3>2, <3>4 DEF Own, SameButOk
      <4> QED BY <3>1, <4>1
    <3> QED BY <3>3, <3>4
  <2>3. Accounted(t, Own(t, base), stack)
    BY <1>1, <1>3, <1>5, <1>6, <2>1, <2>2, GrownExcuses
       DEF Holding, Good, Accounted, SameButOk, FailedIn
  <2>4. t.copying => "stream" \in t.owns \/ Unwaited(t)
    BY <1>1, <1>3, <1>5, <1>6, <2>1, GrownExcuses DEF Holding, Good, SameButOk
  <2> QED BY <1>3, <1>5, <1>6, <2>1, <2>3, <2>4 DEF Holding, Good, SameButOk
<1>7. CASE CallFailed(s, t, "obtain")
  <2>1. Good(t, Own(s, base), stack) /\ Grown(s, t)
    BY <1>4, <1>5, <1>7, FailedCall DEF Holding
  <2>2. Own(t, base) = Own(s, base)
    BY <1>7, HoldingSame DEF CallFailed
  <2> QED BY <1>7, <2>1, <2>2 DEF Holding, CallFailed
<1> QED BY <1>5, <1>6, <1>7

(* What a call that touches no resource changes: at most a copy ends, or    *)
(* one starts in the stream of the ticket.                                  *)
Plain(s, after) ==
    /\ after \in States
    /\ after.owns = s.owns /\ after.out = s.out /\ after.stack = s.stack
    /\ after.torn = s.torn /\ after.failed = s.failed /\ after.left = s.left
    /\ after.copying => s.copying \/ "stream" \in s.owns

LEMMA PlainCall ==
    ASSUME NEW base, NEW stack, NEW s, Holding(s, base, stack),
           NEW kind \in Calls, NEW after, Plain(s, after),
           NEW t \in Call(s, kind, after)
    PROVE  /\ Holding(t, base, stack) /\ Grown(s, t) /\ t.owns = s.owns
           /\ t.ok => t.copying = after.copying
           /\ ~t.ok => FailedIn(t, {kind}) /\ t.left + 1 <= s.left /\ t.copying = s.copying
<1>1. s \in States /\ after \in States
  BY DEF Holding, Good, Plain
<1>5. t \in States /\ ((t.ok /\ SameButOk(after, t)) \/ CallFailed(s, t, kind))
  BY <1>1, Called
<1>6. CASE t.ok /\ SameButOk(after, t)
  <2>1. Grown(s, t)
    BY <1>1, <1>5, <1>6, DeviceTransferAssumption DEF Grown, SameButOk, States, Plain
  <2>2. t.owns = s.owns /\ Own(t, base) = Own(s, base)
    BY <1>6, HoldingSame DEF SameButOk, Plain
  <2>3. Holding(t, base, stack)
    BY <1>1, <1>5, <1>6, <2>1, <2>2, GrownExcuses
       DEF Holding, Good, Accounted, SameButOk, FailedIn, Plain
  <2> QED BY <1>6, <2>1, <2>2, <2>3 DEF SameButOk
<1>7. CASE CallFailed(s, t, kind)
  <2>1. Good(t, Own(s, base), stack) /\ Grown(s, t) /\ FailedIn(t, {kind}) /\ t.left + 1 <= s.left
    BY <1>5, <1>7, FailedCall DEF Holding
  <2>2. Own(t, base) = Own(s, base)
    BY <1>7, HoldingSame DEF CallFailed
  <2> QED BY <1>7, <2>1, <2>2 DEF Holding, CallFailed
<1> QED BY <1>5, <1>6, <1>7

LEMMA AwaitStep ==
    ASSUME NEW base, NEW stack, NEW s, Holding(s, base, stack), NEW t \in AwaitStream(s)
    PROVE  /\ Holding(t, base, stack) /\ Grown(s, t) /\ t.owns = s.owns /\ Idle(t)
           /\ t.ok => ~t.copying
<1> DEFINE after == [s EXCEPT !.copying = FALSE]
<1>1. Plain(s, after) /\ after.copying = FALSE
  BY DEF Holding, Good, States, Plain
<1>2. t \in Call(s, "synchronize", after) /\ "synchronize" \in Calls
  BY DEF AwaitStream, Calls
<1> HIDE DEF after
<1>3. /\ Holding(t, base, stack) /\ Grown(s, t) /\ t.owns = s.owns
      /\ t.ok => t.copying = after.copying
      /\ ~t.ok => FailedIn(t, {"synchronize"})
  BY <1>1, <1>2, PlainCall
<1>4. FailedIn(t, {"synchronize"}) => Unwaited(t)
  BY DEF FailedIn, Unwaited
<1> QED BY <1>1, <1>3, <1>4 DEF Idle, Holding, Good, States

LEMMA StartCopyStep ==
    ASSUME NEW base, NEW stack, NEW s, Holding(s, base, stack), "stream" \in s.owns,
           NEW t \in StartCopy(s)
    PROVE  /\ Holding(t, base, stack) /\ Grown(s, t) /\ t.owns = s.owns
<1> DEFINE after == [s EXCEPT !.copying = TRUE]
<1>1. Plain(s, after)
  BY DEF Holding, Good, States, Plain
<1>2. t \in Call(s, "copy", after) /\ "copy" \in Calls
  BY DEF StartCopy, Calls
<1> HIDE DEF after
<1>3. /\ Holding(t, base, stack) /\ Grown(s, t) /\ t.owns = s.owns
      /\ t.ok => t.copying = after.copying
      /\ ~t.ok => FailedIn(t, {"copy"})
  BY <1>1, <1>2, PlainCall
<1> QED BY <1>3

LEMMA BindStep ==
    ASSUME NEW base, NEW stack, NEW s, Holding(s, base, stack), NEW t \in Bind(s)
    PROVE  /\ Holding(t, base, stack) /\ Grown(s, t) /\ t.owns = s.owns
           /\ t.copying = s.copying
           /\ ~t.ok => FailedIn(t, {"bind"}) /\ t.left + 1 <= s.left
<1>1. Plain(s, s)
  BY DEF Holding, Good, Plain
<1>2. t \in Call(s, "bind", s) /\ "bind" \in Calls
  BY DEF Bind, Calls
<1>3. /\ Holding(t, base, stack) /\ Grown(s, t) /\ t.owns = s.owns
      /\ t.ok => t.copying = s.copying
      /\ ~t.ok => FailedIn(t, {"bind"}) /\ t.left + 1 <= s.left /\ t.copying = s.copying
  BY <1>1, <1>2, PlainCall
<1> QED BY <1>3

(* Freeing: what is wanted less, whether it went well or not; if it did     *)
(* not, nothing is.                                                         *)
LEMMA FreeStep ==
    ASSUME NEW need \in Needs, NEW stack, NEW s, Good(s, need, stack), Idle(s),
           NEW r \in Resources, need[r] > 0, NEW t \in Free(s, r)
    PROVE  /\ Good(t, Less(need, r), stack) /\ Grown(s, t) /\ Idle(t)
           /\ t.owns = s.owns /\ t.copying = s.copying /\ t.stack = s.stack
           /\ ~t.ok => Good(t, need, stack)
<1> DEFINE after == Freed(s, r)
<1>1. s \in States /\ s.out \in [Resources -> Nat] /\ s.out[r] >= need[r] /\ need[r] \in Nat
  BY DEF Good, Accounted, States, Needs
<1>2. [s.out EXCEPT ![r] = @ - 1] \in [Resources -> Nat]
  BY <1>1
<1>3. after \in States
  BY <1>1, <1>2 DEF Freed, States
<1>4. /\ after.owns = s.owns /\ after.copying = s.copying
      /\ after.out = [s.out EXCEPT ![r] = @ - 1]
      /\ after.stack = s.stack
      /\ after.torn => s.torn \/ s.copying
      /\ after.failed = s.failed /\ after.left = s.left
  BY <1>1 DEF Freed, States
<1>5. t \in Call(s, "free", after) /\ "free" \in Calls
  BY DEF Free, Calls
<1> HIDE DEF after
<1>6. t \in States /\ ((t.ok /\ SameButOk(after, t)) \/ CallFailed(s, t, "free"))
  BY <1>1, <1>3, <1>5, Called
<1>7. \A q \in Resources : need[q] \in Nat /\ Less(need, r)[q] = IF q = r THEN need[q] - 1 ELSE need[q]
  BY DEF Less, Needs
<1>8. CASE t.ok /\ SameButOk(after, t)
  <2>1. Grown(s, t)
    BY <1>1, <1>4, <1>6, <1>8, DeviceTransferAssumption DEF Grown, SameButOk, States
  <2>2. ASSUME NEW q \in Resources
        PROVE  /\ t.out[q] >= Less(need, r)[q]
               /\ t.out[q] > Less(need, r)[q] => Excused(t, q)
    <3>1. /\ s.out[q] >= need[q] /\ (s.out[q] > need[q] => Excused(t, q))
      BY <1>1, <1>6, <2>1, GrownExcuses DEF Good, Accounted
    <3>2. s.out[q] \in Nat /\ t.out[q] = IF q = r THEN s.out[q] - 1 ELSE s.out[q]
      BY <1>1, <1>4, <1>8 DEF SameButOk
    <3> QED BY <1>7, <3>1, <3>2
  <2>3. (s.torn \/ s.copying) => Unwaited(t)
    BY <1>1, <1>6, <2>1, GrownExcuses DEF Good, Accounted, Idle
  <2>4. Accounted(t, Less(need, r), stack)
    BY <1>1, <1>4, <1>6, <1>8, <2>1, <2>2, <2>3, GrownExcuses
       DEF Good, Accounted, SameButOk, FailedIn
  <2>5. Good(t, Less(need, r), stack) /\ Idle(t)
    BY <1>4, <1>6, <1>8, <2>3, <2>4 DEF Good, SameButOk, Idle
  <2> QED BY <1>4, <1>8, <2>1, <2>5 DEF SameButOk
<1>9. CASE CallFailed(s, t, "free")
  <2>1. Good(t, need, stack) /\ Grown(s, t) /\ FailedIn(t, {"free"})
    BY <1>5, <1>6, <1>9, FailedCall
  <2>2. \A q \in Resources : t.out[q] >= Less(need, r)[q] /\ Excused(t, q)
    <3>1. \A q \in Resources : t.out[q] >= need[q] /\ t.out[q] \in Nat
      BY <1>6, <2>1 DEF Good, Accounted, States
    <3> QED BY <1>7, <2>1, <3>1 DEF Excused
  <2>3. Good(t, Less(need, r), stack)
    BY <2>1, <2>2 DEF Good, Accounted
  <2>4. Idle(t)
    BY <1>1, <1>6, <1>9, <2>1, GrownExcuses DEF Idle, CallFailed
  <2> QED BY <1>9, <2>1, <2>3, <2>4 DEF CallFailed
<1> QED BY <1>6, <1>8, <1>9

LEMMA OwnType ==
    ASSUME NEW base \in Needs, NEW s
    PROVE  /\ Own(s, base) \in Needs
           /\ \A r \in s.owns \cap Resources : Own(s, base)[r] > 0
BY DEF Own, Needs

LEMMA Forgotten ==
    ASSUME NEW base \in Needs, NEW stack, NEW s, NEW r \in Resources, r \in s.owns,
           NEW u, Good(u, Less(Own(s, base), r), stack), Idle(u), u.owns = s.owns
    PROVE  LET t == [u EXCEPT !.owns = @ \ {r}]
           IN  /\ Holding(t, base, stack) /\ Idle(t) /\ Grown(u, t)
               /\ t.owns = s.owns \ {r} /\ t.stack = u.stack /\ t.ok = u.ok
<1> DEFINE t == [u EXCEPT !.owns = u.owns \ {r}]
<1>1. u \in States
  BY DEF Good
<1>2. t \in States
  BY <1>1 DEF States
<1>3. /\ t.owns = s.owns \ {r} /\ t.copying = u.copying /\ t.out = u.out /\ t.stack = u.stack
      /\ t.torn = u.torn /\ t.failed = u.failed /\ t.left = u.left /\ t.ok = u.ok
  BY <1>1 DEF States
<1> HIDE DEF t
<1>4. Grown(u, t)
  BY <1>1, <1>3, DeviceTransferAssumption DEF Grown, States
<1>5. Own(t, base) = Less(Own(s, base), r)
  <2>1. Own(s, base) \in Needs /\ Own(t, base) \in Needs
    BY OwnType
  <2>2. /\ Less(Own(s, base), r) = [q \in Resources |-> Less(Own(s, base), r)[q]]
        /\ Own(t, base) = [q \in Resources |-> Own(t, base)[q]]
    BY <2>1 DEF Less, Needs
  <2>3. ASSUME NEW q \in Resources PROVE Less(Own(s, base), r)[q] = Own(t, base)[q]
    <3>1. Less(Own(s, base), r)[q] = IF q = r THEN Own(s, base)[q] - 1 ELSE Own(s, base)[q]
      BY <2>1 DEF Less, Needs
    <3>2. base[q] \in Nat
      BY DEF Needs
    <3>3. /\ Own(s, base)[q] = base[q] + (IF q \in s.owns THEN 1 ELSE 0)
          /\ Own(t, base)[q] = base[q] + (IF q \in t.owns THEN 1 ELSE 0)
      BY DEF Own
    <3> QED BY <1>3, <3>1, <3>2, <3>3
  <2> QED BY <2>2, <2>3
<1>6. Accounted(t, Own(t, base), stack)
  BY <1>1, <1>2, <1>3, <1>4, <1>5, GrownExcuses DEF Good, Accounted, FailedIn
<1>7. Idle(t)
  BY <1>1, <1>2, <1>3, <1>4, GrownExcuses DEF Idle
<1>8. Holding(t, base, stack)
  BY <1>1, <1>2, <1>3, <1>4, <1>6, <1>7, GrownExcuses DEF Holding, Good, Idle
<1> QED BY <1>3, <1>4, <1>7, <1>8 DEF t

(* free_in_context, in the context of the ticket or after a failed push.    *)
LEMMA FreeInContextStep ==
    ASSUME NEW need \in Needs, NEW stack, NEW s, Good(s, need, stack), Idle(s), InOurs(s),
           NEW r \in Resources \ {"context"}, need[r] > 0, NEW t \in FreeInContext(s, r)
    PROVE  /\ Good(t, Less(need, r), stack) /\ Grown(s, t) /\ Idle(t)
           /\ t.owns = s.owns /\ t.copying = s.copying /\ t.stack = s.stack
<1>1. CASE t \in Free(s, r)
  BY <1>1, FreeStep
<1>2. CASE (s.stack = <<>> \/ Last(s.stack) # "ours") /\ t = [s EXCEPT !.ok = FALSE]
  <2>1. FailedIn(s, {"push"}) /\ s \in States
    BY <1>2 DEF InOurs, Good
  <2>2. FailedIn(s, Calls)
    BY <2>1 DEF FailedIn, Calls
  <2>3. Good(t, need, stack) /\ Grown(s, t) /\ SameButOk(s, t)
    BY <1>2, <2>1, <2>2, Judged
  <2>4. t \in States
    BY <2>3 DEF Good
  <2>5. Unwaited(s) => Unwaited(t)
    BY <2>1, <2>3, <2>4, GrownExcuses
  <2>6. ASSUME NEW q \in Resources
        PROVE  t.out[q] >= Less(need, r)[q] /\ (t.out[q] > Less(need, r)[q] => Excused(t, q))
    <3>1. /\ need[q] \in Nat /\ need[r] \in Nat
          /\ Less(need, r)[q] = IF q = r THEN need[q] - 1 ELSE need[q]
      BY DEF Less, Needs
    <3>2. t.out[q] >= need[q] /\ t.out[q] \in Nat /\ (t.out[q] > need[q] => Excused(t, q))
      BY <2>3 DEF Good, Accounted, States
    <3>3. Excused(t, r)
      BY <2>1, <2>3, <2>4, GrownExcuses DEF Excused
    <3> QED BY <3>1, <3>2, <3>3
  <2>7. Good(t, Less(need, r), stack)
    BY <2>3, <2>6 DEF Good, Accounted
  <2> QED BY <2>3, <2>5, <2>7 DEF Idle, SameButOk
<1> QED BY <1>1, <1>2 DEF FreeInContext, If

LEMMA CudaDiscardStep ==
    ASSUME NEW base \in Needs, NEW stack, NEW s, Holding(s, base, stack), Idle(s), InOurs(s),
           NEW r \in Resources \ {"context"}, NEW t \in CudaDiscard(s, r)
    PROVE  /\ Holding(t, base, stack) /\ Grown(s, t) /\ Idle(t) /\ InOurs(t)
           /\ t.owns = s.owns \ {r}
<1>1. s \in States
  BY DEF Holding, Good
<1>2. CASE r \in s.owns
  <2>1. PICK u \in FreeInContext(s, r) : t = [u EXCEPT !.owns = @ \ {r}]
    BY <1>2 DEF CudaDiscard, Forget
  <2>2. Own(s, base) \in Needs /\ Own(s, base)[r] > 0
    BY <1>2, OwnType
  <2>3. /\ Good(u, Less(Own(s, base), r), stack) /\ Grown(s, u) /\ Idle(u)
        /\ u.owns = s.owns /\ u.stack = s.stack
    BY <2>1, <2>2, FreeInContextStep DEF Holding
  <2>4. /\ Holding(t, base, stack) /\ Idle(t) /\ Grown(u, t)
        /\ t.owns = s.owns \ {r} /\ t.stack = u.stack
    BY <1>2, <2>1, <2>3, Forgotten
  <2>5. u \in States /\ t \in States
    BY <2>3, <2>4 DEF Holding, Good
  <2>6. Grown(s, t)
    BY <1>1, <2>3, <2>4, <2>5, GrownTransitive
  <2> QED BY <1>1, <2>3, <2>4, <2>5, <2>6, GrownExcuses DEF InOurs
<1>3. CASE r \notin s.owns
  <2>1. t = s
    BY <1>3 DEF CudaDiscard
  <2>2. Grown(s, s)
    BY <1>1, DeviceTransferAssumption DEF Grown, States
  <2> QED BY <1>3, <2>1, <2>2
<1> QED BY <1>2, <1>3

LEMMA RocmDiscardStep ==
    ASSUME NEW base \in Needs, NEW stack, NEW s, Holding(s, base, stack), Idle(s),
           NEW r \in Resources, NEW t \in RocmDiscard(s, r)
    PROVE  /\ Holding(t, base, stack) /\ Grown(s, t) /\ Idle(t)
           /\ t.owns = s.owns \ {r}
<1>1. s \in States
  BY DEF Holding, Good
<1>2. CASE r \in s.owns
  <2>1. PICK u \in Free(s, r) : t = [u EXCEPT !.owns = @ \ {r}]
    BY <1>2 DEF RocmDiscard, Forget
  <2>2. Own(s, base) \in Needs /\ Own(s, base)[r] > 0
    BY <1>2, OwnType
  <2>3. /\ Good(u, Less(Own(s, base), r), stack) /\ Grown(s, u) /\ Idle(u)
        /\ u.owns = s.owns
    BY <2>1, <2>2, FreeStep DEF Holding
  <2>4. /\ Holding(t, base, stack) /\ Idle(t) /\ Grown(u, t)
        /\ t.owns = s.owns \ {r}
    BY <1>2, <2>1, <2>3, Forgotten
  <2>5. u \in States /\ t \in States
    BY <2>3, <2>4 DEF Holding, Good
  <2> QED BY <1>1, <2>3, <2>4, <2>5, GrownTransitive
<1>3. CASE r \notin s.owns
  <2>1. t = s
    BY <1>3 DEF RocmDiscard
  <2>2. Grown(s, s)
    BY <1>1, DeviceTransferAssumption DEF Grown, States
  <2> QED BY <1>3, <2>1, <2>2
<1> QED BY <1>2, <1>3

LEMMA ReleaseContextStep ==
    ASSUME NEW base \in Needs, NEW stack, NEW s, Holding(s, base, stack), Idle(s),
           "context" \in s.owns, NEW t \in ReleaseContext(s)
    PROVE  /\ Holding(t, base, stack) /\ Grown(s, t) /\ Idle(t)
           /\ t.owns = s.owns \ {"context"}
<1>1. t \in RocmDiscard(s, "context") /\ "context" \in Resources
  BY DEF ReleaseContext, RocmDiscard, Resources
<1> QED BY <1>1, RocmDiscardStep

LEMMA ReleaseStep ==
    ASSUME NEW base \in Needs, NEW stack, NEW s, Holding(s, base, stack), Idle(s),
           NEW r \in Resources, NEW t \in Release(s, r)
    PROVE  /\ Holding(t, base, stack) /\ Grown(s, t) /\ Idle(t)
           /\ t.ok /\ s.ok => t.owns = s.owns \ {r}
           /\ t.owns \in {s.owns, s.owns \ {r}}
           /\ r \in s.owns /\ t.ok => t.owns = s.owns \ {r}
<1>1. s \in States
  BY DEF Holding, Good
<1>2. CASE r \in s.owns
  <2>1. PICK u \in Free(s, r) : t = IF u.ok THEN [u EXCEPT !.owns = @ \ {r}] ELSE u
    BY <1>2 DEF Release
  <2>2. Own(s, base) \in Needs /\ Own(s, base)[r] > 0
    BY <1>2, OwnType
  <2>3. /\ Good(u, Less(Own(s, base), r), stack) /\ Grown(s, u) /\ Idle(u)
        /\ u.owns = s.owns /\ (~u.ok => Good(u, Own(s, base), stack))
    BY <2>1, <2>2, FreeStep DEF Holding
  <2>4. CASE u.ok
    <3>0. t = [u EXCEPT !.owns = @ \ {r}]
      BY <2>1, <2>4
    <3>1. /\ Holding(t, base, stack) /\ Idle(t) /\ Grown(u, t)
          /\ t.owns = s.owns \ {r} /\ t.ok = u.ok
      BY <1>2, <2>3, <3>0, Forgotten
    <3>2. u \in States /\ t \in States
      BY <2>3, <3>1 DEF Holding, Good
    <3> QED BY <1>1, <2>3, <3>1, <3>2, GrownTransitive
  <2>5. CASE ~u.ok
    <3>1. t = u /\ Own(u, base) = Own(s, base)
      BY <2>1, <2>3, <2>5, HoldingSame
    <3> QED BY <2>3, <2>5, <3>1 DEF Holding
  <2> QED BY <2>4, <2>5
<1>3. CASE r \notin s.owns
  <2>1. t = s
    BY <1>3 DEF Release
  <2>2. Grown(s, s)
    BY <1>1, DeviceTransferAssumption DEF Grown, States
  <2> QED BY <1>3, <2>1, <2>2
<1> QED BY <1>2, <1>3

LEMMA GoodStates ==
    ASSUME NEW s, NEW need, NEW stack, Good(s, need, stack)
    PROVE  s \in States /\ Grown(s, s)
BY DeviceTransferAssumption DEF Good, Grown, States

LEMMA IdleOn ==
    ASSUME NEW s \in States, NEW t \in States, Grown(s, t), Idle(s), t.copying = s.copying
    PROVE  Idle(t)
BY GrownExcuses DEF Idle

(* The ticket's stream is waited for in the ticket's context.               *)
LEMMA CudaSynchronizeStep ==
    ASSUME NEW base \in Needs, NEW s, Holding(s, base, Outer), NEW t \in CudaSynchronize(s)
    PROVE  /\ Holding(t, base, Outer) /\ Grown(s, t) /\ Idle(t) /\ t.owns = s.owns
<1>1. PICK p \in Push(s) :
          \/ ~p.ok /\ t = p
          \/ \E o \in AwaitStream(p) : \E q \in Pop(o) : t = [q EXCEPT !.ok = @ /\ o.ok]
  BY DEF CudaSynchronize, InContext
<1>2. /\ Good(p, Own(s, base), Inner) /\ Grown(s, p) /\ p.owns = s.owns
      /\ ~p.ok => Good(p, Own(s, base), Outer) /\ FailedIn(p, {"push"})
  BY PushStep DEF Holding
<1>3. Own(p, base) = Own(s, base)
  BY <1>2, HoldingSame
<1>4. s \in States /\ p \in States
  BY <1>2, GoodStates DEF Holding
<1>5. CASE ~p.ok /\ t = p
  <2>1. Unwaited(p)
    BY <1>2, <1>5 DEF Unwaited, FailedIn
  <2> QED BY <1>2, <1>3, <1>5, <2>1 DEF Holding, Idle
<1>6. ASSUME NEW o \in AwaitStream(p), NEW q \in Pop(o), t = [q EXCEPT !.ok = @ /\ o.ok]
      PROVE  Holding(t, base, Outer) /\ Grown(s, t) /\ Idle(t) /\ t.owns = s.owns
  <2>1. Holding(o, base, Inner) /\ Grown(p, o) /\ Idle(o) /\ o.owns = p.owns
    BY <1>2, <1>3, AwaitStep DEF Holding
  <2>2. /\ Good(q, Own(o, base), Outer) /\ Grown(o, q)
        /\ q.owns = o.owns /\ q.copying = o.copying
    BY <2>1, PopStep DEF Holding
  <2>3. o \in States /\ q \in States
    BY <2>1, <2>2, GoodStates DEF Holding
  <2>4. (q.ok /\ o.ok) \in BOOLEAN /\ ((q.ok /\ o.ok) \/ FailedIn(q, Calls))
    <3>1. (~o.ok => FailedIn(o, Calls)) /\ (~q.ok => FailedIn(q, Calls))
      BY <2>1, <2>2 DEF Holding, Good
    <3> QED BY <2>2, <2>3, <3>1, GrownExcuses
  <2>5. Good(t, Own(o, base), Outer) /\ Grown(q, t) /\ SameButOk(q, t)
    BY <1>6, <2>2, <2>3, <2>4, Judged
  <2>6. t \in States /\ t.owns = q.owns /\ t.copying = q.copying
    BY <2>5, GoodStates DEF SameButOk
  <2>7. Own(t, base) = Own(o, base)
    BY <2>2, <2>6, HoldingSame
  <2>8. Grown(o, t) /\ Grown(p, t) /\ Grown(s, t)
    BY <1>2, <1>4, <2>1, <2>2, <2>3, <2>5, <2>6, GrownTransitive
  <2>9. Idle(t)
    BY <2>1, <2>2, <2>3, <2>6, <2>8, IdleOn
  <2> QED BY <1>2, <2>1, <2>2, <2>5, <2>6, <2>7, <2>8, <2>9 DEF Holding
<1> QED BY <1>1, <1>5, <1>6

LEMMA DiscardInContextStep ==
    ASSUME NEW base \in Needs, NEW stack, NEW s, Holding(s, base, stack), Idle(s), InOurs(s),
           NEW t \in DiscardInContext(s)
    PROVE  /\ Holding(t, base, stack) /\ Grown(s, t) /\ Idle(t)
           /\ t.owns = s.owns \ {"stream", "device", "host"}
<1>0. PICK a \in CudaDiscard(s, "stream") :
          \E b \in CudaDiscard(a, "device") : t \in CudaDiscard(b, "host")
  BY DEF DiscardInContext, Then
<1>1. PICK b \in CudaDiscard(a, "device") : t \in CudaDiscard(b, "host")
  BY <1>0
<1>2. {"stream", "device", "host"} \subseteq Resources \ {"context"}
  BY DEF Resources
<1>3. /\ Holding(a, base, stack) /\ Grown(s, a) /\ Idle(a) /\ InOurs(a)
      /\ a.owns = s.owns \ {"stream"}
  BY <1>2, CudaDiscardStep
<1>4. /\ Holding(b, base, stack) /\ Grown(a, b) /\ Idle(b) /\ InOurs(b)
      /\ b.owns = a.owns \ {"device"}
  BY <1>2, <1>3, CudaDiscardStep
<1>5. /\ Holding(t, base, stack) /\ Grown(b, t) /\ Idle(t)
      /\ t.owns = b.owns \ {"host"}
  BY <1>1, <1>2, <1>4, CudaDiscardStep
<1>6. s \in States /\ a \in States /\ b \in States /\ t \in States
  BY <1>3, <1>4, <1>5, GoodStates DEF Holding
<1>7. Grown(s, b) /\ Grown(s, t)
  BY <1>3, <1>4, <1>5, <1>6, GrownTransitive
<1> QED BY <1>3, <1>4, <1>5, <1>7

(* cleanup leaves the ticket nothing, whatever fails.                       *)
LEMMA CudaCleanupStep ==
    ASSUME NEW base \in Needs, NEW s, Holding(s, base, Outer),
           "context" \in s.owns \/ s.owns = {}, NEW t \in CudaCleanup(s)
    PROVE  /\ Holding(t, base, Outer) /\ Grown(s, t) /\ t.owns = {}
<1>1. s \in States /\ Grown(s, s) /\ s.owns \subseteq Resources
  BY GoodStates DEF Holding, States
<1>2. CASE "context" \notin s.owns
  BY <1>1, <1>2 DEF CudaCleanup
<1>3. CASE "context" \in s.owns
  <2>1. PICK w \in IF "stream" \in s.owns THEN CudaSynchronize(s) ELSE {s} :
        \E p \in Push(w) : \E d \in DiscardInContext(p) : \E q \in Pop(d) :
            t \in ReleaseContext(q)
    BY <1>3 DEF CudaCleanup, Then
  <2>2. Holding(w, base, Outer) /\ Grown(s, w) /\ Idle(w) /\ w.owns = s.owns
    <3>1. CASE "stream" \in s.owns
      BY <2>1, <3>1, CudaSynchronizeStep
    <3>2. CASE "stream" \notin s.owns
      BY <1>1, <2>1, <3>2 DEF Holding, Good, Idle
    <3> QED BY <3>1, <3>2
  <2>3. PICK p \in Push(w) : \E d \in DiscardInContext(p) : \E q \in Pop(d) :
            t \in ReleaseContext(q)
    BY <2>1
  <2>4. /\ Good(p, Own(w, base), Inner) /\ Grown(w, p) /\ InOurs(p)
        /\ p.owns = w.owns /\ p.copying = w.copying
    BY <2>2, PushStep DEF Holding
  <2>5. w \in States /\ p \in States /\ Own(p, base) = Own(w, base)
    BY <2>2, <2>4, GoodStates, HoldingSame DEF Holding
  <2>6. Holding(p, base, Inner) /\ Idle(p)
    BY <2>2, <2>4, <2>5, IdleOn DEF Holding
  <2>7. PICK d \in DiscardInContext(p) : \E q \in Pop(d) : t \in ReleaseContext(q)
    BY <2>3
  <2>8. /\ Holding(d, base, Inner) /\ Grown(p, d) /\ Idle(d)
        /\ d.owns = p.owns \ {"stream", "device", "host"}
    BY <2>4, <2>6, DiscardInContextStep
  <2>9. PICK q \in Pop(d) : t \in ReleaseContext(q)
    BY <2>7
  <2>10. /\ Good(q, Own(d, base), Outer) /\ Grown(d, q)
         /\ q.owns = d.owns /\ q.copying = d.copying
    BY <2>8, PopStep DEF Holding
  <2>11. d \in States /\ q \in States /\ Own(q, base) = Own(d, base)
    BY <2>8, <2>10, GoodStates, HoldingSame DEF Holding
  <2>12. Holding(q, base, Outer) /\ Idle(q)
    BY <2>8, <2>10, <2>11, IdleOn DEF Holding
  <2>13. "context" \in q.owns
    BY <1>3, <2>2, <2>4, <2>8, <2>10
  <2>14. /\ Holding(t, base, Outer) /\ Grown(q, t) /\ t.owns = q.owns \ {"context"}
    BY <2>9, <2>12, <2>13, ReleaseContextStep
  <2>15. t.owns = {}
    BY <1>1, <2>2, <2>4, <2>8, <2>10, <2>14 DEF Resources
  <2>16. Grown(s, t)
    <3>1. t \in States
      BY <2>14, GoodStates DEF Holding
    <3>2. Grown(s, p) /\ Grown(s, d) /\ Grown(s, q)
      BY <1>1, <2>2, <2>4, <2>5, <2>8, <2>10, <2>11, GrownTransitive
    <3> QED BY <1>1, <2>11, <2>14, <3>1, <3>2, GrownTransitive
  <2> QED BY <2>14, <2>15, <2>16
<1> QED BY <1>2, <1>3

LEMMA DiscardBoundStep ==
    ASSUME NEW base \in Needs, NEW s, Holding(s, base, Outer), "context" \notin s.owns,
           NEW t \in DiscardBound(s)
    PROVE  Holding(t, base, Outer) /\ Grown(s, t) /\ t.owns = {}
<1>1. s \in States /\ Grown(s, s) /\ s.owns \subseteq Resources
  BY GoodStates DEF Holding, States
<1>2. PICK w \in IF "stream" \in s.owns THEN RocmSynchronize(s) ELSE {s} :
      \E a \in RocmDiscard(w, "stream") : \E b \in RocmDiscard(a, "device") :
          t \in RocmDiscard(b, "host")
  BY DEF DiscardBound, Then
<1>3. Holding(w, base, Outer) /\ Grown(s, w) /\ Idle(w) /\ w.owns = s.owns
  <2>1. CASE "stream" \in s.owns
    <3>1. PICK b \in Bind(s) : w \in IF b.ok THEN AwaitStream(b) ELSE {b}
      BY <1>2, <2>1 DEF RocmSynchronize, IfOk
    <3>2. /\ Holding(b, base, Outer) /\ Grown(s, b) /\ b.owns = s.owns
          /\ ~b.ok => FailedIn(b, {"bind"})
      BY BindStep
    <3>3. CASE b.ok
      <4>1. w \in AwaitStream(b)
        BY <3>1, <3>3
      <4>2. Holding(w, base, Outer) /\ Grown(b, w) /\ w.owns = b.owns /\ Idle(w)
        BY <3>2, <4>1, AwaitStep
      <4>3. b \in States /\ w \in States
        BY <3>2, <4>2, GoodStates DEF Holding
      <4> QED BY <1>1, <3>2, <4>2, <4>3, GrownTransitive
    <3>4. CASE ~b.ok
      BY <3>1, <3>2, <3>4 DEF Idle, Unwaited, FailedIn
    <3> QED BY <3>3, <3>4
  <2>2. CASE "stream" \notin s.owns
    BY <1>1, <1>2, <2>2 DEF Holding, Good, Idle
  <2> QED BY <2>1, <2>2
<1>4. {"stream", "device", "host"} \subseteq Resources
  BY DEF Resources
<1>5. PICK a \in RocmDiscard(w, "stream") : \E b \in RocmDiscard(a, "device") :
          t \in RocmDiscard(b, "host")
  BY <1>2
<1>6. Holding(a, base, Outer) /\ Grown(w, a) /\ Idle(a) /\ a.owns = w.owns \ {"stream"}
  BY <1>3, <1>4, RocmDiscardStep
<1>7. PICK b \in RocmDiscard(a, "device") : t \in RocmDiscard(b, "host")
  BY <1>5
<1>8. Holding(b, base, Outer) /\ Grown(a, b) /\ Idle(b) /\ b.owns = a.owns \ {"device"}
  BY <1>4, <1>6, RocmDiscardStep
<1>9. Holding(t, base, Outer) /\ Grown(b, t) /\ t.owns = b.owns \ {"host"}
  BY <1>4, <1>7, <1>8, RocmDiscardStep
<1>10. t.owns = {}
  BY <1>1, <1>3, <1>6, <1>8, <1>9 DEF Resources
<1>11. Grown(s, t)
  <2>1. w \in States /\ a \in States /\ b \in States /\ t \in States
    BY <1>3, <1>6, <1>8, <1>9, GoodStates DEF Holding
  <2>2. Grown(s, a) /\ Grown(s, b)
    BY <1>1, <1>3, <1>6, <1>8, <2>1, GrownTransitive
  <2> QED BY <1>1, <1>9, <2>1, <2>2, GrownTransitive
<1> QED BY <1>9, <1>10, <1>11

(* The ROCm cleanup frees it all, unless the device cannot be bound.        *)
LEMMA RocmCleanupStep ==
    ASSUME NEW base \in Needs, NEW s, Holding(s, base, Outer), "context" \notin s.owns,
           NEW t \in RocmCleanup(s)
    PROVE  /\ Holding(t, base, Outer) /\ Grown(s, t) /\ "context" \notin t.owns
           /\ \/ t.owns = {}
              \/ FailedIn(t, {"bind"}) /\ t.left + 1 <= s.left
<1>1. s \in States /\ Grown(s, s)
  BY GoodStates DEF Holding
<1>2. CASE s.owns = {}
  BY <1>1, <1>2 DEF RocmCleanup
<1>3. CASE s.owns # {}
  <2>1. PICK b \in Bind(s) : t \in IF b.ok THEN DiscardBound(b) ELSE {b}
    BY <1>3 DEF RocmCleanup, IfOk
  <2>2. /\ Holding(b, base, Outer) /\ Grown(s, b) /\ b.owns = s.owns
        /\ ~b.ok => FailedIn(b, {"bind"}) /\ b.left + 1 <= s.left
    BY BindStep
  <2>3. CASE b.ok
    <3>1. t \in DiscardBound(b)
      BY <2>1, <2>3
    <3>2. Holding(t, base, Outer) /\ Grown(b, t) /\ t.owns = {}
      BY <2>2, <3>1, DiscardBoundStep
    <3>3. b \in States /\ t \in States
      BY <2>2, <3>2, GoodStates DEF Holding
    <3> QED BY <1>1, <2>2, <3>2, <3>3, GrownTransitive
  <2>4. CASE ~b.ok
    BY <2>1, <2>2, <2>4
  <2> QED BY <2>3, <2>4
<1> QED BY <1>2, <1>3

(* A resource that is lost with an excuse is wanted no more.                *)
LEMMA Waived ==
    ASSUME NEW need \in Needs, NEW stack, NEW s, Good(s, need, stack),
           NEW r \in Resources, need[r] > 0, Excused(s, r)
    PROVE  Good(s, Less(need, r), stack)
<1>1. ASSUME NEW q \in Resources
      PROVE  s.out[q] >= Less(need, r)[q] /\ (s.out[q] > Less(need, r)[q] => Excused(s, q))
  <2>1. /\ need[q] \in Nat /\ need[r] \in Nat
        /\ Less(need, r)[q] = IF q = r THEN need[q] - 1 ELSE need[q]
    BY DEF Less, Needs
  <2>2. s.out[q] >= need[q] /\ s.out[q] \in Nat /\ (s.out[q] > need[q] => Excused(s, q))
    BY DEF Good, Accounted, States
  <2> QED BY <2>1, <2>2
<1> QED BY <1>1 DEF Good, Accounted

LEMMA LessType ==
    ASSUME NEW need \in Needs, NEW r \in Resources, need[r] > 0
    PROVE  /\ Less(need, r) \in Needs
           /\ \A q \in Resources : Less(need, r)[q] = IF q = r THEN need[q] - 1 ELSE need[q]
BY DEF Less, Needs

(* A batch that is dropped, of what its owner wants.                        *)
LEMMA CudaDropBatchStep ==
    ASSUME NEW need \in Needs, need["device"] > 0, need["context"] > 0,
           NEW s, Good(s, need, Outer), Idle(s), NEW t \in CudaDropBatch(s)
    PROVE  /\ t \in States /\ Grown(s, t)
           /\ Accounted(t, Less(Less(need, "device"), "context"), Outer)
<1>0. "device" \in Resources /\ "context" \in Resources /\ "device" # "context"
  BY DEF Resources
<1> DEFINE rest == Less(need, "device")
<1>1. rest \in Needs /\ rest["context"] > 0
  BY <1>0, LessType
<1>2. PICK p \in Push(s) :
        \/ p.ok /\ \E f \in Free(p, "device") : \E q \in Pop(f) : t \in ReleaseContext(q)
        \/ ~p.ok /\ t \in ReleaseContext(p)
  BY DEF CudaDropBatch, Then
<1>3. /\ Good(p, need, Inner) /\ Grown(s, p) /\ p.copying = s.copying
      /\ ~p.ok => Good(p, need, Outer) /\ FailedIn(p, {"push"})
  BY PushStep
<1>4. s \in States /\ p \in States /\ Idle(p)
  BY <1>3, GoodStates, IdleOn
<1> HIDE DEF rest
<1>5. PICK q : Good(q, rest, Outer) /\ Grown(s, q) /\ Idle(q) /\ t \in ReleaseContext(q)
  <2>1. CASE p.ok
    <3>1. PICK f \in Free(p, "device") : \E q \in Pop(f) : t \in ReleaseContext(q)
      BY <1>2, <2>1
    <3>2. Good(f, rest, Inner) /\ Grown(p, f) /\ Idle(f)
      BY <1>0, <1>3, <1>4, FreeStep DEF rest
    <3>3. PICK q \in Pop(f) : t \in ReleaseContext(q)
      BY <3>1
    <3>4. Good(q, rest, Outer) /\ Grown(f, q) /\ q.copying = f.copying
      BY <3>2, PopStep
    <3>5. f \in States /\ q \in States
      BY <3>2, <3>4, GoodStates
    <3>6. Idle(q) /\ Grown(s, f)
      BY <1>3, <1>4, <3>2, <3>4, <3>5, IdleOn, GrownTransitive
    <3>7. Grown(s, q)
      BY <1>4, <3>4, <3>5, <3>6, GrownTransitive
    <3> QED BY <3>3, <3>4, <3>6, <3>7
  <2>2. CASE ~p.ok
    <3>1. Excused(p, "device")
      BY <1>3, <2>2 DEF Excused
    <3>2. Good(p, rest, Outer)
      BY <1>0, <1>3, <2>2, <3>1, Waived DEF rest
    <3> QED BY <1>2, <1>3, <1>4, <2>2, <3>2
  <2> QED BY <2>1, <2>2
<1>6. PICK v \in Free(q, "context") : t = [v EXCEPT !.owns = @ \ {"context"}]
  BY <1>5 DEF ReleaseContext, Forget
<1>7. Good(v, Less(rest, "context"), Outer) /\ Grown(q, v)
  BY <1>0, <1>1, <1>5, FreeStep
<1>8. q \in States /\ v \in States
  BY <1>5, <1>7, GoodStates
<1>9. /\ t \in States /\ t.out = v.out /\ t.stack = v.stack
      /\ t.torn = v.torn /\ t.failed = v.failed /\ t.left = v.left
  BY <1>6, <1>8 DEF States
<1>10. Grown(v, t)
  BY <1>8, <1>9, DeviceTransferAssumption DEF Grown, States
<1>11. Grown(s, t)
  <2>1. Grown(s, v)
    BY <1>4, <1>5, <1>7, <1>8, GrownTransitive
  <2> QED BY <1>4, <1>8, <1>9, <1>10, <2>1, GrownTransitive
<1>12. Accounted(t, Less(rest, "context"), Outer)
  BY <1>7, <1>8, <1>9, <1>10, GrownExcuses DEF Good, Accounted, FailedIn
<1> QED BY <1>9, <1>11, <1>12 DEF rest

LEMMA RocmDropBatchStep ==
    ASSUME NEW base \in Needs, NEW s, Holding(s, base, Outer), Idle(s), "device" \in s.owns,
           NEW t \in RocmDropBatch(s)
    PROVE  /\ t \in States /\ Grown(s, t)
           /\ Accounted(t, Less(Own(s, base), "device"), Outer)
<1> DEFINE need == Own(s, base)
<1>0. "device" \in Resources /\ need \in Needs /\ need["device"] > 0
  <2>1. "device" \in Resources
    BY DEF Resources
  <2> QED BY <2>1, OwnType
<1>1. PICK b \in Bind(s) : t \in IF b.ok THEN Free(b, "device") ELSE {b}
  BY DEF RocmDropBatch, IfOk
<1>2. /\ Holding(b, base, Outer) /\ Grown(s, b) /\ b.owns = s.owns /\ b.copying = s.copying
      /\ ~b.ok => FailedIn(b, {"bind"})
  BY BindStep
<1>3. s \in States /\ b \in States /\ Good(b, need, Outer)
  BY <1>2, GoodStates, HoldingSame DEF Holding
<1>4. Idle(b)
  BY <1>2, <1>3, IdleOn
<1> HIDE DEF need
<1>5. CASE b.ok
  <2>1. t \in Free(b, "device")
    BY <1>1, <1>5
  <2>2. Good(t, Less(need, "device"), Outer) /\ Grown(b, t)
    BY <1>0, <1>3, <1>4, <2>1, FreeStep
  <2>3. t \in States
    BY <2>2, GoodStates
  <2>4. Grown(s, t)
    BY <1>2, <1>3, <2>2, <2>3, GrownTransitive
  <2> QED BY <2>2, <2>3, <2>4 DEF Good, need
<1>6. CASE ~b.ok
  <2>1. Excused(b, "device")
    BY <1>2, <1>6 DEF Excused
  <2>2. Good(b, Less(need, "device"), Outer)
    BY <1>0, <1>3, <2>1, Waived
  <2> QED BY <1>1, <1>2, <1>3, <1>6, <2>2 DEF Good, need
<1> QED BY <1>5, <1>6

LEMMA ReleaseStagingStep ==
    ASSUME NEW base \in Needs, NEW stack, NEW s, Holding(s, base, stack), Idle(s),
           NEW t \in ReleaseStagingOf(s)
    PROVE  /\ Holding(t, base, stack) /\ Grown(s, t)
           /\ t.owns \subseteq s.owns
           /\ "context" \in s.owns => "context" \in t.owns
           /\ t.ok => t.owns = s.owns \ {"host", "stream"}
<1> DEFINE begun == [s EXCEPT !.ok = TRUE]
<1>1. s \in States
  BY GoodStates DEF Holding
<1>2. /\ Good(begun, Own(s, base), stack) /\ Grown(s, begun) /\ SameButOk(s, begun)
      /\ begun.ok = TRUE
  BY <1>1, Judged DEF Holding
<1>3. begun \in States /\ Own(begun, base) = Own(s, base) /\ begun.owns = s.owns
  BY <1>2, GoodStates, HoldingSame DEF SameButOk
<1>4. Holding(begun, base, stack) /\ Idle(begun)
  BY <1>1, <1>2, <1>3, IdleOn DEF Holding, SameButOk
<1>5. PICK u \in Release(begun, "stream") :
        \E v \in Release(u, "host") : t = [v EXCEPT !.ok = v.ok /\ u.ok]
  BY DEF ReleaseStagingOf
<1>6. PICK v \in Release(u, "host") : t = [v EXCEPT !.ok = v.ok /\ u.ok]
  BY <1>5
<1>7. "stream" \in Resources /\ "host" \in Resources
  BY DEF Resources
<1> HIDE DEF begun
<1>8. /\ Holding(u, base, stack) /\ Grown(begun, u) /\ Idle(u)
      /\ u.ok => u.owns = begun.owns \ {"stream"}
      /\ u.owns \in {begun.owns, begun.owns \ {"stream"}}
  BY <1>2, <1>4, <1>5, <1>7, ReleaseStep
<1>9. /\ Holding(v, base, stack) /\ Grown(u, v)
      /\ v.ok /\ u.ok => v.owns = u.owns \ {"host"}
      /\ v.owns \in {u.owns, u.owns \ {"host"}}
  BY <1>6, <1>7, <1>8, ReleaseStep
<1>10. u \in States /\ v \in States
  BY <1>8, <1>9, GoodStates DEF Holding
<1>11. (v.ok /\ u.ok) \in BOOLEAN /\ ((v.ok /\ u.ok) \/ FailedIn(v, Calls))
  <2>1. (~u.ok => FailedIn(u, Calls)) /\ (~v.ok => FailedIn(v, Calls))
    BY <1>8, <1>9 DEF Holding, Good
  <2> QED BY <1>9, <1>10, <2>1, GrownExcuses
<1>12. /\ Good(t, Own(v, base), stack) /\ Grown(v, t) /\ SameButOk(v, t)
       /\ t.ok = (v.ok /\ u.ok)
  BY <1>6, <1>9, <1>10, <1>11, Judged DEF Holding
<1>13. t \in States /\ Own(t, base) = Own(v, base) /\ t.owns = v.owns
  BY <1>12, GoodStates, HoldingSame DEF SameButOk
<1>14. Grown(s, u) /\ Grown(s, v)
  BY <1>1, <1>2, <1>3, <1>8, <1>9, <1>10, GrownTransitive
<1>15. Grown(s, t)
  BY <1>1, <1>10, <1>12, <1>13, <1>14, GrownTransitive
<1>16. t.ok => t.owns = s.owns \ {"host", "stream"}
  BY <1>3, <1>8, <1>9, <1>12, <1>13
<1>17. t.owns \subseteq s.owns /\ ("context" \in s.owns => "context" \in t.owns)
  BY <1>3, <1>8, <1>9, <1>13
<1> QED BY <1>12, <1>13, <1>15, <1>16, <1>17 DEF Holding

(* Staging obtains one resource after the other, and starts the copy last.  *)
Staged == {"host", "device", "stream"}

LEMMA StageAndCopyStep ==
    ASSUME NEW base \in Needs, NEW stack, NEW s, Holding(s, base, stack),
           s.owns \cap Staged = {}, NEW t \in StageAndCopy(s)
    PROVE  /\ Holding(t, base, stack) /\ Grown(s, t)
           /\ s.owns \subseteq t.owns /\ t.owns \subseteq s.owns \cup Staged
           /\ t.ok => t.owns = s.owns \cup Staged
<1>1. PICK h \in Obtain(s, "host") :
        \/ ~h.ok /\ t = h
        \/ h.ok /\ \E d \in Obtain(h, "device") :
             \/ ~d.ok /\ t = d
             \/ d.ok /\ \E m \in Obtain(d, "stream") :
                  \/ ~m.ok /\ t = m
                  \/ m.ok /\ t \in StartCopy(m)
  BY DEF StageAndCopy, IfOk
<1>2. Staged \subseteq Resources
  BY DEF Staged, Resources
<1>3. "host" \in Resources /\ "host" \notin s.owns
  BY <1>2 DEF Staged
<1>4. /\ Holding(h, base, stack) /\ Grown(s, h)
      /\ h.owns = IF h.ok THEN s.owns \cup {"host"} ELSE s.owns
  BY <1>3, ObtainStep
<1>5. s \in States /\ h \in States
  BY <1>4, GoodStates DEF Holding
<1>6. CASE ~h.ok /\ t = h
  BY <1>4, <1>6
<1>7. ASSUME h.ok, NEW d \in Obtain(h, "device"),
             \/ ~d.ok /\ t = d
             \/ d.ok /\ \E m \in Obtain(d, "stream") :
                  \/ ~m.ok /\ t = m
                  \/ m.ok /\ t \in StartCopy(m)
      PROVE  /\ Holding(t, base, stack) /\ Grown(s, t)
             /\ s.owns \subseteq t.owns /\ t.owns \subseteq s.owns \cup Staged
             /\ t.ok => t.owns = s.owns \cup Staged
  <2>1. h.owns = s.owns \cup {"host"} /\ "device" \in Resources /\ "device" \notin h.owns
    BY <1>2, <1>4, <1>7 DEF Staged
  <2>2. /\ Holding(d, base, stack) /\ Grown(h, d)
        /\ d.owns = IF d.ok THEN h.owns \cup {"device"} ELSE h.owns
    BY <1>4, <2>1, ObtainStep
  <2>3. d \in States
    BY <2>2, GoodStates DEF Holding
  <2>4. Grown(s, d)
    BY <1>4, <1>5, <2>2, <2>3, GrownTransitive
  <2>5. CASE ~d.ok /\ t = d
    BY <2>1, <2>2, <2>4, <2>5 DEF Staged
  <2>6. ASSUME d.ok, NEW m \in Obtain(d, "stream"),
               (~m.ok /\ t = m) \/ (m.ok /\ t \in StartCopy(m))
        PROVE  /\ Holding(t, base, stack) /\ Grown(s, t)
               /\ s.owns \subseteq t.owns /\ t.owns \subseteq s.owns \cup Staged
               /\ t.ok => t.owns = s.owns \cup Staged
    <3>1. d.owns = s.owns \cup {"host", "device"} /\ "stream" \in Resources /\ "stream" \notin d.owns
      BY <1>2, <2>1, <2>2, <2>6 DEF Staged
    <3>2. /\ Holding(m, base, stack) /\ Grown(d, m)
          /\ m.owns = IF m.ok THEN d.owns \cup {"stream"} ELSE d.owns
      BY <2>2, <3>1, ObtainStep
    <3>3. m \in States
      BY <3>2, GoodStates DEF Holding
    <3>4. Grown(s, m)
      BY <1>5, <2>3, <2>4, <3>2, <3>3, GrownTransitive
    <3>5. CASE ~m.ok /\ t = m
      BY <3>1, <3>2, <3>4, <3>5 DEF Staged
    <3>6. CASE m.ok /\ t \in StartCopy(m)
      <4>1. "stream" \in m.owns /\ m.owns = s.owns \cup Staged
        BY <3>1, <3>2, <3>6 DEF Staged
      <4>2. Holding(t, base, stack) /\ Grown(m, t) /\ t.owns = m.owns
        BY <3>2, <3>6, <4>1, StartCopyStep
      <4>3. t \in States
        BY <4>2, GoodStates DEF Holding
      <4>4. Grown(s, t)
        BY <1>5, <3>3, <3>4, <4>2, <4>3, GrownTransitive
      <4> QED BY <4>1, <4>2, <4>4
    <3> QED BY <2>6, <3>5, <3>6
  <2>7. CASE d.ok /\ \E m \in Obtain(d, "stream") :
                          (~m.ok /\ t = m) \/ (m.ok /\ t \in StartCopy(m))
    <3>1. PICK m \in Obtain(d, "stream") : (~m.ok /\ t = m) \/ (m.ok /\ t \in StartCopy(m))
      BY <2>7
    <3> QED BY <2>6, <2>7, <3>1
  <2> QED BY <1>7, <2>5, <2>7
<1>8. CASE h.ok
  <2>1. PICK d \in Obtain(h, "device") :
             \/ ~d.ok /\ t = d
             \/ d.ok /\ \E m \in Obtain(d, "stream") :
                  \/ ~m.ok /\ t = m
                  \/ m.ok /\ t \in StartCopy(m)
    BY <1>1, <1>8
  <2> QED BY <1>7, <1>8, <2>1
<1> QED BY <1>1, <1>6, <1>8

(* A body that ended in o, and the pop q that followed it, whatever it was. *)
Ended(o, q) == [q EXCEPT !.ok = @ /\ o.ok]

LEMMA Returned ==
    ASSUME NEW base \in Needs, NEW o, Holding(o, base, Inner), NEW q \in Pop(o),
           NEW t, t = Ended(o, q)
    PROVE  /\ Holding(t, base, Outer) /\ Grown(o, t) /\ t.owns = o.owns
           /\ t.ok => o.ok
<1>1. /\ Good(q, Own(o, base), Outer) /\ Grown(o, q)
      /\ q.owns = o.owns /\ q.copying = o.copying
  BY PopStep DEF Holding
<1>2. o \in States /\ q \in States
  BY <1>1, GoodStates DEF Holding
<1>3. (q.ok /\ o.ok) \in BOOLEAN /\ ((q.ok /\ o.ok) \/ FailedIn(q, Calls))
  <2>1. (~o.ok => FailedIn(o, Calls)) /\ (~q.ok => FailedIn(q, Calls))
    BY <1>1 DEF Holding, Good
  <2> QED BY <1>1, <1>2, <2>1, GrownExcuses
<1>4. Good(t, Own(o, base), Outer) /\ Grown(q, t) /\ SameButOk(q, t)
  BY <1>1, <1>2, <1>3, Judged DEF Ended
<1>5. t.ok => o.ok
  BY <1>2 DEF States, Ended
<1>6. t \in States /\ t.owns = o.owns
  BY <1>1, <1>4, GoodStates DEF SameButOk
<1>7. Own(t, base) = Own(o, base)
  BY <1>6, HoldingSame
<1> QED BY <1>1, <1>2, <1>4, <1>5, <1>6, <1>7, GrownTransitive DEF Holding

LEMMA Holds ==
    /\ TicketHolds("cuda") = Resources /\ BatchHolds("cuda") = {"context", "device"}
    /\ TicketHolds("rocm") = Staged /\ BatchHolds("rocm") = {"device"}
    /\ TicketHolds("staged") = {} /\ BatchHolds("staged") = {}
    /\ Resources = {"context"} \cup Staged
BY DEF TicketHolds, BatchHolds, Resources, Staged

LEMMA AllocateAndSubmitStep ==
    ASSUME NEW base \in Needs, NEW adapter_ \in {"cuda", "rocm"},
           NEW s, Holding(s, base, Outer), s.owns \subseteq {}, NEW t \in AllocateAndSubmit(adapter_, s)
    PROVE  /\ Holding(t, base, Outer) /\ Grown(s, t)
           /\ t.ok => t.owns = TicketHolds(adapter_)
           /\ adapter_ = "cuda" => "context" \in t.owns \/ t.owns = {}
           /\ adapter_ = "rocm" => "context" \notin t.owns
<1>0. s \in States
  BY GoodStates DEF Holding
<1>1. CASE adapter_ = "cuda"
  <2>1. PICK c \in Obtain(s, "context") :
            t \in IF c.ok THEN InContext(c, StageAndCopy) ELSE {c}
    BY <1>1 DEF AllocateAndSubmit, IfOk
  <2>2. "context" \in Resources /\ "context" \notin s.owns
    BY DEF Resources
  <2>3. /\ Holding(c, base, Outer) /\ Grown(s, c)
        /\ c.owns = IF c.ok THEN s.owns \cup {"context"} ELSE s.owns
    <3>1. ASSUME NEW stack, stack = Outer, NEW r \in Resources, r \notin s.owns,
                 c \in Obtain(s, r)
          PROVE  /\ Holding(c, base, Outer) /\ Grown(s, c)
                 /\ c.owns = IF c.ok THEN s.owns \cup {r} ELSE s.owns
      <4>1. Holding(s, base, stack)
        BY <3>1
      <4>2. /\ Holding(c, base, stack) /\ Grown(s, c) /\ c.copying = s.copying
            /\ c.owns = IF c.ok THEN s.owns \cup {r} ELSE s.owns
        BY ONLY base \in Needs, Holding(s, base, stack), r \in Resources, r \notin s.owns,
                c \in Obtain(s, r), ObtainStep, <3>1, <4>1
      <4> QED BY <3>1, <4>2
    <3> QED BY <2>1, <2>2, <3>1
  <2>4. CASE ~c.ok
    BY <1>1, <2>1, <2>3, <2>4
  <2>5. CASE c.ok
    <3>1. PICK p \in Push(c) :
            \/ ~p.ok /\ t = p
            \/ \E o \in StageAndCopy(p) : \E q \in Pop(o) : t = Ended(o, q)
      BY <2>1, <2>5 DEF InContext, Ended
    <3>2. /\ Good(p, Own(c, base), Inner) /\ Grown(c, p) /\ p.owns = c.owns
          /\ ~p.ok => Good(p, Own(c, base), Outer)
      BY <2>3, PushStep DEF Holding
    <3>3. c \in States /\ p \in States /\ Own(p, base) = Own(c, base)
      BY <2>3, <3>2, GoodStates, HoldingSame DEF Holding
    <3>4. p.owns = {"context"} /\ p.owns \cap Staged = {} /\ Grown(s, p)
      BY <1>0, <2>3, <2>5, <3>2, <3>3, GrownTransitive DEF Staged
    <3>5. CASE ~p.ok /\ t = p
      BY <1>1, <3>2, <3>3, <3>4, <3>5 DEF Holding
    <3>6. ASSUME NEW o \in StageAndCopy(p), NEW q \in Pop(o), t = Ended(o, q)
          PROVE  /\ Holding(t, base, Outer) /\ Grown(s, t)
                 /\ t.ok => t.owns = TicketHolds(adapter_)
                 /\ "context" \in t.owns
      <4>1. Holding(p, base, Inner)
        BY <3>2, <3>3 DEF Holding
      <4>2. /\ Holding(o, base, Inner) /\ Grown(p, o)
            /\ p.owns \subseteq o.owns /\ (o.ok => o.owns = p.owns \cup Staged)
        BY <3>4, <4>1, StageAndCopyStep
      <4>3. Holding(t, base, Outer) /\ Grown(o, t) /\ t.owns = o.owns /\ (t.ok => o.ok)
        BY <3>6, <4>2, Returned
      <4>4. o \in States /\ t \in States
        BY <4>2, <4>3, GoodStates DEF Holding
      <4>5. Grown(s, o) /\ Grown(s, t)
        BY <1>0, <3>3, <3>4, <4>2, <4>3, <4>4, GrownTransitive
      <4> QED BY <1>1, <3>4, <4>2, <4>3, <4>5, Holds
    <3> QED BY <1>1, <3>1, <3>5, <3>6
  <2> QED BY <2>4, <2>5
<1>2. CASE adapter_ = "rocm"
  <2>1. PICK b \in Bind(s) : t \in IF b.ok THEN StageAndCopy(b) ELSE {b}
    BY <1>2 DEF AllocateAndSubmit, IfOk
  <2>2. Holding(b, base, Outer) /\ Grown(s, b) /\ b.owns = s.owns
    BY <2>1, BindStep
  <2>3. CASE ~b.ok
    BY <1>2, <2>1, <2>2, <2>3
  <2>4. CASE b.ok
    <3>1. t \in StageAndCopy(b) /\ b.owns \cap Staged = {}
      BY <2>1, <2>2, <2>4
    <3>2. /\ Holding(t, base, Outer) /\ Grown(b, t)
          /\ t.owns \subseteq b.owns \cup Staged /\ (t.ok => t.owns = b.owns \cup Staged)
      BY <2>2, <3>1, StageAndCopyStep
    <3>3. b \in States /\ t \in States
      BY <2>2, <3>2, GoodStates DEF Holding
    <3>4. "context" \notin t.owns
      BY <2>2, <3>2 DEF Staged
    <3> QED BY <1>0, <1>2, <2>2, <3>2, <3>3, <3>4, GrownTransitive, Holds
  <2> QED BY <2>3, <2>4
<1> QED BY <1>1, <1>2

LEMMA SynchronizeAndReleaseStep ==
    ASSUME NEW base \in Needs, NEW adapter_ \in {"cuda", "rocm"},
           NEW s, Holding(s, base, Outer), s.owns = TicketHolds(adapter_),
           NEW t \in SynchronizeAndRelease(adapter_, s)
    PROVE  /\ Holding(t, base, Outer) /\ Grown(s, t)
           /\ t.ok => t.owns = BatchHolds(adapter_)
           /\ adapter_ = "cuda" => "context" \in t.owns
           /\ adapter_ = "rocm" => "context" \notin t.owns
<1>0. s \in States
  BY GoodStates DEF Holding
<1>1. CASE adapter_ = "cuda"
  <2>1. PICK w \in CudaSynchronize(s) :
            t \in IF w.ok THEN InContext(w, ReleaseStagingOf) ELSE {w}
    BY <1>1 DEF SynchronizeAndRelease, IfOk
  <2>2. Holding(w, base, Outer) /\ Grown(s, w) /\ Idle(w) /\ w.owns = s.owns
    BY <2>1, CudaSynchronizeStep
  <2>3. "context" \in s.owns
    BY <1>1, Holds
  <2>4. CASE ~w.ok
    BY <1>1, <2>1, <2>2, <2>3, <2>4
  <2>5. CASE w.ok
    <3>1. PICK p \in Push(w) :
            \/ ~p.ok /\ t = p
            \/ \E o \in ReleaseStagingOf(p) : \E q \in Pop(o) : t = Ended(o, q)
      BY <2>1, <2>5 DEF InContext, Ended
    <3>2. /\ Good(p, Own(w, base), Inner) /\ Grown(w, p) /\ p.owns = w.owns
          /\ p.copying = w.copying
          /\ ~p.ok => Good(p, Own(w, base), Outer)
      BY <2>2, PushStep DEF Holding
    <3>3. w \in States /\ p \in States /\ Own(p, base) = Own(w, base)
      BY <2>2, <3>2, GoodStates, HoldingSame DEF Holding
    <3>4. Grown(s, p) /\ Idle(p)
      BY <1>0, <2>2, <3>2, <3>3, GrownTransitive, IdleOn
    <3>5. CASE ~p.ok /\ t = p
      BY <1>1, <2>2, <2>3, <3>2, <3>3, <3>4, <3>5 DEF Holding
    <3>6. ASSUME NEW o \in ReleaseStagingOf(p), NEW q \in Pop(o), t = Ended(o, q)
          PROVE  /\ Holding(t, base, Outer) /\ Grown(s, t)
                 /\ t.ok => t.owns = BatchHolds(adapter_)
                 /\ "context" \in t.owns
      <4>1. Holding(p, base, Inner)
        BY <3>2, <3>3 DEF Holding
      <4>2. /\ Holding(o, base, Inner) /\ Grown(p, o)
            /\ "context" \in p.owns => "context" \in o.owns
            /\ o.ok => o.owns = p.owns \ {"host", "stream"}
        BY <3>4, <4>1, ReleaseStagingStep
      <4>3. Holding(t, base, Outer) /\ Grown(o, t) /\ t.owns = o.owns /\ (t.ok => o.ok)
        BY <3>6, <4>2, Returned
      <4>4. o \in States /\ t \in States
        BY <4>2, <4>3, GoodStates DEF Holding
      <4>5. Grown(s, o) /\ Grown(s, t)
        BY <1>0, <3>3, <3>4, <4>2, <4>3, <4>4, GrownTransitive
      <4>6. p.owns = TicketHolds(adapter_)
        BY <2>2, <3>2
      <4> QED BY <2>2, <2>3, <3>2, <4>2, <4>3, <4>5, <4>6 DEF BatchHolds
    <3> QED BY <1>1, <3>1, <3>5, <3>6
  <2> QED BY <2>4, <2>5
<1>2. CASE adapter_ = "rocm"
  <2>1. PICK a \in Bind(s) :
        \/ ~a.ok /\ t = a
        \/ a.ok /\ \E w \in AwaitStream(a) :
             \/ ~w.ok /\ t = w
             \/ w.ok /\ \E b \in Bind(w) :
                  t \in IF b.ok THEN ReleaseStagingOf(b) ELSE {b}
    <3>1. PICK w \in RocmSynchronize(s) :
             \/ ~w.ok /\ t = w
             \/ w.ok /\ \E b \in Bind(w) : t \in IF b.ok THEN ReleaseStagingOf(b) ELSE {b}
      <4>1. t \in IfOk(IfOk(RocmSynchronize(s), Bind), ReleaseStagingOf)
        BY <1>2 DEF SynchronizeAndRelease
      <4>2. PICK b \in IfOk(RocmSynchronize(s), Bind) :
                t \in IF b.ok THEN ReleaseStagingOf(b) ELSE {b}
        BY <4>1 DEF IfOk
      <4>3. PICK w \in RocmSynchronize(s) : b \in IF w.ok THEN Bind(w) ELSE {w}
        BY <4>2 DEF IfOk
      <4> QED BY <4>2, <4>3
    <3>2. PICK a \in Bind(s) : w \in IF a.ok THEN AwaitStream(a) ELSE {a}
      BY <3>1 DEF RocmSynchronize, IfOk
    <3> QED BY <3>1, <3>2
  <2>2. Holding(a, base, Outer) /\ Grown(s, a) /\ a.owns = s.owns
    BY <2>1, BindStep
  <2>3. "context" \notin s.owns
    BY <1>2, Holds DEF Staged
  <2>4. CASE ~a.ok /\ t = a
    BY <1>2, <2>2, <2>3, <2>4
  <2>5. CASE a.ok /\ \E w \in AwaitStream(a) :
             \/ ~w.ok /\ t = w
             \/ w.ok /\ \E b \in Bind(w) :
                  t \in IF b.ok THEN ReleaseStagingOf(b) ELSE {b}
    <3>1. PICK w \in AwaitStream(a) :
             \/ ~w.ok /\ t = w
             \/ w.ok /\ \E b \in Bind(w) :
                  t \in IF b.ok THEN ReleaseStagingOf(b) ELSE {b}
      BY <2>5
    <3>2. Holding(w, base, Outer) /\ Grown(a, w) /\ w.owns = a.owns /\ Idle(w)
      BY <2>2, <3>1, AwaitStep
    <3>3. a \in States /\ w \in States
      BY <2>2, <3>2, GoodStates DEF Holding
    <3>4. Grown(s, w)
      BY <1>0, <2>2, <3>2, <3>3, GrownTransitive
    <3>5. CASE ~w.ok /\ t = w
      BY <1>2, <2>2, <2>3, <3>2, <3>4, <3>5
    <3>6. CASE w.ok /\ \E b \in Bind(w) : t \in IF b.ok THEN ReleaseStagingOf(b) ELSE {b}
      <4>1. PICK b \in Bind(w) : t \in IF b.ok THEN ReleaseStagingOf(b) ELSE {b}
        BY <3>6
      <4>2. /\ Holding(b, base, Outer) /\ Grown(w, b) /\ b.owns = w.owns
            /\ b.copying = w.copying
        BY <3>2, <4>1, BindStep
      <4>3. b \in States
        BY <4>2, GoodStates DEF Holding
      <4>4. Grown(s, b) /\ Idle(b)
        BY <1>0, <3>2, <3>3, <3>4, <4>2, <4>3, GrownTransitive, IdleOn
      <4>5. CASE ~b.ok
        BY <1>2, <2>2, <2>3, <3>2, <4>1, <4>2, <4>4, <4>5
      <4>6. CASE b.ok
        <5>1. t \in ReleaseStagingOf(b)
          BY <4>1, <4>6
        <5>2. /\ Holding(t, base, Outer) /\ Grown(b, t) /\ t.owns \subseteq b.owns
              /\ t.ok => t.owns = b.owns \ {"host", "stream"}
          BY <4>2, <4>4, <5>1, ReleaseStagingStep
        <5>3. t \in States
          BY <5>2, GoodStates DEF Holding
        <5>4. Grown(s, t)
          BY <1>0, <4>3, <4>4, <5>2, <5>3, GrownTransitive
        <5>5. b.owns = TicketHolds(adapter_)
          BY <2>2, <3>2, <4>2
        <5> QED BY <1>2, <2>2, <2>3, <3>2, <4>2, <5>2, <5>4, <5>5 DEF BatchHolds
      <4> QED BY <4>5, <4>6
    <3> QED BY <3>1, <3>5, <3>6
  <2> QED BY <2>1, <2>4, <2>5
<1> QED BY <1>1, <1>2
-----------------------------------------------------------------------------
(* From the states of a method to the ledger it began with and leaves.      *)
LedgerOK(ledger, need) == ledger \in Ledgers /\ Accounted(ledger, need, Outer)

(* What is wanted for a ticket, beside base, and what for a batch.          *)
With(base, held) == [r \in Resources |-> base[r] + (IF r \in held THEN 1 ELSE 0)]

LEMMA WithType ==
    ASSUME NEW base \in Needs, NEW held
    PROVE  With(base, held) \in Needs
BY DEF With, Needs

BeginsWith(s, ledger, owns) ==
    /\ s \in States /\ s.owns = owns /\ s.ok /\ s.out = ledger.out
    /\ s.stack = ledger.stack /\ s.torn = ledger.torn /\ s.failed = ledger.failed
    /\ s.left = ledger.left
    /\ s.copying => "stream" \in owns

LEMMA Beginnings ==
    ASSUME NEW owns \in SUBSET Resources, NEW ledger \in Ledgers
    PROVE  /\ BeginsWith(Begin(ledger, owns, FALSE), ledger, owns)
           /\ "stream" \in owns => BeginsWith(Begin(ledger, owns, TRUE), ledger, owns)
           /\ ~Begin(ledger, owns, FALSE).copying
BY DEF Begin, BeginsWith, Ledgers, States, Stacks

LEMMA Begun ==
    ASSUME NEW base, NEW owns, NEW ledger, LedgerOK(ledger, With(base, owns)),
           NEW s, BeginsWith(s, ledger, owns)
    PROVE  Holding(s, base, Outer) /\ s.owns = owns
<1>1. Own(s, base) = With(base, owns)
  BY DEF Own, With, BeginsWith
<1>2. Accounted(s, With(base, owns), Outer)
  BY DEF BeginsWith, LedgerOK, Accounted, FailedIn, Unwaited, Unstacked, Excused
<1> QED BY <1>1, <1>2 DEF Holding, Good, BeginsWith

LEMMA Closed ==
    ASSUME NEW s \in States, NEW need, Accounted(s, need, Outer)
    PROVE  LedgerOK(LedgerOf(s), need) /\ LedgerOf(s).left = s.left
<1> DEFINE l == LedgerOf(s)
<1>1. /\ l.out = s.out /\ l.stack = s.stack /\ l.torn = s.torn /\ l.failed = s.failed
      /\ l.left = s.left
  BY DEF LedgerOf
<1>2. l \in Ledgers
  BY DEF LedgerOf, States, Ledgers, Stacks
<1> HIDE DEF l
<1>3. Accounted(l, need, Outer)
  BY <1>1 DEF Accounted, FailedIn, Unwaited, Unstacked, Excused
<1> QED BY <1>1, <1>2, <1>3 DEF LedgerOK, l

(* A ticket that is left with nothing, or with what may be lost, is gone.   *)
LEMMA Gone ==
    ASSUME NEW base \in Needs, NEW t, Holding(t, base, Outer),
           \A r \in t.owns : Excused(t, r)
    PROVE  t \in States /\ Accounted(t, base, Outer)
<1>1. t \in States
  BY GoodStates DEF Holding
<1>2. ASSUME NEW r \in Resources
      PROVE  t.out[r] >= base[r] /\ (t.out[r] > base[r] => Excused(t, r))
  <2>1. base[r] \in Nat /\ t.out[r] \in Nat
    BY <1>1 DEF Needs, States
  <2>2. Own(t, base)[r] = base[r] + (IF r \in t.owns THEN 1 ELSE 0)
    BY DEF Own
  <2>3. t.out[r] >= Own(t, base)[r] /\ (t.out[r] > Own(t, base)[r] => Excused(t, r))
    BY DEF Holding, Good, Accounted
  <2> QED BY <2>1, <2>2, <2>3
<1> QED BY <1>1, <1>2 DEF Holding, Good, Accounted

(* cleanup of an adapter, after which a ticket of its may be dropped.       *)
TicketOf(adapter_, s) ==
    /\ adapter_ = "cuda" => "context" \in s.owns \/ s.owns = {}
    /\ adapter_ = "rocm" => "context" \notin s.owns

LEMMA CleanupStep ==
    ASSUME NEW base \in Needs, NEW adapter_ \in {"cuda", "rocm"},
           NEW s, Holding(s, base, Outer), TicketOf(adapter_, s), NEW t \in Cleanup(adapter_, s)
    PROVE  /\ Holding(t, base, Outer) /\ Grown(s, t) /\ TicketOf(adapter_, t)
           /\ t.owns = {} \/ (FailedIn(t, {"bind"}) /\ t.left + 1 <= s.left)
<1>1. CASE adapter_ = "cuda"
  BY <1>1, CudaCleanupStep DEF Cleanup, TicketOf
<1>2. CASE adapter_ = "rocm"
  <2>1. t \in RocmCleanup(s) /\ "context" \notin s.owns
    BY <1>2 DEF Cleanup, TicketOf
  <2>2. /\ Holding(t, base, Outer) /\ Grown(s, t) /\ "context" \notin t.owns
        /\ \/ t.owns = {}
           \/ FailedIn(t, {"bind"}) /\ t.left + 1 <= s.left
    BY <2>1, RocmCleanupStep
  <2> QED BY <1>2, <2>2 DEF TicketOf
<1> QED BY <1>1, <1>2

(* After a failure, a cleanup that cannot free is a second one.             *)
LEMMA CleanedUp ==
    ASSUME NEW base \in Needs, NEW adapter_ \in {"cuda", "rocm"},
           NEW s, Holding(s, base, Outer), TicketOf(adapter_, s), FailedIn(s, Calls),
           NEW t \in Cleanup(adapter_, s)
    PROVE  t \in States /\ Accounted(t, base, Outer)
<1>1. /\ Holding(t, base, Outer) /\ Grown(s, t)
      /\ t.owns = {} \/ (FailedIn(t, {"bind"}) /\ t.left + 1 <= s.left)
  BY CleanupStep
<1>2. s \in States /\ t \in States
  BY <1>1, GoodStates DEF Holding
<1>3. s.left + 1 <= MaxDriverFaults
  BY DEF Holding, Good, Accounted
<1>4. \A r \in t.owns : Excused(t, r)
  <2>1. CASE t.owns = {}
    BY <2>1
  <2>2. CASE FailedIn(t, {"bind"}) /\ t.left + 1 <= s.left
    <3>1. t.left + 2 <= MaxDriverFaults
      BY <1>2, <1>3, <2>2, DeviceTransferAssumption DEF States
    <3> QED BY <2>2, <3>1 DEF Excused
  <2> QED BY <1>1, <2>1, <2>2
<1> QED BY <1>1, <1>4, Gone

(* Twice, as in cancel and in a failed submit.                              *)
LEMMA CleanedUpTwice ==
    ASSUME NEW base \in Needs, NEW adapter_ \in {"cuda", "rocm"},
           NEW s, Holding(s, base, Outer), TicketOf(adapter_, s),
           NEW t \in Cleanup(adapter_, s), NEW u \in Cleanup(adapter_, t)
    PROVE  u \in States /\ Accounted(u, base, Outer)
<1>1. /\ Holding(t, base, Outer) /\ Grown(s, t) /\ TicketOf(adapter_, t)
      /\ t.owns = {} \/ (FailedIn(t, {"bind"}) /\ t.left + 1 <= s.left)
  BY CleanupStep
<1>2. CASE FailedIn(t, {"bind"})
  <2>1. FailedIn(t, Calls)
    BY <1>2 DEF FailedIn, Calls
  <2> QED BY <1>1, <2>1, CleanedUp
<1>3. CASE t.owns = {}
  <2>1. u = t
    BY <1>3 DEF Cleanup, CudaCleanup, RocmCleanup
  <2> QED BY <1>1, <1>3, <2>1, Gone
<1> QED BY <1>1, <1>2, <1>3
-----------------------------------------------------------------------------
(* What an adapter with so many tickets and batches wants of each resource. *)
Wanted(adapter_, tickets, alive) ==
    [r \in Resources |-> (IF r \in TicketHolds(adapter_) THEN tickets ELSE 0)
                         + (IF r \in BatchHolds(adapter_) THEN alive ELSE 0)]

Kinds == {"staged", "cuda", "rocm"}

LEMMA WantedMore ==
    ASSUME NEW a \in Kinds, NEW n \in Nat, NEW b \in Nat
    PROVE  /\ Wanted(a, n, b) \in Needs
           /\ With(Wanted(a, n, b), TicketHolds(a)) = Wanted(a, n + 1, b)
           /\ With(Wanted(a, n, b), BatchHolds(a)) = Wanted(a, n, b + 1)
<1>1. Wanted(a, n, b) \in Needs
  BY DEF Wanted, Needs
<1>2. ASSUME NEW r \in Resources
      PROVE  /\ Wanted(a, n, b)[r] + (IF r \in TicketHolds(a) THEN 1 ELSE 0)
                = Wanted(a, n + 1, b)[r]
             /\ Wanted(a, n, b)[r] + (IF r \in BatchHolds(a) THEN 1 ELSE 0)
                = Wanted(a, n, b + 1)[r]
  BY DEF Wanted
<1>3. /\ Wanted(a, n + 1, b) = [r \in Resources |-> Wanted(a, n + 1, b)[r]]
      /\ Wanted(a, n, b + 1) = [r \in Resources |-> Wanted(a, n, b + 1)[r]]
  BY DEF Wanted
<1>4. /\ With(Wanted(a, n, b), TicketHolds(a)) = Wanted(a, n + 1, b)
      /\ With(Wanted(a, n, b), BatchHolds(a)) = Wanted(a, n, b + 1)
  BY <1>2, <1>3 DEF With
<1> QED BY <1>1, <1>4

(* The counting transfer holds nothing. *)
LEMMA StagedWantsNothing ==
    ASSUME NEW n, NEW b, NEW m, NEW c
    PROVE  Wanted("staged", n, b) = Wanted("staged", m, c)
BY Holds DEF Wanted

LEMMA NotOk ==
    ASSUME NEW s \in States, NEW need, Accounted(s, need, Outer)
    PROVE  LET t == [s EXCEPT !.ok = FALSE]
           IN  t \in States /\ t.ok = FALSE /\ Accounted(t, need, Outer)
<1> DEFINE t == [s EXCEPT !.ok = FALSE]
<1>1. t \in States /\ SameButOk(s, t) /\ t.ok = FALSE
  BY DEF States, SameButOk
<1> HIDE DEF t
<1>2. Accounted(t, need, Outer)
  BY <1>1 DEF SameButOk, Accounted, FailedIn, Unwaited, Unstacked, Excused
<1> QED BY <1>1, <1>2 DEF t

LEMMA SubmitAccounts ==
    ASSUME NEW a \in Kinds, NEW n \in Nat, NEW b \in Nat,
           NEW ledger, LedgerOK(ledger, Wanted(a, n, b)), NEW u \in SubmitTo(a, ledger)
    PROVE  /\ u.ok => LedgerOK(u.ledger, Wanted(a, n + 1, b))
           /\ ~u.ok => LedgerOK(u.ledger, Wanted(a, n, b))
<1>1. CASE a = "staged"
  <2>1. u.ok /\ u.ledger = ledger
    BY <1>1 DEF SubmitTo
  <2> QED BY <1>1, <2>1, StagedWantsNothing
<1>2. CASE a \in {"cuda", "rocm"}
  <2> DEFINE base == Wanted(a, n, b)
             s == Begin(ledger, {}, FALSE)
  <2>1. base \in Needs /\ With(base, TicketHolds(a)) = Wanted(a, n + 1, b)
    BY WantedMore
  <2>2. With(base, {}) = base
    BY <2>1 DEF With, Needs
  <2>3. Holding(s, base, Outer) /\ s.owns = {}
    <3>1. {} \in SUBSET Resources /\ ledger \in Ledgers
      BY DEF LedgerOK
    <3>2. BeginsWith(s, ledger, {})
      BY <3>1, Beginnings
    <3> HIDE DEF s, base
    <3>3. LedgerOK(ledger, With(base, {}))
      BY <2>2 DEF base
    <3> QED BY <3>2, <3>3, Begun
  <2>4. PICK x \in OrElse(AllocateAndSubmit(a, s),
                          LAMBDA q : Then(Cleanup(a, q), LAMBDA t : Cleanup(a, t))) :
            u = [ok |-> x.ok, ledger |-> LedgerOf(x)]
    BY <1>2 DEF SubmitTo, Outcomes
  <2> HIDE DEF base, s
  <2>5. PICK q \in AllocateAndSubmit(a, s) :
          \/ q.ok /\ x = q
          \/ ~q.ok /\ \E t \in Cleanup(a, q) : \E v \in Cleanup(a, t) :
                         x = [v EXCEPT !.ok = FALSE]
    BY <2>4 DEF OrElse, Then
  <2>6. /\ Holding(q, base, Outer) /\ Grown(s, q) /\ (q.ok => q.owns = TicketHolds(a))
        /\ TicketOf(a, q)
    BY <1>2, <2>1, <2>3, <2>5, AllocateAndSubmitStep DEF TicketOf
  <2>7. CASE q.ok /\ x = q
    <3>1. Own(q, base) = Wanted(a, n + 1, b)
      BY <2>1, <2>6, <2>7 DEF Own, With
    <3>2. q \in States /\ Accounted(q, Wanted(a, n + 1, b), Outer)
      BY <2>6, <3>1, GoodStates DEF Holding, Good
    <3>3. u.ok /\ u.ledger = LedgerOf(q)
      BY <2>4, <2>7
    <3> QED BY <3>2, <3>3, Closed
  <2>8. CASE ~q.ok /\ \E t \in Cleanup(a, q) : \E v \in Cleanup(a, t) :
                         x = [v EXCEPT !.ok = FALSE]
    <3>1. PICK t \in Cleanup(a, q) : \E v \in Cleanup(a, t) : x = [v EXCEPT !.ok = FALSE]
      BY <2>8
    <3>2. PICK v \in Cleanup(a, t) : x = [v EXCEPT !.ok = FALSE]
      BY <3>1
    <3>3. v \in States /\ Accounted(v, base, Outer)
      BY <1>2, <2>1, <2>6, CleanedUpTwice
    <3>4. x \in States /\ x.ok = FALSE /\ Accounted(x, base, Outer)
      BY <3>2, <3>3, NotOk
    <3>5. ~u.ok /\ u.ledger = LedgerOf(x)
      BY <2>4, <3>4
    <3> QED BY <3>4, <3>5, Closed DEF base
  <2> QED BY <2>5, <2>7, <2>8
<1> QED BY <1>1, <1>2 DEF Kinds

LEMMA WaitAccounts ==
    ASSUME NEW a \in Kinds, NEW n \in Nat, NEW b \in Nat,
           NEW ledger, LedgerOK(ledger, Wanted(a, n + 1, b)), NEW u \in WaitFor(a, ledger)
    PROVE  /\ u.ok => LedgerOK(u.ledger, Wanted(a, n, b + 1))
           /\ ~u.ok => LedgerOK(u.ledger, Wanted(a, n, b))
           /\ a = "staged" => u.ok
<1>1. CASE a = "staged"
  <2>1. u.ok /\ u.ledger = ledger
    BY <1>1 DEF WaitFor
  <2> QED BY <1>1, <2>1, StagedWantsNothing
<1>2. CASE a \in {"cuda", "rocm"}
  <2> DEFINE base == Wanted(a, n, b)
             s == Begin(ledger, TicketHolds(a), TRUE)
  <2>1. /\ base \in Needs /\ With(base, TicketHolds(a)) = Wanted(a, n + 1, b)
        /\ With(base, BatchHolds(a)) = Wanted(a, n, b + 1)
    BY WantedMore
  <2>2. TicketHolds(a) \in SUBSET Resources /\ "stream" \in TicketHolds(a)
    BY <1>2 DEF TicketHolds, Resources
  <2>3. Holding(s, base, Outer) /\ s.owns = TicketHolds(a)
    <3>1. ledger \in Ledgers
      BY DEF LedgerOK
    <3>2. BeginsWith(s, ledger, TicketHolds(a))
      BY <2>2, <3>1, Beginnings
    <3> HIDE DEF s, base
    <3>3. LedgerOK(ledger, With(base, TicketHolds(a)))
      BY <2>1
    <3> QED BY <3>2, <3>3, Begun
  <2>4. PICK x \in OrElse(SynchronizeAndRelease(a, s), LAMBDA q : Cleanup(a, q)) :
            u = [ok |-> x.ok, ledger |-> LedgerOf(x)]
    BY <1>2 DEF WaitFor, Outcomes
  <2> HIDE DEF base, s
  <2>5. PICK q \in SynchronizeAndRelease(a, s) :
          \/ q.ok /\ x = q
          \/ ~q.ok /\ \E v \in Cleanup(a, q) : x = [v EXCEPT !.ok = FALSE]
    BY <2>4 DEF OrElse
  <2>6. /\ Holding(q, base, Outer) /\ Grown(s, q) /\ (q.ok => q.owns = BatchHolds(a))
        /\ TicketOf(a, q)
    BY <1>2, <2>1, <2>3, <2>5, SynchronizeAndReleaseStep DEF TicketOf
  <2>7. CASE q.ok /\ x = q
    <3>1. Own(q, base) = Wanted(a, n, b + 1)
      BY <2>1, <2>6, <2>7 DEF Own, With
    <3>2. q \in States /\ Accounted(q, Wanted(a, n, b + 1), Outer)
      BY <2>6, <3>1, GoodStates DEF Holding, Good
    <3>3. u.ok /\ u.ledger = LedgerOf(q)
      BY <2>4, <2>7
    <3> QED BY <1>2, <3>2, <3>3, Closed
  <2>8. CASE ~q.ok /\ \E v \in Cleanup(a, q) : x = [v EXCEPT !.ok = FALSE]
    <3>1. PICK v \in Cleanup(a, q) : x = [v EXCEPT !.ok = FALSE]
      BY <2>8
    <3>2. FailedIn(q, Calls)
      BY <2>6, <2>8 DEF Holding, Good
    <3>3. v \in States /\ Accounted(v, base, Outer)
      BY <1>2, <2>1, <2>6, <3>2, CleanedUp
    <3>4. x \in States /\ x.ok = FALSE /\ Accounted(x, base, Outer)
      BY <3>1, <3>3, NotOk
    <3>5. ~u.ok /\ u.ledger = LedgerOf(x)
      BY <2>4, <3>4
    <3> QED BY <1>2, <3>4, <3>5, Closed DEF base
  <2> QED BY <2>5, <2>7, <2>8
<1> QED BY <1>1, <1>2 DEF Kinds

LEMMA CancelAccounts ==
    ASSUME NEW a \in Kinds, NEW n \in Nat, NEW b \in Nat,
           NEW ledger, LedgerOK(ledger, Wanted(a, n + 1, b)), NEW l \in CancelTicket(a, ledger)
    PROVE  LedgerOK(l, Wanted(a, n, b))
<1>1. CASE a = "staged"
  <2>1. l = ledger
    BY <1>1 DEF CancelTicket
  <2> QED BY <1>1, <2>1, StagedWantsNothing
<1>2. CASE a \in {"cuda", "rocm"}
  <2> DEFINE base == Wanted(a, n, b)
             s == Begin(ledger, TicketHolds(a), TRUE)
  <2>1. base \in Needs /\ With(base, TicketHolds(a)) = Wanted(a, n + 1, b)
    BY WantedMore
  <2>2. TicketHolds(a) \in SUBSET Resources /\ "stream" \in TicketHolds(a)
    BY <1>2 DEF TicketHolds, Resources
  <2>3. Holding(s, base, Outer) /\ s.owns = TicketHolds(a)
    <3>1. ledger \in Ledgers
      BY DEF LedgerOK
    <3>2. BeginsWith(s, ledger, TicketHolds(a))
      BY <2>2, <3>1, Beginnings
    <3> HIDE DEF s, base
    <3>3. LedgerOK(ledger, With(base, TicketHolds(a)))
      BY <2>1
    <3> QED BY <3>2, <3>3, Begun
  <2>4. TicketOf(a, s)
    BY <1>2, <2>3, Holds DEF TicketOf, Staged
  <2>5. PICK t \in Cleanup(a, s) : \E v \in Cleanup(a, t) : l = LedgerOf(v)
    BY <1>2 DEF CancelTicket, Then
  <2> HIDE DEF base, s
  <2>6. PICK v \in Cleanup(a, t) : l = LedgerOf(v)
    BY <2>5
  <2>7. v \in States /\ Accounted(v, base, Outer)
    BY <1>2, <2>1, <2>3, <2>4, CleanedUpTwice
  <2> QED BY <2>6, <2>7, Closed DEF base
<1> QED BY <1>1, <1>2 DEF Kinds

LEMMA DropAccounts ==
    ASSUME NEW a \in {"cuda", "rocm"}, NEW n \in Nat, NEW b \in Nat,
           NEW ledger, LedgerOK(ledger, Wanted(a, n, b + 1)), NEW l \in DropBatchOf(a, ledger)
    PROVE  LedgerOK(l, Wanted(a, n, b))
<1> DEFINE base == Wanted(a, n, b)
           s == Begin(ledger, BatchHolds(a), FALSE)
<1>1. base \in Needs /\ With(base, BatchHolds(a)) = Wanted(a, n, b + 1)
  BY WantedMore DEF Kinds
<1>2. BatchHolds(a) \in SUBSET Resources /\ ledger \in Ledgers /\ "device" \in BatchHolds(a)
  BY Holds DEF LedgerOK, Resources
<1>3. BeginsWith(s, ledger, BatchHolds(a)) /\ ~s.copying
  BY <1>2, Beginnings
<1>4. PICK t \in IF a = "cuda" THEN CudaDropBatch(s) ELSE RocmDropBatch(s) : l = LedgerOf(t)
  BY DEF DropBatchOf
<1> HIDE DEF s, base
<1>5. Holding(s, base, Outer) /\ s.owns = BatchHolds(a) /\ Idle(s)
  BY <1>1, <1>3, Begun DEF Idle
<1>6. \A r \in Resources : base[r] \in Nat
                           /\ Own(s, base)[r] = base[r] + (IF r \in BatchHolds(a) THEN 1 ELSE 0)
  BY <1>1, <1>5 DEF Own, Needs
<1>7. Own(s, base) \in Needs /\ "device" \in Resources /\ "context" \in Resources
  BY <1>1, OwnType DEF Resources
<1>8. base = [r \in Resources |-> base[r]]
  BY <1>1 DEF Needs
<1>9. Own(s, base)["device"] > 0
  BY <1>2, <1>6, <1>7
<1>10. CASE a = "cuda"
  <2>1. t \in CudaDropBatch(s)
    BY <1>4, <1>10
  <2>2. Own(s, base)["context"] > 0
    BY <1>6, <1>7, <1>10, Holds
  <2>3. t \in States /\ Accounted(t, Less(Less(Own(s, base), "device"), "context"), Outer)
    BY <1>5, <1>7, <1>9, <2>1, <2>2, CudaDropBatchStep DEF Holding
  <2>4. Less(Less(Own(s, base), "device"), "context") = base
    <3> DEFINE own == Own(s, base)
               one == Less(own, "device")
               two == Less(one, "context")
    <3>1. /\ one \in Needs
          /\ \A q \in Resources : one[q] = IF q = "device" THEN own[q] - 1 ELSE own[q]
      <4> HIDE DEF own
      <4> QED BY <1>7, <1>9, LessType DEF own
    <3>2. one["context"] > 0
      BY <1>7, <2>2, <3>1
    <3>3. /\ two \in Needs
          /\ \A q \in Resources : two[q] = IF q = "context" THEN one[q] - 1 ELSE one[q]
      <4> HIDE DEF one
      <4> QED BY <1>7, <3>1, <3>2, LessType
    <3> HIDE DEF own, one, two
    <3>4. \A q \in Resources : two[q] = base[q]
      BY <1>6, <1>10, <3>1, <3>3, Holds DEF own
    <3>5. two = [r \in Resources |-> two[r]]
      BY <3>3 DEF Needs
    <3>6. two = base
      BY <1>8, <3>4, <3>5
    <3> QED BY <3>6 DEF own, one, two
  <2> QED BY <1>4, <2>3, <2>4, Closed DEF base
<1>11. CASE a = "rocm"
  <2>1. t \in RocmDropBatch(s)
    BY <1>4, <1>11
  <2>2. t \in States /\ Accounted(t, Less(Own(s, base), "device"), Outer)
    BY <1>1, <1>2, <1>5, <2>1, RocmDropBatchStep
  <2>3. Less(Own(s, base), "device") = base
    <3> DEFINE own == Own(s, base)
               one == Less(own, "device")
    <3>1. /\ one \in Needs
          /\ \A q \in Resources : one[q] = IF q = "device" THEN own[q] - 1 ELSE own[q]
      <4> HIDE DEF own
      <4> QED BY <1>7, <1>9, LessType DEF own
    <3> HIDE DEF own, one
    <3>2. \A q \in Resources : one[q] = base[q]
      BY <1>6, <1>11, <3>1, Holds DEF own
    <3>3. one = [r \in Resources |-> one[r]]
      BY <3>1 DEF Needs
    <3>4. one = base
      BY <1>8, <3>2, <3>3
    <3> QED BY <3>4 DEF own, one
  <2> QED BY <1>4, <2>2, <2>3, Closed DEF base
<1> QED BY <1>10, <1>11

(* cancel_pending, ticket by ticket: what the first n of them leave.        *)
Cancels(f, a, ledger, n) ==
    f = [i \in 0 .. n |-> IF i = 0 THEN {ledger}
                          ELSE UNION {CancelTicket(a, l) : l \in f[i - 1]}]

LEMMA CancelsGrow ==
    ASSUME NEW a, NEW ledger, NEW n \in Nat, NEW f, Cancels(f, a, ledger, n)
    PROVE  \E g : Cancels(g, a, ledger, n + 1)
<1> DEFINE step(ledgers) == UNION {CancelTicket(a, l) : l \in ledgers}
           g == [i \in 0 .. n + 1 |-> IF i = n + 1 THEN step(f[n]) ELSE f[i]]
<1>0. \A i \in 0 .. n : f[i] = IF i = 0 THEN {ledger} ELSE step(f[i - 1])
  BY DEF Cancels
<1> HIDE DEF step
<1>1. ASSUME NEW i \in 0 .. n + 1
      PROVE  g[i] = IF i = 0 THEN {ledger} ELSE step(g[i - 1])
  <2>1. CASE i = n + 1
    BY <2>1
  <2>2. CASE i \in 0 .. n
    <3>1. g[i] = f[i] /\ f[i] = IF i = 0 THEN {ledger} ELSE step(f[i - 1])
      BY <1>0, <2>2
    <3>2. i # 0 => g[i - 1] = f[i - 1]
      BY <2>2
    <3> HIDE DEF g
    <3> QED BY <3>1, <3>2
  <2> QED BY <2>1, <2>2
<1>2. g = [i \in 0 .. n + 1 |-> IF i = 0 THEN {ledger} ELSE step(g[i - 1])]
  BY <1>1
<1> HIDE DEF g
<1> QED BY <1>2 DEF Cancels, step

LEMMA CancelsExist ==
    ASSUME NEW a, NEW ledger, NEW k \in Nat
    PROVE  \E f : Cancels(f, a, ledger, k)
<1> DEFINE Missing == {n \in Nat : ~\E f : Cancels(f, a, ledger, n)}
<1>1. ASSUME Missing # {} PROVE FALSE
  <2>1. PICK n \in Missing : \A m \in Missing : n <= m
    <3>1. \A m \in Missing : m \in Nat
      OBVIOUS
    <3> HIDE DEF Missing
    <3> QED BY <1>1, <3>1, LeastOf
  <2>2. CASE n = 0
    <3> DEFINE f == [i \in 0 .. 0 |-> {ledger}]
    <3>1. f = [i \in 0 .. 0 |-> IF i = 0 THEN {ledger}
                                ELSE UNION {CancelTicket(a, l) : l \in f[i - 1]}]
      OBVIOUS
    <3> HIDE DEF f
    <3>2. \E h : Cancels(h, a, ledger, 0)
      BY <3>1 DEF Cancels
    <3> QED BY <2>1, <2>2, <3>2
  <2>3. CASE n # 0
    <3>1. n - 1 \in Nat /\ n - 1 \notin Missing /\ (n - 1) + 1 = n
      BY <2>1, <2>3
    <3>2. PICK f : Cancels(f, a, ledger, n - 1)
      BY <3>1
    <3>3. \E g : Cancels(g, a, ledger, (n - 1) + 1)
      BY <3>1, <3>2, CancelsGrow
    <3> QED BY <2>1, <3>1, <3>3
  <2> QED BY <2>2, <2>3
<1> QED BY <1>1

LEMMA CancelsAccount ==
    ASSUME NEW a \in Kinds, NEW tickets \in Seq(Ticket), NEW b \in Nat,
           NEW ledger, LedgerOK(ledger, Wanted(a, Len(tickets), b)),
           NEW l \in CancelTickets(a, ledger, tickets)
    PROVE  LedgerOK(l, Wanted(a, 0, b))
<1> DEFINE k == Len(tickets)
           f == CHOOSE f : Cancels(f, a, ledger, k)
<1>1. k \in Nat
  BY Elements
<1>2. l \in f[k]
  BY DEF CancelTickets, Cancels
<1>3. Cancels(f, a, ledger, k)
  BY <1>1, CancelsExist
<1> HIDE DEF f
<1>4. \A i \in 0 .. k : f[i] = IF i = 0 THEN {ledger}
                               ELSE UNION {CancelTicket(a, m) : m \in f[i - 1]}
  BY <1>3 DEF Cancels
<1> DEFINE Bad == {i \in 0 .. k : ~\A m \in f[i] : LedgerOK(m, Wanted(a, k - i, b))}
<1>5. ASSUME Bad # {} PROVE FALSE
  <2>1. PICK i \in Bad : \A j \in Bad : i <= j
    <3>1. \A j \in Bad : j \in Nat
      BY <1>1
    <3> HIDE DEF Bad
    <3> QED BY <1>5, <3>1, LeastOf
  <2>2. i \in 0 .. k /\ ~\A m \in f[i] : LedgerOK(m, Wanted(a, k - i, b))
    BY <2>1
  <2>3. CASE i = 0
    <3>1. k - i = k
      BY <1>1, <2>3
    <3>2. 0 \in 0 .. k
      BY <1>1
    <3>3. f[0] = {ledger}
      BY <1>4, <3>2
    <3>4. \A m \in f[i] : LedgerOK(m, Wanted(a, k, b))
      BY <2>3, <3>3
    <3>5. \A m \in f[i] : LedgerOK(m, Wanted(a, k - i, b))
      BY <3>1, <3>4
    <3> QED BY <2>2, <3>5
  <2>4. CASE i # 0
    <3>1. i - 1 \in 0 .. k /\ i - 1 \notin Bad /\ k - (i - 1) = (k - i) + 1 /\ k - i \in Nat
      BY <1>1, <2>1, <2>2, <2>4
    <3>2. \A m \in f[i - 1] : LedgerOK(m, Wanted(a, (k - i) + 1, b))
      BY <3>1
    <3>3. f[i] = UNION {CancelTicket(a, m) : m \in f[i - 1]}
      BY <1>4, <2>2, <2>4
    <3>4. ASSUME NEW x \in f[i] PROVE LedgerOK(x, Wanted(a, k - i, b))
      <4>1. PICK m \in f[i - 1] : x \in CancelTicket(a, m)
        BY <3>3
      <4> QED BY <3>1, <3>2, <4>1, CancelAccounts
    <3> QED BY <2>2, <3>4
  <2> QED BY <2>3, <2>4
<1>6. k \in 0 .. k /\ k \notin Bad /\ k - k = 0
  BY <1>1, <1>5
<1> QED BY <1>2, <1>6
-----------------------------------------------------------------------------
(* The device is accounted for in every state of the pipeline.              *)
DeviceInv ==
    /\ adapter \in Adapters
    /\ batches \in Nat
    /\ adapter = "staged" => batches = 0
    /\ LedgerOK(driver, Wanted(adapter, Len(inFlight), batches))

LEMMA InitDevice == PipelineInit => DeviceInv
<1> SUFFICES ASSUME PipelineInit PROVE DeviceInv
  OBVIOUS
<1>1. adapter \in Adapters /\ driver = NewLedger /\ batches = 0 /\ inFlight = <<>>
  BY DEF PipelineInit
<1>2. Outer \in Stacks
  BY Nesting
<1>3. NewLedger \in Ledgers
  BY <1>2, DeviceTransferAssumption DEF NewLedger, Ledgers, Outer, Stacks
<1>4. \A r \in Resources : NewLedger.out[r] = 0 /\ Wanted(adapter, 0, 0)[r] = 0
  BY DEF NewLedger, Wanted
<1>5. \A c \in Calls : NewLedger.failed[c] = 0
  BY DEF NewLedger
<1>6. NewLedger.torn = FALSE /\ NewLedger.stack = Outer /\ ~FailedIn(NewLedger, Calls)
  BY <1>5 DEF NewLedger, Outer, FailedIn
<1>7. Accounted(NewLedger, Wanted(adapter, 0, 0), Outer)
  BY <1>4, <1>6 DEF Accounted
<1> QED BY <1>1, <1>3, <1>7, EmptySeq DEF DeviceInv, LedgerOK

LEMMA KindOfAdapter ==
    ASSUME DeviceInv PROVE adapter \in Kinds /\ adapter \in Adapters /\ batches \in Nat
BY PipelineAssumption DEF DeviceInv, Kinds

(* A step that leaves the device and the number of tickets alone.           *)
LEMMA DeviceKept ==
    ASSUME DeviceInv, UNCHANGED <<device, inFlight>>
    PROVE  DeviceInv'
BY DEF DeviceInv, device

(* What is pending is cancelled, whatever the ledger it starts from.        *)
LEMMA PendingCancelled ==
    ASSUME DeviceInv, NEW pending \in Seq(Ticket), NEW ledger,
           LedgerOK(ledger, Wanted(adapter, Len(pending), batches)),
           CancelPending(pending, ledger)
    PROVE  DeviceInv'
<1>1. /\ inFlight' = <<>> /\ driver' \in CancelTickets(adapter, ledger, pending)
      /\ adapter' = adapter /\ batches' = batches
  BY DEF CancelPending
<1>2. LedgerOK(driver', Wanted(adapter, 0, batches))
  BY <1>1, KindOfAdapter, CancelsAccount
<1>3. Len(inFlight') = 0
  BY <1>1, EmptySeq
<1> QED BY <1>1, <1>2, <1>3 DEF DeviceInv

LEMMA SubmitDevice ==
    ASSUME StreamInv, DeviceInv, Submit PROVE DeviceInv'
<1>1. /\ inFlight' = Append(inFlight, [order |-> submitted, span |-> Head(buffer)])
      /\ adapter' = adapter /\ batches' = batches /\ buffer # <<>>
  BY DEF Submit
<1>2. PICK u \in SubmitTo(adapter, driver) : u.ok /\ driver' = u.ledger
  BY DEF Submit
<1>3. inFlight \in Seq(Ticket) /\ Len(inFlight) \in Nat
  BY Elements DEF StreamInv, StreamTypes
<1>4. Len(inFlight') = Len(inFlight) + 1
  <2>1. [order |-> submitted, span |-> Head(buffer)] \in Ticket
    BY <1>1, Tailed DEF StreamInv, StreamTypes, Ticket
  <2> QED BY <1>1, <1>3, <2>1, Appended
<1>5. LedgerOK(driver', Wanted(adapter, Len(inFlight) + 1, batches))
  BY <1>2, <1>3, KindOfAdapter, SubmitAccounts DEF DeviceInv
<1> QED BY <1>1, <1>4, <1>5 DEF DeviceInv

LEMMA SubmitFailsDevice ==
    ASSUME StreamInv, DeviceInv, SubmitFails PROVE DeviceInv'
<1>1. PICK u \in SubmitTo(adapter, driver) : ~u.ok /\ Fail(inFlight, u.ledger)
  BY DEF SubmitFails
<1>2. inFlight \in Seq(Ticket) /\ Len(inFlight) \in Nat
  BY Elements DEF StreamInv, StreamTypes
<1>3. LedgerOK(u.ledger, Wanted(adapter, Len(inFlight), batches))
  BY <1>1, <1>2, KindOfAdapter, SubmitAccounts DEF DeviceInv
<1>4. CancelPending(inFlight, u.ledger)
  BY <1>1 DEF Fail
<1> QED BY <1>2, <1>3, <1>4, PendingCancelled

LEMMA RetireDevice ==
    ASSUME StreamInv, DeviceInv, Retire PROVE DeviceInv'
<1>1. /\ inFlight' = Tail(inFlight) /\ inFlight # <<>> /\ adapter' = adapter
      /\ batches' = IF adapter = "staged" THEN batches ELSE batches + 1
  BY DEF Retire, Retiring
<1>2. PICK u \in WaitFor(adapter, driver) : u.ok /\ driver' = u.ledger
  BY DEF Retire
<1>3. inFlight \in Seq(Ticket) /\ Len(inFlight') \in Nat /\ Len(inFlight) = Len(inFlight') + 1
  BY <1>1, Tailed DEF StreamInv, StreamTypes
<1>4. LedgerOK(driver', Wanted(adapter, Len(inFlight'), batches + 1))
  BY <1>2, <1>3, KindOfAdapter, WaitAccounts DEF DeviceInv
<1>5. CASE adapter = "staged"
  BY <1>1, <1>4, <1>5, StagedWantsNothing DEF DeviceInv
<1>6. CASE adapter # "staged"
  BY <1>1, <1>4, <1>6, KindOfAdapter DEF DeviceInv
<1> QED BY <1>5, <1>6

LEMMA RetireFailsDevice ==
    ASSUME StreamInv, DeviceInv, RetireFails PROVE DeviceInv'
<1>1. inFlight # <<>> /\ call = "filling"
  BY DEF RetireFails, Retiring
<1>2. PICK u \in WaitFor(adapter, driver) : ~(InTurn /\ u.ok) /\ Fail(Tail(inFlight), u.ledger)
  BY DEF RetireFails
<1>3. /\ Tail(inFlight) \in Seq(Ticket) /\ Len(Tail(inFlight)) \in Nat
      /\ Len(inFlight) = Len(Tail(inFlight)) + 1
  <2>1. inFlight \in Seq(Ticket)
    BY DEF StreamInv, StreamTypes
  <2> QED BY <1>1, <2>1, Tailed
<1>4. InTurn
  <2>1. Tickets
    BY <1>1, Calling
  <2>2. Len(inFlight) >= 1 /\ Len(inFlight) \in Nat /\ Head(inFlight) = inFlight[1]
    BY <1>1, Tailed DEF StreamInv, StreamTypes
  <2>3. Head(inFlight).order = retired + 1 - 1 /\ retired \in Nat
    BY <2>1, <2>2 DEF Tickets, StreamInv, StreamTypes
  <2> QED BY <2>3 DEF InTurn
<1>5. LedgerOK(u.ledger, Wanted(adapter, Len(Tail(inFlight)), batches))
  BY <1>2, <1>3, <1>4, KindOfAdapter, WaitAccounts DEF DeviceInv
<1>6. CancelPending(Tail(inFlight), u.ledger)
  BY <1>2 DEF Fail
<1> QED BY <1>3, <1>5, <1>6, PendingCancelled

LEMMA CancelAllDevice ==
    ASSUME StreamInv, DeviceInv, CancelPending(inFlight, driver) PROVE DeviceInv'
<1>1. inFlight \in Seq(Ticket)
  BY DEF StreamInv, StreamTypes
<1>2. LedgerOK(driver, Wanted(adapter, Len(inFlight), batches))
  BY DEF DeviceInv
<1> QED BY <1>1, <1>2, PendingCancelled

LEMMA DropBatchDevice ==
    ASSUME StreamInv, DeviceInv, DropBatch PROVE DeviceInv'
<1>1. /\ batches > 0 /\ driver' \in DropBatchOf(adapter, driver)
      /\ batches' = batches - 1 /\ adapter' = adapter /\ inFlight' = inFlight
  BY DEF DropBatch
<1>2. /\ adapter \in {"cuda", "rocm"} /\ batches' \in Nat /\ batches = batches' + 1
      /\ Len(inFlight) \in Nat
  BY <1>1, KindOfAdapter, Elements DEF DeviceInv, Kinds, StreamInv, StreamTypes
<1>3. LedgerOK(driver', Wanted(adapter, Len(inFlight), batches'))
  BY <1>1, <1>2, DropAccounts DEF DeviceInv
<1> QED BY <1>1, <1>2, <1>3 DEF DeviceInv

LEMMA NextDevice ==
    ASSUME StreamInv, DeviceInv, [Next]_pipelineVars PROVE DeviceInv'
<1>1. CASE UNCHANGED pipelineVars
  BY <1>1, DeviceKept DEF pipelineVars
<1>2. CASE Cancel \/ NextDeviceBatch \/ RepeatError \/ AskLoader \/ LoadSpan \/ StreamEnds
           \/ ReportEnd
  BY <1>2, DeviceKept
     DEF Cancel, NextDeviceBatch, RepeatError, AskLoader, LoadSpan, StreamEnds, ReportEnd
<1>3. CASE LoadCancelled \/ LoadFails
  <2>1. CancelPending(inFlight, driver)
    BY <1>3 DEF LoadCancelled, LoadFails, LoaderFails, Fail
  <2> QED BY <2>1, CancelAllDevice
<1>4. CASE DropPipeline
  <2>1. CancelPending(inFlight, driver)
    BY <1>4 DEF DropPipeline
  <2> QED BY <2>1, CancelAllDevice
<1> QED
  BY <1>1, <1>2, <1>3, <1>4, SubmitDevice, SubmitFailsDevice, RetireDevice,
     RetireFailsDevice, DropBatchDevice DEF Next, PipelineStep

LEMMA DeviceIsContained ==
    ASSUME StreamInv, DeviceInv PROVE TicketsAccounted
<1>1. PipelineTypeOK
  <2>1. {cancelled, loaderTerminal, exhausted, terminalError, dropped, late} \subseteq BOOLEAN
    BY DEF StreamInv, StreamTypes
  <2> QED BY <2>1 DEF PipelineTypeOK, StreamInv, StreamTypes, DeviceInv, LedgerOK, Entry, Ticket
<1>2. Contained(adapter, Len(inFlight), batches, driver)
  <2>1. Accounted(driver, Wanted(adapter, Len(inFlight), batches), Outer)
    BY DEF DeviceInv, LedgerOK
  <2>2. driver.torn => FailedIn(driver, {"synchronize", "push", "bind"})
    BY <2>1 DEF Accounted, Unwaited
  <2>3. driver.stack # <<"caller">> => FailedIn(driver, {"push", "pop"})
    BY <2>1 DEF Accounted, Unstacked, Outer
  <2>4. ASSUME NEW r \in Resources
        PROVE  LET owned == (IF r \in TicketHolds(adapter) THEN Len(inFlight) ELSE 0)
                            + (IF r \in BatchHolds(adapter) THEN batches ELSE 0)
               IN  /\ driver.out[r] >= owned
                   /\ driver.out[r] > owned =>
                        \/ FailedIn(driver, {"free"})
                        \/ r # "context" /\ FailedIn(driver, {"push"})
                        \/ /\ FailedIn(driver, {"bind"})
                           /\ r = "device" \/ driver.left + 2 <= MaxDriverFaults
    BY <2>1 DEF Accounted, Excused, Wanted
  <2> QED BY <2>2, <2>3, <2>4 DEF Contained, FailedIn
<1>3. IF terminalError \/ dropped THEN inFlight = <<>>
      ELSE /\ retired + Len(inFlight) = submitted
           /\ \A i \in 1 .. Len(inFlight) : inFlight[i].order = retired + i - 1
  BY DEF StreamInv, Alive, Tickets
<1> QED BY <1>1, <1>2, <1>3 DEF TicketsAccounted

(* Contexts, pinned memory, device memory and streams are held for exactly  *)
(* the tickets in flight and the batches alive, or are lost to the failures *)
(* the ledger names; no copy is torn and the caller's context is current,   *)
(* for every depth of the pipeline and any number of driver calls that fail *)
(* (cuda_transfer.rs, rocm_transfer.rs); tickets retire in their order.     *)
THEOREM DeviceIsAccounted == Spec => []TicketsAccounted
<1>1. StreamInv /\ DeviceInv => TicketsAccounted
  BY DeviceIsContained
<1>2. StreamInv /\ DeviceInv /\ [Next]_pipelineVars => DeviceInv'
  BY NextDevice
<1> QED BY <1>1, <1>2, InitDevice, StreamInvHolds, PTL DEF Spec
================================================================================
