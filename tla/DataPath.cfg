CONSTANTS
    Spans = 6
    Capacity = 2
    MaximumInFlight = 3
    Adapters = {"staged", "cuda", "rocm"}
    MaxDriverFaults = 2
    SpanTargets <- RaggedSpans
SPECIFICATION SourceSpec
INVARIANTS TicketsAccounted NothingAfterCancel WindowsFollowStream
PROPERTIES ImplementsOrderedStream RequestReturns
\* A dropped source is gone.
CHECK_DEADLOCK FALSE
