---------------------------- MODULE MCBatchSource ----------------------------
(* BatchSource with full spans and a ragged last one.                       *)
EXTENDS BatchSource

RaggedSpans == [i \in 0 .. Spans - 1 |-> IF i = Spans - 1 THEN 1 ELSE 2]
=============================================================================
