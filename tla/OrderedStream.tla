---------------------------- MODULE OrderedStream ----------------------------
(***************************************************************************)
(* What a reader of the training spans is promised (README.md, "Windows    *)
(* data path"): the spans one by one in the order of the sequence index,   *)
(* none skipped and none twice; a stable end that comes after the last     *)
(* span and not before; a failure that stays.                              *)
(***************************************************************************)
EXTENDS Naturals, Sequences

CONSTANT Length                 \* the number of spans

VARIABLES delivered,            \* the spans handed to the reader, in order
          answer                \* what the reader was told last

Init == delivered = <<>> /\ answer = "none"

Deliver ==
    /\ answer \in {"none", "batch"}
    /\ Len(delivered) < Length
    /\ delivered' = Append(delivered, Len(delivered))
    /\ answer' = "batch"

End ==
    /\ answer # "error"
    /\ Len(delivered) = Length
    /\ answer' = "end"
    /\ UNCHANGED delivered

Fail ==
    /\ answer # "end"
    /\ answer' = "error"
    /\ UNCHANGED delivered

Next == Deliver \/ End \/ Fail

Spec == Init /\ [][Next]_<<delivered, answer>>
=============================================================================
