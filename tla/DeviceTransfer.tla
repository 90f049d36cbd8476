--------------------------- MODULE DeviceTransfer ---------------------------
(***************************************************************************)
(* Ownership of what a transfer ticket holds in the CUDA and ROCm adapters *)
(* (src/train/cuda_transfer.rs, rocm_transfer.rs).  A ticket obtains a     *)
(* reference to the primary context (CUDA only), pinned host memory,       *)
(* device memory and a stream, one driver call after the other, and any    *)
(* call may fail.                                                          *)
(*                                                                         *)
(* A ledger says what the calls so far have come to:                       *)
(*   out     what is allocated and not freed, for each kind of resource;   *)
(*   stack   the contexts of the calling thread: its own one, and "ours";  *)
(*   torn    memory was freed under a copy not known to have ended;        *)
(*   failed  how often each kind of call has failed;                       *)
(*   left    how many more calls may fail.                                 *)
(* A state of a method is the ledger with, in addition, what its ticket    *)
(* owns, whether its copy may be under way, and whether the last call went *)
(* well.  An operator yields the states a piece of the code can end in.    *)
(***************************************************************************)
EXTENDS Naturals, SequencesExt

CONSTANT MaxDriverFaults    \* bound on the driver calls that fail

ASSUME DeviceTransferAssumption == MaxDriverFaults \in Nat

Resources == {"context", "host", "device", "stream"}
Calls == {"obtain", "copy", "synchronize", "free", "push", "pop", "bind"}

NewLedger == [out |-> [r \in Resources |-> 0], stack |-> <<"caller">>, torn |-> FALSE,
              failed |-> [c \in Calls |-> 0], left |-> MaxDriverFaults]
Ledgers == [out : [Resources -> Nat], stack : Seq({"caller", "ours"}), torn : BOOLEAN,
            failed : [Calls -> Nat], left : 0 .. MaxDriverFaults]

Begin(ledger, owns, copying) ==
    [owns |-> owns, copying |-> copying, ok |-> TRUE, out |-> ledger.out, stack |-> ledger.stack,
     torn |-> ledger.torn, failed |-> ledger.failed, left |-> ledger.left]
LedgerOf(s) == [out |-> s.out, stack |-> s.stack, torn |-> s.torn, failed |-> s.failed,
                left |-> s.left]

(* Carry on whatever came of it (`let _`), and `?`. *)
Then(states, Op(_)) == UNION {Op(s) : s \in states}
IfOk(states, Op(_)) == UNION {IF s.ok THEN Op(s) ELSE {s} : s \in states}

If(possible, s) == IF possible THEN {s} ELSE {}

(* One driver call, and what it does if it goes well. *)
Call(s, kind, after) ==
    {[after EXCEPT !.ok = TRUE]} \cup
    If(s.left > 0, [s EXCEPT !.ok = FALSE, !.failed[kind] = @ + 1, !.left = @ - 1])

Obtain(s, r) ==
    Call(s, "obtain", [s EXCEPT !.owns = @ \cup {r}, !.out[r] = @ + 1])

Freed(s, r) ==
    [s EXCEPT !.out[r] = @ - 1, !.torn = @ \/ (r \in {"host", "device"} /\ s.copying)]
Free(s, r) == Call(s, "free", Freed(s, r))

(* The ticket gives r up if freeing went well, or in any case.              *)
Release(s, r) ==
    IF r \notin s.owns THEN {s}
    ELSE {IF t.ok THEN [t EXCEPT !.owns = @ \ {r}] ELSE t : t \in Free(s, r)}
Forget(freed, r) == {[t EXCEPT !.owns = @ \ {r}] : t \in freed}

StartCopy(s) == Call(s, "copy", [s EXCEPT !.copying = TRUE])
AwaitStream(s) == Call(s, "synchronize", [s EXCEPT !.copying = FALSE])

(* Stream and host memory; the first error counts. *)
ReleaseStagingOf(s) ==
    UNION {{[t EXCEPT !.ok = t.ok /\ u.ok] : t \in Release(u, "host")} :
           u \in Release([s EXCEPT !.ok = TRUE], "stream")}
-----------------------------------------------------------------------------
(* The CUDA adapter: every call between a push of the ticket's context and  *)
(* its pop, which is made whatever came before it.                          *)
Push(s) == Call(s, "push", [s EXCEPT !.stack = Append(@, "ours")])

(* A foreign context is an error, too (P11_CUDA_CONTEXT_MISMATCH).          *)
Pop(s) ==
    IF s.stack = <<>> THEN {[s EXCEPT !.ok = FALSE]}
    ELSE {[t EXCEPT !.ok = @ /\ Last(s.stack) = "ours"] :
          t \in Call(s, "pop", [s EXCEPT !.stack = Front(@)])}

InContext(s, Op(_)) ==
    UNION {IF ~p.ok THEN {p}
           ELSE UNION {{[t EXCEPT !.ok = @ /\ o.ok] : t \in Pop(o)} : o \in Op(p)} :
           p \in Push(s)}

(* Outside the ticket's context freeing may fail by itself.                 *)
FreeInContext(s, r) ==
    Free(s, r) \cup If(s.stack = <<>> \/ Last(s.stack) # "ours", [s EXCEPT !.ok = FALSE])

CudaSynchronize(s) == InContext(s, AwaitStream)

CudaDiscard(s, r) == IF r \in s.owns THEN Forget(FreeInContext(s, r), r) ELSE {s}
DiscardInContext(s) ==
    Then(Then(CudaDiscard(s, "stream"), LAMBDA t : CudaDiscard(t, "device")),
         LAMBDA t : CudaDiscard(t, "host"))
ReleaseContext(s) == Forget(Free(s, "context"), "context")

(* Mutant of CudaCleanup: cleanup(false).                                   *)
CudaCleanup_Unsynchronized(s) ==
    IF "context" \notin s.owns THEN {s}
    ELSE Then(Then(Then(Push(s), DiscardInContext), Pop), ReleaseContext)

(* cleanup(true): it goes on when the synchronisation or the push failed.   *)
CudaCleanup(s) ==
    IF "context" \notin s.owns THEN {s}
    ELSE LET waited == IF "stream" \in s.owns THEN CudaSynchronize(s) ELSE {s}
         IN  Then(Then(Then(Then(waited, Push), DiscardInContext), Pop), ReleaseContext)

CudaDropBatch(s) ==
    Then(UNION {IF p.ok THEN Then(Free(p, "device"), Pop) ELSE {p} : p \in Push(s)},
         ReleaseContext)
-----------------------------------------------------------------------------
(* The ROCm adapter binds the device to the thread before every operation.  *)
Bind(s) == Call(s, "bind", s)
RocmSynchronize(s) == IfOk(Bind(s), AwaitStream)

RocmDiscard(s, r) == IF r \in s.owns THEN Forget(Free(s, r), r) ELSE {s}
DiscardBound(s) ==
    Then(Then(Then(IF "stream" \in s.owns THEN RocmSynchronize(s) ELSE {s},
                   LAMBDA t : RocmDiscard(t, "stream")),
              LAMBDA t : RocmDiscard(t, "device")),
         LAMBDA t : RocmDiscard(t, "host"))

(* It returns early when the device cannot be bound, and owns it all still. *)
RocmCleanup(s) == IF s.owns = {} THEN {s} ELSE IfOk(Bind(s), DiscardBound)

RocmDropBatch(s) == IfOk(Bind(s), LAMBDA b : Free(b, "device"))
-----------------------------------------------------------------------------
TicketHolds(adapter) ==
    CASE adapter = "cuda" -> Resources
      [] adapter = "rocm" -> Resources \ {"context"}
      [] OTHER            -> {}
BatchHolds(adapter) == TicketHolds(adapter) \ {"host", "stream"}

StageAndCopy(s) ==
    IfOk(IfOk(IfOk(Obtain(s, "host"), LAMBDA t : Obtain(t, "device")),
              LAMBDA t : Obtain(t, "stream")), StartCopy)

AllocateAndSubmit(adapter, s) ==
    IF adapter = "cuda"
    THEN IfOk(Obtain(s, "context"), LAMBDA t : InContext(t, StageAndCopy))
    ELSE IfOk(Bind(s), StageAndCopy)

SynchronizeAndRelease(adapter, s) ==
    IF adapter = "cuda"
    THEN IfOk(CudaSynchronize(s), LAMBDA t : InContext(t, ReleaseStagingOf))
    ELSE IfOk(IfOk(RocmSynchronize(s), Bind), ReleaseStagingOf)

Cleanup(adapter, s) == IF adapter = "cuda" THEN CudaCleanup(s) ELSE RocmCleanup(s)

Outcomes(states) == {[ok |-> s.ok, ledger |-> LedgerOf(s)] : s \in states}
OrElse(states, Recover(_)) ==
    UNION {IF s.ok THEN {s} ELSE {[t EXCEPT !.ok = FALSE] : t \in Recover(s)} : s \in states}

(* submit, wait and cancel of the adapters, and the drop of a batch.  A     *)
(* ticket that is not handed on is dropped, and its drop cleans up, again.  *)
SubmitTo(adapter, ledger) ==
    IF adapter = "staged" THEN {[ok |-> TRUE, ledger |-> ledger]}
    ELSE Outcomes(OrElse(AllocateAndSubmit(adapter, Begin(ledger, {}, FALSE)),
                         LAMBDA s : Then(Cleanup(adapter, s), LAMBDA t : Cleanup(adapter, t))))

WaitFor(adapter, ledger) ==
    IF adapter = "staged" THEN {[ok |-> TRUE, ledger |-> ledger]}
    ELSE Outcomes(OrElse(SynchronizeAndRelease(adapter, Begin(ledger, TicketHolds(adapter), TRUE)),
                         LAMBDA s : Cleanup(adapter, s)))

CancelTicket(adapter, ledger) ==
    IF adapter = "staged" THEN {ledger}
    ELSE {LedgerOf(s) : s \in Then(Cleanup(adapter, Begin(ledger, TicketHolds(adapter), TRUE)),
                                   LAMBDA t : Cleanup(adapter, t))}
CancelTickets(adapter, ledger, tickets) ==
    LET After[n \in 0 .. Len(tickets)] ==
            IF n = 0 THEN {ledger} ELSE UNION {CancelTicket(adapter, l) : l \in After[n - 1]}
    IN  After[Len(tickets)]

DropBatchOf(adapter, ledger) ==
    LET batch == Begin(ledger, BatchHolds(adapter), FALSE)
    IN  {LedgerOf(s) : s \in IF adapter = "cuda" THEN CudaDropBatch(batch)
                             ELSE RocmDropBatch(batch)}
-----------------------------------------------------------------------------
(* What may be wrong in the ledger of an adapter with so many tickets and   *)
(* batches alive, and after which failures.  Nothing is freed twice.        *)
Contained(adapter, tickets, batches, ledger) ==
    LET Owned(r) == (IF r \in TicketHolds(adapter) THEN tickets ELSE 0)
                    + (IF r \in BatchHolds(adapter) THEN batches ELSE 0)
        Failed(kinds) == \E c \in kinds : ledger.failed[c] > 0
    IN  /\ ledger.torn => Failed({"synchronize", "push", "bind"})
        /\ ledger.stack # <<"caller">> => Failed({"push", "pop"})
        /\ \A r \in Resources :
              /\ ledger.out[r] >= Owned(r)
              /\ ledger.out[r] > Owned(r) =>
                    \/ Failed({"free"})
                    \/ r # "context" /\ Failed({"push"})
                    \/ Failed({"bind"}) /\ (r = "device" \/ ledger.left + 2 <= MaxDriverFaults)
=============================================================================
