----------------------------- MODULE AcceptanceLog -----------------------------
(***************************************************************************)
(* What the receipt publication of an xtask phase promises, whatever       *)
(* interrupts it: a run gets one verdict for ever, passed runs are         *)
(* accepted once each in an append-only log, and the selected entry moves  *)
(* forward, one acceptance at a time.                                      *)
(***************************************************************************)
EXTENDS Naturals, Sequences, SequencesExt

CONSTANT Runs

VARIABLES
  verdict,     \* the terminal record of each run, "none" before it is closed
  accepted,    \* the runs accepted, in order
  selected     \* the position in accepted that is selected, 0 when nothing is

logVars == <<verdict, accepted, selected>>

Init ==
  /\ verdict = [r \in Runs |-> "none"]
  /\ accepted = <<>>
  /\ selected = 0

Close(r, v) ==
  /\ verdict[r] = "none"
  /\ verdict' = [verdict EXCEPT ![r] = v]
  /\ UNCHANGED <<accepted, selected>>

\* The previous acceptance has been selected before the next one is appended.
Accept(r) ==
  /\ verdict[r] = "PASS"
  /\ r \notin ToSet(accepted)
  /\ selected = Len(accepted)
  /\ accepted' = Append(accepted, r)
  /\ UNCHANGED <<verdict, selected>>

Select ==
  /\ selected < Len(accepted)
  /\ selected' = Len(accepted)
  /\ UNCHANGED <<verdict, accepted>>

Next ==
  \/ \E r \in Runs : Close(r, "PASS") \/ Close(r, "FAIL") \/ Accept(r)
  \/ Select

Spec == Init /\ [][Next]_logVars
=============================================================================
