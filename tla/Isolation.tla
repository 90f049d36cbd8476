------------------------------ MODULE Isolation ------------------------------
(* The two seconds in which the host must be quiet (measure_isolation in    *)
(* p1a_windows.rs): the verifier approves its own launchers, takes a first  *)
(* snapshot of the processes, polls them, and judges the load each has put  *)
(* on the machine.  Processes start, compute and end between any two of its *)
(* reads, and Windows gives the number of an ended process to another.      *)
(*                                                                          *)
(* A process is identified by its number and the time it was created.  A    *)
(* snapshot is two reads: the list of the numbers, and then the counters of *)
(* each number that can still be opened.                                    *)
EXTENDS Naturals, Sequences, FiniteSets, SequencesExt, FiniteSetsExt

CONSTANTS
    Pids,          \* process numbers: 1 the desktop, 2 the launcher, 3 the verifier
    CoreLimit,     \* the load one process may put on one processor
    SystemLimit,   \* the load all processes together may put on all of them
    AncestryLimit, \* the launchers a chain may have, 64 in the code
    Polls,         \* bound: the polls that fit into the window
    ProcessEvents  \* bound: starts, ends and bursts of computing in all

Desktop == 1
Launcher == 2
Verifier == 3

VARIABLES
    live,      \* process number -> its process
    wall,      \* the clock creation times are taken from
    events,    \* process events so far
    settings,  \* the topology, affinity and power policy of the machine
    probe,     \* what measure_isolation holds
    hot        \* identities that a poll found after they exceeded CoreLimit

world == <<live, wall, events, settings>>
isolation == <<live, wall, events, settings, probe, hot>>

NoProcess == [image |-> "none", parent |-> 0, born |-> 0, open |-> FALSE,
              cpu |-> 0, load |-> 0]
Running(p) == live[p].image # "none"
Process(image, parent, open) ==
    [image |-> image, parent |-> parent, born |-> wall, open |-> open,
     cpu |-> 0, load |-> 0]

(* The table Windows keeps of the parents: numbers, not identities.         *)
Table == [p \in {q \in Pids : Running(q)} |->
             [image |-> live[p].image, parent |-> live[p].parent]]
Identity(o) == <<o.pid, o.born>>

NoProbe == [at |-> "ancestry", chain |-> {}, approved |-> {}, opened |-> 0,
            settings |-> 0, listed |-> {}, initial |-> {}, first |-> {},
            last |-> {}, polls |-> 0, busy |-> 0]

AtStart(launcher) ==
    [p \in Pids |->
        CASE p = Desktop  -> [NoProcess EXCEPT !.image = "boundary", !.open = TRUE]
          [] p = Launcher -> [NoProcess EXCEPT !.image = launcher, !.open = TRUE,
                                               !.parent = Desktop]
          [] p = Verifier -> [NoProcess EXCEPT !.image = "tool", !.open = TRUE,
                                               !.parent = Launcher]
          [] OTHER        -> NoProcess]
Init ==
    /\ \E launcher \in {"tool", "python"} : live = AtStart(launcher)
    /\ wall = 1 /\ events = 0 /\ settings = 0
    /\ probe = NoProbe /\ hot = {}
-----------------------------------------------------------------------------
(* The other processes.                                                     *)
Start(p, parent, open) ==
    /\ ~Running(p) /\ Running(parent)
    /\ live' = [live EXCEPT ![p] = Process("tool", parent, open)]
    /\ wall' = wall + 1
    /\ UNCHANGED settings

End(p) ==
    /\ Running(p) /\ p # Verifier
    /\ live' = [live EXCEPT ![p] = NoProcess]
    /\ UNCHANGED <<wall, settings>>

Compute(p, slices) ==
    /\ Running(p)
    /\ live' = [live EXCEPT ![p].cpu = @ + slices, ![p].load = @ + slices]
    /\ UNCHANGED <<wall, settings>>

ChangeSettings ==
    /\ settings' = 1 - settings
    /\ UNCHANGED <<live, wall>>

Measuring == probe.at \notin {"quiet", "busy", "refused"}

(* The busy time of the system counts every process, seen or not.           *)
World ==
    /\ Measuring /\ events < ProcessEvents
    /\ events' = events + 1
    /\ \/ \E p, parent \in Pids, open \in BOOLEAN :
             Start(p, parent, open) /\ UNCHANGED probe
       \/ \E p \in Pids : End(p) /\ UNCHANGED probe
       \/ \E p \in Pids, slices \in 1..2 :
             Compute(p, slices) /\ probe' = [probe EXCEPT !.busy = @ + slices]
       \/ ChangeSettings /\ UNCHANGED probe
    /\ UNCHANGED hot
-----------------------------------------------------------------------------
(* verifier_ancestry_process_ids: from the verifier up to the desktop,      *)
(* which is not approved itself; a number that is not listed, one that is   *)
(* met twice, a Python process, a chain that ends elsewhere and one that is *)
(* too long are refused.                                                    *)
VerifierAncestry(table) ==
    LET up(p) == IF p \in DOMAIN table THEN table[p].parent ELSE 0
        depth == 0..(AncestryLimit - 1)
        walk[n \in depth] == IF n = 0 THEN Verifier ELSE up(walk[n - 1])
        image(n) == IF walk[n] \in DOMAIN table THEN table[walk[n]].image ELSE "none"
        arrived == {n \in depth : /\ image(n) = "boundary"
                                  /\ \A m \in 0..(n - 1) :
                                        image(m) \notin {"none", "python", "boundary"}}
    IN  UNION {{walk[m] : m \in 0..(n - 1)} : n \in arrived}

Refuse == probe' = [probe EXCEPT !.at = "refused"]

ListAncestry ==
    /\ probe.at = "ancestry"
    /\ \E chain \in {VerifierAncestry(Table)} :
          IF chain = {} THEN Refuse
          ELSE probe' = [probe EXCEPT !.at = "approve", !.chain = chain]
    /\ UNCHANGED <<world, hot>>

(* process_identity opens each number of the chain, whoever has it by now.  *)
ApproveAncestry ==
    /\ probe.at = "approve"
    /\ IF \A p \in probe.chain : Running(p) /\ live[p].open
       THEN probe' = [probe EXCEPT !.at = "open",
                                   !.approved = {<<p, live[p].born>> : p \in probe.chain}]
       ELSE Refuse
    /\ UNCHANGED <<world, hot>>

OpenWindow ==
    /\ probe.at = "open"
    /\ probe' = [probe EXCEPT !.at = "list", !.opened = wall, !.settings = settings, !.busy = 0]
    /\ UNCHANGED <<world, hot>>

(* process_snapshot, the list ...                                           *)
ListProcesses ==
    /\ probe.at = "list"
    /\ probe' = [probe EXCEPT !.at = "read", !.listed = {p \in Pids : Running(p)}]
    /\ UNCHANGED <<world, hot>>

(* ... and the counters of what can be opened.                              *)
Observed ==
    {[pid |-> p, born |-> live[p].born, cpu |-> live[p].cpu] :
       p \in {q \in probe.listed : Running(q) /\ live[q].open}}

KeepFirst(first, seen) ==
    first \cup {o \in seen : \A f \in first : Identity(f) # Identity(o)}
KeepLast(last, seen) ==
    seen \cup {o \in last : \A s \in seen : Identity(s) # Identity(o)}

(* Every snapshot adds what it sees to the first and the last observation   *)
(* of each identity; the last poll is the one that finds the time over.     *)
(* load and hot are history: they start with the first snapshot.            *)
ReadCounters ==
    /\ probe.at = "read"
    /\ \E seen \in {Observed} :
         IF probe.polls = 0
         THEN /\ probe' = [probe EXCEPT !.at = "list", !.initial = seen, !.first = seen,
                                        !.last = seen, !.polls = 1]
              /\ live' = [p \in Pids |-> [live[p] EXCEPT !.load = 0]]
              /\ UNCHANGED hot
         ELSE /\ probe' = [probe EXCEPT !.at = IF probe.polls = Polls THEN "judge" ELSE "list",
                                        !.first = KeepFirst(@, seen),
                                        !.last = KeepLast(@, seen), !.polls = @ + 1]
              /\ hot' = hot \cup {Identity(o) : o \in {s \in seen : live[s.pid].load > CoreLimit}}
              /\ UNCHANGED live
    /\ UNCHANGED <<wall, events, settings>>

(* The load of a process: since the first snapshot, since its creation when *)
(* it was created in the window, since it was first observed otherwise.     *)
Load(o) ==
    LET of(set) == CHOOSE f \in set : Identity(f) = Identity(o)
        before == IF \E f \in probe.initial : Identity(f) = Identity(o)
                  THEN of(probe.initial).cpu
                  ELSE IF o.born \in probe.opened..wall THEN 0 ELSE of(probe.first).cpu
    IN  IF o.cpu < before THEN 0 ELSE o.cpu - before

(* is_competing_foreign_load: neither the verifier nor an approved launcher.*)
Competing_AtEnds ==
    {o \in probe.last : /\ o.pid # Verifier
                        /\ Running(o.pid) /\ live[o.pid].born = o.born
                        /\ Identity(o) \notin probe.approved
                        /\ Load(o) > CoreLimit}
Competing ==
    {o \in probe.last : /\ o.pid # Verifier
                        /\ Identity(o) \notin probe.approved
                        /\ Load(o) > CoreLimit}

(* The violations; topology, affinity and power are compared with what they *)
(* were when the window opened.                                             *)
Judge ==
    /\ probe.at = "judge"
    /\ probe' = [probe EXCEPT !.at = IF /\ Competing = {}
                                        /\ probe.busy <= SystemLimit
                                        /\ settings = probe.settings
                                     THEN "quiet" ELSE "busy"]
    /\ UNCHANGED <<world, hot>>

Approve == ListAncestry \/ ApproveAncestry
Measure == OpenWindow \/ ListProcesses \/ ReadCounters \/ Judge
Next == World \/ Approve \/ Measure
-----------------------------------------------------------------------------
(* A host found quiet had no foreign process that was seen after it put     *)
(* more than CoreLimit on a processor in the window, not even one that came *)
(* and went between the first poll and the last.  The exception is the      *)
(* code's own: when the launcher ended before it was approved, what has     *)
(* taken its number, and the launchers of that, are taken for the chain.    *)
OwnLauncher == <<Launcher, 0>>
QuietHostHasNoLoad ==
    probe.at = "quiet" =>
        \A h \in hot : \/ h[1] = Verifier
                       \/ /\ h \in probe.approved
                          /\ h = OwnLauncher \/ OwnLauncher \notin probe.approved
=============================================================================
