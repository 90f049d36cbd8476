---- MODULE AuditedProcess ----
(***************************************************************************)
(* One audited command (src/xtask/src/p1a_process.rs, run): the auditor    *)
(* starts a program suspended, puts it into a private Job Object, and then *)
(* serves the debug events of the whole process tree until the tree is     *)
(* gone.  A process that raised a debug event stands still until the       *)
(* auditor continues it; every other process runs, spawns, maps modules    *)
(* and exits between any two steps of the auditor.                         *)
(*                                                                         *)
(* A process is an identity (pid and creation time in the code).  Pid says *)
(* which identities share a process number: Windows reuses it once no      *)
(* handle holds the old process.  Silent processes are the console hosts   *)
(* Windows puts into the Job without reporting them to the debugger.       *)
(***************************************************************************)
EXTENDS Naturals, FiniteSets

CONSTANTS
    Procs,       \* identities of the processes a command may start
    Root,        \* the command's own process
    Silent,      \* processes the debugger is never told about
    Wow64,       \* 32-bit processes: two initial breakpoints
    Persistent,  \* vctip.exe under a qualified root: may survive the root
    Pid,         \* the process number of each identity
    Modules,     \* modules a process may map
    Forbidden,   \* the processes and modules the policy forbids
    Slices       \* bound: waits before a deadline of the auditor passes

ASSUME AuditedProcessAssumption ==
    /\ Root \in Procs \ (Silent \cup Persistent)
    /\ Pid \in [Procs -> Nat]
    /\ \A p \in Procs \ {Root} : Pid[p] # Pid[Root]
    /\ Slices \in Nat \ {0}
    /\ Modules \cap {"none", "create", "breakpoint", "wx86breakpoint", "exit", "executable"} = {}

VARIABLES
    life,        \* where each process is
    event,       \* the debug event each process stands still for
    mapped,      \* modules each process has mapped
    doomed,      \* processes the auditor has ordered terminated
    pc,          \* where run() is
    guard,       \* the armed drop guard
    clock,       \* waits of the current loop that have passed
    debug,       \* debug.processes: identity -> initial boundary
    audit        \* AuditState and the flags of the result

kernel == <<life, event, mapped, doomed>>
auditor == <<pc, guard, clock, debug, audit>>
vars == <<life, event, mapped, doomed, pc, guard, clock, debug, audit>>

None == "none"
Reported == Procs \ Silent
Live == {p \in Procs : life[p] \in {"suspended", "loading", "loading32", "running"}}
Exiting == {p \in Procs : life[p] = "exiting"}
Stopped == {p \in Reported : event[p] # None}
Existed == {p \in Procs : life[p] # "unborn"}

(* A process number is taken while a process has it or a handle holds it.  *)
(* run() keeps the root's handle, debug.processes those of the others.     *)
PidTaken(n) ==
    \/ n = Pid[Root]
    \/ \E p \in Live \cup Exiting \cup DOMAIN debug : Pid[p] = n

(***************************************************************************)
(* The processes.                                                          *)
(***************************************************************************)
Free(p) == p \in Live \ doomed /\ p \notin Stopped

Raise(p, e) == event' = [event EXCEPT ![p] = e]

Spawn(p, q) ==
    /\ Free(p) /\ life[p] = "running"
    /\ life[q] = "unborn" /\ q # Root /\ ~PidTaken(Pid[q])
    /\ life' = [life EXCEPT ![q] = IF q \in Silent THEN "running" ELSE "loading"]
    /\ IF q \in Silent THEN UNCHANGED event ELSE Raise(q, "create")
    /\ UNCHANGED <<mapped, doomed, auditor>>

MapModule(p, m) ==
    /\ Free(p) /\ p \in Reported /\ life[p] # "suspended" /\ m \notin mapped[p]
    /\ mapped' = [mapped EXCEPT ![p] = @ \cup {m}]
    /\ Raise(p, m)
    /\ UNCHANGED <<life, doomed, auditor>>

Unmap(p, m) ==
    /\ Free(p) /\ life[p] # "running" /\ m \in mapped[p]
    /\ mapped' = [mapped EXCEPT ![p] = @ \ {m}]
    /\ UNCHANGED <<life, event, doomed, auditor>>

(* The loader's breakpoint, and for a 32-bit process the second one of the *)
(* WOW64 loader, come before the first instruction of the program.         *)
Breakpoint(p) ==
    /\ Free(p) /\ p \in Reported
    /\ \/ life[p] = "loading" /\ Raise(p, "breakpoint")
       \/ life[p] = "loading32" /\ Raise(p, "wx86breakpoint")
    /\ UNCHANGED <<life, mapped, doomed, auditor>>

(* A process leaves on its own: the program ends, or its loader fails.     *)
Exit(p) ==
    /\ Free(p) /\ life[p] # "suspended"
    /\ IF p \in Silent
       THEN life' = [life EXCEPT ![p] = "gone"] /\ UNCHANGED event
       ELSE life' = [life EXCEPT ![p] = "exiting"] /\ Raise(p, "exit")
    /\ UNCHANGED <<mapped, doomed, auditor>>

Processes ==
    \/ \E p, q \in Procs : Spawn(p, q)
    \/ \E p \in Procs, m \in Modules : MapModule(p, m) \/ Unmap(p, m)
    \/ \E p \in Procs : Breakpoint(p) \/ Exit(p)

(***************************************************************************)
(* TerminateJobObject and TerminateProcess: the processes run no further   *)
(* instruction; one that stands still at an event leaves once continued.   *)
(***************************************************************************)
Terminate(ps) ==
    LET hit == ps \cap Live IN
    /\ doomed' = doomed \cup hit
    /\ life' = [p \in Procs |->
                  IF p \in hit \cap Silent THEN "gone"
                  ELSE IF p \in hit \ Stopped THEN "exiting" ELSE life[p]]
    /\ event' = [p \in Procs |->
                  IF p \in (hit \ Silent) \ Stopped THEN "exit" ELSE event[p]]
    /\ UNCHANGED mapped

(* job_process_ids: a process whose exit event is pending may be listed.   *)
JobLists == {{Pid[p] : p \in Live \cup late} : late \in SUBSET Exiting}

(***************************************************************************)
(* Start: every failure before a child exists only returns; after that the *)
(* armed guard terminates what was started.                                *)
(***************************************************************************)
Goto(l) == pc' = l

Fail == Goto("abort")

BindCommand ==
    /\ pc = "bind"
    /\ Goto("create") \/ Fail
    /\ UNCHANGED <<kernel, guard, clock, debug, audit>>

CreateSuspended ==
    /\ pc = "create"
    /\ life' = [life EXCEPT ![Root] = "suspended"]
    /\ guard' = "child" /\ Goto("assign")
    /\ UNCHANGED <<event, mapped, doomed, clock, debug, audit>>

(* The suspended image is compared with the bound program, then contained. *)
AssignToJob ==
    /\ pc = "assign"
    /\ \/ guard' = "contained" /\ Goto("resume")
       \/ Fail /\ UNCHANGED guard
    /\ UNCHANGED <<kernel, clock, debug, audit>>

Resume ==
    /\ pc = "resume"
    /\ \/ /\ life' = [life EXCEPT ![Root] = "loading"]
          /\ Raise(Root, "create") /\ Goto("first")
       \/ Fail /\ UNCHANGED <<life, event>>
    /\ UNCHANGED <<mapped, doomed, guard, clock, debug, audit>>

(***************************************************************************)
(* Debug events.                                                           *)
(***************************************************************************)
(* initial_boundary_action: the boundary after an initial breakpoint, and  *)
(* whether it is the one at which the process is sampled.                  *)
BoundaryAction(boundary, e) ==
    CASE boundary = "native" /\ e = "breakpoint" -> [to |-> "complete", sample |-> TRUE, handled |-> TRUE]
      [] boundary = "wow64native" /\ e = "breakpoint" -> [to |-> "wow64", sample |-> FALSE, handled |-> TRUE]
      [] boundary = "wow64" /\ e = "wx86breakpoint" -> [to |-> "complete", sample |-> TRUE, handled |-> TRUE]
      [] OTHER -> [to |-> boundary, sample |-> FALSE, handled |-> FALSE]

InitialBoundary(p) == IF p \in Wow64 THEN "wow64native" ELSE "native"

WithDebug(p, b) == [q \in DOMAIN debug \cup {p} |-> IF q = p THEN b ELSE debug[q]]

(* record_executable and record_loaded_module.                             *)
RecordExecutable(p) ==
    [audit EXCEPT !.executables = @ \cup {p},
                  !.forbidden = @ \cup ({p} \cap Forbidden)]
RecordModules(a, p, ms) ==
    [a EXCEPT !.modules = @ \cup ({p} \X ms),
              !.forbidden = @ \cup (ms \cap Forbidden)]
EventModules(p) == {m \in Modules : <<p, m>> \in audit.modules}

(* What the loader of p goes on with when the auditor continues event e.   *)
AfterEvent(p, e, handled) ==
    IF p \in doomed THEN "exiting"
    ELSE CASE e = "breakpoint" /\ handled -> IF p \in Wow64 THEN "loading32" ELSE "running"
           [] e = "wx86breakpoint" /\ handled -> "running"
           [] e \in {"breakpoint", "wx86breakpoint"} /\ ~handled -> "exiting"
           [] OTHER -> life[p]

ContinueEvent(p, handled) ==
    LET next == AfterEvent(p, event[p], handled) IN
    IF event[p] = "exit"
    THEN /\ life' = [life EXCEPT ![p] = "gone"]
         /\ Raise(p, None)
    ELSE /\ life' = [life EXCEPT ![p] = next]
         /\ Raise(p, IF next = "exiting" THEN "exit" ELSE None)

OnCreate(p, next) ==
    /\ event[p] = "create"
    /\ ContinueEvent(p, TRUE)
    /\ \/ /\ \A q \in DOMAIN debug : Pid[q] # Pid[p]
          /\ debug' = WithDebug(p, InitialBoundary(p))
          /\ audit' = RecordExecutable(p)
          /\ Goto(next)
       \/ Fail /\ UNCHANGED <<debug, audit>>

OnLoad(p, next) ==
    /\ event[p] \in Modules
    /\ ContinueEvent(p, TRUE)
    /\ \/ p \in DOMAIN debug /\ audit' = RecordModules(audit, p, {event[p]}) /\ Goto(next)
       \/ Fail /\ UNCHANGED audit
    /\ UNCHANGED debug

(* sample_pid_handle: the modules found in the stopped process must be the *)
(* ones the load events announced.  The executable is a module itself.     *)
Sampled(p) ==
    RecordModules([audit EXCEPT !.identities = @ \cup {p}, !.snapshots = @ \cup {p}],
                  p, mapped[p] \cup {"executable"})

OnBreakpoint(p, next) ==
    /\ event[p] \in {"breakpoint", "wx86breakpoint"} /\ p \in DOMAIN debug
    /\ LET act == BoundaryAction(debug[p], event[p]) IN
       /\ ContinueEvent(p, act.handled)
       /\ debug' = WithDebug(p, act.to)
       /\ IF ~act.sample THEN Goto(next) /\ UNCHANGED audit
          ELSE \/ mapped[p] = EventModules(p) /\ audit' = Sampled(p) /\ Goto(next)
               \/ Fail /\ audit' = [audit EXCEPT !.identities = @ \cup {p}]

(* verify_debug_process_coverage.                                          *)
Covered(p) ==
    /\ p \in audit.executables \cap audit.snapshots
    /\ \E m \in Modules \cup {"executable"} : <<p, m>> \in audit.modules

OnExit(p, next) ==
    /\ event[p] = "exit"
    /\ ContinueEvent(p, TRUE)
    /\ IF p \in DOMAIN debug /\ debug[p] = "complete" /\ Covered(p)
       THEN /\ debug' = [q \in DOMAIN debug \ {p} |-> debug[q]]
            /\ audit' = [audit EXCEPT !.rootExited = @ \/ p = Root]
            /\ Goto(next)
       ELSE Fail /\ UNCHANGED <<debug, audit>>

(* wait_debug_event returns an event that was handled without an error.    *)
ServeEvent(next) ==
    /\ \E p \in Stopped :
         OnCreate(p, next) \/ OnLoad(p, next) \/ OnBreakpoint(p, next) \/ OnExit(p, next)
    /\ UNCHANGED <<mapped, doomed>>

Quiet == Stopped = {}

(***************************************************************************)
(* The loops of run().                                                     *)
(***************************************************************************)
FirstEvent ==
    /\ pc = "first"
    /\ \/ ServeEvent("root") /\ guard' = IF pc' = "root" THEN "job" ELSE guard
       \/ Quiet /\ Fail /\ UNCHANGED <<kernel, debug, audit, guard>>
    /\ UNCHANGED clock

Tick == IF clock < Slices THEN clock + 1 ELSE clock
Ticks == {clock, Tick}

(* The head of the first loop: leave when the root's exit was seen, order  *)
(* the Job terminated when the command's time is up.                       *)
AwaitRoot ==
    /\ pc = "root"
    /\ IF audit.rootExited
       THEN /\ Goto("drain") /\ clock' = 0
            /\ UNCHANGED <<kernel, audit>>
       ELSE /\ Goto("rootwait") /\ UNCHANGED clock
            /\ IF clock = Slices
               THEN Terminate(Existed) /\ audit' = [audit EXCEPT !.timedOut = TRUE]
               ELSE UNCHANGED <<kernel, audit>>
    /\ UNCHANGED <<guard, debug>>

RootWait ==
    /\ pc = "rootwait"
    /\ \/ ServeEvent("root") /\ clock' \in Ticks
       \/ /\ Quiet /\ UNCHANGED <<kernel, debug, audit>>
          /\ IF audit.timedOut THEN Goto("drain") /\ clock' = 0
             ELSE Goto("root") /\ clock' = Tick
    /\ UNCHANGED guard

\* Mutant: the Job is drained without a deadline.
DrainSample_NoDeadline ==
    /\ pc = "drain"
    /\ \E ids \in JobLists :
         /\ audit' = [audit EXCEPT !.remaining = ids]
         /\ Goto(IF ids = {} THEN "survivors" ELSE "drainwait")
    /\ UNCHANGED <<kernel, guard, clock, debug>>

DrainSample ==
    /\ pc = "drain"
    /\ IF clock = Slices THEN Goto("survivors") /\ UNCHANGED audit
       ELSE \E ids \in JobLists :
              /\ audit' = [audit EXCEPT !.remaining = ids]
              /\ Goto(IF ids = {} THEN "survivors" ELSE "drainwait")
    /\ UNCHANGED <<kernel, guard, clock, debug>>

DrainWait ==
    /\ pc = "drainwait"
    /\ \/ ServeEvent("drain") /\ clock' \in Ticks
       \/ Quiet /\ Goto("drain") /\ clock' = Tick /\ UNCHANGED <<kernel, debug, audit>>
    /\ UNCHANGED guard

(* qualified_survivors opens each remaining process number again: it finds *)
(* the process that has it now, a stranger that reused it, or none.        *)
Occupants(n) == {p \in Live \cup Exiting \cup DOMAIN debug : Pid[p] = n}
\* Mutant: a sampled survivor is good enough, whatever its image.
QualifiedSurvivor_AnyImage(n) ==
    \E p \in Occupants(n) : p \in audit.executables \cap audit.snapshots

QualifiedSurvivor(n) ==
    \E p \in Occupants(n) : p \in Persistent \cap audit.executables \cap audit.snapshots

QualifiedSurvivors ==
    /\ \A n \in audit.remaining : QualifiedSurvivor(n)
    /\ audit.forbidden = {}

JudgeSurvivors ==
    /\ pc = "survivors"
    /\ IF audit.remaining = {} THEN Goto("terminate") /\ clock' = 0 /\ UNCHANGED audit
       ELSE \/ /\ Goto("kill") /\ UNCHANGED clock
               /\ audit' = IF ~audit.timedOut /\ QualifiedSurvivors
                           THEN [audit EXCEPT !.cleaned = TRUE]
                           ELSE [audit EXCEPT !.unexpected = TRUE]
            \/ /\ ~audit.timedOut /\ \E n \in audit.remaining : Occupants(n) = {}
               /\ Fail /\ UNCHANGED <<clock, audit>>
    /\ UNCHANGED <<kernel, guard, debug>>

KillSurvivors ==
    /\ pc = "kill"
    /\ Terminate(Existed) /\ Goto("terminate") /\ clock' = 0
    /\ UNCHANGED <<guard, debug, audit>>

TreeGone ==
    /\ pc = "terminate" /\ clock < Slices
    /\ {} \in JobLists /\ DOMAIN debug = {}
    /\ Goto("verify") /\ guard' = None
    /\ UNCHANGED <<kernel, clock, debug, audit>>

TerminateWait ==
    /\ pc = "terminate"
    /\ IF clock = Slices THEN Fail /\ UNCHANGED <<kernel, clock, debug, audit>>
       ELSE /\ Live \cup Exiting # {} \/ DOMAIN debug # {}
            /\ \/ ServeEvent("terminate") /\ clock' \in Ticks
               \/ /\ Quiet /\ clock' = Tick
                  /\ UNCHANGED <<kernel, pc, debug, audit>>
    /\ UNCHANGED guard

\* Mutant: the processes the Job counted are not compared.
CompleteAudit_NoTotal ==
    /\ audit.identities # {}
    /\ audit.executables = audit.identities
    /\ audit.snapshots = audit.identities
    /\ {pm[1] : pm \in audit.modules} = audit.identities

(* job_total_processes counts every process that was ever in the Job.      *)
CompleteAudit ==
    LET total == Cardinality(Existed) IN
    /\ audit.identities # {}
    /\ audit.executables = audit.identities
    /\ audit.snapshots = audit.identities
    /\ {pm[1] : pm \in audit.modules} = audit.identities
    /\ total = Cardinality(audit.identities)

(* The result; the capture files, qualified files and the program are also *)
(* read again, and any of them can refuse it.                              *)
VerifyAudit ==
    /\ pc = "verify"
    /\ \/ CompleteAudit /\ Goto("ok")
       \/ Fail
    /\ UNCHANGED <<kernel, guard, clock, debug, audit>>

\* Mutant: a child that is not in the Job yet is left suspended.
Abort_JobOnly ==
    /\ pc = "abort" /\ Goto("error")
    /\ IF guard \in {"contained", "job"} THEN Terminate(Existed) ELSE UNCHANGED kernel
    /\ guard' = None
    /\ UNCHANGED <<clock, debug, audit>>

(* An error leaves run(): the armed guard is dropped.                      *)
Abort ==
    /\ pc = "abort" /\ Goto("error")
    /\ CASE guard = "child" -> Terminate({Root})
         [] guard \in {"contained", "job"} -> Terminate(Existed)
         [] OTHER -> UNCHANGED kernel
    /\ guard' = None
    /\ UNCHANGED <<clock, debug, audit>>

Start == BindCommand \/ CreateSuspended \/ AssignToJob \/ Resume
Loops ==
    \/ FirstEvent \/ AwaitRoot \/ RootWait \/ DrainSample \/ DrainWait
    \/ JudgeSurvivors \/ KillSurvivors \/ TreeGone \/ TerminateWait

Auditor == Start \/ Loops \/ VerifyAudit \/ Abort

Init ==
    /\ life = [p \in Procs |-> "unborn"]
    /\ event = [p \in Procs |-> None]
    /\ mapped = [p \in Procs |-> {}]
    /\ doomed = {}
    /\ pc = "bind" /\ guard = None /\ clock = 0
    /\ debug = [p \in {} |-> None]
    /\ audit = [identities |-> {}, executables |-> {}, snapshots |-> {}, modules |-> {},
                forbidden |-> {}, rootExited |-> FALSE, timedOut |-> FALSE,
                remaining |-> {}, unexpected |-> FALSE, cleaned |-> FALSE]

Next == Processes \/ Auditor

(* run() runs on and time passes in its waits.  Nothing makes the audited  *)
(* processes go on or end.                                                 *)
Waits == RootWait \/ DrainWait \/ TerminateWait
Spec ==
    /\ Init /\ [][Next]_vars
    /\ WF_vars(Auditor) /\ SF_vars(Waits /\ clock' # clock)

(***************************************************************************)
(* Properties.                                                             *)
(***************************************************************************)
(* The types of the state.                                                 *)
TypeOK ==
    /\ life \in [Procs -> {"unborn", "suspended", "loading", "loading32", "running",
                           "exiting", "gone"}]
    /\ event \in [Procs -> {None, "create", "breakpoint", "wx86breakpoint", "exit"}
                           \cup Modules]
    /\ mapped \in [Procs -> SUBSET Modules]
    /\ doomed \subseteq Existed
    /\ pc \in {"bind", "create", "assign", "resume", "first", "root", "rootwait", "drain",
              "drainwait", "survivors", "kill", "terminate", "verify", "abort", "ok", "error"}
    /\ guard \in {None, "child", "contained", "job"}
    /\ clock \in 0..Slices
    /\ DOMAIN debug \subseteq Reported
    /\ \A p \in DOMAIN debug : debug[p] \in {"native", "wow64native", "wow64", "complete"}
    /\ audit.identities \cup audit.executables \cup audit.snapshots \subseteq Reported

Returned == pc \in {"ok", "error"}

(* run() never returns, with a result or with an error, while a process it *)
(* started may still run: it has left or is ordered terminated.            *)
NothingOutlivesTheRun == Returned => Live \subseteq doomed

(* No process executes its program before its modules were sampled, unless *)
(* the audit has failed already.                                           *)
SampledBeforeEntry ==
    \A p \in Reported :
        life[p] = "running" => p \in audit.snapshots \/ pc \in {"abort", "error"}

(* The types hold, and no program starts unsampled.  A result is only given *)
(* for a tree in which every process, the ones the debugger was never told  *)
(* about included, was audited from its creation and has left; and what a   *)
(* process had mapped when it started to execute, and everything it mapped  *)
(* since, is in the evidence as soon as its event was served.               *)
EvidenceIsComplete ==
    /\ TypeOK /\ SampledBeforeEntry
    /\ pc = "ok" => \A p \in Existed : /\ p \in audit.snapshots \cap audit.executables
                                       /\ life[p] = "gone"
    /\ \A p \in audit.snapshots, m \in Modules :
          m \in mapped[p] =>
              <<p, m>> \in audit.modules \/ event[p] = m \/ pc \in {"abort", "error"}

(* A result without any flag means that the tree ended by itself, nothing  *)
(* was terminated by the auditor.  When it says that qualified tools were  *)
(* cleaned up, then every process that had begun to execute and that the   *)
(* auditor was about to terminate was such a tool, nothing forbidden had   *)
(* been seen, and no other flag is set.  The survivors are judged from a   *)
(* list of process numbers that is older than the termination; one that    *)
(* starts after the last list may be terminated with them.                 *)
VerdictIsJustified ==
    /\ pc = "ok" =>
         /\ ~audit.timedOut /\ ~audit.unexpected /\ ~audit.cleaned => doomed = {}
         /\ audit.cleaned => ~audit.timedOut /\ ~audit.unexpected
    /\ pc = "kill" /\ audit.cleaned =>
         /\ audit.forbidden = {}
         /\ \A p \in Reported : life[p] = "running" => p \in Persistent

(* run() returns, whatever the audited processes do.                       *)
RunReturns == <>Returned
====
