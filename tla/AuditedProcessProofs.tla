------------------------- MODULE AuditedProcessProofs -------------------------
(***************************************************************************)
(* What an audited command keeps, for any process tree, any reuse of       *)
(* process numbers and any order of its events: nothing outlives the run,  *)
(* the evidence is complete, the verdict says what was done.               *)
(***************************************************************************)
EXTENDS AuditedProcess, FiniteSetTheorems, TLAPS

AuditType ==
  [identities : SUBSET Reported, executables : SUBSET Reported, snapshots : SUBSET Reported,
   modules : SUBSET (Reported \X (Modules \cup {"executable"})),
   forbidden : SUBSET (Procs \cup Modules \cup {"executable"}),
   rootExited : BOOLEAN, timedOut : BOOLEAN, remaining : SUBSET Nat,
   unexpected : BOOLEAN, cleaned : BOOLEAN]

TypeInv == TypeOK /\ audit \in AuditType /\ IsFiniteSet(Existed)

(* An exiting process stands at its exit event, and no other state has one; *)
(* a process that stands still exists.                                      *)
EventInv ==
  \A q \in Procs :
    /\ event[q] = "exit" <=> life[q] = "exiting"
    /\ event[q] # None => q \in Reported /\ q \in Live \cup Exiting

(* A process number has one holder, and the debugger's processes existed.   *)
Held == Live \cup Exiting \cup DOMAIN debug
NumberInv ==
  /\ \A p, q \in Held : Pid[p] = Pid[q] => p = q
  /\ DOMAIN debug \subseteq Existed

(* The armed guard covers what has been started.                            *)
OnlySuspended == Existed = {Root} /\ life[Root] = "suspended" /\ event[Root] = None
Contained == guard \in {"contained", "job"}
GuardInv ==
  /\ pc \in {"bind", "create"} => Existed = {} /\ guard = None
  /\ pc = "assign" => OnlySuspended /\ guard = "child"
  /\ pc = "resume" => OnlySuspended /\ Contained
  /\ pc \in {"first", "root", "rootwait", "drain", "drainwait", "survivors", "kill",
             "terminate"} => Contained
  /\ pc = "abort" => \/ guard = None /\ Live \subseteq doomed
                     \/ guard = "child" /\ OnlySuspended
                     \/ Contained
  /\ pc \in {"verify", "ok"} => guard = None /\ Live = {} /\ DOMAIN debug = {}
  /\ pc = "error" => Live \subseteq doomed

(* What the auditor has sampled it follows to the end.                      *)
EvidenceInv ==
  /\ \A p \in DOMAIN debug : debug[p] = "wow64native" => p \in Wow64
  /\ \A p \in audit.identities : p \in DOMAIN debug \/ life[p] = "gone"
  /\ SampledBeforeEntry
  /\ \A p \in audit.snapshots, m \in Modules :
       m \in mapped[p] =>
         <<p, m>> \in audit.modules \/ event[p] = m \/ pc \in {"abort", "error"}
  /\ pc = "ok" => CompleteAudit

(* A process that executes is on the last list of the Job; until the next   *)
(* event is served so is every other one but those just created.            *)
RunningListed == \A p \in Reported : life[p] = "running" => Pid[p] \in audit.remaining
AllListed ==
  \A p \in Reported \cap Live :
    Pid[p] \in audit.remaining \/ (event[p] = "create" /\ life[p] = "loading")
VerdictInv ==
  /\ pc \in {"bind", "create", "assign", "resume", "first", "root", "rootwait", "drain",
             "drainwait", "survivors"} => ~audit.unexpected /\ ~audit.cleaned
  /\ pc = "kill" => audit.unexpected \/ audit.cleaned
  /\ audit.cleaned => ~audit.timedOut /\ ~audit.unexpected
  /\ pc # "error" /\ doomed # {} => audit.timedOut \/ audit.unexpected \/ audit.cleaned
  /\ pc = "drain" => clock < Slices \/ RunningListed
  /\ pc = "drainwait" => AllListed
  /\ pc = "survivors" => audit.remaining = {} \/ RunningListed
  /\ pc = "kill" /\ audit.cleaned =>
       /\ audit.forbidden = {}
       /\ \A p \in Reported : life[p] = "running" => p \in Persistent

AuditInv ==
  TypeInv /\ EventInv /\ NumberInv /\ GuardInv /\ EvidenceInv /\ VerdictInv
--------------------------------------------------------------------------------
LifeStates == {"unborn", "suspended", "loading", "loading32", "running", "exiting", "gone"}
EventStates == {None, "create", "breakpoint", "wx86breakpoint", "exit"} \cup Modules

LEMMA Alive ==
  ASSUME NEW q \in Procs, life \in [Procs -> LifeStates]
  PROVE  /\ q \in Live <=> life[q] \notin {"unborn", "exiting", "gone"}
         /\ q \in Exiting <=> life[q] = "exiting"
         /\ q \in Existed <=> life[q] # "unborn"
BY DEF Live, Exiting, Existed, LifeStates

LEMMA ModulesAreNoKinds ==
  ASSUME NEW m \in Modules
  PROVE  m \notin {None, "create", "breakpoint", "wx86breakpoint", "exit", "executable"}
BY AuditedProcessAssumption DEF None

LEMMA InitAudited == Init => AuditInv
<1> SUFFICES ASSUME Init PROVE AuditInv
  OBVIOUS
<1>1. /\ Existed = {} /\ Live = {} /\ Exiting = {} /\ DOMAIN debug = {} /\ Slices \in Nat \ {0}
      /\ Root \in Procs
  BY AuditedProcessAssumption DEF Init, Existed, Live, Exiting
<1>2. TypeInv
  <2>1. life \in [Procs -> LifeStates] /\ event \in [Procs -> EventStates]
        /\ mapped \in [Procs -> SUBSET Modules]
    BY DEF Init, LifeStates, EventStates
  <2>2. audit \in AuditType
    <3>1. /\ audit = [identities |-> {}, executables |-> {}, snapshots |-> {}, modules |-> {},
                      forbidden |-> {}, rootExited |-> FALSE, timedOut |-> FALSE,
                      remaining |-> {}, unexpected |-> FALSE, cleaned |-> FALSE]
          /\ FALSE \in BOOLEAN
      BY DEF Init
    <3> QED BY <3>1 DEF AuditType
  <2>3. IsFiniteSet(Existed)
    BY <1>1, FS_EmptySet
  <2>4. TypeOK
    BY <1>1, <2>1 DEF Init, TypeOK, LifeStates, EventStates
  <2> QED BY <2>2, <2>3, <2>4 DEF TypeInv
<1>3. EventInv
  BY DEF Init, EventInv, None
<1>4. NumberInv /\ GuardInv
  BY <1>1 DEF NumberInv, Held, GuardInv, Init
<1>5. EvidenceInv
  BY <1>1 DEF Init, EvidenceInv, SampledBeforeEntry, Reported
<1>6. VerdictInv
  BY DEF Init, VerdictInv
<1> QED BY <1>2, <1>3, <1>4, <1>5, <1>6 DEF AuditInv
--------------------------------------------------------------------------------
(* What a step of the processes can do.                                     *)
ProcMoves ==
  /\ UNCHANGED <<doomed, auditor>>
  /\ life' \in [Procs -> LifeStates] /\ event' \in [Procs -> EventStates]
  /\ mapped' \in [Procs -> SUBSET Modules]
  /\ \A q \in Procs :
       \/ life'[q] = life[q]
       \/ /\ life[q] = "unborn" /\ q # Root /\ ~PidTaken(Pid[q])
          /\ \/ q \in Silent /\ life'[q] = "running"
             \/ q \notin Silent /\ life'[q] = "loading" /\ event'[q] = "create"
       \/ life[q] \in {"loading", "loading32", "running"} /\ life'[q] \in {"exiting", "gone"}
  /\ \E b \in Procs : \A q \in Procs \ {b} : life[q] = "unborn" => life'[q] = "unborn"
  /\ \A q \in Procs : \A m \in mapped'[q] : m \in mapped[q] \/ event'[q] = m
  /\ \A q \in Procs : event'[q] = event[q] \/ event[q] = None
  /\ \/ life' = life /\ event' = event
     \/ \E p \in Live \ doomed : life[p] # "suspended"
  /\ EventInv'

LEMMA SpawnMoves ==
  ASSUME TypeOK, EventInv, NEW p \in Procs, NEW q \in Procs, Spawn(p, q)
  PROVE  ProcMoves
<1>1. /\ life \in [Procs -> LifeStates] /\ event \in [Procs -> EventStates]
      /\ mapped \in [Procs -> SUBSET Modules]
  BY DEF TypeOK, LifeStates, EventStates
<1>2. /\ p \in Live \ doomed /\ life[p] = "running" /\ life[q] = "unborn" /\ q # Root
      /\ ~PidTaken(Pid[q])
      /\ life' = [life EXCEPT ![q] = IF q \in Silent THEN "running" ELSE "loading"]
      /\ event' = (IF q \in Silent THEN event ELSE [event EXCEPT ![q] = "create"])
      /\ UNCHANGED <<mapped, doomed, auditor>>
  BY DEF Spawn, Free, Raise
<1>3. life' \in [Procs -> LifeStates] /\ event' \in [Procs -> EventStates]
  BY <1>1, <1>2 DEF LifeStates, EventStates
<1>4. event[q] = None
  BY <1>1, <1>2, Alive DEF EventInv
<1>5. EventInv'
  <2>1. ASSUME NEW r \in Procs, r # q
        PROVE  life'[r] = life[r] /\ event'[r] = event[r]
    BY <1>1, <1>2, <2>1
  <2>2. CASE q \in Silent
    <3>1. life'[q] = "running" /\ event'[q] = None
      BY <1>1, <1>2, <1>4, <2>2
    <3> QED BY <2>1, <3>1 DEF EventInv, Live, Exiting, None
  <2>3. CASE q \notin Silent
    <3>1. life'[q] = "loading" /\ event'[q] = "create" /\ q \in Reported
      BY <1>1, <1>2, <2>3 DEF Reported
    <3> QED BY <2>1, <3>1 DEF EventInv, Live, Exiting, None
  <2> QED BY <2>2, <2>3
<1>6. \A r \in Procs :
        \/ life'[r] = life[r]
        \/ /\ life[r] = "unborn" /\ r # Root /\ ~PidTaken(Pid[r])
           /\ \/ r \in Silent /\ life'[r] = "running"
              \/ r \notin Silent /\ life'[r] = "loading" /\ event'[r] = "create"
  BY <1>1, <1>2
<1>7. \A r \in Procs : event'[r] = event[r] \/ event[r] = None
  BY <1>1, <1>2, <1>4
<1> QED BY <1>1, <1>2, <1>3, <1>5, <1>6, <1>7 DEF ProcMoves

LEMMA MapMoves ==
  ASSUME TypeOK, EventInv, NEW p \in Procs, NEW m \in Modules, MapModule(p, m) \/ Unmap(p, m)
  PROVE  ProcMoves
<1>1. /\ life \in [Procs -> LifeStates] /\ event \in [Procs -> EventStates]
      /\ mapped \in [Procs -> SUBSET Modules]
  BY DEF TypeOK, LifeStates, EventStates
<1>2. CASE MapModule(p, m)
  <2>1. /\ p \in Live \ doomed /\ p \in Reported /\ life[p] # "suspended" /\ event[p] = None
        /\ mapped' = [mapped EXCEPT ![p] = @ \cup {m}] /\ event' = [event EXCEPT ![p] = m]
        /\ life' = life /\ UNCHANGED <<doomed, auditor>>
    BY <1>2 DEF MapModule, Free, Raise, Stopped
  <2>2. event' \in [Procs -> EventStates] /\ mapped' \in [Procs -> SUBSET Modules]
    BY <1>1, <2>1 DEF EventStates
  <2>3. EventInv'
    <3>1. m \notin {None, "exit"} /\ life[p] # "exiting"
      BY <1>1, <2>1, Alive, ModulesAreNoKinds
    <3> QED BY <1>1, <2>1, <3>1 DEF EventInv, Live, Exiting
  <2>4. \A q \in Procs : \A n \in mapped'[q] : n \in mapped[q] \/ event'[q] = n
    BY <1>1, <2>1
  <2> QED BY <1>1, <2>1, <2>2, <2>3, <2>4 DEF ProcMoves
<1>3. CASE Unmap(p, m)
  <2>1. /\ mapped' = [mapped EXCEPT ![p] = @ \ {m}]
        /\ life' = life /\ event' = event /\ UNCHANGED <<doomed, auditor>>
    BY <1>3 DEF Unmap
  <2>2. /\ mapped' \in [Procs -> SUBSET Modules]
        /\ \A q \in Procs : \A n \in mapped'[q] : n \in mapped[q]
    BY <1>1, <2>1
  <2>3. EventInv'
    BY <2>1 DEF EventInv, Live, Exiting
  <2> QED BY <1>1, <2>1, <2>2, <2>3 DEF ProcMoves
<1> QED BY <1>2, <1>3

LEMMA BreakpointMoves ==
  ASSUME TypeOK, EventInv, NEW p \in Procs, Breakpoint(p)
  PROVE  ProcMoves
<1>1. /\ life \in [Procs -> LifeStates] /\ event \in [Procs -> EventStates]
      /\ mapped \in [Procs -> SUBSET Modules]
  BY DEF TypeOK, LifeStates, EventStates
<1>2. /\ p \in Live \ doomed /\ p \in Reported /\ life[p] \in {"loading", "loading32"}
      /\ event[p] = None /\ life' = life /\ mapped' = mapped /\ UNCHANGED <<doomed, auditor>>
  BY DEF Breakpoint, Free, Stopped
<1>3. PICK e \in {"breakpoint", "wx86breakpoint"} : event' = [event EXCEPT ![p] = e]
  BY DEF Breakpoint, Raise
<1>4. event' \in [Procs -> EventStates]
  BY <1>1, <1>3 DEF EventStates
<1>5. EventInv'
  BY <1>1, <1>2, <1>3, Alive DEF EventInv, Live, Exiting, None
<1>6. \A q \in Procs : event'[q] = event[q] \/ event[q] = None
  BY <1>1, <1>2, <1>3
<1> QED BY <1>1, <1>2, <1>4, <1>5, <1>6 DEF ProcMoves

LEMMA ExitMoves ==
  ASSUME TypeOK, EventInv, NEW p \in Procs, Exit(p)
  PROVE  ProcMoves
<1>1. /\ life \in [Procs -> LifeStates] /\ event \in [Procs -> EventStates]
      /\ mapped \in [Procs -> SUBSET Modules]
  BY DEF TypeOK, LifeStates, EventStates
<1>2. /\ p \in Live \ doomed /\ p \notin Stopped
      /\ life[p] \in {"loading", "loading32", "running"}
      /\ mapped' = mapped /\ UNCHANGED <<doomed, auditor>>
  BY <1>1, Alive DEF Exit, Free, LifeStates
<1>3. CASE p \in Silent
  <2>1. life' = [life EXCEPT ![p] = "gone"] /\ event' = event
    BY <1>3 DEF Exit
  <2>2. event[p] = None
    BY <1>3 DEF EventInv, Reported
  <2>3. EventInv'
    <3>1. \A q \in Procs \ {p} : life'[q] = life[q] /\ event'[q] = event[q]
      BY <1>1, <2>1
    <3>2. life'[p] = "gone" /\ event'[p] = None
      BY <1>1, <2>1, <2>2
    <3> QED BY <3>1, <3>2 DEF EventInv, Live, Exiting, None
  <2>4. life' \in [Procs -> LifeStates]
    BY <1>1, <2>1 DEF LifeStates
  <2> QED BY <1>1, <1>2, <2>1, <2>3, <2>4 DEF ProcMoves
<1>4. CASE p \notin Silent
  <2>1. /\ life' = [life EXCEPT ![p] = "exiting"] /\ event' = [event EXCEPT ![p] = "exit"]
        /\ p \in Reported /\ event[p] = None
    BY <1>2, <1>4 DEF Exit, Raise, Reported, Stopped
  <2>2. EventInv'
    <3>1. \A q \in Procs \ {p} : life'[q] = life[q] /\ event'[q] = event[q]
      BY <1>1, <2>1
    <3>2. life'[p] = "exiting" /\ event'[p] = "exit"
      BY <1>1, <2>1
    <3> QED BY <2>1, <3>1, <3>2 DEF EventInv, Live, Exiting, None
  <2>3. life' \in [Procs -> LifeStates] /\ event' \in [Procs -> EventStates]
    BY <1>1, <2>1 DEF LifeStates, EventStates
  <2>4. \A q \in Procs : event'[q] = event[q] \/ event[q] = None
    BY <1>1, <2>1
  <2> QED BY <1>1, <1>2, <2>1, <2>2, <2>3, <2>4 DEF ProcMoves
<1> QED BY <1>3, <1>4
(* A step of the processes keeps what the auditor relies on.                *)
LEMMA ProcStep ==
  ASSUME AuditInv, ProcMoves PROVE AuditInv'
<1>1. /\ TypeOK /\ TypeInv /\ EventInv /\ NumberInv /\ GuardInv /\ EvidenceInv /\ VerdictInv
      /\ life \in [Procs -> LifeStates] /\ event \in [Procs -> EventStates]
      /\ mapped \in [Procs -> SUBSET Modules]
  BY DEF AuditInv, TypeInv, TypeOK, LifeStates, EventStates
<1>2. /\ doomed' = doomed /\ pc' = pc /\ guard' = guard /\ clock' = clock /\ debug' = debug
      /\ audit' = audit
      /\ life' \in [Procs -> LifeStates] /\ event' \in [Procs -> EventStates]
      /\ mapped' \in [Procs -> SUBSET Modules] /\ EventInv'
      /\ \A q \in Procs : event'[q] = event[q] \/ event[q] = None
      /\ \A q \in Procs : \A m \in mapped'[q] : m \in mapped[q] \/ event'[q] = m
  BY DEF ProcMoves, auditor
<1>3. \A q \in Procs :
        \/ life'[q] = life[q]
        \/ /\ life[q] = "unborn" /\ q # Root /\ ~PidTaken(Pid[q])
           /\ \/ q \in Silent /\ life'[q] = "running"
              \/ q \notin Silent /\ life'[q] = "loading" /\ event'[q] = "create"
        \/ life[q] \in {"loading", "loading32", "running"} /\ life'[q] \in {"exiting", "gone"}
  BY DEF ProcMoves
<1>4. PICK b \in Procs : \A q \in Procs \ {b} : life[q] = "unborn" => life'[q] = "unborn"
  BY DEF ProcMoves
<1>5. \A q \in Procs : /\ q \in Live' <=> life'[q] \notin {"unborn", "exiting", "gone"}
                       /\ q \in Exiting' <=> life'[q] = "exiting"
                       /\ q \in Existed' <=> life'[q] # "unborn"
  BY <1>2 DEF Live, Exiting, Existed, LifeStates
<1>6. \A q \in Procs : /\ q \in Live <=> life[q] \notin {"unborn", "exiting", "gone"}
                       /\ q \in Exiting <=> life[q] = "exiting"
                       /\ q \in Existed <=> life[q] # "unborn"
  BY <1>1, Alive
<1>7. Existed \subseteq Existed' /\ Existed' \subseteq Existed \cup {b}
      /\ Existed' \subseteq Procs /\ Existed \subseteq Procs /\ Live' \subseteq Procs
  BY <1>3, <1>4, <1>5, <1>6 DEF Existed, Live
<1>8. TypeInv'
  <2>1. IsFiniteSet(Existed')
    <3>1. IsFiniteSet(Existed \cup {b})
      BY <1>1, FS_AddElement DEF TypeInv
    <3> QED BY <1>7, <3>1, FS_Subset
  <2>2. doomed' \subseteq Existed'
    BY <1>1, <1>2, <1>7 DEF TypeOK
  <2>3. TypeOK'
    <3>1. /\ doomed' \subseteq Existed' /\ clock' = clock /\ pc' = pc /\ guard' = guard
          /\ debug' = debug /\ audit' = audit
      BY <1>2, <2>2
    <3>2. /\ life' \in [Procs -> {"unborn", "suspended", "loading", "loading32", "running",
                                  "exiting", "gone"}]
          /\ event' \in [Procs -> {None, "create", "breakpoint", "wx86breakpoint", "exit"}
                                  \cup Modules]
      BY <1>2 DEF LifeStates, EventStates
    <3> QED BY <1>1, <1>2, <3>1, <3>2 DEF TypeOK
  <2> QED BY <1>1, <1>2, <2>1, <2>3 DEF TypeInv
<1>9. NumberInv'
  <2>1. DOMAIN debug' \subseteq Existed'
    BY <1>1, <1>2, <1>7 DEF NumberInv
  <2>2. \A q \in Held' : q \in Procs /\ (q \in Held \/ (~PidTaken(Pid[q]) /\ q = b))
    <3>1. \A q \in Held' : q \in Procs
      BY <1>7, <2>1 DEF Held, Live, Exiting
    <3>2. \A q \in Procs : q \in Live' \cup Exiting' =>
              q \in Live \cup Exiting \/ (~PidTaken(Pid[q]) /\ q = b)
      BY <1>3, <1>4, <1>5, <1>6
    <3> QED BY <1>2, <3>1, <3>2 DEF Held
  <2>3. \A p \in Procs, q \in Held : ~PidTaken(Pid[p]) => Pid[p] # Pid[q]
    BY DEF PidTaken, Held
  <2>4. ASSUME NEW p \in Held', NEW q \in Held', Pid[p] = Pid[q] PROVE p = q
    <3>1. CASE p \in Held /\ q \in Held
      BY <1>1, <2>4, <3>1 DEF NumberInv
    <3>2. CASE p \notin Held /\ q \in Held
      BY <2>2, <2>3, <2>4, <3>2
    <3>3. CASE p \in Held /\ q \notin Held
      BY <2>2, <2>3, <2>4, <3>3
    <3>4. CASE p \notin Held /\ q \notin Held
      BY <2>2, <3>4
    <3> QED BY <3>1, <3>2, <3>3, <3>4
  <2> QED BY <2>1, <2>4 DEF NumberInv
<1>10. GuardInv'
  <2>1. CASE life' = life /\ event' = event
    <3>1. Live' = Live /\ Existed' = Existed
      BY <2>1 DEF Live, Existed
    <3> QED BY <1>1, <1>2, <2>1, <3>1 DEF GuardInv, OnlySuspended, Contained
  <2>2. CASE \E p \in Live \ doomed : life[p] # "suspended"
    <3>1. PICK p \in Live \ doomed : life[p] # "suspended"
      BY <2>2
    <3>2. ~(Live \subseteq doomed) /\ Live # {} /\ Existed # {} /\ ~OnlySuspended
      BY <1>6, <3>1 DEF OnlySuspended, Live
    <3> QED BY <1>1, <1>2, <3>2 DEF GuardInv, Contained
  <2> QED BY <2>1, <2>2 DEF ProcMoves
<1>11. EvidenceInv'
  <2>1. \A p \in audit.identities : p \in DOMAIN debug \/ life'[p] = "gone"
    <3>1. audit.identities \subseteq Procs
      BY <1>1 DEF TypeInv, AuditType, Reported
    <3> QED BY <1>1, <1>3, <3>1 DEF EvidenceInv
  <2>2. SampledBeforeEntry'
    <3>1. \A p \in Reported : life'[p] = "running" => life[p] = "running"
      BY <1>3 DEF Reported
    <3> QED BY <1>1, <1>2, <3>1 DEF EvidenceInv, SampledBeforeEntry
  <2>3. ASSUME NEW p \in audit.snapshots, NEW m \in Modules, m \in mapped'[p]
        PROVE  <<p, m>> \in audit.modules \/ event'[p] = m \/ pc \in {"abort", "error"}
    <3>1. p \in Procs /\ m # None
      BY <1>1, ModulesAreNoKinds DEF TypeInv, AuditType, Reported
    <3>2. CASE m \in mapped[p]
      BY <1>1, <1>2, <3>1, <3>2 DEF EvidenceInv
    <3> QED BY <1>2, <2>3, <3>1, <3>2
  <2>4. pc = "ok" => Existed' = Existed
    <3>1. pc = "ok" => life' = life
      BY <1>1 DEF ProcMoves, GuardInv
    <3> QED BY <3>1 DEF Existed
  <2>5. pc' = "ok" => CompleteAudit'
    BY <1>1, <1>2, <2>4 DEF EvidenceInv, CompleteAudit
  <2> QED BY <1>1, <1>2, <2>1, <2>2, <2>3, <2>5 DEF EvidenceInv
<1>12. VerdictInv'
  <2>1. \A p \in Reported : life'[p] = "running" => life[p] = "running"
    BY <1>3 DEF Reported
  <2>2. RunningListed => RunningListed'
    BY <1>2, <2>1 DEF RunningListed
  <2>3. AllListed => AllListed'
    <3>1. ASSUME AllListed, NEW p \in Reported \cap Live'
          PROVE  Pid[p] \in audit.remaining \/ (event'[p] = "create" /\ life'[p] = "loading")
      <4>1. p \in Procs
        BY DEF Reported
      <4>2. CASE p \in Live
        <5>1. life'[p] = life[p]
          BY <1>3, <1>5, <1>6, <3>1, <4>1, <4>2
        <5>2. event[p] = "create" => event'[p] = "create"
          BY <1>2, <4>1 DEF None
        <5> QED BY <3>1, <4>2, <5>1, <5>2 DEF AllListed
      <4>3. CASE p \notin Live
        BY <1>3, <1>5, <1>6, <3>1, <4>1, <4>3 DEF Reported
      <4> QED BY <4>2, <4>3
    <3> QED BY <1>2, <3>1 DEF AllListed
  <2> QED BY <1>1, <1>2, <2>1, <2>2, <2>3 DEF VerdictInv
<1> QED BY <1>2, <1>8, <1>9, <1>10, <1>11, <1>12 DEF AuditInv

LEMMA ProcessesStep == ASSUME AuditInv, Processes PROVE AuditInv'
<1>1. TypeOK /\ EventInv
  BY DEF AuditInv, TypeInv
<1>2. ProcMoves
  BY <1>1, SpawnMoves, MapMoves, BreakpointMoves, ExitMoves DEF Processes
<1> QED BY <1>2, ProcStep
--------------------------------------------------------------------------------
(* What the auditor does to the processes without serving an event: it      *)
(* leaves them, or terminates some.                                         *)
Winds ==
  /\ life' \in [Procs -> LifeStates] /\ event' \in [Procs -> EventStates]
  /\ mapped' = mapped
  /\ \A q \in Procs :
       \/ life'[q] = life[q]
       \/ q \in Live /\ life'[q] \in {"exiting", "gone"}
  /\ \A q \in Procs : event'[q] = event[q] \/ event[q] = None
  /\ EventInv'

LEMMA KernelKept ==
  ASSUME AuditInv, UNCHANGED <<life, event, mapped>> PROVE Winds
BY DEF Winds, AuditInv, TypeInv, TypeOK, LifeStates, EventStates, EventInv, Live, Exiting

LEMMA TerminateWinds ==
  ASSUME AuditInv, NEW ps \in SUBSET Procs, Terminate(ps)
  PROVE  /\ Winds
         /\ doomed' = doomed \cup (ps \cap Live)
<1>1. /\ TypeOK /\ EventInv
      /\ life \in [Procs -> LifeStates] /\ event \in [Procs -> EventStates]
  BY DEF AuditInv, TypeInv, TypeOK, LifeStates, EventStates
<1> DEFINE hit == ps \cap Live
<1>2. /\ doomed' = doomed \cup hit /\ mapped' = mapped
      /\ life' = [p \in Procs |-> IF p \in hit \cap Silent THEN "gone"
                                  ELSE IF p \in hit \ Stopped THEN "exiting" ELSE life[p]]
      /\ event' = [p \in Procs |-> IF p \in (hit \ Silent) \ Stopped THEN "exit" ELSE event[p]]
  BY DEF Terminate
<1>3. \A p \in Procs : p \in Stopped <=> p \in Reported /\ event[p] # None
  BY DEF Stopped, Reported
<1> HIDE DEF hit
<1>4. hit \subseteq Live
  BY DEF hit
<1>5. ASSUME NEW q \in Procs
      PROVE  /\ life'[q] \in LifeStates /\ event'[q] \in EventStates
             /\ life'[q] = life[q] \/ (q \in Live /\ life'[q] \in {"exiting", "gone"})
             /\ event'[q] = event[q] \/ event[q] = None
             /\ event'[q] = "exit" <=> life'[q] = "exiting"
             /\ event'[q] # None => q \in Reported /\ life'[q] \notin {"unborn", "gone"}
  <2>1. /\ life[q] \in LifeStates /\ event[q] \in EventStates
        /\ event[q] = "exit" <=> life[q] = "exiting"
        /\ event[q] # None => q \in Reported /\ life[q] \notin {"unborn", "gone"}
        /\ q \in Live <=> life[q] \notin {"unborn", "exiting", "gone"}
    BY <1>1, Alive DEF EventInv
  <2>2. CASE q \in hit /\ q \in Silent
    <3>1. life'[q] = "gone" /\ event'[q] = event[q] /\ event[q] = None /\ q \in Live
      BY <1>2, <1>4, <2>1, <2>2 DEF Reported
    <3> QED BY <2>1, <3>1 DEF LifeStates, None
  <2>3. CASE q \in hit /\ q \notin Silent /\ event[q] = None
    <3>1. life'[q] = "exiting" /\ event'[q] = "exit" /\ q \in Live /\ q \in Reported
      BY <1>2, <1>3, <1>4, <2>3 DEF Reported
    <3> QED BY <2>1, <2>3, <3>1 DEF LifeStates, EventStates
  <2>4. CASE q \notin hit \/ (q \notin Silent /\ event[q] # None)
    <3>1. life'[q] = life[q] /\ event'[q] = event[q]
      BY <1>2, <1>3, <2>4 DEF Reported
    <3> QED BY <2>1, <3>1
  <2> QED BY <2>2, <2>3, <2>4
<1>6. life' \in [Procs -> LifeStates] /\ event' \in [Procs -> EventStates]
  BY <1>2, <1>5
<1>7. EventInv'
  <2>1. \A q \in Procs : q \in Live' \cup Exiting' <=> life'[q] \notin {"unborn", "gone"}
    BY <1>6 DEF Live, Exiting, LifeStates
  <2> QED BY <1>5, <2>1 DEF EventInv
<1> QED BY <1>2, <1>5, <1>6, <1>7 DEF Winds, hit

LEMMA WindsDown ==
  ASSUME AuditInv, Winds
  PROVE  /\ Existed' = Existed /\ Live' \subseteq Live /\ Exiting' \subseteq Live \cup Exiting
         /\ \A q \in Procs : /\ life'[q] = "running" => life[q] = "running"
                             /\ life[q] = "gone" => life'[q] = "gone"
<1>1. life \in [Procs -> LifeStates] /\ life' \in [Procs -> LifeStates]
      /\ \A q \in Procs : life'[q] = life[q] \/ (q \in Live /\ life'[q] \in {"exiting", "gone"})
  BY DEF Winds, AuditInv, TypeInv, TypeOK, LifeStates
<1>2. \A q \in Procs : /\ q \in Live <=> life[q] \notin {"unborn", "exiting", "gone"}
                       /\ q \in Live' <=> life'[q] \notin {"unborn", "exiting", "gone"}
  BY <1>1 DEF Live, LifeStates
<1>3. Existed' = Existed
  BY <1>1, <1>2 DEF Existed
<1>4. Live' \subseteq Live
  BY <1>1, <1>2 DEF Live
<1>5. Exiting' \subseteq Live \cup Exiting
  BY <1>1, <1>2 DEF Exiting
<1> QED BY <1>1, <1>2, <1>3, <1>4, <1>5

(* A step that serves no event keeps the evidence.                          *)
LEMMA WindsStep ==
  ASSUME AuditInv, Winds, debug' = debug, doomed' \subseteq Existed, clock' \in 0 .. Slices,
         pc' \in {"bind", "create", "assign", "resume", "first", "root", "rootwait", "drain",
                  "drainwait", "survivors", "kill", "terminate", "verify", "abort", "ok", "error"},
         guard' \in {None, "child", "contained", "job"},
         audit' \in AuditType,
         audit'.identities = audit.identities, audit'.executables = audit.executables,
         audit'.snapshots = audit.snapshots, audit'.modules = audit.modules,
         pc \in {"abort", "error"} => pc' \in {"abort", "error"},
         pc' = "ok" => pc = "ok" \/ CompleteAudit,
         GuardInv', VerdictInv'
  PROVE  AuditInv'
<1>1. /\ TypeInv /\ TypeOK /\ EvidenceInv /\ NumberInv
      /\ Existed' = Existed /\ Live' \subseteq Live /\ Exiting' \subseteq Live \cup Exiting
      /\ \A q \in Procs : /\ life'[q] = "running" => life[q] = "running"
                          /\ life[q] = "gone" => life'[q] = "gone"
      /\ life' \in [Procs -> LifeStates] /\ event' \in [Procs -> EventStates]
      /\ mapped' = mapped
      /\ \A q \in Procs : event'[q] = event[q] \/ event[q] = None
      /\ EventInv'
  BY WindsDown DEF AuditInv, TypeInv, Winds
<1>2. TypeInv'
  <2>1. /\ life' \in [Procs -> {"unborn", "suspended", "loading", "loading32", "running",
                                "exiting", "gone"}]
        /\ event' \in [Procs -> {None, "create", "breakpoint", "wx86breakpoint", "exit"}
                                \cup Modules]
        /\ mapped' \in [Procs -> SUBSET Modules]
    BY <1>1 DEF LifeStates, EventStates, TypeOK
  <2>2. /\ DOMAIN debug' \subseteq Reported
        /\ \A p \in DOMAIN debug' : debug'[p] \in {"native", "wow64native", "wow64", "complete"}
    BY <1>1 DEF TypeOK
  <2>3. audit'.identities \cup audit'.executables \cup audit'.snapshots \subseteq Reported
    BY <1>1 DEF TypeOK
  <2>4. TypeOK'
    BY <1>1, <2>1, <2>2, <2>3 DEF TypeOK
  <2> QED BY <1>1, <2>4 DEF TypeInv
<1>3. NumberInv'
  <2>1. Held' \subseteq Held
    BY <1>1 DEF Held
  <2> QED BY <1>1, <2>1 DEF NumberInv
<1>4. EvidenceInv'
  <2>1. audit.identities \subseteq Procs /\ audit.snapshots \subseteq Procs
    BY <1>1 DEF TypeInv, AuditType, Reported
  <2>2. SampledBeforeEntry'
    BY <1>1 DEF EvidenceInv, SampledBeforeEntry, Reported
  <2>3. \A p \in audit.snapshots, m \in Modules :
          m \in mapped'[p] =>
            <<p, m>> \in audit.modules \/ event'[p] = m \/ pc' \in {"abort", "error"}
    BY <1>1, <2>1, ModulesAreNoKinds DEF EvidenceInv
  <2>4. \A p \in audit.identities : p \in DOMAIN debug \/ life'[p] = "gone"
    BY <1>1, <2>1 DEF EvidenceInv
  <2>5. pc' = "ok" => CompleteAudit'
    BY <1>1 DEF EvidenceInv, CompleteAudit
  <2> QED BY <1>1, <2>2, <2>3, <2>4, <2>5 DEF EvidenceInv
<1> QED BY <1>1, <1>2, <1>3, <1>4 DEF AuditInv
--------------------------------------------------------------------------------
(* The steps of run() that serve no event.                                  *)
LEMMA Unpacked ==
  ASSUME AuditInv
  PROVE  /\ TypeOK /\ TypeInv /\ EventInv /\ NumberInv /\ GuardInv /\ EvidenceInv /\ VerdictInv
         /\ life \in [Procs -> LifeStates] /\ event \in [Procs -> EventStates]
         /\ mapped \in [Procs -> SUBSET Modules]
         /\ audit \in AuditType /\ clock \in 0 .. Slices /\ doomed \subseteq Existed
         /\ Slices \in Nat \ {0} /\ Root \in Procs /\ Root \in Reported
BY AuditedProcessAssumption
   DEF AuditInv, TypeInv, TypeOK, LifeStates, EventStates, Reported

(* A step that only goes on to another line.                                *)
LEMMA Goes ==
  ASSUME AuditInv, UNCHANGED <<kernel, clock, debug, audit>>,
         pc \notin {"abort", "error", "ok"},
         pc' \in {"bind", "create", "assign", "resume", "first", "root", "rootwait", "drain",
                  "drainwait", "survivors", "kill", "terminate", "verify", "abort", "ok", "error"},
         guard' \in {None, "child", "contained", "job"},
         pc' = "ok" => CompleteAudit,
         GuardInv', VerdictInv'
  PROVE  AuditInv'
<1>1. UNCHANGED <<life, event, mapped, doomed, clock, debug, audit>>
  BY DEF kernel
<1>2. Winds
  BY <1>1, KernelKept
<1> QED BY <1>1, <1>2, Unpacked, WindsStep

LEMMA KernelFacts ==
  ASSUME UNCHANGED kernel
  PROVE  /\ Live' = Live /\ Existed' = Existed /\ (OnlySuspended' <=> OnlySuspended)
         /\ doomed' = doomed /\ life' = life
BY DEF kernel, Live, Existed, OnlySuspended

LEMMA BindStep == ASSUME AuditInv, BindCommand PROVE AuditInv'
<1>1. /\ pc = "bind" /\ pc' \in {"create", "abort"} /\ UNCHANGED <<kernel, guard, clock, debug, audit>>
  BY DEF BindCommand, Goto, Fail
<1>2. GuardInv /\ VerdictInv /\ Live \subseteq Existed /\ guard \in {None, "child", "contained", "job"}
  BY Unpacked DEF Live, Existed, TypeOK
<1>3. GuardInv'
  BY <1>1, <1>2, KernelFacts DEF GuardInv
<1>4. VerdictInv'
  BY <1>1, <1>2, KernelFacts DEF VerdictInv
<1> QED BY <1>1, <1>2, <1>3, <1>4, Goes

LEMMA CreateStep == ASSUME AuditInv, CreateSuspended PROVE AuditInv'
<1>1. /\ pc = "create" /\ pc' = "assign" /\ guard' = "child"
      /\ life' = [life EXCEPT ![Root] = "suspended"]
      /\ UNCHANGED <<event, mapped, doomed, clock, debug, audit>>
  BY DEF CreateSuspended, Goto
<1>2. /\ TypeInv /\ TypeOK /\ EventInv /\ NumberInv /\ EvidenceInv /\ VerdictInv /\ GuardInv
      /\ life \in [Procs -> LifeStates] /\ event \in [Procs -> EventStates]
      /\ Root \in Procs /\ Root \in Reported /\ doomed \subseteq Existed
  BY Unpacked
<1>3. Existed = {} /\ guard = None /\ \A q \in Procs : life[q] = "unborn"
  BY <1>1, <1>2 DEF GuardInv, Existed
<1>4. DOMAIN debug = {} /\ doomed = {} /\ \A q \in Procs : event[q] = None
  BY <1>2, <1>3, Alive DEF NumberInv, EventInv
<1>5. life' \in [Procs -> LifeStates] /\ life'[Root] = "suspended"
      /\ \A q \in Procs \ {Root} : life'[q] = "unborn"
  BY <1>1, <1>2, <1>3 DEF LifeStates
<1>6. Existed' = {Root} /\ Live' = {Root} /\ Exiting' = {}
  BY <1>2, <1>5 DEF Existed, Live, Exiting
<1>7. TypeInv'
  <2>1. IsFiniteSet(Existed')
    BY <1>6, FS_Singleton
  <2>2. doomed' \subseteq Existed'
    BY <1>1, <1>4
  <2>3. life' \in [Procs -> {"unborn", "suspended", "loading", "loading32", "running",
                             "exiting", "gone"}]
    BY <1>5 DEF LifeStates
  <2>4. TypeOK'
    BY <1>1, <1>2, <2>2, <2>3 DEF TypeOK
  <2> QED BY <1>1, <1>2, <2>1, <2>4 DEF TypeInv
<1>8. EventInv'
  BY <1>1, <1>4, <1>5 DEF EventInv, None
<1>9. NumberInv'
  BY <1>1, <1>4, <1>6 DEF NumberInv, Held
<1>10. GuardInv'
  BY <1>1, <1>2, <1>4, <1>5, <1>6 DEF GuardInv, OnlySuspended
<1>11. EvidenceInv'
  <2>1. audit.identities = {}
    <3>1. audit.identities \subseteq Procs
      BY <1>2 DEF TypeInv, AuditType, Reported
    <3> QED BY <1>2, <1>3, <1>4, <3>1 DEF EvidenceInv
  <2>2. SampledBeforeEntry'
    BY <1>2, <1>5 DEF SampledBeforeEntry, Reported
  <2> QED BY <1>1, <1>2, <1>4, <2>1, <2>2 DEF EvidenceInv
<1>12. VerdictInv'
  BY <1>1, <1>2 DEF VerdictInv
<1> QED BY <1>7, <1>8, <1>9, <1>10, <1>11, <1>12 DEF AuditInv

LEMMA AssignStep == ASSUME AuditInv, AssignToJob PROVE AuditInv'
<1>1. /\ pc = "assign" /\ UNCHANGED <<kernel, clock, debug, audit>>
      /\ \/ pc' = "resume" /\ guard' = "contained"
         \/ pc' = "abort" /\ guard' = guard
  BY DEF AssignToJob, Goto, Fail
<1>2. GuardInv /\ VerdictInv /\ guard \in {None, "child", "contained", "job"}
  BY Unpacked DEF TypeOK
<1>3. GuardInv'
  BY <1>1, <1>2, KernelFacts DEF GuardInv, Contained
<1>4. VerdictInv'
  BY <1>1, <1>2, KernelFacts DEF VerdictInv
<1> QED BY <1>1, <1>2, <1>3, <1>4, Goes

LEMMA ResumeStep == ASSUME AuditInv, Resume PROVE AuditInv'
<1>1. /\ pc = "resume" /\ UNCHANGED <<mapped, doomed, guard, clock, debug, audit>>
  BY DEF Resume
<1>2. /\ TypeInv /\ TypeOK /\ EventInv /\ NumberInv /\ EvidenceInv /\ VerdictInv /\ GuardInv
      /\ life \in [Procs -> LifeStates] /\ event \in [Procs -> EventStates]
      /\ Root \in Procs /\ Root \in Reported /\ doomed \subseteq Existed
      /\ guard \in {None, "child", "contained", "job"}
  BY Unpacked DEF TypeOK
<1>3. CASE pc' = "abort" /\ UNCHANGED <<life, event>>
  <2>1. UNCHANGED kernel
    BY <1>1, <1>3 DEF kernel
  <2>2. GuardInv'
    BY <1>1, <1>2, <1>3, <2>1, KernelFacts DEF GuardInv, Contained
  <2>3. VerdictInv'
    BY <1>1, <1>2, <1>3, <2>1, KernelFacts DEF VerdictInv
  <2> QED BY <1>1, <1>2, <1>3, <2>1, <2>2, <2>3, Goes
<1>4. CASE /\ pc' = "first"
           /\ life' = [life EXCEPT ![Root] = "loading"] /\ event' = [event EXCEPT ![Root] = "create"]
  <2>1. Existed = {Root} /\ life[Root] = "suspended" /\ event[Root] = None
    BY <1>1, <1>2 DEF GuardInv, OnlySuspended
  <2>2. /\ life' \in [Procs -> LifeStates] /\ event' \in [Procs -> EventStates]
        /\ life'[Root] = "loading" /\ event'[Root] = "create"
        /\ \A q \in Procs \ {Root} : life'[q] = life[q] /\ event'[q] = event[q]
    BY <1>2, <1>4 DEF LifeStates, EventStates
  <2>3. Existed' = Existed /\ Live' = Live /\ Exiting' = Exiting
    BY <1>2, <2>1, <2>2 DEF Existed, Live, Exiting
  <2>4. TypeInv'
    <3>1. /\ life' \in [Procs -> {"unborn", "suspended", "loading", "loading32", "running",
                                  "exiting", "gone"}]
          /\ event' \in [Procs -> {None, "create", "breakpoint", "wx86breakpoint", "exit"}
                                  \cup Modules]
      BY <2>2 DEF LifeStates, EventStates
    <3>2. TypeOK'
      BY <1>1, <1>2, <1>4, <2>3, <3>1 DEF TypeOK
    <3> QED BY <1>1, <1>2, <2>3, <3>2 DEF TypeInv
  <2>5. EventInv'
    <3>1. Root \in Live
      BY <1>2, <2>1 DEF Live
    <3> QED BY <1>2, <2>2, <2>3, <3>1 DEF EventInv, None
  <2>6. NumberInv'
    BY <1>1, <1>2, <2>3 DEF NumberInv, Held
  <2>7. GuardInv'
    BY <1>1, <1>2, <1>4 DEF GuardInv, Contained
  <2>8. EvidenceInv'
    <3>1. SampledBeforeEntry'
      BY <1>1, <1>2, <1>4, <2>2 DEF EvidenceInv, SampledBeforeEntry, Reported
    <3>2. audit.identities \subseteq Procs /\ audit.snapshots \subseteq Procs
      BY <1>2 DEF TypeInv, AuditType, Reported
    <3>3. \A p \in audit.identities : p \in DOMAIN debug \/ life'[p] = "gone"
      BY <1>2, <2>1, <2>2, <3>2 DEF EvidenceInv
    <3>4. \A p \in audit.snapshots, m \in Modules :
            m \in mapped[p] => <<p, m>> \in audit.modules \/ event'[p] = m
      BY <1>1, <1>2, <2>1, <2>2, <3>2, ModulesAreNoKinds DEF EvidenceInv
    <3> QED BY <1>1, <1>2, <1>4, <3>1, <3>3, <3>4 DEF EvidenceInv
  <2>9. VerdictInv'
    BY <1>1, <1>2, <1>4 DEF VerdictInv
  <2> QED BY <2>4, <2>5, <2>6, <2>7, <2>8, <2>9 DEF AuditInv
<1> QED BY <1>3, <1>4 DEF Resume, Goto, Fail, Raise
LEMMA TickInRange == ASSUME clock \in 0 .. Slices, Slices \in Nat PROVE Tick \in 0 .. Slices
BY DEF Tick

LEMMA FlagSet ==
  ASSUME audit \in AuditType
  PROVE  /\ [audit EXCEPT !.timedOut = TRUE] \in AuditType
         /\ [audit EXCEPT !.cleaned = TRUE] \in AuditType
         /\ [audit EXCEPT !.unexpected = TRUE] \in AuditType
         /\ \A ids \in SUBSET Nat : [audit EXCEPT !.remaining = ids] \in AuditType
BY DEF AuditType

LEMMA AwaitRootStep == ASSUME AuditInv, AwaitRoot PROVE AuditInv'
<1>1. /\ pc = "root" /\ UNCHANGED <<guard, debug>>
      /\ TypeOK /\ GuardInv /\ VerdictInv /\ audit \in AuditType /\ clock \in 0 .. Slices
      /\ doomed \subseteq Existed /\ Slices \in Nat \ {0} /\ guard \in {None, "child", "contained", "job"}
  BY Unpacked DEF AwaitRoot, TypeOK
<1>2. Contained /\ ~audit.unexpected /\ ~audit.cleaned
  BY <1>1 DEF GuardInv, VerdictInv
<1>3. CASE pc' = "drain" /\ clock' = 0 /\ UNCHANGED <<kernel, audit>>
  <2>1. 0 \in 0 .. Slices /\ 0 < Slices /\ UNCHANGED <<life, event, mapped>> /\ doomed' = doomed
    BY <1>1, <1>3 DEF kernel
  <2>2. GuardInv'
    BY <1>1, <1>2, <1>3 DEF GuardInv, Contained
  <2>3. VerdictInv'
    BY <1>1, <1>2, <1>3, <2>1 DEF VerdictInv
  <2> QED BY <1>1, <1>3, <2>1, <2>2, <2>3, KernelKept, WindsStep
<1>4. CASE pc' = "rootwait" /\ clock' = clock /\ UNCHANGED <<kernel, audit>>
  <2>1. UNCHANGED <<life, event, mapped>> /\ doomed' = doomed
    BY <1>4 DEF kernel
  <2>2. GuardInv'
    BY <1>1, <1>2, <1>4 DEF GuardInv, Contained
  <2>3. VerdictInv'
    BY <1>1, <1>2, <1>4, <2>1 DEF VerdictInv
  <2> QED BY <1>1, <1>4, <2>1, <2>2, <2>3, KernelKept, WindsStep
<1>5. CASE /\ pc' = "rootwait" /\ clock' = clock /\ Terminate(Existed)
           /\ audit' = [audit EXCEPT !.timedOut = TRUE]
  <2>1. Existed \in SUBSET Procs /\ Live \subseteq Existed
    BY DEF Existed, Live
  <2>2. Winds /\ doomed' \subseteq Existed
    BY <1>1, <1>5, <2>1, TerminateWinds
  <2>3. /\ audit' \in AuditType /\ audit'.timedOut = TRUE
        /\ audit'.identities = audit.identities /\ audit'.executables = audit.executables
        /\ audit'.snapshots = audit.snapshots /\ audit'.modules = audit.modules
        /\ audit'.cleaned = audit.cleaned /\ audit'.unexpected = audit.unexpected
    BY <1>1, <1>5, FlagSet DEF AuditType
  <2>4. GuardInv'
    BY <1>1, <1>2, <1>5 DEF GuardInv, Contained
  <2>5. VerdictInv'
    BY <1>1, <1>2, <1>5, <2>3 DEF VerdictInv
  <2> QED BY <1>1, <1>5, <2>2, <2>3, <2>4, <2>5, WindsStep
<1> QED BY <1>3, <1>4, <1>5 DEF AwaitRoot, Goto

(* The debugger waited and no event came.                                   *)
LEMMA QuietWait ==
  ASSUME AuditInv, UNCHANGED <<kernel, debug, audit, guard>>, clock' \in 0 .. Slices,
         \/ pc = "first" /\ pc' = "abort"
         \/ pc = "rootwait" /\ pc' = "drain" /\ clock' = 0
         \/ pc = "rootwait" /\ pc' = "root"
         \/ pc = "drainwait" /\ pc' = "drain"
         \/ pc = "terminate" /\ pc' \in {"terminate", "abort"}
  PROVE  AuditInv'
<1>1. /\ TypeOK /\ GuardInv /\ VerdictInv /\ audit \in AuditType /\ clock \in 0 .. Slices
      /\ life \in [Procs -> LifeStates]
      /\ doomed \subseteq Existed /\ Slices \in Nat \ {0} /\ guard \in {None, "child", "contained", "job"}
  BY Unpacked DEF TypeOK
<1>2. Contained
  BY <1>1 DEF GuardInv
<1>3. /\ UNCHANGED <<life, event, mapped>> /\ doomed' = doomed /\ audit' = audit
      /\ guard' = guard
  BY DEF kernel
<1>4. GuardInv'
  BY <1>2, <1>3 DEF GuardInv, Contained
<1>5. VerdictInv'
  <2>1. pc' = "drain" => clock' < Slices \/ RunningListed'
    <3>1. CASE pc = "drainwait"
      <4>1. \A p \in Reported : life[p] = "running" => p \in Live
        BY <1>1 DEF Reported, Live
      <4>2. RunningListed
        BY <1>1, <3>1, <4>1 DEF VerdictInv, AllListed, RunningListed
      <4> QED BY <1>3, <4>2 DEF RunningListed
    <3>2. CASE pc = "rootwait" /\ clock' = 0
      BY <1>1, <3>2
    <3> QED BY <3>1, <3>2
  <2> QED BY <1>1, <1>3, <2>1 DEF VerdictInv
<1> QED BY <1>1, <1>3, <1>4, <1>5, KernelKept, WindsStep

LEMMA DrainSampleStep == ASSUME AuditInv, DrainSample PROVE AuditInv'
<1>1. /\ pc = "drain" /\ UNCHANGED <<kernel, guard, clock, debug>>
      /\ TypeOK /\ GuardInv /\ VerdictInv /\ audit \in AuditType /\ clock \in 0 .. Slices
      /\ doomed \subseteq Existed /\ Slices \in Nat \ {0} /\ guard \in {None, "child", "contained", "job"}
  BY Unpacked DEF DrainSample, TypeOK
<1>2. Contained /\ ~audit.unexpected /\ ~audit.cleaned
  BY <1>1 DEF GuardInv, VerdictInv
<1>3. UNCHANGED <<life, event, mapped>> /\ doomed' = doomed /\ guard' = guard /\ clock' = clock
  BY <1>1 DEF kernel
<1>4. CASE clock = Slices /\ pc' = "survivors" /\ audit' = audit
  <2>1. RunningListed
    BY <1>1, <1>4 DEF VerdictInv
  <2>2. RunningListed'
    BY <1>3, <1>4, <2>1 DEF RunningListed
  <2>3. GuardInv'
    BY <1>2, <1>3, <1>4 DEF GuardInv, Contained
  <2>4. VerdictInv'
    BY <1>1, <1>2, <1>3, <1>4, <2>2 DEF VerdictInv
  <2> QED BY <1>1, <1>3, <1>4, <2>3, <2>4, KernelKept, WindsStep
<1>5. CASE \E ids \in JobLists : /\ audit' = [audit EXCEPT !.remaining = ids]
                                 /\ pc' = (IF ids = {} THEN "survivors" ELSE "drainwait")
  <2>1. PICK late \in SUBSET Exiting :
          /\ audit' = [audit EXCEPT !.remaining = {Pid[p] : p \in Live \cup late}]
          /\ pc' = (IF {Pid[p] : p \in Live \cup late} = {} THEN "survivors" ELSE "drainwait")
    BY <1>5 DEF JobLists
  <2> DEFINE ids == {Pid[p] : p \in Live \cup late}
  <2>2. ids \in SUBSET Nat
    BY AuditedProcessAssumption DEF Live, Exiting
  <2>3. \A p \in Live : Pid[p] \in ids
    OBVIOUS
  <2> HIDE DEF ids
  <2>4. /\ audit' \in AuditType /\ audit'.remaining = ids
        /\ audit'.identities = audit.identities /\ audit'.executables = audit.executables
        /\ audit'.snapshots = audit.snapshots /\ audit'.modules = audit.modules
        /\ audit'.cleaned = audit.cleaned /\ audit'.unexpected = audit.unexpected
        /\ audit'.timedOut = audit.timedOut
    <3>1. audit' = [audit EXCEPT !.remaining = ids]
      BY <2>1 DEF ids
    <3> QED BY <1>1, <2>2, <3>1, FlagSet DEF AuditType
  <2>5. pc' \in {"survivors", "drainwait"} /\ (pc' = "survivors" => ids = {})
    BY <2>1 DEF ids
  <2>6. AllListed'
    <3>1. Live' = Live
      BY <1>1, KernelFacts
    <3> QED BY <2>3, <2>4, <3>1 DEF AllListed
  <2>7. GuardInv'
    BY <1>2, <1>3, <2>5 DEF GuardInv, Contained
  <2>8. VerdictInv'
    BY <1>1, <1>2, <1>3, <2>4, <2>5, <2>6 DEF VerdictInv
  <2> QED BY <1>1, <1>3, <2>4, <2>5, <2>7, <2>8, KernelKept, WindsStep
<1> QED BY <1>1, <1>4, <1>5 DEF DrainSample, Goto

(* The process with a remaining number that executes is the one found with  *)
(* that number.                                                             *)
LEMMA RunningSurvivor ==
  ASSUME AuditInv, RunningListed, QualifiedSurvivors, NEW p \in Reported, life[p] = "running"
  PROVE  p \in Persistent
<1>1. NumberInv /\ life \in [Procs -> LifeStates]
  BY Unpacked
<1>2. p \in Procs /\ p \in Live
  BY <1>1 DEF Reported, Live
<1>3. PICK q \in Occupants(Pid[p]) : q \in Persistent
  BY DEF RunningListed, QualifiedSurvivors, QualifiedSurvivor
<1>4. q \in Held /\ p \in Held /\ Pid[q] = Pid[p]
  BY <1>2, <1>3 DEF Occupants, Held
<1> QED BY <1>1, <1>3, <1>4 DEF NumberInv

LEMMA JudgeStep == ASSUME AuditInv, JudgeSurvivors PROVE AuditInv'
<1>1. /\ pc = "survivors" /\ UNCHANGED <<kernel, guard, debug>>
      /\ TypeOK /\ GuardInv /\ VerdictInv /\ audit \in AuditType /\ clock \in 0 .. Slices
      /\ doomed \subseteq Existed /\ Slices \in Nat \ {0} /\ guard \in {None, "child", "contained", "job"}
  BY Unpacked DEF JudgeSurvivors, TypeOK
<1>2. Contained /\ ~audit.unexpected /\ ~audit.cleaned
  BY <1>1 DEF GuardInv, VerdictInv
<1>3. UNCHANGED <<life, event, mapped>> /\ doomed' = doomed /\ guard' = guard
  BY <1>1 DEF kernel
<1>4. CASE pc' = "terminate" /\ clock' = 0 /\ audit' = audit
  <2>1. GuardInv'
    BY <1>2, <1>3, <1>4 DEF GuardInv, Contained
  <2>2. VerdictInv'
    BY <1>1, <1>2, <1>3, <1>4 DEF VerdictInv
  <2>3. 0 \in 0 .. Slices
    BY <1>1
  <2> QED BY <1>1, <1>3, <1>4, <2>1, <2>2, <2>3, KernelKept, WindsStep
<1>5. CASE pc' = "abort" /\ clock' = clock /\ audit' = audit
  <2>1. GuardInv'
    BY <1>2, <1>3, <1>5 DEF GuardInv, Contained
  <2>2. VerdictInv'
    BY <1>1, <1>2, <1>3, <1>5 DEF VerdictInv
  <2> QED BY <1>1, <1>3, <1>5, <2>1, <2>2, KernelKept, WindsStep
<1>6. CASE /\ audit.remaining # {} /\ pc' = "kill" /\ clock' = clock
           /\ audit' = IF ~audit.timedOut /\ QualifiedSurvivors
                       THEN [audit EXCEPT !.cleaned = TRUE]
                       ELSE [audit EXCEPT !.unexpected = TRUE]
  <2>1. /\ audit' \in AuditType
        /\ audit'.identities = audit.identities /\ audit'.executables = audit.executables
        /\ audit'.snapshots = audit.snapshots /\ audit'.modules = audit.modules
        /\ audit'.timedOut = audit.timedOut /\ audit'.forbidden = audit.forbidden
        /\ \/ /\ ~audit.timedOut /\ QualifiedSurvivors
              /\ audit'.cleaned = TRUE /\ audit'.unexpected = audit.unexpected
           \/ audit'.unexpected = TRUE /\ audit'.cleaned = audit.cleaned
    BY <1>1, <1>6, FlagSet DEF AuditType
  <2>2. GuardInv'
    BY <1>2, <1>3, <1>6 DEF GuardInv, Contained
  <2>3. RunningListed
    BY <1>1, <1>6 DEF VerdictInv
  <2>4. audit'.cleaned =>
          /\ audit'.forbidden = {}
          /\ \A p \in Reported : life'[p] = "running" => p \in Persistent
    <3>1. audit'.cleaned => QualifiedSurvivors
      BY <1>2, <2>1
    <3> QED BY <1>3, <2>1, <2>3, <3>1, RunningSurvivor DEF QualifiedSurvivors
  <2>5. VerdictInv'
    BY <1>1, <1>2, <1>3, <1>6, <2>1, <2>4 DEF VerdictInv
  <2> QED BY <1>1, <1>3, <1>6, <2>1, <2>2, <2>5, KernelKept, WindsStep
<1> QED BY <1>4, <1>5, <1>6 DEF JudgeSurvivors, Goto, Fail

LEMMA KillStep == ASSUME AuditInv, KillSurvivors PROVE AuditInv'
<1>1. /\ pc = "kill" /\ pc' = "terminate" /\ clock' = 0 /\ UNCHANGED <<guard, debug, audit>>
      /\ Terminate(Existed)
      /\ TypeOK /\ GuardInv /\ VerdictInv /\ audit \in AuditType /\ clock \in 0 .. Slices
      /\ doomed \subseteq Existed /\ Slices \in Nat \ {0} /\ guard \in {None, "child", "contained", "job"}
  BY Unpacked DEF KillSurvivors, TypeOK, Goto
<1>2. Existed \in SUBSET Procs /\ Live \subseteq Existed /\ 0 \in 0 .. Slices
  BY <1>1 DEF Existed, Live
<1>3. Winds /\ doomed' \subseteq Existed
  BY <1>1, <1>2, TerminateWinds
<1>4. GuardInv'
  BY <1>1 DEF GuardInv, Contained
<1>5. VerdictInv'
  BY <1>1 DEF VerdictInv
<1> QED BY <1>1, <1>2, <1>3, <1>4, <1>5, WindsStep

LEMMA TreeGoneStep == ASSUME AuditInv, TreeGone PROVE AuditInv'
<1>1. /\ pc = "terminate" /\ pc' = "verify" /\ guard' = None
      /\ {} \in JobLists /\ DOMAIN debug = {} /\ UNCHANGED <<kernel, clock, debug, audit>>
  BY DEF TreeGone, Goto
<1>2. Live = {}
  <2>1. PICK late \in SUBSET Exiting : {} = {Pid[p] : p \in Live \cup late}
    BY <1>1 DEF JobLists
  <2> QED BY <2>1
<1>3. VerdictInv /\ GuardInv
  BY Unpacked
<1>4. GuardInv'
  BY <1>1, <1>2, KernelFacts DEF GuardInv
<1>5. VerdictInv'
  BY <1>1, <1>3, KernelFacts DEF VerdictInv
<1> QED BY <1>1, <1>4, <1>5, Goes

LEMMA VerifyStep == ASSUME AuditInv, VerifyAudit PROVE AuditInv'
<1>1. /\ pc = "verify" /\ UNCHANGED <<kernel, guard, clock, debug, audit>>
      /\ pc' = "abort" \/ (pc' = "ok" /\ CompleteAudit)
  BY DEF VerifyAudit, Goto, Fail
<1>2. VerdictInv /\ GuardInv /\ guard \in {None, "child", "contained", "job"}
  BY Unpacked DEF TypeOK
<1>3. GuardInv'
  BY <1>1, <1>2, KernelFacts DEF GuardInv
<1>4. VerdictInv'
  BY <1>1, <1>2, KernelFacts DEF VerdictInv
<1> QED BY <1>1, <1>2, <1>3, <1>4, Goes

LEMMA AbortStep == ASSUME AuditInv, Abort PROVE AuditInv'
<1>1. /\ pc = "abort" /\ pc' = "error" /\ guard' = None /\ UNCHANGED <<clock, debug, audit>>
      /\ TypeOK /\ GuardInv /\ VerdictInv /\ audit \in AuditType /\ clock \in 0 .. Slices
      /\ doomed \subseteq Existed /\ Root \in Procs
  BY Unpacked DEF Abort, Goto
<1>2. Existed \in SUBSET Procs /\ Live \subseteq Existed /\ {Root} \in SUBSET Procs
  BY <1>1 DEF Existed, Live
<1>3. Winds /\ doomed' \subseteq Existed /\ Live' \subseteq doomed'
  <2>1. CASE guard = "child"
    <3>1. Existed = {Root} /\ Terminate({Root})
      BY <1>1, <2>1 DEF GuardInv, OnlySuspended, Contained, Abort, None
    <3>2. Winds /\ doomed' = doomed \cup ({Root} \cap Live)
      BY <1>2, <3>1, TerminateWinds
    <3> QED BY <1>1, <1>2, <3>1, <3>2, WindsDown
  <2>2. CASE Contained
    <3>1. Terminate(Existed)
      BY <2>2 DEF Abort, Contained
    <3>2. Winds /\ doomed' = doomed \cup (Existed \cap Live)
      BY <1>2, <3>1, TerminateWinds
    <3> QED BY <1>1, <1>2, <3>2, WindsDown
  <2>3. CASE guard = None /\ Live \subseteq doomed
    <3>1. UNCHANGED kernel
      BY <2>3 DEF Abort, None
    <3>2. UNCHANGED <<life, event, mapped>> /\ doomed' = doomed /\ Live' = Live
      BY <3>1, KernelFacts DEF kernel
    <3> QED BY <1>1, <2>3, <3>2, KernelKept
  <2> QED BY <1>1, <2>1, <2>2, <2>3 DEF GuardInv
<1>4. GuardInv'
  BY <1>1, <1>3 DEF GuardInv
<1>5. VerdictInv'
  BY <1>1 DEF VerdictInv
<1> QED BY <1>1, <1>3, <1>4, <1>5, WindsStep
--------------------------------------------------------------------------------
(* Serving an event: the stopped process goes on.                           *)
Resumed(p, handled) ==
  /\ life' \in [Procs -> LifeStates] /\ event' \in [Procs -> EventStates] /\ EventInv'
  /\ \A q \in Procs \ {p} : life'[q] = life[q] /\ event'[q] = event[q]
  /\ event'[p] \in {None, "exit"}
  /\ event[p] = "exit" => life'[p] = "gone"
  /\ life'[p] # "unborn" /\ (p \in Live' => p \in Live)
  /\ life'[p] = "running" =>
       \/ life[p] = "running" /\ event[p] # "create"
       \/ life[p] = "running" /\ life'[p] = life[p]
       \/ /\ handled /\ p \in Live
          /\ event[p] = "wx86breakpoint" \/ (event[p] = "breakpoint" /\ p \notin Wow64)

LEMMA ContinueMoves ==
  ASSUME AuditInv, NEW p \in Stopped, NEW handled \in BOOLEAN, ContinueEvent(p, handled)
  PROVE  Resumed(p, handled) /\ p \in Procs /\ p \in Reported /\ p \in Live \cup Exiting
<1>1. /\ EventInv /\ life \in [Procs -> LifeStates] /\ event \in [Procs -> EventStates]
      /\ p \in Reported /\ p \in Procs /\ event[p] # None
  BY Unpacked DEF Stopped, Reported
<1>2. /\ event[p] = "exit" <=> life[p] = "exiting"
      /\ p \in Live \cup Exiting /\ life[p] \notin {"unborn", "gone"}
  BY <1>1, Alive DEF EventInv
<1>3. CASE event[p] = "exit"
  <2>1. life' = [life EXCEPT ![p] = "gone"] /\ event' = [event EXCEPT ![p] = None]
    BY <1>3 DEF ContinueEvent, Raise
  <2>2. /\ life' \in [Procs -> LifeStates] /\ event' \in [Procs -> EventStates]
        /\ life'[p] = "gone" /\ event'[p] = None
        /\ \A q \in Procs \ {p} : life'[q] = life[q] /\ event'[q] = event[q]
    BY <1>1, <2>1 DEF LifeStates, EventStates
  <2>3. EventInv'
    BY <1>1, <2>2 DEF EventInv, Live, Exiting, None
  <2>4. p \notin Live'
    BY <2>2 DEF Live
  <2> QED BY <1>1, <1>2, <2>2, <2>3, <2>4 DEF Resumed
<1>4. CASE event[p] # "exit"
  <2> DEFINE next == AfterEvent(p, event[p], handled)
  <2>1. life' = [life EXCEPT ![p] = next]
        /\ event' = [event EXCEPT ![p] = IF next = "exiting" THEN "exit" ELSE None]
    BY <1>4 DEF ContinueEvent, Raise
  <2>2. next \in LifeStates \ {"unborn", "gone"}
    BY <1>1, <1>2 DEF AfterEvent, LifeStates
  <2>3. next = "running" =>
          \/ life[p] = "running"
          \/ /\ handled
             /\ event[p] = "wx86breakpoint" \/ (event[p] = "breakpoint" /\ p \notin Wow64)
    BY DEF AfterEvent
  <2> HIDE DEF next
  <2>4. /\ life' \in [Procs -> LifeStates] /\ life'[p] = next
        /\ \A q \in Procs \ {p} : life'[q] = life[q] /\ event'[q] = event[q]
        /\ event' \in [Procs -> EventStates]
        /\ event'[p] = IF next = "exiting" THEN "exit" ELSE None
    BY <1>1, <2>1, <2>2 DEF LifeStates, EventStates
  <2>5. EventInv'
    BY <1>1, <2>2, <2>4 DEF EventInv, Live, Exiting, None, LifeStates
  <2>6. p \in Live
    BY <1>2, <1>4 DEF Exiting
  <2> QED BY <1>1, <1>2, <1>4, <2>2, <2>3, <2>4, <2>5, <2>6 DEF Resumed
<1> QED BY <1>3, <1>4

LEMMA ServedEvidence ==
  ASSUME AuditInv, pc \notin {"abort", "error"}, pc' # "ok", mapped' = mapped,
         NEW p \in Reported, NEW handled, Resumed(p, handled),
         \A q \in DOMAIN debug' : debug'[q] = "wow64native" => q \in Wow64,
         \A q \in audit'.identities : q \in DOMAIN debug' \/ life'[q] = "gone",
         audit.snapshots \subseteq audit'.snapshots,
         audit'.snapshots \subseteq audit.snapshots \cup {p},
         audit.modules \subseteq audit'.modules,
         life'[p] = "running" => life[p] = "running" \/ p \in audit'.snapshots \/ pc' = "abort",
         \A m \in mapped[p] :
           p \in audit'.snapshots => <<p, m>> \in audit'.modules \/ pc' = "abort"
  PROVE  EvidenceInv'
<1>1. EvidenceInv /\ audit.snapshots \subseteq Procs /\ p \in Procs
  BY Unpacked DEF AuditType, Reported
<1>2. SampledBeforeEntry'
  <2>1. ASSUME NEW q \in Reported, life'[q] = "running"
        PROVE  q \in audit'.snapshots \/ pc' \in {"abort", "error"}
    <3>1. CASE q = p
      BY <1>1, <2>1, <3>1 DEF EvidenceInv, SampledBeforeEntry
    <3>2. CASE q # p
      BY <1>1, <2>1, <3>2 DEF EvidenceInv, SampledBeforeEntry, Resumed, Reported
    <3> QED BY <3>1, <3>2
  <2> QED BY <2>1 DEF SampledBeforeEntry
<1>3. ASSUME NEW q \in audit'.snapshots, NEW m \in Modules, m \in mapped[q]
      PROVE  <<q, m>> \in audit'.modules \/ event'[q] = m \/ pc' \in {"abort", "error"}
  <2>1. CASE q = p
    BY <1>3, <2>1
  <2>2. CASE q # p
    BY <1>1, <1>3, <2>2 DEF EvidenceInv, Resumed
  <2> QED BY <2>1, <2>2
<1> QED BY <1>2, <1>3 DEF EvidenceInv

(* What a served event leaves.                                              *)
Served(next) ==
  /\ life' \in [Procs -> LifeStates] /\ event' \in [Procs -> EventStates] /\ EventInv'
  /\ mapped' = mapped /\ doomed' = doomed /\ pc' \in {next, "abort"}
  /\ DOMAIN debug' \subseteq DOMAIN debug \cup Stopped
  /\ \A q \in DOMAIN debug' : debug'[q] \in {"native", "wow64native", "wow64", "complete"}
  /\ audit' \in AuditType
  /\ audit'.timedOut = audit.timedOut /\ audit'.remaining = audit.remaining
  /\ audit'.unexpected = audit.unexpected /\ audit'.cleaned = audit.cleaned
  /\ EvidenceInv'
  /\ \E p \in Stopped, handled \in BOOLEAN : Resumed(p, handled)

LEMMA RecordedType ==
  ASSUME audit \in AuditType, NEW p \in Reported, NEW ms \in SUBSET (Modules \cup {"executable"})
  PROVE  /\ RecordExecutable(p) \in AuditType
         /\ RecordModules(audit, p, ms) \in AuditType
         /\ RecordModules([audit EXCEPT !.identities = @ \cup {p}, !.snapshots = @ \cup {p}], p, ms)
              \in AuditType
         /\ [audit EXCEPT !.identities = @ \cup {p}] \in AuditType
         /\ [audit EXCEPT !.rootExited = @ \/ p = Root] \in AuditType
<1>1. p \in Procs /\ {p} \X ms \subseteq Reported \X (Modules \cup {"executable"})
  BY DEF Reported
<1> QED BY <1>1 DEF AuditType, RecordExecutable, RecordModules

LEMMA CreateServed ==
  ASSUME AuditInv, pc \notin {"abort", "error"}, NEW next, next # "ok",
         NEW p \in Stopped, OnCreate(p, next), UNCHANGED <<mapped, doomed>>
  PROVE  Served(next)
<1>1. /\ TypeOK /\ EvidenceInv /\ audit \in AuditType
      /\ \A q \in DOMAIN debug : debug[q] \in {"native", "wow64native", "wow64", "complete"}
      /\ DOMAIN debug \subseteq Reported /\ audit.identities \subseteq Procs
  BY Unpacked DEF TypeOK, AuditType, Reported
<1>2. event[p] = "create" /\ Resumed(p, TRUE) /\ p \in Procs /\ p \in Reported
      /\ p \in Live \cup Exiting
  BY ContinueMoves DEF OnCreate
<1>3. life'[p] = "running" => life[p] = "running"
  BY <1>2 DEF Resumed
<1>4. \A q \in Procs : life[q] = "gone" => life'[q] = "gone"
  BY <1>2, Unpacked, Alive DEF Resumed
<1>5. \A m \in mapped[p] : p \in audit.snapshots => <<p, m>> \in audit.modules
  BY <1>1, <1>2, ModulesAreNoKinds DEF EvidenceInv, TypeOK
<1>6. CASE pc' = "abort" /\ UNCHANGED <<debug, audit>>
  <2>1. EvidenceInv'
    BY <1>1, <1>2, <1>3, <1>4, <1>5, <1>6, ServedEvidence DEF EvidenceInv
  <2> QED BY <1>1, <1>2, <1>6, <2>1 DEF Served, Resumed
<1>7. CASE /\ debug' = WithDebug(p, InitialBoundary(p))
           /\ audit' = RecordExecutable(p) /\ pc' = next
  <2>1. /\ DOMAIN debug' = DOMAIN debug \cup {p}
        /\ \A q \in DOMAIN debug' : debug'[q] = IF q = p THEN InitialBoundary(p) ELSE debug[q]
    BY <1>7 DEF WithDebug
  <2>2. /\ \A q \in DOMAIN debug' : debug'[q] \in {"native", "wow64native", "wow64", "complete"}
        /\ \A q \in DOMAIN debug' : debug'[q] = "wow64native" => q \in Wow64
    BY <1>1, <2>1 DEF InitialBoundary, EvidenceInv
  <2>3. /\ audit' \in AuditType /\ audit'.identities = audit.identities
        /\ audit'.snapshots = audit.snapshots /\ audit'.modules = audit.modules
        /\ audit'.timedOut = audit.timedOut /\ audit'.remaining = audit.remaining
        /\ audit'.unexpected = audit.unexpected /\ audit'.cleaned = audit.cleaned
    BY <1>1, <1>2, <1>7, RecordedType DEF RecordExecutable, AuditType
  <2>4. \A q \in audit'.identities : q \in DOMAIN debug' \/ life'[q] = "gone"
    BY <1>1, <1>4, <2>1, <2>3 DEF EvidenceInv
  <2>5. EvidenceInv'
    BY <1>1, <1>2, <1>3, <1>5, <1>7, <2>2, <2>3, <2>4, ServedEvidence
  <2> QED BY <1>1, <1>2, <1>7, <2>1, <2>2, <2>3, <2>5 DEF Served, Resumed
<1> QED BY <1>6, <1>7 DEF OnCreate, Goto, Fail

LEMMA LoadServed ==
  ASSUME AuditInv, pc \notin {"abort", "error"}, NEW next, next # "ok",
         NEW p \in Stopped, OnLoad(p, next), UNCHANGED <<mapped, doomed>>
  PROVE  Served(next)
<1>1. /\ TypeOK /\ EvidenceInv /\ audit \in AuditType
      /\ \A q \in DOMAIN debug : debug[q] \in {"native", "wow64native", "wow64", "complete"}
      /\ DOMAIN debug \subseteq Reported /\ audit.identities \subseteq Procs
  BY Unpacked DEF TypeOK, AuditType, Reported
<1>2. event[p] \in Modules /\ Resumed(p, TRUE) /\ p \in Procs /\ p \in Reported
      /\ p \in Live \cup Exiting /\ debug' = debug
  BY ContinueMoves DEF OnLoad
<1>3. life'[p] = "running" => life[p] = "running"
  BY <1>2, ModulesAreNoKinds DEF Resumed
<1>4. \A q \in Procs : life[q] = "gone" => life'[q] = "gone"
  BY <1>2, Unpacked, Alive DEF Resumed
<1>5. CASE pc' = "abort" /\ audit' = audit
  <2>1. EvidenceInv'
    BY <1>1, <1>2, <1>3, <1>4, <1>5, ServedEvidence DEF EvidenceInv
  <2> QED BY <1>1, <1>2, <1>5, <2>1 DEF Served, Resumed
<1>6. CASE audit' = RecordModules(audit, p, {event[p]}) /\ pc' = next
  <2>1. {event[p]} \in SUBSET (Modules \cup {"executable"})
    BY <1>2
  <2>2. /\ audit' \in AuditType /\ audit'.identities = audit.identities
        /\ audit'.snapshots = audit.snapshots
        /\ audit'.modules = audit.modules \cup ({p} \X {event[p]})
        /\ audit'.timedOut = audit.timedOut /\ audit'.remaining = audit.remaining
        /\ audit'.unexpected = audit.unexpected /\ audit'.cleaned = audit.cleaned
    <3>1. audit' \in AuditType
      BY <1>1, <1>2, <1>6, <2>1, RecordedType
    <3>2. audit' = [audit EXCEPT !.modules = @ \cup ({p} \X {event[p]}),
                                 !.forbidden = @ \cup ({event[p]} \cap Forbidden)]
      BY <1>6 DEF RecordModules
    <3> QED BY <1>1, <3>1, <3>2 DEF AuditType
  <2>3. ASSUME NEW m \in mapped[p], p \in audit'.snapshots PROVE <<p, m>> \in audit'.modules
    <3>1. m \in Modules
      BY <1>1, <1>2 DEF TypeOK
    <3>2. <<p, m>> \in audit.modules \/ event[p] = m
      BY <1>1, <2>2, <2>3, <3>1 DEF EvidenceInv
    <3> QED BY <2>2, <3>2
  <2>4. EvidenceInv'
    <3>1. /\ \A q \in DOMAIN debug' : debug'[q] = "wow64native" => q \in Wow64
          /\ \A q \in audit'.identities : q \in DOMAIN debug' \/ life'[q] = "gone"
      BY <1>1, <1>2, <1>4, <2>2 DEF EvidenceInv
    <3>2. /\ audit.snapshots \subseteq audit'.snapshots
          /\ audit'.snapshots \subseteq audit.snapshots \cup {p}
          /\ audit.modules \subseteq audit'.modules
      BY <2>2
    <3> QED BY <1>2, <1>3, <1>6, <2>3, <3>1, <3>2, ServedEvidence
  <2> QED BY <1>1, <1>2, <1>6, <2>2, <2>4 DEF Served, Resumed
<1> QED BY <1>5, <1>6 DEF OnLoad, Goto, Fail
LEMMA BoundaryKnown ==
  ASSUME NEW b \in {"native", "wow64native", "wow64", "complete"}, NEW e
  PROVE  /\ BoundaryAction(b, e).handled \in BOOLEAN /\ BoundaryAction(b, e).sample \in BOOLEAN
         /\ BoundaryAction(b, e).to \in {"native", "wow64native", "wow64", "complete"}
         /\ BoundaryAction(b, e).to = "wow64native" => b = "wow64native"
         /\ BoundaryAction(b, e).handled =>
              BoundaryAction(b, e).sample \/ (b = "wow64native" /\ e = "breakpoint")
<1>1. CASE b = "native" /\ e = "breakpoint"
  BY <1>1 DEF BoundaryAction
<1>2. CASE b = "wow64native" /\ e = "breakpoint"
  BY <1>2 DEF BoundaryAction
<1>3. CASE b = "wow64" /\ e = "wx86breakpoint"
  BY <1>3 DEF BoundaryAction
<1>4. CASE /\ ~(b = "native" /\ e = "breakpoint") /\ ~(b = "wow64native" /\ e = "breakpoint")
           /\ ~(b = "wow64" /\ e = "wx86breakpoint")
  <2>1. BoundaryAction(b, e) = [to |-> b, sample |-> FALSE, handled |-> FALSE]
    BY <1>4 DEF BoundaryAction
  <2> QED BY <2>1
<1> QED BY <1>1, <1>2, <1>3, <1>4

LEMMA BreakpointServed ==
  ASSUME AuditInv, pc \notin {"abort", "error"}, NEW next, next # "ok",
         NEW p \in Stopped, OnBreakpoint(p, next), UNCHANGED <<mapped, doomed>>
  PROVE  Served(next)
<1> DEFINE act == BoundaryAction(debug[p], event[p])
<1>1. /\ TypeOK /\ EvidenceInv /\ audit \in AuditType
      /\ \A q \in DOMAIN debug : debug[q] \in {"native", "wow64native", "wow64", "complete"}
      /\ DOMAIN debug \subseteq Reported /\ audit.identities \subseteq Procs
      /\ mapped \in [Procs -> SUBSET Modules]
  BY Unpacked DEF TypeOK, AuditType, Reported
<1>2. /\ event[p] \in {"breakpoint", "wx86breakpoint"} /\ p \in DOMAIN debug
      /\ ContinueEvent(p, act.handled) /\ debug' = WithDebug(p, act.to)
      /\ \/ ~act.sample /\ pc' = next /\ audit' = audit
         \/ /\ act.sample
            /\ \/ mapped[p] = EventModules(p) /\ audit' = Sampled(p) /\ pc' = next
               \/ pc' = "abort" /\ audit' = [audit EXCEPT !.identities = @ \cup {p}]
  BY DEF OnBreakpoint, Goto, Fail
<1>3. /\ act.handled \in BOOLEAN /\ act.sample \in BOOLEAN
      /\ act.to \in {"native", "wow64native", "wow64", "complete"}
      /\ act.to = "wow64native" => debug[p] = "wow64native"
      /\ act.handled => act.sample \/ (debug[p] = "wow64native" /\ event[p] = "breakpoint")
  BY <1>1, <1>2, BoundaryKnown
<1> HIDE DEF act
<1>4. /\ Resumed(p, act.handled) /\ p \in Procs /\ p \in Reported /\ p \in Live \cup Exiting
  BY <1>2, <1>3, ContinueMoves
<1>5. life'[p] = "running" => life[p] = "running" \/ act.sample
  BY <1>1, <1>2, <1>3, <1>4 DEF Resumed, EvidenceInv
<1>6. \A q \in Procs : life[q] = "gone" => life'[q] = "gone"
  BY <1>4, Unpacked, Alive DEF Resumed
<1>7. /\ DOMAIN debug' = DOMAIN debug
      /\ \A q \in DOMAIN debug' : debug'[q] = IF q = p THEN act.to ELSE debug[q]
  BY <1>2 DEF WithDebug
<1>8. /\ \A q \in DOMAIN debug' : debug'[q] \in {"native", "wow64native", "wow64", "complete"}
      /\ \A q \in DOMAIN debug' : debug'[q] = "wow64native" => q \in Wow64
  BY <1>1, <1>3, <1>7 DEF EvidenceInv
<1>9. \A m \in mapped[p] : p \in audit.snapshots => <<p, m>> \in audit.modules
  BY <1>1, <1>2, <1>4, ModulesAreNoKinds DEF EvidenceInv
<1>10. CASE ~act.sample /\ pc' = next /\ audit' = audit
  <2>1. \A q \in audit'.identities : q \in DOMAIN debug' \/ life'[q] = "gone"
    BY <1>1, <1>6, <1>7, <1>10 DEF EvidenceInv
  <2>2. EvidenceInv'
    BY <1>4, <1>5, <1>8, <1>9, <1>10, <2>1, ServedEvidence
  <2> QED BY <1>1, <1>3, <1>4, <1>7, <1>8, <1>10, <2>2 DEF Served, Resumed
<1>11. CASE pc' = "abort" /\ audit' = [audit EXCEPT !.identities = @ \cup {p}]
  <2>1. audit' \in AuditType
    <3>1. {} \in SUBSET (Modules \cup {"executable"})
      OBVIOUS
    <3> QED BY <1>1, <1>4, <1>11, <3>1, RecordedType
  <2>2. /\ audit'.identities = audit.identities \cup {p}
        /\ audit'.snapshots = audit.snapshots /\ audit'.modules = audit.modules
        /\ audit'.timedOut = audit.timedOut /\ audit'.remaining = audit.remaining
        /\ audit'.unexpected = audit.unexpected /\ audit'.cleaned = audit.cleaned
    BY <1>1, <1>11 DEF AuditType
  <2>3. \A q \in audit'.identities : q \in DOMAIN debug' \/ life'[q] = "gone"
    BY <1>1, <1>2, <1>6, <1>7, <2>2 DEF EvidenceInv
  <2>4. EvidenceInv'
    BY <1>4, <1>8, <1>9, <1>11, <2>2, <2>3, ServedEvidence
  <2> QED BY <1>1, <1>3, <1>4, <1>7, <1>8, <1>11, <2>1, <2>2, <2>4 DEF Served, Resumed
<1>12. CASE audit' = Sampled(p) /\ pc' = next
  <2> DEFINE ms == mapped[p] \cup {"executable"}
  <2>1. ms \in SUBSET (Modules \cup {"executable"})
    BY <1>1, <1>4
  <2>2. audit' = RecordModules([audit EXCEPT !.identities = @ \cup {p}, !.snapshots = @ \cup {p}],
                               p, ms)
    BY <1>12 DEF Sampled
  <2>3. \A m \in mapped[p] : <<p, m>> \in {p} \X ms
    OBVIOUS
  <2> HIDE DEF ms
  <2>4. audit' \in AuditType
    BY <1>1, <1>4, <2>1, <2>2, RecordedType
  <2>5. /\ audit'.identities = audit.identities \cup {p}
        /\ audit'.snapshots = audit.snapshots \cup {p}
        /\ audit'.modules = audit.modules \cup ({p} \X ms)
        /\ audit'.timedOut = audit.timedOut /\ audit'.remaining = audit.remaining
        /\ audit'.unexpected = audit.unexpected /\ audit'.cleaned = audit.cleaned
    BY <1>1, <2>2 DEF RecordModules, AuditType
  <2>6. \A q \in audit'.identities : q \in DOMAIN debug' \/ life'[q] = "gone"
    BY <1>1, <1>2, <1>6, <1>7, <2>5 DEF EvidenceInv
  <2>7. /\ p \in audit'.snapshots /\ audit.snapshots \subseteq audit'.snapshots
        /\ audit'.snapshots \subseteq audit.snapshots \cup {p}
        /\ audit.modules \subseteq audit'.modules
        /\ \A m \in mapped[p] : <<p, m>> \in audit'.modules
    BY <2>3, <2>5
  <2>8. EvidenceInv'
    BY <1>4, <1>8, <1>12, <2>6, <2>7, ServedEvidence
  <2> QED BY <1>1, <1>3, <1>4, <1>7, <1>8, <1>12, <2>4, <2>5, <2>8 DEF Served, Resumed
<1> QED BY <1>2, <1>10, <1>11, <1>12

LEMMA ExitServed ==
  ASSUME AuditInv, pc \notin {"abort", "error"}, NEW next, next # "ok",
         NEW p \in Stopped, OnExit(p, next), UNCHANGED <<mapped, doomed>>
  PROVE  Served(next)
<1>1. /\ TypeOK /\ EvidenceInv /\ audit \in AuditType
      /\ \A q \in DOMAIN debug : debug[q] \in {"native", "wow64native", "wow64", "complete"}
      /\ DOMAIN debug \subseteq Reported /\ audit.identities \subseteq Procs
  BY Unpacked DEF TypeOK, AuditType, Reported
<1>2. event[p] = "exit" /\ Resumed(p, TRUE) /\ p \in Procs /\ p \in Reported
      /\ p \in Live \cup Exiting
  BY ContinueMoves DEF OnExit
<1>3. life'[p] = "gone"
  BY <1>2 DEF Resumed
<1>4. \A q \in Procs : life[q] = "gone" => life'[q] = "gone"
  BY <1>2, <1>3 DEF Resumed
<1>5. \A m \in mapped[p] : p \in audit.snapshots => <<p, m>> \in audit.modules
  BY <1>1, <1>2, ModulesAreNoKinds DEF EvidenceInv, TypeOK
<1>6. CASE pc' = "abort" /\ UNCHANGED <<debug, audit>>
  <2>1. EvidenceInv'
    BY <1>1, <1>2, <1>3, <1>4, <1>5, <1>6, ServedEvidence DEF EvidenceInv
  <2> QED BY <1>1, <1>2, <1>6, <2>1 DEF Served, Resumed
<1>7. CASE /\ debug' = [q \in DOMAIN debug \ {p} |-> debug[q]]
           /\ audit' = [audit EXCEPT !.rootExited = @ \/ p = Root] /\ pc' = next
  <2>1. /\ DOMAIN debug' = DOMAIN debug \ {p}
        /\ \A q \in DOMAIN debug' : debug'[q] = debug[q]
    BY <1>7
  <2>2. audit' \in AuditType
    <3>1. {} \in SUBSET (Modules \cup {"executable"})
      OBVIOUS
    <3> QED BY <1>1, <1>2, <1>7, <3>1, RecordedType
  <2>3. /\ audit'.identities = audit.identities
        /\ audit'.snapshots = audit.snapshots /\ audit'.modules = audit.modules
        /\ audit'.timedOut = audit.timedOut /\ audit'.remaining = audit.remaining
        /\ audit'.unexpected = audit.unexpected /\ audit'.cleaned = audit.cleaned
    BY <1>1, <1>7 DEF AuditType
  <2>4. \A q \in audit'.identities : q \in DOMAIN debug' \/ life'[q] = "gone"
    BY <1>1, <1>3, <1>4, <2>1, <2>3 DEF EvidenceInv
  <2>5. \A q \in DOMAIN debug' : debug'[q] = "wow64native" => q \in Wow64
    BY <1>1, <2>1 DEF EvidenceInv
  <2>6. EvidenceInv'
    BY <1>2, <1>3, <1>5, <1>7, <2>3, <2>4, <2>5, ServedEvidence
  <2> QED BY <1>1, <1>2, <1>7, <2>1, <2>2, <2>3, <2>6 DEF Served, Resumed
<1> QED BY <1>6, <1>7 DEF OnExit, Goto, Fail

(* What the tree is after a served event.                                   *)
LEMMA ServedTree ==
  ASSUME AuditInv, NEW next, Served(next)
  PROVE  /\ Existed' = Existed /\ Live' \subseteq Live /\ Exiting' \subseteq Live \cup Exiting
         /\ DOMAIN debug' \subseteq Held /\ DOMAIN debug' \subseteq Reported \cap Existed
         /\ AllListed => RunningListed'
<1>1. /\ life \in [Procs -> LifeStates] /\ life' \in [Procs -> LifeStates]
      /\ EventInv /\ NumberInv /\ TypeOK
  BY Unpacked DEF Served
<1>2. PICK p \in Stopped, handled \in BOOLEAN : Resumed(p, handled)
  BY DEF Served
<1>3. p \in Procs /\ p \in Reported /\ life[p] # "unborn" /\ life'[p] # "unborn"
      /\ (p \in Live' => p \in Live) /\ p \in Live \cup Exiting
      /\ \A q \in Procs \ {p} : life'[q] = life[q] /\ event'[q] = event[q]
  BY <1>1, <1>2, Alive DEF Stopped, Reported, EventInv, Resumed
<1>4. Existed' = Existed
  BY <1>3 DEF Existed
<1>5. Live' \subseteq Live
  BY <1>3 DEF Live
<1>6. Exiting' \subseteq Live \cup Exiting
  BY <1>3 DEF Exiting
<1>7. \A q \in Stopped : q \in Reported /\ q \in Live \cup Exiting /\ q \in Existed
  BY <1>1, Alive DEF Stopped, Reported, EventInv
<1>8. DOMAIN debug' \subseteq Held /\ DOMAIN debug' \subseteq Reported \cap Existed
  <2>1. DOMAIN debug' \subseteq DOMAIN debug \cup Stopped
    BY DEF Served
  <2>2. DOMAIN debug \subseteq Reported \cap Existed
    BY <1>1 DEF TypeOK, NumberInv
  <2> QED BY <1>7, <2>1, <2>2 DEF Held
<1>9. ASSUME AllListed, NEW q \in Reported, life'[q] = "running"
      PROVE  Pid[q] \in audit.remaining
  <2>1. q \in Procs
    BY DEF Reported
  <2>2. life[q] # "loading" \/ event[q] # "create"
    BY <1>2, <1>3, <1>9, <2>1 DEF Resumed
  <2>3. q \in Live
    BY <1>1, <1>5, <1>9, <2>1 DEF Live
  <2> QED BY <1>9, <2>2, <2>3 DEF AllListed
<1>10. audit'.remaining = audit.remaining
  BY DEF Served
<1> QED BY <1>4, <1>5, <1>6, <1>8, <1>9, <1>10 DEF RunningListed
LEMMA EventServed ==
  ASSUME AuditInv, pc \notin {"abort", "error"}, NEW next, next # "ok",
         ServeEvent(next)
  PROVE  Served(next)
<1>1. PICK p \in Stopped : OnCreate(p, next) \/ OnLoad(p, next) \/ OnBreakpoint(p, next)
                             \/ OnExit(p, next)
  BY DEF ServeEvent
<1>2. UNCHANGED <<mapped, doomed>>
  BY DEF ServeEvent
<1> QED BY <1>1, <1>2, CreateServed, LoadServed, BreakpointServed, ExitServed

LEMMA ServeStep ==
  ASSUME AuditInv, NEW next, ServeEvent(next), guard' \in {"contained", "job"},
         clock' \in 0 .. Slices,
         \/ pc \in {"first", "rootwait"} /\ next = "root"
         \/ pc = "drainwait" /\ next = "drain"
         \/ pc = "terminate" /\ next = "terminate"
  PROVE  AuditInv'
<1>1. Served(next)
  BY EventServed
<1>2. /\ TypeInv /\ NumberInv /\ VerdictInv /\ doomed \subseteq Existed
      /\ mapped \in [Procs -> SUBSET Modules]
  BY Unpacked
<1>3. /\ Existed' = Existed /\ Live' \subseteq Live /\ Exiting' \subseteq Live \cup Exiting
      /\ DOMAIN debug' \subseteq Held /\ DOMAIN debug' \subseteq Reported \cap Existed
      /\ AllListed => RunningListed'
  BY <1>1, ServedTree
<1>4. /\ life' \in [Procs -> LifeStates] /\ event' \in [Procs -> EventStates] /\ EventInv'
      /\ mapped' = mapped /\ doomed' = doomed /\ pc' \in {next, "abort"}
      /\ \A q \in DOMAIN debug' : debug'[q] \in {"native", "wow64native", "wow64", "complete"}
      /\ audit' \in AuditType
      /\ audit'.timedOut = audit.timedOut /\ audit'.unexpected = audit.unexpected
      /\ audit'.cleaned = audit.cleaned
      /\ EvidenceInv'
  BY <1>1 DEF Served
<1>5. TypeInv'
  <2>1. /\ life' \in [Procs -> {"unborn", "suspended", "loading", "loading32", "running",
                                "exiting", "gone"}]
        /\ event' \in [Procs -> {None, "create", "breakpoint", "wx86breakpoint", "exit"}
                                \cup Modules]
    BY <1>4 DEF LifeStates, EventStates
  <2>2. audit'.identities \cup audit'.executables \cup audit'.snapshots \subseteq Reported
    BY <1>4 DEF AuditType
  <2>3. TypeOK'
    BY <1>2, <1>3, <1>4, <2>1, <2>2 DEF TypeOK
  <2> QED BY <1>2, <1>3, <1>4, <2>3 DEF TypeInv
<1>6. NumberInv'
  <2>1. Held' \subseteq Held
    BY <1>3 DEF Held
  <2> QED BY <1>2, <1>3, <2>1 DEF NumberInv
<1>7. GuardInv'
  BY <1>4 DEF GuardInv, Contained
<1>8. VerdictInv'
  BY <1>2, <1>3, <1>4 DEF VerdictInv
<1> QED BY <1>4, <1>5, <1>6, <1>7, <1>8 DEF AuditInv

LEMMA WaitStep ==
  ASSUME AuditInv, FirstEvent \/ RootWait \/ DrainWait \/ TerminateWait PROVE AuditInv'
<1>1. /\ GuardInv /\ clock \in 0 .. Slices /\ Slices \in Nat \ {0}
      /\ Tick \in 0 .. Slices /\ 0 \in 0 .. Slices
  BY Unpacked, TickInRange
<1>2. \A c \in Ticks : c \in 0 .. Slices
  BY <1>1 DEF Ticks
<1>3. pc \in {"first", "rootwait", "drainwait", "terminate"} => guard \in {"contained", "job"}
  BY <1>1 DEF GuardInv, Contained
<1>4. CASE FirstEvent
  <2>1. CASE ServeEvent("root")
    <3>1. pc = "first" /\ guard' \in {"contained", "job"} /\ clock' \in 0 .. Slices
      BY <1>1, <1>2, <1>3, <1>4, <2>1 DEF FirstEvent
    <3> QED BY <2>1, <3>1, ServeStep
  <2> QED BY <1>1, <1>4, <2>1, QuietWait DEF FirstEvent, Fail, Goto
<1>5. CASE RootWait
  <2>1. CASE ServeEvent("root") /\ clock' \in Ticks
    <3>1. pc = "rootwait" /\ guard' \in {"contained", "job"} /\ clock' \in 0 .. Slices
      BY <1>1, <1>2, <1>3, <1>5, <2>1 DEF RootWait
    <3> QED BY <2>1, <3>1, ServeStep
  <2> QED BY <1>1, <1>5, <2>1, QuietWait DEF RootWait, Goto
<1>6. CASE DrainWait
  <2>1. CASE ServeEvent("drain") /\ clock' \in Ticks
    <3>1. pc = "drainwait" /\ guard' \in {"contained", "job"} /\ clock' \in 0 .. Slices
      BY <1>1, <1>2, <1>3, <1>6, <2>1 DEF DrainWait
    <3> QED BY <2>1, <3>1, ServeStep
  <2> QED BY <1>1, <1>6, <2>1, QuietWait DEF DrainWait, Goto
<1>7. CASE TerminateWait
  <2>1. CASE ServeEvent("terminate") /\ clock' \in Ticks
    <3>1. pc = "terminate" /\ guard' \in {"contained", "job"} /\ clock' \in 0 .. Slices
      BY <1>1, <1>2, <1>3, <1>7, <2>1 DEF TerminateWait
    <3> QED BY <2>1, <3>1, ServeStep
  <2> QED BY <1>1, <1>7, <2>1, QuietWait DEF TerminateWait, Fail, Goto
<1> QED BY <1>4, <1>5, <1>6, <1>7

LEMMA NextAudited ==
  ASSUME AuditInv, [Next]_vars PROVE AuditInv'
<1>1. CASE UNCHANGED vars
  <2>1. /\ life' = life /\ event' = event /\ mapped' = mapped /\ doomed' = doomed /\ pc' = pc
        /\ guard' = guard /\ clock' = clock /\ debug' = debug /\ audit' = audit
    BY <1>1 DEF vars
  <2>2. Live' = Live /\ Exiting' = Exiting /\ Existed' = Existed
    BY <2>1 DEF Live, Exiting, Existed
  <2>3. TypeInv' /\ EventInv' /\ NumberInv'
    BY <2>1, <2>2 DEF AuditInv, TypeInv, TypeOK, EventInv, NumberInv, Held
  <2>4. GuardInv' /\ VerdictInv'
    BY <2>1, <2>2 DEF AuditInv, GuardInv, OnlySuspended, Contained, VerdictInv, RunningListed,
                      AllListed
  <2>5. EvidenceInv'
    BY <2>1, <2>2 DEF AuditInv, EvidenceInv, SampledBeforeEntry, CompleteAudit
  <2> QED BY <2>3, <2>4, <2>5 DEF AuditInv
<1>2. CASE Processes
  BY <1>2, ProcessesStep
<1>3. CASE Start
  BY <1>3, BindStep, CreateStep, AssignStep, ResumeStep DEF Start
<1>4. CASE Loops
  BY <1>4, WaitStep, AwaitRootStep, DrainSampleStep, JudgeStep, KillStep, TreeGoneStep DEF Loops
<1>5. CASE VerifyAudit \/ Abort
  BY <1>5, VerifyStep, AbortStep
<1> QED BY <1>1, <1>2, <1>3, <1>4, <1>5 DEF Next, Auditor
--------------------------------------------------------------------------------
(* At every step of run() and of the processes it audits.                   *)
THEOREM AuditHolds == Spec => []AuditInv
<1>1. AuditInv /\ [Next]_vars => AuditInv'
  BY NextAudited
<1> QED BY InitAudited, <1>1, PTL DEF Spec

(* run() returns, with a result or an error, only when every process of the *)
(* command's tree has left or is ordered terminated: the drop guard covers  *)
(* whatever had been started when an error left it.                         *)
THEOREM RunLeavesNothing == Spec => []NothingOutlivesTheRun
<1>1. AuditInv => NothingOutlivesTheRun
  BY DEF AuditInv, GuardInv, NothingOutlivesTheRun, Returned
<1> QED BY AuditHolds, <1>1, PTL

LEMMA CompleteCoversAll ==
  ASSUME AuditInv, pc = "ok"
  PROVE  \A p \in Existed : p \in audit.snapshots \cap audit.executables /\ life[p] = "gone"
<1>1. CompleteAudit /\ IsFiniteSet(Existed) /\ DOMAIN debug = {}
      /\ life \in [Procs -> LifeStates] /\ audit.identities \subseteq Procs
      /\ \A p \in audit.identities : life[p] = "gone"
  BY Unpacked DEF EvidenceInv, GuardInv, TypeInv, AuditType, Reported
<1>2. audit.identities \subseteq Existed
  BY <1>1 DEF Existed
<1>3. audit.identities = Existed
  BY <1>1, <1>2, FS_Subset DEF CompleteAudit
<1> QED BY <1>1, <1>3 DEF CompleteAudit

(* No program starts before its modules were sampled, and a result covers   *)
(* every process that was ever in the Job, whatever the order of the        *)
(* events, the reuse of process numbers and the silent processes.           *)
THEOREM EvidenceCoversTheTree == Spec => []EvidenceIsComplete
<1>1. AuditInv => EvidenceIsComplete
  <2> SUFFICES ASSUME AuditInv PROVE EvidenceIsComplete
    OBVIOUS
  <2>1. TypeOK /\ EvidenceInv
    BY Unpacked
  <2> QED BY <2>1, CompleteCoversAll DEF EvidenceIsComplete, EvidenceInv
<1> QED BY AuditHolds, <1>1, PTL

(* The flags of a result say what the auditor did to the tree, though the   *)
(* survivors are judged from an older list of process numbers.              *)
THEOREM FlagsSayWhatWasDone == Spec => []VerdictIsJustified
<1>1. AuditInv => VerdictIsJustified
  BY DEF AuditInv, VerdictInv, VerdictIsJustified
<1> QED BY AuditHolds, <1>1, PTL
================================================================================
