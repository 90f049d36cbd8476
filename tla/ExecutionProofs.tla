--------------------------- MODULE ExecutionProofs ---------------------------
(***************************************************************************)
(* What a published qualification run says was done and found, whatever    *)
(* changes while it runs and however often; what alone can make its own    *)
(* rules refuse it; and that a host found quiet was.                       *)
(***************************************************************************)
EXTENDS Execution, FiniteSetTheorems, SequenceTheorems, WellFoundedInduction, TLAPS

-----------------------------------------------------------------------------
(* The scan of what was built.                                              *)

(* A member that is not an archive, of what the scan accepts.               *)
LEMMA OpaqueIsHarmless ==
    ASSUME NEW m, Formatted(m), m.kind # "archive", m.name # "forbidden", OpaqueMember(m)
    PROVE  Harmless(m) /\ Held(m, FALSE) = {}
BY DEF Formatted, OpaqueMember, Harmless, Held, MagicAllows, CoffAllows, PeAllows, Reachable

LEMMA TableIsHarmless ==
    ASSUME NEW m, m.name = "table" PROVE Harmless(m) /\ Held(m, FALSE) = {}
BY DEF Harmless, Held

LEMMA ArchiveIsHarmless ==
    ASSUME NEW m, Formatted(m), m.kind = "archive", m.name # "forbidden"
    PROVE  Harmless(m)
BY DEF Formatted, Harmless, Reachable

(* An archive of depth two holds no archive; what is in one of depth one is *)
(* a file or such an archive, and so on.                                    *)
LEMMA TwoDeepHolds ==
    ASSUME NEW a, NEW parser, TwoDeep(a, parser), \A m \in Members(a) : Formatted(m)
    PROVE  \A m \in Members(a) : Harmless(m) /\ Held(m, FALSE) = {}
<1>1. SUFFICES ASSUME NEW m \in Members(a), m.name # "table"
               PROVE  Harmless(m) /\ Held(m, FALSE) = {}
  BY TableIsHarmless
<1>2. m.kind # "archive" /\ m.name # "forbidden" /\ OpaqueMember(m)
  BY <1>1 DEF TwoDeep, ThreeDeep, ArchiveWith, MemberName
<1> QED BY <1>1, <1>2, OpaqueIsHarmless

(* What can be reached in so many levels is formatted, or harmless and      *)
(* nothing is further down.                                                 *)
Formatted1(a) == Formatted(a) /\ \A m \in Held(a, FALSE) : Formatted(m)
Formatted2(a) == Formatted(a) /\ \A m \in Held(a, FALSE) : Formatted1(m)
Formatted3(a) == Formatted(a) /\ \A m \in Held(a, FALSE) : Formatted2(m)
Harmless0(a) == Harmless(a) /\ Held(a, FALSE) = {}
Harmless1(a) == Harmless(a) /\ \A m \in Held(a, FALSE) : Harmless0(m)
Harmless2(a) == Harmless(a) /\ \A m \in Held(a, FALSE) : Harmless1(m)
Harmless3(a) == Harmless(a) /\ \A m \in Held(a, FALSE) : Harmless2(m)

LEMMA HarmlessDeeper ==
    ASSUME NEW a, Harmless2(a) PROVE Harmless3(a)
<1>1. \A m : Harmless0(m) => Harmless1(m)
  BY DEF Harmless0, Harmless1
<1>2. \A m : Harmless1(m) => Harmless2(m)
  BY <1>1 DEF Harmless1, Harmless2
<1> QED BY <1>2 DEF Harmless2, Harmless3

LEMMA ArchiveHolds ==
    ASSUME NEW a, a.name # "table", a.kind = "archive"
    PROVE  Held(a, FALSE) = Members(a)
BY DEF Held

LEMMA OneDeepHolds ==
    ASSUME NEW a, NEW parser, OneDeep(a, parser), \A m \in Members(a) : Formatted1(m)
    PROVE  \A m \in Members(a) : Harmless1(m)
<1>1. SUFFICES ASSUME NEW m \in Members(a), m.name # "table" PROVE Harmless1(m)
  BY TableIsHarmless DEF Harmless1
<1>2. m.name # "forbidden"
  BY <1>1 DEF OneDeep, ArchiveWith, MemberName
<1>3. CASE m.kind = "archive"
  <2>1. TwoDeep(m, parser) /\ Held(m, FALSE) = Members(m)
    BY <1>1, <1>3, ArchiveHolds DEF OneDeep, ArchiveWith
  <2>2. \A x \in Members(m) : Harmless(x) /\ Held(x, FALSE) = {}
    BY <1>1, <2>1, TwoDeepHolds DEF Formatted1
  <2> QED BY <1>1, <1>2, <1>3, <2>1, <2>2, ArchiveIsHarmless DEF Harmless1, Harmless0, Formatted1
<1>4. CASE m.kind # "archive"
  <2>1. OpaqueMember(m)
    BY <1>1, <1>4 DEF OneDeep, ArchiveWith
  <2> QED BY <1>1, <1>2, <1>4, <2>1, OpaqueIsHarmless DEF Harmless1, Formatted1
<1> QED BY <1>3, <1>4

LEMMA ArchiveAllowsHolds ==
    ASSUME NEW a, NEW parser, ArchiveAllows(a, parser), \A m \in Members(a) : Formatted2(m)
    PROVE  \A m \in Members(a) : Harmless2(m)
<1>1. SUFFICES ASSUME NEW m \in Members(a), m.name # "table" PROVE Harmless2(m)
  BY TableIsHarmless DEF Harmless2
<1>2. m.name # "forbidden"
  BY <1>1 DEF ArchiveAllows, ArchiveWith, MemberName
<1>3. CASE m.kind = "archive"
  <2>1. OneDeep(m, parser) /\ Held(m, FALSE) = Members(m)
    BY <1>1, <1>3, ArchiveHolds DEF ArchiveAllows, ArchiveWith
  <2>2. \A x \in Members(m) : Harmless1(x)
    BY <1>1, <2>1, OneDeepHolds DEF Formatted2
  <2> QED BY <1>1, <1>2, <1>3, <2>1, <2>2, ArchiveIsHarmless DEF Harmless2, Formatted2
<1>4. CASE m.kind # "archive"
  <2>1. OpaqueMember(m)
    BY <1>1, <1>4 DEF ArchiveAllows, ArchiveWith
  <2> QED BY <1>1, <1>2, <1>4, <2>1, OpaqueIsHarmless DEF Harmless2, Formatted2
<1> QED BY <1>3, <1>4

LEMMA ZipHolds ==
    ASSUME NEW a, ZipAllows(a), \A m \in Members(a) : Formatted3(m)
    PROVE  \A m \in Members(a) : Harmless3(m)
<1>1. SUFFICES ASSUME NEW m \in Members(a), m.name # "table" PROVE Harmless3(m)
  BY TableIsHarmless DEF Harmless3
<1>2. m.name # "forbidden" /\ MagicAllows(m) /\ Formatted(m)
  BY <1>1 DEF ZipAllows, MemberName, Formatted3
<1>3. CASE m.kind = "archive"
  <2>1. ArchiveAllows(m, FALSE) /\ Held(m, FALSE) = Members(m)
    BY <1>1, <1>3, ArchiveHolds DEF ZipAllows
  <2>2. \A x \in Members(m) : Harmless2(x)
    BY <1>1, <2>1, ArchiveAllowsHolds DEF Formatted3
  <2> QED BY <1>2, <1>3, <2>1, <2>2, ArchiveIsHarmless DEF Harmless3
<1>4. CASE m.kind # "archive"
  <2>1. (m.kind = "coff" => CoffAllows(m)) /\ (m.kind = "pe" => PeAllows(m))
    BY <1>1 DEF ZipAllows
  <2>2. Held(m, FALSE) = {}
    BY <1>2, <1>4 DEF Formatted, Held
  <2>3. Harmless(m)
    BY <1>1, <1>2, <2>1 DEF Harmless, Formatted, MagicAllows, CoffAllows, PeAllows, Reachable
  <2> QED BY <2>2, <2>3 DEF Harmless3
<1> QED BY <1>3, <1>4

LEMMA FileIsHarmless ==
    ASSUME NEW a, FileAllows(a), Formatted(a) PROVE Harmless(a)
BY DEF FileAllows, Formatted, Harmless, ArchiveAllows, ArchiveWith, MagicAllows, CoffAllows,
       PeAllows, Reachable

LEMMA FileHolds ==
    ASSUME NEW a, FileAllows(a), Formatted(a), \A m \in Held(a, TRUE) : Formatted3(m)
    PROVE  \A m \in Held(a, TRUE) : Harmless3(m)
<1>1. CASE Held(a, TRUE) = {}
  BY <1>1
<1>2. CASE Held(a, TRUE) # {}
  <2>1. a.name # "table" /\ a.kind \in {"archive", "zip"} /\ Held(a, TRUE) = Members(a)
    BY <1>2 DEF Held, Formatted
  <2>2. CASE a.kind = "archive"
    <3>1. ArchiveAllows(a, a.name = "parser")
      BY <2>2 DEF FileAllows, PeAllows
    <3>2. \A m \in Members(a) : Harmless2(m)
      BY <2>1, <3>1, ArchiveAllowsHolds DEF Formatted3, Formatted2, Formatted1
    <3> QED BY <2>1, <3>2, HarmlessDeeper
  <2>3. CASE a.kind = "zip"
    <3>1. ZipAllows(a)
      BY <2>3 DEF FileAllows, PeAllows, CoffAllows, ArchiveAllows, ArchiveWith
    <3> QED BY <2>1, <3>1, ZipHolds
  <2> QED BY <2>1, <2>2, <2>3
<1> QED BY <1>1, <1>2

(* What passes the scan is clean, and the five levels at which Clean looks  *)
(* are all there are.                                                       *)
LEMMA ScanIsSound ==
    ASSUME NEW command, NEW files, ScanTarget(command, files),
           \A a \in files : \A m \in Within(a) : Formatted(m)
    PROVE  /\ Clean(files)
           /\ \A a \in files : Inside(Inside(Inside(Inside(Held(a, TRUE))))) = {}
<1>1. SUFFICES ASSUME NEW a \in files
               PROVE  /\ \A m \in Within(a) : Harmless(m)
                      /\ Inside(Inside(Inside(Inside(Held(a, TRUE))))) = {}
  BY DEF Clean
<1> DEFINE one == Held(a, TRUE)
           two == Inside(one)
           three == Inside(two)
           four == Inside(three)
<1>2. /\ \A m \in one : \A x \in Held(m, FALSE) : x \in two
      /\ \A m \in two : \A x \in Held(m, FALSE) : x \in three
      /\ \A m \in three : \A x \in Held(m, FALSE) : x \in four
  BY DEF Inside
<1>3. Within(a) = {a} \cup one \cup two \cup three \cup four \cup Inside(four)
  BY DEF Within
<1> HIDE DEF one, two, three, four
<1>4. Formatted(a) /\ \A m \in one : Formatted3(m)
  BY <1>1, <1>2, <1>3 DEF Formatted3, Formatted2, Formatted1
<1>5. Harmless(a) /\ \A m \in one : Harmless3(m)
  BY <1>1, <1>4, FileIsHarmless, FileHolds DEF ScanTarget, one
<1>6. \A m \in two : Harmless2(m)
  BY <1>5 DEF Harmless3, two, Inside
<1>7. \A m \in three : Harmless1(m)
  BY <1>6 DEF Harmless2, three, Inside
<1>8. \A m \in four : Harmless0(m)
  BY <1>7 DEF Harmless1, four, Inside
<1>9. Inside(four) = {}
  BY <1>8 DEF Harmless0, Inside
<1>10. \A m \in Within(a) : Harmless(m)
  BY <1>3, <1>5, <1>6, <1>7, <1>8, <1>9 DEF Harmless3, Harmless2, Harmless1, Harmless0
<1> QED BY <1>9, <1>10 DEF one, two, three, four
-----------------------------------------------------------------------------
(* The window in which the host is measured.                                *)
Stations == {"ancestry", "approve", "open", "list", "read", "judge", "quiet", "busy", "refused"}
Images == {"none", "boundary", "tool", "python"}
ProcessType ==
    [image : Images, parent : Pids \cup {0}, born : Nat, open : BOOLEAN, cpu : Nat, load : Nat]
Observation == [pid : Pids, born : Nat, cpu : Nat]
ProbeType ==
    [at : Stations, chain : SUBSET Pids, approved : SUBSET (Pids \X Nat), opened : Nat,
     settings : {0, 1}, listed : SUBSET Pids, initial : SUBSET Observation,
     first : SUBSET Observation, last : SUBSET Observation, polls : Nat, busy : Nat]

WindowTypes ==
    /\ live \in [Pids -> ProcessType] /\ wall \in Nat \ {0} /\ events \in Nat
    /\ settings \in {0, 1} /\ probe \in ProbeType /\ hot \subseteq Pids \X Nat

Runs(p) == live[p].image # "none"
Measured == probe.at \in {"list", "read", "judge"}
SameProcess(o, f) == f.pid = o.pid /\ f.born = o.born
SeenFirst(o) == \E f \in probe.initial : SameProcess(o, f)

(* A process is older than the clock; only the desktop is a boundary; the   *)
(* verifier runs, and so does its own launcher below the desktop, until it  *)
(* ends for good.                                                           *)
ProcessesInv ==
    /\ \A p \in Pids : Runs(p) => live[p].born < wall
    /\ \A p \in Pids : live[p].image = "boundary" => p = 1
    /\ Runs(3) /\ live[3].parent = 2
    /\ Runs(2) /\ live[2].born = 0 => live[2].parent = 1

(* Who has approved its own launcher has approved nobody else.              *)
ChainInv ==
    /\ probe.at = "approve" /\ Runs(2) /\ live[2].born = 0 => probe.chain \subseteq {2, 3}
    /\ <<2, 0>> \in probe.approved =>
          \A h \in probe.approved : h = <<2, 0>> \/ h[1] = 3

(* What was alive when the window opened and can be opened is in the first  *)
(* snapshot.                                                                *)
SnapshotInv ==
    /\ probe.at \in {"ancestry", "approve", "open"} => probe.polls = 0
    /\ probe.polls = 0 => probe.initial = {} /\ probe.last = {} /\ hot = {}
    /\ Measured => probe.opened <= wall
    /\ probe.at = "read" /\ probe.polls = 0 =>
          \A p \in Pids : Runs(p) /\ live[p].born < probe.opened => p \in probe.listed
    /\ Measured /\ probe.polls # 0 =>
          \A p \in Pids : Runs(p) /\ live[p].open /\ live[p].born < probe.opened =>
              \E f \in probe.initial : f.pid = p /\ f.born = live[p].born
    /\ \A f, g \in probe.initial : f.pid = g.pid => f = g
    /\ \A f \in probe.initial : f.born < wall

(* What the counters of a process say of what it has computed since.        *)
LoadInv ==
    \A p \in Pids : Runs(p) =>
        /\ \A f \in probe.initial :
              f.pid = p /\ f.born = live[p].born => live[p].cpu = f.cpu + live[p].load
        /\ live[p].load <= live[p].cpu

(* The last observation of a process is not ahead of it; whoever was not in *)
(* the first snapshot was created in the window.                            *)
LastInv ==
    \A o \in probe.last :
        /\ o.born < wall
        /\ Runs(o.pid) /\ live[o.pid].born = o.born => o.cpu <= live[o.pid].cpu
        /\ SeenFirst(o) \/ o.born >= probe.opened

(* Whoever was hot is still observed, and its load is too high.             *)
Exceeds(o) ==
    \/ \E f \in probe.initial : SameProcess(o, f) /\ o.cpu > f.cpu + CoreLimit
    \/ ~SeenFirst(o) /\ o.cpu > CoreLimit
HotInv == \A h \in hot : \E o \in probe.last : o.pid = h[1] /\ o.born = h[2] /\ Exceeds(o)

QuietInv == probe.at = "quiet" => settings = probe.settings /\ QualifiedHostWasQuiet

WindowInv ==
    /\ WindowTypes /\ ProcessesInv /\ ChainInv /\ SnapshotInv
    /\ LoadInv /\ LastInv /\ HotInv /\ QuietInv

LEMMA PidsAre ==
    /\ 1 \in Pids /\ 2 \in Pids /\ 3 \in Pids
    /\ AncestryLimit \in Nat \ {0} /\ Polls \in Nat \ {0} /\ CoreLimit \in Nat
BY ExecutionAssumption

(* An identity of what runs on a number.                                    *)
LEMMA WindowAtStart ==
    ASSUME live = Window!AtStart("tool") \/ live = Window!AtStart("python"),
           wall = 1, events = 0, settings = 0, probe = Window!NoProbe, hot = {}
    PROVE  WindowInv
<1>0. PICK launcher \in {"tool", "python"} : live = Window!AtStart(launcher)
  OBVIOUS
<1>a. Window!NoProcess \in ProcessType
  BY DEF Window!NoProcess, ProcessType, Images
<1>b. /\ live[1] = [Window!NoProcess EXCEPT !.image = "boundary", !.open = TRUE]
      /\ live[2] = [Window!NoProcess EXCEPT !.image = launcher, !.open = TRUE, !.parent = 1]
      /\ live[3] = [Window!NoProcess EXCEPT !.image = "tool", !.open = TRUE, !.parent = 2]
      /\ \A p \in Pids : p \notin {1, 2, 3} => live[p] = Window!NoProcess
  BY <1>0, PidsAre DEF Window!AtStart, Window!Desktop, Window!Launcher, Window!Verifier
<1>c. Window!NoProcess.born = 0 /\ Window!NoProcess.load = 0 /\ Window!NoProcess.cpu = 0
      /\ Window!NoProcess.image = "none"
  BY DEF Window!NoProcess
<1>d. /\ live[1] \in ProcessType /\ live[1].image = "boundary"
      /\ live[1].born = 0 /\ live[1].load = 0 /\ live[1].cpu = 0
  BY <1>a, <1>b, <1>c DEF ProcessType, Images
<1>e. /\ live[2] \in ProcessType /\ live[2].image # "boundary" /\ live[2].parent = 1
      /\ live[2].born = 0 /\ live[2].load = 0 /\ live[2].cpu = 0
  <2>1. launcher \in Images /\ launcher # "boundary" /\ 1 \in Pids \cup {0} /\ TRUE \in BOOLEAN
    BY PidsAre DEF Images
  <2> QED BY <1>a, <1>b, <1>c, <2>1 DEF ProcessType
<1>f. /\ live[3] \in ProcessType /\ live[3].image = "tool" /\ live[3].parent = 2
      /\ live[3].born = 0 /\ live[3].load = 0 /\ live[3].cpu = 0
  BY <1>a, <1>b, <1>c, PidsAre DEF ProcessType, Images
<1>1. live \in [Pids -> ProcessType]
  <2>1. \A p \in Pids : live[p] \in ProcessType
    BY <1>a, <1>b, <1>d, <1>e, <1>f
  <2>2. live = [p \in Pids |-> live[p]]
    BY <1>0 DEF Window!AtStart
  <2> QED BY <2>1, <2>2
<1>2. /\ \A p \in Pids : live[p].born = 0 /\ live[p].load = 0 /\ live[p].cpu = 0
      /\ \A p \in Pids : live[p].image = "boundary" => p = 1
      /\ live[3].image = "tool" /\ live[3].parent = 2 /\ live[2].parent = 1
  BY <1>b, <1>c, <1>d, <1>e, <1>f
<1>3. probe \in ProbeType
  BY DEF Window!NoProbe, ProbeType, Stations
<1>4. WindowTypes
  BY <1>1, <1>3 DEF WindowTypes
<1>5. ProcessesInv
  BY <1>2, PidsAre DEF ProcessesInv, Runs
<1>6. probe.at = "ancestry" /\ probe.polls = 0 /\ probe.initial = {} /\ probe.last = {}
      /\ probe.approved = {}
  BY DEF Window!NoProbe
<1>7. ChainInv /\ SnapshotInv /\ LoadInv /\ LastInv /\ HotInv /\ QuietInv
  BY <1>2, <1>6 DEF ChainInv, SnapshotInv, LoadInv, LastInv, HotInv, QuietInv, Measured
<1> QED BY <1>4, <1>5, <1>7 DEF WindowInv

(* A step of the other processes, whatever it is: each goes on, perhaps     *)
(* computing, or has ended, or is new.                                      *)
GoesOn(p) ==
    /\ Runs(p)
    /\ live'[p].image = live[p].image /\ live'[p].parent = live[p].parent
    /\ live'[p].born = live[p].born /\ live'[p].open = live[p].open
    /\ \E d \in Nat : live'[p].cpu = live[p].cpu + d /\ live'[p].load = live[p].load + d
IsNew(p) ==
    /\ live'[p].image = "tool" /\ live'[p].born = wall /\ wall < wall'
    /\ live'[p].cpu = 0 /\ live'[p].load = 0

MovesOn ==
    /\ live' \in [Pids -> ProcessType] /\ wall' \in Nat /\ wall' >= wall
    /\ \A p \in Pids : live'[p].image # "none" => GoesOn(p) \/ IsNew(p)
    /\ GoesOn(3)
    /\ settings' \in {0, 1} /\ events' \in Nat /\ hot' = hot
    /\ probe' \in ProbeType
    /\ probe'.at = probe.at /\ probe'.chain = probe.chain /\ probe'.approved = probe.approved
    /\ probe'.opened = probe.opened /\ probe'.settings = probe.settings
    /\ probe'.listed = probe.listed /\ probe'.initial = probe.initial
    /\ probe'.last = probe.last /\ probe'.polls = probe.polls

LEMMA MovingKeeps ==
    ASSUME WindowInv, MovesOn, probe.at # "quiet" PROVE WindowInv'
<1>1. WindowTypes /\ wall \in Nat /\ wall >= 1 /\ live \in [Pids -> ProcessType]
  BY DEF WindowInv, WindowTypes
<1>2. \A o \in probe.initial \cup probe.last : o.pid \in Pids /\ o.born \in Nat /\ o.cpu \in Nat
  BY <1>1 DEF WindowTypes, ProbeType, Observation
<1>3. \A p \in Pids : /\ live[p].born \in Nat /\ live[p].cpu \in Nat /\ live[p].load \in Nat
                       /\ live'[p].born \in Nat /\ live'[p].cpu \in Nat /\ live'[p].load \in Nat
  BY <1>1 DEF MovesOn, ProcessType
<1>4. WindowTypes'
  BY <1>1 DEF WindowTypes, MovesOn
<1>5. ProcessesInv'
  BY <1>1, <1>3, PidsAre DEF WindowInv, ProcessesInv, MovesOn, GoesOn, IsNew, Runs
<1>6. ChainInv'
  BY <1>1, <1>3, PidsAre DEF WindowInv, ChainInv, MovesOn, GoesOn, IsNew, Runs
<1>7. SnapshotInv'
  <2>1. probe.opened \in Nat
    BY <1>1 DEF WindowTypes, ProbeType
  <2>2. SnapshotInv
    BY DEF WindowInv
  <2> QED BY <1>1, <1>2, <1>3, <2>1, <2>2 DEF SnapshotInv, MovesOn, GoesOn, IsNew, Runs, Measured
<1>8. LoadInv'
  <2>1. LoadInv /\ \A f \in probe.initial : f.born < wall
    BY DEF WindowInv, SnapshotInv
  <2>2. SUFFICES ASSUME NEW p \in Pids, live'[p].image # "none"
                 PROVE  /\ \A f \in probe.initial :
                             f.pid = p /\ f.born = live'[p].born =>
                                 live'[p].cpu = f.cpu + live'[p].load
                        /\ live'[p].load <= live'[p].cpu
    BY DEF LoadInv, MovesOn, Runs
  <2>3. CASE IsNew(p)
    BY <1>1, <1>2, <2>1, <2>3 DEF IsNew
  <2>4. CASE GoesOn(p)
    <3>1. PICK d \in Nat : live'[p].cpu = live[p].cpu + d /\ live'[p].load = live[p].load + d
      BY <2>4 DEF GoesOn
    <3>2. /\ \A f \in probe.initial :
               f.pid = p /\ f.born = live[p].born => live[p].cpu = f.cpu + live[p].load
          /\ live[p].load <= live[p].cpu /\ live'[p].born = live[p].born
      BY <2>1, <2>4 DEF LoadInv, GoesOn
    <3> QED BY <1>2, <1>3, <3>1, <3>2
  <2> QED BY <2>2, <2>3, <2>4 DEF MovesOn
<1>9. LastInv'
  <2>1. LastInv
    BY DEF WindowInv
  <2> QED BY <1>1, <1>2, <1>3, <2>1 DEF LastInv, MovesOn, GoesOn, IsNew, Runs, SeenFirst, SameProcess
<1>10. HotInv'
  BY DEF WindowInv, HotInv, MovesOn, Exceeds, SeenFirst, SameProcess
<1>11. QuietInv'
  BY DEF QuietInv, MovesOn
<1> QED BY <1>4, <1>5, <1>6, <1>7, <1>8, <1>9, <1>10, <1>11 DEF WindowInv

LEMMA WorldMoves ==
    ASSUME WindowTypes, ProcessesInv, Window!World PROVE MovesOn /\ probe.at # "quiet"
<1>1. /\ live \in [Pids -> ProcessType] /\ wall \in Nat /\ events \in Nat /\ settings \in {0, 1}
      /\ probe \in ProbeType /\ Runs(3)
  BY DEF WindowTypes, ProcessesInv
<1>2. probe.at # "quiet" /\ events' \in Nat /\ hot' = hot
  BY <1>1 DEF Window!World, Window!Measuring
<1> DEFINE SameProbe ==
      /\ probe' \in ProbeType
      /\ probe'.at = probe.at /\ probe'.chain = probe.chain /\ probe'.approved = probe.approved
      /\ probe'.opened = probe.opened /\ probe'.settings = probe.settings
      /\ probe'.listed = probe.listed /\ probe'.initial = probe.initial
      /\ probe'.last = probe.last /\ probe'.polls = probe.polls
<1>3. UNCHANGED probe => SameProbe
  BY <1>1
<1>4. \A q \in Pids : live[q].cpu + 0 = live[q].cpu /\ live[q].load + 0 = live[q].load
  BY <1>1 DEF ProcessType
<1>5. \A q \in Pids : live'[q] = live[q] /\ Runs(q) => GoesOn(q)
  BY <1>4 DEF GoesOn
<1>6. ASSUME NEW p \in Pids, NEW parent \in Pids, NEW open \in BOOLEAN,
             Window!Start(p, parent, open), UNCHANGED probe
      PROVE  MovesOn
  <2> DEFINE new == [image |-> "tool", parent |-> parent, born |-> wall, open |-> open,
                     cpu |-> 0, load |-> 0]
  <2>1. /\ ~Runs(p) /\ live' = [live EXCEPT ![p] = new] /\ wall' = wall + 1 /\ settings' = settings
    BY <1>6 DEF Window!Start, Window!Process, Window!Running, Runs
  <2>2. new \in ProcessType
    BY <1>1 DEF ProcessType, Images
  <2>3. live' \in [Pids -> ProcessType] /\ live'[p] = new /\ \A q \in Pids \ {p} : live'[q] = live[q]
    BY <1>1, <2>1, <2>2
  <2>4. IsNew(p)
    BY <1>1, <2>1, <2>3 DEF IsNew
  <2>5. GoesOn(3)
    BY <1>1, <1>5, <2>1, <2>3, PidsAre
  <2>6. \A q \in Pids : live'[q].image # "none" => GoesOn(q) \/ IsNew(q)
    BY <1>5, <2>3, <2>4 DEF Runs
  <2> HIDE DEF new
  <2> QED BY <1>1, <1>2, <1>3, <1>6, <2>1, <2>3, <2>5, <2>6 DEF MovesOn
<1>7. ASSUME NEW p \in Pids, Window!End(p), UNCHANGED probe PROVE MovesOn
  <2>1. /\ live' = [live EXCEPT ![p] = Window!NoProcess] /\ wall' = wall /\ settings' = settings
        /\ p # 3
    BY <1>7 DEF Window!End, Window!Verifier
  <2>2. Window!NoProcess \in ProcessType /\ Window!NoProcess.image = "none"
    BY DEF Window!NoProcess, ProcessType, Images
  <2>3. /\ live' \in [Pids -> ProcessType] /\ live'[p].image = "none"
        /\ \A q \in Pids \ {p} : live'[q] = live[q]
    BY <1>1, <2>1, <2>2
  <2>4. GoesOn(3) /\ \A q \in Pids : live'[q].image # "none" => GoesOn(q) \/ IsNew(q)
    BY <1>1, <1>5, <2>1, <2>3, PidsAre DEF Runs
  <2> QED BY <1>1, <1>2, <1>3, <1>7, <2>1, <2>3, <2>4 DEF MovesOn
<1>8. ASSUME NEW p \in Pids, NEW slices \in 1 .. 2, Window!Compute(p, slices),
             probe' = [probe EXCEPT !.busy = @ + slices]
      PROVE  MovesOn
  <2> DEFINE busier == [live[p] EXCEPT !.cpu = @ + slices, !.load = @ + slices]
  <2>1. Runs(p) /\ live' = [live EXCEPT ![p] = [live[p] EXCEPT !.cpu = live[p].cpu + slices, !.load = live[p].load + slices]] /\ wall' = wall /\ settings' = settings
    BY <1>8 DEF Window!Compute, Window!Running, Runs
  <2>2. live[p] \in ProcessType
    BY <1>1
  <2>3. /\ busier \in ProcessType /\ busier.image = live[p].image
        /\ busier.parent = live[p].parent /\ busier.born = live[p].born
        /\ busier.open = live[p].open /\ busier.cpu = live[p].cpu + slices
        /\ busier.load = live[p].load + slices
    <3>1. PICK old \in ProcessType : old = live[p]
      BY <2>2
    <3>2. old.cpu + slices \in Nat /\ old.load + slices \in Nat
      BY DEF ProcessType
    <3>3. PICK c \in Nat, l \in Nat : c = old.cpu + slices /\ l = old.load + slices
      BY <3>2
    <3>4. busier = [[old EXCEPT !.cpu = c] EXCEPT !.load = l]
      BY <3>1, <3>3
    <3> HIDE DEF busier
    <3> QED BY <3>1, <3>3, <3>4 DEF ProcessType
  <2>4. /\ live' \in [Pids -> ProcessType] /\ live'[p] = busier
        /\ \A q \in Pids \ {p} : live'[q] = live[q]
    BY <1>1, <2>1, <2>3
  <2> HIDE DEF busier
  <2>5. GoesOn(p)
    BY <2>1, <2>3, <2>4 DEF GoesOn
  <2>6. GoesOn(3) /\ \A q \in Pids : live'[q].image # "none" => GoesOn(q) \/ IsNew(q)
    BY <1>1, <1>5, <2>4, <2>5, PidsAre DEF Runs
  <2>7. SameProbe
    BY <1>1, <1>8 DEF ProbeType
  <2> QED BY <1>1, <1>2, <2>1, <2>4, <2>6, <2>7 DEF MovesOn
<1>9. ASSUME Window!ChangeSettings, UNCHANGED probe PROVE MovesOn
  <2>1. live' = live /\ wall' = wall /\ settings' \in {0, 1}
    BY <1>1, <1>9 DEF Window!ChangeSettings
  <2>2. GoesOn(3) /\ \A q \in Pids : live'[q].image # "none" => GoesOn(q) \/ IsNew(q)
    BY <1>1, <1>5, <2>1, PidsAre DEF Runs
  <2> QED BY <1>1, <1>2, <1>3, <1>9, <2>1, <2>2 DEF MovesOn
<1> QED BY <1>2, <1>6, <1>7, <1>8, <1>9 DEF Window!World

Below == OpToRel(<, Nat)

(* A set of natural numbers has a least member. *)
LEMMA LeastOf ==
    ASSUME NEW S, \A m \in S : m \in Nat, S # {}
    PROVE  \E n \in S : \A m \in S : n <= m
<1>1. IsWellFoundedOn(Below, Nat)
  BY NatLessThanWellFounded DEF Below, OpToRel
<1>2. IsWellFoundedOn(Below, S)
  BY <1>1, IsWellFoundedOnSubset
<1>3. PICK n \in S : \A m \in S : ~ (<<m, n>> \in Below)
  BY <1>2, WFMin
<1>4. ASSUME NEW m \in S PROVE n <= m
  <2>1. <<m, n>> \notin Below /\ n \in Nat /\ m \in Nat
    BY <1>3
  <2>2. ~ (m < n)
    BY <2>1 DEF Below, OpToRel
  <2> QED BY <2>1, <2>2
<1> QED BY <1>4

(* The walk of verifier_ancestry_process_ids, so many steps up.             *)
Up(table, p) == IF p \in DOMAIN table THEN table[p].parent ELSE 0
Walks(f, table, d) == f = [n \in 0 .. d |-> IF n = 0 THEN 3 ELSE Up(table, f[n - 1])]

LEMMA WalkGrows ==
    ASSUME NEW table, NEW d \in Nat, NEW f, Walks(f, table, d)
    PROVE  \E g : Walks(g, table, d + 1)
<1> DEFINE g == [n \in 0 .. d + 1 |-> IF n = d + 1 THEN Up(table, f[d]) ELSE f[n]]
<1>1. \A n \in 0 .. d : f[n] = IF n = 0 THEN 3 ELSE Up(table, f[n - 1])
  BY DEF Walks
<1>2. \A n \in 0 .. d + 1 : g[n] = IF n = 0 THEN 3 ELSE Up(table, g[n - 1])
  <2>1. SUFFICES ASSUME NEW n \in 0 .. d + 1
                 PROVE  g[n] = IF n = 0 THEN 3 ELSE Up(table, g[n - 1])
    OBVIOUS
  <2>2. CASE n = d + 1
    <3>1. n # 0 /\ n - 1 = d /\ d \in 0 .. d + 1 /\ d # d + 1
      BY <2>2
    <3> QED BY <2>2, <3>1
  <2>3. CASE n # d + 1 /\ n # 0
    <3>1. n \in 0 .. d /\ n - 1 \in 0 .. d + 1 /\ n - 1 # d + 1
      BY <2>3
    <3> QED BY <1>1, <2>3, <3>1
  <2>4. CASE n # d + 1 /\ n = 0
    BY <1>1, <2>4
  <2> QED BY <2>2, <2>3, <2>4
<1>3. Walks(g, table, d + 1)
  <2>1. g = [n \in 0 .. d + 1 |-> g[n]]
    OBVIOUS
  <2> HIDE DEF g
  <2> QED BY <1>2, <2>1 DEF Walks
<1> QED BY <1>3

LEMMA WalkExists ==
    ASSUME NEW table, NEW d \in Nat PROVE \E f : Walks(f, table, d)
<1> DEFINE Missing == {n \in Nat : ~\E f : Walks(f, table, n)}
<1>1. ASSUME Missing # {} PROVE FALSE
  <2>1. PICK n \in Missing : \A m \in Missing : n <= m
    BY <1>1, LeastOf
  <2>2. CASE n = 0
    <3> DEFINE f == [m \in 0 .. 0 |-> 3]
    <3>1. Walks(f, table, 0)
      BY DEF Walks
    <3> QED BY <2>1, <2>2, <3>1
  <2>3. CASE n # 0
    <3>1. n - 1 \in Nat /\ n - 1 \notin Missing /\ (n - 1) + 1 = n
      BY <2>1, <2>3
    <3>2. PICK f : Walks(f, table, n - 1)
      BY <3>1
    <3>3. \E g : Walks(g, table, (n - 1) + 1)
      BY <3>1, <3>2, WalkGrows
    <3> QED BY <2>1, <3>1, <3>3
  <2> QED BY <2>2, <2>3
<1> QED BY <1>1

(* A chain that reaches the desktop through the verifier's own launcher has *)
(* nobody else in it.                                                       *)
LEMMA OwnChain ==
    ASSUME WindowTypes, ProcessesInv, Runs(2), live[2].born = 0
    PROVE  Window!VerifierAncestry(Window!Table) \subseteq {2, 3}
<1> DEFINE table == Window!Table
           d == AncestryLimit - 1
           walk == CHOOSE f : Walks(f, table, d)
           image(n) == IF walk[n] \in DOMAIN table THEN table[walk[n]].image ELSE "none"
           arrived == {n \in 0 .. d : /\ image(n) = "boundary"
                                      /\ \A m \in 0 .. (n - 1) :
                                            image(m) \notin {"none", "python", "boundary"}}
<1>1. Window!VerifierAncestry(table) = UNION {{walk[m] : m \in 0 .. (n - 1)} : n \in arrived}
  BY DEF Window!VerifierAncestry, Walks, Up, Window!Verifier
<1>2. DOMAIN table = {q \in Pids : Runs(q)} /\ \A q \in DOMAIN table :
           table[q].image = live[q].image /\ table[q].parent = live[q].parent
  BY DEF Window!Table, Window!Running, Runs
<1>3. d \in Nat
  BY PidsAre
<1>4. Walks(walk, table, d)
  BY <1>3, WalkExists
<1> HIDE DEF walk, d, table
<1>5. \A n \in 0 .. d : walk[n] = IF n = 0 THEN 3 ELSE Up(table, walk[n - 1])
  BY <1>4 DEF Walks
<1>6. /\ walk[0] = 3
      /\ 1 <= d => walk[1] = 2
      /\ 2 <= d => walk[2] = 1
  <2>1. 3 \in DOMAIN table /\ table[3].parent = 2 /\ 2 \in DOMAIN table /\ table[2].parent = 1
    BY <1>2, PidsAre DEF ProcessesInv
  <2>2. walk[0] = 3
    BY <1>3, <1>5
  <2>3. 1 <= d => walk[1] = 2
    BY <1>3, <1>5, <2>1, <2>2 DEF Up
  <2>4. ASSUME 2 <= d PROVE walk[2] = 1
    <3>1. 1 <= d /\ 2 \in 0 .. d /\ 2 # 0 /\ 2 - 1 = 1
      BY <1>3, <2>4
    <3> QED BY <1>5, <2>1, <2>3, <3>1 DEF Up
  <2> QED BY <2>2, <2>3, <2>4
<1>7. ASSUME NEW n \in arrived PROVE n <= 2
  <2>1. SUFFICES ASSUME 3 <= n PROVE FALSE
    BY <1>3
  <2>2. n \in 0 .. d /\ 2 <= d /\ 2 \in 0 .. (n - 1)
    BY <1>3, <1>7, <2>1
  <2>3. walk[n] \in DOMAIN table /\ table[walk[n]].image = "boundary"
    BY <1>7
  <2>4. walk[n] = 1
    BY <1>2, <2>3 DEF ProcessesInv
  <2>5. image(2) # "boundary"
    BY <1>7, <2>2
  <2> QED BY <1>6, <2>2, <2>3, <2>4, <2>5
<1>8. ASSUME NEW n \in arrived, NEW m \in 0 .. (n - 1) PROVE walk[m] \in {2, 3}
  <2>1. n \in 0 .. d /\ n <= 2
    BY <1>7, <1>8
  <2>2. m = 0 \/ (m = 1 /\ 1 <= d)
    BY <1>3, <2>1
  <2> QED BY <1>6, <2>2
<1> QED BY <1>1, <1>8 DEF table

(* Every member of a chain is listed.                                       *)
LEMMA ChainRuns == Window!VerifierAncestry(Window!Table) \subseteq Pids
<1> DEFINE table == Window!Table
           d == AncestryLimit - 1
           walk == CHOOSE f : Walks(f, table, d)
           image(n) == IF walk[n] \in DOMAIN table THEN table[walk[n]].image ELSE "none"
           arrived == {n \in 0 .. d : /\ image(n) = "boundary"
                                      /\ \A m \in 0 .. (n - 1) :
                                            image(m) \notin {"none", "python", "boundary"}}
<1>1. Window!VerifierAncestry(table) = UNION {{walk[m] : m \in 0 .. (n - 1)} : n \in arrived}
  BY DEF Window!VerifierAncestry, Walks, Up, Window!Verifier
<1>2. DOMAIN table \subseteq Pids
  BY DEF Window!Table
<1> HIDE DEF walk, d, table
<1>3. ASSUME NEW n \in arrived, NEW m \in 0 .. (n - 1) PROVE walk[m] \in DOMAIN table
  BY <1>3
<1> QED BY <1>1, <1>2, <1>3 DEF table

-----------------------------------------------------------------------------
(* The steps of measure_isolation.                                          *)
ProbeKept ==
    /\ live' = live /\ wall' = wall /\ events' = events /\ settings' = settings

LEMMA ListAncestryKeeps ==
    ASSUME WindowInv, Window!ListAncestry PROVE WindowInv'
<1>1. ProbeKept /\ hot' = hot /\ probe.at = "ancestry" /\ probe \in ProbeType
  BY DEF Window!ListAncestry, Window!world, ProbeKept, WindowInv, WindowTypes
<1>2. PICK chain : chain = Window!VerifierAncestry(Window!Table)
                   /\ probe' = IF chain = {} THEN [probe EXCEPT !.at = "refused"]
                               ELSE [probe EXCEPT !.at = "approve", !.chain = chain]
  BY DEF Window!ListAncestry, Window!Refuse
<1>3. probe.polls = 0 /\ probe.initial = {} /\ probe.last = {} /\ hot = {}
  BY <1>1 DEF WindowInv, SnapshotInv
<1>4. chain \subseteq Pids
  BY <1>2, ChainRuns
<1>5. /\ probe' \in ProbeType /\ probe'.at \in {"refused", "approve"}
      /\ probe'.at = "approve" => probe'.chain = chain
      /\ probe'.approved = probe.approved /\ probe'.opened = probe.opened
      /\ probe'.settings = probe.settings /\ probe'.listed = probe.listed
      /\ probe'.initial = probe.initial /\ probe'.last = probe.last /\ probe'.polls = probe.polls
  BY <1>1, <1>2, <1>4 DEF ProbeType, Stations
<1>6. WindowTypes'
  BY <1>1, <1>5 DEF WindowInv, WindowTypes, ProbeKept
<1>7. ProcessesInv'
  BY <1>1 DEF WindowInv, ProcessesInv, ProbeKept, Runs
<1>8. ChainInv'
  BY <1>1, <1>2, <1>5, OwnChain DEF WindowInv, ChainInv, ProbeKept, Runs
<1>9. SnapshotInv' /\ LoadInv' /\ LastInv' /\ HotInv' /\ QuietInv'
  BY <1>1, <1>3, <1>5 DEF WindowInv, SnapshotInv, LoadInv, LastInv, HotInv, QuietInv,
                          ProbeKept, Runs, Measured
<1> QED BY <1>6, <1>7, <1>8, <1>9 DEF WindowInv

LEMMA ApproveAncestryKeeps ==
    ASSUME WindowInv, Window!ApproveAncestry PROVE WindowInv'
<1>1. /\ ProbeKept /\ hot' = hot /\ probe.at = "approve" /\ probe \in ProbeType
      /\ live \in [Pids -> ProcessType]
  BY DEF Window!ApproveAncestry, Window!world, ProbeKept, WindowInv, WindowTypes
<1> DEFINE found == {<<p, live[p].born>> : p \in probe.chain}
<1>2. \/ (\A p \in probe.chain : Runs(p)) /\ probe' = [probe EXCEPT !.at = "open", !.approved = found]
      \/ probe' = [probe EXCEPT !.at = "refused"]
  BY DEF Window!ApproveAncestry, Window!Refuse, Window!Running, Runs
<1>3. probe.polls = 0 /\ probe.initial = {} /\ probe.last = {} /\ hot = {}
  BY <1>1 DEF WindowInv, SnapshotInv
<1>4. found \subseteq Pids \X Nat
  BY <1>1 DEF ProbeType, ProcessType
<1>5. \A h \in found : h[1] \in probe.chain /\ h[2] = live[h[1]].born
  OBVIOUS
<1> HIDE DEF found
<1>6. /\ probe' \in ProbeType /\ probe'.at \in {"refused", "open"}
      /\ \/ probe'.approved = found /\ \A p \in probe.chain : Runs(p)
         \/ probe'.approved = probe.approved
      /\ probe'.opened = probe.opened
      /\ probe'.settings = probe.settings /\ probe'.listed = probe.listed
      /\ probe'.initial = probe.initial /\ probe'.last = probe.last /\ probe'.polls = probe.polls
  <2>1. CASE probe' = [probe EXCEPT !.at = "refused"]
    BY <1>1, <2>1 DEF ProbeType, Stations
  <2>2. CASE /\ \A p \in probe.chain : Runs(p)
             /\ probe' = [probe EXCEPT !.at = "open", !.approved = found]
    <3>1. PICK approved \in SUBSET (Pids \X Nat) : approved = found
      BY <1>4
    <3> QED BY <1>1, <2>2, <3>1 DEF ProbeType, Stations
  <2> QED BY <1>2, <2>1, <2>2
<1>7. WindowTypes'
  BY <1>1, <1>6 DEF WindowInv, WindowTypes, ProbeKept
<1>8. ProcessesInv'
  BY <1>1 DEF WindowInv, ProcessesInv, ProbeKept, Runs
<1>9. ASSUME <<2, 0>> \in found, \A p \in probe.chain : Runs(p), NEW h \in found
      PROVE  h = <<2, 0>> \/ h[1] = 3
  <2>1. 2 \in probe.chain /\ live[2].born = 0 /\ Runs(2)
    BY <1>5, <1>9
  <2>2. probe.chain \subseteq {2, 3}
    BY <1>1, <2>1 DEF WindowInv, ChainInv
  <2>3. h = <<h[1], h[2]>>
    BY <1>4, <1>9
  <2> QED BY <1>5, <1>9, <2>1, <2>2, <2>3
<1>10. ChainInv'
  BY <1>6, <1>9 DEF WindowInv, ChainInv
<1>11. SnapshotInv' /\ LoadInv' /\ LastInv' /\ HotInv' /\ QuietInv'
  BY <1>1, <1>3, <1>6 DEF WindowInv, SnapshotInv, LoadInv, LastInv, HotInv, QuietInv,
                          ProbeKept, Runs, Measured
<1> QED BY <1>7, <1>8, <1>10, <1>11 DEF WindowInv

LEMMA OpenWindowKeeps ==
    ASSUME WindowInv, Window!OpenWindow PROVE WindowInv'
<1>1. /\ ProbeKept /\ hot' = hot /\ probe.at = "open" /\ probe \in ProbeType /\ wall \in Nat
      /\ settings \in {0, 1}
      /\ probe' = [probe EXCEPT !.at = "list", !.opened = wall, !.settings = settings, !.busy = 0]
  BY DEF Window!OpenWindow, Window!world, ProbeKept, WindowInv, WindowTypes
<1>2. probe.polls = 0 /\ probe.initial = {} /\ probe.last = {} /\ hot = {}
  BY <1>1 DEF WindowInv, SnapshotInv
<1>3. /\ probe' \in ProbeType /\ probe'.at = "list" /\ probe'.approved = probe.approved
      /\ probe'.opened = wall /\ probe'.settings = settings
      /\ probe'.initial = probe.initial /\ probe'.last = probe.last /\ probe'.polls = probe.polls
  BY <1>1 DEF ProbeType, Stations
<1>4. WindowTypes'
  BY <1>1, <1>3 DEF WindowInv, WindowTypes, ProbeKept
<1>5. ProcessesInv' /\ ChainInv'
  BY <1>1, <1>3 DEF WindowInv, ProcessesInv, ChainInv, ProbeKept, Runs
<1>6. SnapshotInv' /\ LoadInv' /\ LastInv' /\ HotInv' /\ QuietInv'
  BY <1>1, <1>2, <1>3 DEF WindowInv, SnapshotInv, LoadInv, LastInv, HotInv, QuietInv,
                          ProbeKept, Runs, Measured
<1> QED BY <1>4, <1>5, <1>6 DEF WindowInv

LEMMA ListProcessesKeeps ==
    ASSUME WindowInv, Window!ListProcesses PROVE WindowInv'
<1>1. /\ ProbeKept /\ hot' = hot /\ probe.at = "list" /\ probe \in ProbeType
      /\ probe' = [probe EXCEPT !.at = "read", !.listed = {p \in Pids : Runs(p)}]
  BY DEF Window!ListProcesses, Window!world, Window!Running, Runs, ProbeKept, WindowInv, WindowTypes
<1>2. /\ probe' \in ProbeType /\ probe'.at = "read" /\ probe'.approved = probe.approved
      /\ probe'.opened = probe.opened /\ probe'.settings = probe.settings
      /\ probe'.listed = {p \in Pids : Runs(p)}
      /\ probe'.initial = probe.initial /\ probe'.last = probe.last /\ probe'.polls = probe.polls
  BY <1>1 DEF ProbeType, Stations
<1>3. WindowTypes'
  BY <1>1, <1>2 DEF WindowInv, WindowTypes, ProbeKept
<1>4. ProcessesInv' /\ ChainInv'
  BY <1>1, <1>2 DEF WindowInv, ProcessesInv, ChainInv, ProbeKept, Runs
<1>5. SnapshotInv'
  BY <1>1, <1>2 DEF WindowInv, SnapshotInv, ProbeKept, Runs, Measured
<1>6. LoadInv' /\ LastInv'
  BY <1>1, <1>2 DEF WindowInv, LoadInv, LastInv, ProbeKept, Runs, SeenFirst, SameProcess
<1>7. HotInv' /\ QuietInv'
  BY <1>1, <1>2 DEF WindowInv, HotInv, QuietInv, Exceeds, SeenFirst, SameProcess
<1> QED BY <1>3, <1>4, <1>5, <1>6, <1>7 DEF WindowInv

(* What a snapshot sees: one observation of each process that was listed,   *)
(* still runs and can be opened.                                            *)
LEMMA SnapshotSees ==
    ASSUME WindowInv
    PROVE  /\ \A s \in Window!Observed :
                /\ s \in Observation /\ Runs(s.pid)
                /\ s.born = live[s.pid].born /\ s.cpu = live[s.pid].cpu /\ live[s.pid].open
           /\ \A p \in probe.listed : Runs(p) /\ live[p].open =>
                \E s \in Window!Observed : s.pid = p /\ s.born = live[p].born
<1>1. live \in [Pids -> ProcessType] /\ probe.listed \subseteq Pids
  BY DEF WindowInv, WindowTypes, ProbeType
<1> DEFINE row(p) == [pid |-> p, born |-> live[p].born, cpu |-> live[p].cpu]
<1>2. Window!Observed = {row(p) : p \in {q \in probe.listed : Runs(q) /\ live[q].open}}
  BY DEF Window!Observed, Window!Running, Runs
<1>3. ASSUME NEW s \in Window!Observed
      PROVE  /\ s \in Observation /\ Runs(s.pid)
             /\ s.born = live[s.pid].born /\ s.cpu = live[s.pid].cpu /\ live[s.pid].open
  <2>1. PICK p \in probe.listed : Runs(p) /\ live[p].open /\ s = row(p)
    BY <1>2
  <2>2. p \in Pids /\ live[p].born \in Nat /\ live[p].cpu \in Nat
    BY <1>1 DEF ProcessType
  <2> QED BY <2>1, <2>2 DEF Observation
<1>4. ASSUME NEW p \in probe.listed, Runs(p), live[p].open
      PROVE  \E s \in Window!Observed : s.pid = p /\ s.born = live[p].born
  <2>1. row(p) \in Window!Observed
    BY <1>2, <1>4
  <2> QED BY <2>1
<1> QED BY <1>3, <1>4

LEMMA SameIdentity ==
    ASSUME NEW o, NEW s
    PROVE  Window!Identity(o) = Window!Identity(s) <=> SameProcess(o, s)
BY DEF Window!Identity, SameProcess

LEMMA FirstReadKeeps ==
    ASSUME WindowInv, Window!ReadCounters, probe.polls = 0 PROVE WindowInv'
<1> DEFINE seen == Window!Observed
<1>1. /\ wall' = wall /\ events' = events /\ settings' = settings /\ hot' = hot
      /\ probe.at = "read" /\ probe \in ProbeType /\ live \in [Pids -> ProcessType]
      /\ probe' = [probe EXCEPT !.at = "list", !.initial = seen, !.first = seen,
                                !.last = seen, !.polls = 1]
      /\ live' = [p \in Pids |-> [live[p] EXCEPT !.load = 0]]
  BY DEF Window!ReadCounters, WindowInv, WindowTypes
<1>2. /\ \A s \in seen : /\ s \in Observation /\ Runs(s.pid)
                         /\ s.born = live[s.pid].born /\ s.cpu = live[s.pid].cpu /\ live[s.pid].open
      /\ \A p \in probe.listed : Runs(p) /\ live[p].open =>
             \E s \in seen : s.pid = p /\ s.born = live[p].born
  BY SnapshotSees
<1> HIDE DEF seen
<1>3. /\ live' \in [Pids -> ProcessType]
      /\ \A p \in Pids : /\ live'[p].image = live[p].image /\ live'[p].parent = live[p].parent
                         /\ live'[p].born = live[p].born /\ live'[p].open = live[p].open
                         /\ live'[p].cpu = live[p].cpu /\ live'[p].load = 0
  <2>1. ASSUME NEW p \in Pids
        PROVE  /\ live'[p] \in ProcessType
               /\ live'[p].image = live[p].image /\ live'[p].parent = live[p].parent
               /\ live'[p].born = live[p].born /\ live'[p].open = live[p].open
               /\ live'[p].cpu = live[p].cpu /\ live'[p].load = 0
    <3>1. live'[p] = [live[p] EXCEPT !.load = 0] /\ live[p] \in ProcessType
      BY <1>1
    <3> QED BY <3>1 DEF ProcessType
  <2>2. live' = [p \in Pids |-> live'[p]]
    BY <1>1
  <2> QED BY <2>1, <2>2
<1>4. seen \in SUBSET Observation
  BY <1>2
<1>5. /\ probe' \in ProbeType /\ probe'.at = "list" /\ probe'.approved = probe.approved
      /\ probe'.opened = probe.opened /\ probe'.settings = probe.settings
      /\ probe'.initial = seen /\ probe'.last = seen /\ probe'.polls = 1
  BY <1>1, <1>4 DEF ProbeType, Stations
<1>6. hot = {} /\ wall \in Nat /\ probe.opened \in Nat
  BY <1>1 DEF WindowInv, WindowTypes, SnapshotInv, ProbeType
<1>7. WindowTypes'
  BY <1>1, <1>3, <1>5 DEF WindowInv, WindowTypes
<1>8. \A p \in Pids : Runs(p)' = Runs(p)
  BY <1>3 DEF Runs
<1>9. \A s \in seen : s.pid \in Pids /\ s.born \in Nat /\ s.cpu \in Nat
  BY <1>4 DEF Observation
<1>10. ProcessesInv'
  BY <1>1, <1>3, PidsAre DEF WindowInv, ProcessesInv, Runs
<1>11. ChainInv'
  BY <1>5 DEF WindowInv, ChainInv
<1>12. SnapshotInv'
  <2>1. \A f, g \in seen : f.pid = g.pid => f = g
    BY <1>2, <1>4 DEF Observation
  <2>2. \A f \in seen : f.born < wall
    BY <1>2, <1>9 DEF WindowInv, ProcessesInv
  <2>3. probe.opened <= wall
    BY <1>1 DEF WindowInv, SnapshotInv, Measured
  <2>4. \A p \in Pids : Runs(p) /\ live[p].born < probe.opened => p \in probe.listed
    BY <1>1 DEF WindowInv, SnapshotInv
  <2> QED BY <1>1, <1>2, <1>3, <1>5, <2>1, <2>2, <2>3, <2>4 DEF SnapshotInv, Measured, Runs
<1>13. LoadInv'
  <2>1. \A p \in Pids : live[p].cpu \in Nat
    BY <1>1 DEF ProcessType
  <2> QED BY <1>2, <1>3, <1>5, <1>9, <2>1 DEF LoadInv, Runs
<1>14. LastInv'
  <2>1. \A s \in seen : s.born < wall
    BY <1>2, <1>9 DEF WindowInv, ProcessesInv
  <2> QED BY <1>1, <1>2, <1>3, <1>5, <1>9, <2>1 DEF LastInv, SeenFirst, SameProcess, Runs
<1>15. HotInv' /\ QuietInv'
  BY <1>1, <1>5, <1>6 DEF HotInv, QuietInv
<1> QED BY <1>7, <1>10, <1>11, <1>12, <1>13, <1>14, <1>15 DEF WindowInv

LEMMA LaterReadKeeps ==
    ASSUME WindowInv, Window!ReadCounters, probe.polls # 0 PROVE WindowInv'
<1> DEFINE seen == Window!Observed
           last == Window!KeepLast(probe.last, seen)
           first == Window!KeepFirst(probe.first, seen)
           exceeding == {Window!Identity(o) : o \in {s \in seen : live[s.pid].load > CoreLimit}}
<1>1. /\ wall' = wall /\ events' = events /\ settings' = settings /\ live' = live
      /\ probe.at = "read" /\ probe \in ProbeType /\ live \in [Pids -> ProcessType]
      /\ probe' = [probe EXCEPT !.at = IF probe.polls = Polls THEN "judge" ELSE "list",
                                !.first = first, !.last = last, !.polls = probe.polls + 1]
      /\ hot' = hot \cup exceeding
  BY DEF Window!ReadCounters, WindowInv, WindowTypes
<1>2. \A s \in seen : /\ s \in Observation /\ Runs(s.pid)
                      /\ s.born = live[s.pid].born /\ s.cpu = live[s.pid].cpu /\ live[s.pid].open
  BY SnapshotSees
<1> HIDE DEF seen
<1>3. /\ \A o \in last : o \in seen \/ o \in probe.last
      /\ \A s \in seen : s \in last
      /\ \A o \in probe.last : o \in last \/ \E s \in seen : SameProcess(o, s)
  <2>1. last = seen \cup {o \in probe.last :
                           \A s \in seen : Window!Identity(s) # Window!Identity(o)}
    BY DEF Window!KeepLast
  <2>2. ASSUME NEW o \in probe.last, o \notin last PROVE \E s \in seen : SameProcess(o, s)
    <3>1. PICK s \in seen : Window!Identity(s) = Window!Identity(o)
      BY <2>1, <2>2
    <3> QED BY <3>1, SameIdentity
  <2> QED BY <2>1, <2>2
<1>4. \A h \in exceeding : \E s \in seen :
          h = <<s.pid, s.born>> /\ live[s.pid].load > CoreLimit
  BY DEF Window!Identity
<1>5. first \subseteq Observation /\ last \subseteq Observation
  BY <1>1, <1>2 DEF Window!KeepFirst, Window!KeepLast, ProbeType
<1>6. exceeding \subseteq Pids \X Nat
  BY <1>2, <1>4 DEF Observation
<1> HIDE DEF last, first, exceeding
<1>7. /\ probe' \in ProbeType /\ probe'.at \in {"judge", "list"} /\ probe'.approved = probe.approved
      /\ probe'.opened = probe.opened /\ probe'.settings = probe.settings
      /\ probe'.initial = probe.initial /\ probe'.last = last
      /\ probe'.polls \in Nat /\ probe'.polls # 0
  <2>1. PICK at \in {"judge", "list"}, polls \in Nat \ {0} :
             at = (IF probe.polls = Polls THEN "judge" ELSE "list") /\ polls = probe.polls + 1
    BY <1>1 DEF ProbeType
  <2> QED BY <1>1, <1>5, <2>1 DEF ProbeType, Stations
<1>8. WindowTypes'
  BY <1>1, <1>6, <1>7 DEF WindowInv, WindowTypes
<1>9. ProcessesInv' /\ ChainInv'
  BY <1>1, <1>7 DEF WindowInv, ProcessesInv, ChainInv, Runs
<1>10. SnapshotInv'
  BY <1>1, <1>7 DEF WindowInv, SnapshotInv, Measured, Runs
<1>11. LoadInv'
  BY <1>1, <1>7 DEF WindowInv, LoadInv, Runs
<1>12. \A s \in seen : s.pid \in Pids /\ s.born \in Nat /\ s.cpu \in Nat
  BY <1>2 DEF Observation
<1>13. ASSUME NEW s \in seen PROVE SeenFirst(s) \/ s.born >= probe.opened
  <2>1. probe.opened \in Nat
    BY <1>1 DEF ProbeType
  <2>2. live[s.pid].born < probe.opened => \E f \in probe.initial : f.pid = s.pid /\ f.born = s.born
    BY <1>1, <1>2, <1>12 DEF WindowInv, SnapshotInv, Measured
  <2> QED BY <1>2, <1>12, <2>1, <2>2 DEF SeenFirst, SameProcess
<1>14. LastInv'
  <2>1. SUFFICES ASSUME NEW o \in last
                 PROVE  /\ o.born < wall
                        /\ Runs(o.pid) /\ live[o.pid].born = o.born => o.cpu <= live[o.pid].cpu
                        /\ SeenFirst(o) \/ o.born >= probe.opened
    BY <1>1, <1>7 DEF LastInv, SeenFirst, Runs
  <2>2. CASE o \in seen
    BY <1>2, <1>12, <1>13, <2>2 DEF WindowInv, ProcessesInv
  <2>3. CASE o \in probe.last
    BY <2>3 DEF WindowInv, LastInv
  <2> QED BY <1>3, <2>1, <2>2, <2>3
<1>15. \A f \in probe.initial : f.pid \in Pids /\ f.born \in Nat /\ f.cpu \in Nat
  BY <1>1 DEF ProbeType, Observation
<1>16. ASSUME NEW h \in hot' PROVE \E o \in last : o.pid = h[1] /\ o.born = h[2] /\ Exceeds(o)
  <2>1. CASE h \in hot
    <3>1. PICK o \in probe.last : o.pid = h[1] /\ o.born = h[2] /\ Exceeds(o)
      BY <2>1 DEF WindowInv, HotInv
    <3>2. CASE o \in last
      BY <3>1, <3>2
    <3>3. ASSUME NEW s \in seen, SameProcess(o, s) PROVE Exceeds(s) /\ s.pid = h[1] /\ s.born = h[2]
      <4>1. s.pid = o.pid /\ s.born = o.born
        BY <3>3 DEF SameProcess
      <4>2. o.cpu <= s.cpu /\ o.cpu \in Nat
        BY <1>1, <1>2, <3>3, <4>1 DEF WindowInv, LastInv, ProbeType, Observation
      <4>3. SeenFirst(s) <=> SeenFirst(o)
        BY <4>1 DEF SeenFirst, SameProcess
      <4>4. CASE ~SeenFirst(o) /\ o.cpu > CoreLimit
        BY <1>12, <3>1, <4>1, <4>2, <4>3, <4>4, PidsAre DEF Exceeds
      <4>5. CASE \E f \in probe.initial : SameProcess(o, f) /\ o.cpu > f.cpu + CoreLimit
        <5>1. PICK f \in probe.initial : SameProcess(o, f) /\ o.cpu > f.cpu + CoreLimit
          BY <4>5
        <5>2. SameProcess(s, f) /\ s.cpu > f.cpu + CoreLimit
          BY <1>12, <1>15, <4>1, <4>2, <5>1, PidsAre DEF SameProcess
        <5> QED BY <3>1, <4>1, <5>2 DEF Exceeds
      <4> QED BY <3>1, <4>4, <4>5 DEF Exceeds
    <3> QED BY <1>3, <3>1, <3>2, <3>3
  <2>2. CASE h \in exceeding
    <3>1. PICK s \in seen : h = <<s.pid, s.born>> /\ live[s.pid].load > CoreLimit
      BY <1>4, <2>2
    <3>2. live[s.pid].load \in Nat /\ live[s.pid].cpu \in Nat /\ s.pid \in Pids
      BY <1>1, <1>12 DEF ProcessType
    <3>3. CASE SeenFirst(s)
      <4>1. PICK f \in probe.initial : SameProcess(s, f)
        BY <3>3 DEF SeenFirst
      <4>2. live[s.pid].cpu = f.cpu + live[s.pid].load
        BY <1>2, <3>2, <4>1 DEF WindowInv, LoadInv, SameProcess
      <4>3. s.cpu > f.cpu + CoreLimit
        BY <1>2, <1>12, <1>15, <3>1, <3>2, <4>2, PidsAre
      <4> QED BY <1>3, <3>1, <4>1, <4>3 DEF Exceeds
    <3>4. CASE ~SeenFirst(s)
      <4>1. live[s.pid].load <= live[s.pid].cpu
        BY <1>2, <3>2 DEF WindowInv, LoadInv
      <4>2. s.cpu > CoreLimit
        BY <1>2, <1>12, <3>1, <3>2, <4>1, PidsAre
      <4> QED BY <1>3, <3>1, <3>4, <4>2 DEF Exceeds
    <3> QED BY <3>3, <3>4
  <2> QED BY <1>1, <1>16, <2>1, <2>2
<1>17. HotInv' /\ QuietInv'
  BY <1>7, <1>16 DEF HotInv, QuietInv, Exceeds, SeenFirst
<1> QED BY <1>8, <1>9, <1>10, <1>11, <1>14, <1>17 DEF WindowInv

(* Whoever was hot is in the last observations with too high a load, and    *)
(* the verdict finds it competing unless it was approved.                   *)
LEMMA HotLoads ==
    ASSUME WindowInv, NEW o \in probe.last, Exceeds(o) PROVE Window!Load(o) > CoreLimit
<1>1. /\ o.cpu \in Nat /\ o.born \in Nat /\ wall \in Nat /\ probe.opened \in Nat
      /\ \A f \in probe.initial : f.cpu \in Nat
  BY DEF WindowInv, WindowTypes, ProbeType, Observation
<1> DEFINE first == CHOOSE f \in probe.initial : Window!Identity(f) = Window!Identity(o)
<1>2. CASE \E f \in probe.initial : SameProcess(o, f) /\ o.cpu > f.cpu + CoreLimit
  <2>1. PICK f \in probe.initial : SameProcess(o, f) /\ o.cpu > f.cpu + CoreLimit
    BY <1>2
  <2>2. Window!Identity(f) = Window!Identity(o)
    BY <2>1, SameIdentity
  <2>3. first \in probe.initial /\ Window!Identity(first) = Window!Identity(o)
    BY <2>2
  <2>4. first.pid = f.pid
    BY <2>1, <2>3, SameIdentity DEF SameProcess
  <2>5. first = f
    BY <2>1, <2>3, <2>4 DEF WindowInv, SnapshotInv
  <2>6. Window!Load(o) = IF o.cpu < first.cpu THEN 0 ELSE o.cpu - first.cpu
    BY <2>2 DEF Window!Load
  <2> HIDE DEF first
  <2> QED BY <1>1, <2>1, <2>5, <2>6, PidsAre
<1>3. CASE ~SeenFirst(o) /\ o.cpu > CoreLimit
  <2>1. ~\E f \in probe.initial : Window!Identity(f) = Window!Identity(o)
    BY <1>3, SameIdentity DEF SeenFirst
  <2>2. o.born \in probe.opened .. wall
    BY <1>1, <1>3 DEF WindowInv, LastInv
  <2>3. Window!Load(o) = IF o.cpu < 0 THEN 0 ELSE o.cpu - 0
    BY <2>1, <2>2 DEF Window!Load
  <2> QED BY <1>1, <1>3, <2>3, PidsAre
<1> QED BY <1>2, <1>3 DEF Exceeds

LEMMA JudgeKeeps ==
    ASSUME WindowInv, Window!Judge PROVE WindowInv'
<1>1. /\ ProbeKept /\ hot' = hot /\ probe.at = "judge" /\ probe \in ProbeType
      /\ probe' = [probe EXCEPT !.at = IF /\ Window!Competing = {}
                                          /\ probe.busy <= SystemLimit
                                          /\ settings = probe.settings
                                       THEN "quiet" ELSE "busy"]
  BY DEF Window!Judge, Window!world, ProbeKept, WindowInv, WindowTypes
<1>2. /\ probe' \in ProbeType /\ probe'.at \in {"quiet", "busy"} /\ probe'.approved = probe.approved
      /\ probe'.opened = probe.opened /\ probe'.settings = probe.settings
      /\ probe'.initial = probe.initial /\ probe'.last = probe.last /\ probe'.polls = probe.polls
      /\ probe'.at = "quiet" => Window!Competing = {} /\ settings = probe.settings
  BY <1>1 DEF ProbeType, Stations
<1>3. WindowTypes'
  BY <1>1, <1>2 DEF WindowInv, WindowTypes, ProbeKept
<1>4. ProcessesInv' /\ ChainInv'
  BY <1>1, <1>2 DEF WindowInv, ProcessesInv, ChainInv, ProbeKept, Runs
<1>5. SnapshotInv' /\ LoadInv' /\ LastInv'
  BY <1>1, <1>2 DEF WindowInv, SnapshotInv, LoadInv, LastInv, ProbeKept, Runs, Measured,
                    SeenFirst, SameProcess
<1>6. HotInv'
  BY <1>1, <1>2 DEF WindowInv, HotInv, Exceeds, SeenFirst, SameProcess
<1>7. ASSUME Window!Competing = {}, NEW h \in hot
      PROVE  \/ h[1] = 3
             \/ /\ h \in probe.approved
                /\ h = <<2, 0>> \/ <<2, 0>> \notin probe.approved
  <2>1. PICK o \in probe.last : o.pid = h[1] /\ o.born = h[2] /\ Exceeds(o)
    BY DEF WindowInv, HotInv
  <2>2. Window!Load(o) > CoreLimit
    BY <2>1, HotLoads
  <2>3. h = <<h[1], h[2]>>
    BY DEF WindowInv, WindowTypes
  <2>4. Window!Identity(o) = h
    BY <2>1, <2>3 DEF Window!Identity
  <2>5. o.pid = 3 \/ h \in probe.approved
    BY <1>7, <2>2, <2>4 DEF Window!Competing, Window!Verifier
  <2> QED BY <2>1, <2>5 DEF WindowInv, ChainInv
<1>8. QuietInv'
  BY <1>1, <1>2, <1>7 DEF QuietInv, ProbeKept, QualifiedHostWasQuiet, Window!QuietHostHasNoLoad,
     Window!Verifier, Window!OwnLauncher, Window!Launcher
<1> QED BY <1>3, <1>4, <1>5, <1>6, <1>8 DEF WindowInv

FreshlyStarted ==
    /\ live = Window!AtStart("tool") /\ wall = 1 /\ events = 0 /\ settings = 0
    /\ probe = Window!NoProbe /\ hot = {}

(* Every step of the run keeps the window, moves it, or drops it.           *)
LEMMA FreshWindow == FreshlyStarted => WindowInv
BY WindowAtStart DEF FreshlyStarted

LEMMA DroppedWindow ==
    ASSUME DropWindow PROVE WindowInv'
<1>1. FreshlyStarted'
  BY DEF DropWindow, FreshlyStarted
<1> QED BY <1>1, FreshWindow, PTL

LEMMA WindowStays ==
    ASSUME WindowInv, UNCHANGED window PROVE WindowInv'
BY DEF window, WindowInv, WindowTypes, ProcessesInv, ChainInv, SnapshotInv, LoadInv, LastInv,
       HotInv, QuietInv, QualifiedHostWasQuiet, Window!QuietHostHasNoLoad, Runs, Measured,
       SeenFirst, Exceeds

LEMMA WindowAtInit == Init => WindowInv
BY WindowAtStart DEF Init, Window!Init

LEMMA WindowStep ==
    ASSUME WindowInv, [Next]_vars PROVE WindowInv'
<1>1. CASE Ancestry
  BY <1>1, ListAncestryKeeps, ApproveAncestryKeeps DEF Ancestry, Window!Approve
<1>2. CASE Isolate
  BY <1>2, OpenWindowKeeps, ListProcessesKeeps, FirstReadKeeps, LaterReadKeeps, JudgeKeeps
     DEF Isolate, Window!Measure
<1>3. CASE ProcessesMove
  <2>1. WindowTypes /\ ProcessesInv /\ Window!World
    BY <1>3 DEF ProcessesMove, WindowInv
  <2> QED BY <2>1, WorldMoves, MovingKeeps
<1>4. CASE SelectHost \/ QualifyHost \/ Killed
  <2>1. DropWindow \/ UNCHANGED window
    BY <1>4 DEF SelectHost, QualifyHost, Killed
  <2> QED BY <2>1, DroppedWindow, WindowStays
<1>5. ASSUME [Next]_vars, ~(Ancestry \/ Isolate \/ ProcessesMove \/ SelectHost \/ QualifyHost \/ Killed)
      PROVE  UNCHANGED window
  <2>1. CASE Change \/ UNCHANGED vars
    BY <2>1 DEF Change, vars
  <2>2. CASE Admit
    BY <2>2 DEF Admit, ReadSchemas, History, HeadCommit, Tree, Branch, CleanBefore, ManifestBefore,
       Dependency, BeginAttempt, Command, Check
  <2>3. CASE Vswhere \/ BindTranscript \/ SnapshotBefore
    BY <2>3 DEF Vswhere, BindTranscript, SnapshotBefore, Command, Check
  <2>4. CASE Rustc \/ Cargo \/ RustIdentity \/ RetainCache \/ Graph \/ CopySources
             \/ Compile \/ Archive \/ Link \/ RunProbe
    BY <2>4 DEF Rustc, Cargo, RustIdentity, RetainCache, Graph, CopySources, Compile, Archive,
       Link, RunProbe, Command, Check
  <2>5. CASE Inspect \/ Inputs \/ Format \/ Clippy \/ Test \/ OwnedInventory \/ CleanAfter
             \/ ManifestAfter \/ Revalidate
    BY <2>5 DEF Inspect, Inputs, Format, Clippy, Test, OwnedInventory, CleanAfter,
       ManifestAfter, Revalidate, Command, Check
  <2>6. CASE Finish
    BY <2>6 DEF Finish, EmitPass, CloseFailed, Recover
  <2> QED BY <1>5, <2>1, <2>2, <2>3, <2>4, <2>5, <2>6 DEF Next, ProbeHost, Build
<1> QED BY <1>1, <1>2, <1>3, <1>4, <1>5, WindowStays

(* A host that is found quiet had no foreign process that was seen after it *)
(* put more than CoreLimit on a processor, for every number of processes,   *)
(* polls and process events: however they start, compute, end and take each *)
(* other's numbers between the reads of measure_isolation.                  *)
THEOREM HostWasQuiet == Spec => []QualifiedHostWasQuiet
<1>1. WindowInv => QualifiedHostWasQuiet
  BY DEF WindowInv, QuietInv, QualifiedHostWasQuiet, Window!QuietHostHasNoLoad
<1>2. WindowInv /\ [Next]_vars => WindowInv'
  BY WindowStep
<1> QED BY <1>1, <1>2, WindowAtInit, PTL DEF Spec
-----------------------------------------------------------------------------
(* The run, its commands and what they read.                                *)
RunFields == {"status", "generated", "commands", "source", "dependency", "artifacts", "ids",
              "selection", "before", "after", "manifests", "said", "cpus", "cached"}
SourceFields == {"schema", "commit", "tree", "manifest", "lock", "verifier"}
StepNames ==
    {"history", "head", "tree", "branch", "clean", "manifest", "dependency", "vswhere", "rustc",
     "cargo", "graph", "compile", "archive", "link", "probe", "inspect", "inputs", "fmt",
     "clippy", "test"}
CommandType ==
    [step : StepNames, passed : BOOLEAN, audit : {"early", "full"},
     images : UNION {[some -> {0, 1}] : some \in SUBSET Tools}, said : {0, 1},
     start : Int, finish : Int]
HistoryType ==
    [changes : [Things \cup {"head", "clock"} -> Nat], admission : BOOLEAN, early : BOOLEAN,
     used : SUBSET (Things \X {0, 1})]
MachineTypes ==
    /\ scenario \in Scenarios /\ disk \in [Things -> {0, 1}]
    /\ log \in Seq({0, 1}) /\ log # <<>>
    /\ clock \in [now : Nat, skew : Int]
    /\ history \in HistoryType
RunTypes ==
    /\ run = [f \in RunFields |-> run[f]]
    /\ run.commands \in Seq(CommandType)
    /\ run.source = [f \in SourceFields |-> run.source[f]]
    /\ run.ids \in [Tools -> {0, 1, 9}] /\ run.said \in [Quoted -> {0, 1, 9}]
Types == MachineTypes /\ RunTypes

(* What one step may write of the run.                                      *)
Kept(written) ==
    /\ run' = [f \in RunFields |-> run'[f]]
    /\ \A f \in RunFields \ written : run'[f] = run[f]

LEMMA FieldIsSet ==
    ASSUME NEW r, r = [f \in RunFields |-> r[f]], NEW x \in RunFields, NEW v,
           NEW q, q = [r EXCEPT ![x] = v]
    PROVE  /\ q = [f \in RunFields |-> q[f]] /\ q[x] = v
           /\ \A f \in RunFields \ {x} : q[f] = r[f]
OBVIOUS

LEMMA SourceIsSet ==
    ASSUME NEW r, r = [f \in SourceFields |-> r[f]], NEW x \in SourceFields, NEW v,
           NEW q, q = [r EXCEPT ![x] = v]
    PROVE  /\ q = [f \in SourceFields |-> q[f]] /\ q[x] = v
           /\ \A f \in SourceFields \ {x} : q[f] = r[f]
OBVIOUS

(* A command as it is recorded.                                             *)
Entry(step, passed, early, by) ==
    [step |-> step, passed |-> passed,
     audit |-> IF Needs(step) # {} /\ early THEN "early" ELSE "full",
     images |-> [t \in Needs(step) |-> disk[t]], said |-> Says(step),
     start |-> clock.now + clock.skew, finish |-> clock.now + clock.skew + 1 + by]

LEMMA WhatIsRecorded ==
    ASSUME Types, NEW step, NEW passed, NEW early, NEW by, NEW q,
           q = Recorded(step, passed, early, by)
    PROVE  /\ q = [f \in RunFields |-> q[f]]
           /\ q.commands = Append(run.commands, Entry(step, passed, early, by))
           /\ \A f \in RunFields \ {"commands"} : q[f] = run[f]
<1>1. q = [run EXCEPT !["commands"] = Append(run.commands, Entry(step, passed, early, by))]
  BY DEF Recorded, Entry
<1>2. "commands" \in RunFields /\ run = [f \in RunFields |-> run[f]]
  BY DEF RunFields, Types, RunTypes
<1> QED BY <1>1, <1>2, FieldIsSet

Shift == IF "clock" \in scenario.mutable /\ budget > 0 THEN {-2, 0, 2} ELSE {0}
Tried(step, passed, early, by) ==
    /\ early => ~passed /\ Needs(step) # {}
    /\ clock' = [now |-> clock.now + 1, skew |-> clock.skew + by]
    /\ history' = AfterCommand(step, early, by)

(* A step that is a command, what follows it, and what else it writes.      *)
Attempt(step, next, otherwise, good, written) ==
    /\ pc = step /\ UNCHANGED <<scenario, disk, log, journal>>
    /\ \E passed \in BOOLEAN, early \in BOOLEAN, by \in Shift :
          /\ Tried(step, passed, early, by)
          /\ Kept({"commands"} \cup (IF passed THEN written ELSE {}))
          /\ run'.commands = Append(run.commands, Entry(step, passed, early, by))
          /\ pc' = IF passed /\ good THEN next ELSE otherwise

PlainCommand(step, next, otherwise, good) ==
    /\ pc = step /\ UNCHANGED <<scenario, disk, log, journal>>
    /\ \E passed \in BOOLEAN, early \in BOOLEAN, by \in Shift :
          /\ Tried(step, passed, early, by)
          /\ run' = Recorded(step, passed, early, by)
          /\ pc' = IF passed /\ good THEN next ELSE otherwise

LEMMA PlainAttempt ==
    ASSUME Types, NEW step, NEW next, NEW otherwise, NEW good,
           PlainCommand(step, next, otherwise, good)
    PROVE  Attempt(step, next, otherwise, good, {})
<1>1. PICK passed \in BOOLEAN, early \in BOOLEAN, by \in Shift :
          /\ Tried(step, passed, early, by)
          /\ run' = Recorded(step, passed, early, by)
          /\ pc' = IF passed /\ good THEN next ELSE otherwise
  BY DEF PlainCommand
<1>2. /\ Kept({"commands"})
      /\ run'.commands = Append(run.commands, Entry(step, passed, early, by))
  BY <1>1, WhatIsRecorded DEF Kept
<1>3. Kept({"commands"} \cup (IF passed THEN {} ELSE {}))
  BY <1>2
<1>4. pc = step /\ UNCHANGED <<scenario, disk, log, journal>>
  BY DEF PlainCommand
<1> QED BY <1>1, <1>2, <1>3, <1>4 DEF Attempt

LEMMA PlainCommands ==
    ASSUME Types
    PROVE  /\ History => Attempt("history", "head", "refused", TRUE, {})
           /\ Branch => Attempt("branch", "clean", "refused", TRUE, {})
           /\ CleanBefore => Attempt("clean", "manifest", "refused", CleanNow, {})
           /\ Compile => Attempt("compile", "archive", "close", TRUE, {})
           /\ Archive => Attempt("archive", "link", "close", TRUE, {})
           /\ Link => Attempt("link", "probe", "close", TRUE, {})
           /\ Inputs => Attempt("inputs", "fmt", "close", InputsUnchanged, {})
           /\ Format => Attempt("fmt", "clippy", "close", Scanned("fmt"), {})
           /\ Clippy => Attempt("clippy", "test", "close", Scanned("clippy"), {})
           /\ Test => Attempt("test", "inventory", "close", Scanned("test"), {})
           /\ CleanAfter => Attempt("clean", "manifest", "close", CleanNow, {})
<1>1. History => PlainCommand("history", "head", "refused", TRUE)
  BY SMTT(30) DEF History, Command, Tried, Goto, Shift, AsRecorded, PlainCommand
<1>2. Branch => PlainCommand("branch", "clean", "refused", TRUE)
  BY SMTT(30) DEF Branch, Command, Tried, Goto, Shift, AsRecorded, PlainCommand
<1>3. CleanBefore => PlainCommand("clean", "manifest", "refused", CleanNow)
  BY SMTT(30) DEF CleanBefore, Command, Tried, Goto, Shift, AsRecorded, PlainCommand
<1>4. Compile => PlainCommand("compile", "archive", "close", TRUE)
  BY SMTT(30) DEF Compile, Command, Tried, Goto, Shift, AsRecorded, PlainCommand
<1>5. Archive => PlainCommand("archive", "link", "close", TRUE)
  BY SMTT(30) DEF Archive, Command, Tried, Goto, Shift, AsRecorded, PlainCommand
<1>6. Link => PlainCommand("link", "probe", "close", TRUE)
  BY SMTT(30) DEF Link, Command, Tried, Goto, Shift, AsRecorded, PlainCommand
<1>7. Inputs => PlainCommand("inputs", "fmt", "close", InputsUnchanged)
  BY SMTT(30) DEF Inputs, Command, Tried, Goto, Shift, AsRecorded, PlainCommand
<1>8. Format => PlainCommand("fmt", "clippy", "close", Scanned("fmt"))
  BY SMTT(30) DEF Format, Command, Tried, Goto, Shift, AsRecorded, PlainCommand
<1>9. Clippy => PlainCommand("clippy", "test", "close", Scanned("clippy"))
  BY SMTT(30) DEF Clippy, Command, Tried, Goto, Shift, AsRecorded, PlainCommand
<1>10. Test => PlainCommand("test", "inventory", "close", Scanned("test"))
  BY SMTT(30) DEF Test, Command, Tried, Goto, Shift, AsRecorded, PlainCommand
<1>11. CleanAfter => PlainCommand("clean", "manifest", "close", CleanNow)
  BY SMTT(30) DEF CleanAfter, Command, Tried, Goto, Shift, AsRecorded, PlainCommand
<1> QED BY <1>1, <1>2, <1>3, <1>4, <1>5, <1>6, <1>7, <1>8, <1>9, <1>10, <1>11, PlainAttempt

LEMMA WhatIsSaid ==
    ASSUME Types, NEW step
    PROVE  /\ Needs(step) \subseteq Tools /\ Reads(step) \subseteq Things /\ Tools \subseteq Things
           /\ Says(step) \in {0, 1}
<1>1. Needs(step) \subseteq Tools
  BY DEF Needs, Tools
<1>2. Tools \subseteq Things /\ "work" \in Things /\ Reads(step) \subseteq Things
  BY DEF Tools, Things, Reads
<1>3. disk \in [Things -> {0, 1}]
  BY DEF Types, MachineTypes
<1>4. ASSUME Needs(step) # {} PROVE disk[CHOOSE t \in Needs(step) : TRUE] \in {0, 1}
  BY <1>1, <1>2, <1>3, <1>4
<1> QED BY <1>1, <1>2, <1>3, <1>4 DEF Says

LEMMA EntryIsCommand ==
    ASSUME Types, NEW step \in StepNames, NEW passed \in BOOLEAN, NEW early \in BOOLEAN,
           NEW by \in Shift
    PROVE  Entry(step, passed, early, by) \in CommandType
<1>1. by \in Int /\ clock.now \in Int /\ clock.skew \in Int
  BY DEF Shift, Types, MachineTypes
<1>2. [t \in Needs(step) |-> disk[t]] \in [Needs(step) -> {0, 1}]
  BY WhatIsSaid DEF Types, MachineTypes
<1>3. Needs(step) \in SUBSET Tools /\ Says(step) \in {0, 1}
  BY WhatIsSaid
<1> DEFINE images == [t \in Needs(step) |-> disk[t]]
           said == Says(step)
<1>4. images \in UNION {[some -> {0, 1}] : some \in SUBSET Tools}
  BY <1>2, <1>3
<1>5. said \in {0, 1}
  BY <1>3
<1>6. Entry(step, passed, early, by) =
        [step |-> step, passed |-> passed,
         audit |-> IF Needs(step) # {} /\ early THEN "early" ELSE "full",
         images |-> images, said |-> said,
         start |-> clock.now + clock.skew, finish |-> clock.now + clock.skew + 1 + by]
  BY DEF Entry
<1> HIDE DEF images, said
<1> QED BY <1>1, <1>4, <1>5, <1>6 DEF CommandType

(* The commands whose transcript is quoted.                                 *)
QuotedCommand(step, next, otherwise, good) ==
    /\ pc = step /\ UNCHANGED <<scenario, disk, log, journal>>
    /\ \E passed \in BOOLEAN, early \in BOOLEAN, by \in Shift :
          /\ Tried(step, passed, early, by)
          /\ run' = IF passed THEN Quote(Recorded(step, passed, early, by), step)
                    ELSE Recorded(step, passed, early, by)
          /\ pc' = IF passed /\ good THEN next ELSE otherwise

QuotedAttempt(step, next, otherwise, good) ==
    /\ Attempt(step, next, otherwise, good, {"said"})
    /\ run'.said = run.said \/ run'.said = [run.said EXCEPT ![step] = Says(step)]
    /\ pc' = otherwise \/ run'.said = [run.said EXCEPT ![step] = Says(step)]

LEMMA QuotedIsAttempt ==
    ASSUME Types, NEW step \in StepNames, NEW next, NEW otherwise, NEW good,
           QuotedCommand(step, next, otherwise, good)
    PROVE  QuotedAttempt(step, next, otherwise, good)
<1>1. PICK passed \in BOOLEAN, early \in BOOLEAN, by \in Shift :
          /\ Tried(step, passed, early, by)
          /\ run' = (IF passed THEN Quote(Recorded(step, passed, early, by), step)
                     ELSE Recorded(step, passed, early, by))
          /\ pc' = IF passed /\ good THEN next ELSE otherwise
  BY DEF QuotedCommand
<1> DEFINE q == Recorded(step, passed, early, by)
           entry == Entry(step, passed, early, by)
<1>2. /\ q = [f \in RunFields |-> q[f]] /\ q.commands = Append(run.commands, entry)
      /\ \A f \in RunFields \ {"commands"} : q[f] = run[f]
  BY WhatIsRecorded
<1>3. entry.said = Says(step) /\ entry \in CommandType
  BY EntryIsCommand DEF Entry
<1> HIDE DEF q, entry
<1>4. q.commands[Len(q.commands)].said = Says(step)
  BY <1>2, <1>3 DEF Types, RunTypes
<1>5. pc = step /\ UNCHANGED <<scenario, disk, log, journal>>
  BY DEF QuotedCommand
<1>6. CASE passed
  <2>1. run' = [q EXCEPT !["said"] = [q.said EXCEPT ![step] = Says(step)]]
    BY <1>1, <1>4, <1>6 DEF Quote, q
  <2>2. /\ run' = [f \in RunFields |-> run'[f]]
        /\ run'["said"] = [q.said EXCEPT ![step] = Says(step)]
        /\ \A f \in RunFields \ {"said"} : run'[f] = q[f]
    <3>1. "said" \in RunFields
      BY DEF RunFields
    <3> QED BY <1>2, <2>1, <3>1, FieldIsSet
  <2>3. q.said = run.said /\ run'.commands = q.commands
    BY <1>2, <2>2 DEF RunFields
  <2>4. Kept({"commands"} \cup {"said"})
    BY <1>2, <2>2 DEF Kept
  <2>5. Kept({"commands"} \cup (IF passed THEN {"said"} ELSE {}))
    BY <1>6, <2>4
  <2> QED BY <1>1, <1>2, <1>5, <2>2, <2>3, <2>5 DEF QuotedAttempt, Attempt, entry
<1>7. CASE ~passed
  <2>1. run' = q
    BY <1>1, <1>7 DEF q
  <2>2. Kept({"commands"} \cup (IF passed THEN {"said"} ELSE {}))
    BY <1>2, <1>7, <2>1 DEF Kept
  <2>3. run'.said = run.said /\ pc' = otherwise
    BY <1>1, <1>2, <1>7, <2>1 DEF RunFields
  <2> QED BY <1>1, <1>2, <1>5, <2>1, <2>2, <2>3 DEF QuotedAttempt, Attempt, entry
<1> QED BY <1>6, <1>7

LEMMA QuotedCommands ==
    ASSUME Types
    PROVE  /\ Vswhere => QuotedAttempt("vswhere", "ancestry", "close", TRUE)
           /\ Rustc => QuotedAttempt("rustc", "cargo", "close", TRUE)
           /\ Cargo => QuotedAttempt("cargo", "rust", "close", TRUE)
           /\ Graph => QuotedAttempt("graph", "sources", "close", GraphAllowed /\ LockAllowed)
           /\ RunProbe => QuotedAttempt("probe", "inspect", "close", TRUE)
           /\ Inspect => QuotedAttempt("inspect", "inputs", "close", TRUE)
<1>1. Vswhere => QuotedAttempt("vswhere", "ancestry", "close", TRUE)
  <2>1. Vswhere => QuotedCommand("vswhere", "ancestry", "close", TRUE)
    BY SMTT(30) DEF Vswhere, Command, Tried, Goto, Shift, QuotedCommand
  <2>2. "vswhere" \in StepNames
    BY DEF StepNames
  <2> QED BY <2>1, <2>2, QuotedIsAttempt
<1>2. Rustc => QuotedAttempt("rustc", "cargo", "close", TRUE)
  <2>1. Rustc => QuotedCommand("rustc", "cargo", "close", TRUE)
    BY SMTT(30) DEF Rustc, Command, Tried, Goto, Shift, QuotedCommand
  <2>2. "rustc" \in StepNames
    BY DEF StepNames
  <2> QED BY <2>1, <2>2, QuotedIsAttempt
<1>3. Cargo => QuotedAttempt("cargo", "rust", "close", TRUE)
  <2>1. Cargo => QuotedCommand("cargo", "rust", "close", TRUE)
    BY SMTT(30) DEF Cargo, Command, Tried, Goto, Shift, QuotedCommand
  <2>2. "cargo" \in StepNames
    BY DEF StepNames
  <2> QED BY <2>1, <2>2, QuotedIsAttempt
<1>4. Graph => QuotedAttempt("graph", "sources", "close", GraphAllowed /\ LockAllowed)
  <2>1. Graph => QuotedCommand("graph", "sources", "close", GraphAllowed /\ LockAllowed)
    BY SMTT(30) DEF Graph, Command, Tried, Goto, Shift, QuotedCommand
  <2>2. "graph" \in StepNames
    BY DEF StepNames
  <2> QED BY <2>1, <2>2, QuotedIsAttempt
<1>5. RunProbe => QuotedAttempt("probe", "inspect", "close", TRUE)
  <2>1. RunProbe => QuotedCommand("probe", "inspect", "close", TRUE)
    BY SMTT(30) DEF RunProbe, Command, Tried, Goto, Shift, QuotedCommand
  <2>2. "probe" \in StepNames
    BY DEF StepNames
  <2> QED BY <2>1, <2>2, QuotedIsAttempt
<1>6. Inspect => QuotedAttempt("inspect", "inputs", "close", TRUE)
  <2>1. Inspect => QuotedCommand("inspect", "inputs", "close", TRUE)
    BY SMTT(30) DEF Inspect, Command, Tried, Goto, Shift, QuotedCommand
  <2>2. "inspect" \in StepNames
    BY DEF StepNames
  <2> QED BY <2>1, <2>2, QuotedIsAttempt
<1> QED BY <1>1, <1>2, <1>3, <1>4, <1>5, <1>6

(* The commands that write one field more.                                  *)
FieldCommand(step, next, otherwise, good, x, v) ==
    /\ pc = step /\ UNCHANGED <<scenario, disk, log, journal>>
    /\ \E passed \in BOOLEAN, early \in BOOLEAN, by \in Shift :
          /\ Tried(step, passed, early, by)
          /\ run' = IF passed THEN [Recorded(step, passed, early, by) EXCEPT ![x] = v]
                    ELSE Recorded(step, passed, early, by)
          /\ pc' = IF passed /\ good THEN next ELSE otherwise

LEMMA FieldAttempt ==
    ASSUME Types, NEW step, NEW next, NEW otherwise, NEW good,
           NEW x \in RunFields \ {"commands"}, NEW v,
           FieldCommand(step, next, otherwise, good, x, v)
    PROVE  /\ Attempt(step, next, otherwise, good, {x})
           /\ run'[x] = run[x] \/ run'[x] = v
           /\ pc' = otherwise \/ run'[x] = v
<1>1. PICK passed \in BOOLEAN, early \in BOOLEAN, by \in Shift :
          /\ Tried(step, passed, early, by)
          /\ run' = (IF passed THEN [Recorded(step, passed, early, by) EXCEPT ![x] = v]
                     ELSE Recorded(step, passed, early, by))
          /\ pc' = IF passed /\ good THEN next ELSE otherwise
  BY DEF FieldCommand
<1> DEFINE q == Recorded(step, passed, early, by)
           entry == Entry(step, passed, early, by)
<1>2. /\ q = [f \in RunFields |-> q[f]] /\ q["commands"] = Append(run.commands, entry)
      /\ \A f \in RunFields \ {"commands"} : q[f] = run[f]
  BY WhatIsRecorded
<1>3. pc = step /\ UNCHANGED <<scenario, disk, log, journal>>
  BY DEF FieldCommand
<1>4. "commands" \in RunFields
  BY DEF RunFields
<1> HIDE DEF q, entry
<1>5. CASE passed
  <2>1. run' = [q EXCEPT ![x] = v]
    BY <1>1, <1>5 DEF q
  <2>2. /\ run' = [f \in RunFields |-> run'[f]] /\ run'[x] = v
        /\ \A f \in RunFields \ {x} : run'[f] = q[f]
    BY <1>2, <2>1, FieldIsSet
  <2>3. Kept({"commands"} \cup (IF passed THEN {x} ELSE {})) /\ run'["commands"] = q["commands"]
    BY <1>2, <1>4, <1>5, <2>2 DEF Kept
  <2> QED BY <1>1, <1>2, <1>3, <2>2, <2>3 DEF Attempt, entry
<1>6. CASE ~passed
  <2>1. run' = q /\ run'[x] = run[x] /\ pc' = otherwise
    BY <1>1, <1>2, <1>6 DEF q
  <2>2. Kept({"commands"} \cup (IF passed THEN {x} ELSE {}))
    BY <1>2, <1>6, <2>1 DEF Kept
  <2> QED BY <1>1, <1>2, <1>3, <2>1, <2>2 DEF Attempt, entry
<1> QED BY <1>5, <1>6

LEMMA HeadCommitDoes ==
    ASSUME Types, HeadCommit
    PROVE  FieldCommand("head", "tree", "refused", TRUE, "source",
                        [run.source EXCEPT !.commit = Len(log)])
<1>1. /\ pc = "head" /\ UNCHANGED <<scenario, disk, log, journal>>
      /\ \E passed \in BOOLEAN, early \in BOOLEAN, by \in Shift :
            /\ Tried("head", passed, early, by)
            /\ run' = (IF passed
                       THEN [Recorded("head", passed, early, by) EXCEPT
                                !.source.commit = Len(log)]
                       ELSE Recorded("head", passed, early, by))
            /\ pc' = IF passed /\ TRUE THEN "tree" ELSE "refused"
  BY SMTT(30) DEF HeadCommit, Command, Tried, Goto, Shift
<1>2. ASSUME NEW passed, NEW early, NEW by
      PROVE  Recorded("head", passed, early, by).source = run.source
  <2>1. "source" \in RunFields \ {"commands"}
    BY DEF RunFields
  <2> QED BY <2>1, WhatIsRecorded
<1> QED BY <1>1, <1>2 DEF FieldCommand

LEMMA TreeDoes ==
    ASSUME Types, Tree
    PROVE  FieldCommand("tree", "branch", "refused", TRUE, "source",
                        [run.source EXCEPT !.tree = Len(log)])
<1>1. /\ pc = "tree" /\ UNCHANGED <<scenario, disk, log, journal>>
      /\ \E passed \in BOOLEAN, early \in BOOLEAN, by \in Shift :
            /\ Tried("tree", passed, early, by)
            /\ run' = (IF passed
                       THEN [Recorded("tree", passed, early, by) EXCEPT
                                !.source.tree = Len(log)]
                       ELSE Recorded("tree", passed, early, by))
            /\ pc' = IF passed /\ TRUE THEN "branch" ELSE "refused"
  BY SMTT(30) DEF Tree, Command, Tried, Goto, Shift
<1>2. ASSUME NEW passed, NEW early, NEW by
      PROVE  Recorded("tree", passed, early, by).source = run.source
  <2>1. "source" \in RunFields \ {"commands"}
    BY DEF RunFields
  <2> QED BY <2>1, WhatIsRecorded
<1> QED BY <1>1, <1>2 DEF FieldCommand

LEMMA ManifestBeforeDoes ==
    ASSUME Types, ManifestBefore
    PROVE  FieldCommand("manifest", "dependency", "refused", TRUE, "source",
                        [run.source EXCEPT !.manifest = ManifestNow])
<1>1. /\ pc = "manifest" /\ UNCHANGED <<scenario, disk, log, journal>>
      /\ \E passed \in BOOLEAN, early \in BOOLEAN, by \in Shift :
            /\ Tried("manifest", passed, early, by)
            /\ run' = (IF passed
                       THEN [Recorded("manifest", passed, early, by) EXCEPT
                                !.source.manifest = ManifestNow]
                       ELSE Recorded("manifest", passed, early, by))
            /\ pc' = IF passed /\ TRUE THEN "dependency" ELSE "refused"
  BY SMTT(30) DEF ManifestBefore, Command, Tried, Goto, Shift
<1>2. ASSUME NEW passed, NEW early, NEW by
      PROVE  Recorded("manifest", passed, early, by).source = run.source
  <2>1. "source" \in RunFields \ {"commands"}
    BY DEF RunFields
  <2> QED BY <2>1, WhatIsRecorded
<1> QED BY <1>1, <1>2 DEF FieldCommand

LEMMA DependencyDoes ==
    ASSUME Types, Dependency
    PROVE  FieldCommand("dependency", "bundle", "refused", TRUE, "dependency",
                        run.source.commit)
<1>1. /\ pc = "dependency" /\ UNCHANGED <<scenario, disk, log, journal>>
      /\ \E passed \in BOOLEAN, early \in BOOLEAN, by \in Shift :
            /\ Tried("dependency", passed, early, by)
            /\ run' = (IF passed
                       THEN [Recorded("dependency", passed, early, by) EXCEPT
                                !.dependency = Recorded("dependency", passed, early, by).source.commit]
                       ELSE Recorded("dependency", passed, early, by))
            /\ pc' = IF passed /\ TRUE THEN "bundle" ELSE "refused"
  BY SMTT(30) DEF Dependency, Command, Tried, Goto, Shift
<1>2. ASSUME NEW passed, NEW early, NEW by
      PROVE  Recorded("dependency", passed, early, by).source = run.source
  <2>1. "source" \in RunFields \ {"commands"}
    BY DEF RunFields
  <2> QED BY <2>1, WhatIsRecorded
<1> QED BY <1>1, <1>2 DEF FieldCommand

LEMMA ManifestAfterDoes ==
    ASSUME Types, ManifestAfter
    PROVE  FieldCommand("manifest", "after", "close", InputsUnchanged, "manifests",
                        <<run.source.manifest, ManifestNow>>)
<1>1. /\ pc = "manifest" /\ UNCHANGED <<scenario, disk, log, journal>>
      /\ \E passed \in BOOLEAN, early \in BOOLEAN, by \in Shift :
            /\ Tried("manifest", passed, early, by)
            /\ run' = (IF passed
                       THEN [Recorded("manifest", passed, early, by) EXCEPT
                                !.manifests = <<Recorded("manifest", passed, early, by).source.manifest, ManifestNow>>]
                       ELSE Recorded("manifest", passed, early, by))
            /\ pc' = IF passed /\ InputsUnchanged THEN "after" ELSE "close"
  BY SMTT(30) DEF ManifestAfter, Command, Tried, Goto, Shift
<1>2. ASSUME NEW passed, NEW early, NEW by
      PROVE  Recorded("manifest", passed, early, by).source = run.source
  <2>1. "source" \in RunFields \ {"commands"}
    BY DEF RunFields
  <2> QED BY <2>1, WhatIsRecorded
<1> QED BY <1>1, <1>2 DEF FieldCommand

(* The steps that are no command.                                           *)
LEMMA OneFieldIsSet ==
    ASSUME Types, NEW x \in RunFields, NEW v, run' = [run EXCEPT ![x] = v]
    PROVE  Kept({x}) /\ run'[x] = v
<1>1. run = [f \in RunFields |-> run[f]]
  BY DEF Types, RunTypes
<1> QED BY <1>1, FieldIsSet DEF Kept

LEMMA RunIsKept == ASSUME Types, run' = run PROVE Kept({})
BY DEF Types, RunTypes, Kept

(* A check passes, writes what it writes and goes on, or ends the attempt.  *)
CheckFails == IF Admitting THEN "refused" ELSE "close"
Checked(l, next, x, v) ==
    /\ pc = l /\ UNCHANGED <<machine, journal>>
    /\ \/ pc' = next /\ Kept({x}) /\ run'[x] = v
       \/ pc' = CheckFails /\ run' = run

LEMMA ReadSchemasDoes ==
    ASSUME Types, ReadSchemas
    PROVE  Checked("schemas", "history", "source", [run.source EXCEPT !.schema = disk["work"]])
<1>1. /\ pc = "schemas" /\ UNCHANGED <<machine, journal>>
      /\ \/ pc' = "history" /\ run' = [run EXCEPT !.source.schema = disk["work"]]
         \/ pc' = CheckFails /\ run' = run
  BY DEF ReadSchemas, Check, Goto, CheckFails
<1>2. "source" \in RunFields
  BY DEF RunFields
<1>3. run' = [run EXCEPT !.source.schema = disk["work"]] =>
          run' = [run EXCEPT !["source"] = [run.source EXCEPT !.schema = disk["work"]]]
  OBVIOUS
<1> QED BY <1>1, <1>2, <1>3, OneFieldIsSet DEF Checked

LEMMA BindTranscriptDoes ==
    ASSUME Types, BindTranscript
    PROVE  /\ pc = "transcript" /\ UNCHANGED <<machine, journal>> /\ run' = run
           /\ pc' = "before" \/ pc' = CheckFails
BY DEF BindTranscript, Check, Goto, CheckFails

LEMMA OwnedInventoryDoes ==
    ASSUME Types, OwnedInventory
    PROVE  /\ pc = "inventory" /\ UNCHANGED <<machine, journal>> /\ run' = run
           /\ \/ pc' = "clean" /\ CacheIntact
              \/ pc' = CheckFails
BY DEF OwnedInventory, Check, Goto, CheckFails

LEMMA SnapshotBeforeDoes ==
    ASSUME Types, SnapshotBefore
    PROVE  /\ Checked("before", "rustc", "before", Toolchain)
           /\ pc' = "rustc" => \A t \in HostTools : disk[t] = run.ids[t]
<1>1. /\ pc = "before" /\ UNCHANGED <<machine, journal>>
      /\ \/ pc' = "rustc" /\ run' = [run EXCEPT !["before"] = Toolchain]
                          /\ \A t \in HostTools : disk[t] = run.ids[t]
         \/ pc' = CheckFails /\ run' = run
  BY DEF SnapshotBefore, Check, Goto, CheckFails
<1>2. "before" \in RunFields
  BY DEF RunFields
<1> QED BY <1>1, <1>2, OneFieldIsSet DEF Checked, CheckFails

LEMMA RevalidateDoes ==
    ASSUME Types, Revalidate
    PROVE  /\ Checked("after", "emit", "after", Toolchain)
           /\ pc' = "emit" => Unchanged
<1>1. /\ pc = "after" /\ UNCHANGED <<machine, journal>>
      /\ \/ pc' = "emit" /\ run' = [run EXCEPT !["after"] = Toolchain] /\ Unchanged
         \/ pc' = CheckFails /\ run' = run
  BY DEF Revalidate, Check, Goto, CheckFails
<1>2. "after" \in RunFields
  BY DEF RunFields
<1> QED BY <1>1, <1>2, OneFieldIsSet DEF Checked, CheckFails

LEMMA RustIdentityDoes ==
    ASSUME Types, RustIdentity
    PROVE  /\ Checked("rust", "retain", "ids",
                      [run.ids EXCEPT !["rustc"] = disk["rustc"], !["cargo"] = disk["cargo"]])
           /\ pc' = "retain" => RanAsIdentified
<1> DEFINE ids == [run.ids EXCEPT !["rustc"] = disk["rustc"], !["cargo"] = disk["cargo"]]
           new == [run EXCEPT !.ids["rustc"] = disk["rustc"], !.ids["cargo"] = disk["cargo"]]
<1>1. /\ pc = "rust" /\ UNCHANGED <<machine, journal>>
      /\ \/ pc' = "retain" /\ run' = new /\ RanAsIdentified
         \/ pc' = CheckFails /\ run' = run
  BY DEF RustIdentity, Check, Goto, CheckFails
<1>2. "ids" \in RunFields /\ run = [f \in RunFields |-> run[f]]
  BY DEF RunFields, Types, RunTypes
<1>3. new = [run EXCEPT !["ids"] = ids]
  BY <1>2
<1> HIDE DEF new, ids
<1>4. run' = new => Kept({"ids"}) /\ run'["ids"] = ids
  BY <1>2, <1>3, OneFieldIsSet
<1>5. Checked("rust", "retain", "ids", ids)
  BY <1>1, <1>4 DEF Checked
<1> QED BY <1>1, <1>5 DEF ids, CheckFails

(* The attempt is journalled with the rest of its source.                   *)
LEMMA BeginAttemptDoes ==
    ASSUME Types, BeginAttempt
    PROVE  /\ pc = "bundle" /\ UNCHANGED machine
           /\ \/ /\ pc' = "vswhere" /\ journal' = "open" /\ Kept({"source", "generated"})
                 /\ run'.source = [run.source EXCEPT !.lock = disk["work"],
                                                     !.verifier = disk["work"]]
                 /\ run'.generated = clock.now + clock.skew
              \/ pc' = "refused" /\ run' = run /\ journal' = journal
<1> DEFINE source == [run.source EXCEPT !.lock = disk["work"], !.verifier = disk["work"]]
           new == [run EXCEPT !.source.lock = disk["work"], !.source.verifier = disk["work"],
                              !.generated = clock.now + clock.skew]
           one == [run EXCEPT !["source"] = source]
<1>1. /\ pc = "bundle" /\ UNCHANGED machine
      /\ \/ pc' = "vswhere" /\ journal' = "open" /\ run' = new
         \/ pc' = "refused" /\ run' = run /\ journal' = journal
  BY DEF BeginAttempt, Goto
<1>2. "source" \in RunFields /\ "generated" \in RunFields /\ run = [f \in RunFields |-> run[f]]
  BY DEF RunFields, Types, RunTypes
<1>3. new = [one EXCEPT !["generated"] = clock.now + clock.skew]
  BY <1>2
<1>4. one = [f \in RunFields |-> one[f]] /\ one["source"] = source
      /\ \A f \in RunFields \ {"source"} : one[f] = run[f]
  BY <1>2, FieldIsSet
<1> HIDE DEF one, source
<1>5. new = [f \in RunFields |-> new[f]] /\ new["generated"] = clock.now + clock.skew
      /\ \A f \in RunFields \ {"generated"} : new[f] = one[f]
  BY <1>2, <1>3, <1>4, FieldIsSet
<1> HIDE DEF new
<1>6. run' = new => /\ Kept({"source", "generated"}) /\ run'["source"] = source
                    /\ run'["generated"] = clock.now + clock.skew
  BY <1>2, <1>4, <1>5 DEF Kept
<1> QED BY <1>1, <1>6 DEF source

LEMMA SelectHostDoes ==
    ASSUME Types, SelectHost
    PROVE  /\ pc = "ancestry" /\ UNCHANGED <<machine, journal>>
           /\ \/ /\ pc' = "isolate" /\ Kept({"selection", "ids"}) /\ Selected(run'.selection)
                 /\ run'.ids = [t \in Tools |-> IF t \in HostTools THEN disk[t] ELSE Unset]
              \/ pc' = "close" /\ run' = run
<1> DEFINE ids == [t \in Tools |-> IF t \in HostTools THEN disk[t] ELSE Unset]
           now == SelectionNow
           one == [run EXCEPT !["selection"] = now]
           new == [one EXCEPT !["ids"] = ids]
<1>1. /\ pc = "ancestry" /\ UNCHANGED <<machine, journal>>
      /\ \/ pc' = "isolate" /\ run' = [run EXCEPT !.selection = now, !.ids = ids] /\ Selected(now)
         \/ pc' = "close" /\ run' = run
  BY DEF SelectHost, Goto
<1>2. "selection" \in RunFields /\ "ids" \in RunFields /\ run = [f \in RunFields |-> run[f]]
  BY DEF RunFields, Types, RunTypes
<1> HIDE DEF ids, now
<1>3. new = [run EXCEPT !.selection = now, !.ids = ids]
  BY <1>2
<1>4. one = [f \in RunFields |-> one[f]] /\ one["selection"] = now
      /\ \A f \in RunFields \ {"selection"} : one[f] = run[f]
  BY <1>2, FieldIsSet
<1> HIDE DEF one
<1>5. new = [f \in RunFields |-> new[f]] /\ new["ids"] = ids
      /\ \A f \in RunFields \ {"ids"} : new[f] = one[f]
  BY <1>2, <1>4, FieldIsSet
<1> HIDE DEF new
<1>6. run' = new => Kept({"selection", "ids"}) /\ run'["selection"] = now /\ run'["ids"] = ids
  BY <1>2, <1>4, <1>5 DEF Kept
<1> QED BY <1>1, <1>3, <1>6 DEF ids

LEMMA QualifyHostDoes ==
    ASSUME Types, QualifyHost
    PROVE  /\ pc = "isolate" /\ UNCHANGED <<machine, journal>>
           /\ \/ /\ pc' = "transcript" /\ Kept({"cpus"}) /\ HostFits(scenario.host)
                 /\ probe.at = "quiet" /\ run'.cpus = <<probe.settings, settings>>
              \/ pc' = "close" /\ run' = run
<1>1. /\ pc = "isolate" /\ UNCHANGED <<machine, journal>>
      /\ \/ /\ pc' = "transcript" /\ HostFits(scenario.host) /\ probe.at = "quiet"
            /\ run' = [run EXCEPT !["cpus"] = <<probe.settings, settings>>]
         \/ pc' = "close" /\ run' = run
  BY DEF QualifyHost, Goto
<1>2. "cpus" \in RunFields
  BY DEF RunFields
<1> QED BY <1>1, <1>2, OneFieldIsSet

LEMMA RetainCacheDoes ==
    ASSUME Types, RetainCache
    PROVE  /\ pc = "retain" /\ UNCHANGED <<scenario, log, clock, budget, history, journal>>
           /\ \/ /\ pc' = "graph" /\ Kept({"cached"}) /\ LockAllowed /\ run'.cached = Lock
                 /\ disk' = [disk EXCEPT !["cache"] = 0]
              \/ pc' = "close" /\ run' = run /\ disk' = disk
<1>1. /\ pc = "retain" /\ UNCHANGED <<scenario, log, clock, budget, history, journal>>
      /\ \/ /\ pc' = "graph" /\ LockAllowed /\ run' = [run EXCEPT !["cached"] = Lock]
            /\ disk' = [disk EXCEPT !["cache"] = 0]
         \/ pc' = "close" /\ run' = run /\ disk' = disk
  BY DEF RetainCache, Goto
<1>2. "cached" \in RunFields
  BY DEF RunFields
<1> QED BY <1>1, <1>2, OneFieldIsSet

LEMMA CopySourcesDoes ==
    ASSUME Types, CopySources
    PROVE  /\ pc = "sources" /\ UNCHANGED <<scenario, disk, log, clock, budget, run, journal>>
           /\ \/ pc' = "compile" /\ history' = [history EXCEPT !.used = Use({"sources"})]
              \/ pc' = "close" /\ history' = history
BY DEF CopySources, Goto

(* The ends of an attempt.                                                  *)
LEMMA EndsAreSet ==
    ASSUME Types, NEW status, NEW artifacts,
           run' = [run EXCEPT !.status = status, !.artifacts = artifacts]
    PROVE  Kept({"status", "artifacts"}) /\ run'.status = status /\ run'.artifacts = artifacts
<1> DEFINE one == [run EXCEPT !["status"] = status]
           new == [one EXCEPT !["artifacts"] = artifacts]
<1>1. "status" \in RunFields /\ "artifacts" \in RunFields /\ run = [f \in RunFields |-> run[f]]
  BY DEF RunFields, Types, RunTypes
<1>2. run' = new
  BY <1>1
<1>3. one = [f \in RunFields |-> one[f]] /\ one["status"] = status
      /\ \A f \in RunFields \ {"status"} : one[f] = run[f]
  BY <1>1, FieldIsSet
<1> HIDE DEF one
<1>4. new = [f \in RunFields |-> new[f]] /\ new["artifacts"] = artifacts
      /\ \A f \in RunFields \ {"artifacts"} : new[f] = one[f]
  BY <1>1, <1>3, FieldIsSet
<1> QED BY <1>1, <1>2, <1>3, <1>4 DEF Kept

LEMMA EmitPassDoes ==
    ASSUME Types, EmitPass
    PROVE  /\ pc = "emit" /\ UNCHANGED machine
           /\ \/ /\ pc' = "published" /\ journal' = "published" /\ Kept({"status", "artifacts"})
                 /\ run'.status = "PASS" /\ run'.artifacts = 6
              \/ pc' = "close" /\ run' = run /\ journal' = journal
<1>1. /\ pc = "emit" /\ UNCHANGED machine
      /\ \/ /\ pc' = "published" /\ journal' = "published"
            /\ run' = [run EXCEPT !.status = "PASS", !.artifacts = 6]
         \/ pc' = "close" /\ run' = run /\ journal' = journal
  BY DEF EmitPass, Goto
<1> DEFINE pass == "PASS"
           six == 6
<1>2. run' = [run EXCEPT !.status = pass, !.artifacts = six] =>
          Kept({"status", "artifacts"}) /\ run'.status = pass /\ run'.artifacts = six
  <2> HIDE DEF pass, six
  <2> QED BY EndsAreSet
<1> QED BY <1>1, <1>2

LEMMA CloseFailedDoes ==
    ASSUME Types, CloseFailed
    PROVE  /\ pc = "close" /\ UNCHANGED machine
           /\ \/ /\ pc' = "published" /\ journal' = "published" /\ Kept({"status", "artifacts"})
                 /\ run'.status = "FAIL"
              \/ pc' = "left" /\ run' = run /\ journal' = journal
<1>1. /\ pc = "close" /\ UNCHANGED machine
      /\ \/ /\ pc' = "published" /\ journal' = "published"
            /\ run' = [run EXCEPT !.status = "FAIL", !.artifacts = 3]
         \/ pc' = "left" /\ run' = run /\ journal' = journal
  BY DEF CloseFailed, Goto
<1> DEFINE fail == "FAIL"
           three == 3
<1>2. run' = [run EXCEPT !.status = fail, !.artifacts = three] =>
          Kept({"status", "artifacts"}) /\ run'.status = fail
  <2> HIDE DEF fail, three
  <2> QED BY EndsAreSet
<1> QED BY <1>1, <1>2

LEMMA RecoverDoes ==
    ASSUME Types, Recover
    PROVE  /\ pc = "left" /\ pc' = "closed" /\ journal' = "published" /\ UNCHANGED machine
           /\ SameSource /\ Kept({"status", "artifacts", "commands"})
           /\ run'.status = "FAIL" /\ run'.commands = <<>>
<1> DEFINE one == [run EXCEPT !["status"] = "FAIL"]
           two == [one EXCEPT !["artifacts"] = 3]
           new == [two EXCEPT !["commands"] = <<>>]
<1>1. /\ pc = "left" /\ pc' = "closed" /\ journal' = "published" /\ UNCHANGED machine
      /\ SameSource
      /\ run' = [run EXCEPT !.status = "FAIL", !.artifacts = 3, !.commands = <<>>]
  BY DEF Recover, RecoveredRun, Goto
<1>2. /\ "status" \in RunFields /\ "artifacts" \in RunFields /\ "commands" \in RunFields
      /\ run = [f \in RunFields |-> run[f]]
  BY DEF RunFields, Types, RunTypes
<1>3. run' = new
  BY <1>1, <1>2
<1>4. one = [f \in RunFields |-> one[f]] /\ one["status"] = "FAIL"
      /\ \A f \in RunFields \ {"status"} : one[f] = run[f]
  BY <1>2, FieldIsSet
<1> HIDE DEF one
<1>5. two = [f \in RunFields |-> two[f]]
      /\ \A f \in RunFields \ {"artifacts"} : two[f] = one[f]
  BY <1>2, <1>4, FieldIsSet
<1> HIDE DEF two
<1>6. new = [f \in RunFields |-> new[f]] /\ new["commands"] = <<>>
      /\ \A f \in RunFields \ {"commands"} : new[f] = two[f]
  BY <1>2, <1>5, FieldIsSet
<1> HIDE DEF new
<1> QED BY <1>1, <1>2, <1>3, <1>4, <1>5, <1>6 DEF Kept
-----------------------------------------------------------------------------
(* How far a run is: the stage that is next, and the commands that are      *)
(* recorded by then.                                                        *)
LEMMA PlanIs ==
    /\ Plan \in Seq(StepNames) /\ Len(Plan) = 22 /\ Len(Admission) = 7
    /\ Plan[1] = "history" /\ Plan[2] = "head" /\ Plan[3] = "tree" /\ Plan[4] = "branch"
    /\ Plan[5] = "clean" /\ Plan[6] = "manifest" /\ Plan[7] = "dependency"
    /\ Plan[8] = "vswhere" /\ Plan[9] = "rustc" /\ Plan[10] = "cargo" /\ Plan[11] = "graph"
    /\ Plan[12] = "compile" /\ Plan[13] = "archive" /\ Plan[14] = "link" /\ Plan[15] = "probe"
    /\ Plan[16] = "inspect" /\ Plan[17] = "inputs" /\ Plan[18] = "fmt" /\ Plan[19] = "clippy"
    /\ Plan[20] = "test" /\ Plan[21] = "clean" /\ Plan[22] = "manifest"
<1> DEFINE rest == <<"vswhere", "rustc", "cargo", "graph", "compile", "archive", "link", "probe",
                     "inspect", "inputs", "fmt", "clippy", "test", "clean", "manifest">>
<1>1. /\ Admission \in Seq(StepNames) /\ Len(Admission) = 7
      /\ Admission[1] = "history" /\ Admission[2] = "head" /\ Admission[3] = "tree"
      /\ Admission[4] = "branch" /\ Admission[5] = "clean" /\ Admission[6] = "manifest"
      /\ Admission[7] = "dependency"
  BY DEF Admission, StepNames
<1>2. /\ rest \in Seq(StepNames) /\ Len(rest) = 15
      /\ rest[1] = "vswhere" /\ rest[2] = "rustc" /\ rest[3] = "cargo" /\ rest[4] = "graph"
      /\ rest[5] = "compile" /\ rest[6] = "archive" /\ rest[7] = "link" /\ rest[8] = "probe"
      /\ rest[9] = "inspect" /\ rest[10] = "inputs" /\ rest[11] = "fmt" /\ rest[12] = "clippy"
      /\ rest[13] = "test" /\ rest[14] = "clean" /\ rest[15] = "manifest"
  BY DEF StepNames
<1>3. Plan = Admission \o rest
  BY DEF Plan
<1> HIDE DEF rest
<1>4. ASSUME NEW a \in Seq(StepNames), NEW b \in Seq(StepNames), Len(a) = 7, Len(b) = 15
      PROVE  /\ a \o b \in Seq(StepNames) /\ Len(a \o b) = 22
             /\ \A i \in 1 .. 22 : (a \o b)[i] = IF i <= 7 THEN a[i] ELSE b[i - 7]
  <2>1. /\ a \o b \in Seq(StepNames) /\ Len(a \o b) = Len(a) + Len(b)
        /\ \A i \in 1 .. Len(a) + Len(b) :
              (a \o b)[i] = IF i <= Len(a) THEN a[i] ELSE b[i - Len(a)]
    BY ConcatProperties
  <2>2. 7 + 15 = 22
    OBVIOUS
  <2> QED BY <1>4, <2>1, <2>2
<1>5. /\ Plan \in Seq(StepNames) /\ Len(Plan) = 22
      /\ \A i \in 1 .. 22 : Plan[i] = IF i <= 7 THEN Admission[i] ELSE rest[i - 7]
  BY <1>1, <1>2, <1>3, <1>4
<1> QED BY <1>1, <1>2, <1>5

Late == Len(run.commands) > 7
Stage ==
    CASE pc = "schemas"           -> 1
      [] pc = "history"           -> 2
      [] pc = "head"              -> 3
      [] pc = "tree"              -> 4
      [] pc = "branch"            -> 5
      [] pc = "clean" /\ ~Late    -> 6
      [] pc = "manifest" /\ ~Late -> 7
      [] pc = "dependency"        -> 8
      [] pc = "bundle"            -> 9
      [] pc = "vswhere"           -> 10
      [] pc = "ancestry"          -> 11
      [] pc = "isolate"           -> 12
      [] pc = "transcript"        -> 13
      [] pc = "before"            -> 14
      [] pc = "rustc"             -> 15
      [] pc = "cargo"             -> 16
      [] pc = "rust"              -> 17
      [] pc = "retain"            -> 18
      [] pc = "graph"             -> 19
      [] pc = "sources"           -> 20
      [] pc = "compile"           -> 21
      [] pc = "archive"           -> 22
      [] pc = "link"              -> 23
      [] pc = "probe"             -> 24
      [] pc = "inspect"           -> 25
      [] pc = "inputs"            -> 26
      [] pc = "fmt"               -> 27
      [] pc = "clippy"            -> 28
      [] pc = "test"              -> 29
      [] pc = "inventory"         -> 30
      [] pc = "clean" /\ Late     -> 31
      [] pc = "manifest" /\ Late  -> 32
      [] pc = "after"             -> 33
      [] pc = "emit"              -> 34
      [] pc = "published" /\ run.status = "PASS" -> 35
      [] OTHER                    -> 0

(* The commands recorded before a stage; the eleven stages that record none.*)
Silent == {1, 9, 11, 12, 13, 14, 17, 18, 20, 30, 33, 34}
RanBy(k) ==
    CASE k \in 1 .. 2   -> 0
      [] k \in 3 .. 9   -> k - 2
      [] k = 10         -> 7
      [] k \in 11 .. 15 -> 8
      [] k = 16         -> 9
      [] k \in 17 .. 19 -> 10
      [] k \in 20 .. 21 -> 11
      [] k \in 22 .. 30 -> k - 10
      [] k = 31         -> 20
      [] k = 32         -> 21
      [] OTHER          -> 22

LEMMA LateIs ==
    ASSUME Types
    PROVE  /\ Len(run.commands) < Len(Admission) => ~Late
           /\ Len(run.commands) > Len(Admission) => Late
<1>1. run.commands \in Seq(CommandType)
  BY DEF Types, RunTypes
<1>2. Len(run.commands) \in Nat
  BY <1>1
<1>3. Len(Admission) = 7
  BY PlanIs
<1> QED BY <1>2, <1>3 DEF Late

LEMMA StageIs ==
    /\ pc = "schemas" => Stage = 1
    /\ pc = "history" => Stage = 2
    /\ pc = "head" => Stage = 3
    /\ pc = "tree" => Stage = 4
    /\ pc = "branch" => Stage = 5
    /\ pc = "clean" /\ ~Late => Stage = 6
    /\ pc = "manifest" /\ ~Late => Stage = 7
    /\ pc = "dependency" => Stage = 8
    /\ pc = "bundle" => Stage = 9
    /\ pc = "vswhere" => Stage = 10
    /\ pc = "ancestry" => Stage = 11
    /\ pc = "isolate" => Stage = 12
    /\ pc = "transcript" => Stage = 13
    /\ pc = "before" => Stage = 14
    /\ pc = "rustc" => Stage = 15
    /\ pc = "cargo" => Stage = 16
    /\ pc = "rust" => Stage = 17
    /\ pc = "retain" => Stage = 18
    /\ pc = "graph" => Stage = 19
    /\ pc = "sources" => Stage = 20
    /\ pc = "compile" => Stage = 21
    /\ pc = "archive" => Stage = 22
    /\ pc = "link" => Stage = 23
    /\ pc = "probe" => Stage = 24
    /\ pc = "inspect" => Stage = 25
    /\ pc = "inputs" => Stage = 26
    /\ pc = "fmt" => Stage = 27
    /\ pc = "clippy" => Stage = 28
    /\ pc = "test" => Stage = 29
    /\ pc = "inventory" => Stage = 30
    /\ pc = "clean" /\ Late => Stage = 31
    /\ pc = "manifest" /\ Late => Stage = 32
    /\ pc = "after" => Stage = 33
    /\ pc = "emit" => Stage = 34
    /\ pc = "published" => Stage = IF run.status = "PASS" THEN 35 ELSE 0
    /\ pc \in {"refused", "close", "left", "closed"} => Stage = 0
    /\ Stage \in 0 .. 35
<1>1. pc = "schemas" => Stage = 1
  BY DEF Stage
<1>2. pc = "history" => Stage = 2
  BY DEF Stage
<1>3. pc = "head" => Stage = 3
  BY DEF Stage
<1>4. pc = "tree" => Stage = 4
  BY DEF Stage
<1>5. pc = "branch" => Stage = 5
  BY DEF Stage
<1>6. pc = "clean" /\ ~Late => Stage = 6
  BY DEF Stage
<1>7. pc = "manifest" /\ ~Late => Stage = 7
  BY DEF Stage
<1>8. pc = "dependency" => Stage = 8
  BY DEF Stage
<1>9. pc = "bundle" => Stage = 9
  BY DEF Stage
<1>10. pc = "vswhere" => Stage = 10
  BY DEF Stage
<1>11. pc = "ancestry" => Stage = 11
  BY DEF Stage
<1>12. pc = "isolate" => Stage = 12
  BY DEF Stage
<1>13. pc = "transcript" => Stage = 13
  BY DEF Stage
<1>14. pc = "before" => Stage = 14
  BY DEF Stage
<1>15. pc = "rustc" => Stage = 15
  BY DEF Stage
<1>16. pc = "cargo" => Stage = 16
  BY DEF Stage
<1>17. pc = "rust" => Stage = 17
  BY DEF Stage
<1>18. pc = "retain" => Stage = 18
  BY DEF Stage
<1>19. pc = "graph" => Stage = 19
  BY DEF Stage
<1>20. pc = "sources" => Stage = 20
  BY DEF Stage
<1>21. pc = "compile" => Stage = 21
  BY DEF Stage
<1>22. pc = "archive" => Stage = 22
  BY DEF Stage
<1>23. pc = "link" => Stage = 23
  BY DEF Stage
<1>24. pc = "probe" => Stage = 24
  BY DEF Stage
<1>25. pc = "inspect" => Stage = 25
  BY DEF Stage
<1>26. pc = "inputs" => Stage = 26
  BY DEF Stage
<1>27. pc = "fmt" => Stage = 27
  BY DEF Stage
<1>28. pc = "clippy" => Stage = 28
  BY DEF Stage
<1>29. pc = "test" => Stage = 29
  BY DEF Stage
<1>30. pc = "inventory" => Stage = 30
  BY DEF Stage
<1>31. pc = "clean" /\ Late => Stage = 31
  BY DEF Stage
<1>32. pc = "manifest" /\ Late => Stage = 32
  BY DEF Stage
<1>33. pc = "after" => Stage = 33
  BY DEF Stage
<1>34. pc = "emit" => Stage = 34
  BY DEF Stage
<1>35. pc = "published" => Stage = IF run.status = "PASS" THEN 35 ELSE 0
  BY DEF Stage
<1>36. pc \in {"refused", "close", "left", "closed"} => Stage = 0
  BY DEF Stage
<1>37. Stage \in 0 .. 35
  BY DEF Stage
<1> QED BY <1>1, <1>2, <1>3, <1>4, <1>5, <1>6, <1>7, <1>8, <1>9, <1>10, <1>11, <1>12, <1>13,
           <1>14, <1>15, <1>16, <1>17, <1>18, <1>19, <1>20, <1>21, <1>22, <1>23, <1>24, <1>25,
           <1>26, <1>27, <1>28, <1>29, <1>30, <1>31, <1>32, <1>33, <1>34, <1>35, <1>36, <1>37

LEMMA StageBecomes ==
    /\ pc' = "schemas" => Stage' = 1
    /\ pc' = "history" => Stage' = 2
    /\ pc' = "head" => Stage' = 3
    /\ pc' = "tree" => Stage' = 4
    /\ pc' = "branch" => Stage' = 5
    /\ pc' = "clean" /\ ~Late' => Stage' = 6
    /\ pc' = "manifest" /\ ~Late' => Stage' = 7
    /\ pc' = "dependency" => Stage' = 8
    /\ pc' = "bundle" => Stage' = 9
    /\ pc' = "vswhere" => Stage' = 10
    /\ pc' = "ancestry" => Stage' = 11
    /\ pc' = "isolate" => Stage' = 12
    /\ pc' = "transcript" => Stage' = 13
    /\ pc' = "before" => Stage' = 14
    /\ pc' = "rustc" => Stage' = 15
    /\ pc' = "cargo" => Stage' = 16
    /\ pc' = "rust" => Stage' = 17
    /\ pc' = "retain" => Stage' = 18
    /\ pc' = "graph" => Stage' = 19
    /\ pc' = "sources" => Stage' = 20
    /\ pc' = "compile" => Stage' = 21
    /\ pc' = "archive" => Stage' = 22
    /\ pc' = "link" => Stage' = 23
    /\ pc' = "probe" => Stage' = 24
    /\ pc' = "inspect" => Stage' = 25
    /\ pc' = "inputs" => Stage' = 26
    /\ pc' = "fmt" => Stage' = 27
    /\ pc' = "clippy" => Stage' = 28
    /\ pc' = "test" => Stage' = 29
    /\ pc' = "inventory" => Stage' = 30
    /\ pc' = "clean" /\ Late' => Stage' = 31
    /\ pc' = "manifest" /\ Late' => Stage' = 32
    /\ pc' = "after" => Stage' = 33
    /\ pc' = "emit" => Stage' = 34
    /\ pc' = "published" => Stage' = IF run'.status = "PASS" THEN 35 ELSE 0
    /\ pc' \in {"refused", "close", "left", "closed"} => Stage' = 0
    /\ Stage' \in 0 .. 35
<1>1. pc' = "schemas" => Stage' = 1
  BY DEF Stage
<1>2. pc' = "history" => Stage' = 2
  BY DEF Stage
<1>3. pc' = "head" => Stage' = 3
  BY DEF Stage
<1>4. pc' = "tree" => Stage' = 4
  BY DEF Stage
<1>5. pc' = "branch" => Stage' = 5
  BY DEF Stage
<1>6. pc' = "clean" /\ ~Late' => Stage' = 6
  BY DEF Stage
<1>7. pc' = "manifest" /\ ~Late' => Stage' = 7
  BY DEF Stage
<1>8. pc' = "dependency" => Stage' = 8
  BY DEF Stage
<1>9. pc' = "bundle" => Stage' = 9
  BY DEF Stage
<1>10. pc' = "vswhere" => Stage' = 10
  BY DEF Stage
<1>11. pc' = "ancestry" => Stage' = 11
  BY DEF Stage
<1>12. pc' = "isolate" => Stage' = 12
  BY DEF Stage
<1>13. pc' = "transcript" => Stage' = 13
  BY DEF Stage
<1>14. pc' = "before" => Stage' = 14
  BY DEF Stage
<1>15. pc' = "rustc" => Stage' = 15
  BY DEF Stage
<1>16. pc' = "cargo" => Stage' = 16
  BY DEF Stage
<1>17. pc' = "rust" => Stage' = 17
  BY DEF Stage
<1>18. pc' = "retain" => Stage' = 18
  BY DEF Stage
<1>19. pc' = "graph" => Stage' = 19
  BY DEF Stage
<1>20. pc' = "sources" => Stage' = 20
  BY DEF Stage
<1>21. pc' = "compile" => Stage' = 21
  BY DEF Stage
<1>22. pc' = "archive" => Stage' = 22
  BY DEF Stage
<1>23. pc' = "link" => Stage' = 23
  BY DEF Stage
<1>24. pc' = "probe" => Stage' = 24
  BY DEF Stage
<1>25. pc' = "inspect" => Stage' = 25
  BY DEF Stage
<1>26. pc' = "inputs" => Stage' = 26
  BY DEF Stage
<1>27. pc' = "fmt" => Stage' = 27
  BY DEF Stage
<1>28. pc' = "clippy" => Stage' = 28
  BY DEF Stage
<1>29. pc' = "test" => Stage' = 29
  BY DEF Stage
<1>30. pc' = "inventory" => Stage' = 30
  BY DEF Stage
<1>31. pc' = "clean" /\ Late' => Stage' = 31
  BY DEF Stage
<1>32. pc' = "manifest" /\ Late' => Stage' = 32
  BY DEF Stage
<1>33. pc' = "after" => Stage' = 33
  BY DEF Stage
<1>34. pc' = "emit" => Stage' = 34
  BY DEF Stage
<1>35. pc' = "published" => Stage' = IF run'.status = "PASS" THEN 35 ELSE 0
  BY DEF Stage
<1>36. pc' \in {"refused", "close", "left", "closed"} => Stage' = 0
  BY DEF Stage
<1>37. Stage' \in 0 .. 35
  BY DEF Stage
<1> QED BY <1>1, <1>2, <1>3, <1>4, <1>5, <1>6, <1>7, <1>8, <1>9, <1>10, <1>11, <1>12, <1>13,
           <1>14, <1>15, <1>16, <1>17, <1>18, <1>19, <1>20, <1>21, <1>22, <1>23, <1>24, <1>25,
           <1>26, <1>27, <1>28, <1>29, <1>30, <1>31, <1>32, <1>33, <1>34, <1>35, <1>36, <1>37

CommandStages == (2 .. 8) \cup {10, 15, 16, 19} \cup (21 .. 29) \cup {31, 32}
QuotedStages == {10, 15, 16, 19, 24, 25}
StepAt(k) == Plan[RanBy(k) + 1]

(* The fields the step from a stage may write, besides the commands.        *)
Written(k) ==
    CASE k \in {1, 3, 4, 7} -> {"source"}
      [] k = 8              -> {"dependency"}
      [] k = 9              -> {"source", "generated"}
      [] k \in QuotedStages -> {"said"}
      [] k = 11             -> {"selection", "ids"}
      [] k = 12             -> {"cpus"}
      [] k = 14             -> {"before"}
      [] k = 17             -> {"ids"}
      [] k = 18             -> {"cached"}
      [] k = 32             -> {"manifests"}
      [] k = 33             -> {"after"}
      [] k = 34             -> {"status", "artifacts"}
      [] OTHER              -> {}

(* What has happened when the step from a stage succeeds.                   *)
Gain(k) ==
    /\ k = 1 => run'.source = [run.source EXCEPT !.schema = disk["work"]]
    /\ k = 3 => run'.source = [run.source EXCEPT !.commit = Len(log)]
    /\ k = 4 => run'.source = [run.source EXCEPT !.tree = Len(log)]
    /\ k = 6 => CleanNow
    /\ k = 7 => run'.source = [run.source EXCEPT !.manifest = ManifestNow]
    /\ k = 8 => run'.dependency = run.source.commit
    /\ k = 9 => /\ run'.source = [run.source EXCEPT !.lock = disk["work"],
                                                   !.verifier = disk["work"]]
                /\ run'.generated = clock.now + clock.skew
    /\ k \in QuotedStages => run'.said = [run.said EXCEPT ![StepAt(k)] = Says(StepAt(k))]
    /\ k = 11 => /\ Selected(run'.selection)
                 /\ run'.ids = [t \in Tools |-> IF t \in HostTools THEN disk[t] ELSE Unset]
    /\ k = 12 => /\ HostFits(scenario.host)
                 /\ probe.at = "quiet" /\ run'.cpus = <<probe.settings, settings>>
    /\ k = 14 => /\ run'.before = Toolchain
                 /\ \A t \in HostTools : disk[t] = run.ids[t]
    /\ k = 17 => /\ RanAsIdentified
                 /\ run'.ids = [run.ids EXCEPT !["rustc"] = disk["rustc"],
                                               !["cargo"] = disk["cargo"]]
    /\ k = 18 => LockAllowed /\ run'.cached = Lock
    /\ k = 19 => GraphAllowed /\ LockAllowed
    /\ k = 27 => Scanned("fmt")
    /\ k = 28 => Scanned("clippy")
    /\ k = 29 => Scanned("test")
    /\ k = 30 => CacheIntact
    /\ k = 31 => CleanNow
    /\ k = 32 => InputsUnchanged /\ run'.manifests = <<run.source.manifest, ManifestNow>>
    /\ k = 33 => Unchanged /\ run'.after = Toolchain
    /\ k = 34 => run'.status = "PASS" /\ run'.artifacts = 6

Progress ==
    /\ Stage # 0 => Len(run.commands) = RanBy(Stage)
    /\ Len(run.commands) <= 22
    /\ \A i \in 1 .. Len(run.commands) : run.commands[i].step = Plan[i]
    /\ Stage \in 1 .. 9 => journal = "none"
    /\ Stage \in 10 .. 34 \/ pc \in {"close", "left"} => journal = "open"
    /\ Stage = 0 => pc \in {"refused", "close", "left", "published", "closed"}
    /\ Stage = 0 /\ pc \in {"published", "closed"} => run.status = "FAIL"
    /\ pc \in {"published", "closed"} <=> journal = "published"

(* The kinds of steps.                                                      *)
Failing(k) == IF k < 10 THEN "refused" ELSE "close"
Onward(k) ==
    /\ Stage = k
    /\ \/ Stage' = k + 1 /\ Gain(k)
       \/ Stage' = 0 /\ pc' = Failing(k)

TakesCommand(k) ==
    /\ Onward(k) /\ UNCHANGED <<scenario, disk, log, journal>>
    /\ \E passed \in BOOLEAN, early \in BOOLEAN, by \in Shift :
          /\ Tried(StepAt(k), passed, early, by) /\ (Stage' # 0 => passed)
          /\ Kept({"commands"} \cup Written(k))
          /\ run'.commands = Append(run.commands, Entry(StepAt(k), passed, early, by))

LEMMA StepsAre ==
    /\ StepAt(2) = "history" /\ StepAt(3) = "head" /\ StepAt(4) = "tree" /\ StepAt(5) = "branch"
    /\ StepAt(6) = "clean" /\ StepAt(7) = "manifest" /\ StepAt(8) = "dependency"
    /\ StepAt(10) = "vswhere" /\ StepAt(15) = "rustc" /\ StepAt(16) = "cargo"
    /\ StepAt(19) = "graph" /\ StepAt(21) = "compile" /\ StepAt(22) = "archive"
    /\ StepAt(23) = "link" /\ StepAt(24) = "probe" /\ StepAt(25) = "inspect"
    /\ StepAt(26) = "inputs" /\ StepAt(27) = "fmt" /\ StepAt(28) = "clippy"
    /\ StepAt(29) = "test" /\ StepAt(31) = "clean" /\ StepAt(32) = "manifest"
    /\ \A k \in CommandStages : /\ StepAt(k) \in StepNames /\ RanBy(k) \in 0 .. 21
                                /\ RanBy(k + 1) = RanBy(k) + 1
<1>1. ASSUME NEW k \in CommandStages
      PROVE  RanBy(k) \in 0 .. 21 /\ RanBy(k + 1) = RanBy(k) + 1
  <2>1. \/ k \in 2 .. 8 \/ k = 10 \/ k = 15 \/ k = 16 \/ k = 19
        \/ k \in 21 .. 29 \/ k = 31 \/ k = 32
    BY DEF CommandStages
  <2>2. CASE k \in 2 .. 8
    BY <2>2 DEF RanBy
  <2>3. CASE k \in 21 .. 29
    BY <2>3 DEF RanBy
  <2>4. CASE k = 10 \/ k = 15 \/ k = 16 \/ k = 19 \/ k = 31 \/ k = 32
    BY <2>4 DEF RanBy
  <2> QED BY <2>1, <2>2, <2>3, <2>4
<1>2. ASSUME NEW k \in CommandStages PROVE StepAt(k) \in StepNames
  <2>1. PICK n \in 0 .. 21 : RanBy(k) = n
    BY <1>1
  <2>2. n + 1 \in 1 .. 22
    OBVIOUS
  <2>3. \A i \in 1 .. 22 : Plan[i] \in StepNames
    BY PlanIs, ElementOfSeq
  <2> QED BY <2>1, <2>3 DEF StepAt
<1>3. /\ RanBy(2) = 0 /\ RanBy(3) = 1 /\ RanBy(4) = 2 /\ RanBy(5) = 3 /\ RanBy(6) = 4
      /\ RanBy(7) = 5 /\ RanBy(8) = 6 /\ RanBy(10) = 7 /\ RanBy(15) = 8 /\ RanBy(16) = 9
      /\ RanBy(19) = 10 /\ RanBy(21) = 11 /\ RanBy(22) = 12 /\ RanBy(23) = 13
      /\ RanBy(24) = 14 /\ RanBy(25) = 15 /\ RanBy(26) = 16 /\ RanBy(27) = 17
      /\ RanBy(28) = 18 /\ RanBy(29) = 19 /\ RanBy(31) = 20 /\ RanBy(32) = 21
  BY DEF RanBy
<1>4. ASSUME NEW k, NEW n \in Nat, RanBy(k) = n PROVE StepAt(k) = Plan[n + 1]
  BY <1>4 DEF StepAt
<1>5. /\ StepAt(2) = Plan[0 + 1] /\ StepAt(3) = Plan[1 + 1] /\ StepAt(4) = Plan[2 + 1]
      /\ StepAt(5) = Plan[3 + 1] /\ StepAt(6) = Plan[4 + 1] /\ StepAt(7) = Plan[5 + 1]
      /\ StepAt(8) = Plan[6 + 1] /\ StepAt(10) = Plan[7 + 1] /\ StepAt(15) = Plan[8 + 1]
      /\ StepAt(16) = Plan[9 + 1] /\ StepAt(19) = Plan[10 + 1] /\ StepAt(21) = Plan[11 + 1]
      /\ StepAt(22) = Plan[12 + 1] /\ StepAt(23) = Plan[13 + 1] /\ StepAt(24) = Plan[14 + 1]
      /\ StepAt(25) = Plan[15 + 1] /\ StepAt(26) = Plan[16 + 1] /\ StepAt(27) = Plan[17 + 1]
      /\ StepAt(28) = Plan[18 + 1] /\ StepAt(29) = Plan[19 + 1] /\ StepAt(31) = Plan[20 + 1]
      /\ StepAt(32) = Plan[21 + 1]
  BY <1>3, <1>4
<1> QED BY <1>1, <1>2, <1>5, PlanIs

LEMMA TypesStay ==
    ASSUME Types, NEW written, Kept(written), run'.commands \in Seq(CommandType),
           run'.source = [f \in SourceFields |-> run'.source[f]],
           run'.ids \in [Tools -> {0, 1, 9}], run'.said \in [Quoted -> {0, 1, 9}]
    PROVE  RunTypes'
BY DEF RunTypes, Kept

LEMMA CommandStagesAre ==
    ASSUME NEW k \in CommandStages
    PROVE  k \in 2 .. 32 /\ k # 0 /\ k # 20 /\ "ids" \in RunFields \ ({"commands"} \cup Written(k))
<1>1. k \in 2 .. 32 /\ k # 0 /\ k # 20 /\ k \notin {9, 11, 12, 14, 17, 18, 33, 34}
  BY DEF CommandStages
<1> QED BY <1>1 DEF RunFields, Written

LEMMA CommandIsTaken ==
    ASSUME Types, Progress, NEW k \in CommandStages, NEW step, NEW next, NEW otherwise, NEW good,
           NEW written, Attempt(step, next, otherwise, good, written),
           Stage = k, step = StepAt(k), written \subseteq Written(k),
           pc' = next /\ Len(run'.commands) = RanBy(k) + 1 => Stage' = k + 1,
           pc' = otherwise => Stage' = 0, otherwise = Failing(k),
           pc' = next => Gain(k),
           run'.source = [f \in SourceFields |-> run'.source[f]],
           run'.said \in [Quoted -> {0, 1, 9}]
    PROVE  TakesCommand(k) /\ RunTypes'
<1>1. PICK passed \in BOOLEAN, early \in BOOLEAN, by \in Shift :
          /\ Tried(step, passed, early, by)
          /\ Kept({"commands"} \cup (IF passed THEN written ELSE {}))
          /\ run'.commands = Append(run.commands, Entry(step, passed, early, by))
          /\ pc' = IF passed /\ good THEN next ELSE otherwise
  BY DEF Attempt
<1>2. UNCHANGED <<scenario, disk, log, journal>>
  BY DEF Attempt
<1>3. step \in StepNames /\ RanBy(k) \in 0 .. 21
  BY StepsAre
<1>4. Entry(step, passed, early, by) \in CommandType
  BY <1>3, EntryIsCommand
<1>5. Len(run.commands) = RanBy(k) /\ run.commands \in Seq(CommandType)
  <2>1. k # 0
    BY CommandStagesAre
  <2> QED BY <2>1 DEF Progress, Types, RunTypes
<1>6. run'.commands \in Seq(CommandType) /\ Len(run'.commands) = RanBy(k) + 1
  BY <1>1, <1>4, <1>5
<1>7. Kept({"commands"} \cup Written(k))
  BY <1>1 DEF Kept
<1>8. RunTypes'
  <2>1. "ids" \in RunFields \ ({"commands"} \cup Written(k))
    BY CommandStagesAre
  <2>2. run'.ids = run.ids
    BY <1>7, <2>1 DEF Kept
  <2> QED BY <1>6, <1>7, <2>2, TypesStay DEF Types, RunTypes
<1>9. Onward(k) /\ (Stage' # 0 => passed)
  BY <1>1, <1>6 DEF Onward, CommandStages
<1> QED BY <1>1, <1>2, <1>7, <1>8, <1>9 DEF TakesCommand

LEMMA WrittenIs ==
    /\ Written(3) = {"source"} /\ Written(4) = {"source"} /\ Written(7) = {"source"}
    /\ Written(8) = {"dependency"} /\ Written(10) = {"said"} /\ Written(15) = {"said"}
    /\ Written(16) = {"said"} /\ Written(19) = {"said"} /\ Written(24) = {"said"}
    /\ Written(25) = {"said"} /\ Written(32) = {"manifests"}
BY DEF Written, QuotedStages

LEMMA PlainIsTaken ==
    ASSUME Types, Progress, NEW k \in CommandStages, NEW next, NEW otherwise, NEW good,
           Attempt(StepAt(k), next, otherwise, good, {}), Stage = k,
           pc' = next /\ Len(run'.commands) = RanBy(k) + 1 => Stage' = k + 1,
           pc' = otherwise => Stage' = 0, otherwise = Failing(k),
           next # otherwise, good => Gain(k)
    PROVE  TakesCommand(k) /\ RunTypes'
<1>1. PICK passed \in BOOLEAN, early \in BOOLEAN, by \in Shift :
          /\ Kept({"commands"} \cup (IF passed THEN {} ELSE {}))
          /\ pc' = IF passed /\ good THEN next ELSE otherwise
  BY DEF Attempt
<1>2. run'["source"] = run["source"] /\ run'["said"] = run["said"]
  BY <1>1 DEF Kept, RunFields
<1>3. pc' = next => Gain(k)
  BY <1>1
<1>4. /\ run'.source = [f \in SourceFields |-> run'.source[f]]
      /\ run'.said \in [Quoted -> {0, 1, 9}]
  BY <1>2 DEF Types, RunTypes
<1> QED BY <1>3, <1>4, CommandIsTaken

LEMMA QuotedIsTaken ==
    ASSUME Types, Progress, NEW k \in QuotedStages, NEW next, NEW otherwise, NEW good,
           QuotedAttempt(StepAt(k), next, otherwise, good), Stage = k,
           pc' = next /\ Len(run'.commands) = RanBy(k) + 1 => Stage' = k + 1,
           pc' = otherwise => Stage' = 0, otherwise = Failing(k),
           next # otherwise, StepAt(k) \in Quoted,
           good /\ run'.said = [run.said EXCEPT ![StepAt(k)] = Says(StepAt(k))] => Gain(k)
    PROVE  TakesCommand(k) /\ RunTypes'
<1>1. Attempt(StepAt(k), next, otherwise, good, {"said"})
  BY DEF QuotedAttempt
<1>2. PICK passed \in BOOLEAN, early \in BOOLEAN, by \in Shift :
          /\ Kept({"commands"} \cup (IF passed THEN {"said"} ELSE {}))
          /\ pc' = IF passed /\ good THEN next ELSE otherwise
  BY <1>1 DEF Attempt
<1>3. run'["source"] = run["source"]
  BY <1>2 DEF Kept, RunFields
<1>4. pc' = next => Gain(k)
  BY <1>2 DEF QuotedAttempt
<1>5. run'.source = [f \in SourceFields |-> run'.source[f]]
  BY <1>3 DEF Types, RunTypes
<1>6. run'.said \in [Quoted -> {0, 1, 9}]
  BY WhatIsSaid DEF QuotedAttempt, Types, RunTypes
<1>7. k \in CommandStages /\ {"said"} \subseteq Written(k)
  <2>1. k = 10 \/ k = 15 \/ k = 16 \/ k = 19 \/ k = 24 \/ k = 25
    BY DEF QuotedStages
  <2> QED BY <2>1, WrittenIs DEF CommandStages
<1> QED BY <1>1, <1>4, <1>5, <1>6, <1>7, CommandIsTaken

LEMMA FieldIsTaken ==
    ASSUME Types, Progress, NEW k \in CommandStages, NEW next, NEW otherwise, NEW good,
           NEW x \in {"source", "dependency", "manifests"}, NEW v,
           FieldCommand(StepAt(k), next, otherwise, good, x, v), Stage = k,
           pc' = next /\ Len(run'.commands) = RanBy(k) + 1 => Stage' = k + 1,
           pc' = otherwise => Stage' = 0, otherwise = Failing(k),
           next # otherwise, {x} \subseteq Written(k),
           x = "source" => v = [f \in SourceFields |-> v[f]],
           good /\ run'[x] = v => Gain(k)
    PROVE  TakesCommand(k) /\ RunTypes'
<1>1. /\ Attempt(StepAt(k), next, otherwise, good, {x})
      /\ run'[x] = run[x] \/ run'[x] = v
      /\ pc' = otherwise \/ run'[x] = v
  <2>1. x \in RunFields \ {"commands"}
    BY DEF RunFields
  <2>2. Types /\ FieldCommand(StepAt(k), next, otherwise, good, x, v)
    OBVIOUS
  <2> QED BY ONLY <2>1, <2>2, FieldAttempt, Zenon
<1>2. PICK passed \in BOOLEAN, early \in BOOLEAN, by \in Shift :
          /\ Kept({"commands"} \cup (IF passed THEN {x} ELSE {}))
          /\ pc' = IF passed /\ good THEN next ELSE otherwise
  BY <1>1 DEF Attempt
<1>3. run'["said"] = run["said"] /\ (x # "source" => run'["source"] = run["source"])
  BY <1>2 DEF Kept, RunFields
<1>4. pc' = next => Gain(k)
  BY <1>1, <1>2
<1>5. run'.source = [f \in SourceFields |-> run'.source[f]]
  <2>1. run.source = [f \in SourceFields |-> run.source[f]]
    BY DEF Types, RunTypes
  <2>2. CASE x = "source"
    <3>1. run'.source = run.source \/ run'.source = v
      BY <1>1, <2>2
    <3> QED BY <2>1, <2>2, <3>1
  <2>3. CASE x # "source"
    BY <1>3, <2>1, <2>3
  <2> QED BY <2>2, <2>3
<1>6. run'.said \in [Quoted -> {0, 1, 9}]
  BY <1>3 DEF Types, RunTypes
<1> QED BY <1>1, <1>4, <1>5, <1>6, CommandIsTaken

LEMMA HistoryIsTaken ==
    ASSUME Types, Progress, History PROVE TakesCommand(2) /\ RunTypes'
<1>1. 2 \in CommandStages /\ StepAt(2) = "history" /\ RanBy(2) = 0 /\ 2 + 1 = 3
  BY StepsAre DEF CommandStages, RanBy
<1>2. pc = "history"
  BY DEF History, Command
<1>3. Stage = 2
  BY <1>2, StageIs
<1>4. pc' = "head" => Stage' = 2 + 1
  BY <1>1, StageBecomes
<1>5. pc' = "refused" => Stage' = 0
  BY StageBecomes
<1>6. Attempt(StepAt(2), "head", "refused", TRUE, {})
  BY <1>1, PlainCommands
<1>7. TRUE => Gain(2)
  BY DEF Gain, QuotedStages
<1>8. "head" # "refused" /\ "refused" = Failing(2)
  BY DEF Failing
<1> QED BY <1>1, <1>3, <1>4, <1>5, <1>6, <1>7, <1>8, PlainIsTaken

LEMMA BranchIsTaken ==
    ASSUME Types, Progress, Branch PROVE TakesCommand(5) /\ RunTypes'
<1>1. 5 \in CommandStages /\ StepAt(5) = "branch" /\ RanBy(5) = 3 /\ 5 + 1 = 6
  BY StepsAre DEF CommandStages, RanBy
<1>2. pc = "branch"
  BY DEF Branch, Command
<1>3. Stage = 5
  BY <1>2, StageIs
<1>4. pc' = "clean" /\ Len(run'.commands) = RanBy(5) + 1 => Stage' = 5 + 1
  BY <1>1, StageBecomes DEF Late
<1>5. pc' = "refused" => Stage' = 0
  BY StageBecomes
<1>6. Attempt(StepAt(5), "clean", "refused", TRUE, {})
  BY <1>1, PlainCommands
<1>7. TRUE => Gain(5)
  BY DEF Gain, QuotedStages
<1>8. "clean" # "refused" /\ "refused" = Failing(5)
  BY DEF Failing
<1> QED BY <1>1, <1>3, <1>4, <1>5, <1>6, <1>7, <1>8, PlainIsTaken

LEMMA CleanBeforeIsTaken ==
    ASSUME Types, Progress, CleanBefore PROVE TakesCommand(6) /\ RunTypes'
<1>1. 6 \in CommandStages /\ StepAt(6) = "clean" /\ RanBy(6) = 4 /\ 6 + 1 = 7
  BY StepsAre DEF CommandStages, RanBy
<1>2. pc = "clean"
  BY DEF CleanBefore, Command
<1>3. Stage = 6
  <2>1. Len(run.commands) < Len(Admission)
    BY DEF CleanBefore
  <2>2. ~Late
    BY <2>1, LateIs
  <2> QED BY <1>2, <2>2, StageIs
<1>4. pc' = "manifest" /\ Len(run'.commands) = RanBy(6) + 1 => Stage' = 6 + 1
  BY <1>1, StageBecomes DEF Late
<1>5. pc' = "refused" => Stage' = 0
  BY StageBecomes
<1>6. Attempt(StepAt(6), "manifest", "refused", CleanNow, {})
  BY <1>1, PlainCommands
<1>7. CleanNow => Gain(6)
  BY DEF Gain, QuotedStages
<1>8. "manifest" # "refused" /\ "refused" = Failing(6)
  BY DEF Failing
<1> QED BY <1>1, <1>3, <1>4, <1>5, <1>6, <1>7, <1>8, PlainIsTaken

LEMMA CompileIsTaken ==
    ASSUME Types, Progress, Compile PROVE TakesCommand(21) /\ RunTypes'
<1>1. 21 \in CommandStages /\ StepAt(21) = "compile" /\ RanBy(21) = 11 /\ 21 + 1 = 22
  BY StepsAre DEF CommandStages, RanBy
<1>2. pc = "compile"
  BY DEF Compile, Command
<1>3. Stage = 21
  BY <1>2, StageIs
<1>4. pc' = "archive" => Stage' = 21 + 1
  BY <1>1, StageBecomes
<1>5. pc' = "close" => Stage' = 0
  BY StageBecomes
<1>6. Attempt(StepAt(21), "archive", "close", TRUE, {})
  BY <1>1, PlainCommands
<1>7. TRUE => Gain(21)
  BY DEF Gain, QuotedStages
<1>8. "archive" # "close" /\ "close" = Failing(21)
  BY DEF Failing
<1> QED BY <1>1, <1>3, <1>4, <1>5, <1>6, <1>7, <1>8, PlainIsTaken

LEMMA ArchiveIsTaken ==
    ASSUME Types, Progress, Archive PROVE TakesCommand(22) /\ RunTypes'
<1>1. 22 \in CommandStages /\ StepAt(22) = "archive" /\ RanBy(22) = 12 /\ 22 + 1 = 23
  BY StepsAre DEF CommandStages, RanBy
<1>2. pc = "archive"
  BY DEF Archive, Command
<1>3. Stage = 22
  BY <1>2, StageIs
<1>4. pc' = "link" => Stage' = 22 + 1
  BY <1>1, StageBecomes
<1>5. pc' = "close" => Stage' = 0
  BY StageBecomes
<1>6. Attempt(StepAt(22), "link", "close", TRUE, {})
  BY <1>1, PlainCommands
<1>7. TRUE => Gain(22)
  BY DEF Gain, QuotedStages
<1>8. "link" # "close" /\ "close" = Failing(22)
  BY DEF Failing
<1> QED BY <1>1, <1>3, <1>4, <1>5, <1>6, <1>7, <1>8, PlainIsTaken

LEMMA LinkIsTaken ==
    ASSUME Types, Progress, Link PROVE TakesCommand(23) /\ RunTypes'
<1>1. 23 \in CommandStages /\ StepAt(23) = "link" /\ RanBy(23) = 13 /\ 23 + 1 = 24
  BY StepsAre DEF CommandStages, RanBy
<1>2. pc = "link"
  BY DEF Link, Command
<1>3. Stage = 23
  BY <1>2, StageIs
<1>4. pc' = "probe" => Stage' = 23 + 1
  BY <1>1, StageBecomes
<1>5. pc' = "close" => Stage' = 0
  BY StageBecomes
<1>6. Attempt(StepAt(23), "probe", "close", TRUE, {})
  BY <1>1, PlainCommands
<1>7. TRUE => Gain(23)
  BY DEF Gain, QuotedStages
<1>8. "probe" # "close" /\ "close" = Failing(23)
  BY DEF Failing
<1> QED BY <1>1, <1>3, <1>4, <1>5, <1>6, <1>7, <1>8, PlainIsTaken

LEMMA InputsIsTaken ==
    ASSUME Types, Progress, Inputs PROVE TakesCommand(26) /\ RunTypes'
<1>1. 26 \in CommandStages /\ StepAt(26) = "inputs" /\ RanBy(26) = 16 /\ 26 + 1 = 27
  BY StepsAre DEF CommandStages, RanBy
<1>2. pc = "inputs"
  BY DEF Inputs, Command
<1>3. Stage = 26
  BY <1>2, StageIs
<1>4. pc' = "fmt" => Stage' = 26 + 1
  BY <1>1, StageBecomes
<1>5. pc' = "close" => Stage' = 0
  BY StageBecomes
<1>6. Attempt(StepAt(26), "fmt", "close", InputsUnchanged, {})
  BY <1>1, PlainCommands
<1>7. InputsUnchanged => Gain(26)
  BY DEF Gain, QuotedStages
<1>8. "fmt" # "close" /\ "close" = Failing(26)
  BY DEF Failing
<1> QED BY <1>1, <1>3, <1>4, <1>5, <1>6, <1>7, <1>8, PlainIsTaken

LEMMA FormatIsTaken ==
    ASSUME Types, Progress, Format PROVE TakesCommand(27) /\ RunTypes'
<1>1. 27 \in CommandStages /\ StepAt(27) = "fmt" /\ RanBy(27) = 17 /\ 27 + 1 = 28
  BY StepsAre DEF CommandStages, RanBy
<1>2. pc = "fmt"
  BY DEF Format, Command
<1>3. Stage = 27
  BY <1>2, StageIs
<1>4. pc' = "clippy" => Stage' = 27 + 1
  BY <1>1, StageBecomes
<1>5. pc' = "close" => Stage' = 0
  BY StageBecomes
<1>6. Attempt(StepAt(27), "clippy", "close", Scanned("fmt"), {})
  BY <1>1, PlainCommands
<1>7. Scanned("fmt") => Gain(27)
  BY DEF Gain, QuotedStages
<1>8. "clippy" # "close" /\ "close" = Failing(27)
  BY DEF Failing
<1> QED BY <1>1, <1>3, <1>4, <1>5, <1>6, <1>7, <1>8, PlainIsTaken

LEMMA ClippyIsTaken ==
    ASSUME Types, Progress, Clippy PROVE TakesCommand(28) /\ RunTypes'
<1>1. 28 \in CommandStages /\ StepAt(28) = "clippy" /\ RanBy(28) = 18 /\ 28 + 1 = 29
  BY StepsAre DEF CommandStages, RanBy
<1>2. pc = "clippy"
  BY DEF Clippy, Command
<1>3. Stage = 28
  BY <1>2, StageIs
<1>4. pc' = "test" => Stage' = 28 + 1
  BY <1>1, StageBecomes
<1>5. pc' = "close" => Stage' = 0
  BY StageBecomes
<1>6. Attempt(StepAt(28), "test", "close", Scanned("clippy"), {})
  BY <1>1, PlainCommands
<1>7. Scanned("clippy") => Gain(28)
  BY DEF Gain, QuotedStages
<1>8. "test" # "close" /\ "close" = Failing(28)
  BY DEF Failing
<1> QED BY <1>1, <1>3, <1>4, <1>5, <1>6, <1>7, <1>8, PlainIsTaken

LEMMA TestIsTaken ==
    ASSUME Types, Progress, Test PROVE TakesCommand(29) /\ RunTypes'
<1>1. 29 \in CommandStages /\ StepAt(29) = "test" /\ RanBy(29) = 19 /\ 29 + 1 = 30
  BY StepsAre DEF CommandStages, RanBy
<1>2. pc = "test"
  BY DEF Test, Command
<1>3. Stage = 29
  BY <1>2, StageIs
<1>4. pc' = "inventory" => Stage' = 29 + 1
  BY <1>1, StageBecomes
<1>5. pc' = "close" => Stage' = 0
  BY StageBecomes
<1>6. Attempt(StepAt(29), "inventory", "close", Scanned("test"), {})
  BY <1>1, PlainCommands
<1>7. Scanned("test") => Gain(29)
  BY DEF Gain, QuotedStages
<1>8. "inventory" # "close" /\ "close" = Failing(29)
  BY DEF Failing
<1> QED BY <1>1, <1>3, <1>4, <1>5, <1>6, <1>7, <1>8, PlainIsTaken

LEMMA CleanAfterIsTaken ==
    ASSUME Types, Progress, CleanAfter PROVE TakesCommand(31) /\ RunTypes'
<1>1. 31 \in CommandStages /\ StepAt(31) = "clean" /\ RanBy(31) = 20 /\ 31 + 1 = 32
  BY StepsAre DEF CommandStages, RanBy
<1>2. pc = "clean"
  BY DEF CleanAfter, Command
<1>3. Stage = 31
  <2>1. Len(run.commands) > Len(Admission)
    BY DEF CleanAfter
  <2>2. Late
    BY <2>1, LateIs
  <2> QED BY <1>2, <2>2, StageIs
<1>4. pc' = "manifest" /\ Len(run'.commands) = RanBy(31) + 1 => Stage' = 31 + 1
  BY <1>1, StageBecomes DEF Late
<1>5. pc' = "close" => Stage' = 0
  BY StageBecomes
<1>6. Attempt(StepAt(31), "manifest", "close", CleanNow, {})
  BY <1>1, PlainCommands
<1>7. CleanNow => Gain(31)
  BY DEF Gain, QuotedStages
<1>8. "manifest" # "close" /\ "close" = Failing(31)
  BY DEF Failing
<1> QED BY <1>1, <1>3, <1>4, <1>5, <1>6, <1>7, <1>8, PlainIsTaken

LEMMA VswhereIsTaken ==
    ASSUME Types, Progress, Vswhere PROVE TakesCommand(10) /\ RunTypes'
<1>1. 10 \in CommandStages /\ StepAt(10) = "vswhere" /\ RanBy(10) = 7 /\ 10 + 1 = 11
  BY StepsAre DEF CommandStages, RanBy
<1>2. pc = "vswhere"
  BY DEF Vswhere, Command
<1>3. Stage = 10
  BY <1>2, StageIs
<1>4. pc' = "ancestry" => Stage' = 10 + 1
  BY <1>1, StageBecomes
<1>5. pc' = "close" => Stage' = 0
  BY StageBecomes
<1>6. QuotedAttempt(StepAt(10), "ancestry", "close", TRUE)
  BY <1>1, QuotedCommands
<1>7. (TRUE) /\ run'.said = [run.said EXCEPT ![StepAt(10)] = Says(StepAt(10))] => Gain(10)
  BY DEF Gain
<1>8. /\ "ancestry" # "close" /\ "close" = Failing(10)
      /\ StepAt(10) \in Quoted /\ 10 \in QuotedStages
  BY <1>1 DEF Quoted, QuotedStages, Failing
<1> QED BY <1>1, <1>3, <1>4, <1>5, <1>6, <1>7, <1>8, QuotedIsTaken

LEMMA RustcIsTaken ==
    ASSUME Types, Progress, Rustc PROVE TakesCommand(15) /\ RunTypes'
<1>1. 15 \in CommandStages /\ StepAt(15) = "rustc" /\ RanBy(15) = 8 /\ 15 + 1 = 16
  BY StepsAre DEF CommandStages, RanBy
<1>2. pc = "rustc"
  BY DEF Rustc, Command
<1>3. Stage = 15
  BY <1>2, StageIs
<1>4. pc' = "cargo" => Stage' = 15 + 1
  BY <1>1, StageBecomes
<1>5. pc' = "close" => Stage' = 0
  BY StageBecomes
<1>6. QuotedAttempt(StepAt(15), "cargo", "close", TRUE)
  BY <1>1, QuotedCommands
<1>7. (TRUE) /\ run'.said = [run.said EXCEPT ![StepAt(15)] = Says(StepAt(15))] => Gain(15)
  BY DEF Gain
<1>8. /\ "cargo" # "close" /\ "close" = Failing(15)
      /\ StepAt(15) \in Quoted /\ 15 \in QuotedStages
  BY <1>1 DEF Quoted, QuotedStages, Failing
<1> QED BY <1>1, <1>3, <1>4, <1>5, <1>6, <1>7, <1>8, QuotedIsTaken

LEMMA CargoIsTaken ==
    ASSUME Types, Progress, Cargo PROVE TakesCommand(16) /\ RunTypes'
<1>1. 16 \in CommandStages /\ StepAt(16) = "cargo" /\ RanBy(16) = 9 /\ 16 + 1 = 17
  BY StepsAre DEF CommandStages, RanBy
<1>2. pc = "cargo"
  BY DEF Cargo, Command
<1>3. Stage = 16
  BY <1>2, StageIs
<1>4. pc' = "rust" => Stage' = 16 + 1
  BY <1>1, StageBecomes
<1>5. pc' = "close" => Stage' = 0
  BY StageBecomes
<1>6. QuotedAttempt(StepAt(16), "rust", "close", TRUE)
  BY <1>1, QuotedCommands
<1>7. (TRUE) /\ run'.said = [run.said EXCEPT ![StepAt(16)] = Says(StepAt(16))] => Gain(16)
  BY DEF Gain
<1>8. /\ "rust" # "close" /\ "close" = Failing(16)
      /\ StepAt(16) \in Quoted /\ 16 \in QuotedStages
  BY <1>1 DEF Quoted, QuotedStages, Failing
<1> QED BY <1>1, <1>3, <1>4, <1>5, <1>6, <1>7, <1>8, QuotedIsTaken

LEMMA GraphIsTaken ==
    ASSUME Types, Progress, Graph PROVE TakesCommand(19) /\ RunTypes'
<1>1. 19 \in CommandStages /\ StepAt(19) = "graph" /\ RanBy(19) = 10 /\ 19 + 1 = 20
  BY StepsAre DEF CommandStages, RanBy
<1>2. pc = "graph"
  BY DEF Graph, Command
<1>3. Stage = 19
  BY <1>2, StageIs
<1>4. pc' = "sources" => Stage' = 19 + 1
  BY <1>1, StageBecomes
<1>5. pc' = "close" => Stage' = 0
  BY StageBecomes
<1>6. QuotedAttempt(StepAt(19), "sources", "close", GraphAllowed /\ LockAllowed)
  BY <1>1, QuotedCommands
<1>7. (GraphAllowed /\ LockAllowed) /\ run'.said = [run.said EXCEPT ![StepAt(19)] = Says(StepAt(19))] => Gain(19)
  BY DEF Gain
<1>8. /\ "sources" # "close" /\ "close" = Failing(19)
      /\ StepAt(19) \in Quoted /\ 19 \in QuotedStages
  BY <1>1 DEF Quoted, QuotedStages, Failing
<1> QED BY <1>1, <1>3, <1>4, <1>5, <1>6, <1>7, <1>8, QuotedIsTaken

LEMMA RunProbeIsTaken ==
    ASSUME Types, Progress, RunProbe PROVE TakesCommand(24) /\ RunTypes'
<1>1. 24 \in CommandStages /\ StepAt(24) = "probe" /\ RanBy(24) = 14 /\ 24 + 1 = 25
  BY StepsAre DEF CommandStages, RanBy
<1>2. pc = "probe"
  BY DEF RunProbe, Command
<1>3. Stage = 24
  BY <1>2, StageIs
<1>4. pc' = "inspect" => Stage' = 24 + 1
  BY <1>1, StageBecomes
<1>5. pc' = "close" => Stage' = 0
  BY StageBecomes
<1>6. QuotedAttempt(StepAt(24), "inspect", "close", TRUE)
  BY <1>1, QuotedCommands
<1>7. (TRUE) /\ run'.said = [run.said EXCEPT ![StepAt(24)] = Says(StepAt(24))] => Gain(24)
  BY DEF Gain
<1>8. /\ "inspect" # "close" /\ "close" = Failing(24)
      /\ StepAt(24) \in Quoted /\ 24 \in QuotedStages
  BY <1>1 DEF Quoted, QuotedStages, Failing
<1> QED BY <1>1, <1>3, <1>4, <1>5, <1>6, <1>7, <1>8, QuotedIsTaken

LEMMA InspectIsTaken ==
    ASSUME Types, Progress, Inspect PROVE TakesCommand(25) /\ RunTypes'
<1>1. 25 \in CommandStages /\ StepAt(25) = "inspect" /\ RanBy(25) = 15 /\ 25 + 1 = 26
  BY StepsAre DEF CommandStages, RanBy
<1>2. pc = "inspect"
  BY DEF Inspect, Command
<1>3. Stage = 25
  BY <1>2, StageIs
<1>4. pc' = "inputs" => Stage' = 25 + 1
  BY <1>1, StageBecomes
<1>5. pc' = "close" => Stage' = 0
  BY StageBecomes
<1>6. QuotedAttempt(StepAt(25), "inputs", "close", TRUE)
  BY <1>1, QuotedCommands
<1>7. (TRUE) /\ run'.said = [run.said EXCEPT ![StepAt(25)] = Says(StepAt(25))] => Gain(25)
  BY DEF Gain
<1>8. /\ "inputs" # "close" /\ "close" = Failing(25)
      /\ StepAt(25) \in Quoted /\ 25 \in QuotedStages
  BY <1>1 DEF Quoted, QuotedStages, Failing
<1> QED BY <1>1, <1>3, <1>4, <1>5, <1>6, <1>7, <1>8, QuotedIsTaken

LEMMA HeadCommitIsTaken ==
    ASSUME Types, Progress, HeadCommit PROVE TakesCommand(3) /\ RunTypes'
<1>1. 3 \in CommandStages /\ StepAt(3) = "head" /\ RanBy(3) = 1 /\ 3 + 1 = 4
  BY StepsAre DEF CommandStages, RanBy
<1>2. pc = "head"
  BY DEF HeadCommit, Command
<1>3. Stage = 3
  BY <1>2, StageIs
<1>4. pc' = "tree" => Stage' = 3 + 1
  BY <1>1, StageBecomes
<1>5. pc' = "refused" => Stage' = 0
  BY StageBecomes
<1> DEFINE v == [run.source EXCEPT !.commit = Len(log)]
<1>6. FieldCommand(StepAt(3), "tree", "refused", TRUE, "source", v)
  BY <1>1, HeadCommitDoes
<1>7. TRUE /\ run'["source"] = v => Gain(3)
  BY DEF Gain, QuotedStages
<1>8. /\ "tree" # "refused" /\ "refused" = Failing(3)
      /\ "source" \in {"source", "dependency", "manifests"} /\ {"source"} \subseteq Written(3)
  BY WrittenIs DEF Failing
<1>9. "source" = "source" => v = [f \in SourceFields |-> v[f]]
  BY DEF Types, RunTypes, SourceFields
<1> HIDE DEF v
<1> QED BY <1>1, <1>3, <1>4, <1>5, <1>6, <1>7, <1>8, <1>9, FieldIsTaken

LEMMA TreeIsTaken ==
    ASSUME Types, Progress, Tree PROVE TakesCommand(4) /\ RunTypes'
<1>1. 4 \in CommandStages /\ StepAt(4) = "tree" /\ RanBy(4) = 2 /\ 4 + 1 = 5
  BY StepsAre DEF CommandStages, RanBy
<1>2. pc = "tree"
  BY DEF Tree, Command
<1>3. Stage = 4
  BY <1>2, StageIs
<1>4. pc' = "branch" => Stage' = 4 + 1
  BY <1>1, StageBecomes
<1>5. pc' = "refused" => Stage' = 0
  BY StageBecomes
<1> DEFINE v == [run.source EXCEPT !.tree = Len(log)]
<1>6. FieldCommand(StepAt(4), "branch", "refused", TRUE, "source", v)
  BY <1>1, TreeDoes
<1>7. TRUE /\ run'["source"] = v => Gain(4)
  BY DEF Gain, QuotedStages
<1>8. /\ "branch" # "refused" /\ "refused" = Failing(4)
      /\ "source" \in {"source", "dependency", "manifests"} /\ {"source"} \subseteq Written(4)
  BY WrittenIs DEF Failing
<1>9. "source" = "source" => v = [f \in SourceFields |-> v[f]]
  BY DEF Types, RunTypes, SourceFields
<1> HIDE DEF v
<1> QED BY <1>1, <1>3, <1>4, <1>5, <1>6, <1>7, <1>8, <1>9, FieldIsTaken

LEMMA ManifestBeforeIsTaken ==
    ASSUME Types, Progress, ManifestBefore PROVE TakesCommand(7) /\ RunTypes'
<1>1. 7 \in CommandStages /\ StepAt(7) = "manifest" /\ RanBy(7) = 5 /\ 7 + 1 = 8
  BY StepsAre DEF CommandStages, RanBy
<1>2. pc = "manifest"
  BY DEF ManifestBefore, Command
<1>3. Stage = 7
  <2>1. Len(run.commands) < Len(Admission)
    BY DEF ManifestBefore
  <2>2. ~Late
    BY <2>1, LateIs
  <2> QED BY <1>2, <2>2, StageIs
<1>4. pc' = "dependency" => Stage' = 7 + 1
  BY <1>1, StageBecomes
<1>5. pc' = "refused" => Stage' = 0
  BY StageBecomes
<1> DEFINE v == [run.source EXCEPT !.manifest = ManifestNow]
<1>6. FieldCommand(StepAt(7), "dependency", "refused", TRUE, "source", v)
  BY <1>1, ManifestBeforeDoes
<1>7. TRUE /\ run'["source"] = v => Gain(7)
  BY DEF Gain, QuotedStages
<1>8. /\ "dependency" # "refused" /\ "refused" = Failing(7)
      /\ "source" \in {"source", "dependency", "manifests"} /\ {"source"} \subseteq Written(7)
  BY WrittenIs DEF Failing
<1>9. "source" = "source" => v = [f \in SourceFields |-> v[f]]
  BY DEF Types, RunTypes, SourceFields
<1> HIDE DEF v
<1> QED BY <1>1, <1>3, <1>4, <1>5, <1>6, <1>7, <1>8, <1>9, FieldIsTaken

LEMMA DependencyIsTaken ==
    ASSUME Types, Progress, Dependency PROVE TakesCommand(8) /\ RunTypes'
<1>1. 8 \in CommandStages /\ StepAt(8) = "dependency" /\ RanBy(8) = 6 /\ 8 + 1 = 9
  BY StepsAre DEF CommandStages, RanBy
<1>2. pc = "dependency"
  BY DEF Dependency, Command
<1>3. Stage = 8
  BY <1>2, StageIs
<1>4. pc' = "bundle" => Stage' = 8 + 1
  BY <1>1, StageBecomes
<1>5. pc' = "refused" => Stage' = 0
  BY StageBecomes
<1> DEFINE v == run.source.commit
<1>6. FieldCommand(StepAt(8), "bundle", "refused", TRUE, "dependency", v)
  BY <1>1, DependencyDoes
<1>7. TRUE /\ run'["dependency"] = v => Gain(8)
  BY DEF Gain, QuotedStages
<1>8. /\ "bundle" # "refused" /\ "refused" = Failing(8)
      /\ "dependency" \in {"source", "dependency", "manifests"} /\ {"dependency"} \subseteq Written(8)
  BY WrittenIs DEF Failing
<1>9. "dependency" = "source" => v = [f \in SourceFields |-> v[f]]
  BY DEF Types, RunTypes, SourceFields
<1> HIDE DEF v
<1> QED BY <1>1, <1>3, <1>4, <1>5, <1>6, <1>7, <1>8, <1>9, FieldIsTaken

LEMMA ManifestAfterIsTaken ==
    ASSUME Types, Progress, ManifestAfter PROVE TakesCommand(32) /\ RunTypes'
<1>1. 32 \in CommandStages /\ StepAt(32) = "manifest" /\ RanBy(32) = 21 /\ 32 + 1 = 33
  BY StepsAre DEF CommandStages, RanBy
<1>2. pc = "manifest"
  BY DEF ManifestAfter, Command
<1>3. Stage = 32
  <2>1. Len(run.commands) > Len(Admission)
    BY DEF ManifestAfter
  <2>2. Late
    BY <2>1, LateIs
  <2> QED BY <1>2, <2>2, StageIs
<1>4. pc' = "after" => Stage' = 32 + 1
  BY <1>1, StageBecomes
<1>5. pc' = "close" => Stage' = 0
  BY StageBecomes
<1> DEFINE v == <<run.source.manifest, ManifestNow>>
<1>6. FieldCommand(StepAt(32), "after", "close", InputsUnchanged, "manifests", v)
  BY <1>1, ManifestAfterDoes
<1>7. InputsUnchanged /\ run'["manifests"] = v => Gain(32)
  BY DEF Gain, QuotedStages
<1>8. /\ "after" # "close" /\ "close" = Failing(32)
      /\ "manifests" \in {"source", "dependency", "manifests"} /\ {"manifests"} \subseteq Written(32)
  BY WrittenIs DEF Failing
<1>9. "manifests" = "source" => v = [f \in SourceFields |-> v[f]]
  BY DEF Types, RunTypes, SourceFields
<1> HIDE DEF v
<1> QED BY <1>1, <1>3, <1>4, <1>5, <1>6, <1>7, <1>8, <1>9, FieldIsTaken

(* The steps that record no command.                                        *)
Inspects(k) == Onward(k) /\ UNCHANGED <<machine, journal>> /\ Kept(Written(k))
Begins ==
    /\ Onward(9) /\ UNCHANGED machine /\ Kept(Written(9))
    /\ journal' = IF Stage' = 10 THEN "open" ELSE journal
Retains ==
    /\ Onward(18) /\ UNCHANGED <<scenario, log, clock, history, journal>> /\ Kept(Written(18))
    /\ disk' = IF Stage' = 19 THEN [disk EXCEPT !["cache"] = 0] ELSE disk
Copies ==
    /\ Onward(20) /\ UNCHANGED <<scenario, disk, log, clock, run, journal>>
    /\ history' = IF Stage' = 21 THEN [history EXCEPT !.used = Use({"sources"})] ELSE history
Emits ==
    /\ Onward(34) /\ UNCHANGED machine /\ Kept(Written(34))
    /\ pc' = IF Stage' = 35 THEN "published" ELSE "close"
    /\ journal' = IF Stage' = 35 THEN "published" ELSE journal

LEMMA SilentWritten ==
    /\ Written(1) = {"source"} /\ Written(9) = {"source", "generated"}
    /\ Written(11) = {"selection", "ids"} /\ Written(12) = {"cpus"} /\ Written(13) = {}
    /\ Written(14) = {"before"} /\ Written(17) = {"ids"} /\ Written(18) = {"cached"}
    /\ Written(20) = {} /\ Written(30) = {} /\ Written(33) = {"after"}
    /\ Written(34) = {"status", "artifacts"}
BY DEF Written, QuotedStages

LEMMA KeptRunTypes ==
    ASSUME Types, NEW written, Kept(written), "commands" \notin written,
           "source" \in written => run'.source = [f \in SourceFields |-> run'.source[f]],
           "ids" \in written => run'.ids \in [Tools -> {0, 1, 9}], "said" \notin written
    PROVE  RunTypes'
<1>1. /\ run'["commands"] = run["commands"] /\ run'["said"] = run["said"]
      /\ "source" \notin written => run'["source"] = run["source"]
      /\ "ids" \notin written => run'["ids"] = run["ids"]
  BY DEF Kept, RunFields
<1>2. run'.source = [f \in SourceFields |-> run'.source[f]] /\ run'.ids \in [Tools -> {0, 1, 9}]
  BY <1>1 DEF Types, RunTypes
<1> QED BY <1>1, <1>2, TypesStay DEF Types, RunTypes

LEMMA SameRunTypes == ASSUME Types, run' = run PROVE RunTypes' /\ \A written : Kept(written)
BY DEF Types, RunTypes, Kept

LEMMA ChecksFail ==
    ASSUME Types, Progress
    PROVE  /\ Stage = 1 => CheckFails = Failing(1)
           /\ pc \in {"transcript", "before", "rust", "inventory", "after"} =>
                 \A k \in 10 .. 35 : CheckFails = Failing(k)
<1>1. CASE Stage = 1
  <2>1. Len(run.commands) = 0 /\ pc = "schemas"
    <3>1. RanBy(1) = 0
      BY DEF RanBy
    <3>2. pc = "schemas"
      BY <1>1 DEF Stage
    <3> QED BY <1>1, <3>1, <3>2 DEF Progress
  <2>2. Admitting
    BY <2>1, PlanIs DEF Admitting
  <2>3. pc \notin {"transcript", "before", "rust", "inventory", "after"}
    BY <2>1
  <2> QED BY <2>2, <2>3 DEF CheckFails, Failing
<1>2. CASE pc \in {"transcript", "before", "rust", "inventory", "after"}
  <2>1. \A i \in DOMAIN Admission : pc # Admission[i]
    BY <1>2 DEF Admission
  <2>2. ~Admitting
    BY <1>2, <2>1 DEF Admitting
  <2>3. Stage # 1
    BY <1>2, StageIs
  <2> QED BY <2>2, <2>3 DEF CheckFails, Failing
<1> QED BY <1>1, <1>2

LEMMA ReadSchemasIsTaken ==
    ASSUME Types, Progress, ReadSchemas PROVE Inspects(1) /\ RunTypes'
<1> DEFINE v == [run.source EXCEPT !.schema = disk["work"]]
<1>1. Checked("schemas", "history", "source", v) /\ (pc' = "history" /\ run'["source"] = v => Gain(1))
  BY ReadSchemasDoes DEF Gain, QuotedStages
<1>7. run'["source"] = v => run'.source = [f \in SourceFields |-> run'.source[f]]
  BY DEF Types, RunTypes, SourceFields
<1> HIDE DEF v
<1>2. Stage = 1 /\ (pc' = "history" => Stage' = 2)
      /\ (pc' = Failing(1) => Stage' = 0) /\ CheckFails = Failing(1)
  <2>1. pc = "schemas" /\ Failing(1) \in {"refused", "close"}
    BY <1>1 DEF Checked, Failing
  <2>2. Stage = 1
    BY <2>1, StageIs
  <2>3. CheckFails = Failing(1)
    BY <2>1, <2>2, ChecksFail
  <2> QED BY <2>1, <2>2, <2>3, StageBecomes
<1>3. CASE pc' = "history" /\ Kept({"source"}) /\ run'["source"] = v
  <2>1. Kept(Written(1)) /\ "commands" \notin Written(1) /\ "said" \notin Written(1)
    BY <1>3, SilentWritten
  <2>2. RunTypes'
    BY <1>3, <1>7, <2>1, KeptRunTypes, SilentWritten
  <2>3. Onward(1)
    BY <1>1, <1>2, <1>3 DEF Onward
  <2> QED BY <1>1, <2>1, <2>2, <2>3 DEF Inspects, Checked
<1>4. CASE pc' = Failing(1) /\ run' = run
  BY <1>1, <1>2, <1>4, SameRunTypes DEF Inspects, Onward, Checked
<1> QED BY <1>1, <1>2, <1>3, <1>4 DEF Checked

LEMMA SnapshotBeforeIsTaken ==
    ASSUME Types, Progress, SnapshotBefore PROVE Inspects(14) /\ RunTypes'
<1> DEFINE v == Toolchain
<1>1. Checked("before", "rustc", "before", v) /\ (pc' = "rustc" /\ run'["before"] = v => Gain(14))
  BY SnapshotBeforeDoes DEF Gain, QuotedStages
<1>7. "source" \notin Written(14) /\ "ids" \notin Written(14)
  BY SilentWritten
<1> HIDE DEF v
<1>2. Stage = 14 /\ (pc' = "rustc" => Stage' = 15)
      /\ (pc' = Failing(14) => Stage' = 0) /\ CheckFails = Failing(14)
  <2>1. pc = "before" /\ Failing(14) \in {"refused", "close"}
    BY <1>1 DEF Checked, Failing
  <2>2. Stage = 14 /\ 14 \in 10 .. 35
    BY <2>1, StageIs
  <2>3. CheckFails = Failing(14)
    BY <2>1, <2>2, ChecksFail
  <2> QED BY <2>1, <2>2, <2>3, StageBecomes
<1>3. CASE pc' = "rustc" /\ Kept({"before"}) /\ run'["before"] = v
  <2>1. Kept(Written(14)) /\ "commands" \notin Written(14) /\ "said" \notin Written(14)
    BY <1>3, SilentWritten
  <2>2. RunTypes'
    BY <1>3, <1>7, <2>1, KeptRunTypes, SilentWritten
  <2>3. Onward(14)
    BY <1>1, <1>2, <1>3 DEF Onward
  <2> QED BY <1>1, <2>1, <2>2, <2>3 DEF Inspects, Checked
<1>4. CASE pc' = Failing(14) /\ run' = run
  BY <1>1, <1>2, <1>4, SameRunTypes DEF Inspects, Onward, Checked
<1> QED BY <1>1, <1>2, <1>3, <1>4 DEF Checked

LEMMA RustIdentityIsTaken ==
    ASSUME Types, Progress, RustIdentity PROVE Inspects(17) /\ RunTypes'
<1> DEFINE v == [run.ids EXCEPT !["rustc"] = disk["rustc"], !["cargo"] = disk["cargo"]]
<1>1. Checked("rust", "retain", "ids", v) /\ (pc' = "retain" /\ run'["ids"] = v => Gain(17))
  BY RustIdentityDoes DEF Gain, QuotedStages
<1>7. run'["ids"] = v => run'.ids \in [Tools -> {0, 1, 9}]
  <2>1. disk["rustc"] \in {0, 1, 9} /\ disk["cargo"] \in {0, 1, 9}
    BY DEF Types, MachineTypes, Things, Tools
  <2>2. run.ids \in [Tools -> {0, 1, 9}]
    BY DEF Types, RunTypes
  <2> QED BY <2>1, <2>2
<1> HIDE DEF v
<1>2. Stage = 17 /\ (pc' = "retain" => Stage' = 18)
      /\ (pc' = Failing(17) => Stage' = 0) /\ CheckFails = Failing(17)
  <2>1. pc = "rust" /\ Failing(17) \in {"refused", "close"}
    BY <1>1 DEF Checked, Failing
  <2>2. Stage = 17 /\ 17 \in 10 .. 35
    BY <2>1, StageIs
  <2>3. CheckFails = Failing(17)
    BY <2>1, <2>2, ChecksFail
  <2> QED BY <2>1, <2>2, <2>3, StageBecomes
<1>3. CASE pc' = "retain" /\ Kept({"ids"}) /\ run'["ids"] = v
  <2>1. Kept(Written(17)) /\ "commands" \notin Written(17) /\ "said" \notin Written(17)
    BY <1>3, SilentWritten
  <2>2. RunTypes'
    BY <1>3, <1>7, <2>1, KeptRunTypes, SilentWritten
  <2>3. Onward(17)
    BY <1>1, <1>2, <1>3 DEF Onward
  <2> QED BY <1>1, <2>1, <2>2, <2>3 DEF Inspects, Checked
<1>4. CASE pc' = Failing(17) /\ run' = run
  BY <1>1, <1>2, <1>4, SameRunTypes DEF Inspects, Onward, Checked
<1> QED BY <1>1, <1>2, <1>3, <1>4 DEF Checked

LEMMA RevalidateIsTaken ==
    ASSUME Types, Progress, Revalidate PROVE Inspects(33) /\ RunTypes'
<1> DEFINE v == Toolchain
<1>1. Checked("after", "emit", "after", v) /\ (pc' = "emit" /\ run'["after"] = v => Gain(33))
  BY RevalidateDoes DEF Gain, QuotedStages
<1>7. "source" \notin Written(33) /\ "ids" \notin Written(33)
  BY SilentWritten
<1> HIDE DEF v
<1>2. Stage = 33 /\ (pc' = "emit" => Stage' = 34)
      /\ (pc' = Failing(33) => Stage' = 0) /\ CheckFails = Failing(33)
  <2>1. pc = "after" /\ Failing(33) \in {"refused", "close"}
    BY <1>1 DEF Checked, Failing
  <2>2. Stage = 33 /\ 33 \in 10 .. 35
    BY <2>1, StageIs
  <2>3. CheckFails = Failing(33)
    BY <2>1, <2>2, ChecksFail
  <2> QED BY <2>1, <2>2, <2>3, StageBecomes
<1>3. CASE pc' = "emit" /\ Kept({"after"}) /\ run'["after"] = v
  <2>1. Kept(Written(33)) /\ "commands" \notin Written(33) /\ "said" \notin Written(33)
    BY <1>3, SilentWritten
  <2>2. RunTypes'
    BY <1>3, <1>7, <2>1, KeptRunTypes, SilentWritten
  <2>3. Onward(33)
    BY <1>1, <1>2, <1>3 DEF Onward
  <2> QED BY <1>1, <2>1, <2>2, <2>3 DEF Inspects, Checked
<1>4. CASE pc' = Failing(33) /\ run' = run
  BY <1>1, <1>2, <1>4, SameRunTypes DEF Inspects, Onward, Checked
<1> QED BY <1>1, <1>2, <1>3, <1>4 DEF Checked

LEMMA BindTranscriptIsTaken ==
    ASSUME Types, Progress, BindTranscript PROVE Inspects(13) /\ RunTypes'
<1>1. /\ pc = "transcript" /\ UNCHANGED <<machine, journal>> /\ run' = run
      /\ pc' = "before" \/ pc' = CheckFails
  BY BindTranscriptDoes
<1>2. Stage = 13 /\ (Stage' = 14 \/ (Stage' = 0 /\ pc' = Failing(13)))
  <2>1. CheckFails = Failing(13) /\ Failing(13) \in {"refused", "close"}
    BY <1>1, ChecksFail DEF Failing
  <2> QED BY <1>1, <2>1, StageIs, StageBecomes
<1>3. Gain(13)
  BY DEF Gain, QuotedStages
<1> QED BY <1>1, <1>2, <1>3, SameRunTypes DEF Inspects, Onward

LEMMA OwnedInventoryIsTaken ==
    ASSUME Types, Progress, OwnedInventory PROVE Inspects(30) /\ RunTypes'
<1>1. /\ pc = "inventory" /\ UNCHANGED <<machine, journal>> /\ run' = run
      /\ \/ pc' = "clean" /\ CacheIntact
         \/ pc' = CheckFails
  BY OwnedInventoryDoes
<1>2. Stage = 30
  BY <1>1, StageIs
<1>3. Len(run'.commands) = 20
  BY <1>1, <1>2 DEF Progress, RanBy
<1>4. \/ Stage' = 31 /\ CacheIntact
      \/ Stage' = 0 /\ pc' = Failing(30)
  <2>1. CheckFails = Failing(30) /\ Failing(30) \in {"refused", "close"}
    BY <1>1, ChecksFail DEF Failing
  <2> QED BY <1>1, <1>3, <2>1, StageBecomes DEF Late
<1>5. CacheIntact => Gain(30)
  BY DEF Gain, QuotedStages
<1> QED BY <1>1, <1>2, <1>4, <1>5, SameRunTypes DEF Inspects, Onward

LEMMA SelectHostIsTaken ==
    ASSUME Types, Progress, SelectHost PROVE Inspects(11) /\ RunTypes'
<1>1. /\ pc = "ancestry" /\ UNCHANGED <<machine, journal>>
      /\ \/ /\ pc' = "isolate" /\ Kept({"selection", "ids"}) /\ Selected(run'.selection)
            /\ run'.ids = [t \in Tools |-> IF t \in HostTools THEN disk[t] ELSE Unset]
         \/ pc' = "close" /\ run' = run
  BY SelectHostDoes
<1>2. Stage = 11 /\ (pc' = "isolate" => Stage' = 12) /\ (pc' = "close" => Stage' = 0)
  BY <1>1, StageIs, StageBecomes
<1>3. CASE pc' = "close" /\ run' = run
  BY <1>1, <1>2, <1>3, SameRunTypes DEF Inspects, Onward, Failing
<1>4. CASE /\ pc' = "isolate" /\ Kept({"selection", "ids"}) /\ Selected(run'.selection)
           /\ run'.ids = [t \in Tools |-> IF t \in HostTools THEN disk[t] ELSE Unset]
  <2>1. Gain(11)
    BY <1>4 DEF Gain, QuotedStages
  <2>2. run'.ids \in [Tools -> {0, 1, 9}]
    <3>1. \A t \in Tools : disk[t] \in {0, 1}
      BY DEF Types, MachineTypes, Tools, Things
    <3> QED BY <1>4, <3>1 DEF Unset
  <2>3. /\ Kept(Written(11)) /\ "commands" \notin Written(11) /\ "said" \notin Written(11)
        /\ "source" \notin Written(11)
    BY <1>4, SilentWritten
  <2>4. RunTypes'
    BY <2>2, <2>3, KeptRunTypes
  <2> QED BY <1>1, <1>2, <1>4, <2>1, <2>3, <2>4 DEF Inspects, Onward, Failing
<1> QED BY <1>1, <1>3, <1>4

LEMMA QualifyHostIsTaken ==
    ASSUME Types, Progress, QualifyHost PROVE Inspects(12) /\ RunTypes'
<1>1. /\ pc = "isolate" /\ UNCHANGED <<machine, journal>>
      /\ \/ /\ pc' = "transcript" /\ Kept({"cpus"}) /\ HostFits(scenario.host)
            /\ probe.at = "quiet" /\ run'.cpus = <<probe.settings, settings>>
         \/ pc' = "close" /\ run' = run
  BY QualifyHostDoes
<1>2. Stage = 12 /\ (pc' = "transcript" => Stage' = 13) /\ (pc' = "close" => Stage' = 0)
  BY <1>1, StageIs, StageBecomes
<1>3. CASE pc' = "close" /\ run' = run
  BY <1>1, <1>2, <1>3, SameRunTypes DEF Inspects, Onward, Failing
<1>4. CASE /\ pc' = "transcript" /\ Kept({"cpus"}) /\ HostFits(scenario.host)
           /\ probe.at = "quiet" /\ run'.cpus = <<probe.settings, settings>>
  <2>1. Gain(12)
    BY <1>4 DEF Gain, QuotedStages
  <2>2. /\ Kept(Written(12)) /\ "commands" \notin Written(12) /\ "said" \notin Written(12)
        /\ "source" \notin Written(12) /\ "ids" \notin Written(12)
    BY <1>4, SilentWritten
  <2>3. RunTypes'
    BY <2>2, KeptRunTypes
  <2> QED BY <1>1, <1>2, <1>4, <2>1, <2>2, <2>3 DEF Inspects, Onward, Failing
<1> QED BY <1>1, <1>3, <1>4

LEMMA BeginAttemptIsTaken ==
    ASSUME Types, Progress, BeginAttempt PROVE Begins /\ RunTypes'
<1> DEFINE source == [run.source EXCEPT !.lock = disk["work"], !.verifier = disk["work"]]
<1>1. /\ pc = "bundle" /\ UNCHANGED machine
      /\ \/ /\ pc' = "vswhere" /\ journal' = "open" /\ Kept({"source", "generated"})
            /\ run'.source = source /\ run'.generated = clock.now + clock.skew
         \/ pc' = "refused" /\ run' = run /\ journal' = journal
  BY BeginAttemptDoes
<1>2. Stage = 9 /\ (pc' = "vswhere" => Stage' = 10) /\ (pc' = "refused" => Stage' = 0)
  BY <1>1, StageIs, StageBecomes
<1>3. CASE pc' = "refused" /\ run' = run /\ journal' = journal
  BY <1>1, <1>2, <1>3, SameRunTypes DEF Begins, Onward, Failing
<1>4. CASE /\ pc' = "vswhere" /\ journal' = "open" /\ Kept({"source", "generated"})
           /\ run'.source = source /\ run'.generated = clock.now + clock.skew
  <2>1. Gain(9)
    BY <1>4 DEF Gain, QuotedStages
  <2>2. run'.source = [f \in SourceFields |-> run'.source[f]]
    BY <1>4 DEF Types, RunTypes, SourceFields
  <2>3. /\ Kept(Written(9)) /\ "commands" \notin Written(9) /\ "said" \notin Written(9)
        /\ "ids" \notin Written(9)
    BY <1>4, SilentWritten
  <2>4. RunTypes'
    BY <2>2, <2>3, KeptRunTypes
  <2> QED BY <1>1, <1>2, <1>4, <2>1, <2>3, <2>4 DEF Begins, Onward, Failing
<1> QED BY <1>1, <1>3, <1>4

LEMMA RetainCacheIsTaken ==
    ASSUME Types, Progress, RetainCache PROVE Retains /\ RunTypes'
<1>1. /\ pc = "retain" /\ UNCHANGED <<scenario, log, clock, history, journal>>
      /\ \/ /\ pc' = "graph" /\ Kept({"cached"}) /\ LockAllowed /\ run'.cached = Lock
            /\ disk' = [disk EXCEPT !["cache"] = 0]
         \/ pc' = "close" /\ run' = run /\ disk' = disk
  BY RetainCacheDoes
<1>2. Stage = 18 /\ (pc' = "graph" => Stage' = 19) /\ (pc' = "close" => Stage' = 0)
  BY <1>1, StageIs, StageBecomes
<1>3. CASE pc' = "close" /\ run' = run /\ disk' = disk
  BY <1>1, <1>2, <1>3, SameRunTypes DEF Retains, Onward, Failing
<1>4. CASE /\ pc' = "graph" /\ Kept({"cached"}) /\ LockAllowed /\ run'.cached = Lock
           /\ disk' = [disk EXCEPT !["cache"] = 0]
  <2>1. Gain(18)
    BY <1>4 DEF Gain, QuotedStages
  <2>2. /\ Kept(Written(18)) /\ "commands" \notin Written(18) /\ "said" \notin Written(18)
        /\ "source" \notin Written(18) /\ "ids" \notin Written(18)
    BY <1>4, SilentWritten
  <2>3. RunTypes'
    BY <2>2, KeptRunTypes
  <2> QED BY <1>1, <1>2, <1>4, <2>1, <2>2, <2>3 DEF Retains, Onward, Failing
<1> QED BY <1>1, <1>3, <1>4

LEMMA CopySourcesIsTaken ==
    ASSUME Types, Progress, CopySources PROVE Copies /\ RunTypes'
<1>1. /\ pc = "sources" /\ UNCHANGED <<scenario, disk, log, clock, run, journal>>
      /\ \/ pc' = "compile" /\ history' = [history EXCEPT !.used = Use({"sources"})]
         \/ pc' = "close" /\ history' = history
  BY CopySourcesDoes
<1>2. Stage = 20 /\ (pc' = "compile" => Stage' = 21) /\ (pc' = "close" => Stage' = 0)
  BY <1>1, StageIs, StageBecomes
<1>3. Gain(20)
  BY DEF Gain, QuotedStages
<1> QED BY <1>1, <1>2, <1>3, SameRunTypes DEF Copies, Onward, Failing

LEMMA EmitPassIsTaken ==
    ASSUME Types, Progress, EmitPass PROVE Emits /\ RunTypes'
<1>1. /\ pc = "emit" /\ UNCHANGED machine
      /\ \/ /\ pc' = "published" /\ journal' = "published" /\ Kept({"status", "artifacts"})
            /\ run'.status = "PASS" /\ run'.artifacts = 6
         \/ pc' = "close" /\ run' = run /\ journal' = journal
  BY EmitPassDoes
<1>2. /\ Stage = 34 /\ (pc' = "published" /\ run'.status = "PASS" => Stage' = 35)
      /\ (pc' = "close" => Stage' = 0)
  BY <1>1, StageIs, StageBecomes
<1>3. CASE pc' = "close" /\ run' = run /\ journal' = journal
  BY <1>1, <1>2, <1>3, SameRunTypes DEF Emits, Onward, Failing
<1>4. CASE /\ pc' = "published" /\ journal' = "published" /\ Kept({"status", "artifacts"})
           /\ run'.status = "PASS" /\ run'.artifacts = 6
  <2>1. Gain(34)
    BY <1>4 DEF Gain, QuotedStages
  <2>2. /\ Kept(Written(34)) /\ "commands" \notin Written(34) /\ "said" \notin Written(34)
        /\ "source" \notin Written(34) /\ "ids" \notin Written(34)
    BY <1>4, SilentWritten
  <2>3. RunTypes'
    BY <2>2, KeptRunTypes
  <2> QED BY <1>1, <1>2, <1>4, <2>1, <2>2, <2>3 DEF Emits, Onward, Failing
<1> QED BY <1>1, <1>3, <1>4

(* The ends of an attempt, and what else can happen at any stage.           *)
Ends ==
    /\ Stage = 0 /\ Stage' = 0 /\ UNCHANGED machine
    /\ \/ /\ pc = "close" /\ pc' = "published" /\ journal' = "published"
          /\ Kept({"status", "artifacts"}) /\ run'.status = "FAIL"
       \/ pc = "close" /\ pc' = "left" /\ run' = run /\ journal' = journal
       \/ /\ pc = "left" /\ pc' = "closed" /\ journal' = "published" /\ SameSource
          /\ Kept({"status", "artifacts", "commands"})
          /\ run'.status = "FAIL" /\ run'.commands = <<>>
IsKilled ==
    /\ journal = "open" /\ pc \notin {"left", "published", "closed"}
    /\ Stage' = 0 /\ pc' = "left" /\ UNCHANGED <<machine, run, journal>>
Changes(thing) ==
    /\ Stage' = Stage /\ UNCHANGED <<scenario, pc, run, journal>>
    /\ pc \notin {"refused", "published", "closed"}
    /\ history' = Changed(thing)
    /\ disk' = IF thing \in Things THEN [disk EXCEPT ![thing] = 1 - @] ELSE disk
    /\ log' = IF thing = "head" THEN Append(log, disk["work"]) ELSE log
    /\ \/ clock' = clock
       \/ thing = "clock" /\ \E by \in {-2, 2} : clock' = [clock EXCEPT !.skew = @ + by]
Idle == Stage' = Stage /\ UNCHANGED <<machine, pc, run, journal>>
InspectionStages == {1, 11, 12, 13, 14, 17, 30, 33}

LEMMA EndsAreTaken ==
    ASSUME Types, CloseFailed \/ Recover PROVE Ends /\ RunTypes'
<1>1. CASE CloseFailed
  <2>1. /\ pc = "close" /\ UNCHANGED machine
        /\ \/ /\ pc' = "published" /\ journal' = "published" /\ Kept({"status", "artifacts"})
              /\ run'.status = "FAIL"
           \/ pc' = "left" /\ run' = run /\ journal' = journal
    BY <1>1, CloseFailedDoes
  <2>2. Stage = 0 /\ Stage' = 0
    BY <2>1, StageIs, StageBecomes
  <2>3. Kept({"status", "artifacts"}) => RunTypes'
    BY KeptRunTypes
  <2> QED BY <2>1, <2>2, <2>3, SameRunTypes DEF Ends
<1>2. CASE Recover
  <2>1. /\ pc = "left" /\ pc' = "closed" /\ journal' = "published" /\ UNCHANGED machine
        /\ SameSource /\ Kept({"status", "artifacts", "commands"})
        /\ run'.status = "FAIL" /\ run'.commands = <<>>
    BY <1>2, RecoverDoes
  <2>2. Stage = 0 /\ Stage' = 0
    BY <2>1, StageIs, StageBecomes
  <2>3. /\ run'["source"] = run["source"] /\ run'["ids"] = run["ids"]
        /\ run'["said"] = run["said"]
    BY <2>1 DEF Kept, RunFields
  <2>4. RunTypes'
    BY <2>1, <2>3, TypesStay DEF Types, RunTypes
  <2> QED BY <2>1, <2>2, <2>4 DEF Ends
<1> QED BY <1>1, <1>2

LEMMA StageStays ==
    ASSUME pc' = pc, run' = run PROVE Stage' = Stage
BY DEF Stage, Late

LEMMA OtherSteps ==
    ASSUME Types
    PROVE  /\ Killed => IsKilled
           /\ Change => \E thing \in Things \cup {"head", "clock"} : Changes(thing)
           /\ Ancestry \/ Isolate \/ ProcessesMove \/ UNCHANGED vars => Idle
<1>1. Killed => IsKilled
  <2>1. Killed => /\ journal = "open" /\ pc \notin {"left", "published", "closed"} /\ pc' = "left"
                  /\ UNCHANGED <<machine, run, journal>>
    BY DEF Killed, Goto
  <2> QED BY <2>1, StageBecomes DEF IsKilled
<1>2. ASSUME Change PROVE \E thing \in Things \cup {"head", "clock"} : Changes(thing)
  <2>1. /\ UNCHANGED <<scenario, pc, run, journal>> /\ pc \notin {"refused", "published", "closed"}
        /\ \E thing \in scenario.mutable :
              /\ Touch(thing) \/ Commit(thing) \/ SetClock(thing)
              /\ history' = Changed(thing)
    BY <1>2 DEF Change, Over
  <2>2. PICK thing \in scenario.mutable :
              /\ Touch(thing) \/ Commit(thing) \/ SetClock(thing)
              /\ history' = Changed(thing)
    BY <2>1
  <2>3. thing \in Things \cup {"head", "clock"} /\ "head" \notin Things /\ "clock" \notin Things
    BY ExecutionAssumption DEF Types, MachineTypes, Things, Tools
  <2>4. /\ disk' = IF thing \in Things THEN [disk EXCEPT ![thing] = 1 - @] ELSE disk
        /\ log' = IF thing = "head" THEN Append(log, disk["work"]) ELSE log
        /\ \/ clock' = clock
           \/ thing = "clock" /\ \E by \in {-2, 2} : clock' = [clock EXCEPT !.skew = @ + by]
    BY <2>2, <2>3 DEF Touch, Commit, SetClock
  <2> QED BY <2>1, <2>2, <2>3, <2>4, StageStays DEF Changes
<1>3. Ancestry \/ Isolate \/ ProcessesMove \/ UNCHANGED vars => UNCHANGED <<machine, pc, run, journal>>
  BY DEF Ancestry, Isolate, ProcessesMove, vars
<1> QED BY <1>1, <1>2, <1>3, StageStays DEF Idle

LEMMA StepsTaken ==
    ASSUME Types, Progress, [Next]_vars
    PROVE  /\ RunTypes'
           /\ \/ \E k \in CommandStages : TakesCommand(k)
              \/ \E k \in InspectionStages : Inspects(k)
              \/ Begins \/ Retains \/ Copies \/ Emits \/ Ends \/ IsKilled \/ Idle
              \/ \E thing \in Things \cup {"head", "clock"} : Changes(thing)
<1>1. CASE Admit
  <2>1. \A k \in 2 .. 8 : k \in CommandStages
    BY DEF CommandStages
  <2>2. 1 \in InspectionStages
    BY DEF InspectionStages
  <2>3. CASE ReadSchemas
    BY <2>2, <2>3, ReadSchemasIsTaken
  <2>4. CASE BeginAttempt
    BY <2>4, BeginAttemptIsTaken
  <2>5. CASE History \/ HeadCommit \/ Tree \/ Branch \/ CleanBefore \/ ManifestBefore \/ Dependency
    <3>1. (TakesCommand(2) \/ TakesCommand(3) \/ TakesCommand(4) \/ TakesCommand(5)
             \/ TakesCommand(6) \/ TakesCommand(7) \/ TakesCommand(8)) /\ RunTypes'
      BY <2>5, HistoryIsTaken, HeadCommitIsTaken, TreeIsTaken, BranchIsTaken, CleanBeforeIsTaken,
         ManifestBeforeIsTaken, DependencyIsTaken
    <3> QED BY <2>1, <3>1
  <2> QED BY <1>1, <2>3, <2>4, <2>5 DEF Admit
<1>2. CASE Ancestry \/ Isolate \/ ProcessesMove \/ UNCHANGED vars
  <2>1. Idle /\ run' = run
    BY <1>2, OtherSteps DEF Idle
  <2> QED BY <2>1, SameRunTypes
<1>3. CASE Vswhere \/ SelectHost \/ QualifyHost \/ BindTranscript \/ SnapshotBefore
  <2>1. 10 \in CommandStages /\ {11, 12, 13, 14} \subseteq InspectionStages
    BY DEF CommandStages, InspectionStages
  <2> QED BY <1>3, <2>1, VswhereIsTaken, SelectHostIsTaken, QualifyHostIsTaken,
             BindTranscriptIsTaken, SnapshotBeforeIsTaken
<1>4. CASE Build
  <2>1. \A k \in {15, 16, 19, 31, 32} \cup (21 .. 29) : k \in CommandStages
    BY DEF CommandStages
  <2>2. {17, 30, 33} \subseteq InspectionStages
    BY DEF InspectionStages
  <2>3. CASE Rustc \/ Cargo \/ Graph \/ CleanAfter \/ ManifestAfter
    <3>1. (TakesCommand(15) \/ TakesCommand(16) \/ TakesCommand(19) \/ TakesCommand(31)
             \/ TakesCommand(32)) /\ RunTypes'
      BY <2>3, RustcIsTaken, CargoIsTaken, GraphIsTaken, CleanAfterIsTaken, ManifestAfterIsTaken
    <3> QED BY <2>1, <3>1
  <2>4. CASE Compile \/ Archive \/ Link \/ RunProbe \/ Inspect \/ Inputs \/ Format \/ Clippy \/ Test
    <3>1. (TakesCommand(21) \/ TakesCommand(22) \/ TakesCommand(23) \/ TakesCommand(24)
             \/ TakesCommand(25) \/ TakesCommand(26) \/ TakesCommand(27) \/ TakesCommand(28)
             \/ TakesCommand(29)) /\ RunTypes'
      BY <2>4, CompileIsTaken, ArchiveIsTaken, LinkIsTaken, RunProbeIsTaken, InspectIsTaken,
         InputsIsTaken, FormatIsTaken, ClippyIsTaken, TestIsTaken
    <3> QED BY <2>1, <3>1
  <2>5. CASE RustIdentity \/ OwnedInventory \/ Revalidate
    BY <2>2, <2>5, RustIdentityIsTaken, OwnedInventoryIsTaken, RevalidateIsTaken
  <2>6. CASE RetainCache \/ CopySources
    BY <2>6, RetainCacheIsTaken, CopySourcesIsTaken
  <2> QED BY <1>4, <2>3, <2>4, <2>5, <2>6 DEF Build
<1>5. CASE Finish
  BY <1>5, EmitPassIsTaken, EndsAreTaken DEF Finish
<1>6. CASE Killed \/ Change
  <2>1. /\ IsKilled \/ \E thing \in Things \cup {"head", "clock"} : Changes(thing)
        /\ run' = run
    BY <1>6, OtherSteps DEF IsKilled, Changes
  <2> QED BY <2>1, SameRunTypes
<1> QED BY <1>1, <1>2, <1>3, <1>4, <1>5, <1>6 DEF Next, ProbeHost
-----------------------------------------------------------------------------
(* The types and the progress of a run hold always.                         *)
LEMMA StartsTyped == ASSUME Init PROVE Types /\ Progress
<1>1. /\ scenario \in Scenarios /\ disk = [t \in Things |-> 0] /\ log = <<0>>
      /\ clock = [now |-> 10, skew |-> 0] /\ pc = "schemas" /\ run = NoRun /\ journal = "none"
      /\ history = [changes |-> [t \in Things \cup {"head", "clock"} |-> 0],
                    admission |-> FALSE, early |-> FALSE, used |-> {}]
  BY DEF Init
<1>2. MachineTypes
  <2>1. history \in HistoryType
    BY <1>1 DEF HistoryType
  <2>2. log \in Seq({0, 1}) /\ log # <<>>
    BY <1>1
  <2>3. disk \in [Things -> {0, 1}] /\ clock \in [now : Nat, skew : Int]
    BY <1>1
  <2> QED BY <1>1, <2>1, <2>2, <2>3 DEF MachineTypes
<1>3. RunTypes
  <2>1. run = [f \in RunFields |-> run[f]]
    BY <1>1 DEF NoRun, RunFields
  <2>2. run.source = [f \in SourceFields |-> run.source[f]]
    BY <1>1 DEF NoRun, Source, SourceFields
  <2>3. run.commands = <<>>
    BY <1>1 DEF NoRun
  <2>4. run.ids \in [Tools -> {0, 1, 9}] /\ run.said \in [Quoted -> {0, 1, 9}]
    BY <1>1 DEF NoRun, Unset
  <2>5. run.commands \in Seq(CommandType)
    BY <2>3
  <2> QED BY <2>1, <2>2, <2>4, <2>5 DEF RunTypes
<1>4. Stage = 1 /\ RanBy(1) = 0
  BY <1>1, StageIs DEF RanBy
<1>5. run.commands = <<>> /\ Len(run.commands) = 0
  BY <1>1 DEF NoRun
<1>6. Progress
  BY <1>1, <1>4, <1>5 DEF Progress
<1> QED BY <1>2, <1>3, <1>6 DEF Types

LEMMA CommandHistory ==
    ASSUME Types, NEW step, NEW early \in BOOLEAN, NEW by \in Shift,
           history' = AfterCommand(step, early, by)
    PROVE  /\ history' \in HistoryType
           /\ history'.changes = IF by = 0 THEN history.changes
                                 ELSE [history.changes EXCEPT !["clock"] = @ + 1]
           /\ history'.admission = history.admission
           /\ history'.early = (history.early \/ (step = "vswhere" /\ early))
           /\ history'.used = Use(Needs(step) \cup Reads(step))
<1> DEFINE things == Needs(step) \cup Reads(step)
           changes == IF by = 0 THEN history.changes
                      ELSE [history.changes EXCEPT !["clock"] = @ + 1]
           used == Use(things)
           ended == history.early \/ (step = "vswhere" /\ early)
<1>1. history \in HistoryType /\ disk \in [Things -> {0, 1}]
  BY DEF Types, MachineTypes
<1>2. things \subseteq Things
  BY WhatIsSaid
<1>3. used \in SUBSET (Things \X {0, 1})
  BY <1>1, <1>2 DEF Use, HistoryType
<1>4. changes \in [Things \cup {"head", "clock"} -> Nat]
  BY <1>1 DEF HistoryType
<1>5. ended \in BOOLEAN
  BY <1>1 DEF HistoryType
<1>6. AfterCommand(step, early, by) =
        [changes |-> changes, admission |-> history.admission, early |-> ended, used |-> used]
  <2>1. history.changes["clock"] = history.changes["clock"]
    OBVIOUS
  <2>2. [history.changes EXCEPT !["clock"] =
              IF by = 0 THEN history.changes["clock"] ELSE history.changes["clock"] + 1] = changes
    BY <1>1 DEF HistoryType
  <2>3. AfterCommand(step, early, by) =
          [history EXCEPT !.changes = [history.changes EXCEPT !["clock"] =
                               IF by = 0 THEN history.changes["clock"]
                               ELSE history.changes["clock"] + 1],
                          !.early = ended, !.used = used]
    BY <1>1 DEF AfterCommand, HistoryType
  <2> HIDE DEF changes, ended, used
  <2> QED BY <1>1, <2>2, <2>3 DEF HistoryType
<1> HIDE DEF changes, ended, used, things
<1>7. history' \in HistoryType
  BY <1>1, <1>3, <1>4, <1>5, <1>6 DEF HistoryType
<1> QED BY <1>6, <1>7 DEF changes, ended, used, things

LEMMA ChangeHistory ==
    ASSUME Types, NEW thing \in Things \cup {"head", "clock"}, history' = Changed(thing)
    PROVE  /\ history' \in HistoryType
           /\ history'.changes = [history.changes EXCEPT ![thing] = @ + 1]
           /\ history'.admission =
                 (history.admission \/ (Admitting /\ thing \in {"work", "head"}))
           /\ history'.early = history.early /\ history'.used = history.used
<1> DEFINE changes == [history.changes EXCEPT ![thing] = @ + 1]
           admission == history.admission \/ (Admitting /\ thing \in {"work", "head"})
<1>1. history \in HistoryType
  BY DEF Types, MachineTypes
<1>2. changes \in [Things \cup {"head", "clock"} -> Nat]
  BY <1>1 DEF HistoryType
<1>3. admission \in BOOLEAN
  BY <1>1 DEF HistoryType, Admitting
<1>4. Changed(thing) = [history EXCEPT !.changes = changes, !.admission = admission]
  BY <1>1 DEF Changed, HistoryType
<1> HIDE DEF changes, admission
<1>5. Changed(thing) = [changes |-> changes, admission |-> admission, early |-> history.early,
                        used |-> history.used]
  BY <1>1, <1>4 DEF HistoryType
<1>6. history' \in HistoryType
  BY <1>1, <1>2, <1>3, <1>5 DEF HistoryType
<1> QED BY <1>5, <1>6 DEF changes, admission

LEMMA CopyHistory ==
    ASSUME Types, history' = [history EXCEPT !.used = Use({"sources"})]
    PROVE  /\ history' \in HistoryType /\ history'.changes = history.changes
           /\ history'.admission = history.admission /\ history'.early = history.early
           /\ history'.used = Use({"sources"})
<1> DEFINE used == Use({"sources"})
<1>1. history \in HistoryType /\ disk \in [Things -> {0, 1}]
  BY DEF Types, MachineTypes
<1>2. used \in SUBSET (Things \X {0, 1})
  BY <1>1 DEF Use, HistoryType, Things
<1> HIDE DEF used
<1>3. history' = [changes |-> history.changes, admission |-> history.admission,
                  early |-> history.early, used |-> used]
  BY <1>1 DEF HistoryType, used
<1> QED BY <1>1, <1>2, <1>3 DEF HistoryType, used

LEMMA CommandsGrow ==
    ASSUME Types, Progress, NEW k \in CommandStages, TakesCommand(k)
    PROVE  /\ Stage = k /\ Len(run.commands) = RanBy(k) /\ RanBy(k) \in 0 .. 21
           /\ run'.commands \in Seq(CommandType) /\ Len(run'.commands) = RanBy(k) + 1
           /\ \A i \in 1 .. RanBy(k) : run'.commands[i] = run.commands[i]
           /\ \E passed \in BOOLEAN, early \in BOOLEAN, by \in Shift :
                 /\ Tried(StepAt(k), passed, early, by) /\ (Stage' # 0 => passed)
                 /\ Entry(StepAt(k), passed, early, by) \in CommandType
                 /\ run'.commands = Append(run.commands, Entry(StepAt(k), passed, early, by))
                 /\ run'.commands[RanBy(k) + 1] = Entry(StepAt(k), passed, early, by)
<1>1. Stage = k /\ RanBy(k) \in 0 .. 21 /\ StepAt(k) \in StepNames
  BY StepsAre DEF TakesCommand, Onward
<1>2. Len(run.commands) = RanBy(k) /\ run.commands \in Seq(CommandType)
  BY <1>1, CommandStagesAre DEF Progress, Types, RunTypes
<1>3. PICK passed \in BOOLEAN, early \in BOOLEAN, by \in Shift :
          /\ Tried(StepAt(k), passed, early, by) /\ (Stage' # 0 => passed)
          /\ run'.commands = Append(run.commands, Entry(StepAt(k), passed, early, by))
  BY DEF TakesCommand
<1>4. Entry(StepAt(k), passed, early, by) \in CommandType
  BY <1>1, EntryIsCommand
<1> DEFINE n == RanBy(k)
           entry == Entry(StepAt(k), passed, early, by)
<1>5. ASSUME NEW s \in Seq(CommandType), NEW m \in 0 .. 21, Len(s) = m, NEW e \in CommandType
      PROVE  /\ Append(s, e) \in Seq(CommandType) /\ Len(Append(s, e)) = m + 1
             /\ Append(s, e)[m + 1] = e /\ \A i \in 1 .. m : Append(s, e)[i] = s[i]
  BY <1>5
<1> HIDE DEF entry, n
<1>6. /\ run'.commands \in Seq(CommandType) /\ Len(run'.commands) = n + 1
      /\ run'.commands[n + 1] = entry /\ \A i \in 1 .. n : run'.commands[i] = run.commands[i]
  BY <1>1, <1>2, <1>3, <1>4, <1>5 DEF entry, n
<1> QED BY <1>1, <1>2, <1>3, <1>4, <1>6 DEF entry, n

LEMMA MachineTypesStay ==
    ASSUME Types, Progress, [Next]_vars PROVE MachineTypes'
<1>1. MachineTypes
  BY DEF Types
<1>2. CASE UNCHANGED machine
  BY <1>1, <1>2 DEF MachineTypes, machine
<1>3. ASSUME NEW k \in CommandStages, TakesCommand(k) PROVE MachineTypes'
  <2>1. PICK passed \in BOOLEAN, early \in BOOLEAN, by \in Shift :
            Tried(StepAt(k), passed, early, by)
    BY <1>3 DEF TakesCommand
  <2>2. history' \in HistoryType
    BY <2>1, CommandHistory DEF Tried
  <2>3. by \in Int
    BY DEF Shift
  <2>4. clock' \in [now : Nat, skew : Int]
    BY <1>1, <2>1, <2>3 DEF Tried, MachineTypes
  <2> QED BY <1>1, <1>3, <2>2, <2>4 DEF TakesCommand, MachineTypes
<1>4. CASE Retains
  BY <1>1, <1>4 DEF Retains, MachineTypes, Things
<1>5. CASE Copies
  BY <1>1, <1>5, CopyHistory DEF Copies, MachineTypes
<1>6. ASSUME NEW thing \in Things \cup {"head", "clock"}, Changes(thing) PROVE MachineTypes'
  <2>1. history' \in HistoryType
    BY <1>6, ChangeHistory DEF Changes
  <2>2. disk' \in [Things -> {0, 1}]
    BY <1>1, <1>6 DEF Changes, MachineTypes
  <2>3. log' \in Seq({0, 1}) /\ log' # <<>>
    <3>1. disk["work"] \in {0, 1}
      BY <1>1 DEF MachineTypes, Things
    <3>2. ASSUME NEW s \in Seq({0, 1}), NEW e \in {0, 1}
          PROVE  Append(s, e) \in Seq({0, 1}) /\ Append(s, e) # <<>>
      <4>1. Len(Append(s, e)) = Len(s) + 1 /\ Len(s) \in Nat
        OBVIOUS
      <4>2. Len(<<>>) = 0
        OBVIOUS
      <4> QED BY <4>1, <4>2
    <3> QED BY <1>1, <1>6, <3>1, <3>2 DEF Changes, MachineTypes
  <2>4. clock' \in [now : Nat, skew : Int]
    BY <1>1, <1>6 DEF Changes, MachineTypes
  <2> QED BY <1>1, <1>6, <2>1, <2>2, <2>3, <2>4 DEF Changes, MachineTypes
<1> QED BY <1>2, <1>3, <1>4, <1>5, <1>6, StepsTaken DEF Inspects, Begins, Emits, Ends, IsKilled, Idle

(* Where a step leads, and what of Progress follows from that alone.        *)
LEMMA ProgressFrom ==
    ASSUME Types, Progress, run'.commands = run.commands, Stage' # 0 => RanBy(Stage') = RanBy(Stage),
           Stage' # 0 => Stage # 0, Stage' \in 1 .. 9 => journal' = "none",
           Stage' \in 10 .. 34 \/ pc' \in {"close", "left"} => journal' = "open",
           Stage' = 0 => pc' \in {"refused", "close", "left", "published", "closed"},
           Stage' = 0 /\ pc' \in {"published", "closed"} => run'.status = "FAIL",
           pc' \in {"published", "closed"} <=> journal' = "published"
    PROVE  Progress'
BY DEF Progress

LEMMA ProgressOfCommand ==
    ASSUME Types, Progress, NEW k \in CommandStages, TakesCommand(k) PROVE Progress'
<1>1. /\ Stage = k /\ Len(run.commands) = RanBy(k) /\ RanBy(k) \in 0 .. 21
      /\ run'.commands \in Seq(CommandType) /\ Len(run'.commands) = RanBy(k) + 1
      /\ \A i \in 1 .. RanBy(k) : run'.commands[i] = run.commands[i]
  BY CommandsGrow
<1>2. run'.commands[RanBy(k) + 1].step = Plan[RanBy(k) + 1]
  <2>1. PICK passed, early, by : run'.commands[RanBy(k) + 1] = Entry(StepAt(k), passed, early, by)
    BY CommandsGrow
  <2>2. run'.commands[RanBy(k) + 1].step = StepAt(k)
    BY <2>1 DEF Entry
  <2> QED BY <2>2 DEF StepAt
<1>3. \A i \in 1 .. RanBy(k) : run'.commands[i].step = Plan[i]
  BY <1>1 DEF Progress
<1>4. \A i \in 1 .. RanBy(k) + 1 : run'.commands[i].step = Plan[i]
  <2>1. \A i \in 1 .. RanBy(k) + 1 : i \in 1 .. RanBy(k) \/ i = RanBy(k) + 1
    BY <1>1
  <2> QED BY <1>2, <1>3, <2>1
<1>5. Stage' # 0 => Len(run'.commands) = RanBy(Stage')
  BY <1>1, StepsAre DEF TakesCommand, Onward
<1>6. /\ k \in 2 .. 32 /\ k \notin {9, 11, 12, 13, 14, 17, 18, 20, 30, 33, 34}
      /\ Stage' = k + 1 \/ (Stage' = 0 /\ pc' = IF k < 10 THEN "refused" ELSE "close")
      /\ journal' = journal
  <2>1. k \in 2 .. 32 /\ k # 9
    BY DEF CommandStages
  <2> QED BY <2>1 DEF TakesCommand, Onward, Failing, CommandStages
<1>7. pc' \notin {"published", "closed"} /\ journal # "published"
  <2>1. Stage' # 35 /\ (Stage' = 0 => pc' \in {"refused", "close"})
    BY <1>6
  <2>2. Stage' \in 0 .. 35 /\ (pc' \in {"published", "closed"} => Stage' \in {0, 35})
    BY StageBecomes
  <2>3. pc \notin {"published", "closed"}
    BY <1>1, <1>6, StageIs
  <2> QED BY <2>1, <2>2, <2>3 DEF Progress
<1>8. /\ k < 9 => journal = "none"
      /\ k > 9 => journal = "open"
  <2>1. (k \in 1 .. 9 => journal = "none") /\ (k \in 10 .. 34 => journal = "open")
    BY <1>1 DEF Progress
  <2>2. (k < 9 => k \in 1 .. 9) /\ (k > 9 => k \in 10 .. 34)
    BY <1>6
  <2> QED BY <2>1, <2>2
<1>9. Len(run'.commands) <= 22
  <2>1. \A n \in 0 .. 21 : n + 1 <= 22
    OBVIOUS
  <2> QED BY <1>1, <2>1
<1>10. \A i \in 1 .. Len(run'.commands) : run'.commands[i].step = Plan[i]
  BY <1>1, <1>4
<1>11. /\ Stage' \in 1 .. 9 => k < 9
       /\ Stage' \in 10 .. 34 \/ pc' \in {"close", "left"} => k > 9
  <2>1. pc' \in {"close", "left"} => Stage' = 0
    BY StageBecomes
  <2>2. pc' \in {"close", "left"} => k > 9
    BY <1>6, <2>1
  <2>3. (Stage' \in 1 .. 9 => k < 9) /\ (Stage' \in 10 .. 34 => k > 8)
    BY <1>6
  <2> QED BY <1>6, <2>2, <2>3
<1>12. /\ Stage' \in 1 .. 9 => journal' = "none"
       /\ Stage' \in 10 .. 34 \/ pc' \in {"close", "left"} => journal' = "open"
       /\ Stage' = 0 => pc' \in {"refused", "close", "left", "published", "closed"}
       /\ Stage' = 0 /\ pc' \in {"published", "closed"} => run'.status = "FAIL"
       /\ pc' \in {"published", "closed"} <=> journal' = "published"
  BY <1>6, <1>7, <1>8, <1>11
<1> QED BY <1>5, <1>9, <1>10, <1>12 DEF Progress

LEMMA SilentStages ==
    /\ RanBy(1) = 0 /\ RanBy(2) = 0 /\ RanBy(9) = 7 /\ RanBy(10) = 7 /\ RanBy(18) = 10
    /\ RanBy(19) = 10 /\ RanBy(20) = 11 /\ RanBy(21) = 11 /\ RanBy(34) = 22 /\ RanBy(35) = 22
    /\ \A k \in InspectionStages : RanBy(k + 1) = RanBy(k) /\ k \in 1 .. 33 /\ k \notin {9, 10}
<1>1. ASSUME NEW k \in InspectionStages
      PROVE  RanBy(k + 1) = RanBy(k) /\ k \in 1 .. 33 /\ k \notin {9, 10}
  <2>1. k = 1 \/ k = 11 \/ k = 12 \/ k = 13 \/ k = 14 \/ k = 17 \/ k = 30 \/ k = 33
    BY DEF InspectionStages
  <2> QED BY <2>1 DEF RanBy
<1>2. /\ RanBy(1) = 0 /\ RanBy(2) = 0 /\ RanBy(9) = 7 /\ RanBy(10) = 7 /\ RanBy(18) = 10
      /\ RanBy(19) = 10 /\ RanBy(20) = 11 /\ RanBy(21) = 11 /\ RanBy(34) = 22 /\ RanBy(35) = 22
  BY DEF RanBy
<1> QED BY <1>1, <1>2

(* A step that goes on, or ends the attempt, and publishes nothing.         *)
LEMMA ProgressOfStep ==
    ASSUME Types, Progress, NEW k \in 1 .. 33, Onward(k), run'.commands = run.commands,
           RanBy(k + 1) = RanBy(k), k # 9 => journal' = journal,
           k = 9 => journal' = IF Stage' = 10 THEN "open" ELSE journal
    PROVE  Progress'
<1>1. /\ Stage = k
      /\ Stage' = k + 1 \/ (Stage' = 0 /\ pc' = IF k < 10 THEN "refused" ELSE "close")
  BY DEF Onward, Failing
<1>2. /\ k \in 1 .. 9 => journal = "none"
      /\ k \in 10 .. 34 => journal = "open"
  BY <1>1 DEF Progress
<1>3. journal \in {"none", "open"} /\ (k < 10 => journal = "none") /\ (k > 9 => journal = "open")
  <2>1. (k < 10 => k \in 1 .. 9) /\ (k > 9 => k \in 10 .. 34)
    OBVIOUS
  <2> QED BY <1>2, <2>1
<1>4. pc' \notin {"published", "closed"}
  <2>1. pc' \in {"published", "closed"} => Stage' \in {0, 35}
    BY StageBecomes
  <2> QED BY <1>1, <2>1
<1>5. pc' \in {"close", "left"} => Stage' = 0
  BY StageBecomes
<1>6. Stage' = 0 => k > 9 \/ pc' = "refused"
  BY <1>1
<1>7. /\ Stage' \in 1 .. 9 => journal' = "none"
      /\ Stage' \in 10 .. 34 => journal' = "open"
      /\ Stage' = 0 /\ k > 9 => journal' = "open"
  <2>1. CASE k = 9
    BY <1>1, <1>3, <2>1
  <2>2. CASE k < 9
    <3>1. Stage' \notin 10 .. 34 /\ journal' = "none"
      BY <1>1, <1>3, <2>2
    <3> QED BY <2>2, <3>1
  <2>3. CASE k > 9
    <3>1. Stage' \notin 1 .. 9 /\ journal' = "open"
      BY <1>1, <1>3, <2>3
    <3> QED BY <3>1
  <2> QED BY <2>1, <2>2, <2>3
<1>8. journal' # "published"
  BY <1>3
<1>9. /\ Stage' # 0 => RanBy(Stage') = RanBy(Stage)
      /\ Stage' # 0 => Stage # 0
  BY <1>1
<1>10. /\ Stage' \in 10 .. 34 \/ pc' \in {"close", "left"} => journal' = "open"
       /\ Stage' = 0 => pc' \in {"refused", "close", "left", "published", "closed"}
       /\ Stage' = 0 /\ pc' \in {"published", "closed"} => run'.status = "FAIL"
       /\ pc' \in {"published", "closed"} <=> journal' = "published"
  BY <1>1, <1>4, <1>5, <1>6, <1>7, <1>8
<1> QED BY <1>7, <1>9, <1>10, ProgressFrom

LEMMA ProgressStays ==
    ASSUME Types, Progress, [Next]_vars PROVE Progress'
<1>1. CASE \E k \in CommandStages : TakesCommand(k)
  BY <1>1, ProgressOfCommand
<1>2. ASSUME NEW k \in InspectionStages, Inspects(k) PROVE Progress'
  <2>1. "commands" \in RunFields \ Written(k)
    BY DEF RunFields, Written
  <2>2. run'.commands = run.commands /\ k \in 1 .. 33 /\ k # 9 /\ RanBy(k + 1) = RanBy(k)
    BY <1>2, <2>1, SilentStages DEF Inspects, Kept
  <2> QED BY <1>2, <2>2, ProgressOfStep DEF Inspects
<1>3. CASE Begins
  <2>1. "commands" \in RunFields \ Written(9)
    BY DEF RunFields, Written
  <2>2. run'.commands = run.commands /\ 9 \in 1 .. 33 /\ RanBy(9 + 1) = RanBy(9)
    BY <1>3, <2>1, SilentStages DEF Begins, Kept
  <2> QED BY <1>3, <2>2, ProgressOfStep DEF Begins
<1>4. CASE Retains
  <2>1. "commands" \in RunFields \ Written(18)
    BY DEF RunFields, Written
  <2>2. run'.commands = run.commands /\ 18 \in 1 .. 33 /\ RanBy(18 + 1) = RanBy(18) /\ 18 # 9
    BY <1>4, <2>1, SilentStages DEF Retains, Kept
  <2> QED BY <1>4, <2>2, ProgressOfStep DEF Retains
<1>5. CASE Copies
  <2>1. run'.commands = run.commands /\ 20 \in 1 .. 33 /\ RanBy(20 + 1) = RanBy(20) /\ 20 # 9
    BY <1>5, SilentStages DEF Copies
  <2> QED BY <1>5, <2>1, ProgressOfStep DEF Copies
<1>6. CASE Emits
  <2>1. "commands" \in RunFields \ Written(34)
    BY DEF RunFields, Written
  <2>2. run'.commands = run.commands /\ Stage = 34 /\ journal = "open"
    BY <1>6, <2>1 DEF Emits, Kept, Onward, Progress
  <2>3. \/ Stage' = 35 /\ pc' = "published" /\ journal' = "published"
        \/ Stage' = 0 /\ pc' = "close" /\ journal' = "open"
    BY <1>6, <2>2 DEF Emits, Onward
  <2> QED BY <2>2, <2>3, SilentStages, ProgressFrom
<1>7. CASE Ends
  <2>1. /\ Stage = 0 /\ Stage' = 0
        /\ \/ /\ pc = "close" /\ pc' = "published" /\ journal' = "published"
              /\ Kept({"status", "artifacts"}) /\ run'.status = "FAIL"
           \/ pc = "close" /\ pc' = "left" /\ run' = run /\ journal' = journal
           \/ /\ pc = "left" /\ pc' = "closed" /\ journal' = "published"
              /\ run'.status = "FAIL" /\ run'.commands = <<>>
    BY <1>7 DEF Ends
  <2>2. CASE /\ pc = "close" /\ pc' = "published" /\ journal' = "published"
             /\ Kept({"status", "artifacts"}) /\ run'.status = "FAIL"
    <3>1. run'.commands = run.commands
      BY <2>2 DEF Kept, RunFields
    <3> QED BY <2>1, <2>2, <3>1, ProgressFrom
  <2>3. CASE pc = "close" /\ pc' = "left" /\ run' = run /\ journal' = journal
    <3>1. journal = "open"
      BY <2>3 DEF Progress
    <3> QED BY <2>1, <2>3, <3>1, ProgressFrom
  <2>4. CASE /\ pc = "left" /\ pc' = "closed" /\ journal' = "published"
             /\ run'.status = "FAIL" /\ run'.commands = <<>>
    <3>1. Len(run'.commands) = 0 /\ 1 .. 0 = {}
      BY <2>4
    <3> QED BY <2>1, <2>4, <3>1 DEF Progress
  <2> QED BY <2>1, <2>2, <2>3, <2>4
<1>8. CASE IsKilled
  <2>1. /\ journal = "open" /\ pc' = "left" /\ Stage' = 0 /\ run' = run /\ journal' = journal
    BY <1>8 DEF IsKilled
  <2> QED BY <2>1, ProgressFrom
<1>9. CASE Idle \/ \E thing \in Things \cup {"head", "clock"} : Changes(thing)
  <2>1. Stage' = Stage /\ UNCHANGED <<pc, run, journal>>
    BY <1>9 DEF Idle, Changes
  <2> QED BY <2>1 DEF Progress
<1> QED BY <1>1, <1>2, <1>3, <1>4, <1>5, <1>6, <1>7, <1>8, <1>9, StepsTaken

(* Every state is well typed and every run follows the plan: the commands   *)
(* recorded are the plan's, as many as the stage says, the attempt is       *)
(* journalled from its beginning to its end, and a run is published once    *)
(* its journal says so.                                                     *)
THEOREM RunFollowsPlan == Spec => [](Types /\ Progress)
<1>1. Init => Types /\ Progress
  BY StartsTyped
<1>2. Types /\ Progress /\ [Next]_vars => (Types /\ Progress)'
  BY StepsTaken, MachineTypesStay, ProgressStays DEF Types
<1> QED BY <1>1, <1>2, PTL DEF Spec
-----------------------------------------------------------------------------
(* What a step does, by what it does it to.                                 *)
UsedAt(k) == IF k = 20 THEN {"sources"} ELSE Needs(StepAt(k)) \cup Reads(StepAt(k))
Count(thing) == history.changes[thing]
StaysPut(thing) == disk'[thing] = disk[thing] /\ Count(thing)' = Count(thing)

LEMMA HowThingsMove ==
    ASSUME Types, Progress, [Next]_vars, NEW thing \in Things
    PROVE  \/ StaysPut(thing)
           \/ /\ disk'[thing] = 1 - disk[thing] /\ Count(thing)' = Count(thing) + 1
              /\ history'.used = history.used /\ run' = run /\ Stage' = Stage
           \/ /\ thing = "cache" /\ Stage = 18 /\ disk'[thing] = 0
              /\ Count(thing)' = Count(thing) /\ history'.used = history.used
<1>1. /\ disk \in [Things -> {0, 1}] /\ history \in HistoryType
      /\ history.changes \in [Things \cup {"head", "clock"} -> Nat]
  BY DEF Types, MachineTypes, HistoryType
<1>2. CASE UNCHANGED machine
  BY <1>2 DEF machine, StaysPut, Count
<1>3. ASSUME NEW k \in CommandStages, TakesCommand(k) PROVE StaysPut(thing)
  <2>1. PICK passed \in BOOLEAN, early \in BOOLEAN, by \in Shift :
            Tried(StepAt(k), passed, early, by)
    BY <1>3 DEF TakesCommand
  <2>2. history'.changes = IF by = 0 THEN history.changes
                           ELSE [history.changes EXCEPT !["clock"] = @ + 1]
    BY <2>1, CommandHistory DEF Tried
  <2>3. thing # "clock"
    BY DEF Things, Tools
  <2>4. history'.changes[thing] = history.changes[thing]
    BY <1>1, <2>2, <2>3
  <2> QED BY <1>3, <2>4 DEF TakesCommand, StaysPut, Count
<1>4. CASE Retains
  <2>1. /\ history' = history /\ Stage = 18
        /\ disk' = disk \/ disk' = [disk EXCEPT !["cache"] = 0]
    BY <1>4 DEF Retains, Onward
  <2>2. CASE thing = "cache" /\ disk' = [disk EXCEPT !["cache"] = 0]
    BY <1>1, <2>1, <2>2 DEF Count
  <2>3. CASE thing # "cache" \/ disk' = disk
    BY <1>1, <2>1, <2>3 DEF StaysPut, Count
  <2> QED BY <2>1, <2>2, <2>3
<1>5. CASE Copies
  <2>1. history'.changes = history.changes
    BY <1>5, CopyHistory DEF Copies
  <2> QED BY <1>5, <2>1 DEF Copies, StaysPut, Count
<1>6. ASSUME NEW other \in Things \cup {"head", "clock"}, Changes(other)
      PROVE  \/ StaysPut(thing)
             \/ /\ disk'[thing] = 1 - disk[thing] /\ Count(thing)' = Count(thing) + 1
                /\ history'.used = history.used /\ run' = run /\ Stage' = Stage
  <2>1. /\ history'.changes = [history.changes EXCEPT ![other] = @ + 1]
        /\ history'.used = history.used
    BY <1>6, ChangeHistory DEF Changes
  <2>2. /\ disk' = IF other \in Things THEN [disk EXCEPT ![other] = 1 - @] ELSE disk
        /\ run' = run /\ Stage' = Stage
    BY <1>6 DEF Changes
  <2>3. CASE other = thing
    BY <1>1, <2>1, <2>2, <2>3 DEF Count
  <2>4. CASE other # thing
    BY <1>1, <2>1, <2>2, <2>4 DEF Count, StaysPut
  <2> QED BY <2>3, <2>4
<1> QED BY <1>2, <1>3, <1>4, <1>5, <1>6, StepsTaken DEF Inspects, Begins, Emits, Ends, IsKilled, Idle

LEMMA HowUsesGrow ==
    ASSUME Types, Progress, [Next]_vars
    PROVE  \/ history'.used = history.used
           \/ /\ Stage \in CommandStages \cup {20} /\ history'.used = Use(UsedAt(Stage))
              /\ (Stage # 20 => TakesCommand(Stage)) /\ \A thing \in Things : StaysPut(thing)
<1>1. CASE UNCHANGED machine
  BY <1>1 DEF machine
<1>2. ASSUME NEW k \in CommandStages, TakesCommand(k)
      PROVE  history'.used = Use(UsedAt(k)) /\ Stage = k /\ \A thing \in Things : StaysPut(thing)
  <2>1. PICK passed \in BOOLEAN, early \in BOOLEAN, by \in Shift :
            Tried(StepAt(k), passed, early, by)
    BY <1>2 DEF TakesCommand
  <2>2. /\ history'.used = Use(Needs(StepAt(k)) \cup Reads(StepAt(k)))
        /\ history'.changes = IF by = 0 THEN history.changes
                              ELSE [history.changes EXCEPT !["clock"] = @ + 1]
    BY <2>1, CommandHistory DEF Tried
  <2>3. k # 20 /\ Stage = k
    BY <1>2, CommandStagesAre DEF TakesCommand, Onward
  <2>4. ASSUME NEW thing \in Things PROVE StaysPut(thing)
    <3>1. thing # "clock"
      BY DEF Things, Tools
    <3>2. history.changes \in [Things \cup {"head", "clock"} -> Nat]
      BY DEF Types, MachineTypes, HistoryType
    <3> QED BY <1>2, <2>2, <3>1, <3>2 DEF TakesCommand, StaysPut, Count
  <2> QED BY <2>2, <2>3, <2>4 DEF UsedAt
<1>3. CASE Copies
  <2>1. Stage = 20 /\ disk' = disk
    BY <1>3 DEF Copies, Onward
  <2>2. CASE history' = [history EXCEPT !.used = Use({"sources"})]
    <3>1. history'.changes = history.changes /\ history'.used = Use({"sources"})
      BY <2>2, CopyHistory
    <3> QED BY <2>1, <3>1 DEF UsedAt, StaysPut, Count
  <2> QED BY <1>3, <2>2 DEF Copies
<1>4. ASSUME NEW thing \in Things \cup {"head", "clock"}, Changes(thing)
      PROVE  history'.used = history.used
  BY <1>4, ChangeHistory DEF Changes
<1> QED BY <1>1, <1>2, <1>3, <1>4, StepsTaken
        DEF Inspects, Begins, Retains, Emits, Ends, IsKilled, Idle

(* A run that has not failed: nothing happens to it, or the next stage.     *)
LEMMA HowRunsMove ==
    ASSUME Types, Progress, [Next]_vars, Stage' # 0
    PROVE  /\ scenario' = scenario /\ Stage \in 1 .. 35
           /\ \/ Stage' = Stage /\ run' = run
              \/ /\ Stage \in 1 .. 34 /\ Stage' = Stage + 1 /\ Gain(Stage)
                 /\ Kept({"commands"} \cup Written(Stage))
<1>1. ASSUME NEW k \in CommandStages, TakesCommand(k)
      PROVE  /\ scenario' = scenario /\ Stage \in 1 .. 34 /\ Stage' = Stage + 1 /\ Gain(Stage)
             /\ Kept({"commands"} \cup Written(Stage))
  <2>1. Stage = k /\ k \in 2 .. 32
    BY <1>1, CommandStagesAre DEF TakesCommand, Onward
  <2> QED BY <1>1, <2>1 DEF TakesCommand, Onward
<1>2. ASSUME NEW k \in InspectionStages, Inspects(k)
      PROVE  /\ scenario' = scenario /\ Stage \in 1 .. 34 /\ Stage' = Stage + 1 /\ Gain(Stage)
             /\ Kept({"commands"} \cup Written(Stage))
  <2>1. Stage = k /\ k \in 1 .. 33
    BY <1>2, SilentStages DEF Inspects, Onward
  <2> QED BY <1>2, <2>1 DEF Inspects, Onward, Kept, machine
<1>3. CASE Begins \/ Retains \/ Copies \/ Emits
  <2>1. Copies => Kept({})
    BY SameRunTypes DEF Copies
  <2>2. Stage \in {9, 18, 20, 34} /\ Stage' = Stage + 1 /\ Gain(Stage) /\ scenario' = scenario
    BY <1>3 DEF Begins, Retains, Copies, Emits, Onward, machine
  <2>3. Kept({"commands"} \cup Written(Stage))
    BY <1>3, <2>1 DEF Begins, Retains, Copies, Emits, Onward, Kept
  <2> QED BY <2>2, <2>3
<1>4. CASE Idle \/ \E thing \in Things \cup {"head", "clock"} : Changes(thing)
  <2>1. Stage' = Stage /\ run' = run /\ scenario' = scenario
    BY <1>4 DEF Idle, Changes, machine
  <2> QED BY <2>1, StageIs
<1>5. ~Ends /\ ~IsKilled
  BY DEF Ends, IsKilled
<1>6. \A k \in 1 .. 34 : k \in 1 .. 35
  OBVIOUS
<1>7. CASE \/ \E k \in CommandStages : TakesCommand(k)
           \/ \E k \in InspectionStages : Inspects(k)
           \/ Begins \/ Retains \/ Copies \/ Emits
  BY <1>1, <1>2, <1>3, <1>6, <1>7
<1> QED BY <1>4, <1>5, <1>7, StepsTaken

LEMMA WrittenOnlyAt ==
    ASSUME Types, Progress, [Next]_vars, Stage' # 0
    PROVE  /\ Stage \notin {1, 3, 4, 7, 9} => run'.source = run.source
           /\ Stage # 8 => run'.dependency = run.dependency
           /\ Stage # 9 => run'.generated = run.generated
           /\ Stage \notin QuotedStages => run'.said = run.said
           /\ Stage # 11 => run'.selection = run.selection
           /\ Stage \notin {11, 17} => run'.ids = run.ids
           /\ Stage # 12 => run'.cpus = run.cpus
           /\ Stage # 14 => run'.before = run.before
           /\ Stage # 18 => run'.cached = run.cached
           /\ Stage # 32 => run'.manifests = run.manifests
           /\ Stage # 33 => run'.after = run.after
           /\ Stage # 34 => run'.status = run.status /\ run'.artifacts = run.artifacts
<1>1. CASE run' = run
  BY <1>1
<1>2. CASE Kept({"commands"} \cup Written(Stage))
  <2>1. ASSUME NEW f \in RunFields \ {"commands"}, f \notin Written(Stage) PROVE run'[f] = run[f]
    BY <1>2, <2>1 DEF Kept
  <2>2. /\ Stage \notin {1, 3, 4, 7, 9} => "source" \notin Written(Stage)
        /\ Stage # 8 => "dependency" \notin Written(Stage)
        /\ Stage # 9 => "generated" \notin Written(Stage)
        /\ Stage \notin QuotedStages => "said" \notin Written(Stage)
    BY DEF Written
  <2>3. /\ Stage # 11 => "selection" \notin Written(Stage)
        /\ Stage \notin {11, 17} => "ids" \notin Written(Stage)
        /\ Stage # 12 => "cpus" \notin Written(Stage)
        /\ Stage # 14 => "before" \notin Written(Stage)
    BY DEF Written
  <2>4. /\ Stage # 18 => "cached" \notin Written(Stage)
        /\ Stage # 32 => "manifests" \notin Written(Stage)
        /\ Stage # 33 => "after" \notin Written(Stage)
        /\ Stage # 34 => "status" \notin Written(Stage) /\ "artifacts" \notin Written(Stage)
    BY DEF Written
  <2>5. /\ "source" \in RunFields \ {"commands"} /\ "dependency" \in RunFields \ {"commands"}
        /\ "generated" \in RunFields \ {"commands"} /\ "said" \in RunFields \ {"commands"}
        /\ "selection" \in RunFields \ {"commands"} /\ "ids" \in RunFields \ {"commands"}
        /\ "cpus" \in RunFields \ {"commands"} /\ "before" \in RunFields \ {"commands"}
        /\ "cached" \in RunFields \ {"commands"} /\ "manifests" \in RunFields \ {"commands"}
        /\ "after" \in RunFields \ {"commands"} /\ "status" \in RunFields \ {"commands"}
        /\ "artifacts" \in RunFields \ {"commands"}
    BY DEF RunFields
  <2>6. /\ Stage \notin {1, 3, 4, 7, 9} => run'["source"] = run["source"]
        /\ Stage # 8 => run'["dependency"] = run["dependency"]
        /\ Stage # 9 => run'["generated"] = run["generated"]
        /\ Stage \notin QuotedStages => run'["said"] = run["said"]
    BY <2>1, <2>2, <2>5
  <2>7. /\ Stage # 11 => run'["selection"] = run["selection"]
        /\ Stage \notin {11, 17} => run'["ids"] = run["ids"]
        /\ Stage # 12 => run'["cpus"] = run["cpus"]
        /\ Stage # 14 => run'["before"] = run["before"]
    BY <2>1, <2>3, <2>5
  <2>8. /\ Stage # 18 => run'["cached"] = run["cached"]
        /\ Stage # 32 => run'["manifests"] = run["manifests"]
        /\ Stage # 33 => run'["after"] = run["after"]
        /\ Stage # 34 => run'["status"] = run["status"] /\ run'["artifacts"] = run["artifacts"]
    BY <2>1, <2>4, <2>5
  <2> QED BY <2>6, <2>7, <2>8
<1> QED BY <1>1, <1>2, HowRunsMove
-----------------------------------------------------------------------------
(* What a run claims, once it has come so far.                              *)
Claims ==
    /\ Stage > 11 => Selected(run.selection)
    /\ Stage > 12 => HostFits(scenario.host) /\ run.cpus[1] = run.cpus[2]
    /\ Stage > 14 => run.before.ids = [t \in HostTools |-> run.ids[t]]
    /\ Stage > 18 => \A p \in run.cached : p.class \in {"plain", "provider"}
    /\ Stage > 19 => \A p \in run.cached : p.id \in scenario.active => p.class # "provider"
    /\ Stage > 27 => Scanned("fmt")
    /\ Stage > 28 => Scanned("clippy")
    /\ Stage > 29 => Scanned("test")
    /\ Stage > 32 => run.manifests = <<run.source.manifest, run.source.manifest>>
    /\ Stage > 33 => run.before = run.after
    /\ Stage > 34 => run.artifacts = 6 /\ run.status = "PASS"

LEMMA ClaimsStart == ASSUME Init PROVE Claims
<1>1. Stage = 1
  BY StageIs DEF Init
<1> QED BY <1>1 DEF Claims

LEMMA ClaimsStay ==
    ASSUME Types, Progress, WindowInv, Claims, [Next]_vars PROVE Claims'
<1>1. CASE Stage' = 0
  BY <1>1 DEF Claims
<1>2. CASE Stage' # 0 /\ Stage' = Stage /\ run' = run
  <2>1. scenario' = scenario
    BY <1>2, HowRunsMove
  <2> QED BY <1>2, <2>1 DEF Claims, Scanned
<1>3. ASSUME Stage' # 0, Stage \in 1 .. 34, Stage' = Stage + 1, Gain(Stage) PROVE Claims'
  <2>1. scenario' = scenario
    BY <1>3, HowRunsMove
  <2>2. Stage' > 11 => Selected(run'.selection)
    <3>1. CASE Stage = 11
      BY <1>3, <3>1 DEF Gain
    <3>2. CASE Stage # 11
      BY <1>3, <3>2, WrittenOnlyAt DEF Claims
    <3> QED BY <3>1, <3>2
  <2>3. Stage' > 12 => HostFits(scenario'.host) /\ run'.cpus[1] = run'.cpus[2]
    <3>1. CASE Stage = 12
      BY <1>3, <2>1, <3>1 DEF Gain, WindowInv, QuietInv
    <3>2. CASE Stage # 12
      BY <1>3, <2>1, <3>2, WrittenOnlyAt DEF Claims
    <3> QED BY <3>1, <3>2
  <2>4. Stage' > 14 => run'.before.ids = [t \in HostTools |-> run'.ids[t]]
    <3>1. CASE Stage = 14
      <4>1. /\ run'.before.ids = [t \in HostTools |-> disk[t]]
            /\ \A t \in HostTools : disk[t] = run.ids[t]
            /\ run'.ids = run.ids
        BY <1>3, <3>1, WrittenOnlyAt DEF Gain, Toolchain
      <4> QED BY <4>1
    <3>2. CASE Stage = 17
      <4>1. /\ run'.before = run.before /\ run.ids \in [Tools -> {0, 1, 9}]
            /\ run'.ids = [run.ids EXCEPT !["rustc"] = disk["rustc"], !["cargo"] = disk["cargo"]]
        BY <1>3, <3>2, WrittenOnlyAt DEF Gain, Types, RunTypes
      <4>2. "rustc" \notin HostTools /\ "cargo" \notin HostTools /\ HostTools \subseteq Tools
        BY DEF HostTools, Tools
      <4>3. \A t \in HostTools : run'.ids[t] = run.ids[t]
        BY <4>1, <4>2
      <4>4. run.before.ids = [t \in HostTools |-> run.ids[t]]
        BY <3>2 DEF Claims
      <4> QED BY <4>1, <4>3, <4>4
    <3>3. CASE Stage # 14 /\ Stage # 17
      BY <1>3, <3>3, WrittenOnlyAt DEF Claims
    <3> QED BY <3>1, <3>2, <3>3
  <2>5. Stage' > 18 => \A p \in run'.cached : p.class \in {"plain", "provider"}
    <3>1. CASE Stage = 18
      <4>1. run'.cached = Lock /\ \A p \in Lock : p.class # "python"
        BY <1>3, <3>1 DEF Gain, LockAllowed
      <4>2. disk["work"] + 1 \in {1, 2} /\ scenario \in Scenarios
        BY DEF Types, MachineTypes, Things
      <4>3. \A p \in Lock : p.class \in {"plain", "provider", "python"}
        BY <4>2, ExecutionAssumption DEF Lock
      <4> QED BY <4>1, <4>3
    <3>2. CASE Stage # 18
      BY <1>3, <3>2, WrittenOnlyAt DEF Claims
    <3> QED BY <3>1, <3>2
  <2>6. Stage' > 19 =>
          \A p \in run'.cached : p.id \in scenario'.active => p.class # "provider"
    <3>1. CASE Stage = 19
      BY <1>3, <2>1, <3>1, WrittenOnlyAt DEF Gain, GraphAllowed, Provider
    <3>2. CASE Stage # 19
      BY <1>3, <2>1, <3>2, WrittenOnlyAt DEF Claims
    <3> QED BY <3>1, <3>2
  <2>7. /\ Stage' > 27 => Scanned("fmt")'
        /\ Stage' > 28 => Scanned("clippy")'
        /\ Stage' > 29 => Scanned("test")'
    <3>1. /\ Stage' > 27 => Scanned("fmt")
          /\ Stage' > 28 => Scanned("clippy")
          /\ Stage' > 29 => Scanned("test")
      <4>1. CASE Stage = 27
        BY <1>3, <4>1 DEF Gain
      <4>2. CASE Stage = 28
        BY <1>3, <4>2 DEF Gain, Claims
      <4>3. CASE Stage = 29
        BY <1>3, <4>3 DEF Gain, Claims
      <4>4. CASE Stage \notin {27, 28, 29}
        BY <1>3, <4>4 DEF Claims
      <4> QED BY <4>1, <4>2, <4>3, <4>4
    <3> QED BY <2>1, <3>1 DEF Scanned
  <2>8. Stage' > 32 => run'.manifests = <<run'.source.manifest, run'.source.manifest>>
    <3>1. CASE Stage = 32
      BY <1>3, <3>1, WrittenOnlyAt DEF Gain, InputsUnchanged
    <3>2. CASE Stage # 32
      BY <1>3, <3>2, WrittenOnlyAt DEF Claims
    <3> QED BY <3>1, <3>2
  <2>9. Stage' > 33 => run'.before = run'.after
    <3>1. CASE Stage = 33
      BY <1>3, <3>1, WrittenOnlyAt DEF Gain, Unchanged
    <3>2. CASE Stage # 33
      BY <1>3, <3>2, WrittenOnlyAt DEF Claims
    <3> QED BY <3>1, <3>2
  <2>10. Stage' > 34 => run'.artifacts = 6 /\ run'.status = "PASS"
    <3>1. Stage' > 34 => Stage = 34
      BY <1>3
    <3> QED BY <1>3, <3>1 DEF Gain
  <2> QED BY <2>2, <2>3, <2>4, <2>5, <2>6, <2>7, <2>8, <2>9, <2>10 DEF Claims
<1> QED BY <1>1, <1>2, <1>3, HowRunsMove
-----------------------------------------------------------------------------
(* The records: after the stage where a version is recorded, the thing can  *)
(* only have another one if it was changed.                                 *)
Tracked == Tools \cup {"work", "sources", "headers", "cache"}
Opened(thing) ==
    CASE thing \in HostTools           -> 11
      [] thing \in {"rustc", "cargo"}  -> 17
      [] thing \in {"work", "sources"} -> 7
      [] thing = "headers"             -> 14
      [] OTHER                         -> 18
Closed(thing) ==
    CASE thing \in {"work", "sources"} -> 32
      [] thing = "cache"               -> 30
      [] OTHER                         -> 33

Known(thing, version) == disk[thing] # version => Count(thing) >= 1
Strayed(thing, seen, version) ==
    seen # version => Count(thing) >= 1 /\ (disk[thing] = version => Count(thing) >= 2)
StrayedTwice(thing, seen, version) ==
    seen # version => Count(thing) >= 2 /\ (disk[thing] = seen => Count(thing) >= 3)

Moved(thing) ==
    \/ StaysPut(thing)
    \/ disk'[thing] = 1 - disk[thing] /\ Count(thing)' = Count(thing) + 1

LEMMA CountIs ==
    ASSUME Types, NEW thing \in Things
    PROVE  Count(thing) \in Nat /\ disk[thing] \in {0, 1}
<1>1. thing \in Things \cup {"head", "clock"}
  OBVIOUS
<1> QED BY <1>1 DEF Types, MachineTypes, HistoryType, Count

LEMMA RecordsSurvive ==
    ASSUME Types, NEW thing \in Things, NEW seen, NEW version, Moved(thing)
    PROVE  /\ Known(thing, version) => Known(thing, version)'
           /\ Strayed(thing, seen, version) => Strayed(thing, seen, version)'
           /\ StrayedTwice(thing, seen, version) => StrayedTwice(thing, seen, version)'
           /\ \A n \in Nat : Count(thing) >= n => Count(thing)' >= n
<1> DEFINE K == Count(thing)
           d == disk[thing]
           L == Count(thing)'
           e == disk'[thing]
<1>1. K \in Nat /\ d \in {0, 1}
  BY CountIs
<1>2. (e = d /\ L = K) \/ (e = 1 - d /\ L = K + 1)
  BY DEF Moved, StaysPut
<1>3. /\ Known(thing, version) <=> (d # version => K >= 1)
      /\ Known(thing, version)' <=> (e # version => L >= 1)
  BY DEF Known
<1>4. /\ Strayed(thing, seen, version)
           <=> (seen # version => K >= 1 /\ (d = version => K >= 2))
      /\ Strayed(thing, seen, version)'
           <=> (seen # version => L >= 1 /\ (e = version => L >= 2))
  BY DEF Strayed
<1>5. /\ StrayedTwice(thing, seen, version)
           <=> (seen # version => K >= 2 /\ (d = seen => K >= 3))
      /\ StrayedTwice(thing, seen, version)'
           <=> (seen # version => L >= 2 /\ (e = seen => L >= 3))
  BY DEF StrayedTwice
<1> HIDE DEF K, d, L, e
<1>6. \A n \in Nat : K >= n => L >= n
  BY <1>1, <1>2
<1>7. CASE e = d /\ L = K
  BY <1>3, <1>4, <1>5, <1>6, <1>7 DEF K, L
<1>8. CASE L = K + 1
  <2>1. L >= 1 /\ (K >= 1 => L >= 2) /\ (K >= 2 => L >= 3)
    BY <1>1, <1>8
  <2> QED BY <1>3, <1>4, <1>5, <1>6, <2>1 DEF K, L
<1> QED BY <1>2, <1>7, <1>8

LEMMA HowTheyMove ==
    ASSUME Types, Progress, [Next]_vars, NEW thing \in Things
    PROVE  /\ \/ Moved(thing)
              \/ thing = "cache" /\ Stage = 18 /\ disk'[thing] = 0 /\ Count(thing)' = Count(thing)
           /\ Stage' # Stage /\ ~(thing = "cache" /\ Stage = 18) => StaysPut(thing)
BY HowThingsMove DEF Moved

LEMMA OpenedIs ==
    /\ Tracked \subseteq Things /\ HostTools \subseteq Tools
    /\ \A thing \in HostTools : Opened(thing) = 11
    /\ Opened("rustc") = 17 /\ Opened("cargo") = 17 /\ Opened("work") = 7 /\ Opened("sources") = 7
    /\ Opened("headers") = 14 /\ Opened("cache") = 18
    /\ Closed("work") = 32 /\ Closed("sources") = 32 /\ Closed("cache") = 30
    /\ \A thing \in Tools \cup {"headers"} : Closed(thing) = 33
    /\ \A thing \in Tracked : Opened(thing) \in {7, 11, 14, 17, 18}
    /\ \A thing \in Tracked : \/ thing \in HostTools \/ thing = "rustc" \/ thing = "cargo"
                              \/ thing = "work" \/ thing = "sources" \/ thing = "headers"
                              \/ thing = "cache"
<1>1. Tracked \subseteq Things /\ HostTools \subseteq Tools
  BY DEF Tracked, Things, Tools, HostTools
<1>2. /\ "rustc" \notin HostTools /\ "cargo" \notin HostTools /\ "work" \notin HostTools
      /\ "sources" \notin HostTools /\ "headers" \notin HostTools /\ "cache" \notin HostTools
  BY DEF HostTools
<1>3. \A thing \in HostTools : Opened(thing) = 11
  BY DEF Opened, HostTools
<1>4. /\ Opened("rustc") = 17 /\ Opened("cargo") = 17 /\ Opened("work") = 7
      /\ Opened("sources") = 7 /\ Opened("headers") = 14 /\ Opened("cache") = 18
  BY <1>2 DEF Opened
<1>5. Closed("work") = 32 /\ Closed("sources") = 32 /\ Closed("cache") = 30
  BY DEF Closed
<1>6. \A thing \in Tools \cup {"headers"} : Closed(thing) = 33
  BY DEF Closed, Tools
<1>7. \A thing \in Tracked : Opened(thing) \in {7, 11, 14, 17, 18}
  BY DEF Opened
<1>8. \A thing \in Tracked : \/ thing \in HostTools \/ thing = "rustc" \/ thing = "cargo"
                             \/ thing = "work" \/ thing = "sources" \/ thing = "headers"
                             \/ thing = "cache"
  BY DEF Tracked, Tools, HostTools
<1> QED BY <1>1, <1>3, <1>4, <1>5, <1>6, <1>7, <1>8

LEMMA RecordHere ==
    /\ \A tool \in Tools : OnRecord(tool) = run.ids[tool]
    /\ OnRecord("work") = run.source.manifest[1] /\ OnRecord("sources") = run.source.manifest[2]
    /\ OnRecord("headers") = run.before.headers /\ OnRecord("cache") = 0
<1>1. /\ "work" \notin Tools /\ "sources" \notin Tools /\ "headers" \notin Tools
      /\ "cache" \notin Tools
  BY DEF Tools
<1> QED BY <1>1 DEF OnRecord

LEMMA RecordThere ==
    /\ \A tool \in Tools : OnRecord(tool)' = run'.ids[tool]
    /\ OnRecord("work")' = run'.source.manifest[1] /\ OnRecord("sources")' = run'.source.manifest[2]
    /\ OnRecord("headers")' = run'.before.headers /\ OnRecord("cache")' = 0
<1>1. /\ "work" \notin Tools /\ "sources" \notin Tools /\ "headers" \notin Tools
      /\ "cache" \notin Tools
  BY DEF Tools
<1> QED BY <1>1 DEF OnRecord

LEMMA SourceMoves ==
    ASSUME Types, Progress, [Next]_vars, Stage' # 0
    PROVE  /\ Stage' = Stage \/ Stage # 1 => run'.source.schema = run.source.schema
           /\ Stage' = Stage \/ Stage # 3 => run'.source.commit = run.source.commit
           /\ Stage' = Stage \/ Stage # 4 => run'.source.tree = run.source.tree
           /\ Stage' = Stage \/ Stage # 7 => run'.source.manifest = run.source.manifest
           /\ Stage' = Stage \/ Stage # 9 => /\ run'.source.lock = run.source.lock
                                             /\ run'.source.verifier = run.source.verifier
           /\ Stage' # Stage /\ Stage = 1 => run'.source.schema = disk["work"]
           /\ Stage' # Stage /\ Stage = 3 => run'.source.commit = Len(log)
           /\ Stage' # Stage /\ Stage = 4 => run'.source.tree = Len(log)
           /\ Stage' # Stage /\ Stage = 7 => run'.source.manifest = ManifestNow
           /\ Stage' # Stage /\ Stage = 9 => /\ run'.source.lock = disk["work"]
                                             /\ run'.source.verifier = disk["work"]
<1> DEFINE s == run.source
           w == disk["work"]
           n == Len(log)
           m == ManifestNow
<1>1. s = [f \in SourceFields |-> s[f]]
  BY DEF Types, RunTypes
<1>2. CASE Stage' = Stage
  <2>1. run' = run
    BY <1>2, HowRunsMove
  <2> QED BY <1>2, <2>1
<1>3. CASE Stage' # Stage
  <2>1. Stage \in 1 .. 34 /\ Stage' = Stage + 1 /\ Gain(Stage)
    BY <1>3, HowRunsMove
  <2>2. CASE Stage \notin {1, 3, 4, 7, 9}
    BY <2>2, WrittenOnlyAt
  <2>3. CASE Stage = 1
    <3>1. run'.source = [s EXCEPT !.schema = w]
      BY <2>1, <2>3 DEF Gain
    <3> HIDE DEF s, w
    <3>2. /\ run'.source.schema = w /\ run'.source.commit = s.commit
          /\ run'.source.tree = s.tree /\ run'.source.manifest = s.manifest
          /\ run'.source.lock = s.lock /\ run'.source.verifier = s.verifier
      BY <1>1, <3>1 DEF SourceFields
    <3> QED BY <1>3, <2>3, <3>2 DEF s, w
  <2>4. CASE Stage = 3
    <3>1. run'.source = [s EXCEPT !.commit = n]
      BY <2>1, <2>4 DEF Gain
    <3> HIDE DEF s, n
    <3>2. /\ run'.source.schema = s.schema /\ run'.source.commit = n
          /\ run'.source.tree = s.tree /\ run'.source.manifest = s.manifest
          /\ run'.source.lock = s.lock /\ run'.source.verifier = s.verifier
      BY <1>1, <3>1 DEF SourceFields
    <3> QED BY <1>3, <2>4, <3>2 DEF s, n
  <2>5. CASE Stage = 4
    <3>1. run'.source = [s EXCEPT !.tree = n]
      BY <2>1, <2>5 DEF Gain
    <3> HIDE DEF s, n
    <3>2. /\ run'.source.schema = s.schema /\ run'.source.commit = s.commit
          /\ run'.source.tree = n /\ run'.source.manifest = s.manifest
          /\ run'.source.lock = s.lock /\ run'.source.verifier = s.verifier
      BY <1>1, <3>1 DEF SourceFields
    <3> QED BY <1>3, <2>5, <3>2 DEF s, n
  <2>6. CASE Stage = 7
    <3>1. run'.source = [s EXCEPT !.manifest = m]
      BY <2>1, <2>6 DEF Gain
    <3> HIDE DEF s, m
    <3>2. /\ run'.source.schema = s.schema /\ run'.source.commit = s.commit
          /\ run'.source.tree = s.tree /\ run'.source.manifest = m
          /\ run'.source.lock = s.lock /\ run'.source.verifier = s.verifier
      BY <1>1, <3>1 DEF SourceFields
    <3> QED BY <1>3, <2>6, <3>2 DEF s, m
  <2>7. CASE Stage = 9
    <3>1. run'.source = [s EXCEPT !.lock = w, !.verifier = w]
      BY <2>1, <2>7 DEF Gain
    <3> HIDE DEF s, w
    <3>2. /\ run'.source.schema = s.schema /\ run'.source.commit = s.commit
          /\ run'.source.tree = s.tree /\ run'.source.manifest = s.manifest
          /\ run'.source.lock = w /\ run'.source.verifier = w
      BY <1>1, <3>1 DEF SourceFields
    <3> QED BY <1>3, <2>7, <3>2 DEF s, w
  <2> QED BY <2>2, <2>3, <2>4, <2>5, <2>6, <2>7
<1> QED BY <1>2, <1>3

LEMMA RecordIsKept ==
    ASSUME Types, Progress, [Next]_vars, Stage' # 0, NEW thing \in Tracked, Stage > Opened(thing)
    PROVE  OnRecord(thing)' = OnRecord(thing)
<1>1. CASE thing \in HostTools
  <2>1. thing \in Tools /\ thing # "rustc" /\ thing # "cargo"
    BY <1>1 DEF HostTools, Tools
  <2>2. Stage > 11
    BY <1>1, OpenedIs
  <2>3. CASE Stage = 17 /\ Stage' # Stage
    <3>1. Gain(Stage)
      BY <2>3, HowRunsMove
    <3>2. run'.ids = [run.ids EXCEPT !["rustc"] = disk["rustc"], !["cargo"] = disk["cargo"]]
      BY <2>3, <3>1 DEF Gain
    <3>3. run.ids \in [Tools -> {0, 1, 9}]
      BY DEF Types, RunTypes
    <3>4. run'.ids[thing] = run.ids[thing]
      BY <2>1, <3>2, <3>3
    <3> QED BY <2>1, <3>4, RecordHere, RecordThere
  <2>4. CASE Stage' = Stage
    <3>1. run' = run
      BY <2>4, HowRunsMove
    <3> QED BY <2>1, <3>1, RecordHere, RecordThere
  <2>5. CASE Stage # 17
    <3>1. run'.ids = run.ids
      BY <2>2, <2>5, WrittenOnlyAt
    <3> QED BY <2>1, <3>1, RecordHere, RecordThere
  <2> QED BY <2>3, <2>4, <2>5
<1>2. CASE thing = "rustc" \/ thing = "cargo"
  <2>1. run'.ids = run.ids /\ thing \in Tools
    <3>1. Stage > 17
      BY <1>2, OpenedIs
    <3> QED BY <1>2, <3>1, WrittenOnlyAt DEF Tools
  <2> QED BY <2>1, RecordHere, RecordThere
<1>3. CASE thing = "work" \/ thing = "sources"
  <2>1. Stage > 7
    BY <1>3, OpenedIs
  <2>2. run'.source.manifest = run.source.manifest
    BY <2>1, SourceMoves
  <2> QED BY <1>3, <2>2, RecordHere, RecordThere
<1>4. CASE thing = "headers"
  <2>1. Stage > 14
    BY <1>4, OpenedIs
  <2>2. run'.before = run.before
    BY <2>1, WrittenOnlyAt
  <2> QED BY <1>4, <2>2, RecordHere, RecordThere
<1>5. CASE thing = "cache"
  BY <1>5, RecordHere, RecordThere
<1> QED BY <1>1, <1>2, <1>3, <1>4, <1>5, OpenedIs

LEMMA RecordIsMade ==
    ASSUME Types, Progress, [Next]_vars, Stage' # 0, NEW thing \in Tracked,
           Stage = Opened(thing), Stage' # Stage
    PROVE  disk'[thing] = OnRecord(thing)'
<1>1. Gain(Stage) /\ thing \in Things
  BY HowRunsMove, OpenedIs
<1>2. ~(thing = "cache" /\ Stage = 18) => disk'[thing] = disk[thing]
  BY <1>1, HowTheyMove DEF StaysPut
<1>3. CASE thing \in HostTools
  <2>1. run'.ids = [t \in Tools |-> IF t \in HostTools THEN disk[t] ELSE Unset] /\ Stage # 18
    BY <1>1, <1>3, OpenedIs DEF Gain
  <2>2. thing \in Tools /\ run'.ids[thing] = disk[thing]
    BY <1>3, <2>1, OpenedIs
  <2> QED BY <1>2, <2>1, <2>2, RecordThere
<1>4. CASE thing = "rustc" \/ thing = "cargo"
  <2>1. Stage = 17 /\ thing \in Tools /\ "rustc" \in Tools /\ "cargo" \in Tools
    BY <1>4, OpenedIs DEF Tools
  <2>2. run'.ids = [run.ids EXCEPT !["rustc"] = disk["rustc"], !["cargo"] = disk["cargo"]]
    BY <1>1, <2>1 DEF Gain
  <2>3. run.ids \in [Tools -> {0, 1, 9}]
    BY DEF Types, RunTypes
  <2>4. run'.ids[thing] = disk[thing]
    BY <1>4, <2>1, <2>2, <2>3
  <2> QED BY <1>2, <2>1, <2>4, RecordThere
<1>5. CASE thing = "work" \/ thing = "sources"
  <2>1. Stage = 7
    BY <1>5, OpenedIs
  <2>2. run'.source.manifest = <<disk["work"], disk["sources"]>>
    BY <2>1, SourceMoves DEF ManifestNow
  <2> QED BY <1>2, <1>5, <2>1, <2>2, RecordThere
<1>6. CASE thing = "headers"
  <2>1. Stage = 14
    BY <1>6, OpenedIs
  <2>2. run'.before = Toolchain
    BY <1>1, <2>1 DEF Gain
  <2>3. run'.before.headers = disk["headers"]
    BY <2>2 DEF Toolchain
  <2> QED BY <1>2, <1>6, <2>1, <2>3, RecordThere
<1>7. CASE thing = "cache"
  <2>1. Stage = 18 /\ disk'["cache"] = 0
    <3>1. Stage = 18
      BY <1>7, OpenedIs
    <3>2. \/ \E k \in CommandStages : TakesCommand(k)
          \/ \E k \in InspectionStages : Inspects(k)
          \/ Begins \/ Retains \/ Copies \/ Emits \/ Ends \/ IsKilled \/ Idle
          \/ \E t \in Things \cup {"head", "clock"} : Changes(t)
      BY StepsTaken
    <3>3. \A k \in CommandStages \cup InspectionStages : k # 18
      BY DEF CommandStages, InspectionStages
    <3>4. Retains
      <4>1. ~\E k \in CommandStages : TakesCommand(k)
        BY <3>1, <3>3 DEF TakesCommand, Onward
      <4>2. ~\E k \in InspectionStages : Inspects(k)
        BY <3>1, <3>3 DEF Inspects, Onward
      <4>3. ~Begins /\ ~Copies /\ ~Emits
        BY <3>1 DEF Begins, Copies, Emits, Onward
      <4>4. ~Ends /\ ~IsKilled /\ ~Idle /\ ~\E t \in Things \cup {"head", "clock"} : Changes(t)
        BY DEF Ends, IsKilled, Idle, Changes
      <4> QED BY <3>2, <4>1, <4>2, <4>3, <4>4
    <3>5. Stage' = 19
      BY <3>1, HowRunsMove
    <3>6. disk' = [disk EXCEPT !["cache"] = 0] /\ disk \in [Things -> {0, 1}] /\ "cache" \in Things
      BY <3>4, <3>5 DEF Retains, Types, MachineTypes, Things
    <3> QED BY <3>1, <3>6
  <2> QED BY <1>7, <2>1, RecordThere
<1> QED BY <1>3, <1>4, <1>5, <1>6, <1>7, OpenedIs

Records == \A thing \in Tracked : Stage > Opened(thing) => Known(thing, OnRecord(thing))

LEMMA RecordsStay ==
    ASSUME Types, Progress, Records, [Next]_vars PROVE Records'
<1> SUFFICES ASSUME NEW thing \in Tracked, Stage' > Opened(thing)
             PROVE  disk'[thing] # OnRecord(thing)' => Count(thing)' >= 1
  BY DEF Records, Known
<1>1. Opened(thing) \in {7, 11, 14, 17, 18} /\ thing \in Things
  BY OpenedIs
<1>2. Stage' # 0
  BY <1>1
<1>3. CASE Stage > Opened(thing)
  <2>1. Known(thing, OnRecord(thing)) /\ OnRecord(thing)' = OnRecord(thing)
    BY <1>2, <1>3, RecordIsKept DEF Records
  <2>2. CASE Moved(thing)
    <3> DEFINE r == OnRecord(thing)
    <3>1. r' = r /\ (disk[thing] # r => Count(thing) >= 1)
      BY <2>1 DEF Known
    <3> HIDE DEF r
    <3>2. Known(thing, r) => (disk'[thing] # r => Count(thing)' >= 1)
      BY <1>1, <2>2, CountIs DEF Moved, StaysPut, Known
    <3> QED BY <2>1, <3>2 DEF r
  <2>3. CASE thing = "cache" /\ Stage = 18
    BY <1>3, <2>3, OpenedIs
  <2> QED BY <1>1, <2>2, <2>3, HowTheyMove
<1>4. CASE Stage = Opened(thing)
  <2>1. Stage' # Stage
    BY <1>1, <1>4
  <2> QED BY <1>2, <1>4, <2>1, RecordIsMade
<1>5. CASE ~(Stage > Opened(thing)) /\ Stage # Opened(thing)
  <2>1. Stage' = Stage \/ Stage' = Stage + 1
    BY <1>2, HowRunsMove
  <2>2. Stage \in 1 .. 35
    BY <1>2, HowRunsMove
  <2> QED BY <1>1, <1>5, <2>1, <2>2
<1> QED BY <1>3, <1>4, <1>5
-----------------------------------------------------------------------------
(* What was used: the image an audit binds, or, between the record of a     *)
(* thing and the last comparison with it, whatever was there.               *)
Bound(thing, seen) ==
    \E i \in 1 .. Len(run.commands) : /\ thing \in Needs(run.commands[i].step)
                                      /\ run.commands[i].images[thing] = seen
Free(thing, seen) ==
    /\ thing \in Tracked /\ Stage > Opened(thing) /\ Strayed(thing, seen, OnRecord(thing))
    /\ Stage > Closed(thing) /\ seen # OnRecord(thing) => Count(thing) >= 2
Uses == Stage # 0 => \A use \in history.used : Bound(use[1], use[2]) \/ Free(use[1], use[2])

LEMMA ComparedAtClose ==
    ASSUME Types, Progress, Claims, [Next]_vars, Stage' # 0, Stage' # Stage,
           NEW thing \in Tracked, Stage = Closed(thing)
    PROVE  disk[thing] = OnRecord(thing)
<1>1. Gain(Stage)
  BY HowRunsMove
<1>2. CASE thing = "work" \/ thing = "sources"
  <2>1. Stage = 32
    BY <1>2, OpenedIs
  <2>2. run.source.manifest = <<disk["work"], disk["sources"]>>
    BY <1>1, <2>1 DEF Gain, InputsUnchanged, ManifestNow
  <2> QED BY <1>2, <2>2, RecordHere
<1>3. CASE thing = "cache"
  <2>1. Stage = 30
    BY <1>3, OpenedIs
  <2> QED BY <1>1, <1>3, <2>1, RecordHere DEF Gain, CacheIntact
<1>4. CASE thing \in Tools \cup {"headers"}
  <2>1. Stage = 33
    BY <1>4, OpenedIs
  <2>2. /\ Toolchain = run.before /\ disk["rustc"] = run.ids["rustc"]
        /\ disk["cargo"] = run.ids["cargo"]
    BY <1>1, <2>1 DEF Gain, Unchanged
  <2>3. run.before.headers = disk["headers"] /\ run.before.ids = [t \in HostTools |-> disk[t]]
    BY <2>2 DEF Toolchain
  <2>4. run.before.ids = [t \in HostTools |-> run.ids[t]]
    BY <2>1 DEF Claims
  <2>5. CASE thing \in HostTools
    <3>1. run.before.ids[thing] = disk[thing] /\ run.before.ids[thing] = run.ids[thing]
      BY <2>3, <2>4, <2>5
    <3> QED BY <2>5, <3>1, RecordHere, OpenedIs
  <2>6. CASE thing \in {"rustc", "cargo"}
    BY <2>2, <2>6, RecordHere DEF Tools
  <2>7. CASE thing = "headers"
    BY <2>3, <2>7, RecordHere
  <2> QED BY <1>4, <2>5, <2>6, <2>7 DEF Tools, HostTools
<1> QED BY <1>2, <1>3, <1>4, OpenedIs DEF Tracked

LEMMA FreeStays ==
    ASSUME Types, Progress, Claims, [Next]_vars, Stage' # 0, NEW thing, NEW seen, Free(thing, seen)
    PROVE  Free(thing, seen)'
<1>1. /\ thing \in Tracked /\ thing \in Things /\ Stage > Opened(thing)
      /\ Strayed(thing, seen, OnRecord(thing))
      /\ Stage > Closed(thing) /\ seen # OnRecord(thing) => Count(thing) >= 2
  BY OpenedIs DEF Free
<1>2. Opened(thing) \in {7, 11, 14, 17, 18} /\ Closed(thing) \in {30, 32, 33}
  BY <1>1, OpenedIs DEF Closed
<1>3. Stage \in 1 .. 35 /\ (Stage' = Stage \/ Stage' = Stage + 1)
  BY HowRunsMove
<1>4. PICK r : r = OnRecord(thing)
  OBVIOUS
<1>5. OnRecord(thing)' = r
  BY <1>1, <1>4, RecordIsKept
<1>6. Moved(thing)
  <2>1. ~(thing = "cache" /\ Stage = 18)
    BY <1>1, OpenedIs
  <2> QED BY <1>1, <2>1, HowTheyMove
<1>7. Strayed(thing, seen, r) /\ (Stage > Closed(thing) /\ seen # r => Count(thing) >= 2)
  BY <1>1, <1>4
<1>8. Strayed(thing, seen, r)'
  BY <1>1, <1>6, <1>7, RecordsSurvive
<1>9. Stage' > Closed(thing) /\ seen # r => Count(thing)' >= 2
  <2>1. CASE Stage > Closed(thing)
    BY <1>1, <1>6, <1>7, <2>1, RecordsSurvive
  <2>2. CASE Stage = Closed(thing) /\ Stage' # Stage
    <3>1. disk[thing] = r
      BY <1>1, <1>4, <2>2, ComparedAtClose
    <3>2. seen # r => Count(thing) >= 2
      BY <1>7, <3>1 DEF Strayed
    <3> QED BY <1>1, <1>6, <3>2, RecordsSurvive
  <2>3. CASE ~(Stage > Closed(thing)) /\ ~(Stage = Closed(thing) /\ Stage' # Stage)
    <3>1. ~(Stage' > Closed(thing))
      BY <1>2, <1>3, <2>3
    <3> QED BY <3>1
  <2> QED BY <2>1, <2>2, <2>3
<1>10. Strayed(thing, seen, OnRecord(thing))'
  BY <1>5, <1>8 DEF Strayed
<1>11. Stage' > Opened(thing)
  BY <1>1, <1>2, <1>3
<1> QED BY <1>1, <1>5, <1>9, <1>10, <1>11 DEF Free

LEMMA CommandsKept ==
    ASSUME Types, Progress, [Next]_vars, Stage' # 0
    PROVE  /\ Len(run.commands) \in Nat /\ Len(run'.commands) \in Nat
           /\ Len(run'.commands) >= Len(run.commands)
           /\ \A i \in 1 .. Len(run.commands) : run'.commands[i] = run.commands[i]
           /\ \/ Stage \in CommandStages /\ TakesCommand(Stage)
              \/ run'.commands = run.commands
<1>1. run.commands \in Seq(CommandType) /\ Len(run.commands) \in Nat
  BY DEF Types, RunTypes
<1>2. ASSUME NEW k \in CommandStages, TakesCommand(k)
      PROVE  /\ Len(run'.commands) \in Nat /\ Len(run'.commands) >= Len(run.commands)
             /\ \A i \in 1 .. Len(run.commands) : run'.commands[i] = run.commands[i]
             /\ Stage \in CommandStages /\ TakesCommand(Stage)
  <2>1. /\ Stage = k /\ Len(run.commands) = RanBy(k) /\ Len(run'.commands) = RanBy(k) + 1
        /\ \A i \in 1 .. RanBy(k) : run'.commands[i] = run.commands[i]
    BY <1>2, CommandsGrow
  <2> QED BY <1>1, <1>2, <2>1
<1>3. ASSUME ~\E k \in CommandStages : TakesCommand(k) PROVE run'.commands = run.commands
  <2>1. CASE \E k \in InspectionStages : Inspects(k)
    <3>1. PICK k \in InspectionStages : Inspects(k)
      BY <2>1
    <3>2. "commands" \in RunFields \ Written(k)
      BY DEF RunFields, Written
    <3> QED BY <3>1, <3>2 DEF Inspects, Kept
  <2>2. CASE Begins \/ Retains \/ Emits
    <3>1. "commands" \in RunFields /\ \A k \in {9, 18, 34} : "commands" \notin Written(k)
      BY DEF RunFields, Written
    <3> QED BY <2>2, <3>1 DEF Begins, Retains, Emits, Kept
  <2>3. CASE Copies \/ Idle \/ \E thing \in Things \cup {"head", "clock"} : Changes(thing)
    BY <2>3 DEF Copies, Idle, Changes
  <2>4. ~Ends /\ ~IsKilled
    BY DEF Ends, IsKilled
  <2> QED BY <1>3, <2>1, <2>2, <2>3, <2>4, StepsTaken
<1>4. CASE \E k \in CommandStages : TakesCommand(k)
  BY <1>1, <1>2, <1>4
<1>5. CASE ~\E k \in CommandStages : TakesCommand(k)
  <2>1. run'.commands = run.commands
    BY <1>3, <1>5
  <2> QED BY <1>1, <2>1
<1> QED BY <1>4, <1>5

LEMMA ReadsAreOpen ==
    ASSUME NEW k \in CommandStages, NEW thing \in Reads(StepAt(k))
    PROVE  thing \in Tracked /\ Opened(thing) < k /\ k < Closed(thing)
<1>1. CASE k = 21 \/ k = 23
  <2>1. StepAt(k) \in {"compile", "link"}
    BY <1>1, StepsAre
  <2>2. thing = "headers"
    BY <2>1 DEF Reads
  <2> QED BY <1>1, <2>2, OpenedIs DEF Tracked
<1>2. CASE k = 28 \/ k = 29
  <2>1. StepAt(k) \in {"clippy", "test"}
    BY <1>2, StepsAre
  <2>2. thing \in {"work", "sources", "msvc", "rustc", "headers", "cache"}
    BY <2>1 DEF Reads
  <2>3. "msvc" \in HostTools /\ {"msvc", "rustc"} \subseteq Tools /\ Tools \subseteq Tracked
    BY DEF HostTools, Tools, Tracked
  <2>4. thing \in Tracked /\ Opened(thing) <= 18 /\ 30 <= Closed(thing)
    BY <2>2, <2>3, OpenedIs DEF Tracked
  <2>5. Opened(thing) \in Nat /\ Closed(thing) \in Nat
    BY <2>2, <2>3, OpenedIs
  <2> QED BY <1>2, <2>4, <2>5
<1>3. CASE k = 19
  <2>1. StepAt(k) = "graph"
    BY <1>3, StepsAre
  <2>2. thing \in {"work", "cache"}
    BY <2>1 DEF Reads
  <2> QED BY <1>3, <2>2, OpenedIs DEF Tracked
<1>4. CASE k = 27
  <2>1. StepAt(k) = "fmt"
    BY <1>4, StepsAre
  <2>2. thing = "sources"
    BY <2>1 DEF Reads
  <2> QED BY <1>4, <2>2, OpenedIs DEF Tracked
<1>5. CASE k \notin {19, 21, 23, 27, 28, 29}
  <2>1. StepAt(k) \notin {"compile", "link", "clippy", "test", "graph", "fmt"}
    <3>1. \/ k \in 2 .. 8 \/ k = 10 \/ k = 15 \/ k = 16 \/ k = 22 \/ k = 24 \/ k = 25
          \/ k = 26 \/ k = 31 \/ k = 32
      BY <1>5 DEF CommandStages
    <3>2. \/ k = 2 \/ k = 3 \/ k = 4 \/ k = 5 \/ k = 6 \/ k = 7 \/ k = 8
          \/ k = 10 \/ k = 15 \/ k = 16 \/ k = 22 \/ k = 24 \/ k = 25
          \/ k = 26 \/ k = 31 \/ k = 32
      BY <3>1
    <3> QED BY <3>2, StepsAre
  <2>2. Reads(StepAt(k)) = {}
    BY <2>1 DEF Reads
  <2> QED BY <2>2
<1> QED BY <1>1, <1>2, <1>3, <1>4, <1>5

LEMMA BoundStays ==
    ASSUME Types, Progress, [Next]_vars, Stage' # 0, NEW thing, NEW seen, Bound(thing, seen)
    PROVE  Bound(thing, seen)'
<1>1. PICK i \in 1 .. Len(run.commands) : /\ thing \in Needs(run.commands[i].step)
                                          /\ run.commands[i].images[thing] = seen
  BY DEF Bound
<1>2. i \in 1 .. Len(run'.commands) /\ run'.commands[i] = run.commands[i]
  BY CommandsKept
<1> QED BY <1>1, <1>2 DEF Bound

LEMMA NeededIsBound ==
    ASSUME Types, Progress, [Next]_vars, NEW k \in CommandStages, TakesCommand(k),
           NEW thing \in Needs(StepAt(k))
    PROVE  Bound(thing, disk[thing])'
<1> DEFINE n == RanBy(k) + 1
<1>1. /\ RanBy(k) \in 0 .. 21 /\ Len(run'.commands) = n
      /\ \E passed \in BOOLEAN, early \in BOOLEAN, by \in Shift :
            run'.commands[n] = Entry(StepAt(k), passed, early, by)
  BY CommandsGrow
<1>2. PICK passed \in BOOLEAN, early \in BOOLEAN, by \in Shift :
          run'.commands[n] = Entry(StepAt(k), passed, early, by)
  BY <1>1
<1>3. run'.commands[n].step = StepAt(k) /\ run'.commands[n].images = [t \in Needs(StepAt(k)) |-> disk[t]]
  BY <1>2 DEF Entry
<1>4. disk' = disk /\ n \in 1 .. Len(run'.commands)
  BY <1>1 DEF TakesCommand
<1>5. thing \in Needs(run'.commands[n].step) /\ run'.commands[n].images[thing] = disk'[thing]
  BY <1>3, <1>4
<1> HIDE DEF n
<1> QED BY <1>4, <1>5 DEF Bound

LEMMA ReadIsFree ==
    ASSUME Types, Progress, Records, [Next]_vars, Stage' # 0, NEW thing \in Tracked,
           Opened(thing) < Stage, Stage < Closed(thing), StaysPut(thing)
    PROVE  Free(thing, disk[thing])'
<1>1. Known(thing, OnRecord(thing)) /\ OnRecord(thing)' = OnRecord(thing)
  <2>1. Opened(thing) \in Nat /\ Stage \in Nat
    BY OpenedIs, HowRunsMove
  <2>2. Stage > Opened(thing)
    BY <2>1
  <2> QED BY <2>2, RecordIsKept DEF Records
<1>2. PICK r : r = OnRecord(thing)
  OBVIOUS
<1>3. disk'[thing] # r => Count(thing)' >= 1
  BY <1>1, <1>2 DEF Known, StaysPut
<1>4. OnRecord(thing)' = r
  BY <1>1, <1>2
<1>5. Strayed(thing, disk[thing], OnRecord(thing))'
  BY <1>3, <1>4 DEF Strayed
<1>6. Stage' > Opened(thing) /\ ~(Stage' > Closed(thing))
  <2>1. Opened(thing) \in {7, 11, 14, 17, 18} /\ Closed(thing) \in {30, 32, 33}
    BY OpenedIs DEF Closed
  <2>2. Stage \in 1 .. 35 /\ (Stage' = Stage \/ Stage' = Stage + 1)
    BY HowRunsMove
  <2> QED BY <2>1, <2>2
<1> QED BY <1>5, <1>6 DEF Free

LEMMA UsesStay ==
    ASSUME Types, Progress, Claims, Records, Uses, [Next]_vars PROVE Uses'
<1> SUFFICES ASSUME Stage' # 0, NEW use \in history'.used
             PROVE  (Bound(use[1], use[2]) \/ Free(use[1], use[2]))'
  BY DEF Uses
<1>1. Stage # 0
  BY HowRunsMove
<1>2. CASE use \in history.used
  BY <1>1, <1>2, BoundStays, FreeStays DEF Uses
<1>3. CASE use \notin history.used
  <2>1. /\ Stage \in CommandStages \cup {20} /\ history'.used = Use(UsedAt(Stage))
        /\ (Stage # 20 => TakesCommand(Stage)) /\ \A thing \in Things : StaysPut(thing)
    BY <1>3, HowUsesGrow
  <2>2. PICK thing \in UsedAt(Stage) : use = <<thing, disk[thing]>>
    BY <1>3, <2>1 DEF Use
  <2>3. thing \in Tracked => StaysPut(thing)
    BY <2>1, OpenedIs
  <2>4. PICK v : v = disk[thing]
    OBVIOUS
  <2>5. disk'[thing] = v /\ use[1] = thing /\ use[2] = v
    <3>1. thing \in Things
      BY <2>2, WhatIsSaid DEF UsedAt, Things
    <3> QED BY <2>1, <2>2, <2>4, <3>1 DEF StaysPut
  <2>6. CASE Stage = 20
    <3>1. thing = "sources"
      BY <2>2, <2>6 DEF UsedAt
    <3>2. thing \in Tracked /\ Opened(thing) < Stage /\ Stage < Closed(thing)
      BY <2>6, <3>1, OpenedIs DEF Tracked
    <3>3. Free(thing, disk[thing])'
      BY <2>3, <3>2, ReadIsFree
    <3> QED BY <2>5, <3>3 DEF Free, Strayed
  <2>7. CASE Stage # 20
    <3>1. Stage \in CommandStages /\ TakesCommand(Stage)
      BY <2>1, <2>7
    <3>2. PICK k \in CommandStages : k = Stage
      BY <3>1
    <3>3. thing \in Needs(StepAt(k)) \/ thing \in Reads(StepAt(k))
      BY <2>2, <2>7, <3>2 DEF UsedAt
    <3>4. CASE thing \in Needs(StepAt(k))
      <4>1. Bound(thing, disk[thing])'
        BY <3>1, <3>2, <3>4, NeededIsBound
      <4> QED BY <2>5, <4>1 DEF Bound
    <3>5. CASE thing \in Reads(StepAt(k))
      <4>1. thing \in Tracked /\ Opened(thing) < Stage /\ Stage < Closed(thing)
        BY <3>2, <3>5, ReadsAreOpen
      <4>2. Free(thing, disk[thing])'
        BY <2>3, <4>1, ReadIsFree
      <4> QED BY <2>5, <4>2 DEF Free, Strayed
    <3> QED BY <3>3, <3>4, <3>5
  <2> QED BY <2>6, <2>7
<1> QED BY <1>2, <1>3
-----------------------------------------------------------------------------
(* The manifest against the commit: its two parts are compared before and   *)
(* after with what the commit has, so only three changes can hide in one.   *)
Manifests ==
    /\ Stage > 1 => Known("work", run.source.schema)
    /\ Stage > 0 => Known("sources", 0)
    /\ Stage > 7 => /\ Strayed("work", run.source.manifest[1], run.source.schema)
                    /\ Strayed("sources", run.source.manifest[2], 0)
    /\ Stage > 9 /\ run.source.lock = run.source.schema =>
          StrayedTwice("work", run.source.manifest[1], run.source.schema)
    /\ Stage > 31 => StrayedTwice("sources", run.source.manifest[2], 0)
    /\ Stage > 32 => /\ \/ run.source.manifest[1] = run.source.schema
                        \/ run.source.lock # run.source.schema
                        \/ Count("work") >= 3
                     /\ run.source.manifest[2] = 0 \/ Count("sources") >= 3
                     /\ run.source.manifest = <<run.source.manifest[1], run.source.manifest[2]>>

LEMMA ManifestsStart == ASSUME Init PROVE Manifests
<1>1. Stage = 1 /\ disk["sources"] = 0
  BY StageIs DEF Init, Things
<1> QED BY <1>1 DEF Manifests, Known

LEMMA ManifestsWait ==
    ASSUME Types, Progress, Manifests, [Next]_vars, Stage' # 0, Stage' = Stage PROVE Manifests'
<1>1. run' = run /\ "work" \in Things /\ "sources" \in Things
  BY HowRunsMove DEF Things
<1>2. Moved("work") /\ Moved("sources")
  BY <1>1, HowTheyMove
<1>3. PICK s : s = run.source.schema
  OBVIOUS
<1>4. PICK a : a = run.source.manifest[1]
  OBVIOUS
<1>5. PICK b : b = run.source.manifest[2]
  OBVIOUS
<1>6. /\ Known("work", s) => Known("work", s)'
      /\ Strayed("work", a, s) => Strayed("work", a, s)'
      /\ StrayedTwice("work", a, s) => StrayedTwice("work", a, s)'
      /\ Count("work") >= 3 => Count("work")' >= 3
  BY <1>1, <1>2, RecordsSurvive
<1>7. /\ Known("sources", 0) => Known("sources", 0)'
      /\ Strayed("sources", b, 0) => Strayed("sources", b, 0)'
      /\ StrayedTwice("sources", b, 0) => StrayedTwice("sources", b, 0)'
      /\ Count("sources") >= 3 => Count("sources")' >= 3
  BY <1>1, <1>2, RecordsSurvive
<1>8. run'.source.schema = s /\ run'.source.manifest[1] = a /\ run'.source.manifest[2] = b
  BY <1>1, <1>3, <1>4, <1>5
<1>9. /\ Stage > 1 => Known("work", s)'
      /\ Stage > 0 => Known("sources", 0)'
      /\ Stage > 7 => Strayed("work", a, s)' /\ Strayed("sources", b, 0)'
      /\ Stage > 9 /\ run.source.lock = s => StrayedTwice("work", a, s)'
      /\ Stage > 31 => StrayedTwice("sources", b, 0)'
      /\ Stage > 32 => /\ a = s \/ run.source.lock # s \/ Count("work")' >= 3
                       /\ b = 0 \/ Count("sources")' >= 3
                       /\ run.source.manifest = <<a, b>>
  BY <1>3, <1>4, <1>5, <1>6, <1>7 DEF Manifests
<1> QED BY <1>1, <1>8, <1>9 DEF Manifests, Known, Strayed, StrayedTwice

LEMMA ManifestsGoOn ==
    ASSUME Types, Progress, Manifests, [Next]_vars, Stage' # 0, Stage' # Stage PROVE Manifests'
<1>1. /\ Stage \in 1 .. 34 /\ Stage' = Stage + 1 /\ Gain(Stage)
      /\ "work" \in Things /\ "sources" \in Things
  BY HowRunsMove DEF Things
<1>2. StaysPut("work") /\ StaysPut("sources") /\ Moved("work") /\ Moved("sources")
  BY <1>1, HowTheyMove DEF Moved
<1> DEFINE d == disk["work"]
           e == disk["sources"]
           K == Count("work")
           L == Count("sources")
           s == run.source.schema
           t == run'.source.schema
           a == run'.source.manifest[1]
           b == run'.source.manifest[2]
           l == run'.source.lock
           m == run'.source.manifest
<1>3. /\ disk'["work"] = d /\ disk'["sources"] = e /\ Count("work")' = K /\ Count("sources")' = L
      /\ d \in {0, 1} /\ e \in {0, 1} /\ K \in Nat /\ L \in Nat
  BY <1>1, <1>2, CountIs DEF StaysPut
<1>4. /\ Stage # 1 => t = s
      /\ Stage = 1 => t = d
      /\ Stage # 7 => m = run.source.manifest
      /\ Stage = 7 => a = d /\ b = e
      /\ Stage # 9 => l = run.source.lock
      /\ Stage = 9 => l = d
  BY <1>1, SourceMoves DEF ManifestNow
<1>5. /\ Stage = 31 => e = 0
      /\ Stage = 32 => a = d /\ b = e /\ m = <<a, b>>
  <2>1. Stage = 31 => e = 0
    BY <1>1 DEF Gain, CleanNow
  <2>2. Stage = 32 => run.source.manifest = <<d, e>>
    BY <1>1 DEF Gain, InputsUnchanged, ManifestNow
  <2> QED BY <1>4, <2>1, <2>2
<1>6. /\ Stage > 1 => (d # s => K >= 1)
      /\ e # 0 => L >= 1
      /\ Stage > 7 => /\ a # s => K >= 1 /\ (d = s => K >= 2)
                      /\ b # 0 => L >= 1 /\ (e = 0 => L >= 2)
      /\ Stage > 9 /\ l = s => (a # s => K >= 2 /\ (d = a => K >= 3))
      /\ Stage > 31 => (b # 0 => L >= 2 /\ (e = b => L >= 3))
      /\ Stage > 32 => /\ a = s \/ l # s \/ K >= 3
                       /\ b = 0 \/ L >= 3
                       /\ m = <<a, b>>
  BY <1>1, <1>4 DEF Manifests, Known, Strayed, StrayedTwice
<1> HIDE DEF d, e, K, L, s, t, a, b, l, m
<1>7. Stage' > 1 => (d # t => K >= 1)
  BY <1>1, <1>4, <1>6
<1>8. Stage' > 7 => /\ a # t => K >= 1 /\ (d = t => K >= 2)
                    /\ b # 0 => L >= 1 /\ (e = 0 => L >= 2)
  <2>1. CASE Stage = 7
    BY <1>3, <1>4, <1>6, <2>1
  <2>2. CASE Stage # 7
    BY <1>1, <1>4, <1>6, <2>2
  <2> QED BY <2>1, <2>2
<1>9. Stage' > 9 /\ l = t => (a # t => K >= 2 /\ (d = a => K >= 3))
  <2>1. CASE Stage = 9
    BY <1>3, <1>4, <1>6, <2>1
  <2>2. CASE Stage # 9
    BY <1>1, <1>4, <1>6, <2>2
  <2> QED BY <2>1, <2>2
<1>10. Stage' > 31 => (b # 0 => L >= 2 /\ (e = b => L >= 3))
  <2>1. CASE Stage = 31
    BY <1>3, <1>5, <1>6, <2>1
  <2>2. CASE Stage # 31
    BY <1>1, <1>6, <2>2
  <2> QED BY <2>1, <2>2
<1>11. Stage' > 32 => (a = t \/ l # t \/ K >= 3) /\ (b = 0 \/ L >= 3) /\ m = <<a, b>>
  <2>1. CASE Stage = 32
    BY <1>4, <1>5, <1>6, <2>1
  <2>2. CASE Stage # 32
    BY <1>1, <1>4, <1>6, <2>2
  <2> QED BY <2>1, <2>2
<1> QED
  <2> USE DEF d, e, K, L, s, t, a, b, l, m
  <2> QED BY <1>3, <1>6, <1>7, <1>8, <1>9, <1>10, <1>11
          DEF Manifests, Known, Strayed, StrayedTwice

LEMMA ManifestsStay ==
    ASSUME Types, Progress, Manifests, [Next]_vars PROVE Manifests'
<1>1. CASE Stage' = 0
  BY <1>1 DEF Manifests
<1>2. CASE Stage' # 0
  BY <1>2, ManifestsWait, ManifestsGoOn
<1> QED BY <1>1, <1>2
-----------------------------------------------------------------------------
Executed == Types /\ Progress /\ WindowInv /\ Claims /\ Records /\ Uses /\ Manifests

LEMMA ExecutedAtInit == ASSUME Init PROVE Executed
<1>1. Stage = 1 /\ history.used = {} /\ Types /\ Progress
  BY StageIs, StartsTyped DEF Init
<1>2. Records
  BY <1>1, OpenedIs DEF Records
<1>3. Uses
  BY <1>1 DEF Uses
<1> QED BY <1>1, <1>2, <1>3, WindowAtInit, ClaimsStart, ManifestsStart DEF Executed

LEMMA ExecutedStays == ASSUME Executed, [Next]_vars PROVE Executed'
<1>1. Types' /\ Progress'
  BY StepsTaken, MachineTypesStay, ProgressStays DEF Executed, Types
<1>2. WindowInv'
  BY WindowStep DEF Executed
<1> QED BY <1>1, <1>2, ClaimsStay, RecordsStay, UsesStay, ManifestsStay DEF Executed

LEMMA QualifiedIsAtTheEnd ==
    ASSUME Types, Progress, Published, run.status = "PASS" PROVE Stage = 35
<1>1. pc \in {"published", "closed"}
  BY DEF Progress, Published
<1>2. Stage # 0
  BY <1>1 DEF Progress
<1>3. pc # "closed"
  BY <1>2, StageIs
<1> QED BY <1>1, <1>2, <1>3, StageIs

LEMMA UsedWasRecorded ==
    ASSUME Executed, Stage = 35, ToolsAreReported(run), NEW use \in history.used
    PROVE  use[2] = OnRecord(use[1]) \/ history.changes[use[1]] >= 2
<1>1. CASE Bound(use[1], use[2])
  <2>1. PICK i \in 1 .. Len(run.commands) : /\ use[1] \in Needs(run.commands[i].step)
                                            /\ run.commands[i].images[use[1]] = use[2]
    BY <1>1 DEF Bound
  <2>2. run.commands \in Seq(CommandType)
    BY DEF Executed, Types, RunTypes
  <2>3. run.commands[i] \in Commands(run)
    BY <2>1, <2>2 DEF Commands
  <2>4. run.commands[i].images[use[1]] = run.ids[use[1]]
    BY <2>1, <2>3 DEF ToolsAreReported
  <2>5. use[1] \in Tools
    BY <2>1, WhatIsSaid DEF Executed
  <2> QED BY <2>1, <2>4, <2>5, RecordHere
<1>2. CASE Free(use[1], use[2])
  <2>1. use[1] \in Tracked
    BY <1>2 DEF Free
  <2>2. Closed(use[1]) \in {30, 32, 33}
    BY <2>1 DEF Closed
  <2>3. Stage > Closed(use[1])
    BY <2>2
  <2> QED BY <1>2, <2>3 DEF Free, Count
<1> QED BY <1>1, <1>2 DEF Executed, Uses

LEMMA TreeWasCommitted ==
    ASSUME Executed, Stage = 35, SourceIsCommitted(run.source, log)
    PROVE  \/ run.source.manifest = <<log[run.source.commit], 0>>
           \/ \E thing \in {"work", "sources"} : history.changes[thing] >= 3
<1>1. /\ \/ run.source.manifest[1] = run.source.schema
         \/ run.source.lock # run.source.schema
         \/ history.changes["work"] >= 3
      /\ run.source.manifest[2] = 0 \/ history.changes["sources"] >= 3
      /\ run.source.manifest = <<run.source.manifest[1], run.source.manifest[2]>>
  BY DEF Executed, Manifests, Count
<1>2. /\ run.source.schema = log[run.source.commit]
      /\ run.source.lock = log[run.source.commit]
  BY DEF SourceIsCommitted
<1> QED BY <1>1, <1>2

LEMMA NothingForbidden ==
    ASSUME Executed, Stage = 35, NEW step \in {"fmt", "clippy", "test"}
    PROVE  Clean(scenario.targets[step])
<1>1. ScanTarget(step, scenario.targets[step])
  BY DEF Executed, Claims, Scanned
<1>2. scenario \in Scenarios
  BY DEF Executed, Types, MachineTypes
<1>3. \A a \in scenario.targets[step] : \A m \in Within(a) : Formatted(m)
  BY <1>2, ExecutionAssumption
<1> QED BY <1>1, <1>3, ScanIsSound

(* A PASS that its own rules accept was produced by what it names, for      *)
(* every host, lock and target, whatever changes and however often: what    *)
(* was used has the version on record, unless it was changed twice, which   *)
(* is what comparing instead of locking leaves open; the manifest is the    *)
(* commit's unless a part of the tree was changed three times; nothing      *)
(* forbidden was in reach in a target that was scanned; no provider was     *)
(* active; and the host fitted.                                             *)
THEOREM QualifiedWasExecuted == Spec => []PassMeansExecuted
<1>1. Executed => PassMeansExecuted
  <2> SUFFICES ASSUME Executed, Qualified
               PROVE  /\ \A use \in history.used :
                            use[2] = OnRecord(use[1]) \/ history.changes[use[1]] >= 2
                      /\ \/ run.source.manifest = <<log[run.source.commit], 0>>
                         \/ \E thing \in {"work", "sources"} : history.changes[thing] >= 3
                      /\ \A step \in {"fmt", "clippy", "test"} : Clean(scenario.targets[step])
                      /\ \A p \in run.cached : p.id \in scenario.active => p.class = "plain"
                      /\ HostFits(scenario.host) /\ Selected(run.selection)
    BY DEF PassMeansExecuted
  <2>1. Stage = 35
    BY QualifiedIsAtTheEnd DEF Executed, Qualified
  <2>2. SourceIsCommitted(run.source, log) /\ ToolsAreReported(run)
    BY DEF Qualified, Accepts, RunValid
  <2>3. \A p \in run.cached : p.id \in scenario.active => p.class = "plain"
    BY <2>1 DEF Executed, Claims
  <2>4. HostFits(scenario.host) /\ Selected(run.selection)
    BY <2>1 DEF Executed, Claims
  <2> QED BY <2>1, <2>2, <2>3, <2>4, UsedWasRecorded, TreeWasCommitted, NothingForbidden
<1>2. Executed /\ [Next]_vars => Executed'
  BY ExecutedStays
<1>3. Init => Executed
  BY ExecutedAtInit
<1> QED BY <1>1, <1>2, <1>3, PTL DEF Spec
-----------------------------------------------------------------------------
(* What holds of a run however it ends, and so of the FAIL that is          *)
(* published: first, how a step that is not a command leaves it.            *)
LEMMA SilentSteps ==
    ASSUME Types, Progress, [Next]_vars, ~\E k \in CommandStages : TakesCommand(k)
    PROVE  /\ run'.commands = run.commands \/ run'.commands = <<>>
           /\ history'.early = history.early
           /\ \/ clock' = clock /\ history'.changes["clock"] = history.changes["clock"]
              \/ history'.changes["clock"] # 0
<1>1. history.changes \in [Things \cup {"head", "clock"} -> Nat]
  BY DEF Types, MachineTypes, HistoryType
<1>2. CASE \E k \in InspectionStages : Inspects(k)
  <2>1. PICK k \in InspectionStages : Inspects(k)
    BY <1>2
  <2>2. "commands" \in RunFields \ Written(k)
    BY DEF RunFields, Written
  <2> QED BY <2>1, <2>2 DEF Inspects, Kept, machine
<1>3. CASE Begins \/ Retains \/ Emits
  <2>1. "commands" \in RunFields /\ \A k \in {9, 18, 34} : "commands" \notin Written(k)
    BY DEF RunFields, Written
  <2>2. run'.commands = run.commands
    BY <1>3, <2>1 DEF Begins, Retains, Emits, Kept
  <2> QED BY <1>3, <2>2 DEF Begins, Retains, Emits, machine
<1>4. CASE Copies
  <2>1. run' = run /\ clock' = clock
    BY <1>4 DEF Copies
  <2>2. history' = history \/ history' = [history EXCEPT !.used = Use({"sources"})]
    BY <1>4 DEF Copies
  <2>3. history'.changes = history.changes /\ history'.early = history.early
    BY <2>2, CopyHistory
  <2> QED BY <2>1, <2>3
<1>5. CASE Ends
  <2>1. "commands" \in RunFields \ {"status", "artifacts"}
    BY DEF RunFields
  <2>2. run'.commands = run.commands \/ run'.commands = <<>>
    BY <1>5, <2>1 DEF Ends, Kept
  <2> QED BY <1>5, <2>2 DEF Ends, machine
<1>6. CASE IsKilled \/ Idle
  BY <1>6 DEF IsKilled, Idle, machine
<1>7. ASSUME NEW thing \in Things \cup {"head", "clock"}, Changes(thing)
      PROVE  /\ run'.commands = run.commands /\ history'.early = history.early
             /\ \/ clock' = clock /\ history'.changes["clock"] = history.changes["clock"]
                \/ history'.changes["clock"] # 0
  <2>1. /\ history'.changes = [history.changes EXCEPT ![thing] = @ + 1]
        /\ history'.early = history.early
    BY <1>7, ChangeHistory DEF Changes
  <2>2. run' = run /\ (thing # "clock" => clock' = clock)
    BY <1>7 DEF Changes
  <2>3. CASE thing = "clock"
    BY <1>1, <2>1, <2>2, <2>3
  <2>4. CASE thing # "clock"
    BY <1>1, <2>1, <2>2, <2>4
  <2> QED BY <2>3, <2>4
<1> QED BY <1>2, <1>3, <1>4, <1>5, <1>6, <1>7, StepsTaken

(* An attempt in the journal has been begun; what it says of its source and *)
(* of its time stays.                                                       *)
LEMMA Journalled ==
    ASSUME Types, Progress, [Next]_vars, journal' # "none"
    PROVE  \/ Begins /\ Stage = 9 /\ Stage' = 10
           \/ /\ journal # "none" /\ Stage \notin 1 .. 9 /\ run'.source = run.source
              /\ run'.dependency = run.dependency /\ run'.generated = run.generated
<1>1. /\ Stage \in 1 .. 9 => journal = "none"
      /\ Stage \in 10 .. 34 \/ pc \in {"close", "left"} => journal = "open"
  BY DEF Progress
<1>2. /\ "source" \in RunFields /\ "dependency" \in RunFields /\ "generated" \in RunFields
      /\ \A f \in {"source", "dependency", "generated"} :
            f \notin {"status", "artifacts", "commands"}
  BY DEF RunFields
<1>3. ASSUME NEW k, k \in 10 .. 34
      PROVE  /\ "source" \notin Written(k) /\ "dependency" \notin Written(k)
             /\ "generated" \notin Written(k) /\ k \notin 1 .. 9
  <2>1. k \notin {1, 3, 4, 7} /\ k # 8 /\ k # 9
    BY <1>3
  <2> QED BY <1>3, <2>1 DEF Written
<1>4. ASSUME NEW k, k \in 10 .. 34, Stage = k, Kept({"commands"} \cup Written(k))
      PROVE  /\ journal # "none" /\ Stage \notin 1 .. 9 /\ run'.source = run.source
             /\ run'.dependency = run.dependency /\ run'.generated = run.generated
  <2>1. journal = "open"
    BY <1>1, <1>4
  <2> QED BY <1>2, <1>3, <1>4, <2>1 DEF Kept
<1>5. ASSUME NEW k \in CommandStages, TakesCommand(k)
      PROVE  /\ journal # "none" /\ Stage \notin 1 .. 9 /\ run'.source = run.source
             /\ run'.dependency = run.dependency /\ run'.generated = run.generated
  <2>1. Stage = k /\ journal' = journal /\ k \in 2 .. 32 /\ Kept({"commands"} \cup Written(k))
    BY <1>5, CommandStagesAre DEF TakesCommand, Onward
  <2>2. k \in 10 .. 34
    BY <1>1, <2>1
  <2> QED BY <1>4, <2>1, <2>2
<1>6. ASSUME NEW k \in InspectionStages, Inspects(k)
      PROVE  /\ journal # "none" /\ Stage \notin 1 .. 9 /\ run'.source = run.source
             /\ run'.dependency = run.dependency /\ run'.generated = run.generated
  <2>1. Stage = k /\ journal' = journal /\ k \in 1 .. 33 /\ Kept({"commands"} \cup Written(k))
    BY <1>6, SilentStages DEF Inspects, Onward, Kept
  <2>2. k \in 10 .. 34
    BY <1>1, <2>1
  <2> QED BY <1>4, <2>1, <2>2
<1>7. CASE Begins
  <2>1. Stage = 9 /\ journal' = IF Stage' = 10 THEN "open" ELSE journal
    BY <1>7 DEF Begins, Onward
  <2>2. journal = "none"
    BY <1>1, <2>1
  <2> QED BY <1>7, <2>1, <2>2
<1>8. CASE Retains \/ Emits
  <2>1. PICK k \in {18, 34} : Stage = k /\ Kept({"commands"} \cup Written(k))
    BY <1>8 DEF Retains, Emits, Onward, Kept
  <2> QED BY <1>4, <2>1
<1>9. CASE Copies
  <2>1. run' = run /\ Stage = 20
    BY <1>9 DEF Copies, Onward
  <2> QED BY <1>1, <2>1
<1>10. CASE Ends
  <2>1. Stage = 0 /\ pc \in {"close", "left"}
    BY <1>10 DEF Ends
  <2>2. /\ run'.source = run.source /\ run'.dependency = run.dependency
        /\ run'.generated = run.generated
    BY <1>2, <1>10 DEF Ends, Kept
  <2> QED BY <1>1, <2>1, <2>2
<1>11. CASE IsKilled \/ Idle \/ \E thing \in Things \cup {"head", "clock"} : Changes(thing)
  <2>1. run' = run /\ journal # "none"
    BY <1>11 DEF IsKilled, Idle, Changes
  <2> QED BY <1>1, <2>1
<1> QED BY <1>5, <1>6, <1>7, <1>8, <1>9, <1>10, <1>11, StepsTaken

LEMMA NextCommand ==
    ASSUME Types, Progress, NEW k \in CommandStages, TakesCommand(k)
    PROVE  \E n \in 1 .. 22, passed \in BOOLEAN, early \in BOOLEAN, by \in Shift :
              /\ n = RanBy(k) + 1 /\ Len(run.commands) = n - 1 /\ Len(run'.commands) = n
              /\ \A i \in 1 .. n - 1 : run'.commands[i] = run.commands[i]
              /\ Tried(StepAt(k), passed, early, by) /\ (Stage' # 0 => passed)
              /\ run'.commands[n] = Entry(StepAt(k), passed, early, by)
<1>1. /\ Len(run.commands) = RanBy(k) /\ RanBy(k) \in 0 .. 21
      /\ Len(run'.commands) = RanBy(k) + 1
      /\ \A i \in 1 .. RanBy(k) : run'.commands[i] = run.commands[i]
  BY CommandsGrow
<1>2. PICK passed \in BOOLEAN, early \in BOOLEAN, by \in Shift :
         /\ Tried(StepAt(k), passed, early, by) /\ (Stage' # 0 => passed)
         /\ run'.commands[RanBy(k) + 1] = Entry(StepAt(k), passed, early, by)
  BY CommandsGrow
<1>3. PICK m \in 0 .. 21 : m = RanBy(k)
  BY <1>1
<1>4. PICK n \in 1 .. 22 : n = m + 1
  OBVIOUS
<1>5. n = RanBy(k) + 1 /\ n - 1 = m
  BY <1>3, <1>4
<1>6. /\ Len(run.commands) = n - 1 /\ Len(run'.commands) = n
      /\ \A i \in 1 .. n - 1 : run'.commands[i] = run.commands[i]
      /\ run'.commands[n] = Entry(StepAt(k), passed, early, by)
  BY <1>1, <1>2, <1>3, <1>5
<1> QED BY <1>2, <1>5, <1>6

Audits ==
    \A i \in 1 .. Len(run.commands) :
        run.commands[i].audit = "early" =>
            ~run.commands[i].passed /\ (run.commands[i].step = "vswhere" => history.early)

LEMMA AuditsStay == ASSUME Types, Progress, Audits, [Next]_vars PROVE Audits'
<1>1. CASE ~\E k \in CommandStages : TakesCommand(k)
  <2>1. /\ run'.commands = run.commands \/ run'.commands = <<>>
        /\ history'.early = history.early
    BY <1>1, SilentSteps
  <2> QED BY <2>1 DEF Audits
<1>2. ASSUME NEW k \in CommandStages, TakesCommand(k) PROVE Audits'
  <2>1. PICK n \in 1 .. 22, passed \in BOOLEAN, early \in BOOLEAN, by \in Shift :
            /\ n = RanBy(k) + 1 /\ Len(run.commands) = n - 1 /\ Len(run'.commands) = n
            /\ \A i \in 1 .. n - 1 : run'.commands[i] = run.commands[i]
            /\ Tried(StepAt(k), passed, early, by) /\ (Stage' # 0 => passed)
            /\ run'.commands[n] = Entry(StepAt(k), passed, early, by)
    BY <1>2, NextCommand
  <2>3. /\ early => ~passed
        /\ history'.early = (history.early \/ (StepAt(k) = "vswhere" /\ early))
    BY <2>1, CommandHistory DEF Tried
  <2>4. /\ run'.commands[n].audit = "early" => early
        /\ run'.commands[n].passed = passed /\ run'.commands[n].step = StepAt(k)
    BY <2>1 DEF Entry
  <2>5. ASSUME NEW i \in 1 .. Len(run'.commands), run'.commands[i].audit = "early"
        PROVE  ~run'.commands[i].passed /\ (run'.commands[i].step = "vswhere" => history'.early)
    <3>1. CASE i = n
      BY <2>3, <2>4, <2>5, <3>1
    <3>2. CASE i # n
      <4>1. i \in 1 .. Len(run.commands) /\ run'.commands[i] = run.commands[i]
        BY <2>1, <3>2
      <4> QED BY <2>3, <2>5, <4>1 DEF Audits
    <3> QED BY <3>1, <3>2
  <2> QED BY <2>5 DEF Audits
<1> QED BY <1>1, <1>2

(* As long as the clock is not set, the commands follow one another and the *)
(* attempt is generated between the admission and what comes after it.      *)
InTurn(cs, now) ==
    \A i \in 1 .. Len(cs) :
        /\ cs[i].finish = cs[i].start + 1 /\ cs[i].finish <= now
        /\ i > 1 => cs[i].start >= cs[i - 1].finish
Timed ==
    history.changes["clock"] = 0 =>
        /\ clock.skew = 0 /\ InTurn(run.commands, clock.now)
        /\ journal # "none" =>
              /\ run.generated \in Int /\ run.generated <= clock.now
              /\ Len(run.commands) >= 7 => run.commands[7].finish <= run.generated
              /\ Len(run.commands) > 7 => run.generated <= run.commands[8].start

LEMMA NextInTurn ==
    ASSUME NEW cs \in Seq(CommandType), NEW ds \in Seq(CommandType), NEW now \in Int,
           InTurn(cs, now), Len(ds) = Len(cs) + 1,
           \A i \in 1 .. Len(cs) : ds[i] = cs[i],
           ds[Len(cs) + 1].start = now, ds[Len(cs) + 1].finish = now + 1
    PROVE  InTurn(ds, now + 1)
<1> DEFINE n == Len(cs) + 1
<1>1. n \in Nat \ {0} /\ Len(cs) = n - 1 /\ Len(ds) = n
  OBVIOUS
<1>2. \A i \in 1 .. n : ds[i].start \in Int /\ ds[i].finish \in Int
  <2>1. \A i \in 1 .. n : ds[i] \in CommandType
    BY <1>1, ElementOfSeq
  <2> QED BY <2>1 DEF CommandType
<1>3. ASSUME NEW i \in 1 .. n
      PROVE  /\ ds[i].finish = ds[i].start + 1 /\ ds[i].finish <= now + 1
             /\ i > 1 => ds[i].start >= ds[i - 1].finish
  <2>1. CASE i < n
    <3>1. i \in 1 .. Len(cs) /\ ds[i] = cs[i] /\ (i > 1 => ds[i - 1] = cs[i - 1])
      BY <1>1, <2>1
    <3>2. ds[i].finish = ds[i].start + 1 /\ ds[i].finish <= now
      BY <3>1 DEF InTurn
    <3>3. i > 1 => ds[i].start >= ds[i - 1].finish
      BY <3>1 DEF InTurn
    <3> QED BY <1>2, <3>2, <3>3
  <2>2. CASE i = n
    <3>1. ds[i].finish = now + 1 /\ ds[i].start = now
      BY <2>2
    <3>2. i > 1 => ds[i - 1].finish <= now
      <4>1. i > 1 => i - 1 \in 1 .. Len(cs) /\ ds[i - 1] = cs[i - 1]
        BY <1>1, <2>2
      <4> QED BY <4>1 DEF InTurn
    <3>3. i > 1 => i - 1 \in 1 .. n
      BY <1>1, <2>2
    <3> QED BY <1>2, <3>1, <3>2, <3>3
  <2> QED BY <1>1, <2>1, <2>2
<1> QED BY <1>1, <1>3 DEF InTurn

LEMMA TimedAfterCommand ==
    ASSUME Types, Progress, Timed, [Next]_vars, NEW k \in CommandStages, TakesCommand(k),
           history'.changes["clock"] = 0
    PROVE  /\ clock'.skew = 0 /\ InTurn(run'.commands, clock'.now)
           /\ journal' # "none" =>
                 /\ run'.generated \in Int /\ run'.generated <= clock'.now
                 /\ Len(run'.commands) >= 7 => run'.commands[7].finish <= run'.generated
                 /\ Len(run'.commands) > 7 => run'.generated <= run'.commands[8].start
<1> DEFINE cs == run.commands
           ds == run'.commands
           now == clock.now
<1>1. /\ cs \in Seq(CommandType) /\ ds \in Seq(CommandType) /\ now \in Int
      /\ clock \in [now : Nat, skew : Int]
      /\ history.changes \in [Things \cup {"head", "clock"} -> Nat]
  BY CommandsGrow DEF Types, MachineTypes, RunTypes, HistoryType
<1>2. PICK n \in 1 .. 22, passed \in BOOLEAN, early \in BOOLEAN, by \in Shift :
          /\ n = RanBy(k) + 1 /\ Len(cs) = n - 1 /\ Len(ds) = n
          /\ \A i \in 1 .. n - 1 : ds[i] = cs[i]
          /\ Tried(StepAt(k), passed, early, by) /\ (Stage' # 0 => passed)
          /\ ds[n] = Entry(StepAt(k), passed, early, by)
  BY NextCommand
<1>4. /\ history'.changes = IF by = 0 THEN history.changes
                            ELSE [history.changes EXCEPT !["clock"] = @ + 1]
      /\ clock' = [now |-> clock.now + 1, skew |-> clock.skew + by]
  BY <1>2, CommandHistory DEF Tried
<1>5. by = 0 /\ history.changes["clock"] = 0
  <2>1. "clock" \in Things \cup {"head", "clock"}
    OBVIOUS
  <2> QED BY <1>1, <1>4, <2>1
<1>6. clock.skew = 0 /\ InTurn(cs, now)
  BY <1>5 DEF Timed
<1>7. clock'.skew = 0 /\ clock'.now = now + 1
  BY <1>1, <1>4, <1>5, <1>6
<1>8. ds[n].start = now /\ ds[n].finish = now + 1
  BY <1>1, <1>2, <1>5, <1>6 DEF Entry
<1>9. InTurn(ds, now + 1)
  <2>1. Len(ds) = Len(cs) + 1 /\ n = Len(cs) + 1 /\ (\A i \in 1 .. Len(cs) : ds[i] = cs[i])
    BY <1>2
  <2> HIDE DEF cs, ds, now
  <2> QED BY <1>1, <1>6, <1>8, <2>1, NextInTurn
<1>10. ASSUME journal' # "none"
       PROVE  /\ run'.generated \in Int /\ run'.generated <= now + 1
              /\ Len(ds) >= 7 => ds[7].finish <= run'.generated
              /\ Len(ds) > 7 => run'.generated <= ds[8].start
  <2>1. journal # "none" /\ Stage \notin 1 .. 9 /\ run'.generated = run.generated
    <3>1. ~Begins
      <4>1. Stage = k
        BY DEF TakesCommand, Onward
      <4>2. k # 9
        BY DEF CommandStages
      <4> QED BY <4>1, <4>2 DEF Begins, Onward
    <3> QED BY <1>10, <3>1, Journalled
  <2>2. /\ run.generated \in Int /\ run.generated <= now
        /\ Len(cs) >= 7 => cs[7].finish <= run.generated
        /\ Len(cs) > 7 => run.generated <= cs[8].start
    BY <1>5, <2>1 DEF Timed
  <2>3. n >= 8
    <3>1. Stage = k /\ k \in 2 .. 32
      BY CommandStagesAre DEF TakesCommand, Onward
    <3>2. k \in CommandStages /\ k \notin 2 .. 8
      BY <2>1, <3>1
    <3>3. \/ k \in {10, 15, 16, 19} \/ k \in 21 .. 29 \/ k \in {31, 32}
      BY <3>2 DEF CommandStages
    <3>4. RanBy(k) \in 7 .. 21
      BY <3>3 DEF RanBy
    <3> QED BY <1>2, <3>4
  <2>4. ds[7] = cs[7] /\ (n > 8 => ds[8] = cs[8])
    BY <1>2, <2>3
  <2>5. Len(ds) > 7 => run.generated <= ds[8].start
    <3>1. CASE n = 8
      BY <1>8, <2>2, <3>1
    <3>2. CASE n > 8
      BY <1>2, <2>2, <2>4, <3>2
    <3> QED BY <1>2, <2>3, <3>1, <3>2
  <2> HIDE DEF cs, ds, now
  <2>6. Len(cs) >= 7 /\ run.generated <= now + 1
    BY <1>1, <1>2, <2>2, <2>3
  <2> QED BY <2>1, <2>2, <2>4, <2>5, <2>6
<1> QED BY <1>7, <1>9, <1>10

LEMMA TimedStays == ASSUME Types, Progress, Timed, [Next]_vars PROVE Timed'
<1>1. CASE ~\E k \in CommandStages : TakesCommand(k)
  <2>1. /\ run'.commands = run.commands \/ run'.commands = <<>>
        /\ \/ clock' = clock /\ history'.changes["clock"] = history.changes["clock"]
           \/ history'.changes["clock"] # 0
    BY <1>1, SilentSteps
  <2> SUFFICES ASSUME history'.changes["clock"] = 0
               PROVE  /\ clock'.skew = 0 /\ InTurn(run'.commands, clock'.now)
                      /\ journal' # "none" =>
                            /\ run'.generated \in Int /\ run'.generated <= clock'.now
                            /\ Len(run'.commands) >= 7 =>
                                  run'.commands[7].finish <= run'.generated
                            /\ Len(run'.commands) > 7 =>
                                  run'.generated <= run'.commands[8].start
    BY DEF Timed
  <2>2. /\ clock' = clock /\ clock.skew = 0 /\ InTurn(run.commands, clock.now)
        /\ journal # "none" =>
              /\ run.generated \in Int /\ run.generated <= clock.now
              /\ Len(run.commands) >= 7 => run.commands[7].finish <= run.generated
              /\ Len(run.commands) > 7 => run.generated <= run.commands[8].start
    BY <2>1 DEF Timed
  <2>3. InTurn(run'.commands, clock'.now)
    <3>1. CASE run'.commands = run.commands
      BY <2>2, <3>1
    <3>2. CASE run'.commands = <<>>
      BY <3>2 DEF InTurn
    <3> QED BY <2>1, <3>1, <3>2
  <2>4. ASSUME journal' # "none"
        PROVE  /\ run'.generated \in Int /\ run'.generated <= clock'.now
               /\ Len(run'.commands) >= 7 => run'.commands[7].finish <= run'.generated
               /\ Len(run'.commands) > 7 => run'.generated <= run'.commands[8].start
    <3>1. CASE Begins /\ Stage = 9 /\ Stage' = 10
      <4>1. run'.generated = clock.now + clock.skew /\ clock.now \in Nat
        BY <3>1 DEF Begins, Onward, Gain, Types, MachineTypes
      <4>2. Len(run.commands) = 7 /\ run'.commands = run.commands
        <5>1. RanBy(Stage) = 7
          BY <3>1 DEF RanBy
        <5>2. "commands" \in RunFields \ Written(9)
          BY DEF RunFields, Written
        <5>3. Len(run.commands) = 7
          <6>1. Stage # 0 => Len(run.commands) = RanBy(Stage)
            BY DEF Progress
          <6>2. Stage # 0
            BY <3>1
          <6>3. Len(run.commands) = RanBy(Stage)
            BY <6>1, <6>2
          <6> QED BY <5>1, <6>3
        <5> QED BY <3>1, <5>2, <5>3 DEF Begins, Kept
      <4>3. run.commands[7].finish <= clock.now
        <5>1. 7 \in 1 .. Len(run.commands)
          BY <4>2
        <5> QED BY <2>2, <5>1 DEF InTurn
      <4> QED BY <2>2, <4>1, <4>2, <4>3
    <3>2. CASE journal # "none" /\ run'.generated = run.generated
      <4>1. CASE run'.commands = run.commands
        BY <2>2, <3>2, <4>1
      <4>2. CASE run'.commands = <<>>
        <5>1. Len(run'.commands) = 0
          BY <4>2
        <5> QED BY <2>2, <3>2, <5>1
      <4> QED BY <2>1, <4>1, <4>2
    <3> QED BY <2>4, <3>1, <3>2, Journalled
  <2> QED BY <2>2, <2>3, <2>4
<1>2. ASSUME NEW k \in CommandStages, TakesCommand(k) PROVE Timed'
  BY <1>2, TimedAfterCommand DEF Timed
<1> QED BY <1>1, <1>2
-----------------------------------------------------------------------------
(* A run whose admission nothing disturbed names one commit.                *)
Admitted ==
    /\ log[1] = 0
    /\ ~history.admission /\ Stage \in 1 .. 9 =>
          /\ disk["work"] = 0 /\ log = <<0>>
          /\ Stage > 1 => run.source.schema = 0
          /\ Stage > 3 => run.source.commit = 1
          /\ Stage > 4 => run.source.tree = 1
    /\ Stage = 9 => run.dependency = run.source.commit
    /\ journal # "none" =>
          /\ run.dependency = run.source.commit
          /\ \/ history.admission
             \/ /\ run.source.schema = 0 /\ run.source.commit = 1 /\ run.source.tree = 1
                /\ run.source.lock = 0 /\ run.source.verifier = 0

LEMMA AdmittedStarts == ASSUME Init PROVE Admitted
<1>1. Stage = 1 /\ disk["work"] = 0 /\ log = <<0>> /\ journal = "none"
  BY StageIs DEF Init, Things
<1> QED BY <1>1 DEF Admitted

LEMMA WhereAdmitting ==
    ASSUME Types, Progress, Stage \in 1 .. 9 PROVE Admitting
<1>1. pc \in {"schemas", "history", "head", "tree", "branch", "clean", "manifest", "dependency",
              "bundle"}
  BY DEF Stage
<1>2. Len(run.commands) <= 7
  <2>1. RanBy(Stage) \in 0 .. 7
    BY DEF RanBy
  <2>2. Stage # 0
    OBVIOUS
  <2>3. Stage # 0 => Len(run.commands) = RanBy(Stage)
    BY DEF Progress
  <2> QED BY <2>1, <2>2, <2>3
<1>3. pc \in {"schemas", "bundle"} \cup {Admission[i] : i \in DOMAIN Admission}
  <2>1. /\ Admission[1] = "history" /\ Admission[2] = "head" /\ Admission[3] = "tree"
        /\ Admission[4] = "branch" /\ Admission[5] = "clean" /\ Admission[6] = "manifest"
        /\ Admission[7] = "dependency" /\ DOMAIN Admission = 1 .. 7
    BY DEF Admission
  <2>2. \A i \in 1 .. 7 : Admission[i] \in {Admission[j] : j \in DOMAIN Admission}
    BY <2>1
  <2> QED BY <1>1, <2>1, <2>2
<1> QED BY <1>2, <1>3, PlanIs DEF Admitting

LEMMA LogIsKept ==
    ASSUME Types, Progress, [Next]_vars
    PROVE  /\ log' = log \/ \E v : log' = Append(log, v)
           /\ history.admission => history'.admission
           /\ Stage \in 1 .. 9 /\ ~history'.admission =>
                 disk'["work"] = disk["work"] /\ log' = log
<1>1. ASSUME NEW k \in CommandStages, TakesCommand(k)
      PROVE  disk' = disk /\ log' = log /\ history'.admission = history.admission
  <2>1. PICK passed \in BOOLEAN, early \in BOOLEAN, by \in Shift :
            Tried(StepAt(k), passed, early, by)
    BY <1>1 DEF TakesCommand
  <2>2. history'.admission = history.admission
    BY <2>1, CommandHistory DEF Tried
  <2> QED BY <1>1, <2>2 DEF TakesCommand
<1>2. CASE \E k \in InspectionStages : Inspects(k)
  BY <1>2 DEF Inspects, machine
<1>3. CASE Begins \/ Emits \/ Ends \/ IsKilled \/ Idle
  BY <1>3 DEF Begins, Emits, Ends, IsKilled, Idle, machine
<1>4. CASE Retains
  <2>1. log' = log /\ history' = history /\ Stage = 18
    BY <1>4 DEF Retains, Onward
  <2> QED BY <2>1
<1>5. CASE Copies
  <2>1. disk' = disk /\ log' = log
    BY <1>5 DEF Copies
  <2>2. history' = history \/ history' = [history EXCEPT !.used = Use({"sources"})]
    BY <1>5 DEF Copies
  <2>3. history'.admission = history.admission
    BY <2>2, CopyHistory
  <2> QED BY <2>1, <2>3
<1>6. ASSUME NEW thing \in Things \cup {"head", "clock"}, Changes(thing)
      PROVE  /\ log' = log \/ \E v : log' = Append(log, v)
             /\ history.admission => history'.admission
             /\ Stage \in 1 .. 9 /\ ~history'.admission =>
                   disk'["work"] = disk["work"] /\ log' = log
  <2>1. history'.admission = (history.admission \/ (Admitting /\ thing \in {"work", "head"}))
    BY <1>6, ChangeHistory DEF Changes
  <2>2. /\ disk' = IF thing \in Things THEN [disk EXCEPT ![thing] = 1 - @] ELSE disk
        /\ log' = IF thing = "head" THEN Append(log, disk["work"]) ELSE log
    BY <1>6 DEF Changes
  <2>3. /\ thing # "work" => disk'["work"] = disk["work"]
        /\ thing # "head" => log' = log
    BY <2>2 DEF Types, MachineTypes
  <2>4. Stage \in 1 .. 9 => Admitting
    BY WhereAdmitting
  <2>5. log' = log \/ \E v : log' = Append(log, v)
    BY <2>2
  <2> QED BY <2>1, <2>3, <2>4, <2>5
<1> QED BY <1>1, <1>2, <1>3, <1>4, <1>5, <1>6, StepsTaken

LEMMA AdmittedStays == ASSUME Types, Progress, Admitted, [Next]_vars PROVE Admitted'
<1>1. log'[1] = 0
  <2>1. log[1] = 0 /\ log \in Seq({0, 1}) /\ Len(log) > 0
    BY DEF Admitted, Types, MachineTypes
  <2>2. \A v : Append(log, v)[1] = log[1]
    BY <2>1
  <2> QED BY <2>1, <2>2, LogIsKept
<1>2. CASE Stage' \in 1 .. 9
  <2>1. /\ Stage' # 0 /\ journal' = "none" /\ Stage \in 1 .. 35
        /\ Stage' = Stage \/ (Stage' = Stage + 1 /\ Gain(Stage))
    <3>1. Stage' # 0
      BY <1>2
    <3>2. journal' = "none"
      BY <1>2, ProgressStays DEF Progress
    <3> QED BY <3>1, <3>2, HowRunsMove
  <2>2. Stage \in 1 .. 9
    BY <1>2, <2>1
  <2>3. ASSUME ~history'.admission
        PROVE  /\ disk'["work"] = 0 /\ log' = <<0>>
               /\ Stage' > 1 => run'.source.schema = 0
               /\ Stage' > 3 => run'.source.commit = 1
               /\ Stage' > 4 => run'.source.tree = 1
    <3>1. ~history.admission /\ disk'["work"] = disk["work"] /\ log' = log
      BY <2>2, <2>3, LogIsKept
    <3>2. /\ disk["work"] = 0 /\ log = <<0>>
          /\ Stage > 1 => run.source.schema = 0
          /\ Stage > 3 => run.source.commit = 1
          /\ Stage > 4 => run.source.tree = 1
      BY <2>2, <3>1 DEF Admitted
    <3>3. Len(log) = 1
      BY <3>2
    <3>4. Stage' > 1 => run'.source.schema = 0
      BY <2>1, <3>2, SourceMoves
    <3>5. Stage' > 3 => run'.source.commit = 1
      BY <2>1, <3>2, <3>3, SourceMoves
    <3>6. Stage' > 4 => run'.source.tree = 1
      BY <2>1, <3>2, <3>3, SourceMoves
    <3> QED BY <3>1, <3>2, <3>4, <3>5, <3>6
  <2>4. Stage' = 9 => run'.dependency = run'.source.commit
    <3>1. CASE Stage = 8 /\ Stage' = 9
      <4>1. run'.dependency = run.source.commit
        BY <2>1, <3>1 DEF Gain
      <4>2. run'.source = run.source
        BY <2>1, <3>1, WrittenOnlyAt
      <4> QED BY <4>1, <4>2
    <3>2. CASE Stage = 9 /\ Stage' = 9
      <4>1. run' = run
        BY <2>1, <3>2, HowRunsMove
      <4> QED BY <3>2, <4>1 DEF Admitted
    <3> QED BY <2>1, <3>1, <3>2
  <2> QED BY <1>1, <2>1, <2>3, <2>4 DEF Admitted
<1>3. CASE Stage' \notin 1 .. 9
  <2> SUFFICES ASSUME journal' # "none"
               PROVE  /\ run'.dependency = run'.source.commit
                      /\ \/ history'.admission
                         \/ /\ run'.source.schema = 0 /\ run'.source.commit = 1
                            /\ run'.source.tree = 1
                            /\ run'.source.lock = 0 /\ run'.source.verifier = 0
    BY <1>1, <1>3 DEF Admitted
  <2>1. CASE Stage = 9 /\ Stage' = 10
    <3>1. /\ run'.source.schema = run.source.schema /\ run'.source.commit = run.source.commit
          /\ run'.source.tree = run.source.tree
          /\ run'.source.lock = disk["work"] /\ run'.source.verifier = disk["work"]
          /\ run'.dependency = run.dependency
      BY <2>1, SourceMoves, WrittenOnlyAt
    <3>2. run.dependency = run.source.commit
      BY <2>1 DEF Admitted
    <3>3. \/ history'.admission
          \/ /\ disk["work"] = 0 /\ run.source.schema = 0 /\ run.source.commit = 1
             /\ run.source.tree = 1
      BY <2>1, LogIsKept DEF Admitted
    <3> QED BY <3>1, <3>2, <3>3
  <2>2. CASE journal # "none" /\ run'.source = run.source /\ run'.dependency = run.dependency
    BY <2>2, LogIsKept DEF Admitted
  <2> QED BY <2>1, <2>2, Journalled
<1> QED BY <1>2, <1>3
-----------------------------------------------------------------------------
(* What a PASS quotes is what its transcripts say, and what its audits show *)
(* is what it identifies.                                                   *)
LEMMA ForCommand ==
    ASSUME Types, Progress, [Next]_vars, Stage' # 0, Stage' # Stage, Stage \in CommandStages
    PROVE  TakesCommand(Stage)
<1>1. \A k \in InspectionStages \cup {9, 18, 20, 34} : k \notin CommandStages
  BY DEF InspectionStages, CommandStages
<1>2. ~\E k \in InspectionStages : Inspects(k)
  BY <1>1 DEF Inspects, Onward
<1>3. ~Begins /\ ~Retains /\ ~Copies /\ ~Emits
  BY <1>1 DEF Begins, Retains, Copies, Emits, Onward
<1>4. ~Ends /\ ~IsKilled /\ ~Idle /\ ~\E t \in Things \cup {"head", "clock"} : Changes(t)
  BY DEF Ends, IsKilled, Idle, Changes
<1>5. PICK k \in CommandStages : TakesCommand(k)
  BY <1>2, <1>3, <1>4, StepsTaken
<1>6. Stage = k
  BY <1>5 DEF TakesCommand, Onward
<1> QED BY <1>5, <1>6

LEMMA QuotedStepsAre ==
    /\ \A k \in QuotedStages : k \in CommandStages /\ StepAt(k) \in Quoted
    /\ \A k \in CommandStages : k \notin QuotedStages => StepAt(k) \notin Quoted
    /\ \A k \in QuotedStages : \A i \in 1 .. 22 : Plan[i] = StepAt(k) => i = RanBy(k) + 1
<1>1. ASSUME NEW k \in QuotedStages PROVE k \in CommandStages /\ StepAt(k) \in Quoted
  <2>1. k = 10 \/ k = 15 \/ k = 16 \/ k = 19 \/ k = 24 \/ k = 25
    BY DEF QuotedStages
  <2>2. k \in CommandStages
    BY <2>1 DEF CommandStages
  <2> QED BY <2>1, <2>2, StepsAre DEF Quoted
<1>2. ASSUME NEW k \in CommandStages, k \notin QuotedStages PROVE StepAt(k) \notin Quoted
  <2>1. \/ k = 2 \/ k = 3 \/ k = 4 \/ k = 5 \/ k = 6 \/ k = 7 \/ k = 8
        \/ k = 21 \/ k = 22 \/ k = 23 \/ k = 26 \/ k = 27 \/ k = 28 \/ k = 29
        \/ k = 31 \/ k = 32
    BY <1>2 DEF CommandStages, QuotedStages
  <2> QED BY <2>1, StepsAre DEF Quoted
<1>3. ASSUME NEW i \in 1 .. 22
      PROVE  /\ Plan[i] = "vswhere" => i = 8
             /\ Plan[i] = "rustc" => i = 9
             /\ Plan[i] = "cargo" => i = 10
             /\ Plan[i] = "graph" => i = 11
             /\ Plan[i] = "probe" => i = 15
             /\ Plan[i] = "inspect" => i = 16
  <2>1. \/ i = 1 \/ i = 2 \/ i = 3 \/ i = 4 \/ i = 5 \/ i = 6 \/ i = 7 \/ i = 8 \/ i = 9
        \/ i = 10 \/ i = 11 \/ i = 12 \/ i = 13 \/ i = 14 \/ i = 15 \/ i = 16 \/ i = 17
        \/ i = 18 \/ i = 19 \/ i = 20 \/ i = 21 \/ i = 22
    OBVIOUS
  <2> QED BY <2>1, PlanIs
<1>4. /\ RanBy(10) = 7 /\ RanBy(15) = 8 /\ RanBy(16) = 9 /\ RanBy(19) = 10 /\ RanBy(24) = 14
      /\ RanBy(25) = 15
  BY DEF RanBy
<1>5. ASSUME NEW k \in QuotedStages, NEW i \in 1 .. 22, Plan[i] = StepAt(k)
      PROVE  i = RanBy(k) + 1
  <2>1. k = 10 \/ k = 15 \/ k = 16 \/ k = 19 \/ k = 24 \/ k = 25
    BY DEF QuotedStages
  <2> QED BY <1>3, <1>4, <1>5, <2>1, StepsAre
<1> QED BY <1>1, <1>2, <1>5

Transcribed ==
    Stage # 0 =>
        \A i \in 1 .. Len(run.commands) :
            run.commands[i].step \in Quoted =>
                run.commands[i].said = run.said[run.commands[i].step]

LEMMA TranscribedStays == ASSUME Types, Progress, Transcribed, [Next]_vars PROVE Transcribed'
<1> SUFFICES ASSUME Stage' # 0, NEW i \in 1 .. Len(run'.commands),
                    run'.commands[i].step \in Quoted
             PROVE  run'.commands[i].said = run'.said[run'.commands[i].step]
  BY DEF Transcribed
<1>1. Stage \in 1 .. 35 /\ Stage # 0
  <2>1. Stage \in 1 .. 35
    BY HowRunsMove
  <2> QED BY <2>1
<1>2. CASE ~(Stage \in CommandStages /\ TakesCommand(Stage))
  <2>1. run'.commands = run.commands
    BY <1>2, CommandsKept
  <2>2. run'.said = run.said
    <3>1. CASE Stage' = Stage
      BY <3>1, HowRunsMove
    <3>2. CASE Stage' # Stage
      <4>1. Stage \notin CommandStages
        BY <1>2, <3>2, ForCommand
      <4>2. Stage \notin QuotedStages
        BY <4>1, QuotedStepsAre
      <4> QED BY <4>2, WrittenOnlyAt
    <3> QED BY <3>1, <3>2
  <2> QED BY <1>1, <2>1, <2>2 DEF Transcribed
<1>3. CASE Stage \in CommandStages /\ TakesCommand(Stage)
  <2>1. PICK k \in CommandStages : k = Stage /\ TakesCommand(k)
    BY <1>3
  <2>2. PICK n \in 1 .. 22, passed \in BOOLEAN, early \in BOOLEAN, by \in Shift :
            /\ n = RanBy(k) + 1 /\ Len(run.commands) = n - 1 /\ Len(run'.commands) = n
            /\ \A j \in 1 .. n - 1 : run'.commands[j] = run.commands[j]
            /\ Tried(StepAt(k), passed, early, by) /\ (Stage' # 0 => passed)
            /\ run'.commands[n] = Entry(StepAt(k), passed, early, by)
    BY <2>1, NextCommand
  <2>3. run'.commands[n].step = StepAt(k) /\ run'.commands[n].said = Says(StepAt(k))
    BY <2>2 DEF Entry
  <2>4. Gain(k) /\ run.said \in [Quoted -> {0, 1, 9}]
    BY <2>1 DEF TakesCommand, Onward, Types, RunTypes
  <2>5. CASE k \in QuotedStages
    <3>1. run'.said = [run.said EXCEPT ![StepAt(k)] = Says(StepAt(k))] /\ StepAt(k) \in Quoted
      BY <2>4, <2>5, QuotedStepsAre DEF Gain
    <3>2. CASE i = n
      BY <2>3, <2>4, <3>1, <3>2
    <3>3. CASE i # n
      <4>1. i \in 1 .. Len(run.commands) /\ run'.commands[i] = run.commands[i] /\ i \in 1 .. 22
        <5>1. /\ Len(run.commands) = n - 1 /\ Len(run'.commands) = n
              /\ \A j \in 1 .. n - 1 : run'.commands[j] = run.commands[j]
          BY <2>2
        <5>2. i \in 1 .. n /\ i \in 1 .. n - 1
          BY <3>3, <5>1
        <5>3. i \in 1 .. 22
          BY <5>2
        <5>4. i \in 1 .. Len(run.commands)
          BY <5>1, <5>2
        <5> QED BY <5>1, <5>2, <5>3, <5>4
      <4>2. run.commands[i].step = Plan[i]
        BY <4>1 DEF Progress
      <4>3. run.commands[i].step # StepAt(k)
        BY <2>2, <2>5, <3>3, <4>1, <4>2, QuotedStepsAre
      <4>4. run.commands[i].said = run.said[run.commands[i].step]
        BY <1>1, <4>1 DEF Transcribed
      <4> QED BY <2>4, <3>1, <4>1, <4>3, <4>4
    <3> QED BY <3>2, <3>3
  <2>6. CASE k \notin QuotedStages
    <3>1. run'.said = run.said
      BY <2>1, <2>6, WrittenOnlyAt
    <3>2. i # n
      BY <2>3, <2>6, QuotedStepsAre
    <3>3. i \in 1 .. Len(run.commands) /\ run'.commands[i] = run.commands[i]
      BY <2>2, <3>2
    <3> QED BY <1>1, <3>1, <3>3 DEF Transcribed
  <2> QED BY <2>5, <2>6
<1> QED BY <1>2, <1>3

LEMMA NeedsInPlan ==
    /\ \A k \in CommandStages : "vswhere" \in Needs(StepAt(k)) => k = 10
    /\ \A i \in 1 .. 8 : \A tool \in Needs(Plan[i]) : tool = "vswhere"
    /\ \A i \in 1 .. 10 : \A tool \in Needs(Plan[i]) : tool = "vswhere" \/ tool = Plan[i]
    /\ \A i \in 1 .. 10 : Needs(Plan[i]) # {} => Plan[i] \in {"vswhere", "rustc", "cargo"}
<1>1. ASSUME NEW k \in CommandStages, "vswhere" \in Needs(StepAt(k)) PROVE k = 10
  <2>1. StepAt(k) = "vswhere"
    BY <1>1 DEF Needs
  <2>2. \/ k = 2 \/ k = 3 \/ k = 4 \/ k = 5 \/ k = 6 \/ k = 7 \/ k = 8 \/ k = 10
        \/ k = 15 \/ k = 16 \/ k = 19
        \/ k = 21 \/ k = 22 \/ k = 23 \/ k = 24 \/ k = 25 \/ k = 26 \/ k = 27 \/ k = 28
        \/ k = 29 \/ k = 31 \/ k = 32
    BY DEF CommandStages
  <2> QED BY <2>1, <2>2, StepsAre
<1>2. ASSUME NEW i \in 1 .. 10
      PROVE  /\ i <= 8 => \A tool \in Needs(Plan[i]) : tool = "vswhere"
             /\ \A tool \in Needs(Plan[i]) : tool = "vswhere" \/ tool = Plan[i]
             /\ Needs(Plan[i]) # {} => Plan[i] \in {"vswhere", "rustc", "cargo"}
  <2>1. \/ i = 1 \/ i = 2 \/ i = 3 \/ i = 4 \/ i = 5 \/ i = 6 \/ i = 7 \/ i = 8 \/ i = 9 \/ i = 10
    OBVIOUS
  <2>2. \/ i <= 8 /\ Plan[i] \in {"history", "head", "tree", "branch", "clean", "manifest",
                                  "dependency", "vswhere"}
        \/ i = 9 /\ Plan[i] = "rustc"
        \/ i = 10 /\ Plan[i] = "cargo"
    <3>1. CASE i = 9
      BY <3>1, PlanIs
    <3>2. CASE i = 10
      BY <3>2, PlanIs
    <3>3. CASE i <= 8
      <4>1. i = 1 \/ i = 2 \/ i = 3 \/ i = 4 \/ i = 5 \/ i = 6 \/ i = 7 \/ i = 8
        BY <3>3
      <4>2. /\ i = 1 => Plan[i] = "history"
            /\ i = 2 => Plan[i] = "head"
            /\ i = 3 => Plan[i] = "tree"
            /\ i = 4 => Plan[i] = "branch"
            /\ i = 5 => Plan[i] = "clean"
            /\ i = 6 => Plan[i] = "manifest"
            /\ i = 7 => Plan[i] = "dependency"
            /\ i = 8 => Plan[i] = "vswhere"
        BY PlanIs
      <4>3. Plan[i] \in {"history", "head", "tree", "branch", "clean", "manifest", "dependency",
                        "vswhere"}
        BY <4>1, <4>2
      <4> QED BY <3>3, <4>3
    <3>4. i = 9 \/ i = 10 \/ i <= 8
      BY <2>1
    <3> QED BY <3>1, <3>2, <3>3, <3>4
  <2>3. CASE i <= 8 /\ Plan[i] \in {"history", "head", "tree", "branch", "clean", "manifest",
                                    "dependency", "vswhere"}
    BY <2>3 DEF Needs
  <2>4. CASE i = 9 /\ Plan[i] = "rustc"
    BY <2>4 DEF Needs
  <2>5. CASE i = 10 /\ Plan[i] = "cargo"
    BY <2>5 DEF Needs
  <2> QED BY <2>2, <2>3, <2>4, <2>5
<1>3. ASSUME NEW i \in 1 .. 8 PROVE \A tool \in Needs(Plan[i]) : tool = "vswhere"
  <2>1. i \in 1 .. 10 /\ i <= 8
    OBVIOUS
  <2> QED BY <1>2, <2>1
<1> QED BY <1>1, <1>2, <1>3

(* A version seen of a tool: vswhere's before it is recorded, and every     *)
(* other tool's once it is.                                                 *)
Seen(tool, seen) ==
    IF tool = "vswhere"
    THEN /\ Stage <= 11 => Known(tool, seen)
         /\ Stage > 11 /\ seen # OnRecord(tool) => Count(tool) >= 1
    ELSE Stage > Opened(tool) => Free(tool, seen)
Shown ==
    Stage # 0 =>
        \A i \in 1 .. Len(run.commands) :
            /\ DOMAIN run.commands[i].images = Needs(run.commands[i].step)
            /\ \A tool \in Needs(run.commands[i].step) : Seen(tool, run.commands[i].images[tool])

LEMMA VswhereStays ==
    ASSUME Types, Progress, [Next]_vars, Stage' # 0, NEW seen, Seen("vswhere", seen)
    PROVE  Seen("vswhere", seen)'
<1>1. /\ "vswhere" \in Tracked /\ "vswhere" \in Things /\ Opened("vswhere") = 11
      /\ Stage \in 1 .. 35 /\ (Stage' = Stage \/ Stage' = Stage + 1)
  <2>1. "vswhere" \in HostTools /\ "vswhere" \in Tracked
    BY DEF HostTools, Tracked, Tools
  <2> QED BY <2>1, OpenedIs, HowRunsMove
<1>2. Moved("vswhere")
  BY <1>1, HowTheyMove
<1>3. /\ Stage <= 11 => Known("vswhere", seen)
      /\ Stage > 11 /\ seen # OnRecord("vswhere") => Count("vswhere") >= 1
  BY DEF Seen
<1>4. /\ Known("vswhere", seen) => Known("vswhere", seen)'
      /\ Count("vswhere") >= 1 => Count("vswhere")' >= 1
  BY <1>1, <1>2, RecordsSurvive
<1>5. Stage' <= 11 => Known("vswhere", seen)'
  BY <1>1, <1>3, <1>4
<1>6. Stage' > 11 /\ seen # OnRecord("vswhere")' => Count("vswhere")' >= 1
  <2>1. CASE Stage > 11
    <3>1. OnRecord("vswhere")' = OnRecord("vswhere")
      BY <1>1, <2>1, RecordIsKept
    <3> QED BY <1>3, <1>4, <2>1, <3>1
  <2>2. CASE Stage = 11 /\ Stage' # Stage
    <3>1. disk'["vswhere"] = OnRecord("vswhere")'
      BY <1>1, <2>2, RecordIsMade
    <3>2. Known("vswhere", seen)'
      BY <1>3, <1>4, <2>2
    <3> QED BY <3>1, <3>2 DEF Known
  <2>3. CASE ~(Stage > 11) /\ ~(Stage = 11 /\ Stage' # Stage)
    BY <1>1, <2>3
  <2> QED BY <2>1, <2>2, <2>3
<1> QED BY <1>5, <1>6 DEF Seen

LEMMA SeenAtOpening ==
    ASSUME Types, Progress, [Next]_vars, Stage' # 0, Stage' # Stage,
           NEW i \in 1 .. Len(run.commands), NEW tool \in Needs(run.commands[i].step),
           tool # "vswhere", Stage = Opened(tool),
           NEW v, v = run.commands[i].images[tool]
    PROVE  Free(tool, v)'
<1>1. tool \in Tools /\ tool \in Tracked /\ run.commands[i].step = Plan[i]
  <2>1. tool \in Tools
    BY WhatIsSaid
  <2> QED BY <2>1 DEF Progress, Tracked
<1>2. Gain(Stage) /\ Stage' = Stage + 1 /\ Stage \in 1 .. 34
  BY HowRunsMove
<1>3. Stage # 0 => Len(run.commands) = RanBy(Stage)
  BY DEF Progress
<1>4. CASE tool \in HostTools
  <2>1. Stage = 11
    BY <1>4, OpenedIs
  <2>2. RanBy(Stage) = 8 /\ Stage # 0
    BY <2>1 DEF RanBy
  <2>3. Len(run.commands) = 8
    BY <1>3, <2>2
  <2>4. i \in 1 .. 8
    BY <2>3
  <2> QED BY <1>1, <2>4, NeedsInPlan
<1>5. CASE tool = "rustc" \/ tool = "cargo"
  <2>1. Stage = 17
    BY <1>5, OpenedIs
  <2>2. RanBy(Stage) = 10 /\ Stage # 0
    BY <2>1 DEF RanBy
  <2>3. Len(run.commands) = 10
    BY <1>3, <2>2
  <2>4. i \in 1 .. 10
    BY <2>3
  <2>5. run.commands[i].step = tool
    BY <1>1, <2>4, NeedsInPlan
  <2>6. run.commands[i] \in Commands(run)
    <3>1. run.commands \in Seq(CommandType)
      BY DEF Types, RunTypes
    <3> QED BY <3>1 DEF Commands
  <2>7. run.commands[i].images[tool] = disk[tool]
    BY <1>2, <1>5, <2>1, <2>5, <2>6 DEF Gain, RanAsIdentified
  <2>8. disk'[tool] = OnRecord(tool)' /\ disk'[tool] = disk[tool]
    <3>1. StaysPut(tool)
      BY <1>1, <1>5, HowTheyMove, OpenedIs
    <3> QED BY <1>1, <3>1, RecordIsMade DEF StaysPut
  <2>9. Closed(tool) = 33 /\ Stage' > Opened(tool) /\ ~(Stage' > Closed(tool))
    BY <1>1, <1>2, <2>1, OpenedIs
  <2>10. v = OnRecord(tool)'
    BY <2>7, <2>8
  <2> QED BY <1>1, <2>9, <2>10 DEF Free, Strayed
<1> QED BY <1>1, <1>4, <1>5 DEF Tools, HostTools

LEMMA SeenStays ==
    ASSUME Types, Progress, Claims, Shown, [Next]_vars, Stage' # 0,
           NEW i \in 1 .. Len(run.commands), NEW tool \in Needs(run.commands[i].step),
           NEW v, v = run.commands[i].images[tool]
    PROVE  Seen(tool, v)'
<1>1. Seen(tool, v) /\ Stage \in 1 .. 35 /\ (Stage' = Stage \/ Stage' = Stage + 1)
  <2>1. Stage \in 1 .. 35
    BY HowRunsMove
  <2>2. Stage' = Stage \/ Stage' = Stage + 1
    BY HowRunsMove
  <2>3. Stage # 0
    BY <2>1
  <2>4. Seen(tool, run.commands[i].images[tool])
    BY <2>3 DEF Shown
  <2> QED BY <2>1, <2>2, <2>4 DEF Seen, Known, Free, Strayed
<1>2. CASE tool = "vswhere"
  BY <1>1, <1>2, VswhereStays
<1>3. CASE tool # "vswhere"
  <2>1. tool \in Tools /\ tool \in Tracked
    <3>1. tool \in Tools
      BY WhatIsSaid
    <3> QED BY <3>1 DEF Tracked
  <2>2. Opened(tool) \in {7, 11, 14, 17, 18}
    BY <2>1, OpenedIs
  <2>3. CASE Stage > Opened(tool)
    <3>1. Free(tool, v)
      BY <1>1, <1>3, <2>3 DEF Seen
    <3>2. Free(tool, v)'
      BY <3>1, FreeStays
    <3> QED BY <1>3, <3>2 DEF Seen
  <2>4. CASE Stage = Opened(tool) /\ Stage' # Stage
    <3>1. Free(tool, v)'
      BY <1>3, <2>4, SeenAtOpening
    <3> QED BY <1>3, <3>1 DEF Seen
  <2>5. CASE ~(Stage > Opened(tool)) /\ ~(Stage = Opened(tool) /\ Stage' # Stage)
    <3>1. ~(Stage' > Opened(tool))
      BY <1>1, <2>2, <2>5
    <3> QED BY <1>3, <3>1 DEF Seen
  <2> QED BY <2>3, <2>4, <2>5
<1> QED BY <1>2, <1>3

LEMMA SeenByCommand ==
    ASSUME Types, Progress, Records, [Next]_vars, Stage' # 0,
           NEW k \in CommandStages, TakesCommand(k), NEW tool \in Needs(StepAt(k)),
           NEW v, v = disk[tool]
    PROVE  Seen(tool, v)'
<1>1. /\ Stage = k /\ disk' = disk /\ k \in 2 .. 32 /\ Stage' = k + 1
      /\ k \notin {7, 11, 14, 17, 18} \/ k = 7
  <2>1. Stage = k /\ disk' = disk /\ k \in 2 .. 32 /\ Stage' = k + 1
    BY CommandStagesAre DEF TakesCommand, Onward
  <2>2. k \notin {11, 14, 17, 18}
    BY DEF CommandStages
  <2> QED BY <2>1, <2>2
<1>2. tool \in Tools /\ tool \in Tracked /\ tool \in Things
  <2>1. tool \in Tools
    BY WhatIsSaid
  <2> QED BY <2>1, OpenedIs DEF Tracked
<1>3. CASE tool = "vswhere"
  <2>1. k = 10
    BY <1>3, NeedsInPlan
  <2>2. disk'[tool] = v /\ Stage' = 11
    BY <1>1, <2>1
  <2> QED BY <1>3, <2>2 DEF Seen, Known
<1>4. CASE tool # "vswhere"
  <2>1. Opened(tool) \in {11, 17} /\ Closed(tool) = 33
    BY <1>2, OpenedIs DEF Tools, HostTools
  <2>2. CASE k > Opened(tool)
    <3>1. Opened(tool) < Stage /\ Stage < Closed(tool) /\ StaysPut(tool)
      <4>1. Opened(tool) < Stage /\ Stage < Closed(tool)
        BY <1>1, <2>1, <2>2
      <4>2. tool # "cache" /\ Stage' # Stage
        BY <1>1, <1>2 DEF Tools
      <4> QED BY <1>2, <4>1, <4>2, HowTheyMove
    <3>2. Free(tool, disk[tool])'
      BY <1>2, <3>1, ReadIsFree
    <3>3. disk'[tool] = v
      BY <1>1
    <3>4. Free(tool, v)'
      BY <3>2, <3>3 DEF Free, Strayed
    <3> QED BY <1>4, <3>4 DEF Seen
  <2>3. CASE ~(k > Opened(tool))
    <3>1. ~(Stage' > Opened(tool))
      BY <1>1, <2>1, <2>3
    <3> QED BY <1>4, <3>1 DEF Seen
  <2> QED BY <2>2, <2>3
<1> QED BY <1>3, <1>4

LEMMA ShownStays ==
    ASSUME Types, Progress, Claims, Records, Shown, [Next]_vars PROVE Shown'
<1> SUFFICES ASSUME Stage' # 0, NEW i \in 1 .. Len(run'.commands)
             PROVE  /\ DOMAIN run'.commands[i].images = Needs(run'.commands[i].step)
                    /\ \A tool \in Needs(run'.commands[i].step) :
                          Seen(tool, run.commands[i].images[tool])'
  BY DEF Shown
<1>1. Stage # 0
  <2>1. Stage \in 1 .. 35
    BY HowRunsMove
  <2> QED BY <2>1
<1>2. ASSUME i \in 1 .. Len(run.commands), run'.commands[i] = run.commands[i]
      PROVE  /\ DOMAIN run'.commands[i].images = Needs(run'.commands[i].step)
             /\ \A tool \in Needs(run'.commands[i].step) :
                   Seen(tool, run.commands[i].images[tool])'
  <2>1. DOMAIN run'.commands[i].images = Needs(run'.commands[i].step)
    BY <1>1, <1>2 DEF Shown
  <2>2. ASSUME NEW tool \in Needs(run'.commands[i].step)
        PROVE  Seen(tool, run.commands[i].images[tool])'
    <3>1. PICK v : v = run.commands[i].images[tool]
      OBVIOUS
    <3>2. Seen(tool, v)'
      BY <1>2, <3>1, SeenStays
    <3>3. v = run'.commands[i].images[tool]
      BY <1>2, <3>1
    <3> QED BY <3>2, <3>3 DEF Seen, Known, Free, Strayed
  <2> QED BY <2>1, <2>2
<1>3. CASE ~(Stage \in CommandStages /\ TakesCommand(Stage))
  <2>1. run'.commands = run.commands
    BY <1>3, CommandsKept
  <2> QED BY <1>2, <2>1
<1>4. CASE Stage \in CommandStages /\ TakesCommand(Stage)
  <2>1. PICK k \in CommandStages : k = Stage /\ TakesCommand(k)
    BY <1>4
  <2>2. PICK n \in 1 .. 22, passed \in BOOLEAN, early \in BOOLEAN, by \in Shift :
            /\ n = RanBy(k) + 1 /\ Len(run.commands) = n - 1 /\ Len(run'.commands) = n
            /\ \A j \in 1 .. n - 1 : run'.commands[j] = run.commands[j]
            /\ Tried(StepAt(k), passed, early, by) /\ (Stage' # 0 => passed)
            /\ run'.commands[n] = Entry(StepAt(k), passed, early, by)
    BY <2>1, NextCommand
  <2>3. /\ run'.commands[n].step = StepAt(k)
        /\ run'.commands[n].images = [t \in Needs(StepAt(k)) |-> disk[t]]
    BY <2>2 DEF Entry
  <2>4. CASE i = n
    <3>1. ASSUME NEW tool \in Needs(run'.commands[i].step)
          PROVE  Seen(tool, run.commands[i].images[tool])'
      <4>1. PICK v : v = disk[tool]
        OBVIOUS
      <4>2. tool \in Needs(StepAt(k)) /\ v = run'.commands[i].images[tool]
        BY <2>3, <2>4, <3>1, <4>1
      <4>3. Seen(tool, v)'
        BY <2>1, <4>1, <4>2, SeenByCommand
      <4> QED BY <4>2, <4>3 DEF Seen, Known, Free, Strayed
    <3> QED BY <2>3, <2>4, <3>1
  <2>5. CASE i # n
    <3>1. /\ Len(run.commands) = n - 1 /\ Len(run'.commands) = n
          /\ \A j \in 1 .. n - 1 : run'.commands[j] = run.commands[j]
      BY <2>2
    <3>2. i \in 1 .. n - 1
      BY <2>5, <3>1
    <3>3. i \in 1 .. Len(run.commands)
      BY <3>1, <3>2
    <3> QED BY <1>2, <3>1, <3>2, <3>3
  <2> QED BY <2>4, <2>5
<1> QED BY <1>3, <1>4
-----------------------------------------------------------------------------
Accountable == Executed /\ Audits /\ Timed /\ Admitted /\ Transcribed /\ Shown

LEMMA AccountableAtInit == ASSUME Init PROVE Accountable
<1>1. Len(run.commands) = 0 /\ run.commands = <<>> /\ clock.skew = 0 /\ journal = "none"
  BY DEF Init, NoRun
<1>2. Audits /\ Transcribed /\ Shown
  BY <1>1 DEF Audits, Transcribed, Shown
<1>3. Timed
  BY <1>1 DEF Timed, InTurn
<1> QED BY <1>2, <1>3, ExecutedAtInit, AdmittedStarts DEF Accountable

LEMMA AccountableStays == ASSUME Accountable, [Next]_vars PROVE Accountable'
BY ExecutedStays, AuditsStay, TimedStays, AdmittedStays, TranscribedStays, ShownStays
   DEF Accountable, Executed

LEMMA CommandsAre ==
    ASSUME Types
    PROVE  /\ DOMAIN run.commands = 1 .. Len(run.commands) /\ Len(run.commands) \in Nat
           /\ \A i \in 1 .. Len(run.commands) : run.commands[i] \in CommandType
           /\ \A c \in Commands(run) : \E i \in 1 .. Len(run.commands) : c = run.commands[i]
<1>1. run.commands \in Seq(CommandType)
  BY DEF Types, RunTypes
<1>2. DOMAIN run.commands = 1 .. Len(run.commands) /\ Len(run.commands) \in Nat
  BY <1>1
<1>3. \A i \in 1 .. Len(run.commands) : run.commands[i] \in CommandType
  BY <1>1, ElementOfSeq
<1> QED BY <1>2, <1>3 DEF Commands

LEMMA PlanWasFollowed ==
    ASSUME Types, Progress, Published PROVE PlanFollowed(run)
<1>1. run.status = "PASS" => Len(run.commands) = 22
  <2>1. ASSUME run.status = "PASS" PROVE Len(run.commands) = RanBy(Stage) /\ Stage = 35
    <3>1. Stage = 35
      BY <2>1, QualifiedIsAtTheEnd
    <3>2. Stage # 0
      BY <3>1
    <3>3. Stage # 0 => Len(run.commands) = RanBy(Stage)
      BY DEF Progress
    <3> QED BY <3>1, <3>2, <3>3
  <2>2. Stage = 35 => RanBy(Stage) = 22
    BY DEF RanBy
  <2> QED BY <2>1, <2>2
<1>2. Len(run.commands) <= 22 /\ \A i \in 1 .. Len(run.commands) : run.commands[i].step = Plan[i]
  BY DEF Progress
<1> QED BY <1>1, <1>2, CommandsAre, PlanIs DEF PlanFollowed

LEMMA AuditsHold ==
    ASSUME Types, Audits, ~history.early, NEW c \in Commands(run) PROVE AuditHolds(c)
<1>1. PICK i \in 1 .. Len(run.commands) : c = run.commands[i]
  BY CommandsAre
<1>2. c.audit \in {"early", "full"} /\ c.passed \in BOOLEAN
  BY <1>1, CommandsAre DEF CommandType
<1>3. c.audit = "early" => ~c.passed /\ c.step # "vswhere"
  BY <1>1 DEF Audits
<1> QED BY <1>2, <1>3 DEF AuditHolds, PathClasses

LEMMA TimingsHold ==
    ASSUME Types, Progress, Timed, Published, history.changes["clock"] = 0 PROVE TimingsBind(run)
<1>1. InTurn(run.commands, clock.now) /\ journal # "none"
  BY DEF Timed, Published
<1>2. /\ run.generated \in Int
      /\ Len(run.commands) >= 7 => run.commands[7].finish <= run.generated
      /\ Len(run.commands) > 7 => run.generated <= run.commands[8].start
  BY <1>1 DEF Timed
<1>3. ASSUME NEW i \in 1 .. Len(run.commands)
      PROVE  /\ run.commands[i].finish - run.commands[i].start \in 1 .. 2
             /\ i > 1 => run.commands[i].start >= run.commands[i - 1].finish
  <2>1. run.commands[i].start \in Int
    BY CommandsAre DEF CommandType
  <2>2. /\ run.commands[i].finish = run.commands[i].start + 1
        /\ i > 1 => run.commands[i].start >= run.commands[i - 1].finish
    BY <1>1 DEF InTurn
  <2> QED BY <2>1, <2>2
<1>4. DOMAIN run.commands = 1 .. Len(run.commands) /\ Len(Admission) = 7 /\ 1 + Overhead = 2
  BY CommandsAre, PlanIs DEF Overhead
<1>5. /\ \A i \in DOMAIN run.commands :
            run.commands[i].finish - run.commands[i].start \in 1 .. (1 + Overhead)
      /\ \A i \in DOMAIN run.commands : i > 1 => run.commands[i].start >= run.commands[i - 1].finish
  BY <1>3, <1>4
<1>6. /\ Len(run.commands) >= Len(Admission) =>
            run.commands[Len(Admission)].finish <= run.generated
      /\ Len(run.commands) > Len(Admission) =>
            run.generated <= run.commands[Len(Admission) + 1].start
  <2>1. Len(Admission) = 7 /\ Len(Admission) + 1 = 8
    BY <1>4
  <2> QED BY <1>2, <2>1
<1> QED BY <1>5, <1>6 DEF TimingsBind

LEMMA ToolsWereReported ==
    ASSUME Executed, Shown, Stage = 35, history.changes["vswhere"] = 0,
           \A tool \in Tools : ~(history.changes[tool] >= 2)
    PROVE  ToolsAreReported(run)
<1> SUFFICES ASSUME NEW c \in Commands(run), NEW tool \in Needs(c.step)
             PROVE  tool \in DOMAIN c.images /\ c.images[tool] = run.ids[tool]
  BY DEF ToolsAreReported
<1>1. Types
  BY DEF Executed
<1>2. PICK i \in 1 .. Len(run.commands) : c = run.commands[i]
  BY <1>1, CommandsAre
<1>3. tool \in Tools /\ tool \in DOMAIN c.images /\ Seen(tool, c.images[tool])
  BY <1>1, <1>2, WhatIsSaid DEF Shown
<1>4. CASE tool = "vswhere"
  BY <1>3, <1>4, RecordHere DEF Seen, Count
<1>5. CASE tool # "vswhere"
  <2>1. tool \in Tracked /\ tool \in Tools \cup {"headers"}
    BY <1>3 DEF Tracked
  <2>2. Opened(tool) \in {7, 11, 14, 17, 18} /\ Closed(tool) = 33
    BY <2>1, OpenedIs
  <2>3. Stage > Opened(tool) /\ Stage > Closed(tool)
    BY <2>2
  <2>4. c.images[tool] # OnRecord(tool) => history.changes[tool] >= 2
    BY <1>3, <1>5, <2>3 DEF Seen, Free, Count
  <2> QED BY <1>3, <2>4, RecordHere
<1> QED BY <1>4, <1>5

LEMMA ClaimsHold ==
    ASSUME Executed, Transcribed, Stage = 35
    PROVE  ArtifactsComplete(run) /\ ClaimsStable(run) /\ CpuStable(run) /\ TranscriptsAgree(run)
<1>1. /\ run.artifacts = 6 /\ run.before = run.after /\ run.cpus[1] = run.cpus[2]
      /\ run.manifests = <<run.source.manifest, run.source.manifest>>
      /\ run.before.ids = [t \in HostTools |-> run.ids[t]]
  BY DEF Executed, Claims
<1>2. \A tool \in DOMAIN run.before.ids \cap DOMAIN run.ids : run.ids[tool] = run.before.ids[tool]
  BY <1>1
<1>3. TranscriptsAgree(run)
  <2>1. Types
    BY DEF Executed
  <2>2. ASSUME NEW c \in Commands(run), c.step \in Quoted PROVE c.said = run.said[c.step]
    <3>1. PICK i \in 1 .. Len(run.commands) : c = run.commands[i]
      BY <2>1, CommandsAre
    <3> QED BY <2>2, <3>1 DEF Transcribed
  <2> QED BY <2>2 DEF TranscriptsAgree
<1> QED BY <1>1, <1>2, <1>3 DEF ArtifactsComplete, ClaimsStable, CpuStable

LEMMA SourceWasCommitted ==
    ASSUME Types, Admitted, Published, ~history.admission
    PROVE  SourceIsCommitted(run.source, log) /\ DependencyAtSource(run)
<1>1. journal # "none"
  BY DEF Published
<1>2. /\ run.source.schema = 0 /\ run.source.commit = 1 /\ run.source.tree = 1
      /\ run.source.lock = 0 /\ run.source.verifier = 0 /\ log[1] = 0
      /\ run.dependency = run.source.commit
  BY <1>1 DEF Admitted
<1>3. 1 \in DOMAIN log
  BY DEF Types, MachineTypes
<1> QED BY <1>2, <1>3 DEF SourceIsCommitted, DependencyAtSource

(* A run that is published and that its own rules refuse, which stops every *)
(* later qualification: only where the clock was set, vswhere ended before  *)
(* its modules were mapped, the repository changed during the admission, or *)
(* a tool was changed between a command and the comparison that follows,    *)
(* vswhere once or any other tool and back.  Nothing else that happens, and *)
(* no way of failing, publishes a run that is refused.                      *)
THEOREM RefusedOnlyForThese == Spec => []RefusedOnlyFor
<1>1. Accountable => RefusedOnlyFor
  <2> SUFFICES ASSUME Accountable, Published, history.changes["clock"] = 0, ~history.early,
                      ~history.admission, history.changes["vswhere"] = 0,
                      \A tool \in Tools : ~(history.changes[tool] >= 2)
               PROVE  Accepts(run, log)
    <3>1. ASSUME Accountable
          PROVE  history.changes["clock"] \in Nat /\ history.changes["vswhere"] \in Nat
      <4>1. /\ "clock" \in Things \cup {"head", "clock"}
            /\ "vswhere" \in Things \cup {"head", "clock"}
        BY DEF Things, Tools
      <4>2. history.changes \in [Things \cup {"head", "clock"} -> Nat]
        BY <3>1 DEF Accountable, Executed, Types, MachineTypes, HistoryType
      <4> QED BY <4>1, <4>2
    <3> QED BY <3>1 DEF RefusedOnlyFor
  <2>1. Types /\ Progress /\ Executed
    BY DEF Accountable, Executed
  <2>2. SourceIsCommitted(run.source, log) /\ DependencyAtSource(run)
    BY <2>1, SourceWasCommitted DEF Accountable
  <2>3. PlanFollowed(run) /\ TimingsBind(run) /\ \A c \in Commands(run) : AuditHolds(c)
    BY <2>1, PlanWasFollowed, TimingsHold, AuditsHold DEF Accountable
  <2>4. ASSUME run.status = "PASS"
        PROVE  /\ ArtifactsComplete(run) /\ ClaimsStable(run) /\ CpuStable(run)
               /\ ToolsAreReported(run) /\ TranscriptsAgree(run)
    <3>1. Stage = 35
      BY <2>1, <2>4, QualifiedIsAtTheEnd
    <3> QED BY <2>1, <3>1, ToolsWereReported, ClaimsHold DEF Accountable
  <2>5. ArtifactsComplete(run)
    BY <2>4 DEF ArtifactsComplete
  <2> QED BY <2>2, <2>3, <2>4, <2>5 DEF Accepts, RunValid
<1>2. Accountable /\ [Next]_vars => Accountable'
  BY AccountableStays
<1>3. Init => Accountable
  BY AccountableAtInit
<1> QED BY <1>1, <1>2, <1>3, PTL DEF Spec
================================================================================
