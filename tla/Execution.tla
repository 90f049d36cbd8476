------------------------------ MODULE Execution ------------------------------
(* One qualification run (preflight, execute_qualification and the emission *)
(* of its terminal run, p1a.rs): the verifier admits the source, asks       *)
(* vswhere for the toolchain, probes the host, builds and runs the probe,   *)
(* runs the quality commands, and publishes what it found.  It takes half   *)
(* an hour; meanwhile tools are updated, files edited, commits made and the *)
(* clock is set.  The verifier holds no lock on any of them between two of  *)
(* its reads; it compares.                                                  *)
(*                                                                          *)
(* What can change is a version, 0 or 1, that the environment toggles: the  *)
(* second change brings the first version back.  A command is one step      *)
(* here; AuditedProcess is what happens in it, Isolation the measurement.   *)
EXTENDS ReceiptRules, HostProbe, ArtifactScan

CONSTANTS
    Scenarios,   \* hosts, locks, targets and what may change, see below
    Pids, CoreLimit, SystemLimit, AncestryLimit, Polls, ProcessEvents   \* of Isolation

Things == Tools \cup {"work", "sources", "headers", "sdk", "registry", "cache"}

(* A scenario: host, a host of HostProbe, and newer, an SDK that may be     *)
(* installed; locks, the packages of the two versions of Cargo.lock, and    *)
(* active, those the CPU features activate; targets, what a quality command *)
(* leaves to scan; leak, where the user's name is public: "none", "branch", *)
(* or a step whose transcript has it; mutable, what may change, and budget, *)
(* how often; processes, whether the process table moves.                   *)
(* The working tree is two things: work, the schemas, Cargo.lock and the    *)
(* verifier's own sources; and sources, every other tracked file, of which  *)
(* version 0 is committed.                                                  *)
ASSUME ExecutionAssumption ==
    /\ 1..3 \subseteq Pids   \* the desktop, the launcher, the verifier
    /\ Polls \in Nat \ {0} /\ AncestryLimit \in Nat \ {0} /\ CoreLimit \in Nat
    /\ \A s \in Scenarios :
          /\ s.mutable \subseteq Things \cup {"head", "clock"} /\ s.budget \in Nat
          /\ \A lock \in {1, 2} : \A p \in s.locks[lock] : p.class \in {"plain", "provider", "python"}
          /\ \A step \in {"fmt", "clippy", "test"} : \A a \in s.targets[step] :
                \A m \in Within(a) : Formatted(m)

VARIABLES
    scenario,
    disk,      \* thing -> its version now
    log,       \* the versions of the work committed; the last one is HEAD
    clock,     \* steps taken, and how far the wall clock is off
    budget,    \* changes the environment may still make
    pc,
    run,       \* the run as it would be published
    journal,   \* the attempt: "none", "open", "published"
    history,   \* for the properties: changes of each thing, and what was used
    live, wall, events, settings, probe, hot

Window == INSTANCE Isolation
window == <<live, wall, events, settings, probe, hot>>
machine == <<scenario, disk, log, clock, budget, history>>
vars == <<machine, pc, run, journal, window>>

Unset == 9
Source == [schema |-> Unset, commit |-> 0, tree |-> 0, manifest |-> Unset,
           lock |-> Unset, verifier |-> Unset]
NoRun == [status |-> "none", generated |-> 0, commands |-> <<>>, source |-> Source,
          dependency |-> 0, artifacts |-> 0, ids |-> [t \in Tools |-> Unset],
          selection |-> Unset, before |-> Unset, after |-> Unset,
          manifests |-> <<Unset, Unset>>, said |-> [s \in Quoted |-> Unset],
          cpus |-> <<Unset, Unset>>, cached |-> Unset]

Init ==
    /\ scenario \in Scenarios
    /\ disk = [t \in Things |-> 0] /\ log = <<0>>
    /\ clock = [now |-> 10, skew |-> 0] /\ budget = scenario.budget
    /\ pc = "schemas" /\ run = NoRun /\ journal = "none"
    /\ history = [changes |-> [t \in Things \cup {"head", "clock"} |-> 0],
                  admission |-> FALSE, early |-> FALSE, used |-> {}]
    /\ Window!Init /\ (live = Window!AtStart("tool") \/ scenario.processes)
-----------------------------------------------------------------------------
(* The environment, between any two steps.                                  *)
Admitting == /\ Len(run.commands) <= Len(Admission)
             /\ pc \in {"schemas", "bundle"} \cup {Admission[i] : i \in DOMAIN Admission}
Over == pc \in {"refused", "published", "closed"}

Changed(thing) == [history EXCEPT !.changes[thing] = @ + 1,
                                  !.admission = @ \/ (Admitting /\ thing \in {"work", "head"})]
Touch(thing) ==
    /\ thing \in Things
    /\ disk' = [disk EXCEPT ![thing] = 1 - @]
    /\ UNCHANGED <<log, clock>>
Commit(thing) ==
    /\ thing = "head" /\ log' = Append(log, disk["work"])
    /\ UNCHANGED <<disk, clock>>
SetClock(thing) ==
    /\ thing = "clock"
    /\ \E by \in {-2, 2} : clock' = [clock EXCEPT !.skew = @ + by]
    /\ UNCHANGED <<disk, log>>

Change ==
    /\ ~Over /\ budget > 0
    /\ \E thing \in scenario.mutable :
          /\ Touch(thing) \/ Commit(thing) \/ SetClock(thing)
          /\ history' = Changed(thing)
    /\ budget' = budget - 1
    /\ UNCHANGED <<scenario, pc, run, journal, window>>
-----------------------------------------------------------------------------
Goto(l) == pc' = l

(* What a step reads besides what the audit binds: cargo starts compilers   *)
(* and linkers, every build reads headers and sources.                      *)
Reads(step) ==
    CASE step \in {"compile", "link"} -> {"headers"}
      [] step \in {"clippy", "test"}  -> {"work", "sources", "msvc", "rustc", "headers", "cache"}
      [] step = "graph"               -> {"work", "cache"}
      [] step = "fmt"                 -> {"sources"}
      [] OTHER                        -> {}
Use(things) == history.used \cup {<<t, disk[t]>> : t \in things}

Says(step) == IF step = "graph" THEN disk["work"]
              ELSE IF Needs(step) = {} THEN 0 ELSE disk[CHOOSE t \in Needs(step) : TRUE]

(* run_git and run_audited_with_files: a command is recorded whether it     *)
(* passed or not.  The wall clock may be set, by so much, while it runs, and*)
(* a process that ends early has not mapped all its modules.                *)
Recorded(step, passed, early, by) ==
    LET start == clock.now + clock.skew
        command == [step |-> step, passed |-> passed,
                    audit |-> IF Needs(step) # {} /\ early THEN "early" ELSE "full",
                    images |-> [t \in Needs(step) |-> disk[t]], said |-> Says(step),
                    start |-> start, finish |-> start + 1 + by]
    IN  [run EXCEPT !.commands = Append(@, command)]

AfterCommand(step, early, by) ==
    [history EXCEPT !.changes["clock"] = IF by = 0 THEN @ ELSE @ + 1,
                    !.early = @ \/ (step = "vswhere" /\ early),
                    !.used = Use(Needs(step) \cup Reads(step))]

(* update completes the record of a command that passed; good is what the   *)
(* caller requires of it.                                                   *)
Command(step, good, next, otherwise, update(_)) ==
    /\ pc = step
    /\ \E passed \in BOOLEAN, early \in BOOLEAN,
          by \in IF "clock" \in scenario.mutable /\ budget > 0 THEN {-2, 0, 2} ELSE {0} :
       /\ early => ~passed /\ Needs(step) # {}
       /\ clock' = [now |-> clock.now + 1, skew |-> clock.skew + by]
       /\ budget' = IF by = 0 THEN budget ELSE budget - 1
       /\ run' = IF passed THEN update(Recorded(step, passed, early, by))
                 ELSE Recorded(step, passed, early, by)
       /\ history' = AfterCommand(step, early, by)
       /\ Goto(IF passed /\ good THEN next ELSE otherwise)
    /\ UNCHANGED <<scenario, disk, log, journal, window>>

AsRecorded(r) == r
HeadWork == log[Len(log)]
CleanNow == disk["work"] = HeadWork /\ disk["sources"] = 0
ManifestNow == <<disk["work"], disk["sources"]>>

(* Any check of a step that is about neither a version nor a clock.         *)
Check(l, good, next, r) ==
    /\ pc = l
    /\ \/ good /\ Goto(next) /\ run' = r
       \/ Goto(IF Admitting THEN "refused" ELSE "close") /\ UNCHANGED run
    /\ UNCHANGED <<machine, journal, window>>
-----------------------------------------------------------------------------
(* preflight.  The schemas are read from the working tree before the commit *)
(* is known, Cargo.lock and the verifier's sources after it is clean; a     *)
(* preflight that fails leaves nothing behind.                              *)
ReadSchemas ==
    Check("schemas", TRUE, "history", [run EXCEPT !.source.schema = disk["work"]])
History == Command("history", TRUE, "head", "refused", AsRecorded)
HeadCommit ==
    LET at(r) == [r EXCEPT !.source.commit = Len(log)]
    IN  Command("head", TRUE, "tree", "refused", at)
Tree ==
    LET of(r) == [r EXCEPT !.source.tree = Len(log)]
    IN  Command("tree", TRUE, "branch", "refused", of)
Branch == Command("branch", TRUE, "clean", "refused", AsRecorded)
CleanBefore ==
    /\ Len(run.commands) < Len(Admission)
    /\ Command("clean", CleanNow, "manifest", "refused", AsRecorded)
ManifestBefore ==
    LET of(r) == [r EXCEPT !.source.manifest = ManifestNow]
    IN  /\ Len(run.commands) < Len(Admission)
        /\ Command("manifest", TRUE, "dependency", "refused", of)
Dependency ==
    LET verified(r) == [r EXCEPT !.dependency = r.source.commit]
    IN  Command("dependency", TRUE, "bundle", "refused", verified)

(* begin_attempt journals the attempt with its source and its time.         *)
BeginAttempt ==
    /\ pc = "bundle"
    /\ \/ /\ run' = [run EXCEPT !.source.lock = disk["work"], !.source.verifier = disk["work"],
                                !.generated = clock.now + clock.skew]
          /\ journal' = "open" /\ Goto("vswhere")
       \/ Goto("refused") /\ UNCHANGED <<run, journal>>
    /\ UNCHANGED <<machine, window>>
-----------------------------------------------------------------------------
(* execute_qualification.                                                   *)
Quote(r, step) == [r EXCEPT !.said[step] = r.commands[Len(r.commands)].said]

Vswhere ==
    LET listed(r) == Quote(r, "vswhere")
    IN  Command("vswhere", TRUE, "ancestry", "close", listed)

Ancestry ==
    /\ pc = "ancestry" /\ probe.at \in {"ancestry", "approve"}
    /\ Window!Approve
    /\ UNCHANGED <<machine, pc, run, journal>>

SelectionNow == Selection(scenario.host, IF disk["sdk"] = 1 THEN scenario.newer ELSE {})
HostTools == {"vswhere", "msvc", "runtime"}

(* Nothing of the window is read once it is over.                           *)
DropWindow ==
    /\ live' = Window!AtStart("tool") /\ wall' = 1 /\ events' = 0 /\ settings' = 0
    /\ probe' = Window!NoProbe /\ hot' = {}

(* probe: the tools are selected and identified before the load is measured.*)
SelectHost ==
    /\ pc = "ancestry" /\ probe.at \in {"open", "refused"}
    /\ IF probe.at = "open" /\ Selected(SelectionNow) /\ GitLauncher(scenario.host) # Refused
       THEN /\ run' = [run EXCEPT !.selection = SelectionNow,
                          !.ids = [t \in Tools |-> IF t \in HostTools THEN disk[t] ELSE Unset]]
            /\ Goto("isolate") /\ UNCHANGED window
       ELSE Goto("close") /\ DropWindow /\ UNCHANGED run
    /\ UNCHANGED <<machine, journal>>

Isolate ==
    /\ pc = "isolate" /\ Window!Measuring
    /\ Window!Measure
    /\ UNCHANGED <<machine, pc, run, journal>>

ProcessesMove ==
    /\ pc \in {"ancestry", "isolate"} /\ scenario.processes
    /\ Window!World
    /\ UNCHANGED <<machine, pc, run, journal>>

(* The verdict on the host.                                                 *)
QualifyHost ==
    /\ pc = "isolate" /\ ~Window!Measuring
    /\ IF probe.at = "quiet" /\ HostFits(scenario.host)
       THEN Goto("transcript") /\ run' = [run EXCEPT !.cpus = <<probe.settings, settings>>]
       ELSE Goto("close") /\ UNCHANGED run
    /\ DropWindow
    /\ UNCHANGED <<machine, journal>>

(* require_tool_paths_contained and bind_vswhere_transcript.                *)
BindTranscript == Check("transcript", TRUE, "before", run)

(* snapshot_host_toolchain: selection and files as in the report; the trees *)
(* are hashed for the first time.                                           *)
Toolchain == [ids |-> [t \in HostTools |-> disk[t]], headers |-> disk["headers"],
              selection |-> SelectionNow]
SnapshotBefore ==
    Check("before",
          /\ \A t \in HostTools : disk[t] = run.ids[t]
          /\ SelectionNow = run.selection,
          "rustc", [run EXCEPT !.before = Toolchain])

Rustc ==
    LET versions(r) == Quote(r, "rustc")
    IN  Command("rustc", TRUE, "cargo", "close", versions)
Cargo ==
    LET versions(r) == Quote(r, "cargo")
    IN  Command("cargo", TRUE, "rust", "close", versions)

(* The files are identified after both have run; each audit must show one   *)
(* process of that file.                                                    *)
RanAsIdentified_RustcOnly ==
    \A c \in Commands(run) : c.step = "rustc" => c.images["rustc"] = disk["rustc"]
RanAsIdentified ==
    \A c \in Commands(run) : c.step \in {"rustc", "cargo"} => c.images[c.step] = disk[c.step]

RustIdentity ==
    Check("rust", RanAsIdentified,
          "retain", [run EXCEPT !.ids["rustc"] = disk["rustc"], !.ids["cargo"] = disk["cargo"]])

(* cargo_lock_inventory: no Python package and no source but the registry.  *)
(* A package: [id, class, from].                                            *)
Lock == scenario.locks[disk["work"] + 1]
LockAllowed == \A p \in Lock : p.class # "python" /\ p.from # "elsewhere"

(* The archives of the locked packages, version 0 of the registry, are      *)
(* copied; the copy must have the checksums of the lock.                    *)
RegistryAsLocked == disk["registry"] = 0
RetainCache ==
    /\ pc = "retain"
    /\ \/ /\ LockAllowed /\ RegistryAsLocked
          /\ Goto("graph") /\ run' = [run EXCEPT !.cached = Lock]
          /\ disk' = [disk EXCEPT !["cache"] = 0]
       \/ Goto("close") /\ UNCHANGED <<run, disk>>
    /\ UNCHANGED <<scenario, log, clock, budget, history, journal, window>>

(* audit_cpu_graph and the comparison with the retained cache.              *)
Provider(packages) == {p.id : p \in {q \in packages : q.class = "provider"}}
GraphAllowed ==
    /\ scenario.active # {} /\ scenario.active \subseteq {p.id : p \in Lock}
    /\ scenario.active \cap Provider(Lock) = {}
    /\ scenario.active \cap Provider(run.cached) = {}
Graph ==
    LET audited(r) == Quote(r, "graph")
    IN  Command("graph", GraphAllowed /\ LockAllowed, "sources", "close", audited)

(* run_native_probe copies its sources from the working tree.               *)
CopySources ==
    /\ pc = "sources"
    /\ \/ Goto("compile") /\ history' = [history EXCEPT !.used = Use({"sources"})]
       \/ Goto("close") /\ UNCHANGED history
    /\ UNCHANGED <<scenario, disk, log, clock, budget, run, journal, window>>
Compile == Command("compile", TRUE, "archive", "close", AsRecorded)
Archive == Command("archive", TRUE, "link", "close", AsRecorded)
Link == Command("link", TRUE, "probe", "close", AsRecorded)
RunProbe ==
    LET observed(r) == Quote(r, "probe")
    IN  Command("probe", TRUE, "inspect", "close", observed)
Inspect ==
    LET imports(r) == Quote(r, "inspect")
    IN  Command("inspect", TRUE, "inputs", "close", imports)
InputsUnchanged == ManifestNow = run.source.manifest
Inputs == Command("inputs", InputsUnchanged, "fmt", "close", AsRecorded)

(* run_quality_gate: each command has a target directory of its own, which  *)
(* is scanned and removed.                                                  *)
Scanned(step) == ScanTarget(step, scenario.targets[step])
Format == Command("fmt", Scanned("fmt"), "clippy", "close", AsRecorded)
Clippy == Command("clippy", Scanned("clippy"), "test", "close", AsRecorded)
Test == Command("test", Scanned("test"), "inventory", "close", AsRecorded)

(* The copy is listed and hashed again after the last build.                *)
CacheIntact == disk["cache"] = 0
OwnedInventory == Check("inventory", CacheIntact, "clean", run)
CleanAfter ==
    /\ Len(run.commands) > Len(Admission)
    /\ Command("clean", CleanNow, "manifest", "close", AsRecorded)
ManifestAfter ==
    LET kept(r) == [r EXCEPT !.manifests = <<r.source.manifest, ManifestNow>>]
    IN  /\ Len(run.commands) > Len(Admission)
        /\ Command("manifest", InputsUnchanged, "after", "close", kept)

(* revalidate_host_toolchain and revalidate_rust_toolchain.                 *)
Unchanged_HostOnly ==
    \A t \in HostTools : disk[t] = run.before.ids[t]
Unchanged == Toolchain = run.before
                /\ \A t \in {"rustc", "cargo"} : disk[t] = run.ids[t]

Revalidate == Check("after", Unchanged, "emit", [run EXCEPT !.after = Toolchain])
-----------------------------------------------------------------------------
(* emit_terminal_run.  A receipt that shows the user's name is refused by   *)
(* validate_public_bytes; the live schema of the evidence must still fit.   *)
Leaks(r) == \/ scenario.leak = "branch"
            \/ \E c \in Commands(r) : c.step = scenario.leak
LiveSchema == disk["work"] = run.source.schema

EmitPass ==
    /\ pc = "emit"
    /\ \/ /\ ~Leaks(run) /\ PlanFollowed([run EXCEPT !.status = "PASS"])
          /\ run' = [run EXCEPT !.status = "PASS", !.artifacts = 6]
          /\ journal' = "published" /\ Goto("published")
       \/ /\ Leaks(run) \/ ~LiveSchema
          /\ Goto("close") /\ UNCHANGED <<run, journal>>
    /\ UNCHANGED <<machine, window>>

(* close_failed_attempt: the FAIL run has the commands so far.              *)
CloseFailed ==
    /\ pc = "close"
    /\ \/ /\ ~Leaks(run)
          /\ run' = [run EXCEPT !.status = "FAIL", !.artifacts = 3]
          /\ journal' = "published" /\ Goto("published")
       \/ /\ Leaks(run) \/ ~LiveSchema
          /\ Goto("left") /\ UNCHANGED <<run, journal>>
    /\ UNCHANGED <<machine, window>>

(* The process is killed with its attempt open.                             *)
Killed ==
    /\ journal = "open" /\ pc \notin {"left", "published", "closed"}
    /\ Goto("left") /\ DropWindow
    /\ UNCHANGED <<machine, run, journal>>

(* recover_interrupted_attempts, in a later invocation: only one that is    *)
(* admitted with the same source closes the attempt, as a FAIL without      *)
(* commands.                                                                *)
SameSource ==
    /\ run.source.commit = Len(log) /\ run.source.tree = Len(log)
    /\ CleanNow
    /\ \A field \in {"schema", "lock", "verifier"} : run.source[field] = disk["work"]
RecoveredRun_KeepsCommands == [run EXCEPT !.status = "FAIL", !.artifacts = 3]
RecoveredRun == [run EXCEPT !.status = "FAIL", !.artifacts = 3, !.commands = <<>>]

Recover ==
    /\ pc = "left" /\ SameSource /\ ~Leaks(RecoveredRun)
    /\ run' = RecoveredRun
    /\ journal' = "published" /\ Goto("closed")
    /\ UNCHANGED <<machine, window>>

Admit ==
    \/ ReadSchemas \/ History \/ HeadCommit \/ Tree \/ Branch \/ CleanBefore \/ ManifestBefore
    \/ Dependency \/ BeginAttempt
ProbeHost ==
    \/ Vswhere \/ Ancestry \/ SelectHost \/ Isolate \/ QualifyHost
    \/ BindTranscript \/ SnapshotBefore
Build ==
    \/ Rustc \/ Cargo \/ RustIdentity \/ RetainCache \/ Graph \/ CopySources
    \/ Compile \/ Archive \/ Link \/ RunProbe \/ Inspect \/ Inputs
    \/ Format \/ Clippy \/ Test \/ OwnedInventory \/ CleanAfter \/ ManifestAfter \/ Revalidate
Finish == EmitPass \/ CloseFailed \/ Recover

Next == Change \/ ProcessesMove \/ Admit \/ ProbeHost \/ Build \/ Finish \/ Killed

(* The verifier's own steps are not delayed for ever: every command has a   *)
(* deadline; an attempt that is left is taken up by the next invocation.    *)
Spec == Init /\ [][Next]_vars /\ WF_vars(Admit \/ ProbeHost \/ Build \/ Finish)
-----------------------------------------------------------------------------
Published == journal = "published"
Qualified == Published /\ run.status = "PASS" /\ Accepts(run, log)

(* A host found quiet had no foreign load; see Isolation.                   *)
QualifiedHostWasQuiet == Window!QuietHostHasNoLoad

(* A PASS that its own rules accept was produced by what it names.  Every   *)
(* version of a thing that was used is the one on record, unless the thing  *)
(* was changed and changed back between two comparisons, and never where    *)
(* the audit binds the image.  The manifest is the commit's, unless a part  *)
(* of the tree was changed three times.  Nothing forbidden could be reached *)
(* in a target that was scanned, and no provider package was active.        *)
OnRecord(thing) ==
    CASE thing \in Tools    -> run.ids[thing]
      [] thing = "work"     -> run.source.manifest[1]
      [] thing = "sources"  -> run.source.manifest[2]
      [] thing = "headers"  -> run.before.headers
      [] OTHER              -> 0
PassMeansExecuted ==
    Qualified =>
        /\ \A use \in history.used :
              use[2] = OnRecord(use[1]) \/ history.changes[use[1]] >= 2
        /\ \/ run.source.manifest = <<log[run.source.commit], 0>>
           \/ \E thing \in {"work", "sources"} : history.changes[thing] >= 3
        /\ \A step \in {"fmt", "clippy", "test"} : Clean(scenario.targets[step])
        /\ \A p \in run.cached : p.id \in scenario.active => p.class = "plain"
        /\ HostFits(scenario.host) /\ Selected(run.selection)

(* A run is validated only once it is published, and a run its own rules    *)
(* refuse stops every later qualification.  That happens only if the clock  *)
(* was set, vswhere ended before its modules were mapped, the repository    *)
(* changed during the admission, or a tool was changed between a command    *)
(* and the comparison that follows.                                         *)
RefusedOnlyFor ==
    Published /\ ~Accepts(run, log) =>
        \/ history.changes["clock"] > 0
        \/ history.early
        \/ history.admission
        \/ history.changes["vswhere"] > 0
        \/ \E tool \in Tools : history.changes[tool] >= 2

(* An attempt is left open for ever only if in the end no invocation can be *)
(* admitted with its source, or its branch shows the user's name.           *)
Recoverable == SameSource /\ scenario.leak # "branch"
EveryAttemptIsClosed == <>[](journal = "open") => <>[]~Recoverable
=============================================================================
