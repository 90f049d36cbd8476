----------------------------- MODULE ReceiptRules -----------------------------
(* What a reader of a qualification run requires of it (p1a_receipt.rs): the *)
(* rules that relate its commands, their audits, its transcripts and its     *)
(* artifacts to each other, and its source to the repository's commits.      *)
(*                                                                           *)
(* A run is a record: its status; when it was generated; its commands; its   *)
(* source [schema, commit, tree, manifest, lock, verifier]; and, of a PASS,  *)
(* the artifacts' claims: the identities of the tools, the toolchain before  *)
(* and after, the input manifests, what was read from each transcript.       *)
(*                                                                           *)
(* A command is a record: its step; passed; its audit ("none", "early": it   *)
(* ended before all its modules were mapped, "full"); the images it ran, a   *)
(* function from tools to versions; what its transcript says; and its start  *)
(* and finish by the wall clock.  By the monotonic clock each takes one unit.*)
EXTENDS Naturals, Integers, Sequences, FiniteSets

(* The frozen plan.  C001-C004 and C010-C012, which all read one commit, are *)
(* one step each; so are the two compilers and the two archivers.            *)
Admission == <<"history", "head", "tree", "branch", "clean", "manifest", "dependency">>
Plan == Admission \o
        <<"vswhere", "rustc", "cargo", "graph", "compile", "archive", "link", "probe",
          "inspect", "inputs", "fmt", "clippy", "test", "clean", "manifest">>

Overhead == 1   \* what the capture may add to a command by the wall clock

(* expected_command_metadata and validate_executed_tool_relations: the tools *)
(* whose images a step's audit must show.  Git is known by its directory     *)
(* only, and the compilers and linkers cargo starts are not bound.           *)
Needs(step) ==
    CASE step = "vswhere"                         -> {"vswhere"}
      [] step \in {"compile", "archive", "inspect"} -> {"msvc"}
      [] step = "rustc"                           -> {"rustc"}
      [] step = "link"                            -> {"rustc", "msvc"}
      [] step = "probe"                           -> {"runtime"}
      [] step \in {"cargo", "graph", "fmt", "clippy", "test"} -> {"cargo"}
      [] OTHER                                    -> {}
Tools == {"vswhere", "msvc", "rustc", "cargo", "runtime"}

(* The transcripts whose text the claims are compared with.                  *)
Quoted == {"vswhere", "rustc", "cargo", "graph", "probe", "inspect"}

Commands(run) == {run.commands[i] : i \in DOMAIN run.commands}
-----------------------------------------------------------------------------
(* validate_terminal_run: the commands are the plan's, in its order; a FAIL  *)
(* may end early.                                                            *)
PlanFollowed(run) ==
    /\ Len(run.commands) <= Len(Plan)
    /\ run.status = "PASS" => Len(run.commands) = Len(Plan)
    /\ \A i \in DOMAIN run.commands : run.commands[i].step = Plan[i]

(* A PASS carries all six artifacts, a FAIL the three of the admission.      *)
ArtifactsComplete(run) == run.status = "PASS" => run.artifacts = 6

(* validate_process_path_classes: a vswhere that ran has mapped its setup    *)
(* module, and 32-bit system modules.                                        *)
PathClasses(c) == c.step = "vswhere" /\ c.audit # "none" => c.audit = "full"

(* validate_process_audit.                                                   *)
AuditHolds(c) ==
    IF c.audit = "none" THEN ~c.passed
    ELSE PathClasses(c) /\ (c.passed => c.audit = "full")

(* validate_command_timings: the wall clock agrees with the monotonic one    *)
(* within each command, no command starts before its predecessor ended, and  *)
(* the run was generated between admission and execution.                    *)
TimingsBind(run) ==
    LET cs == run.commands
        last == Len(Admission)
    IN  /\ \A i \in DOMAIN cs : cs[i].finish - cs[i].start \in 1..(1 + Overhead)
        /\ \A i \in DOMAIN cs : i > 1 => cs[i].start >= cs[i - 1].finish
        /\ Len(cs) >= last => cs[last].finish <= run.generated
        /\ Len(cs) > last => run.generated <= cs[last + 1].start

(* validate_host_semantic_relations and the two it is joined with: the       *)
(* toolchain and the inputs are claimed unchanged, by both artifacts alike.  *)
ClaimsStable(run) ==
    /\ run.before = run.after
    /\ run.manifests = <<run.source.manifest, run.source.manifest>>
    /\ \A tool \in DOMAIN run.before.ids \cap DOMAIN run.ids :
          run.ids[tool] = run.before.ids[tool]

(* validate_cpu_semantic_relations.                                          *)
CpuStable(run) == run.cpus[1] = run.cpus[2]

(* validate_executed_tool_relations: what ran is what the host artifact      *)
(* identifies.                                                               *)
ToolsAreReported(run) ==
    \A c \in Commands(run) : \A tool \in Needs(c.step) :
        tool \in DOMAIN c.images /\ c.images[tool] = run.ids[tool]

(* validate_transcript_relations.                                            *)
TranscriptsAgree(run) ==
    \A c \in Commands(run) : c.step \in Quoted => c.said = run.said[c.step]

(* validate_cross_file_relations: P0A was verified at the run's own commit.  *)
DependencyAtSource(run) == run.dependency = run.source.commit

RunValid(run) ==
    /\ PlanFollowed(run) /\ ArtifactsComplete(run)
    /\ DependencyAtSource(run)
    /\ \A c \in Commands(run) : AuditHolds(c)
    /\ TimingsBind(run)
    /\ run.status = "PASS" => /\ ClaimsStable(run) /\ CpuStable(run)
                              /\ ToolsAreReported(run) /\ TranscriptsAgree(run)
-----------------------------------------------------------------------------
(* receipt_authority_at_source: the commit is one of the repository's, with  *)
(* the tree and the bytes the run names.  The input manifest is not compared.*)
SourceIsCommitted(source, log) ==
    /\ source.commit \in DOMAIN log
    /\ source.tree = source.commit
    /\ \A field \in {"schema", "lock", "verifier"} : source[field] = log[source.commit]

Accepts(run, log) == SourceIsCommitted(run.source, log) /\ RunValid(run)
=============================================================================
