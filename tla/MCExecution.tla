----------------------------- MODULE MCExecution -----------------------------
(* Instance of Execution.  In each scenario one or two things may change,   *)
(* or the processes move, or the host, the locks, the targets or the user's *)
(* name make the run fail.                                                  *)
EXTENDS Execution

Instance(id, path, reboot) ==
    [id |-> id, path |-> path, version |-> <<17, 14, 1>>, complete |-> TRUE,
     launchable |-> TRUE, reboot |-> reboot]
GoodHost ==
    [instances |-> <<Instance("a", "A", FALSE), Instance("b", "B", TRUE)>>,
     requested |-> "none", tools |-> <<14, 44, 1>>,
     redist |-> <<[name |-> <<14, 44, 2>>, file |-> <<14, 44, 2>>],
                  [name |-> <<14, 29, 9>>, file |-> <<14, 29, 9>>],
                  [name |-> <<14, 44, 10>>, file |-> <<14, 44, 10>>]>>,
     sdks |-> {[name |-> <<10, 0, 22, 1>>, complete |-> TRUE],
               [name |-> <<10, 0, 26, 1>>, complete |-> FALSE]},
     groups |-> 1, cores |-> 2, logical |-> 3, masks |-> <<{0, 1}, {2}>>, smt |-> {1},
     cpu |-> TRUE, power |-> TRUE, git |-> "same"]
Hosts == {GoodHost,
          [GoodHost EXCEPT !.instances = <<Instance("a", "A", FALSE), Instance("b", "B", FALSE)>>],
          [GoodHost EXCEPT !.instances = <<Instance("a", "A", FALSE), Instance("b", "B", FALSE)>>,
                           !.requested = "b"],
          [GoodHost EXCEPT !.instances = <<Instance("a", "A", FALSE), Instance("b", "A", FALSE)>>],
          [GoodHost EXCEPT !.redist = <<[name |-> <<14, 44, 2>>, file |-> <<14, 29, 2>>]>>],
          [GoodHost EXCEPT !.masks = <<{0, 1}, {1}>>],
          [GoodHost EXCEPT !.smt = {2}],
          [GoodHost EXCEPT !.sdks = {}],
          [GoodHost EXCEPT !.tools = <<14, 44>>],
          [GoodHost EXCEPT !.power = FALSE], [GoodHost EXCEPT !.git = "other"]}
Newer == {[name |-> <<10, 0, 26, 2>>, complete |-> TRUE]}

Package(id, class, from) == [id |-> id, class |-> class, from |-> from]
Plain == {Package("slm", "plain", "path"), Package("serde", "plain", "registry")}
WithProvider == Plain \cup {Package("wgpu", "provider", "registry")}
Locks == {<<Plain, WithProvider>>,
          <<Plain \cup {Package("pyo3", "python", "registry")}, Plain>>,
          <<Plain \cup {Package("fork", "plain", "elsewhere")}, Plain>>}

Leaf(name, suffix, kind, evidence) ==
    [name |-> name, suffix |-> suffix, kind |-> kind, evidence |-> evidence,
     packed |-> FALSE, members |-> <<>>]
Box(kind, name, members) ==
    [name |-> name, suffix |-> kind, kind |-> kind, evidence |-> "none",
     packed |-> FALSE, members |-> members]
Object == Leaf("plain", "coff", "coff", "none")
Exe == Leaf("plain", "pe", "pe", "none")
Metadata == Leaf("metadata", "none", "text", "reference")
Table == Leaf("table", "none", "text", "reference")
Import == Leaf("plain", "none", "coff", "reference")
Rlib == Box("archive", "plain", <<Table, Metadata, Object>>)
Contents ==
    {{Exe, Rlib},
     {Rlib, Box("archive", "parser", <<Leaf("parser", "coff", "coff", "none")>>)},
     {Box("archive", "plain", <<Leaf("parser", "coff", "coff", "none")>>)},
     {Exe, Box("archive", "plain", <<Rlib, Import>>)},
     {Box("zip", "plain", <<Exe, [Object EXCEPT !.packed = TRUE]>>)},
     {Box("zip", "plain", <<Leaf("forbidden", "none", "text", "none")>>)},
     {Box("zip", "plain", <<Object, Rlib>>)},
     {Box("archive", "plain", <<Box("archive", "plain", <<Box("archive", "plain", <<Rlib>>)>>)>>)},
     {Leaf("plain", "none", "text", "payload")}, {Leaf("plain", "none", "text", "hidden")},
     {Leaf("plain", "pe", "pe", "reference")}, {}}
Targets(built) == [fmt |-> {}, clippy |-> {Exe, Rlib}, test |-> built]
GoodTargets == Targets({Exe, Rlib})

Base == [host |-> GoodHost, newer |-> Newer, locks |-> <<Plain, WithProvider>>,
         active |-> {"slm", "serde"}, targets |-> GoodTargets, leak |-> "none",
         mutable |-> {}, budget |-> 0, processes |-> FALSE]

MCScenarios ==
    {Base, [Base EXCEPT !.processes = TRUE]}
    \cup {[Base EXCEPT !.mutable = {t}, !.budget = 2] :
             t \in {"vswhere", "msvc", "rustc", "cargo", "runtime", "headers", "sdk",
                    "registry", "cache"}}
    \cup {[Base EXCEPT !.mutable = {"clock"}, !.budget = 1]}
    \cup {[Base EXCEPT !.mutable = {"sources"}, !.budget = 3],
          [Base EXCEPT !.mutable = {"work", "head"}, !.budget = 2]}
    \cup {[Base EXCEPT !.mutable = {"work", "registry"}, !.budget = 2,
                       !.locks = <<Plain, WithProvider>>, !.active = {"slm", "wgpu"}]}
    \cup {[Base EXCEPT !.host = h] : h \in Hosts}
    \cup {[Base EXCEPT !.locks = l] : l \in Locks}
    \cup {[Base EXCEPT !.locks = <<WithProvider, Plain>>, !.active = a] :
             a \in {{"slm"}, {"slm", "wgpu"}, {"slm", "absent"}, {}}}
    \cup {[Base EXCEPT !.targets = Targets(c)] : c \in Contents}
    \cup {[Base EXCEPT !.leak = l] : l \in {"branch", "graph"}}
=============================================================================
