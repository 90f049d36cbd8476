------------------------------ MODULE HostProbe ------------------------------
(* What the prototype host must be (p1a_windows.rs): which Visual Studio,   *)
(* Windows SDK and C++ runtime the probe selects among the installed ones,  *)
(* and the processors it accepts.                                           *)
(*                                                                          *)
(* A version is the sequence of its numbers.  A host is a record:           *)
(*   instances  what vswhere lists: [id, path, version, complete,           *)
(*              launchable, reboot], in this order, ids and paths folded to *)
(*              one case;                                                   *)
(*   requested  the id the caller froze, or "none";                         *)
(*   tools      the version the MSVC default-version file names;            *)
(*   redist     the directories of the C++ redistributables: a name and the *)
(*              version of the runtime in it;                               *)
(*   sdks       the SDK directories: a name and whether its six files exist;*)
(*   groups, cores, logical, masks  what Windows reports of the processors; *)
(*   smt        the cores reported as multithreaded;                        *)
(*   cpu        the processor is the expected one, native, with every       *)
(*              instruction set;                                            *)
(*   power      the mains and processor policy is valid;                    *)
(*   git        the launchers of Git: "none" beside cmd, "same", "other".   *)
EXTENDS Naturals, Sequences, FiniteSets, SequencesExt, FiniteSetsExt

CONSTANT Refused   \* what a selection returns in place of a choice

Earlier(v, w) ==
    \E i \in 1..Max({Len(v), Len(w)}) :
       /\ \A j \in 1..(i - 1) : j <= Len(v) /\ j <= Len(w) /\ v[j] = w[j]
       /\ i <= Len(w) /\ (i > Len(v) \/ v[i] < w[i])
Latest(versions) == CHOOSE v \in versions : \A w \in versions : ~Earlier(v, w)
Prefix2(v) == <<v[1], v[2]>>
-----------------------------------------------------------------------------
(* visual_studio: the inventory must be closed, and the instance is the one *)
(* requested or the only one that is qualified.                             *)
InstancesValid(host) ==
    LET all == host.instances
    IN  /\ Len(all) \in 1..128
        /\ \A i \in DOMAIN all : Len(all[i].version) \in 3..4 /\ all[i].version[1] = 17
        /\ \A i, j \in DOMAIN all :
              i # j => all[i].id # all[j].id /\ all[i].path # all[j].path

SelectInstance(host) ==
    LET qualified == {i \in ToSet(host.instances) : i.complete /\ i.launchable /\ ~i.reboot}
        chosen == {i \in qualified : host.requested \in {"none", i.id}}
    IN  IF InstancesValid(host) /\ Cardinality(chosen) = 1
        THEN (CHOOSE i \in chosen : TRUE).id ELSE Refused

(* The version file must name three parts of MSVC 14.                       *)
SelectTools(host) ==
    IF Len(host.tools) = 3 /\ host.tools[1] = 14 THEN host.tools ELSE Refused

(* select_vcruntime: a numeric directory that is not a version of MSVC 14,  *)
(* or that equals another but for its spelling, refuses the host even when  *)
(* it would not be selected; so does a runtime that is not what its         *)
(* directory says.                                                          *)
SelectRuntime(host) ==
    LET dirs == host.redist
        numeric == {i \in DOMAIN dirs : dirs[i].name # <<>>}
        matching == {i \in numeric : Prefix2(dirs[i].name) = Prefix2(host.tools)}
        named == {dirs[i].name : i \in matching}
    IN  IF /\ \A i \in numeric : Len(dirs[i].name) = 3 /\ dirs[i].name[1] = 14
           /\ \A i, j \in numeric : i # j => dirs[i].name # dirs[j].name
           /\ matching # {}
           /\ \E i \in matching : /\ dirs[i].name = Latest(named)
                                  /\ Prefix2(dirs[i].file) = Prefix2(host.tools)
        THEN Latest(named) ELSE Refused

(* windows_sdk: the latest four-part version that is complete; what is not  *)
(* a version, or not complete, is passed over.                              *)
SelectSdk(sdks) ==
    LET complete == {s.name : s \in {t \in sdks : Len(t.name) = 4 /\ t.complete}}
    IN  IF complete = {} THEN Refused ELSE Latest(complete)

(* discover_git_path: a second launcher must be the same program.           *)
GitLauncher(host) == IF host.git = "other" THEN Refused ELSE "git"
-----------------------------------------------------------------------------
(* canonical_core_topology: one group and package; every core has one mask, *)
(* a set of logical processors that no other core has; together they are    *)
(* what is reported as active.                                              *)
TopologyValid(host) ==
    LET masks == host.masks
    IN  /\ host.groups = 1
        /\ host.logical \in 1..32 /\ host.cores \in 1..16
        /\ Len(masks) = host.cores
        /\ \A i \in DOMAIN masks : /\ masks[i] # {}
                                   /\ (i \in host.smt) <=> Cardinality(masks[i]) > 1
        /\ \A i, j \in DOMAIN masks : i # j => masks[i] \cap masks[j] = {}
        /\ Cardinality(UNION ToSet(masks)) = host.logical

(* The findings of probe that are not about the load.                       *)
HostFits(host) == host.cpu /\ TopologyValid(host) /\ host.power

(* What the identities in the report are taken of; a selection that fails   *)
(* ends the probe before the load is measured.                              *)
Selection(host, newer) ==
    [instance |-> SelectInstance(host), tools |-> SelectTools(host),
     runtime |-> IF SelectTools(host) = Refused THEN Refused ELSE SelectRuntime(host),
     sdk |-> SelectSdk(host.sdks \cup newer)]
Selected(selection) == \A field \in DOMAIN selection : selection[field] # Refused
=============================================================================
