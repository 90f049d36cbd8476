----------------------------- MODULE AmendmentRuns -----------------------------
(***************************************************************************)
(* The runs of the P0A contract amendment (prepare in xtask/src/p0a.rs):   *)
(* an attempt is built in a container below .staging and moved to runs/,   *)
(* and every invocation first closes the attempts it finds in .staging.    *)
(* No lock is taken: an attempt it finds may still be alive.               *)
(***************************************************************************)
EXTENDS Naturals, FiniteSets, FiniteSetsExt

CONSTANTS
  Procs,      \* processes that run prepare
  MaxRuns,    \* bound on the attempts made
  MaxStops    \* bound on crashes and failed operations

ASSUME AmendmentRunsAssumption == MaxRuns \in Nat /\ MaxStops \in Nat

Runs == 1..MaxRuns
Kinds == {"work", "fail", "recovery"}

VARIABLES
  staging,    \* the containers below .staging
  runs,       \* the status of each directory below runs/
  attempts,   \* attempts made: run identities are never used twice
  pc,         \* where each process is in prepare
  own,        \* the run it attempts
  empties,    \* containers without identity it has listed and not removed yet
  todo,       \* other containers it has listed and not dealt with yet
  group,      \* the listed run that it is closing
  stops

runVars == <<staging, runs, attempts, pc, own, empties, todo, group, stops>>

\* built: the run directory is in the container, complete or in part.
Container == [run : Runs, kind : Kinds, by : Procs, attempt : {"none", "temp", "whole"},
              built : BOOLEAN]

RunSteps == {"idle", "list", "removeEmpty", "next", "recovery", "buildRecovery",
             "publishRecovery", "dropRecovery", "remove", "create", "attempt", "rename", "emit",
             "publish", "dropAttempt", "dropWork", "fail", "buildFail", "publishFail",
             "dropFail"}

RunsTypeOK ==
  /\ staging \subseteq Container
  /\ runs \in [Runs -> {"none", "AWAITING_REVIEW", "FAIL"}]
  /\ attempts \in 0..MaxRuns
  /\ pc \in [Procs -> RunSteps]
  /\ own \in [Procs -> 0..MaxRuns]
  /\ empties \in [Procs -> SUBSET [run : Runs, kind : Kinds, by : Procs]]
  /\ todo \in [Procs -> SUBSET [run : Runs, kind : Kinds, by : Procs]]
  /\ group \in [Procs -> 0..MaxRuns]
  /\ stops \in 0..MaxStops

RunsInit ==
  /\ staging = {}
  /\ runs = [r \in Runs |-> "none"]
  /\ attempts = 0
  /\ pc = [p \in Procs |-> "idle"]
  /\ own = [p \in Procs |-> 0]
  /\ empties = [p \in Procs |-> {}]
  /\ todo = [p \in Procs |-> {}]
  /\ group = [p \in Procs |-> 0]
  /\ stops = 0

Published == {r \in Runs : runs[r] # "none"}
NameOf(c) == [run |-> c.run, kind |-> c.kind, by |-> c.by]
Names(containers) == {NameOf(c) : c \in containers}
Named(name) == {c \in staging : NameOf(c) = name}
Name(p, r, kind) == [run |-> r, kind |-> kind, by |-> p]
Fresh(name) == [run |-> name.run, kind |-> name.kind, by |-> name.by,
                attempt |-> "none", built |-> FALSE]
IsEmpty(c) == c.attempt = "none" /\ ~c.built

Goto(p, step) == pc' = [pc EXCEPT ![p] = step]

Leave(p) ==
  /\ Goto(p, "idle")
  /\ own' = [own EXCEPT ![p] = 0]
  /\ empties' = [empties EXCEPT ![p] = {}]
  /\ todo' = [todo EXCEPT ![p] = {}]
  /\ group' = [group EXCEPT ![p] = 0]

\* An error return: nothing on disk is changed.
Refuse(p) == Leave(p) /\ UNCHANGED <<staging, runs>>

\* The named container gets these contents, if it is still there.
Put(p, name, attempt, built, step) ==
  /\ Named(name) # {}
  /\ staging' = (staging \ Named(name))
                  \cup {[c EXCEPT !.attempt = attempt, !.built = built] : c \in Named(name)}
  /\ Goto(p, step)

Gone(name) == Named(name) = {}
\* Between the look for the final name and the rename, another process publishes the
\* identity and takes this stage away: the failing rename counts as the publication.  The
\* look is no step of its own, so an identity published before it may end here as well.
PublishedByAnother(r, name) == runs[r] # "none" /\ \A c \in Named(name) : ~c.built
AttemptIn(name) == \E c \in Named(name) : c.attempt = "whole"

---------------------------------------------------------------------------
(* recover_interrupted_stages *)

\* Beyond the bound a process goes no further than the recovery.
StartPrepare(p) ==
  /\ pc[p] = "idle"
  /\ attempts < MaxRuns \/ staging # {}
  /\ attempts' = Min({attempts + 1, MaxRuns})
  /\ own' = [own EXCEPT ![p] = IF attempts < MaxRuns THEN attempts + 1 ELSE 0]
  /\ Goto(p, "list")
  /\ UNCHANGED <<staging, runs, empties, todo, group, stops>>

\* A work container whose attempt.json has not been written.
PreIdentity(c) == c.kind = "work" /\ c.attempt # "whole"

\* Mutant: only an empty container without identity is accepted.
ListStaging_OnlyEmpty(p) ==
  /\ pc[p] = "list"
  /\ IF \E c \in staging : PreIdentity(c) /\ ~IsEmpty(c)
     THEN Refuse(p)
     ELSE /\ staging' = {IF PreIdentity(c) THEN [c EXCEPT !.attempt = "none"] ELSE c :
                           c \in staging}
          /\ empties' = [empties EXCEPT ![p] = Names({c \in staging : PreIdentity(c)})]
          /\ todo' = [todo EXCEPT ![p] = Names({c \in staging : ~PreIdentity(c)})]
          /\ Goto(p, "removeEmpty")
          /\ UNCHANGED <<runs, group, own>>
  /\ UNCHANGED <<attempts, stops>>

\* Listing the directory is one step.  A partial attempt.json is deleted on the way;
\* anything else in a container without identity is refused.
ListStaging(p) ==
  /\ pc[p] = "list"
  /\ IF \E c \in staging : PreIdentity(c) /\ c.built
     THEN Refuse(p)
     ELSE /\ staging' = {IF PreIdentity(c) THEN [c EXCEPT !.attempt = "none"] ELSE c :
                           c \in staging}
          /\ empties' = [empties EXCEPT ![p] = Names({c \in staging : PreIdentity(c)})]
          /\ todo' = [todo EXCEPT ![p] = Names({c \in staging : ~PreIdentity(c)})]
          /\ Goto(p, "removeEmpty")
          /\ UNCHANGED <<runs, group, own>>
  /\ UNCHANGED <<attempts, stops>>

Listed(p, r) == {name \in todo[p] : name.run = r}

\* The containers without identity are removed first; one that is gone or has been
\* filled since it was listed is an error.
RemoveEmpty(p) ==
  /\ pc[p] = "removeEmpty"
  /\ IF empties[p] = {}
     THEN Goto(p, "next") /\ UNCHANGED <<staging, runs, empties, todo, group, own>>
     ELSE \E name \in empties[p] :
            IF \E c \in Named(name) : IsEmpty(c)
            THEN /\ staging' = staging \ Named(name)
                 /\ empties' = [empties EXCEPT ![p] = @ \ {name}]
                 /\ UNCHANGED <<runs, todo, group, own, pc>>
            ELSE Refuse(p)
  /\ UNCHANGED <<attempts, stops>>

\* Mutant: the containers of a listed run are removed, published or not.
NextGroup_OnlyRemoves(p) ==
  /\ pc[p] = "next"
  /\ IF todo[p] = {}
     THEN Goto(p, "create") /\ UNCHANGED <<staging, runs, empties, todo, group, own>>
     ELSE /\ group' = [group EXCEPT ![p] = Min({name.run : name \in todo[p]})]
          /\ Goto(p, "remove")
          /\ UNCHANGED <<staging, runs, empties, todo, own>>
  /\ UNCHANGED <<attempts, stops>>

\* The listed runs in the order of their identities.  A published run only has its
\* containers removed; another one needs exactly one durable attempt.
NextGroup(p) ==
  /\ pc[p] = "next"
  /\ IF todo[p] = {}
     THEN Goto(p, "create") /\ UNCHANGED <<staging, runs, empties, todo, group, own>>
     ELSE LET r == Min({name.run : name \in todo[p]})
          IN CASE runs[r] # "none" ->
                    /\ group' = [group EXCEPT ![p] = r]
                    /\ Goto(p, "remove")
                    /\ UNCHANGED <<staging, runs, empties, todo, own>>
               [] runs[r] = "none"
                    /\ Cardinality({name \in Listed(p, r) : AttemptIn(name)}) = 1 ->
                    /\ group' = [group EXCEPT ![p] = r]
                    /\ Goto(p, "recovery")
                    /\ UNCHANGED <<staging, runs, empties, todo, own>>
               [] OTHER -> Refuse(p)
  /\ UNCHANGED <<attempts, stops>>

\* The interrupted attempt is closed with a FAIL run that is built in a container of
\* its own.  One that an earlier recovery of this process left counts as that one.
CloseInterrupted(p) ==
  LET name == Name(p, group[p], "recovery")
  IN /\ \/ /\ pc[p] = "recovery"
           /\ staging' = staging \cup (IF Gone(name) THEN {Fresh(name)} ELSE {})
           /\ Goto(p, "buildRecovery")
           /\ UNCHANGED <<runs, empties, todo, group, own>>
        \/ /\ pc[p] = "buildRecovery"
           /\ IF Gone(name)
              THEN Refuse(p)
              ELSE Put(p, name, "none", TRUE, "publishRecovery")
                     /\ UNCHANGED <<runs, empties, todo, group, own>>
        \/ /\ pc[p] = "publishRecovery" /\ PublishedByAnother(group[p], name)
           /\ Goto(p, "dropRecovery")
           /\ UNCHANGED <<staging, runs, empties, todo, group, own>>
        \/ /\ pc[p] = "publishRecovery"
           /\ IF runs[group[p]] = "none" /\ ~Gone(name)
              THEN /\ runs' = [runs EXCEPT ![group[p]] = "FAIL"]
                   /\ Put(p, name, "none", FALSE, "dropRecovery")
                   /\ UNCHANGED <<empties, todo, group, own>>
              ELSE Refuse(p)
        \/ /\ pc[p] = "dropRecovery"
           /\ IF Gone(name)
              THEN Refuse(p)
              ELSE /\ staging' = staging \ Named(name)
                   /\ todo' = [todo EXCEPT ![p] = @ \ {name}]
                   /\ Goto(p, "remove")
                   /\ UNCHANGED <<runs, empties, group, own>>
     /\ UNCHANGED <<attempts, stops>>

\* Containers of a run are removed in the order of their names.
Rank == [fail |-> 1, recovery |-> 2, work |-> 3]
FirstListed(p, r) ==
  {name \in Listed(p, r) : \A other \in Listed(p, r) : Rank[name.kind] <= Rank[other.kind]}

\* remove_owned_stage_container: what is in the container goes first, in any order.
RemoveContainer(p) ==
  /\ pc[p] = "remove"
  /\ IF Listed(p, group[p]) = {}
     THEN IF group[p] = own[p]
          THEN Refuse(p)
          ELSE Goto(p, "next") /\ UNCHANGED <<staging, runs, empties, todo, group, own>>
     ELSE \E name \in FirstListed(p, group[p]) :
            \/ Gone(name) /\ Refuse(p)
            \/ \E c \in Named(name) :
                 /\ \/ /\ c.attempt # "none"
                       /\ staging' = (staging \ {c}) \cup {[c EXCEPT !.attempt = "none"]}
                       /\ UNCHANGED todo
                    \/ /\ c.built
                       /\ staging' = (staging \ {c}) \cup {[c EXCEPT !.built = FALSE]}
                       /\ UNCHANGED todo
                    \/ /\ IsEmpty(c)
                       /\ staging' = staging \ {c}
                       /\ todo' = [todo EXCEPT ![p] = @ \ {name}]
                 /\ UNCHANGED <<runs, empties, group, own, pc>>
  /\ UNCHANGED <<attempts, stops>>

---------------------------------------------------------------------------
(* prepare, after the recovery *)

CreateWork(p) ==
  /\ pc[p] = "create"
  /\ IF own[p] = 0
     THEN Refuse(p)
     ELSE /\ staging' = staging \cup {Fresh(Name(p, own[p], "work"))}
          /\ Goto(p, "attempt")
          /\ UNCHANGED <<runs, empties, todo, group, own>>
  /\ UNCHANGED <<attempts, stops>>

\* attempt.json under a temporary name, then the rename of it.
WriteAttempt(p) ==
  LET name == Name(p, own[p], "work")
  IN /\ \/ /\ pc[p] = "attempt"
           /\ IF Gone(name)
              THEN Refuse(p)
              ELSE Put(p, name, "temp", FALSE, "rename")
                     /\ UNCHANGED <<runs, empties, todo, group, own>>
        \/ /\ pc[p] = "rename"
           /\ IF \E c \in Named(name) : c.attempt = "temp"
              THEN Put(p, name, "whole", FALSE, "emit")
                     /\ UNCHANGED <<runs, empties, todo, group, own>>
              ELSE Refuse(p)
     /\ UNCHANGED <<attempts, stops>>

EmitRun(p) ==
  LET name == Name(p, own[p], "work")
  IN /\ pc[p] = "emit"
     /\ IF Gone(name)
        THEN Goto(p, "fail") /\ UNCHANGED staging
        ELSE \E c \in Named(name) :
               \/ Put(p, name, c.attempt, TRUE, "publish")
               \/ \E part \in BOOLEAN : Put(p, name, c.attempt, part, "fail")
     /\ UNCHANGED <<runs, attempts, own, empties, todo, group, stops>>

\* The validated run is moved to runs/, unless the name is taken.
PublishRun(p) ==
  LET name == Name(p, own[p], "work")
  IN /\ pc[p] = "publish"
     /\ \/ \E c \in Named(name) :
             /\ c.built /\ runs[own[p]] = "none"
             /\ runs' = [runs EXCEPT ![own[p]] = "AWAITING_REVIEW"]
             /\ Put(p, name, c.attempt, FALSE, "dropAttempt")
        \/ /\ PublishedByAnother(own[p], name) /\ Goto(p, "dropAttempt")
           /\ UNCHANGED <<staging, runs>>
        \/ Goto(p, "fail") /\ UNCHANGED <<staging, runs>>
     /\ UNCHANGED <<attempts, own, empties, todo, group, stops>>

\* Errors of this cleanup are ignored.
DropWork(p) ==
  LET name == Name(p, own[p], "work")
  IN /\ \/ /\ pc[p] = "dropAttempt"
           /\ IF AttemptIn(name)
              THEN /\ \E c \in Named(name) : Put(p, name, "none", c.built, "dropWork")
                   /\ UNCHANGED <<own, empties, todo, group>>
              ELSE Leave(p) /\ UNCHANGED staging
        \/ /\ pc[p] = "dropWork"
           /\ staging' = {c \in staging : ~(NameOf(c) = name /\ IsEmpty(c))}
           /\ Leave(p)
     /\ UNCHANGED <<runs, attempts, stops>>

\* close_failed_attempt: the attempt ends with a sealed FAIL run of its identity.
CloseFailed(p) ==
  LET name == Name(p, own[p], "fail")
  IN /\ \/ /\ pc[p] = "fail"
           /\ staging' = staging \cup {Fresh(name)}
           /\ Goto(p, "buildFail")
           /\ UNCHANGED <<runs, empties, todo, group, own>>
        \/ /\ pc[p] = "buildFail"
           /\ IF Gone(name)
              THEN Refuse(p)
              ELSE Put(p, name, "none", TRUE, "publishFail")
                     /\ UNCHANGED <<runs, empties, todo, group, own>>
        \/ /\ pc[p] = "publishFail" /\ PublishedByAnother(own[p], name)
           /\ Goto(p, "dropFail")
           /\ UNCHANGED <<staging, runs, empties, todo, group, own>>
        \/ /\ pc[p] = "publishFail"
           /\ IF runs[own[p]] = "none" /\ ~Gone(name)
              THEN /\ runs' = [runs EXCEPT ![own[p]] = "FAIL"]
                   /\ Put(p, name, "none", FALSE, "dropFail")
                   /\ UNCHANGED <<empties, todo, group, own>>
              ELSE Refuse(p)
        \/ /\ pc[p] = "dropFail"
           /\ IF Gone(name)
              THEN Refuse(p)
              ELSE /\ staging' = staging \ Named(name)
                   /\ group' = [group EXCEPT ![p] = own[p]]
                   /\ todo' = [todo EXCEPT ![p] = {Name(p, own[p], "work")}]
                   /\ Goto(p, "remove")
                   /\ UNCHANGED <<runs, empties, own>>
     /\ UNCHANGED <<attempts, stops>>

Prepare(p) ==
  \/ ListStaging(p) \/ RemoveEmpty(p) \/ NextGroup(p) \/ CloseInterrupted(p)
  \/ RemoveContainer(p) \/ CreateWork(p) \/ WriteAttempt(p) \/ EmitRun(p)
  \/ PublishRun(p) \/ DropWork(p) \/ CloseFailed(p)

\* The process dies.
StopPrepare(p) ==
  /\ pc[p] # "idle" /\ stops < MaxStops
  /\ stops' = stops + 1
  /\ Leave(p)
  /\ UNCHANGED <<staging, runs, attempts>>
---------------------------------------------------------------------------
(* Properties. *)

\* A published run is never replaced, and an attempt with a durable identity keeps it
\* until a run of that identity is published, whoever else recovers at the time.
AttemptsAreClosedOnce ==
  [][/\ \A r \in Runs : runs[r] # "none" => runs'[r] = runs[r]
     /\ \A c \in staging :
          c.attempt = "whole" /\ runs'[c.run] = "none" =>
            \E d \in staging' : NameOf(d) = NameOf(c) /\ d.attempt = "whole"]_runVars

---------------------------------------------------------------------------
\* What prepare refuses for good: a container without identity that is not empty, and
\* containers of an unpublished run that do not hold exactly one attempt (a directory
\* removal that was interrupted leaves either).
Stuck ==
  \/ \E c \in staging : PreIdentity(c) /\ c.built
  \/ \E r \in Runs :
       /\ runs[r] = "none"
       /\ \E c \in staging : c.run = r /\ ~PreIdentity(c)
       /\ Cardinality({c \in staging : c.run = r /\ c.attempt = "whole"}) # 1
=============================================================================
