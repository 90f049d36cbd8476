----------------------------- MODULE OutputTree -----------------------------
(***************************************************************************)
(* PartialTree (src/acquire.rs) and publish_create_new (src/platform.rs):  *)
(* a command builds its output in a directory beside the destination,      *)
(* named after its process id, and renames it into place, never over       *)
(* something.                                                              *)
(*                                                                         *)
(* A tree is its documents, by name, and the source manifests that list    *)
(* them; index is the number of manifests index.json names.                *)
(***************************************************************************)
EXTENDS Integers, Sequences, FiniteSets

CONSTANTS
    Procs,              \* the process ids
    Roots               \* the output roots

VARIABLES
    partial,            \* the partial directories, by root and process id
    root                \* what is at each output root

treeVars == <<partial, root>>

Absent == [absent |-> TRUE]
EmptyTree == [files |-> <<>>, generations |-> <<>>, index |-> 0]

TreeInit ==
    /\ partial = [place \in Roots \X Procs |-> Absent]
    /\ root = [r \in Roots |-> Absent]

Exists(r) == root[r] # Absent

(* Mutant: the directory of an earlier process of this id is taken over.    *)
CreatePartialKept(p, r) ==
    partial' = [partial EXCEPT ![<<r, p>>] = IF @ = Absent THEN EmptyTree ELSE @]

(* PartialTree::create: what an earlier process of this id left is removed. *)
CreatePartial(p, r) == partial' = [partial EXCEPT ![<<r, p>>] = EmptyTree]

(* The files with one more, or with other bytes under a name.               *)
With(files, name, content) ==
    [n \in DOMAIN files \cup {name} |-> IF n = name THEN content ELSE files[n]]

(* PartialTree::write, of a document.                                       *)
WriteFile(p, r, name, content) ==
    partial' = [partial EXCEPT ![<<r, p>>].files = With(@, name, content)]

(* The writes of the source manifests and of the index.                     *)
WriteManifests(p, r, generations, files) ==
    partial' = [partial EXCEPT ![<<r, p>>] =
        [files |-> files, generations |-> generations, index |-> Len(generations)]]

(* Drop of a tree that was not published.                                   *)
DropPartial(p, r) == partial' = [partial EXCEPT ![<<r, p>>] = Absent]

(* Mutant: the rename replaces an existing destination.                     *)
RenameReplace(p, r, label) ==
    /\ root' = [root EXCEPT ![r] = [tree |-> partial[<<r, p>>], by |-> label]]
    /\ partial' = [partial EXCEPT ![<<r, p>>] = Absent]

(* The rename, which refuses an existing destination.  label says who made  *)
(* the tree, and of what.                                                   *)
RenameNoReplace(p, r, label) ==
    /\ ~Exists(r)
    /\ root' = [root EXCEPT ![r] = [tree |-> partial[<<r, p>>], by |-> label]]
    /\ partial' = [partial EXCEPT ![<<r, p>>] = Absent]
=============================================================================
