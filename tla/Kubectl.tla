------------------------------- MODULE Kubectl -------------------------------
(***************************************************************************)
(* pkg/utils/kube/resource_ops.go: the commands that change the cluster.   *)
(* Every command works on a temporary manifest file and takes a slot of    *)
(* the caller's OnKubectlRun; for RBAC objects `kubectl auth reconcile`    *)
(* runs first, in several requests.  The commands of a batch run in        *)
(* parallel.  What kubectl does with its requests is external.             *)
(***************************************************************************)
EXTENDS Integers, FiniteSets

CONSTANTS
    Objects,    \* the objects of the manifests, all in one namespace
    Rbac,       \* ... of rbac.authorization.k8s.io/v1
    Refs,       \* the immutable part (roleRef)
    Subjects,   \* the entries of the rest
    Slots,      \* the commands OnKubectlRun lets run at a time
    MaxEdits,   \* bound: commits and changes by other clients
    MaxFaults,  \* bound: failing steps
    None

Content == [ref : Refs, subjects : SUBSET Subjects]

ASSUME KubectlAssumption ==
    /\ Rbac \subseteq Objects
    /\ Refs # {} /\ None \notin Content
    /\ Slots \in Nat \ {0} /\ MaxEdits \in Nat /\ MaxFaults \in Nat

\* A plain object has no immutable part.
AnyRef == CHOOSE r \in Refs : TRUE
Contents(o) == {c \in Content : o \in Rbac \/ c.ref = AnyRef}

VARIABLES
    namespace,  \* whether it exists
    cluster,    \* the objects as they are, None: absent
    git,        \* the manifests
    replace,    \* the Replace=true option
    pc,         \* where the command of each object is
    mode,       \* apply, create or replace
    dry,        \* the objects whose command is a client dry run
    files,      \* manifest files on disk, of the commands of each object
    running,    \* onKubectlRun without its cleanup
    disturbed,  \* history: running commands that met another client's change
    removed,    \* history: commands that saw a namespace that is gone since
    spoilt,     \* history: commands that could not write their manifest
    edits, faults

vars == <<namespace, cluster, git, replace, pc, mode, dry, files, running,
          disturbed, removed, spoilt, edits, faults>>

Init ==
    /\ namespace \in BOOLEAN
    /\ cluster \in {c \in [Objects -> Content \cup {None}] :
                      \A o \in Objects : c[o] # None => namespace /\ c[o] \in Contents(o)}
    /\ git \in [Objects -> [ref : {AnyRef}, subjects : SUBSET Subjects]]
    /\ replace \in BOOLEAN
    /\ pc = [o \in Objects |-> "idle"]
    /\ mode = [o \in Objects |-> "apply"]
    /\ dry = {}
    /\ files = [o \in Objects |-> 0] /\ spoilt = files /\ running = {}
    /\ disturbed = {} /\ removed = {}
    /\ edits = 0 /\ faults = 0

-----------------------------------------------------------------------------
(* The user and other clients                                               *)

Quiet == \A o \in Objects : pc[o] = "idle"

Edit == edits < MaxEdits /\ edits' = edits + 1

\* A commit is seen by the next sync.
EditGit(o) ==
    /\ Quiet /\ Edit
    /\ \E c \in Contents(o) \ {git[o]} : git' = [git EXCEPT ![o] = c]
    /\ UNCHANGED <<namespace, cluster, replace, pc, mode, dry, files, running, disturbed,
                   removed, spoilt, faults>>

OtherWrites(o) ==
    /\ Edit /\ namespace
    /\ \E c \in (Contents(o) \cup {None}) \ {cluster[o]} : cluster' = [cluster EXCEPT ![o] = c]
    /\ disturbed' = disturbed \cup ({o} \ {x \in Objects : pc[x] = "idle"})
    /\ UNCHANGED <<namespace, git, replace, pc, mode, dry, files, running, removed, spoilt,
                   faults>>

DeleteNamespace ==
    /\ Edit /\ namespace
    /\ namespace' = FALSE
    /\ cluster' = [o \in Objects |-> None]
    /\ disturbed' = {o \in Objects : pc[o] # "idle"}
    /\ removed' = removed \cup {o \in Objects : pc[o] \in {"reconcile", "recreate"}}
    /\ UNCHANGED <<git, replace, pc, mode, dry, files, running, spoilt, faults>>

CreateNamespace ==
    /\ ~namespace
    /\ namespace' = TRUE
    /\ UNCHANGED <<cluster, git, replace, pc, mode, dry, files, running, disturbed,
                   removed, spoilt, edits, faults>>

-----------------------------------------------------------------------------
(* A command: the caller, runResourceCommand and createManifestFile         *)

Start(o, dryRun) ==
    /\ pc[o] = "idle"
    /\ pc' = [pc EXCEPT ![o] = "file"]
    /\ mode' = [mode EXCEPT ![o] = IF ~replace THEN "apply"
                                   ELSE IF cluster[o] = None THEN "create" ELSE "replace"]
    /\ dry' = IF dryRun THEN dry \cup {o} ELSE dry \ {o}
    /\ disturbed' = IF namespace THEN disturbed ELSE disturbed \cup {o}
    /\ UNCHANGED <<namespace, cluster, git, replace, files, running, removed, spoilt, edits,
                   faults>>

\* The way on, with what the command holds.
Goto(o, label) ==
    /\ pc' = [pc EXCEPT ![o] = label]
    /\ UNCHANGED <<git, replace, mode, dry, disturbed, removed, spoilt, edits, faults>>

\* Every return of a command frees its slot and, once createManifestFile has
\* returned without an error, deletes its manifest.
Forget(o) ==
    /\ pc' = [pc EXCEPT ![o] = "idle"]
    /\ mode' = [mode EXCEPT ![o] = "apply"]
    /\ dry' = dry \ {o} /\ disturbed' = disturbed \ {o} /\ removed' = removed \ {o}
    /\ UNCHANGED <<git, replace, edits>>
DeleteFile(o) == files' = IF pc[o] = "file" THEN files ELSE [files EXCEPT ![o] = @ - 1]
FaultyReturn(o) ==
    /\ Forget(o) /\ DeleteFile(o) /\ UNCHANGED spoilt
    /\ running' = IF pc[o] = "run" THEN running \ {o} ELSE running
Return(o) ==
    /\ Forget(o) /\ DeleteFile(o) /\ UNCHANGED spoilt
    /\ running' = running \ {o}

\* Any step may fail, a request also without being sent.
Fault == faults < MaxFaults /\ faults' = faults + 1
Fail(o) ==
    /\ pc[o] # "idle" /\ Fault
    /\ Return(o)
    /\ UNCHANGED <<namespace, cluster>>

\* createManifestFile, failing when the file is there already: in Write, Close or
\* maybeLogManifest.  Its deletion is not deferred yet.
SpoilFile(o) ==
    /\ pc[o] = "file" /\ Fault
    /\ Forget(o)
    /\ files' = [files EXCEPT ![o] = @ + 1]
    /\ spoilt' = [spoilt EXCEPT ![o] = @ + 1]
    /\ UNCHANGED <<namespace, cluster, running>>

Refused(o) == Return(o) /\ UNCHANGED <<namespace, cluster, faults>>

FaultyIsReconciled(o) == o \in Rbac /\ mode[o] # "apply"
IsReconciled(o) == o \in Rbac

CreateManifestFile(o) ==
    /\ pc[o] = "file"
    /\ files' = [files EXCEPT ![o] = @ + 1]
    /\ Goto(o, IF IsReconciled(o) THEN "auth" ELSE "executor")
    /\ UNCHANGED <<namespace, cluster, running>>

\* processKubectlRun; there is no check of the namespace in a dry run.
FaultyProcessKubectlRun(o) ==
    /\ pc[o] \in {"auth", "executor"}
    /\ Cardinality(running) < Slots
    /\ running' = running \cup {o}
    /\ Goto(o, IF pc[o] = "executor" THEN "run" ELSE "reconcile")
    /\ UNCHANGED <<namespace, cluster, files>>
ProcessKubectlRun(o) ==
    /\ pc[o] \in {"auth", "executor"}
    /\ Cardinality(running) < Slots
    /\ running' = running \cup {o}
    /\ Goto(o, IF pc[o] = "executor" THEN "run" ELSE IF o \in dry THEN "reconcile" ELSE "check")
    /\ UNCHANGED <<namespace, cluster, files>>

-----------------------------------------------------------------------------
(* rbacReconcile                                                            *)

CheckNamespace(o) ==
    /\ pc[o] = "check"
    /\ IF namespace THEN Goto(o, "reconcile") /\ UNCHANGED <<namespace, cluster, files, running>>
       ELSE Refused(o)

\* The end of rbacReconcile frees its slot.
Reconciled(o) == Goto(o, "executor") /\ running' = running \ {o} /\ UNCHANGED files

\* kubectl creates an object with its namespace, if that does not exist.
CreateWithNamespace(o) ==
    /\ namespace' = TRUE
    /\ cluster' = [cluster EXCEPT ![o] = git[o]]

\* RunReconcile: subjects are added and never removed, and an object with another
\* roleRef is deleted first.
Reconcile(o) ==
    /\ pc[o] = "reconcile"
    /\ \/ /\ o \in dry
          /\ Reconciled(o) /\ UNCHANGED <<namespace, cluster>>
       \/ /\ o \notin dry /\ cluster[o] = None
          /\ CreateWithNamespace(o) /\ Reconciled(o)
       \/ /\ o \notin dry /\ cluster[o] # None /\ cluster[o].ref # git[o].ref
          /\ cluster' = [cluster EXCEPT ![o] = None]
          /\ Goto(o, "recreate") /\ UNCHANGED <<namespace, files, running>>
       \/ /\ o \notin dry /\ cluster[o] # None /\ cluster[o].ref = git[o].ref
          /\ cluster' = [cluster EXCEPT ![o].subjects = @ \cup git[o].subjects]
          /\ Reconciled(o) /\ UNCHANGED namespace

Recreate(o) ==
    /\ pc[o] = "recreate"
    /\ IF cluster[o] = None THEN CreateWithNamespace(o) /\ Reconciled(o)
       ELSE Refused(o)

-----------------------------------------------------------------------------
(* The executor: kubectl apply, create or replace                           *)

\* roleRef is immutable; plain objects have no part that is.
Kept(o) == cluster[o] # None => o \notin Rbac \/ cluster[o].ref = git[o].ref

Accepted(o) ==
    /\ namespace
    /\ CASE mode[o] = "apply" -> Kept(o)
         [] mode[o] = "create" -> cluster[o] = None
         [] mode[o] = "replace" -> cluster[o] # None /\ Kept(o)

Run(o) ==
    /\ pc[o] = "run"
    /\ \/ /\ o \in dry
          /\ Return(o) /\ UNCHANGED <<namespace, cluster, faults>>
       \/ /\ o \notin dry /\ Accepted(o)
          /\ cluster' = [cluster EXCEPT ![o] = git[o]]
          /\ Return(o) /\ UNCHANGED <<namespace, faults>>
       \/ /\ o \notin dry /\ ~Accepted(o)
          /\ Refused(o)

-----------------------------------------------------------------------------
Command(o) ==
    \/ CreateManifestFile(o) \/ ProcessKubectlRun(o) \/ CheckNamespace(o)
    \/ Reconcile(o) \/ Recreate(o) \/ Run(o)

InSync(o) == cluster[o] = git[o]

Next ==
    \/ \E o \in Objects : EditGit(o) \/ OtherWrites(o) \/ Fail(o) \/ SpoilFile(o)
                           \/ Command(o)
    \/ \E o \in Objects, dryRun \in BOOLEAN : Start(o, dryRun)
    \/ DeleteNamespace \/ CreateNamespace

Spec == Init /\ [][Next]_vars

\* The goroutines run, OnKubectlRun gives a free slot to each that waits in its
\* turn, what is out of sync is synced again, and the namespace comes back.
Fairness ==
    /\ \A o \in Objects : /\ WF_vars(Command(o)) /\ SF_vars(ProcessKubectlRun(o))
                          /\ SF_vars(~InSync(o) /\ Start(o, FALSE))
    /\ WF_vars(CreateNamespace)

FairSpec == Spec /\ Fairness

-----------------------------------------------------------------------------
(* Correctness                                                              *)

\* Every variable holds a value the code can produce.
KubectlTypeOK ==
    /\ {namespace, replace} \subseteq BOOLEAN
    /\ cluster \in [Objects -> Content \cup {None}] /\ git \in [Objects -> Content]
    /\ pc \in [Objects -> {"idle", "file", "auth", "check", "reconcile", "recreate",
                           "executor", "run"}]
    /\ mode \in [Objects -> {"apply", "create", "replace"}]
    /\ files \in [Objects -> Nat] /\ spoilt \in [Objects -> Nat]
    /\ dry \subseteq Objects /\ running \subseteq Objects
    /\ Cardinality(running) <= Slots

\* A command that is over holds no slot, on whatever path it returned, and the
\* manifests left on disk are those of the commands that failed while they wrote
\* them.
NothingLeftOver ==
    \A o \in Objects : pc[o] = "idle" => o \notin running /\ files[o] = spoilt[o]

\* `kubectl create` after the object was reconciled into existence.
CreatedTwice(o) == mode[o] = "create" /\ o \in Rbac

\* A command proper that returns without a fault, another client's change or a
\* missing namespace on its way.
Undisturbed(o) ==
    /\ pc[o] # "idle" /\ pc'[o] = "idle"
    /\ o \notin dry \cup disturbed /\ faults' = faults

\* An undisturbed command does its work, also where it has to change a roleRef or
\* to drop subjects.
UndisturbedIsApplied ==
    [][\A o \in Objects : Undisturbed(o) /\ ~CreatedTwice(o) => InSync(o)']_vars

\* A dry run changes nothing in the cluster, the reconciliation included.
DryRunChangesNothing ==
    [][\A o \in dry : pc'[o] # pc[o] => UNCHANGED <<namespace, cluster>>]_vars

\* The reconciliation makes no namespace, unless one was there when it looked and
\* has been deleted since.
NamespaceIsNotMade ==
    [][\A o \in Objects : ~namespace /\ namespace' /\ pc'[o] # pc[o] => o \in removed]_vars

\* What a command does to the cluster: all that its manifest says, and nothing
\* besides (ApplyResource, ReplaceResource, CreateResource, rbacReconcile).
CommandsAreExact == UndisturbedIsApplied /\ DryRunChangesNothing /\ NamespaceIsNotMade

\* Commands end, although an RBAC command takes a slot twice and there may be
\* fewer slots than commands.
CommandsEnd == \A o \in Objects : []<>(pc[o] = "idle")

\* Whatever was interrupted, between the deletion and the new creation of a
\* binding too, repeated syncs bring the cluster to the manifests.
Converges == CommandsEnd /\ <>[](\A o \in Objects : InSync(o))
=============================================================================
