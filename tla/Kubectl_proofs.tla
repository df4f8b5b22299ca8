---------------------------- MODULE Kubectl_proofs ----------------------------
(***************************************************************************)
(* Proofs about Kubectl, for every set of objects, any number of slots and *)
(* every bound: commands give back what they hold, on whatever path they   *)
(* return, and do to the cluster what their manifests say and no more.     *)
(***************************************************************************)
EXTENDS Kubectl, FiniteSetTheorems, TLAPS

-----------------------------------------------------------------------------
(* Types                                                                    *)

\* What a command holds follows from where it is.
Holding ==
    /\ \A o \in running : pc[o] \in {"check", "reconcile", "recreate", "run"}
    /\ \A o \in Objects : files[o] = spoilt[o] + IF pc[o] \in {"idle", "file"} THEN 0 ELSE 1

HoldInv == KubectlTypeOK /\ IsFiniteSet(running) /\ Holding

\* A plain object's reference is one of Refs.
LEMMA AnyRefType == AnyRef \in Refs
BY KubectlAssumption DEF AnyRef

\* The contents of an object are contents.
LEMMA ContentsType == \A o : Contents(o) \subseteq Content
BY DEF Contents

\* A command that is forgotten keeps no slot; the manifest it leaves, if any, is
\* one that it could not write.
LEMMA ReturnKeeps ==
    ASSUME HoldInv, NEW o \in Objects, Forget(o), running' = running \ {o},
           files' \in [Objects -> Nat], spoilt' \in [Objects -> Nat],
           \A p \in Objects \ {o} : files'[p] = files[p] /\ spoilt'[p] = spoilt[p],
           files'[o] = spoilt'[o],
           cluster' \in [Objects -> Content \cup {None}], namespace' = namespace
    PROVE  HoldInv'
<1> USE DEF HoldInv, KubectlTypeOK
<1>1. IsFiniteSet(running') /\ Cardinality(running') <= Slots
  <2>1. running' \subseteq running
    OBVIOUS
  <2>2. IsFiniteSet(running') /\ Cardinality(running') <= Cardinality(running)
    BY <2>1, FS_Subset
  <2>3. Cardinality(running) \in Nat /\ Cardinality(running') \in Nat
    BY <2>2, FS_CardinalityType
  <2> QED
    BY <2>2, <2>3, KubectlAssumption
<1>2. pc' = [pc EXCEPT ![o] = "idle"] /\ mode' = [mode EXCEPT ![o] = "apply"]
  BY DEF Forget
<1>3. pc'[o] = "idle" /\ \A p \in Objects \ {o} : pc'[p] = pc[p]
  BY <1>2
<1>4. Holding'
  BY <1>3 DEF Holding
<1> QED
  BY <1>1, <1>2, <1>4 DEF Forget

\* A command that returns gives back all that it holds.
LEMMA ReturnsAll ==
    ASSUME HoldInv, NEW o \in Objects, pc[o] # "idle", Return(o),
           cluster' \in [Objects -> Content \cup {None}], namespace' = namespace
    PROVE  HoldInv'
<1> USE DEF HoldInv, KubectlTypeOK
<1>1. files[o] = spoilt[o] + IF pc[o] = "file" THEN 0 ELSE 1
  BY DEF Holding
<1>2. files' = (IF pc[o] = "file" THEN files ELSE [files EXCEPT ![o] = @ - 1])
      /\ spoilt' = spoilt
  BY DEF Return, DeleteFile
<1>3. files' \in [Objects -> Nat] /\ files'[o] = spoilt'[o]
      /\ \A p \in Objects \ {o} : files'[p] = files[p]
  <2>1. files[o] \in Nat /\ spoilt[o] \in Nat
    OBVIOUS
  <2>2. CASE pc[o] = "file"
    BY <1>1, <1>2, <2>1, <2>2
  <2>3. CASE pc[o] # "file"
    <3>1. files[o] = spoilt[o] + 1
      BY <1>1, <2>3
    <3>2. files[o] - 1 = spoilt[o]
      BY <2>1, <3>1
    <3>3. files' = [files EXCEPT ![o] = spoilt[o]]
      BY <1>2, <2>3, <3>2
    <3> QED
      BY <1>2, <2>1, <3>3
  <2> QED
    BY <2>2, <2>3
<1> QED
  BY <1>2, <1>3, ReturnKeeps DEF Return

\* A command that waits for nothing goes on; what it takes it holds from then on.
LEMMA GotoKeeps ==
    ASSUME HoldInv, NEW o \in Objects,
           NEW label \in {"auth", "check", "reconcile", "recreate", "executor", "run"},
           Goto(o, label),
           cluster' \in [Objects -> Content \cup {None}], namespace' \in BOOLEAN,
           files' = IF pc[o] = "file" THEN [files EXCEPT ![o] = @ + 1] ELSE files,
           pc[o] # "idle",
           \/ running' = running /\ (o \in running => label \in {"reconcile", "recreate", "run"})
           \/ running' = running \ {o}
    PROVE  HoldInv'
<1> USE DEF HoldInv, KubectlTypeOK
<1>1. running' \subseteq running
  OBVIOUS
<1>2. IsFiniteSet(running') /\ Cardinality(running') <= Cardinality(running)
  BY <1>1, FS_Subset
<1>3. Cardinality(running) \in Nat /\ Cardinality(running') \in Nat
  BY <1>2, FS_CardinalityType
<1>4. Cardinality(running') <= Slots
  BY <1>2, <1>3, KubectlAssumption
<1>5. pc' = [pc EXCEPT ![o] = label]
  BY DEF Goto
<1>6. \A p \in Objects \ {o} : pc'[p] = pc[p]
  BY <1>5
<1>7. pc'[o] = label
  BY <1>5
<1>8. \A p \in running' : pc'[p] \in {"check", "reconcile", "recreate", "run"}
  BY <1>1, <1>6, <1>7 DEF Holding
<1>9. \A p \in Objects : files'[p] = spoilt'[p] + IF pc'[p] \in {"idle", "file"} THEN 0 ELSE 1
  <2>1. spoilt' = spoilt /\ \A p \in Objects \ {o} : files'[p] = files[p]
    BY DEF Goto
  <2>2. files'[o] = spoilt[o] + 1
    BY DEF Holding
  <2> QED
    BY <2>1, <2>2, <1>6, <1>7 DEF Holding
<1>10. Holding'
  BY <1>8, <1>9 DEF Holding
<1>11. pc' \in [Objects -> {"idle", "file", "auth", "check", "reconcile", "recreate",
                           "executor", "run"}]
  BY <1>5
<1>12. UNCHANGED <<git, replace, mode, dry, spoilt>>
  BY DEF Goto
<1>13. files' \in [Objects -> Nat] /\ running' \subseteq Objects
  BY <1>1
<1> QED
  BY <1>2, <1>4, <1>10, <1>11, <1>12, <1>13

\* Taking a slot when there is one.
LEMMA ProcessKeeps ==
    ASSUME HoldInv, NEW o \in Objects, ProcessKubectlRun(o)
    PROVE  HoldInv'
<1> USE DEF HoldInv, KubectlTypeOK
<1>1. running' = running \cup {o} /\ Cardinality(running) < Slots
  BY DEF ProcessKubectlRun
<1>2. o \notin running
  BY DEF ProcessKubectlRun, Holding
<1>3. IsFiniteSet(running') /\ Cardinality(running') = Cardinality(running) + 1
  BY <1>1, <1>2, FS_AddElement
<1>4. Cardinality(running) \in Nat
  BY FS_CardinalityType
<1>5. Cardinality(running') <= Slots
  BY <1>1, <1>3, <1>4, KubectlAssumption
<1>6. PICK label \in {"run", "reconcile", "check"} : pc' = [pc EXCEPT ![o] = label]
  BY DEF ProcessKubectlRun, Goto
<1>7. pc'[o] = label /\ \A p \in Objects \ {o} : pc'[p] = pc[p]
  BY <1>6
<1>8. pc[o] \notin {"idle", "file"} /\ UNCHANGED <<files, spoilt>>
  BY DEF ProcessKubectlRun, Goto
<1>9. Holding'
  BY <1>1, <1>7, <1>8 DEF Holding
<1> QED
  BY <1>1, <1>3, <1>5, <1>6, <1>9 DEF ProcessKubectlRun, Goto

\* At the start nothing is held.
LEMMA HoldInit == Init => HoldInv
<1> SUFFICES ASSUME Init PROVE HoldInv
  OBVIOUS
<1>1. IsFiniteSet(running) /\ Cardinality(running) = 0
  BY FS_EmptySet DEF Init
<1>2. git \in [Objects -> Content]
  BY AnyRefType DEF Init, Content
<1> QED
  BY <1>1, <1>2, KubectlAssumption DEF Init, HoldInv, KubectlTypeOK, Holding

\* Every step keeps what commands hold in line with where they are.
LEMMA HoldStep == HoldInv /\ [Next]_vars => HoldInv'
<1> SUFFICES ASSUME HoldInv, [Next]_vars PROVE HoldInv'
  OBVIOUS
<1> USE DEF HoldInv, KubectlTypeOK
<1>1. ASSUME NEW o \in Objects, EditGit(o) PROVE HoldInv'
  BY <1>1, ContentsType DEF EditGit, Holding
<1>2. ASSUME NEW o \in Objects, OtherWrites(o) PROVE HoldInv'
  BY <1>2, ContentsType DEF OtherWrites, Holding
<1>3. ASSUME NEW o \in Objects, Fail(o) PROVE HoldInv'
  BY <1>3, ReturnsAll DEF Fail
<1>4. ASSUME NEW o \in Objects, Refused(o), pc[o] # "idle" PROVE HoldInv'
  BY <1>4, ReturnsAll DEF Refused
<1>13. ASSUME NEW o \in Objects, SpoilFile(o) PROVE HoldInv'
  <2>1. pc[o] = "file" /\ files[o] = spoilt[o]
    BY <1>13 DEF SpoilFile, Holding
  <2>2. Forget(o) /\ UNCHANGED <<namespace, cluster, running>>
        /\ files' = [files EXCEPT ![o] = @ + 1] /\ spoilt' = [spoilt EXCEPT ![o] = @ + 1]
    BY <1>13 DEF SpoilFile
  <2>3. running' = running \ {o}
    BY <2>1, <2>2 DEF Holding
  <2>4. /\ files' \in [Objects -> Nat] /\ spoilt' \in [Objects -> Nat]
        /\ files'[o] = spoilt'[o]
        /\ \A p \in Objects \ {o} : files'[p] = files[p] /\ spoilt'[p] = spoilt[p]
    BY <2>1, <2>2
  <2> QED
    BY <2>2, <2>3, <2>4, ReturnKeeps
<1>5. ASSUME NEW o \in Objects, CreateManifestFile(o) PROVE HoldInv'
  <2>1. o \notin running
    BY <1>5 DEF CreateManifestFile, Holding
  <2> QED
    BY <1>5, <2>1, GotoKeeps DEF CreateManifestFile
<1>6. ASSUME NEW o \in Objects, CheckNamespace(o) PROVE HoldInv'
  <2>1. CASE namespace
    BY <1>6, <2>1, GotoKeeps DEF CheckNamespace
  <2>2. CASE ~namespace
    BY <1>6, <2>2, <1>4 DEF CheckNamespace
  <2> QED
    BY <2>1, <2>2
<1>7. ASSUME NEW o \in Objects, Reconcile(o) PROVE HoldInv'
  <2>1. CASE Reconciled(o)
    <3>1. cluster' \in [Objects -> Content \cup {None}] /\ namespace' \in BOOLEAN
      <4>1. CASE cluster[o] \in Content
                 /\ cluster' = [cluster EXCEPT ![o].subjects = @ \cup git[o].subjects]
                 /\ UNCHANGED namespace
        <5>1. [cluster[o] EXCEPT !.subjects = @ \cup git[o].subjects] \in Content
          BY <4>1 DEF Content
        <5>2. cluster' = [cluster EXCEPT ![o] = [cluster[o] EXCEPT !.subjects = @ \cup git[o].subjects]]
          BY <4>1
        <5> QED
          BY <4>1, <5>1, <5>2
      <4>2. CASE CreateWithNamespace(o)
        BY <4>2 DEF CreateWithNamespace
      <4>3. CASE UNCHANGED <<namespace, cluster>>
        BY <4>3
      <4>4. pc'[o] # "recreate" /\ cluster[o] \in Content \cup {None}
        BY <2>1 DEF Reconciled, Goto
      <4>5. [pc EXCEPT ![o] = "recreate"][o] = "recreate"
        OBVIOUS
      <4> QED
        BY <1>7, <4>1, <4>2, <4>3, <4>4, <4>5 DEF Reconcile, Goto
    <3>2. pc[o] = "reconcile"
      BY <1>7 DEF Reconcile
    <3> QED
      BY <2>1, <3>1, <3>2, GotoKeeps DEF Reconciled
  <2>2. CASE cluster' = [cluster EXCEPT ![o] = None] /\ Goto(o, "recreate")
             /\ UNCHANGED <<namespace, files, running>>
    BY <1>7, <2>2, GotoKeeps DEF Reconcile
  <2> QED
    BY <1>7, <2>1, <2>2 DEF Reconcile
<1>8. ASSUME NEW o \in Objects, Recreate(o) PROVE HoldInv'
  <2>1. CASE cluster[o] = None
    <3>1. cluster' \in [Objects -> Content \cup {None}] /\ namespace' \in BOOLEAN
      BY <1>8, <2>1 DEF Recreate, CreateWithNamespace
    <3> QED
      BY <1>8, <2>1, <3>1, GotoKeeps DEF Recreate, Reconciled
  <2>2. CASE cluster[o] # None
    BY <1>8, <2>2, <1>4 DEF Recreate
  <2> QED
    BY <2>1, <2>2
<1>9. ASSUME NEW o \in Objects, Run(o) PROVE HoldInv'
  <2>1. Return(o) /\ namespace' = namespace
    BY <1>9 DEF Run, Refused
  <2>2. cluster' \in [Objects -> Content \cup {None}]
    BY <1>9 DEF Run, Refused
  <2> QED
    BY <1>9, <2>1, <2>2, ReturnsAll DEF Run
<1>10. ASSUME NEW o \in Objects, NEW dryRun \in BOOLEAN, Start(o, dryRun) PROVE HoldInv'
  BY <1>10 DEF Start, Holding
<1>11. CASE DeleteNamespace \/ CreateNamespace
  BY <1>11 DEF DeleteNamespace, CreateNamespace, Holding
<1>12. CASE UNCHANGED vars
  BY <1>12 DEF vars, Holding
<1> QED
  BY <1>1, <1>2, <1>3, <1>5, <1>6, <1>7, <1>8, <1>9, <1>10, <1>11, <1>12, <1>13,
     ProcessKeeps
  DEF Next, Command

\* Every variable has its type, and no more commands run than the caller allows.
THEOREM KubectlTypeCorrect == Spec => []KubectlTypeOK
<1>1. HoldInv => KubectlTypeOK
  BY DEF HoldInv
<1> QED
  BY HoldInit, HoldStep, <1>1, PTL DEF Spec

\* A command that is over has given back its slot, on whatever path it returned,
\* and its manifest stays on disk exactly when it failed while it wrote it
\* (runResourceCommand, createManifestFile).
THEOREM NothingLeftCorrect == Spec => []NothingLeftOver
<1>1. HoldInv => NothingLeftOver
  <2> SUFFICES ASSUME HoldInv, NEW o \in Objects, pc[o] = "idle"
               PROVE  o \notin running /\ files[o] = spoilt[o]
    BY DEF NothingLeftOver
  <2>1. o \notin running
    BY DEF HoldInv, Holding
  <2>2. files[o] = spoilt[o] + 0 /\ spoilt[o] \in Nat
    BY DEF HoldInv, Holding, KubectlTypeOK
  <2> QED
    BY <2>1, <2>2
<1> QED
  BY HoldInit, HoldStep, <1>1, PTL DEF Spec

-----------------------------------------------------------------------------
(* What commands do to the cluster                                          *)

\* Where a command can be, and what it knows of the namespace.
Path ==
    \A o \in Objects :
        /\ o \notin Rbac => pc[o] \notin {"auth", "check", "reconcile", "recreate"}
        /\ pc[o] \in {"check", "recreate"} => o \notin dry
        /\ ~namespace /\ pc[o] \in {"reconcile", "recreate"} => o \in dry \cup removed

\* What its caller saw of an object still holds, or was made true by the
\* reconciliation.
Expected(o) ==
    /\ mode[o] = "create" /\ o \notin Rbac => cluster[o] = None
    /\ mode[o] = "replace" /\ pc[o] # "recreate" => cluster[o] # None
    /\ pc[o] = "recreate" => cluster[o] = None
    /\ o \in Rbac /\ pc[o] \in {"executor", "run"} =>
          cluster[o] # None /\ cluster[o].ref = git[o].ref

\* No other client has come between, so a command finds what it expects.
Foreseen ==
    \A o \in Objects : pc[o] # "idle" /\ o \notin disturbed =>
        namespace /\ (o \notin dry => Expected(o))

CommandInv == HoldInv /\ faults \in Nat /\ Path /\ Foreseen

\* At the start no command is on its way.
LEMMA CommandInit == Init => CommandInv
BY HoldInit, KubectlAssumption DEF Init, CommandInv, Path, Foreseen

\* A command that returns leaves the others what they expect.
LEMMA ReturnForeseen ==
    ASSUME CommandInv, NEW o \in Objects, Forget(o), namespace' = namespace,
           \A p \in Objects \ {o} : cluster'[p] = cluster[p]
    PROVE  Path' /\ Foreseen'
<1> USE DEF CommandInv, HoldInv, KubectlTypeOK
<1>1. /\ pc' = [pc EXCEPT ![o] = "idle"] /\ mode' = [mode EXCEPT ![o] = "apply"]
      /\ dry' = dry \ {o} /\ disturbed' = disturbed \ {o} /\ removed' = removed \ {o}
      /\ git' = git
  BY DEF Forget
<1>2. pc'[o] = "idle"
  BY <1>1
<1>3. \A p \in Objects \ {o} : /\ pc'[p] = pc[p] /\ mode'[p] = mode[p]
                               /\ p \in dry' <=> p \in dry
                               /\ p \in disturbed' <=> p \in disturbed
                               /\ p \in removed' <=> p \in removed
  BY <1>1
<1>4. Path'
  BY <1>2, <1>3 DEF Path
<1>5. Foreseen'
  BY <1>1, <1>2, <1>3 DEF Foreseen, Expected
<1> QED
  BY <1>4, <1>5

\* What a command does to its own object leaves the others what they expect.
LEMMA GotoForeseen ==
    ASSUME CommandInv, NEW o \in Objects, NEW label, Goto(o, label),
           namespace => namespace',
           \A p \in Objects \ {o} : cluster'[p] = cluster[p],
           o \notin Rbac => label \notin {"auth", "check", "reconcile", "recreate"},
           label \in {"check", "recreate"} => o \notin dry,
           ~namespace' /\ label \in {"reconcile", "recreate"} => o \in dry \cup removed,
           o \notin disturbed => namespace' /\ (o \notin dry => Expected(o)')
    PROVE  Path' /\ Foreseen'
<1> USE DEF CommandInv, HoldInv, KubectlTypeOK
<1>1. pc' = [pc EXCEPT ![o] = label] /\ UNCHANGED <<git, mode, dry, disturbed, removed>>
  BY DEF Goto
<1>2. pc'[o] = label /\ \A p \in Objects \ {o} : pc'[p] = pc[p]
  BY <1>1
<1>3. Path'
  BY <1>1, <1>2 DEF Path
<1>4. Foreseen'
  <2> SUFFICES ASSUME NEW p \in Objects, pc'[p] # "idle", p \notin disturbed'
               PROVE  namespace' /\ (p \notin dry' => Expected(p)')
    BY DEF Foreseen
  <2>1. CASE p = o
    BY <2>1, <1>1
  <2>2. CASE p # o
    BY <2>2, <1>1, <1>2 DEF Foreseen, Expected
  <2> QED
    BY <2>1, <2>2
<1> QED
  BY <1>3, <1>4

\* The reconciliation of a binding leaves it with the reference of its manifest.
LEMMA ReconcileForeseen ==
    ASSUME CommandInv, NEW o \in Objects, Reconcile(o)
    PROVE  Path' /\ Foreseen'
<1> USE DEF CommandInv, HoldInv, KubectlTypeOK
<1>1. o \in Rbac /\ pc[o] = "reconcile"
  BY DEF Reconcile, Path
<1>2. CASE o \in dry /\ Reconciled(o) /\ UNCHANGED <<namespace, cluster>>
  <2>1. Goto(o, "executor")
    BY <1>2 DEF Reconciled
  <2>2. o \notin disturbed => namespace'
    BY <1>1, <1>2 DEF Foreseen
  <2>3. dry' = dry
    BY <2>1 DEF Goto
  <2> QED
    BY <1>2, <2>1, <2>2, <2>3, GotoForeseen
<1>3. CASE o \notin dry /\ CreateWithNamespace(o) /\ Reconciled(o)
  <2>1. Goto(o, "executor") /\ git' = git /\ mode' = mode
    BY <1>3 DEF Reconciled, Goto
  <2>2. namespace' /\ cluster' = [cluster EXCEPT ![o] = git[o]]
    BY <1>3 DEF CreateWithNamespace
  <2>3. git[o] # None /\ pc'[o] = "executor"
    BY <2>1, KubectlAssumption DEF Goto
  <2>4. Expected(o)'
    BY <1>1, <2>1, <2>2, <2>3 DEF Expected
  <2>5. \A p \in Objects \ {o} : cluster'[p] = cluster[p]
    BY <2>2
  <2> QED
    BY <2>1, <2>2, <2>4, <2>5, GotoForeseen
<1>4. CASE /\ o \notin dry /\ cluster' = [cluster EXCEPT ![o] = None]
           /\ Goto(o, "recreate") /\ UNCHANGED <<namespace, files, running>>
  <2>1. cluster'[o] = None /\ pc'[o] = "recreate" /\ mode' = mode
    BY <1>4 DEF Goto
  <2>2. Expected(o)'
    BY <1>1, <2>1 DEF Expected
  <2>3. o \notin disturbed => namespace'
    BY <1>1, <1>4 DEF Foreseen
  <2>4. ~namespace' => o \in dry \cup removed
    BY <1>1, <1>4 DEF Path
  <2>5. \A p \in Objects \ {o} : cluster'[p] = cluster[p]
    BY <1>4
  <2> QED
    BY <1>1, <1>4, <2>2, <2>3, <2>4, <2>5, GotoForeseen
<1>5. CASE /\ o \notin dry /\ cluster[o] # None /\ cluster[o].ref = git[o].ref
           /\ cluster' = [cluster EXCEPT ![o].subjects = @ \cup git[o].subjects]
           /\ Reconciled(o) /\ UNCHANGED namespace
  <2>1. Goto(o, "executor") /\ git' = git /\ mode' = mode
    BY <1>5 DEF Reconciled, Goto
  <2>2. cluster[o] \in Content
    BY <1>5
  <2>3. [cluster[o] EXCEPT !.subjects = @ \cup git[o].subjects] \in Content
    BY <2>2 DEF Content
  <2>4. cluster' = [cluster EXCEPT ![o] = [cluster[o] EXCEPT !.subjects = @ \cup git[o].subjects]]
    BY <1>5
  <2>5. cluster'[o] \in Content /\ cluster'[o] = [cluster[o] EXCEPT !.subjects = @ \cup git[o].subjects]
    BY <2>3, <2>4
  <2>6. cluster'[o].ref = cluster[o].ref
    BY <2>2, <2>5 DEF Content
  <2>7. cluster'[o] # None /\ pc'[o] = "executor"
    BY <2>1, <2>5, KubectlAssumption DEF Goto
  <2>8. Expected(o)'
    BY <1>1, <1>5, <2>1, <2>6, <2>7 DEF Expected
  <2>9. o \notin disturbed => namespace'
    BY <1>1, <1>5 DEF Foreseen
  <2>10. \A p \in Objects \ {o} : cluster'[p] = cluster[p]
    BY <2>4
  <2> QED
    BY <1>5, <2>1, <2>8, <2>9, <2>10, GotoForeseen
<1> QED
  BY <1>2, <1>3, <1>4, <1>5 DEF Reconcile

\* The faults are counted.
LEMMA FaultsStep == faults \in Nat /\ [Next]_vars => faults' \in Nat
BY DEF Next, vars, EditGit, OtherWrites, Fail, SpoilFile, Fault, Command, Start, CreateManifestFile,
       ProcessKubectlRun, CheckNamespace, Reconcile, Recreate, Run, Reconciled, Refused, Goto,
       DeleteNamespace, CreateNamespace

\* Every step leaves the commands what they expect.
LEMMA CommandStep == CommandInv /\ [Next]_vars => CommandInv'
<1> SUFFICES ASSUME CommandInv, [Next]_vars PROVE Path' /\ Foreseen'
  BY HoldStep, FaultsStep DEF CommandInv
<1> USE DEF CommandInv, HoldInv, KubectlTypeOK
<1>1. ASSUME NEW o \in Objects, EditGit(o) PROVE Path' /\ Foreseen'
  BY <1>1 DEF EditGit, Quiet, Path, Foreseen
<1>2. ASSUME NEW o \in Objects, OtherWrites(o) PROVE Path' /\ Foreseen'
  <2>1. \A p \in Objects \ {o} : cluster'[p] = cluster[p]
    BY <1>2 DEF OtherWrites
  <2>2. /\ UNCHANGED <<namespace, pc, mode, dry, git, removed>>
        /\ pc[o] # "idle" => o \in disturbed'
        /\ disturbed \subseteq disturbed'
    BY <1>2 DEF OtherWrites
  <2> QED
    BY <2>1, <2>2 DEF Path, Foreseen, Expected
<1>3. ASSUME NEW o \in Objects, Fail(o) PROVE Path' /\ Foreseen'
  BY <1>3, ReturnForeseen DEF Fail, Return
<1>4. ASSUME NEW o \in Objects, Refused(o) PROVE Path' /\ Foreseen'
  BY <1>4, ReturnForeseen DEF Refused, Return
<1>14. ASSUME NEW o \in Objects, SpoilFile(o) PROVE Path' /\ Foreseen'
  BY <1>14, ReturnForeseen DEF SpoilFile
<1>5. ASSUME NEW o \in Objects, CreateManifestFile(o) PROVE Path' /\ Foreseen'
  <2> DEFINE label == IF o \in Rbac THEN "auth" ELSE "executor"
  <2>1. /\ pc[o] = "file" /\ UNCHANGED <<namespace, cluster>>
        /\ pc' = [pc EXCEPT ![o] = label] /\ UNCHANGED <<git, mode, dry, disturbed>>
    BY <1>5 DEF CreateManifestFile, IsReconciled, Goto
  <2>2. o \notin disturbed => namespace' /\ (o \notin dry => Expected(o)')
    BY <2>1 DEF Foreseen, Expected
  <2>3. Goto(o, label)
    BY <1>5 DEF CreateManifestFile, IsReconciled
  <2> QED
    BY <2>1, <2>2, <2>3, GotoForeseen
<1>6. ASSUME NEW o \in Objects, ProcessKubectlRun(o) PROVE Path' /\ Foreseen'
  <2> DEFINE label == IF pc[o] = "executor" THEN "run"
                      ELSE IF o \in dry THEN "reconcile" ELSE "check"
  <2>1. /\ pc[o] \in {"auth", "executor"} /\ UNCHANGED <<namespace, cluster>>
        /\ pc' = [pc EXCEPT ![o] = label] /\ UNCHANGED <<git, mode, dry, disturbed>>
    BY <1>6 DEF ProcessKubectlRun, Goto
  <2>2. o \notin disturbed => namespace' /\ (o \notin dry => Expected(o)')
    BY <2>1 DEF Foreseen, Expected
  <2>3. Goto(o, label)
    BY <1>6 DEF ProcessKubectlRun
  <2>4. o \notin Rbac => label \notin {"auth", "check", "reconcile", "recreate"}
    BY <2>1 DEF Path
  <2> QED
    BY <2>1, <2>2, <2>3, <2>4, GotoForeseen
<1>7. ASSUME NEW o \in Objects, CheckNamespace(o) PROVE Path' /\ Foreseen'
  <2>1. CASE namespace
    <3>1. /\ pc[o] = "check" /\ Goto(o, "reconcile") /\ UNCHANGED <<namespace, cluster>>
          /\ pc'[o] = "reconcile" /\ UNCHANGED <<git, mode, dry, disturbed>>
      BY <1>7, <2>1 DEF CheckNamespace, Goto
    <3>2. o \notin disturbed => namespace' /\ (o \notin dry => Expected(o)')
      BY <3>1 DEF Foreseen, Expected
    <3>3. o \in Rbac
      BY <3>1 DEF Path
    <3> QED
      BY <2>1, <3>1, <3>2, <3>3, GotoForeseen
  <2>2. CASE ~namespace
    BY <1>4, <1>7, <2>2 DEF CheckNamespace
  <2> QED
    BY <2>1, <2>2
<1>8. ASSUME NEW o \in Objects, Recreate(o) PROVE Path' /\ Foreseen'
  <2>1. CASE cluster[o] = None
    <3>1. Goto(o, "executor") /\ git' = git /\ mode' = mode /\ pc'[o] = "executor"
      BY <1>8, <2>1 DEF Recreate, Reconciled, Goto
    <3>2. namespace' /\ cluster' = [cluster EXCEPT ![o] = git[o]]
      BY <1>8, <2>1 DEF Recreate, CreateWithNamespace
    <3>3. o \in Rbac /\ git[o] # None
      BY <1>8, KubectlAssumption DEF Recreate, Path
    <3>4. Expected(o)'
      BY <3>1, <3>2, <3>3 DEF Expected
    <3>5. \A p \in Objects \ {o} : cluster'[p] = cluster[p]
      BY <3>2
    <3> QED
      BY <3>1, <3>2, <3>4, <3>5, GotoForeseen
  <2>2. CASE cluster[o] # None
    BY <1>4, <1>8, <2>2 DEF Recreate
  <2> QED
    BY <2>1, <2>2
<1>9. ASSUME NEW o \in Objects, Run(o) PROVE Path' /\ Foreseen'
  <2>1. Return(o) /\ namespace' = namespace
        /\ \A p \in Objects \ {o} : cluster'[p] = cluster[p]
    BY <1>9 DEF Run, Refused
  <2> QED
    BY <2>1, ReturnForeseen DEF Return
<1>10. ASSUME NEW o \in Objects, NEW dryRun \in BOOLEAN, Start(o, dryRun)
       PROVE  Path' /\ Foreseen'
  <2>1. /\ pc' = [pc EXCEPT ![o] = "file"]
        /\ UNCHANGED <<namespace, cluster, git, removed>>
        /\ mode' = [mode EXCEPT ![o] = IF ~replace THEN "apply"
                                       ELSE IF cluster[o] = None THEN "create" ELSE "replace"]
        /\ ~namespace => o \in disturbed'
        /\ disturbed \subseteq disturbed'
        /\ \A p \in Objects \ {o} : p \in dry' <=> p \in dry
    BY <1>10 DEF Start
  <2>2. pc'[o] = "file" /\ \A p \in Objects \ {o} : pc'[p] = pc[p] /\ mode'[p] = mode[p]
    BY <2>1
  <2>3. Path'
    BY <2>1, <2>2 DEF Path
  <2>4. Expected(o)'
    BY <2>1, <2>2 DEF Expected
  <2>5. Foreseen'
    BY <2>1, <2>2, <2>4 DEF Foreseen, Expected
  <2> QED
    BY <2>3, <2>5
<1>11. CASE DeleteNamespace
  BY <1>11 DEF DeleteNamespace, Path, Foreseen
<1>12. CASE CreateNamespace
  BY <1>12 DEF CreateNamespace, Path, Foreseen, Expected
<1>13. CASE UNCHANGED vars
  BY <1>13 DEF vars, Path, Foreseen, Expected
<1> QED
  BY <1>1, <1>2, <1>3, <1>5, <1>6, <1>7, <1>8, <1>9, <1>10, <1>11, <1>12, <1>13,
     <1>14, ReconcileForeseen
  DEF Next, Command

\* A command goes on by steps of its own.
LEMMA OwnStep ==
    ASSUME CommandInv, [Next]_vars, NEW o \in Objects, pc'[o] # pc[o]
    PROVE  Fail(o) \/ SpoilFile(o) \/ Command(o) \/ \E dryRun \in BOOLEAN : Start(o, dryRun)
<1> USE DEF CommandInv, HoldInv, KubectlTypeOK
<1>1. ASSUME NEW p \in Objects, NEW label, pc' = [pc EXCEPT ![p] = label] PROVE p = o
  BY <1>1
<1>2. ASSUME NEW p \in Objects, EditGit(p) \/ OtherWrites(p) PROVE FALSE
  BY <1>2 DEF EditGit, OtherWrites
<1>3. ASSUME NEW p \in Objects, Fail(p) \/ SpoilFile(p) PROVE p = o
  BY <1>1, <1>3 DEF Fail, SpoilFile, Return, Forget
<1>4. ASSUME NEW p \in Objects, Command(p) PROVE p = o
  <2>1. ASSUME NEW label, Goto(p, label) PROVE p = o
    BY <1>1, <2>1 DEF Goto
  <2>2. ASSUME Return(p) PROVE p = o
    BY <1>1, <2>2 DEF Return, Forget
  <2>3. (\E label : Goto(p, label)) \/ Return(p)
    BY <1>4 DEF Command, CreateManifestFile, ProcessKubectlRun, CheckNamespace, Reconcile,
                Recreate, Run, Reconciled, Refused
  <2> QED
    BY <2>1, <2>2, <2>3
<1>5. ASSUME NEW p \in Objects, NEW dryRun \in BOOLEAN, Start(p, dryRun) PROVE p = o
  BY <1>1, <1>5 DEF Start
<1>6. ~ (DeleteNamespace \/ CreateNamespace \/ UNCHANGED vars)
  BY DEF DeleteNamespace, CreateNamespace, vars
<1> QED
  BY <1>2, <1>3, <1>4, <1>5, <1>6 DEF Next

\* An undisturbed command returns from Run only, and Run is accepted.
LEMMA AppliedStep ==
    ASSUME CommandInv, [Next]_vars, NEW o \in Objects, Undisturbed(o), ~CreatedTwice(o)
    PROVE  InSync(o)'
<1> USE DEF CommandInv, HoldInv, KubectlTypeOK
<1>1. /\ pc[o] # "idle" /\ pc'[o] = "idle" /\ faults' = faults
      /\ namespace /\ o \notin dry /\ Expected(o)
  BY DEF Undisturbed, Foreseen
<1>2. Fail(o) \/ SpoilFile(o) \/ Command(o)
  BY <1>1, OwnStep DEF Start
<1>3. ~Fail(o) /\ ~SpoilFile(o)
  <2>1. Fail(o) \/ SpoilFile(o) => faults' = faults + 1
    BY DEF Fail, SpoilFile, Fault
  <2>2. faults \in Nat
    OBVIOUS
  <2>3. faults # faults + 1
    BY ONLY <2>2
  <2> QED
    BY <1>1, <2>1, <2>3
<1>4. ASSUME NEW label \in {"auth", "check", "reconcile", "recreate", "executor", "run"}
      PROVE  ~Goto(o, label)
  BY <1>1 DEF Goto
<1>5. Run(o)
  <2>1. ~CreateManifestFile(o) /\ ~ProcessKubectlRun(o)
    BY <1>4 DEF CreateManifestFile, ProcessKubectlRun
  <2>2. ~CheckNamespace(o)
    BY <1>1, <1>4 DEF CheckNamespace
  <2>3. ~Reconcile(o)
    BY <1>4 DEF Reconcile, Reconciled
  <2>4. ~Recreate(o)
    BY <1>1, <1>4 DEF Recreate, Reconciled, Expected
  <2> QED
    BY <1>2, <1>3, <2>1, <2>2, <2>3, <2>4 DEF Command
<1>6. Accepted(o)
  <2>1. pc[o] = "run" /\ mode[o] \in {"apply", "create", "replace"}
    BY <1>5 DEF Run
  <2>2. Kept(o)
    BY <1>1, <2>1 DEF Kept, Expected
  <2>3. mode[o] = "create" => cluster[o] = None
    BY <1>1 DEF Expected, CreatedTwice
  <2>4. mode[o] = "replace" => cluster[o] # None
    BY <1>1, <2>1 DEF Expected
  <2> QED
    BY <1>1, <2>1, <2>2, <2>3, <2>4 DEF Accepted
<1>7. cluster' = [cluster EXCEPT ![o] = git[o]] /\ git' = git
  BY <1>1, <1>5, <1>6 DEF Run, Return, Forget
<1> QED
  BY <1>7 DEF InSync

\* No step of a dry run changes the cluster.
LEMMA DryRunStep ==
    ASSUME CommandInv, [Next]_vars, NEW o \in dry, pc'[o] # pc[o]
    PROVE  UNCHANGED <<namespace, cluster>>
<1> USE DEF CommandInv, HoldInv, KubectlTypeOK
<1>1. o \in Objects
  OBVIOUS
<1>2. CASE Fail(o) \/ SpoilFile(o) \/ \E dryRun \in BOOLEAN : Start(o, dryRun)
  BY <1>2 DEF Fail, SpoilFile, Start
<1>3. CASE Command(o)
  <2>1. pc[o] \notin {"check", "recreate"}
    BY <1>1 DEF Path
  <2> QED
    BY <1>3, <2>1 DEF Command, CreateManifestFile, ProcessKubectlRun, CheckNamespace,
                      Reconcile, Recreate, Run, Refused
<1> QED
  BY <1>1, <1>2, <1>3, OwnStep

\* A command that makes the namespace has seen it.
LEMMA NamespaceStep ==
    ASSUME CommandInv, [Next]_vars, NEW o \in Objects, ~namespace, namespace', pc'[o] # pc[o]
    PROVE  o \in removed
<1> USE DEF CommandInv, HoldInv, KubectlTypeOK
<1>1. ~ (Fail(o) \/ SpoilFile(o) \/ \E dryRun \in BOOLEAN : Start(o, dryRun))
  BY DEF Fail, SpoilFile, Start
<1>2. Reconcile(o) \/ Recreate(o)
  BY <1>1, OwnStep DEF Command, CreateManifestFile, ProcessKubectlRun, CheckNamespace, Run,
                       Refused
<1>3. CASE Reconcile(o)
  BY <1>3 DEF Reconcile, Path
<1>4. CASE Recreate(o)
  BY <1>4 DEF Recreate, Path
<1> QED
  BY <1>2, <1>3, <1>4

\* A command that nobody disturbs leaves its object as the manifest says, a dry
\* run changes nothing, and the reconciliation makes no namespace that it has not
\* seen (ApplyResource, ReplaceResource, CreateResource, rbacReconcile).
THEOREM CommandsCorrect == Spec => CommandsAreExact
<1>1. CommandInv /\ [Next]_vars =>
        [\A o \in Objects : Undisturbed(o) /\ ~CreatedTwice(o) => InSync(o)']_vars
  BY AppliedStep
<1>2. CommandInv /\ [Next]_vars =>
        [\A o \in dry : pc'[o] # pc[o] => UNCHANGED <<namespace, cluster>>]_vars
  BY DryRunStep
<1>3. CommandInv /\ [Next]_vars =>
        [\A o \in Objects : ~namespace /\ namespace' /\ pc'[o] # pc[o] => o \in removed]_vars
  BY NamespaceStep
<1> QED
  BY CommandInit, CommandStep, <1>1, <1>2, <1>3, PTL
  DEF Spec, CommandsAreExact, UndisturbedIsApplied, DryRunChangesNothing, NamespaceIsNotMade
=============================================================================
