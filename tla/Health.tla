------------------------------- MODULE Health -------------------------------
(***************************************************************************)
(* The health of a resource (pkg/health), read at any moment of its life.  *)
(*                                                                         *)
(* A workload has a specification that the user changes, a controller that *)
(* sees the change later, rolls pods and writes a status for what it has   *)
(* seen; a Pod has containers; a Job runs, is suspended and resumed; other *)
(* kinds are provisioned, run or scaled by somebody.  The assessment only  *)
(* sees specification and status.  All controllers are external.           *)
(***************************************************************************)
EXTENDS Integers, FiniteSets, Sequences

CONSTANTS
    Kinds,          \* the kinds to look at
    MaxReplicas, MaxFaults, \* bounds on replicas and crashes
    MaxEdits,       \* ... and, by kind, on the changes a user makes
    Containers,     \* the containers of a Pod
    None

Workloads == {"Deployment", "ReplicaSet", "DaemonSet", "StatefulSet"}

Provisioned == {"PersistentVolumeClaim", "Service", "Ingress", "APIService", "Workflow"}

ASSUME HealthAssumption ==
    /\ Kinds \subseteq Workloads \cup Provisioned
                        \cup {"Pod", "Job", "HorizontalPodAutoscaler"}
    /\ MaxReplicas \in Nat \ {0} /\ MaxEdits \in [Kinds -> Nat] /\ MaxFaults \in Nat
    /\ IsFiniteSet(Containers) /\ Containers # {}

\* A pod of a workload per slot: an ordinal, a node, or any place; one more than
\* the replicas for the surge of a rollout.
Slots == 1..(MaxReplicas + 1)
Replicas == 1..MaxReplicas

VARIABLES
    kind,
    spec,       \* a workload's specification, a Pod's restart policy, a Job's
                \* suspend, a Service's type
    seen,       \* the specification the controller of a workload has seen
    pods,       \* the pods of a workload
    status,     \* what the controller has written
    containers, ready,   \* of a Pod
    conditions, \* of a Job
    deleting, finalizer, \* the deletion timestamp and the hook finalizer
    edits, faults,
    podsAt      \* history: the pods when the status was written

workload == <<seen, pods, status, podsAt>>
pod == <<containers, ready>>
counters == <<edits, faults>>
vars == <<kind, spec, workload, pod, conditions, deleting, finalizer, counters>>

-----------------------------------------------------------------------------
(* A Pod's phase, as the kubelet derives it from the containers               *)

Phase ==
    LET In(states) == {c \in Containers : containers[c].state \in states}
        stopped == In({"ok", "failed"}) \cup {c \in In({"waiting", "error"}) : containers[c].last}
    IN IF In({"waiting", "error"}) \ stopped # {} THEN "Pending"
       ELSE IF In({"running"}) # {} \/ spec.policy = "Always" THEN "Running"
       ELSE IF stopped = In({"ok"}) THEN "Succeeded"
       ELSE IF spec.policy = "Never" THEN "Failed" ELSE "Running"

-----------------------------------------------------------------------------
(* The assessment                                                           *)

FaultyDeploymentHealth ==
    IF spec.paused THEN "Suspended"
    ELSE IF status.stuck THEN "Degraded"
    ELSE IF \/ status.updated < spec.replicas \/ status.total > status.updated
            \/ status.available < status.updated THEN "Progressing"
    ELSE "Healthy"

DeploymentHealth ==
    IF spec.paused THEN "Suspended"
    ELSE IF spec.generation > status.observed THEN "Progressing"
    ELSE IF status.stuck THEN "Degraded"
    ELSE IF \/ status.updated < spec.replicas \/ status.total > status.updated
            \/ status.available < status.updated THEN "Progressing"
    ELSE "Healthy"

ReplicaSetHealth ==
    IF spec.generation > status.observed THEN "Progressing"
    ELSE IF status.stuck THEN "Degraded"
    ELSE IF status.available < spec.replicas THEN "Progressing"
    ELSE "Healthy"

DaemonSetHealth ==
    IF spec.generation > status.observed THEN "Progressing"
    ELSE IF spec.strategy = "OnDelete" THEN "Healthy"
    ELSE IF status.updated < status.desired \/ status.available < status.desired THEN "Progressing"
    ELSE "Healthy"

\* The API server gives a rolling update its partition, 0 by default, so that
\* the comparison of revisions that follows in the code is never reached.  With
\* minReadySeconds 0 the pods that are available are those that are ready.
StatefulSetHealth ==
    IF status.observed = 0 \/ spec.generation > status.observed THEN "Progressing"
    ELSE IF status.available < spec.replicas THEN "Progressing"
    ELSE IF /\ spec.strategy = "RollingUpdate"
            /\ status.updated < spec.replicas - spec.partition THEN "Progressing"
    ELSE "Healthy"

\* A waiting container with an error only makes a Pod degraded that restarts
\* forever; one that runs to its end may be a hook and still start.
FaultyPodPolicy ==
    IF \E c \in Containers : containers[c].state = "error" THEN "Degraded"
    ELSE IF Phase = "Failed" THEN "Degraded"
    ELSE IF Phase = "Succeeded" \/ ready THEN "Healthy" ELSE "Progressing"

PodHealth ==
    LET failing == \E c \in Containers : containers[c].state = "error"
        terminated == \E c \in Containers : containers[c].last
    IN IF spec.policy = "Always" /\ failing THEN "Degraded"
       ELSE CASE Phase = "Pending" -> "Progressing"
              [] Phase = "Succeeded" -> "Healthy"
              [] Phase = "Failed" -> "Degraded"
              [] Phase = "Running" ->
                   IF spec.policy # "Always" THEN "Progressing"
                   ELSE IF ready THEN "Healthy"
                   ELSE IF terminated THEN "Degraded" ELSE "Progressing"

\* Any condition of the three types counts as complete, whatever its status.
JobHealth ==
    LET types == {c.type : c \in conditions}
    IN IF types = {} THEN "Progressing"
       ELSE IF "Failed" \in types THEN "Degraded"
       ELSE IF [type |-> "Suspended", status |-> TRUE] \in conditions THEN "Suspended"
       ELSE "Healthy"

PVCHealth ==
    CASE status.phase = "Lost" -> "Degraded"
      [] status.phase = "Pending" -> "Progressing"
      [] status.phase = "Bound" -> "Healthy"
      [] OTHER -> "Unknown"

\* Only a load balancer has something to wait for.
IngressHealth == IF status.ingress THEN "Healthy" ELSE "Progressing"
ServiceHealth == IF spec.type = "LoadBalancer" THEN IngressHealth ELSE "Healthy"

\* No condition yet, or one that is false.
APIServiceHealth == IF status.available THEN "Healthy" ELSE "Progressing"

WorkflowHealth ==
    CASE status.phase \in {"", "Pending", "Running"} -> "Progressing"
      [] status.phase = "Succeeded" -> "Healthy"
      [] status.phase \in {"Failed", "Error"} -> "Degraded"
      [] OTHER -> "Unknown"

IsDegraded(c) == <<c.type, c.reason>> \in
    {<<"AbleToScale", "FailedGetScale">>, <<"AbleToScale", "FailedUpdateScale">>,
     <<"ScalingActive", "FailedGetResourceMetric">>, <<"ScalingActive", "InvalidSelector">>}
IsHealthy(c) == c.type \in {"AbleToScale", "ScalingLimited"} /\ c.status

\* checkConditions: the first condition that says something decides.
HPAHealth ==
    LET Says(i) == IsDegraded(status.conditions[i]) \/ IsHealthy(status.conditions[i])
        first == {i \in DOMAIN status.conditions : Says(i) /\ \A j \in 1..(i - 1) : ~Says(j)}
    IN IF first = {} THEN "Progressing"
       ELSE IF \E i \in first : IsDegraded(status.conditions[i]) THEN "Degraded" ELSE "Healthy"

Assessed ==
    CASE kind = "Deployment" -> DeploymentHealth
      [] kind = "ReplicaSet" -> ReplicaSetHealth
      [] kind = "DaemonSet" -> DaemonSetHealth
      [] kind = "StatefulSet" -> StatefulSetHealth
      [] kind = "Pod" -> PodHealth
      [] kind = "Job" -> JobHealth
      [] kind = "PersistentVolumeClaim" -> PVCHealth
      [] kind = "Service" -> ServiceHealth
      [] kind = "Ingress" -> IngressHealth
      [] kind = "APIService" -> APIServiceHealth
      [] kind = "Workflow" -> WorkflowHealth
      [] kind = "HorizontalPodAutoscaler" -> HPAHealth

GetResourceHealth == IF deleting /\ ~finalizer THEN "Progressing" ELSE Assessed

-----------------------------------------------------------------------------
(* Workloads: the user, the controller and the nodes                        *)

IsWorkload == kind \in Workloads

\* The replicas of a DaemonSet are the nodes.
EditSpec ==
    /\ IsWorkload /\ edits < MaxEdits[kind] /\ edits' = edits + 1
    /\ \E r \in Replicas, new \in 0..1, paused \in BOOLEAN, part \in 0..1 :
         /\ paused => kind = "Deployment"
         /\ part > 0 => kind = "StatefulSet"
         /\ r # spec.replicas => kind # "DaemonSet"
         /\ spec' = [spec EXCEPT !.generation = @ + 1, !.replicas = r, !.revision = @ + new,
                                 !.paused = paused, !.partition = part]
    /\ UNCHANGED <<kind, workload, pod, conditions, deleting, finalizer, faults>>

unlessPods == <<kind, spec, seen, status, podsAt, pod, conditions, deleting, finalizer, edits>>

Taken == {s \in Slots : pods[s] # None}
New == {s \in Taken : pods[s].revision = seen.revision}
Places == IF kind \in {"Deployment", "ReplicaSet"} THEN Slots ELSE 1..seen.replicas

\* A StatefulSet keeps the pods below the partition at the current revision.
Kept(s) ==
    \/ kind = "ReplicaSet" \/ seen.strategy = "OnDelete"
    \/ kind = "StatefulSet" /\ s <= seen.partition

CreatePod ==
    /\ IsWorkload /\ ~seen.paused /\ seen.generation > 0
    /\ \E s \in Places \ Taken :
         /\ \A t \in 1..(s - 1) : t \in Taken /\ (kind = "StatefulSet" => pods[t].available)
         /\ kind = "Deployment" => /\ Cardinality(New) < seen.replicas
                                   /\ Cardinality(Taken) <= seen.replicas
         /\ kind = "ReplicaSet" => Cardinality(Taken) < seen.replicas
         /\ pods' = [pods EXCEPT ![s] =
                       [revision |-> IF kind = "StatefulSet" /\ s <= seen.partition
                                     THEN status.current ELSE seen.revision,
                        available |-> FALSE]]
    /\ UNCHANGED <<unlessPods, faults>>

\* Old pods go and pods that are too many; those of a StatefulSet from the last
\* ordinal down, the superfluous ones first.
DeletePod ==
    /\ IsWorkload /\ ~seen.paused
    /\ \E s \in Taken :
         /\ \/ /\ s \notin New /\ ~Kept(s)
               /\ kind = "StatefulSet" =>
                    \A t \in Taken : t > s => t \in New /\ t <= seen.replicas
            \/ s \notin Places
            \/ kind = "Deployment" /\ Cardinality(New) > seen.replicas
            \/ kind = "ReplicaSet" /\ Cardinality(Taken) > seen.replicas
         /\ pods' = [pods EXCEPT ![s] = None]
    /\ UNCHANGED <<unlessPods, faults>>

PodAvailable ==
    /\ \E s \in Taken : ~pods[s].available /\ pods' = [pods EXCEPT ![s].available = TRUE]
    /\ UNCHANGED <<unlessPods, faults>>

PodUnavailable ==
    /\ faults < MaxFaults /\ faults' = faults + 1
    /\ \E s \in Taken : pods[s].available /\ pods' = [pods EXCEPT ![s].available = FALSE]
    /\ UNCHANGED unlessPods

Observe ==
    /\ IsWorkload /\ seen # spec /\ seen' = spec
    /\ UNCHANGED <<kind, spec, pods, status, podsAt, pod, conditions, deleting, finalizer,
                   counters>>

\* The status counts the pods there are.  An incomplete rollout may be stuck: its
\* deadline has passed, or pods cannot be created.
Counted(stuck) ==
    LET available == {s \in Taken : pods[s].available}
        done == New = Taken /\ available = Taken /\ Cardinality(New) = seen.replicas
    IN [observed |-> seen.generation, desired |-> seen.replicas,
        total |-> Cardinality(Taken), updated |-> Cardinality(New),
        available |-> Cardinality(available),
        stuck |-> stuck /\ ~done,
        current |-> IF done THEN seen.revision ELSE status.current]

WriteStatus ==
    /\ IsWorkload /\ seen.generation > 0
    /\ \E stuck \in {FALSE} \cup {faults < MaxFaults} : status' = Counted(stuck)
    /\ faults' = IF status'.stuck THEN faults + 1 ELSE faults
    /\ podsAt' = pods
    /\ UNCHANGED <<kind, spec, seen, pods, pod, conditions, deleting, finalizer, edits>>

-----------------------------------------------------------------------------
(* Pods and Jobs                                                            *)

unlessPod == <<kind, spec, workload, conditions, deleting, finalizer, edits>>

Becomes(c, from, to) ==
    /\ containers[c].state \in from
    /\ containers' = [containers EXCEPT ![c] =
                         [state |-> to, last |-> @.last \/ @.state \in {"ok", "failed"}]]

\* An image that cannot be pulled, a crash loop.
ContainerError ==
    /\ faults < MaxFaults /\ faults' = faults + 1
    /\ kind = "Pod" /\ \E c \in Containers : Becomes(c, {"waiting"}, "error")
    /\ UNCHANGED <<ready, unlessPod>>

ContainerStarts ==
    /\ kind = "Pod" /\ \E c \in Containers : Becomes(c, {"waiting", "error"}, "running")
    /\ UNCHANGED <<ready, faults, unlessPod>>

ContainerFails ==
    /\ faults < MaxFaults /\ faults' = faults + 1
    /\ kind = "Pod" /\ \E c \in Containers : Becomes(c, {"running"}, "failed")
    /\ ready' = FALSE
    /\ UNCHANGED unlessPod

\* What is to run for good does not end by itself.
ContainerEnds ==
    /\ kind = "Pod" /\ spec.policy # "Always"
    /\ \E c \in Containers : Becomes(c, {"running"}, "ok")
    /\ ready' = FALSE
    /\ UNCHANGED <<faults, unlessPod>>

ContainerRestarts ==
    /\ kind = "Pod" /\ spec.policy # "Never"
    /\ \E c \in Containers : Becomes(c, {"failed"}, "waiting")
    /\ UNCHANGED <<ready, faults, unlessPod>>

PodReady ==
    /\ kind = "Pod" /\ ~ready /\ ready' = TRUE
    /\ \A c \in Containers : containers[c].state = "running"
    /\ UNCHANGED <<containers, faults, unlessPod>>

unlessJob == <<kind, workload, pod, deleting, finalizer, faults>>

Finished == \E c \in conditions : c.type \in {"Complete", "Failed"}

\* The condition of a resumed Job stays, with status False.
SuspendJob ==
    /\ kind = "Job" /\ ~Finished /\ edits < MaxEdits[kind] /\ edits' = edits + 1
    /\ spec' = [spec EXCEPT !.suspend = ~@]
    /\ conditions' = {c \in conditions : c.type # "Suspended"}
                     \cup {[type |-> "Suspended", status |-> spec'.suspend]}
    /\ UNCHANGED unlessJob

FinishJob ==
    /\ kind = "Job" /\ ~Finished /\ ~spec.suspend
    /\ \E type \in {"Complete", "Failed"} :
         conditions' = conditions \cup {[type |-> type, status |-> TRUE]}
    /\ UNCHANGED <<spec, edits, unlessJob>>

-----------------------------------------------------------------------------
(* What is provisioned, run or scaled by somebody                           *)

unlessStatus == <<kind, spec, seen, pods, podsAt, pod, conditions, deleting, finalizer, edits>>

Steps(phase) ==
    CASE phase = "" -> {"Pending"}
      [] phase = "Pending" -> IF kind = "Workflow" THEN {"Running"} ELSE {"Bound"}
      [] phase = "Running" -> {"Succeeded", "Failed", "Error"}
      [] OTHER -> {}

\* A volume is bound, an address given, an API served, a workflow runs.
Proceed ==
    /\ \/ /\ kind \in {"PersistentVolumeClaim", "Workflow"}
          /\ \E phase \in Steps(status.phase) : status' = [status EXCEPT !.phase = phase]
       \/ /\ kind \in {"Service", "Ingress"} /\ ~status.ingress
          /\ status' = [status EXCEPT !.ingress = TRUE]
       \/ /\ kind = "APIService" /\ ~status.available
          /\ status' = [status EXCEPT !.available = TRUE]
    /\ UNCHANGED <<faults, unlessStatus>>

\* A volume is lost, an API no longer served.
Break ==
    /\ faults < MaxFaults /\ faults' = faults + 1
    /\ \/ kind = "PersistentVolumeClaim" /\ status' = [status EXCEPT !.phase = "Lost"]
       \/ kind = "APIService" /\ status' = [status EXCEPT !.available = FALSE]
    /\ UNCHANGED unlessStatus

Condition(type, ok, reason) == [type |-> type, status |-> ok, reason |-> reason]

\* A condition that is there is replaced in its place, a new one is the last.
SetCondition(list, c) ==
    IF \E i \in DOMAIN list : list[i].type = c.type
    THEN [i \in DOMAIN list |-> IF list[i].type = c.type THEN c ELSE list[i]]
    ELSE Append(list, c)

AbleToScale(list, ok, reason) == SetCondition(list, Condition("AbleToScale", ok, reason))

\* A pass of the autoscaler: the scale is read, the metrics, the scale written.
Autoscale ==
    /\ kind = "HorizontalPodAutoscaler"
    /\ \E result \in {"ok"} \cup IF faults = MaxFaults THEN {}
                       ELSE {"FailedGetScale", "FailedGetResourceMetric", "InvalidSelector",
                             "FailedUpdateScale"}, limited \in BOOLEAN :
         LET got == AbleToScale(status.conditions, TRUE, "SucceededGetScale")
             measured == SetCondition(got, Condition("ScalingActive", TRUE, "ValidMetricFound"))
             scaled == SetCondition(AbleToScale(measured, TRUE, "ReadyForNewScale"),
                                    Condition("ScalingLimited", limited, "DesiredReplicas"))
         IN /\ status' = [last |-> result, conditions |->
                 CASE result = "ok" -> scaled
                   [] result = "FailedGetScale" -> AbleToScale(status.conditions, FALSE, result)
                   [] result = "FailedUpdateScale" -> AbleToScale(scaled, FALSE, result)
                   [] OTHER -> SetCondition(got, Condition("ScalingActive", FALSE, result))]
            /\ faults' = IF result = "ok" THEN faults ELSE faults + 1
    /\ UNCHANGED unlessStatus

Delete ==
    /\ kind \in {"Pod", "Job", "Workflow"} /\ ~deleting /\ deleting' = TRUE
    /\ UNCHANGED <<kind, spec, workload, pod, conditions, finalizer, counters>>

Controller == CreatePod \/ DeletePod \/ PodAvailable \/ Observe
Kubelet == ContainerStarts \/ ContainerEnds \/ ContainerRestarts \/ PodReady

Next == EditSpec \/ Controller \/ PodUnavailable \/ WriteStatus
        \/ Kubelet \/ ContainerError \/ ContainerFails
        \/ SuspendJob \/ FinishJob \/ Proceed \/ Break \/ Autoscale \/ Delete

\* What runs to its end, and may be a hook.
Ends == (kind = "Pod" /\ spec.policy # "Always") \/ kind \in {"Job", "Workflow"}

NoPods == [s \in Slots |-> None]
NoStatus == [observed |-> 0, desired |-> 0, total |-> 0, updated |-> 0, available |-> 0,
             stuck |-> FALSE, current |-> 1]

Init ==
    /\ kind \in Kinds
    /\ spec \in CASE kind = "Pod" -> [policy : {"Always", "OnFailure", "Never"}]
                  [] kind = "Job" -> {[suspend |-> FALSE]}
                  [] kind = "Service" -> [type : {"ClusterIP", "LoadBalancer"}]
                  [] kind \in Workloads ->
                              [generation : {1}, replicas : Replicas, revision : {1},
                               paused : {FALSE},
                               strategy : IF kind \in {"DaemonSet", "StatefulSet"}
                                          THEN {"RollingUpdate", "OnDelete"}
                                          ELSE {"RollingUpdate"},
                               partition : {0}]
                  [] OTHER -> {None}
    /\ seen = IF IsWorkload THEN [spec EXCEPT !.generation = 0] ELSE None
    /\ pods = NoPods /\ podsAt = NoPods
    /\ status = CASE kind = "PersistentVolumeClaim" -> [phase |-> "Pending"]
                  [] kind = "Workflow" -> [phase |-> ""]
                  [] kind \in {"Service", "Ingress"} -> [ingress |-> FALSE]
                  [] kind = "APIService" -> [available |-> FALSE]
                  [] kind = "HorizontalPodAutoscaler" -> [last |-> "none", conditions |-> <<>>]
                  [] OTHER -> NoStatus
    /\ containers = [c \in Containers |-> [state |-> "waiting", last |-> FALSE]]
    /\ ready = FALSE /\ conditions = {}
    /\ deleting = FALSE
    /\ finalizer \in IF kind \in {"Pod", "Job", "Workflow"} THEN BOOLEAN ELSE {FALSE}
    /\ edits = 0 /\ faults = 0

Spec == Init /\ [][Next]_vars

\* Controllers and kubelet do their work, and a Job that may run ends.
FairSpec ==
    /\ Spec
    /\ WF_vars(Controller) /\ WF_vars(WriteStatus)
    /\ WF_vars(Kubelet) /\ WF_vars(FinishJob)
    /\ WF_vars(Proceed) /\ WF_vars(Autoscale)

-----------------------------------------------------------------------------
(* Properties                                                               *)

Verdicts == {"Healthy", "Progressing", "Degraded", "Suspended", "Unknown"}

\* The type invariant: the status never speaks of a later specification than
\* there is, and counts what it counted.
HealthTypeOK ==
    /\ kind \in Kinds /\ GetResourceHealth \in Verdicts
    /\ IsWorkload => /\ spec.replicas \in Replicas
                     /\ status.observed <= seen.generation /\ seen.generation <= spec.generation
                     /\ status.updated <= status.total /\ status.available <= status.total
                     /\ status.total <= Cardinality(Slots)
                     /\ status.current <= spec.revision
    /\ kind = "Pod" => (ready => Phase = "Running")
    /\ {ready, deleting, finalizer} \subseteq BOOLEAN
    /\ edits \in 0..MaxEdits[kind] /\ faults \in 0..MaxFaults

\* Pods that were available, of the revision that is wanted now, when the status
\* was written.
There == {s \in Slots : podsAt[s] # None}
Up == {s \in There : podsAt[s].available}
Good == {s \in Up : podsAt[s].revision = spec.revision}

RolledOut ==
    CASE kind = "Deployment" -> Good = There /\ Cardinality(Good) >= spec.replicas
      [] kind = "ReplicaSet" -> Cardinality(Up) >= spec.replicas
      [] kind = "DaemonSet" -> Cardinality(Good) >= spec.replicas
      [] kind = "StatefulSet" ->
           /\ Cardinality(Up) >= spec.replicas
           /\ spec.strategy = "RollingUpdate" => (spec.partition + 1)..spec.replicas \subseteq Good

\* A DaemonSet that is updated by hand is healthy with no pod at all.
ByHand == kind = "DaemonSet" /\ spec.strategy = "OnDelete"

\* The counts of a StatefulSet include the pods that a scale-down is removing.
Condemned == kind = "StatefulSet" /\ \E s \in Slots : s > spec.replicas /\ podsAt[s] # None

\* They count a pod below the partition as updated, too: one that was made anew when
\* there was no partition yet stands for a pod above that is still to be replaced.
Overtaken ==
    /\ kind = "StatefulSet"
    /\ \E s, t \in There : /\ s <= spec.partition /\ s < t
                           /\ podsAt[s].revision = spec.revision
                           /\ podsAt[t].revision # spec.revision

\* Healthy means that what is specified now, and not what was before, was up when
\* the status was written.
HealthyMeansRolledOut ==
    IsWorkload /\ GetResourceHealth = "Healthy" /\ ~ByHand /\ ~Condemned /\ ~Overtaken
        => RolledOut

\* A resumed Job counts as complete.
Resumed == kind = "Job" /\ [type |-> "Suspended", status |-> FALSE] \in conditions

\* The verdict on a hook that is to run to its end is the last: neither a late
\* image, a restart nor its deletion takes it back after the sync has used it.
VerdictIsFinal ==
    [][Ends /\ finalizer /\ ~Resumed /\ GetResourceHealth \in {"Healthy", "Degraded"}
       => GetResourceHealth' = GetResourceHealth]_vars

\* Healthy of what runs to its end means that it has succeeded.
HealthyMeansDone ==
    Ends /\ ~Resumed /\ GetResourceHealth = "Healthy" =>
        CASE kind = "Job" -> [type |-> "Complete", status |-> TRUE] \in conditions
          [] kind = "Workflow" -> status.phase = "Succeeded"
          [] kind = "Pod" -> \A c \in Containers : containers[c].state = "ok"

\* An autoscaler that is healthy could read and write the scale in its last pass,
\* whatever earlier passes have left in the list; that it cannot read the metrics
\* is seen only before AbleToScale has ever been true (checkConditions).
HealthyMeansScaling ==
    kind = "HorizontalPodAutoscaler" /\ GetResourceHealth = "Healthy" =>
        status.last \notin {"none", "FailedGetScale", "FailedUpdateScale"}

\* Healthy is never said too early, of what is to stay up or of what is to end.
HealthyIsEarned == HealthyMeansRolledOut /\ HealthyMeansDone /\ HealthyMeansScaling

\* In the end, when nobody edits and nothing crashes any more, the assessment
\* says so: no rollout, pod or job is progressing for good.
Settles ==
    <>[](deleting \/ GetResourceHealth = "Healthy"
         \/ IF Ends THEN GetResourceHealth \in {"Degraded", "Suspended"}
            ELSE \/ IsWorkload /\ GetResourceHealth = "Suspended"
                 \/ kind = "PersistentVolumeClaim" /\ GetResourceHealth = "Degraded")

\* Every resource comes to a verdict, and a hook that is to end to one only: what
\* Sync has acted on stays true.
VerdictsSettle == VerdictIsFinal /\ Settles
=============================================================================
