--------------------------- MODULE Health_proofs ---------------------------
(***************************************************************************)
(* Proofs about Health, for every kind, number of replicas, change and     *)
(* fault: healthy is never said too early, whatever the user, the          *)
(* controllers and the kubelet do in between; the verdict on what runs to  *)
(* its end is the last; and there always is one.                           *)
(***************************************************************************)
EXTENDS Health, FiniteSetTheorems, SequenceTheorems, TLAPS

-----------------------------------------------------------------------------
(* Workloads                                                                *)

SpecRecords ==
    [generation : Nat, replicas : Replicas, revision : Nat, paused : BOOLEAN,
     strategy : {"RollingUpdate", "OnDelete"}, partition : Nat]
PodRecords == [revision : Nat, available : BOOLEAN]

\* Pods of the revision that is wanted now, when the status was written.
Wanted == {s \in There : podsAt[s].revision = spec.revision}

\* A status for the present specification has counted the pods there were.
Counts ==
    status.observed = spec.generation =>
        /\ status.total = Cardinality(There) /\ status.updated = Cardinality(Wanted)
        /\ status.available = Cardinality(Up) /\ status.desired = spec.replicas

\* What the controller has seen is the present specification or an earlier one.
Sight ==
    /\ status.observed \in Nat /\ status.observed <= seen.generation
    /\ seen.generation <= spec.generation
    /\ seen.generation = spec.generation => seen = spec

\* The pods of a DaemonSet are on the nodes.
OnNodes ==
    kind = "DaemonSet" => /\ seen.replicas = spec.replicas
                          /\ Taken \cup There \subseteq 1..spec.replicas

WorkloadInv ==
    /\ spec \in SpecRecords /\ seen \in SpecRecords /\ spec.generation # 0
    /\ pods \in [Slots -> PodRecords \cup {None}]
    /\ podsAt \in [Slots -> PodRecords \cup {None}]
    /\ status.current \in Nat
    /\ Sight /\ Counts /\ OnNodes

-----------------------------------------------------------------------------
(* Pods, Jobs and autoscalers                                               *)

PodInv ==
    containers \in [Containers -> [state : {"waiting", "error", "running", "ok", "failed"},
                                   last : BOOLEAN]]

JobInv ==
    /\ spec \in [suspend : BOOLEAN]
    /\ \A c \in conditions : \/ c \in [type : {"Complete", "Failed"}, status : {TRUE}]
                             \/ c \in [type : {"Suspended"}, status : BOOLEAN]

Reasons ==
    {"SucceededGetScale", "ValidMetricFound", "ReadyForNewScale", "DesiredReplicas",
     "FailedGetScale", "FailedGetResourceMetric", "InvalidSelector", "FailedUpdateScale"}

Conditions ==
    [type : {"AbleToScale", "ScalingActive", "ScalingLimited"}, status : BOOLEAN,
     reason : Reasons]

\* AbleToScale comes first, and says why the last pass has failed.
AbleFirst(list) == list \in Seq(Conditions) /\ (list # <<>> => list[1].type = "AbleToScale")

ScalerInv ==
    LET list == status.conditions IN
    /\ AbleFirst(list)
    /\ status.last = "none" => list = <<>>
    /\ status.last \in {"FailedGetScale", "FailedUpdateScale"} =>
          list # <<>> /\ list[1] = Condition("AbleToScale", FALSE, status.last)

HealthInv ==
    /\ kind \in Kinds
    /\ IsWorkload => WorkloadInv
    /\ kind = "Pod" => PodInv
    /\ kind = "Job" => JobInv
    /\ kind = "HorizontalPodAutoscaler" => ScalerInv

\* The kinds exclude one another.
LEMMA KindsApart ==
    /\ IsWorkload => kind \notin {"Pod", "Job", "HorizontalPodAutoscaler"} \cup Provisioned
    /\ ~IsWorkload => kind \notin Workloads
BY DEF IsWorkload, Workloads, Provisioned

-----------------------------------------------------------------------------
(* What Healthy says                                                        *)

\* The pods there were are among the slots, and are counted so.
LEMMA PodSets ==
    ASSUME WorkloadInv
    PROVE  /\ IsFiniteSet(There) /\ IsFiniteSet(Up) /\ IsFiniteSet(Wanted) /\ IsFiniteSet(Good)
           /\ Up \subseteq There /\ Wanted \subseteq There /\ Good = Up \cap Wanted
           /\ There \subseteq Slots
           /\ Cardinality(There) \in Nat /\ Cardinality(Up) \in Nat
           /\ Cardinality(Wanted) \in Nat /\ Cardinality(Good) \in Nat
<1>1. Up \subseteq There /\ Wanted \subseteq There /\ Good = Up \cap Wanted /\ There \subseteq Slots
  BY DEF Up, Wanted, Good, There
<1>2. IsFiniteSet(Slots)
  BY HealthAssumption, FS_Interval DEF Slots
<1>3. IsFiniteSet(There)
  BY <1>1, <1>2, FS_Subset
<1>4. IsFiniteSet(Up) /\ IsFiniteSet(Wanted) /\ IsFiniteSet(Good)
  <2>1. Up \in SUBSET There /\ Wanted \in SUBSET There /\ Good \in SUBSET There
    BY <1>1
  <2> QED
    BY <1>3, <2>1, FS_Subset
<1> QED
  BY <1>1, <1>3, <1>4, FS_CardinalityType

\* A set of pods that is as many as all of them is all of them.
LEMMA AllOfThem ==
    ASSUME NEW S, IsFiniteSet(S), NEW T \in SUBSET S, Cardinality(S) <= Cardinality(T)
    PROVE  T = S
<1>1. Cardinality(T) <= Cardinality(S) /\ Cardinality(S) \in Nat /\ Cardinality(T) \in Nat
  BY FS_Subset, FS_CardinalityType
<1>2. Cardinality(T) = Cardinality(S)
  BY <1>1
<1> QED
  BY <1>2, FS_Subset

\* The ordinals above p, up to n.
LEMMA IntervalCount ==
    ASSUME NEW p \in Nat, NEW n \in Nat, p <= n
    PROVE  IsFiniteSet((p + 1)..n) /\ Cardinality((p + 1)..n) = n - p
<1> DEFINE a == p + 1
<1>1. a \in Int /\ n \in Int /\ (IF a > n THEN 0 ELSE n - a + 1) = n - p
  OBVIOUS
<1> HIDE DEF a
<1>2. IsFiniteSet(a..n) /\ Cardinality(a..n) = IF a > n THEN 0 ELSE n - a + 1
  BY <1>1, FS_Interval
<1>3. IsFiniteSet(a..n) /\ Cardinality(a..n) = n - p
  BY <1>1, <1>2
<1> QED
  BY <1>3 DEF a

\* As many pods as ordinals above p, none of them beyond, are all there can be.
LEMMA FullHouse ==
    ASSUME NEW p \in Nat, NEW n \in Nat, p <= n,
           NEW T \in SUBSET ((p + 1)..n), n - p <= Cardinality(T)
    PROVE  T = (p + 1)..n
<1> DEFINE house == (p + 1)..n
<1>1. IsFiniteSet(house) /\ Cardinality(house) = n - p
  BY IntervalCount
<1>2. T \in SUBSET house /\ Cardinality(house) <= Cardinality(T)
  BY <1>1
<1> HIDE DEF house
<1>3. T = house
  BY <1>1, <1>2, AllOfThem
<1> QED
  BY <1>3 DEF house

\* The same from the first ordinal on.
LEMMA EveryPlace ==
    ASSUME NEW n \in Nat, NEW T \in SUBSET (1..n), n <= Cardinality(T)
    PROVE  T = 1..n /\ Cardinality(1..n) = n
<1>1. (0 + 1)..n = 1..n /\ n - 0 = n
  OBVIOUS
<1>2. T \in SUBSET ((0 + 1)..n) /\ 0 <= n /\ n - 0 <= Cardinality(T)
  BY <1>1
<1>3. T = (0 + 1)..n
  BY <1>2, FullHouse
<1>4. Cardinality((0 + 1)..n) = n - 0
  BY IntervalCount
<1> QED
  BY <1>1, <1>3, <1>4

\* A workload that is healthy has a status for its present specification.
LEMMA HealthySees ==
    ASSUME WorkloadInv, IsWorkload, GetResourceHealth = "Healthy"
    PROVE  Assessed = "Healthy" /\ status.observed = spec.generation
<1>1. Assessed = "Healthy"
  BY DEF GetResourceHealth
<1>2. ~(spec.generation > status.observed)
  BY <1>1 DEF Assessed, IsWorkload, Workloads, DeploymentHealth, ReplicaSetHealth,
     DaemonSetHealth, StatefulSetHealth
<1>3. /\ status.observed \in Nat /\ spec.generation \in Nat /\ seen.generation \in Nat
      /\ status.observed <= spec.generation
  BY DEF WorkloadInv, Sight, SpecRecords
<1> QED
  BY <1>1, <1>2, <1>3

\* Deployment: all pods are of the wanted revision and available.
LEMMA DeploymentRolledOut ==
    ASSUME WorkloadInv, kind = "Deployment", GetResourceHealth = "Healthy"
    PROVE  RolledOut
<1>1. /\ Assessed = "Healthy"
      /\ status.total = Cardinality(There) /\ status.updated = Cardinality(Wanted)
      /\ status.available = Cardinality(Up)
  BY HealthySees DEF WorkloadInv, Counts, IsWorkload, Workloads
<1>2. /\ ~(Cardinality(Wanted) < spec.replicas) /\ ~(Cardinality(There) > Cardinality(Wanted))
      /\ ~(Cardinality(Up) < Cardinality(Wanted))
  BY <1>1 DEF Assessed, DeploymentHealth
<1>3. Wanted = There
  BY <1>2, PodSets, AllOfThem
<1>4. Up = There
  BY <1>2, <1>3, PodSets, AllOfThem
<1>5. Good = There /\ Cardinality(Good) \in Nat /\ spec.replicas \in Nat
  <2>1. Good = Up \cap Wanted /\ Cardinality(Good) \in Nat
    BY PodSets
  <2>2. spec.replicas \in Nat
    BY HealthAssumption DEF WorkloadInv, SpecRecords, Replicas
  <2> QED
    BY <1>3, <1>4, <2>1, <2>2
<1>6. Cardinality(Good) = Cardinality(Wanted)
  BY <1>3, <1>5, Zenon
<1>7. Cardinality(Good) >= spec.replicas
  BY <1>2, <1>5, <1>6
<1> QED
  BY <1>5, <1>7 DEF RolledOut

\* ReplicaSet: enough pods are available.
LEMMA ReplicaSetRolledOut ==
    ASSUME WorkloadInv, kind = "ReplicaSet", GetResourceHealth = "Healthy"
    PROVE  RolledOut
<1>1. Assessed = "Healthy" /\ status.available = Cardinality(Up)
  BY HealthySees DEF WorkloadInv, Counts, IsWorkload, Workloads
<1>2. ~(Cardinality(Up) < spec.replicas)
  BY <1>1 DEF Assessed, ReplicaSetHealth
<1>3. Cardinality(Up) \in Nat /\ spec.replicas \in Nat
  BY PodSets, HealthAssumption DEF WorkloadInv, SpecRecords, Replicas
<1> QED
  BY <1>2, <1>3 DEF RolledOut

\* DaemonSet: every node has a pod of the wanted revision, and it is available.
LEMMA DaemonSetRolledOut ==
    ASSUME WorkloadInv, kind = "DaemonSet", GetResourceHealth = "Healthy", ~ByHand
    PROVE  RolledOut
<1>1. /\ Assessed = "Healthy"
      /\ status.updated = Cardinality(Wanted) /\ status.available = Cardinality(Up)
      /\ status.desired = spec.replicas
  BY HealthySees DEF WorkloadInv, Counts, IsWorkload, Workloads
<1>2. ~(Cardinality(Wanted) < spec.replicas) /\ ~(Cardinality(Up) < spec.replicas)
  BY <1>1 DEF Assessed, DaemonSetHealth, ByHand
<1>3. /\ Cardinality(Wanted) \in Nat /\ Cardinality(Up) \in Nat /\ spec.replicas \in Nat
      /\ Wanted \in SUBSET (1..spec.replicas) /\ Up \in SUBSET (1..spec.replicas)
  BY PodSets, HealthAssumption DEF WorkloadInv, SpecRecords, Replicas, OnNodes
<1>4. Wanted = 1..spec.replicas /\ Up = 1..spec.replicas
  BY <1>2, <1>3, EveryPlace
<1>5. Good = 1..spec.replicas
  BY <1>4, PodSets
<1>6. Cardinality(Good) = spec.replicas
  BY <1>2, <1>3, <1>5, EveryPlace
<1> QED
  BY <1>3, <1>6 DEF RolledOut

\* StatefulSet: the pods above the partition are of the wanted revision, where
\* the counts are not of others.
LEMMA StatefulSetRolledOut ==
    ASSUME WorkloadInv, kind = "StatefulSet", GetResourceHealth = "Healthy",
           ~Condemned, ~Overtaken
    PROVE  RolledOut
<1> DEFINE n == spec.replicas
           p == spec.partition
<1>1. /\ Assessed = "Healthy"
      /\ status.updated = Cardinality(Wanted) /\ status.available = Cardinality(Up)
  BY HealthySees DEF WorkloadInv, Counts, IsWorkload, Workloads
<1>2. /\ ~(Cardinality(Up) < n)
      /\ spec.strategy = "RollingUpdate" => ~(Cardinality(Wanted) < n - p)
  BY <1>1 DEF Assessed, StatefulSetHealth
<1>3. n \in Nat /\ p \in Nat /\ Cardinality(Wanted) \in Nat /\ Cardinality(Up) \in Nat
  BY PodSets, HealthAssumption DEF WorkloadInv, SpecRecords, Replicas
<1>4. There \subseteq 1..n
  <2>1. \A s \in There : s \in 1..(MaxReplicas + 1) /\ ~(s > n)
    BY DEF Condemned, There, Slots
  <2> QED
    BY <1>3, <2>1, HealthAssumption
<1>5. Up = 1..n /\ There = 1..n
  <2>1. Up \in SUBSET (1..n)
    BY <1>4, PodSets
  <2>2. Up = 1..n
    BY <1>2, <1>3, <2>1, EveryPlace
  <2> QED
    BY <1>4, <2>2, PodSets
<1>6. ASSUME spec.strategy = "RollingUpdate", NEW t \in (p + 1)..n, t \notin Wanted
      PROVE  FALSE
  <2>1. t \in There /\ podsAt[t].revision # spec.revision
    BY <1>3, <1>5, <1>6 DEF Wanted
  <2>2. \A s \in Wanted : s \in There /\ podsAt[s].revision = spec.revision
    BY DEF Wanted
  <2>3. \A s \in Wanted : ~(s <= p)
    BY <1>3, <1>6, <2>1, <2>2, <1>5 DEF Overtaken
  <2>4. Wanted \in SUBSET ((p + 1)..n)
    BY <1>3, <1>5, <2>2, <2>3
  <2>5. p <= n /\ n - p <= Cardinality(Wanted)
    BY <1>2, <1>3, <1>6
  <2>6. Wanted = (p + 1)..n
    BY <1>3, <2>4, <2>5, FullHouse
  <2> QED
    BY <1>6, <2>6
<1>7. spec.strategy = "RollingUpdate" => (p + 1)..n \subseteq Good
  BY <1>3, <1>5, <1>6, PodSets
<1> QED
  BY <1>2, <1>3, <1>7 DEF RolledOut

-----------------------------------------------------------------------------
(* What the user, the controllers and the nodes do to a workload            *)

\* When nothing of a workload changes but its pods, which stay in their places.
LEMMA PodsChange ==
    ASSUME HealthInv, UNCHANGED unlessPods,
           IsWorkload => /\ pods' \in [Slots -> PodRecords \cup {None}]
                         /\ Taken' \subseteq Taken \cup Places
    PROVE  HealthInv'
<1>1. /\ kind' = kind /\ spec' = spec /\ seen' = seen /\ status' = status /\ podsAt' = podsAt
      /\ containers' = containers /\ conditions' = conditions
  BY DEF unlessPods, pod
<1>2. (kind = "Pod" => PodInv') /\ (kind = "Job" => JobInv')
      /\ (kind = "HorizontalPodAutoscaler" => ScalerInv')
  BY <1>1 DEF HealthInv, PodInv, JobInv, ScalerInv
<1>3. There' = There /\ Wanted' = Wanted /\ Up' = Up /\ IsWorkload' = IsWorkload
  BY <1>1 DEF There, Wanted, Up, IsWorkload
<1>4. ASSUME IsWorkload
      PROVE  WorkloadInv'
  <2>1. WorkloadInv
    BY <1>4 DEF HealthInv
  <2>2. Counts' /\ Sight'
    BY <1>1, <1>3, <2>1 DEF WorkloadInv, Counts, Sight
  <2>3. OnNodes'
    <3>1. SUFFICES ASSUME kind = "DaemonSet"
                   PROVE  Taken' \subseteq 1..spec.replicas
      BY <1>1, <1>3, <2>1 DEF WorkloadInv, OnNodes
    <3>2. Places = 1..spec.replicas /\ Taken \subseteq 1..spec.replicas
      BY <2>1, <3>1 DEF WorkloadInv, OnNodes, Places
    <3> QED
      BY <1>4, <3>2
  <2> QED
    BY <1>1, <1>4, <2>1, <2>2, <2>3 DEF WorkloadInv
<1> QED
  BY <1>1, <1>2, <1>3, <1>4 DEF HealthInv

LEMMA EditSpecInv ==
    ASSUME HealthInv, EditSpec
    PROVE  HealthInv'
<1>1. /\ IsWorkload /\ IsWorkload' /\ WorkloadInv
      /\ kind' = kind /\ seen' = seen /\ status' = status /\ pods' = pods /\ podsAt' = podsAt
  BY DEF EditSpec, workload, HealthInv, IsWorkload
<1>2. PICK r \in Replicas, new \in 0..1, paused \in BOOLEAN, part \in 0..1 :
         /\ r # spec.replicas => kind # "DaemonSet"
         /\ spec' = [spec EXCEPT !.generation = @ + 1, !.replicas = r, !.revision = @ + new,
                                 !.paused = paused, !.partition = part]
  BY DEF EditSpec
<1>3. spec \in SpecRecords /\ seen \in SpecRecords
  BY <1>1 DEF WorkloadInv
<1>4. /\ spec' \in SpecRecords /\ spec'.generation = spec.generation + 1
      /\ kind = "DaemonSet" => spec'.replicas = spec.replicas
  <2>1. /\ spec.generation \in Nat /\ spec.revision \in Nat
        /\ spec.strategy \in {"RollingUpdate", "OnDelete"}
    BY <1>3 DEF SpecRecords
  <2>2. /\ spec.generation + 1 \in Nat /\ spec.revision + new \in Nat /\ part \in Nat
        /\ r \in Replicas /\ paused \in BOOLEAN
    BY <2>1
  <2>3. spec' = [generation |-> spec.generation + 1, replicas |-> r,
                 revision |-> spec.revision + new, paused |-> paused,
                 strategy |-> spec.strategy, partition |-> part]
    BY <1>2, <1>3 DEF SpecRecords
  <2>4. spec' \in SpecRecords
    BY <2>1, <2>2, <2>3 DEF SpecRecords
  <2> QED
    BY <1>2, <2>3, <2>4
<1>5. /\ status.observed \in Nat /\ seen.generation \in Nat /\ spec.generation \in Nat
      /\ status.observed <= seen.generation /\ seen.generation <= spec.generation
  BY <1>1, <1>3 DEF WorkloadInv, Sight, SpecRecords
<1>6. Sight' /\ Counts'
  BY <1>1, <1>4, <1>5 DEF Sight, Counts
<1>7. OnNodes'
  BY <1>1, <1>4 DEF WorkloadInv, OnNodes, Taken, There
<1>8. WorkloadInv'
  BY <1>1, <1>3, <1>4, <1>5, <1>6, <1>7 DEF WorkloadInv
<1> QED
  BY <1>1, <1>8, KindsApart DEF HealthInv

LEMMA CreatePodInv ==
    ASSUME HealthInv, CreatePod
    PROVE  HealthInv'
<1>1. WorkloadInv /\ UNCHANGED unlessPods
  BY DEF CreatePod, HealthInv
<1>2. PICK s \in Places \ Taken :
         pods' = [pods EXCEPT ![s] =
                       [revision |-> IF kind = "StatefulSet" /\ s <= seen.partition
                                     THEN status.current ELSE seen.revision,
                        available |-> FALSE]]
  BY DEF CreatePod
<1>3. /\ pods \in [Slots -> PodRecords \cup {None}]
      /\ seen.revision \in Nat /\ status.current \in Nat
  BY <1>1 DEF WorkloadInv, SpecRecords
<1>4. pods' \in [Slots -> PodRecords \cup {None}]
  BY <1>2, <1>3 DEF PodRecords
<1>5. Taken' \subseteq Taken \cup Places
  BY <1>2, <1>3 DEF Taken
<1> QED
  BY <1>1, <1>4, <1>5, PodsChange

LEMMA DeletePodInv ==
    ASSUME HealthInv, DeletePod
    PROVE  HealthInv'
<1>1. WorkloadInv /\ UNCHANGED unlessPods
  BY DEF DeletePod, HealthInv
<1>2. PICK s \in Taken : pods' = [pods EXCEPT ![s] = None]
  BY DEF DeletePod
<1>3. pods \in [Slots -> PodRecords \cup {None}]
  BY <1>1 DEF WorkloadInv
<1>4. pods' \in [Slots -> PodRecords \cup {None}]
  BY <1>2, <1>3
<1>5. Taken' \subseteq Taken \cup Places
  BY <1>2, <1>3 DEF Taken
<1> QED
  BY <1>1, <1>4, <1>5, PodsChange

\* A pod becomes available, or is no more.
LEMMA AvailabilityInv ==
    ASSUME HealthInv, PodAvailable \/ PodUnavailable
    PROVE  HealthInv'
<1>1. UNCHANGED unlessPods
  BY DEF PodAvailable, PodUnavailable
<1>2. PICK s \in Taken, up \in BOOLEAN : pods' = [pods EXCEPT ![s].available = up]
  BY DEF PodAvailable, PodUnavailable
<1>3. ASSUME IsWorkload
      PROVE  /\ pods' \in [Slots -> PodRecords \cup {None}]
             /\ Taken' \subseteq Taken \cup Places
  <2>1. pods \in [Slots -> PodRecords \cup {None}]
    BY <1>3 DEF HealthInv, WorkloadInv
  <2>2. s \in Slots /\ pods[s] \in PodRecords
    BY <2>1 DEF Taken
  <2>3. [pods[s] EXCEPT !.available = up] \in PodRecords
    BY <2>2 DEF PodRecords
  <2>4. pods' = [pods EXCEPT ![s] = [pods[s] EXCEPT !.available = up]]
    BY <1>2
  <2>5. pods' \in [Slots -> PodRecords \cup {None}]
    BY <2>1, <2>2, <2>3, <2>4
  <2>6. Taken' \subseteq Taken
    BY <1>2, <2>1, <2>4 DEF Taken
  <2> QED
    BY <2>5, <2>6
<1> QED
  BY <1>1, <1>3, PodsChange

LEMMA ObserveInv ==
    ASSUME HealthInv, Observe
    PROVE  HealthInv'
<1>1. /\ IsWorkload /\ IsWorkload' /\ WorkloadInv
      /\ kind' = kind /\ spec' = spec /\ seen' = spec /\ status' = status
      /\ pods' = pods /\ podsAt' = podsAt
  BY DEF Observe, HealthInv, IsWorkload
<1>2. There' = There /\ Wanted' = Wanted /\ Up' = Up /\ Taken' = Taken
  BY <1>1 DEF There, Wanted, Up, Taken
<1>3. /\ status.observed \in Nat /\ seen.generation \in Nat /\ spec.generation \in Nat
      /\ status.observed <= seen.generation /\ seen.generation <= spec.generation
  BY <1>1 DEF WorkloadInv, Sight, SpecRecords
<1>4. Sight' /\ Counts' /\ OnNodes'
  BY <1>1, <1>2, <1>3 DEF WorkloadInv, Sight, Counts, OnNodes
<1>5. WorkloadInv'
  BY <1>1, <1>4 DEF WorkloadInv
<1> QED
  BY <1>1, <1>5, KindsApart DEF HealthInv

\* A status that is written for the present specification counts what is wanted.
LEMMA WriteStatusInv ==
    ASSUME HealthInv, WriteStatus
    PROVE  HealthInv'
<1>1. /\ IsWorkload /\ IsWorkload' /\ WorkloadInv
      /\ kind' = kind /\ spec' = spec /\ seen' = seen /\ pods' = pods /\ podsAt' = pods
  BY DEF WriteStatus, HealthInv, IsWorkload
<1>2. PICK stuck \in {FALSE} \cup {faults < MaxFaults} : status' = Counted(stuck)
  BY DEF WriteStatus
<1>3. /\ status'.observed = seen.generation /\ status'.desired = seen.replicas
      /\ status'.total = Cardinality(Taken) /\ status'.updated = Cardinality(New)
      /\ status'.available = Cardinality({s \in Taken : pods[s].available})
      /\ status'.current \in {seen.revision, status.current}
  BY <1>2 DEF Counted
<1>4. /\ There' = Taken /\ Taken' = Taken /\ Up' = {s \in Taken : pods[s].available}
      /\ Wanted' = {s \in Taken : pods[s].revision = spec.revision}
  BY <1>1 DEF There, Taken, Up, Wanted
<1>5. seen.generation = spec.generation => seen = spec
  BY <1>1 DEF WorkloadInv, Sight
<1>6. Counts'
  BY <1>1, <1>3, <1>4, <1>5 DEF Counts, New
<1>7. seen \in SpecRecords /\ seen.generation \in Nat /\ seen.revision \in Nat
  BY <1>1 DEF WorkloadInv, SpecRecords
<1>8. Sight' /\ OnNodes'
  BY <1>1, <1>3, <1>4, <1>7 DEF WorkloadInv, Sight, OnNodes
<1>9. WorkloadInv'
  BY <1>1, <1>3, <1>6, <1>7, <1>8 DEF WorkloadInv
<1> QED
  BY <1>1, <1>9, KindsApart DEF HealthInv

-----------------------------------------------------------------------------
(* What the kubelet does to a Pod, the user and the controller to a Job     *)

LEMMA BecomesInv ==
    ASSUME PodInv, NEW c \in Containers, NEW from,
           NEW to \in {"waiting", "error", "running", "ok", "failed"}, Becomes(c, from, to)
    PROVE  PodInv'
<1> DEFINE new == [state |-> to,
                   last |-> containers[c].last \/ containers[c].state \in {"ok", "failed"}]
<1>1. containers' = [containers EXCEPT ![c] = new]
  BY DEF Becomes
<1>2. new \in [state : {"waiting", "error", "running", "ok", "failed"}, last : BOOLEAN]
  <2>1. (containers[c].last \/ containers[c].state \in {"ok", "failed"}) \in BOOLEAN
    OBVIOUS
  <2> QED
    BY <2>1
<1> QED
  BY <1>1, <1>2 DEF PodInv

LEMMA PodStepInv ==
    ASSUME HealthInv, Kubelet \/ ContainerError \/ ContainerFails
    PROVE  HealthInv'
<1>1. kind = "Pod" /\ kind' = kind /\ PodInv
  BY DEF Kubelet, ContainerError, ContainerFails, ContainerStarts, ContainerEnds,
     ContainerRestarts, PodReady, unlessPod, HealthInv
<1>2. PodInv'
  <2>1. CASE PodReady
    BY <1>1, <2>1 DEF PodReady, PodInv
  <2>2. CASE ~PodReady
    <3>1. PICK c \in Containers,
               from \in {{"waiting", "error"}, {"waiting"}, {"running"}, {"failed"}},
               to \in {"waiting", "error", "running", "ok", "failed"} : Becomes(c, from, to)
      BY <2>2 DEF Kubelet, ContainerError, ContainerFails, ContainerStarts, ContainerEnds,
         ContainerRestarts
    <3> QED
      BY <1>1, <3>1, BecomesInv
  <2> QED
    BY <2>1, <2>2
<1> QED
  BY <1>1, <1>2 DEF HealthInv, IsWorkload, Workloads

LEMMA JobStepInv ==
    ASSUME HealthInv, SuspendJob \/ FinishJob
    PROVE  HealthInv'
<1>1. kind = "Job" /\ kind' = kind /\ JobInv
  BY DEF SuspendJob, FinishJob, unlessJob, HealthInv
<1>2. JobInv'
  <2>1. CASE SuspendJob
    <3>1. spec' \in [suspend : BOOLEAN]
      BY <1>1, <2>1 DEF SuspendJob, JobInv
    <3>2. \A c \in conditions' : c \in conditions
                                 \/ c = [type |-> "Suspended", status |-> spec'.suspend]
      BY <2>1 DEF SuspendJob
    <3>3. \A c \in conditions : \/ c \in [type : {"Complete", "Failed"}, status : {TRUE}]
                               \/ c \in [type : {"Suspended"}, status : BOOLEAN]
      BY <1>1 DEF JobInv
    <3>4. [type |-> "Suspended", status |-> spec'.suspend]
            \in [type : {"Suspended"}, status : BOOLEAN]
      BY <3>1
    <3>5. \A c \in conditions' : \/ c \in [type : {"Complete", "Failed"}, status : {TRUE}]
                                \/ c \in [type : {"Suspended"}, status : BOOLEAN]
      BY <3>2, <3>3, <3>4
    <3> QED
      BY <3>1, <3>5 DEF JobInv
  <2>2. CASE FinishJob
    <3>1. PICK type \in {"Complete", "Failed"} :
            spec' = spec /\ conditions' = conditions \cup {[type |-> type, status |-> TRUE]}
      BY <2>2 DEF FinishJob
    <3>2. \A c \in conditions : \/ c \in [type : {"Complete", "Failed"}, status : {TRUE}]
                               \/ c \in [type : {"Suspended"}, status : BOOLEAN]
      BY <1>1 DEF JobInv
    <3>3. [type |-> type, status |-> TRUE] \in [type : {"Complete", "Failed"}, status : {TRUE}]
      OBVIOUS
    <3>4. \A c \in conditions' : \/ c \in [type : {"Complete", "Failed"}, status : {TRUE}]
                                \/ c \in [type : {"Suspended"}, status : BOOLEAN]
      BY <3>1, <3>2, <3>3
    <3> QED
      BY <1>1, <3>1, <3>4 DEF JobInv
  <2> QED
    BY <2>1, <2>2
<1> QED
  BY <1>1, <1>2 DEF HealthInv, IsWorkload, Workloads

-----------------------------------------------------------------------------
(* The conditions of an autoscaler                                          *)

\* A condition that is set first stays first, and is replaced in its place.
LEMMA ConditionSet ==
    ASSUME NEW list \in Seq(Conditions), NEW c \in Conditions
    PROVE  LET set == SetCondition(list, c) IN
           /\ set \in Seq(Conditions) /\ set # <<>>
           /\ set[1] = IF list = <<>> \/ list[1].type = c.type THEN c ELSE list[1]
<1> DEFINE set == SetCondition(list, c)
<1>1. CASE \E i \in DOMAIN list : list[i].type = c.type
  <2>1. set = [i \in DOMAIN list |-> IF list[i].type = c.type THEN c ELSE list[i]]
    BY <1>1 DEF SetCondition
  <2>2. /\ DOMAIN list = 1..Len(list) /\ Len(list) \in Nat
        /\ \A i \in DOMAIN list : list[i] \in Conditions
    OBVIOUS
  <2>3. \A i \in 1..Len(list) : (IF list[i].type = c.type THEN c ELSE list[i]) \in Conditions
    BY <2>2
  <2>4. set \in Seq(Conditions) /\ Len(set) = Len(list)
    BY <2>1, <2>2, <2>3
  <2>5. 1 \in DOMAIN list /\ list # <<>>
    BY <1>1, <2>2
  <2>6. set[1] = IF list[1].type = c.type THEN c ELSE list[1]
    BY <2>1, <2>5
  <2>7. set # <<>>
    BY <2>4, <2>5
  <2> QED
    BY <2>4, <2>5, <2>6, <2>7
<1>2. CASE ~ \E i \in DOMAIN list : list[i].type = c.type
  <2>1. set = Append(list, c)
    BY <1>2 DEF SetCondition
  <2>2. set \in Seq(Conditions) /\ Len(set) = Len(list) + 1
    BY <2>1
  <2>3. CASE list = <<>>
    BY <2>1, <2>2, <2>3
  <2>4. CASE list # <<>>
    <3>1. 1 \in DOMAIN list
      BY <2>4
    <3>2. set[1] = list[1] /\ list[1].type # c.type
      BY <1>2, <2>1, <3>1
    <3> QED
      BY <2>2, <2>4, <3>2
  <2> QED
    BY <2>3, <2>4
<1> QED
  BY <1>1, <1>2

LEMMA SetFirst ==
    ASSUME NEW list, NEW c \in Conditions, AbleFirst(list),
           list # <<>> \/ c.type = "AbleToScale"
    PROVE  /\ AbleFirst(SetCondition(list, c)) /\ SetCondition(list, c) # <<>>
           /\ c.type = "AbleToScale" => SetCondition(list, c)[1] = c
<1>1. list \in Seq(Conditions) /\ (list # <<>> => list[1].type = "AbleToScale")
  BY DEF AbleFirst
<1> DEFINE set == SetCondition(list, c)
<1>2. /\ set \in Seq(Conditions) /\ set # <<>>
      /\ set[1] = IF list = <<>> \/ list[1].type = c.type THEN c ELSE list[1]
  BY <1>1, ConditionSet
<1> HIDE DEF set
<1>3. set[1].type = "AbleToScale" /\ (c.type = "AbleToScale" => set[1] = c)
  BY <1>1, <1>2
<1>4. AbleFirst(set)
  BY <1>2, <1>3 DEF AbleFirst
<1> QED
  BY <1>2, <1>3, <1>4 DEF set

LEMMA SetAbleToScale ==
    ASSUME NEW list, AbleFirst(list), NEW ok \in BOOLEAN, NEW reason \in Reasons
    PROVE  /\ AbleFirst(AbleToScale(list, ok, reason)) /\ AbleToScale(list, ok, reason) # <<>>
           /\ AbleToScale(list, ok, reason)[1] = Condition("AbleToScale", ok, reason)
<1>1. /\ Condition("AbleToScale", ok, reason) \in Conditions
      /\ Condition("AbleToScale", ok, reason).type = "AbleToScale"
  BY DEF Condition, Conditions
<1> QED
  BY <1>1, SetFirst DEF AbleToScale

LEMMA SetBehind ==
    ASSUME NEW list, AbleFirst(list), list # <<>>,
           NEW type \in {"ScalingActive", "ScalingLimited"}, NEW ok \in BOOLEAN,
           NEW reason \in Reasons
    PROVE  /\ AbleFirst(SetCondition(list, Condition(type, ok, reason)))
           /\ SetCondition(list, Condition(type, ok, reason)) # <<>>
<1>1. Condition(type, ok, reason) \in Conditions
  BY DEF Condition, Conditions
<1> QED
  BY <1>1, SetFirst

LEMMA AutoscaleInv ==
    ASSUME HealthInv, Autoscale
    PROVE  HealthInv'
<1> DEFINE list == status.conditions
           got == AbleToScale(list, TRUE, "SucceededGetScale")
           measured == SetCondition(got, Condition("ScalingActive", TRUE, "ValidMetricFound"))
           new == AbleToScale(measured, TRUE, "ReadyForNewScale")
           scaled(limited) == SetCondition(new, Condition("ScalingLimited", limited, "DesiredReplicas"))
<1>1. kind = "HorizontalPodAutoscaler" /\ kind' = kind /\ AbleFirst(list)
  BY DEF Autoscale, unlessStatus, HealthInv, ScalerInv
<1>2. PICK result \in {"ok", "FailedGetScale", "FailedGetResourceMetric", "InvalidSelector",
                       "FailedUpdateScale"}, limited \in BOOLEAN :
         status' = [last |-> result, conditions |->
                 CASE result = "ok" -> scaled(limited)
                   [] result = "FailedGetScale" -> AbleToScale(list, FALSE, result)
                   [] result = "FailedUpdateScale" -> AbleToScale(scaled(limited), FALSE, result)
                   [] OTHER -> SetCondition(got, Condition("ScalingActive", FALSE, result))]
  BY DEF Autoscale
<1> HIDE DEF list
<1>0. /\ TRUE \in BOOLEAN /\ FALSE \in BOOLEAN
      /\ "SucceededGetScale" \in Reasons /\ "ValidMetricFound" \in Reasons
      /\ "ReadyForNewScale" \in Reasons /\ "DesiredReplicas" \in Reasons
  BY DEF Reasons
<1>3. AbleFirst(got) /\ got # <<>>
  BY <1>0, <1>1, SetAbleToScale
<1> HIDE DEF got
<1>4. AbleFirst(measured) /\ measured # <<>>
  BY <1>0, <1>3, SetBehind
<1> HIDE DEF measured
<1>5. AbleFirst(new) /\ new # <<>>
  BY <1>0, <1>4, SetAbleToScale
<1> HIDE DEF new
<1>6. AbleFirst(scaled(limited))
  BY <1>0, <1>5, SetBehind
<1> HIDE DEF scaled
<1>7. result = "ok" \/ result \in Reasons
  BY DEF Reasons
<1>8. result \in Reasons =>
         /\ AbleFirst(AbleToScale(list, FALSE, result)) /\ AbleToScale(list, FALSE, result) # <<>>
         /\ AbleToScale(list, FALSE, result)[1] = Condition("AbleToScale", FALSE, result)
  BY <1>0, <1>1, SetAbleToScale
<1>9. result \in Reasons =>
         /\ AbleFirst(AbleToScale(scaled(limited), FALSE, result))
         /\ AbleToScale(scaled(limited), FALSE, result) # <<>>
         /\ AbleToScale(scaled(limited), FALSE, result)[1]
              = Condition("AbleToScale", FALSE, result)
  BY <1>0, <1>6, SetAbleToScale
<1>10. result \in Reasons =>
         AbleFirst(SetCondition(got, Condition("ScalingActive", FALSE, result)))
  BY <1>0, <1>3, SetBehind
<1>11. ScalerInv'
  BY <1>2, <1>6, <1>7, <1>8, <1>9, <1>10 DEF ScalerInv
<1> QED
  BY <1>1, <1>11 DEF HealthInv, IsWorkload, Workloads

-----------------------------------------------------------------------------
(* Every step                                                               *)

\* The steps of the other kinds, a deletion, and no step.
LEMMA OthersInv ==
    ASSUME HealthInv, Proceed \/ Break \/ Delete \/ UNCHANGED vars
    PROVE  HealthInv'
<1>1. CASE Proceed \/ Break
  <2>1. kind' = kind /\ kind \in Provisioned
    BY <1>1 DEF Proceed, Break, unlessStatus, Provisioned
  <2> QED
    BY <2>1 DEF HealthInv, IsWorkload, Workloads, Provisioned
<1>2. CASE Delete \/ UNCHANGED vars
  <2>1. /\ kind' = kind /\ spec' = spec /\ seen' = seen /\ pods' = pods /\ status' = status
        /\ podsAt' = podsAt /\ containers' = containers /\ conditions' = conditions
    BY <1>2 DEF Delete, vars, workload, pod
  <2>2. There' = There /\ Wanted' = Wanted /\ Up' = Up /\ Taken' = Taken
    BY <2>1 DEF There, Wanted, Up, Taken
  <2>3. WorkloadInv => WorkloadInv'
    BY <2>1, <2>2 DEF WorkloadInv, Sight, Counts, OnNodes
  <2>4. (PodInv => PodInv') /\ (JobInv => JobInv') /\ (ScalerInv => ScalerInv')
    BY <2>1 DEF PodInv, JobInv, ScalerInv
  <2> QED
    BY <2>1, <2>3, <2>4 DEF HealthInv, IsWorkload
<1> QED
  BY <1>1, <1>2

LEMMA InitInv ==
    ASSUME Init
    PROVE  HealthInv
<1>1. kind \in Kinds
  BY DEF Init
<1>2. ASSUME IsWorkload
      PROVE  WorkloadInv
  <2>1. spec \in [generation : {1}, replicas : Replicas, revision : {1}, paused : {FALSE},
                  strategy : IF kind \in {"DaemonSet", "StatefulSet"}
                             THEN {"RollingUpdate", "OnDelete"} ELSE {"RollingUpdate"},
                  partition : {0}]
    BY <1>2 DEF Init, IsWorkload, Workloads
  <2>2. status = NoStatus /\ seen = [spec EXCEPT !.generation = 0]
    BY <1>2 DEF Init, IsWorkload, Workloads
  <2>3. spec \in SpecRecords /\ spec.generation = 1
    <3>1. PICK g \in {1}, n \in Replicas, v \in {1}, paused \in {FALSE},
               strategy \in {"RollingUpdate", "OnDelete"}, part \in {0} :
            spec = [generation |-> g, replicas |-> n, revision |-> v, paused |-> paused,
                    strategy |-> strategy, partition |-> part]
      BY <2>1
    <3> QED
      BY <3>1 DEF SpecRecords
  <2>4. seen \in SpecRecords /\ seen.generation = 0 /\ seen.replicas = spec.replicas
    BY <2>2, <2>3 DEF SpecRecords
  <2>5. Taken = {} /\ There = {}
    BY DEF Init, NoPods, Taken, There
  <2>6. Sight /\ Counts /\ OnNodes
    BY <2>2, <2>3, <2>4, <2>5 DEF Sight, Counts, OnNodes, NoStatus
  <2>7. pods \in [Slots -> PodRecords \cup {None}] /\ podsAt = pods
    BY DEF Init, NoPods
  <2> QED
    BY <2>2, <2>3, <2>4, <2>6, <2>7 DEF WorkloadInv, NoStatus
<1>3. PodInv
  BY DEF Init, PodInv
<1>4. ASSUME kind = "Job"
      PROVE  JobInv
  <2>1. spec \in {[suspend |-> FALSE]}
    BY <1>4 DEF Init, Workloads
  <2>2. [suspend |-> FALSE] \in [suspend : BOOLEAN]
    OBVIOUS
  <2>3. conditions = {}
    BY DEF Init
  <2> QED
    BY <2>1, <2>2, <2>3 DEF JobInv
<1>5. ASSUME kind = "HorizontalPodAutoscaler"
      PROVE  ScalerInv
  <2>1. status = [last |-> "none", conditions |-> <<>>]
    BY <1>5 DEF Init
  <2> QED
    BY <2>1 DEF ScalerInv, AbleFirst
<1> QED
  BY <1>1, <1>2, <1>3, <1>4, <1>5 DEF HealthInv

LEMMA StepInv ==
    ASSUME HealthInv, [Next]_vars
    PROVE  HealthInv'
<1>1. CASE EditSpec
  BY <1>1, EditSpecInv
<1>2. CASE CreatePod
  BY <1>2, CreatePodInv
<1>3. CASE DeletePod
  BY <1>3, DeletePodInv
<1>4. CASE PodAvailable \/ PodUnavailable
  BY <1>4, AvailabilityInv
<1>5. CASE Observe
  BY <1>5, ObserveInv
<1>6. CASE WriteStatus
  BY <1>6, WriteStatusInv
<1>7. CASE Kubelet \/ ContainerError \/ ContainerFails
  BY <1>7, PodStepInv
<1>8. CASE SuspendJob \/ FinishJob
  BY <1>8, JobStepInv
<1>9. CASE Autoscale
  BY <1>9, AutoscaleInv
<1>10. CASE Proceed \/ Break \/ Delete \/ UNCHANGED vars
  BY <1>10, OthersInv
<1> QED
  BY <1>1, <1>2, <1>3, <1>4, <1>5, <1>6, <1>7, <1>8, <1>9, <1>10 DEF Next, Controller

-----------------------------------------------------------------------------
(* Healthy is earned                                                        *)

LEMMA RolledOutEarned ==
    ASSUME HealthInv
    PROVE  HealthyMeansRolledOut
<1>1. SUFFICES ASSUME IsWorkload, GetResourceHealth = "Healthy", ~ByHand, ~Condemned, ~Overtaken
               PROVE  RolledOut
  BY DEF HealthyMeansRolledOut
<1>2. WorkloadInv
  BY <1>1 DEF HealthInv
<1> QED
  BY <1>1, <1>2, DeploymentRolledOut, ReplicaSetRolledOut, DaemonSetRolledOut,
     StatefulSetRolledOut DEF IsWorkload, Workloads

\* A Pod that is to end is only healthy in phase Succeeded, of containers that
\* have all ended well.
LEMMA PodDone ==
    ASSUME HealthInv, kind = "Pod", spec.policy # "Always", GetResourceHealth = "Healthy"
    PROVE  \A c \in Containers : containers[c].state = "ok"
<1>1. PodHealth = "Healthy"
  BY DEF GetResourceHealth, Assessed
<1>2. Phase \in {"Pending", "Running", "Succeeded", "Failed"}
  BY Zenon DEF Phase
<1>3. Phase = "Succeeded"
  BY <1>1, <1>2 DEF PodHealth
<1> DEFINE In(states) == {c \in Containers : containers[c].state \in states}
           stopped == In({"ok", "failed"}) \cup {c \in In({"waiting", "error"}) : containers[c].last}
<1>4. /\ In({"waiting", "error"}) \ stopped = {} /\ In({"running"}) = {}
      /\ stopped = In({"ok"})
  BY <1>3 DEF Phase
<1>5. TAKE c \in Containers
<1>6. containers[c].state \in {"waiting", "error", "running", "ok", "failed"}
  BY DEF HealthInv, PodInv
<1>7. containers[c].state # "running"
  BY <1>4
<1>8. containers[c].state # "failed"
  <2>1. containers[c].state = "failed" => c \in stopped
    OBVIOUS
  <2> QED
    BY <1>4, <2>1
<1>9. containers[c].state \notin {"waiting", "error"}
  <2>1. containers[c].state \in {"waiting", "error"} => c \in stopped
    BY <1>4
  <2> QED
    BY <1>4, <2>1
<1> QED
  BY <1>6, <1>7, <1>8, <1>9

\* A Job that is healthy and was never resumed has completed.
LEMMA JobDone ==
    ASSUME HealthInv, kind = "Job", ~Resumed, GetResourceHealth = "Healthy"
    PROVE  [type |-> "Complete", status |-> TRUE] \in conditions
<1>1. JobHealth = "Healthy"
  BY DEF GetResourceHealth, Assessed
<1>2. /\ {c.type : c \in conditions} # {} /\ "Failed" \notin {c.type : c \in conditions}
      /\ [type |-> "Suspended", status |-> TRUE] \notin conditions
      /\ [type |-> "Suspended", status |-> FALSE] \notin conditions
  BY <1>1 DEF JobHealth, Resumed
<1>3. PICK c \in conditions : c.type # "Failed"
  BY <1>2
<1>4. c \notin [type : {"Suspended"}, status : BOOLEAN]
  <2>1. ASSUME c \in [type : {"Suspended"}, status : BOOLEAN]
        PROVE  c \in {[type |-> "Suspended", status |-> TRUE],
                      [type |-> "Suspended", status |-> FALSE]}
    BY <2>1
  <2> QED
    BY <1>2, <1>3, <2>1
<1>5. c \in [type : {"Complete", "Failed"}, status : {TRUE}]
  BY <1>3, <1>4 DEF HealthInv, JobInv
<1>6. c = [type |-> "Complete", status |-> TRUE]
  BY <1>3, <1>5
<1> QED
  BY <1>3, <1>6

LEMMA WorkflowDone ==
    ASSUME kind = "Workflow", GetResourceHealth = "Healthy"
    PROVE  status.phase = "Succeeded"
<1>1. WorkflowHealth = "Healthy"
  BY DEF GetResourceHealth, Assessed
<1> QED
  BY <1>1, Zenon DEF WorkflowHealth

LEMMA DoneEarned ==
    ASSUME HealthInv
    PROVE  HealthyMeansDone
<1>1. SUFFICES ASSUME Ends, ~Resumed, GetResourceHealth = "Healthy"
               PROVE  CASE kind = "Job" -> [type |-> "Complete", status |-> TRUE] \in conditions
                        [] kind = "Workflow" -> status.phase = "Succeeded"
                        [] kind = "Pod" -> \A c \in Containers : containers[c].state = "ok"
  BY DEF HealthyMeansDone
<1>2. CASE kind = "Pod"
  BY <1>1, <1>2, PodDone DEF Ends
<1>3. CASE kind = "Job"
  BY <1>1, <1>3, JobDone
<1>4. CASE kind = "Workflow"
  BY <1>1, <1>4, WorkflowDone
<1> QED
  BY <1>1, <1>2, <1>3, <1>4 DEF Ends

\* The first condition says that the last pass has failed, and decides.
LEMMA ScalingEarned ==
    ASSUME HealthInv
    PROVE  HealthyMeansScaling
<1>1. SUFFICES ASSUME kind = "HorizontalPodAutoscaler", GetResourceHealth = "Healthy"
               PROVE  status.last \notin {"none", "FailedGetScale", "FailedUpdateScale"}
  BY DEF HealthyMeansScaling
<1>2. HPAHealth = "Healthy" /\ ScalerInv
  BY <1>1 DEF GetResourceHealth, Assessed, HealthInv
<1> DEFINE Says(i) == IsDegraded(status.conditions[i]) \/ IsHealthy(status.conditions[i])
           first == {i \in DOMAIN status.conditions : Says(i) /\ \A j \in 1..(i - 1) : ~Says(j)}
<1>3. first # {} /\ ~ \E i \in first : IsDegraded(status.conditions[i])
  BY <1>2 DEF HPAHealth
<1>4. status.conditions # <<>> /\ status.last # "none"
  <2>1. status.conditions = <<>> => DOMAIN status.conditions = {}
    OBVIOUS
  <2> QED
    BY <1>2, <1>3, <2>1 DEF ScalerInv
<1>5. ASSUME status.last \in {"FailedGetScale", "FailedUpdateScale"}
      PROVE  FALSE
  <2>1. IsDegraded(status.conditions[1])
    BY <1>2, <1>5 DEF ScalerInv, Condition, IsDegraded
  <2>2. 1 \in DOMAIN status.conditions
    BY <1>2, <1>4 DEF ScalerInv, AbleFirst
  <2>3. \A j \in 1..(1 - 1) : ~Says(j)
    OBVIOUS
  <2>4. 1 \in first
    BY <2>1, <2>2, <2>3
  <2> QED
    BY <1>3, <2>1, <2>4
<1> QED
  BY <1>4, <1>5

\* Healthy is never said before it is true: of a workload it means that what is
\* specified now was up when the status was written, of what is to end that it has
\* succeeded, and of an autoscaler that its last pass reached the scale.
THEOREM HealthyCorrect == Spec => []HealthyIsEarned
<1>1. Init => HealthInv
  BY InitInv
<1>2. HealthInv /\ [Next]_vars => HealthInv'
  BY StepInv
<1>3. HealthInv => HealthyIsEarned
  BY RolledOutEarned, DoneEarned, ScalingEarned DEF HealthyIsEarned
<1> QED
  BY <1>1, <1>2, <1>3, PTL DEF Spec

-----------------------------------------------------------------------------
(* The verdict on what runs to its end is the last                          *)

\* A Pod that is never restarted has no container that has run before.
NoRestart ==
    kind = "Pod" /\ spec.policy = "Never" => \A c \in Containers : containers[c].last = FALSE

\* What a step may change of a Pod, a Job and a Workflow, and by which actions.
LEMMA Frame ==
    ASSUME [Next]_vars
    PROVE  /\ kind' = kind /\ finalizer' = finalizer
           /\ kind = "Pod" => \/ spec' = spec /\ containers' = containers /\ ready' = ready
                              \/ spec' = spec /\ (Kubelet \/ ContainerError \/ ContainerFails)
           /\ kind = "Job" => conditions' = conditions \/ SuspendJob \/ FinishJob
           /\ kind = "Workflow" => status' = status \/ Proceed
<1>1. CASE EditSpec \/ Observe \/ WriteStatus
  BY <1>1 DEF EditSpec, Observe, WriteStatus, IsWorkload, Workloads
<1>2. CASE CreatePod \/ DeletePod \/ PodAvailable \/ PodUnavailable
  BY <1>2 DEF CreatePod, DeletePod, PodAvailable, PodUnavailable, unlessPods, pod
<1>3. CASE Kubelet \/ ContainerError \/ ContainerFails
  BY <1>3 DEF Kubelet, ContainerError, ContainerFails, ContainerStarts, ContainerEnds,
     ContainerRestarts, PodReady, unlessPod
<1>4. CASE SuspendJob \/ FinishJob
  BY <1>4 DEF SuspendJob, FinishJob, unlessJob
<1>5. CASE Proceed \/ Break \/ Autoscale
  BY <1>5 DEF Proceed, Break, Autoscale, unlessStatus, pod
<1>6. CASE Delete \/ UNCHANGED vars
  BY <1>6 DEF Delete, vars, workload, pod
<1> QED
  BY <1>1, <1>2, <1>3, <1>4, <1>5, <1>6 DEF Next, Controller

LEMMA NoRestartInv ==
    ASSUME HealthInv, NoRestart, [Next]_vars
    PROVE  NoRestart'
<1>1. SUFFICES ASSUME kind = "Pod", spec'.policy = "Never", NEW c \in Containers
               PROVE  containers'[c].last = FALSE
  BY Frame DEF NoRestart
<1>2. spec' = spec /\ containers[c].last = FALSE
  BY <1>1, Frame DEF NoRestart
<1>3. CASE containers' = containers
  BY <1>2, <1>3
<1>4. CASE containers' # containers
  <2>1. Kubelet \/ ContainerError \/ ContainerFails
    BY <1>1, <1>4, Frame
  <2>2. PICK d \in Containers, from \in {{"waiting", "error"}, {"waiting"}, {"running"}},
             to \in {"error", "running", "ok", "failed"} : Becomes(d, from, to)
    <3>1. ~ContainerRestarts /\ ~PodReady
      BY <1>1, <1>2, <1>4 DEF ContainerRestarts, PodReady
    <3>2. ContainerStarts \/ ContainerEnds \/ ContainerError \/ ContainerFails
      BY <2>1, <3>1 DEF Kubelet
    <3> QED
      BY <3>2, Zenon DEF ContainerStarts, ContainerEnds, ContainerError, ContainerFails
  <2>3. containers[d].state \notin {"ok", "failed"}
    BY <2>2 DEF Becomes
  <2>4. containers' = [containers EXCEPT ![d] =
           [state |-> to,
            last |-> containers[d].last \/ containers[d].state \in {"ok", "failed"}]]
    BY <2>2 DEF Becomes
  <2>5. CASE c # d
    BY <1>2, <2>4, <2>5
  <2>6. CASE c = d
    <3>1. d \in DOMAIN containers
      BY <1>1 DEF HealthInv, PodInv
    <3>2. (containers[d].last \/ containers[d].state \in {"ok", "failed"}) = FALSE
      BY <1>2, <2>3, <2>6
    <3> QED
      BY <2>4, <2>6, <3>1, <3>2
  <2> QED
    BY <2>5, <2>6
<1> QED
  BY <1>3, <1>4

\* The containers of a Pod with a verdict have ended, and are not started again.
LEMMA PodFinal ==
    ASSUME HealthInv, NoRestart, [Next]_vars, kind = "Pod", spec.policy # "Always",
           PodHealth \in {"Healthy", "Degraded"}
    PROVE  PodHealth' = PodHealth
<1>1. Phase \in {"Pending", "Running", "Succeeded", "Failed"}
  BY Zenon DEF Phase
<1>2. Phase \in {"Succeeded", "Failed"}
  BY <1>1 DEF PodHealth
<1> DEFINE In(states) == {c \in Containers : containers[c].state \in states}
           stopped == In({"ok", "failed"}) \cup {c \in In({"waiting", "error"}) : containers[c].last}
<1>3. /\ In({"waiting", "error"}) \ stopped = {} /\ In({"running"}) = {}
      /\ Phase = "Succeeded" => stopped = In({"ok"})
      /\ Phase = "Failed" => spec.policy = "Never"
  BY <1>2 DEF Phase
<1>4. \A c \in Containers :
         /\ containers[c].state \notin {"waiting", "error", "running"}
         /\ containers[c].state = "failed" => spec.policy = "Never"
  <2>1. TAKE c \in Containers
  <2>2. containers[c].state # "running"
    BY <1>3
  <2>3. containers[c].state \in {"waiting", "error"} => c \in stopped /\ containers[c].last
    BY <1>3
  <2>4. CASE Phase = "Succeeded"
    <3>1. c \in stopped => containers[c].state = "ok"
      BY <1>3, <2>4
    <3>2. containers[c].state = "failed" => c \in stopped
      OBVIOUS
    <3> QED
      BY <2>2, <2>3, <3>1, <3>2
  <2>5. CASE Phase = "Failed"
    <3>1. spec.policy = "Never" /\ ~containers[c].last
      BY <1>3, <2>5 DEF NoRestart
    <3> QED
      BY <2>2, <2>3, <3>1
  <2> QED
    BY <1>2, <2>4, <2>5
<1>5. spec' = spec /\ containers' = containers /\ ready' = ready
  BY <1>4, Frame, HealthAssumption DEF Kubelet, ContainerError, ContainerFails,
     ContainerStarts, ContainerEnds, ContainerRestarts, PodReady, Becomes
<1>6. Phase' = Phase
  BY <1>5 DEF Phase
<1> QED
  BY <1>5, <1>6 DEF PodHealth

LEMMA JobFinal ==
    ASSUME HealthInv, [Next]_vars, kind = "Job", ~Resumed, JobHealth \in {"Healthy", "Degraded"}
    PROVE  JobHealth' = JobHealth
<1>1. Finished
  <2>1. \/ {c.type : c \in conditions} # {} /\ [type |-> "Suspended", status |-> TRUE] \notin conditions
        \/ "Failed" \in {c.type : c \in conditions}
    BY DEF JobHealth
  <2>2. CASE "Failed" \in {c.type : c \in conditions}
    BY <2>2 DEF Finished
  <2>3. CASE /\ {c.type : c \in conditions} # {}
             /\ [type |-> "Suspended", status |-> TRUE] \notin conditions
    <3>1. PICK c \in conditions : TRUE
      BY <2>3
    <3>2. c \in [type : {"Suspended"}, status : BOOLEAN]
            => c \in {[type |-> "Suspended", status |-> TRUE],
                      [type |-> "Suspended", status |-> FALSE]}
      OBVIOUS
    <3>3. c \in [type : {"Complete", "Failed"}, status : {TRUE}]
      BY <2>3, <3>1, <3>2 DEF Resumed, HealthInv, JobInv
    <3> QED
      BY <3>1, <3>3 DEF Finished
  <2> QED
    BY <2>1, <2>2, <2>3
<1>2. conditions' = conditions
  BY <1>1, Frame DEF SuspendJob, FinishJob
<1> QED
  BY <1>2 DEF JobHealth

LEMMA WorkflowFinal ==
    ASSUME [Next]_vars, kind = "Workflow", WorkflowHealth \in {"Healthy", "Degraded"}
    PROVE  WorkflowHealth' = WorkflowHealth
<1>1. status.phase \in {"Succeeded", "Failed", "Error"}
  BY Zenon DEF WorkflowHealth
<1>2. Steps(status.phase) = {}
  BY <1>1, Zenon DEF Steps
<1>3. status' = status
  BY <1>2, Frame DEF Proceed
<1> QED
  BY <1>3 DEF WorkflowHealth

\* What Sync has read of a hook that is to run to its end stays what is read: no
\* restart, no late image and no deletion takes a verdict back.
THEOREM VerdictCorrect == Spec => VerdictIsFinal
<1> DEFINE FinalInv == HealthInv /\ NoRestart
           Settled == Ends /\ finalizer /\ ~Resumed /\ GetResourceHealth \in {"Healthy", "Degraded"}
<1>1. Init => FinalInv
  <2>1. Init => NoRestart
    BY DEF Init, NoRestart
  <2> QED
    BY <2>1, InitInv
<1>2. FinalInv /\ [Next]_vars => FinalInv'
  BY StepInv, NoRestartInv
<1>3. FinalInv /\ [Next]_vars => (Settled => GetResourceHealth' = GetResourceHealth)
  <2>1. SUFFICES ASSUME FinalInv, [Next]_vars, Settled
                 PROVE  GetResourceHealth' = GetResourceHealth
    OBVIOUS
  <2>2. kind' = kind /\ GetResourceHealth = Assessed /\ GetResourceHealth' = Assessed'
    BY <2>1, Frame DEF GetResourceHealth
  <2>3. CASE kind = "Pod"
    <3>1. Assessed = PodHealth /\ Assessed' = PodHealth'
      BY <2>2, <2>3 DEF Assessed
    <3> QED
      BY <2>1, <2>2, <2>3, <3>1, PodFinal DEF Ends
  <2>4. CASE kind = "Job"
    <3>1. Assessed = JobHealth /\ Assessed' = JobHealth'
      BY <2>2, <2>4 DEF Assessed
    <3> QED
      BY <2>1, <2>2, <2>4, <3>1, JobFinal
  <2>5. CASE kind = "Workflow"
    <3>1. Assessed = WorkflowHealth /\ Assessed' = WorkflowHealth'
      BY <2>2, <2>5 DEF Assessed
    <3> QED
      BY <2>1, <2>2, <2>5, <3>1, WorkflowFinal
  <2> QED
    BY <2>1, <2>3, <2>4, <2>5 DEF Ends
<1>4. FinalInv /\ [Next]_vars => [Settled => GetResourceHealth' = GetResourceHealth]_vars
  BY <1>3
<1> HIDE DEF FinalInv, Settled
<1>5. Spec => [][Settled => GetResourceHealth' = GetResourceHealth]_vars
  BY <1>1, <1>2, <1>4, PTL DEF Spec
<1> QED
  BY <1>5 DEF VerdictIsFinal, Settled

-----------------------------------------------------------------------------
(* Types                                                                    *)

\* A status counts no more than there can be, and knows no later revision than
\* the controller has seen.
StatusShape ==
    IsWorkload =>
        /\ status.total \in Nat /\ status.updated \in Nat /\ status.available \in Nat
        /\ status.updated <= status.total /\ status.available <= status.total
        /\ status.total <= Cardinality(Slots)
        /\ status.current <= seen.revision /\ seen.revision <= spec.revision

\* A Pod is ready only while all its containers run.
ReadyShape == ready => \A c \in Containers : containers[c].state = "running"

Flags ==
    /\ ready \in BOOLEAN /\ deleting \in BOOLEAN /\ finalizer \in BOOLEAN
    /\ edits \in 0..MaxEdits[kind] /\ faults \in 0..MaxFaults

HealthTypeInv == HealthInv /\ StatusShape /\ (kind = "Pod" => ReadyShape) /\ Flags

LEMMA StatusShapeInv ==
    ASSUME HealthInv, StatusShape, [Next]_vars
    PROVE  StatusShape'
<1>1. SUFFICES ASSUME IsWorkload
               PROVE  StatusShape'
  BY Frame DEF StatusShape, IsWorkload
<1>2. /\ spec.revision \in Nat /\ seen.revision \in Nat /\ status.current \in Nat
      /\ spec \in SpecRecords
  BY <1>1 DEF HealthInv, WorkloadInv, SpecRecords
<1>3. CASE EditSpec
  <2>1. PICK r \in Replicas, new \in 0..1, paused \in BOOLEAN, part \in 0..1 :
          spec' = [spec EXCEPT !.generation = @ + 1, !.replicas = r, !.revision = @ + new,
                               !.paused = paused, !.partition = part]
    BY <1>3 DEF EditSpec
  <2>2. spec'.revision = spec.revision + new
    BY <1>2, <2>1 DEF SpecRecords
  <2>3. seen' = seen /\ status' = status
    BY <1>3 DEF EditSpec, workload
  <2> QED
    BY <1>1, <1>2, <2>2, <2>3 DEF StatusShape
<1>4. CASE Observe
  BY <1>1, <1>2, <1>4 DEF StatusShape, Observe
<1>5. CASE WriteStatus
  <2>1. PICK stuck \in {FALSE} \cup {faults < MaxFaults} : status' = Counted(stuck)
    BY <1>5 DEF WriteStatus
  <2> DEFINE available == {s \in Taken : pods[s].available}
  <2>2. /\ status'.total = Cardinality(Taken) /\ status'.updated = Cardinality(New)
        /\ status'.available = Cardinality(available)
        /\ status'.current \in {seen.revision, status.current}
    BY <2>1 DEF Counted
  <2>3. IsFiniteSet(Slots)
    BY HealthAssumption, FS_Interval DEF Slots
  <2>4. Taken \in SUBSET Slots /\ New \in SUBSET Taken /\ available \in SUBSET Taken
    BY DEF Taken, New
  <2>5. IsFiniteSet(Taken) /\ Cardinality(Taken) <= Cardinality(Slots)
    BY <2>3, <2>4, FS_Subset
  <2>6. /\ IsFiniteSet(New) /\ Cardinality(New) <= Cardinality(Taken)
        /\ IsFiniteSet(available) /\ Cardinality(available) <= Cardinality(Taken)
    BY <2>4, <2>5, FS_Subset
  <2>7. Cardinality(Taken) \in Nat /\ Cardinality(New) \in Nat /\ Cardinality(available) \in Nat
    BY <2>5, <2>6, FS_CardinalityType
  <2>8. seen' = seen /\ spec' = spec
    BY <1>5 DEF WriteStatus
  <2> HIDE DEF available
  <2> QED
    BY <1>1, <1>2, <2>2, <2>5, <2>6, <2>7, <2>8 DEF StatusShape
<1>6. ASSUME spec' = spec, seen' = seen, status' = status
      PROVE  StatusShape'
  BY <1>1, <1>6 DEF StatusShape
<1>7. CASE CreatePod \/ DeletePod \/ PodAvailable \/ PodUnavailable
  BY <1>6, <1>7 DEF CreatePod, DeletePod, PodAvailable, PodUnavailable, unlessPods
<1>8. CASE Delete \/ UNCHANGED vars
  BY <1>6, <1>8 DEF Delete, vars, workload
<1>9. ~(Kubelet \/ ContainerError \/ ContainerFails \/ SuspendJob \/ FinishJob
        \/ Proceed \/ Break \/ Autoscale)
  BY <1>1 DEF Kubelet, ContainerError, ContainerFails, ContainerStarts, ContainerEnds,
     ContainerRestarts, PodReady, SuspendJob, FinishJob, Proceed, Break, Autoscale,
     IsWorkload, Workloads
<1> QED
  BY <1>3, <1>4, <1>5, <1>7, <1>8, <1>9 DEF Next, Controller

LEMMA ReadyShapeInv ==
    ASSUME Flags, ReadyShape, [Next]_vars, kind = "Pod"
    PROVE  ReadyShape'
<1>1. CASE containers' = containers /\ ready' = ready
  BY <1>1 DEF ReadyShape
<1>2. CASE PodReady
  BY <1>2 DEF ReadyShape, PodReady
<1>3. CASE ContainerEnds \/ ContainerFails
  BY <1>3 DEF ReadyShape, ContainerEnds, ContainerFails
<1>4. CASE ContainerStarts \/ ContainerRestarts \/ ContainerError
  <2>1. ready' = ready /\ \E c \in Containers : containers[c].state # "running"
    BY <1>4 DEF ContainerStarts, ContainerRestarts, ContainerError, Becomes
  <2> QED
    BY <2>1 DEF ReadyShape
<1> QED
  BY <1>1, <1>2, <1>3, <1>4, Frame DEF Kubelet

LEMMA FlagsInv ==
    ASSUME HealthInv, Flags, [Next]_vars
    PROVE  Flags'
<1>1. kind' = kind /\ finalizer' = finalizer
  BY Frame
<1>2. MaxEdits[kind] \in Nat /\ MaxFaults \in Nat
  BY HealthAssumption DEF HealthInv
<1>3. ready' \in BOOLEAN
  BY DEF Flags, Next, vars, pod, workload, counters, EditSpec, Controller, CreatePod, DeletePod,
     PodAvailable, PodUnavailable, Observe, WriteStatus, unlessPods, Kubelet, ContainerStarts,
     ContainerEnds, ContainerRestarts, PodReady, ContainerError, ContainerFails, SuspendJob,
     FinishJob, unlessJob, Proceed, Break, Autoscale, unlessStatus, Delete
<1>4. deleting' \in BOOLEAN
  BY DEF Flags, Next, vars, EditSpec, Controller, CreatePod, DeletePod,
     PodAvailable, PodUnavailable, Observe, WriteStatus, unlessPods, Kubelet, ContainerStarts,
     ContainerEnds, ContainerRestarts, PodReady, ContainerError, ContainerFails, unlessPod,
     SuspendJob, FinishJob, unlessJob, Proceed, Break, Autoscale, unlessStatus, Delete
<1>5. edits' = edits \/ (edits < MaxEdits[kind] /\ edits' = edits + 1)
  BY DEF Next, vars, counters, EditSpec, Controller, CreatePod, DeletePod,
     PodAvailable, PodUnavailable, Observe, WriteStatus, unlessPods, Kubelet, ContainerStarts,
     ContainerEnds, ContainerRestarts, PodReady, ContainerError, ContainerFails, unlessPod,
     SuspendJob, FinishJob, unlessJob, Proceed, Break, Autoscale, unlessStatus, Delete
<1>6. faults' = faults \/ (faults < MaxFaults /\ faults' = faults + 1)
  <2>1. CASE WriteStatus
    <3>1. PICK stuck \in {FALSE} \cup {faults < MaxFaults} : status' = Counted(stuck)
      BY <2>1 DEF WriteStatus
    <3>2. status'.stuck => stuck
      BY <3>1 DEF Counted
    <3> QED
      BY <2>1, <3>2 DEF WriteStatus
  <2>2. CASE Autoscale
    <3>1. faults' = faults \/ (faults # MaxFaults /\ faults' = faults + 1)
      <4>1. PICK result \in {"ok"} \cup IF faults = MaxFaults THEN {}
                       ELSE {"FailedGetScale", "FailedGetResourceMetric", "InvalidSelector",
                             "FailedUpdateScale"} :
              faults' = IF result = "ok" THEN faults ELSE faults + 1
        BY <2>2, Zenon DEF Autoscale
      <4> QED
        BY <4>1
    <3>2. faults \in 0..MaxFaults
      BY DEF Flags
    <3> QED
      BY <1>2, <3>1, <3>2
  <2>3. CASE ~WriteStatus /\ ~Autoscale
    BY <2>3 DEF Next, vars, counters, EditSpec, Controller, CreatePod, DeletePod,
       PodAvailable, PodUnavailable, Observe, Kubelet, ContainerStarts,
       ContainerEnds, ContainerRestarts, PodReady, ContainerError, ContainerFails,
       SuspendJob, FinishJob, unlessJob, Proceed, Break, Delete
  <2> QED
    BY <2>1, <2>2, <2>3
<1> QED
  BY <1>1, <1>2, <1>3, <1>4, <1>5, <1>6 DEF Flags

LEMMA VerdictsOnly ==
    ASSUME kind \in Kinds
    PROVE  GetResourceHealth \in Verdicts
<1>1. /\ {DeploymentHealth, ReplicaSetHealth, DaemonSetHealth, StatefulSetHealth} \subseteq Verdicts
      /\ {JobHealth, IngressHealth, ServiceHealth, APIServiceHealth, HPAHealth} \subseteq Verdicts
  BY DEF Verdicts, DeploymentHealth, ReplicaSetHealth, DaemonSetHealth, StatefulSetHealth,
     JobHealth, IngressHealth, ServiceHealth, APIServiceHealth, HPAHealth
<1>2. PVCHealth \in Verdicts /\ WorkflowHealth \in Verdicts
  BY Zenon DEF Verdicts, PVCHealth, WorkflowHealth
<1>3. PodHealth \in Verdicts
  <2>1. Phase \in {"Pending", "Running", "Succeeded", "Failed"}
    BY Zenon DEF Phase
  <2> QED
    BY <2>1 DEF PodHealth, Verdicts
<1>4. kind \in Workloads \cup Provisioned \cup {"Pod", "Job", "HorizontalPodAutoscaler"}
  BY HealthAssumption
<1> HIDE DEF Verdicts
<1>5. Assessed \in Verdicts
  BY <1>1, <1>2, <1>3, <1>4 DEF Assessed, Workloads, Provisioned
<1> QED
  BY <1>5 DEF GetResourceHealth, Verdicts

LEMMA TypeInit ==
    ASSUME Init
    PROVE  StatusShape /\ ReadyShape /\ Flags
<1>1. MaxEdits[kind] \in Nat /\ MaxFaults \in Nat
  BY HealthAssumption DEF Init
<1>2. ReadyShape /\ Flags
  <2>1. /\ ready = FALSE /\ deleting = FALSE /\ edits = 0 /\ faults = 0
        /\ finalizer \in IF kind \in {"Pod", "Job", "Workflow"} THEN BOOLEAN ELSE {FALSE}
    BY Zenon DEF Init
  <2>2. finalizer \in BOOLEAN /\ ready \in BOOLEAN /\ deleting \in BOOLEAN
    BY <2>1
  <2>3. edits \in 0..MaxEdits[kind] /\ faults \in 0..MaxFaults
    BY <1>1, <2>1
  <2> QED
    BY <2>1, <2>2, <2>3, Zenon DEF ReadyShape, Flags
<1>3. ASSUME IsWorkload
      PROVE  StatusShape
  <2>1. status = NoStatus /\ seen = [spec EXCEPT !.generation = 0]
    BY <1>3 DEF Init, IsWorkload, Workloads
  <2>2. spec.revision = 1
    BY <1>3 DEF Init, IsWorkload, Workloads
  <2>3. seen.revision = spec.revision
    BY <2>1
  <2>4. Cardinality(Slots) \in Nat
    <3>1. IsFiniteSet(Slots)
      BY HealthAssumption, FS_Interval DEF Slots
    <3> QED
      BY <3>1, FS_CardinalityType
  <2> QED
    BY <2>1, <2>2, <2>3, <2>4 DEF StatusShape, NoStatus
<1> QED
  BY <1>2, <1>3 DEF StatusShape

LEMMA TypeFollows ==
    ASSUME HealthTypeInv
    PROVE  HealthTypeOK
<1>1. kind \in Kinds /\ GetResourceHealth \in Verdicts
  BY VerdictsOnly DEF HealthTypeInv, HealthInv
<1>2. ASSUME IsWorkload
      PROVE  /\ spec.replicas \in Replicas
             /\ status.observed <= seen.generation /\ seen.generation <= spec.generation
             /\ status.updated <= status.total /\ status.available <= status.total
             /\ status.total <= Cardinality(Slots)
             /\ status.current <= spec.revision
  <2>1. spec.replicas \in Replicas /\ seen.revision \in Nat /\ spec.revision \in Nat
        /\ status.current \in Nat
    BY <1>2 DEF HealthTypeInv, HealthInv, WorkloadInv, SpecRecords
  <2>2. status.observed <= seen.generation /\ seen.generation <= spec.generation
    BY <1>2 DEF HealthTypeInv, HealthInv, WorkloadInv, Sight
  <2>3. /\ status.updated <= status.total /\ status.available <= status.total
        /\ status.total <= Cardinality(Slots)
        /\ status.current <= seen.revision /\ seen.revision <= spec.revision
    BY <1>2 DEF HealthTypeInv, StatusShape
  <2> QED
    BY <2>1, <2>2, <2>3
<1>3. ASSUME kind = "Pod", ready
      PROVE  Phase = "Running"
  <2>1. /\ \A c \in Containers : containers[c].state = "running"
        /\ \E c \in Containers : TRUE
    BY <1>3, HealthAssumption DEF HealthTypeInv, ReadyShape
  <2> QED
    BY <2>1 DEF Phase
<1>4. Flags
  BY DEF HealthTypeInv
<1> QED
  BY <1>1, <1>2, <1>3, <1>4 DEF HealthTypeOK, Flags

\* Whatever the kind and its history, there is a verdict; a status counts no more than
\* there can be and speaks of no later specification; a Pod is ready only as it runs.
THEOREM HealthTypeCorrect == Spec => []HealthTypeOK
<1>1. Init => HealthTypeInv
  BY InitInv, TypeInit DEF HealthTypeInv
<1>2. HealthTypeInv /\ [Next]_vars => HealthTypeInv'
  <2>1. SUFFICES ASSUME HealthTypeInv, [Next]_vars
                 PROVE  HealthTypeInv'
    OBVIOUS
  <2>2. HealthInv' /\ StatusShape' /\ Flags'
    BY <2>1, StepInv, StatusShapeInv, FlagsInv DEF HealthTypeInv
  <2>3. kind' = kind /\ (kind = "Pod" => ReadyShape')
    BY <2>1, Frame, ReadyShapeInv DEF HealthTypeInv
  <2> QED
    BY <2>2, <2>3 DEF HealthTypeInv
<1>3. HealthTypeInv => HealthTypeOK
  BY TypeFollows
<1> QED
  BY <1>1, <1>2, <1>3, PTL DEF Spec
=============================================================================
