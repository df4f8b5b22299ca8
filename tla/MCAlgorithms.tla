---------------------------- MODULE MCAlgorithms ----------------------------
(***************************************************************************)
(* Four parts that run on their own: the plan of an operation, the graph   *)
(* of owners in the cache, the hiding of secrets, the choice of models.    *)
(* A behaviour is one of one part, named by `part`; the variables of the   *)
(* others keep the value None.                                             *)
(***************************************************************************)
EXTENDS UniqueModels, MCPlan

CONSTANTS
    \* Plan, for the catalogue of MCPlan
    MaxScenario,
    \* Hierarchy
    GraphKeys, StatefulSets, Claims, Named, MayOwn, Ignored, Refused,
    MaxWrites, MaxLives, MaxRoots,
    \* HideSecret
    SecretKeys, SecretNotes, Values, Secrets, Null,
    None

VARIABLES
    part,       \* the part the behaviour is about
    \* Plan and Hierarchy
    server, resources,
    \* Plan
    git, opts, known, cached, stage, live, matched, tasks, order, successful,
    \* Hierarchy
    lives, writes, events, walk, visited, called,
    \* HideSecret
    given, objs, hidden, keepsOrig, normalized, keys, annotations, shown

Both == <<server, resources>>
PlanOnly == <<git, opts, known, cached, stage, live, matched, tasks, order, successful>>
GraphOnly == <<lives, writes, events, walk, visited, called>>
SecretVars == <<given, objs, hidden, keepsOrig, normalized, keys, annotations, shown>>
allVars == <<part, Both, PlanOnly, GraphOnly, SecretVars, vars>>

P == INSTANCE Plan

\* A StatefulSet and its claim, a Service and its Endpoints; the Service and
\* the StatefulSet may own each other.
MCNamed == "ep" :> "svc"
MCMayOwn == {<<"sts", "pvc">>, <<"sts", "svc">>, <<"svc", "sts">>, <<"svc", "pvc">>}

G == INSTANCE Hierarchy WITH Keys <- GraphKeys

\* Secrets with one key in all its forms and a second key, some annotated.
Secret(a, b, s, note) ==
    [data |-> "a" :> a @@ "b" :> b, stringData |-> "a" :> s @@ "b" :> Absent,
     annotations |-> "note" :> note]

Base64(v) == <<"base64", v>>
Note(v) == <<"plain", v>>

MCSecrets ==
    {Secret(a, b, s, Note("x")) : a \in {Absent, Null, Base64("x"), Base64("y")},
                                  b \in {Absent, Base64("x")}, s \in {Absent, "x"}}
    \cup {Secret(Base64("x"), Absent, Absent, note) : note \in {Absent, Note("y")}}

S == INSTANCE HideSecret WITH Keys <- SecretKeys, Annotations <- SecretNotes

ASSUME PlanConstants == P!PlanAssumption
ASSUME GraphConstants == G!HierarchyAssumption
ASSUME SecretConstants == S!HideSecretAssumption

-----------------------------------------------------------------------------
BothRest == server = None /\ resources = None

PlanRests ==
    /\ git = None /\ opts = None /\ known = None /\ cached = None /\ stage = None
    /\ live = None /\ matched = None /\ tasks = None /\ order = None /\ successful = None

GraphRests ==
    /\ lives = None /\ writes = None /\ events = None
    /\ walk = None /\ visited = None /\ called = None

SecretRests ==
    /\ given = None /\ objs = None /\ hidden = None /\ keepsOrig = None
    /\ normalized = None /\ keys = None /\ annotations = None /\ shown = None

ModelsRest == document = <<>> /\ at = 1 /\ models = {} /\ gvks = {} /\ tainted = <<>>

Init ==
    \/ /\ part = "plan" /\ P!Init
       /\ GraphRests /\ SecretRests /\ ModelsRest
    \/ /\ part = "graph" /\ G!Init
       /\ PlanRests /\ SecretRests /\ ModelsRest
    \/ /\ part = "secret" /\ S!Init
       /\ BothRest /\ PlanRests /\ GraphRests /\ ModelsRest
    \/ /\ part = "models" /\ NewUniqueModels
       /\ BothRest /\ PlanRests /\ GraphRests /\ SecretRests

OfPlan(step) == /\ part = "plan" /\ step
                /\ UNCHANGED <<part, GraphOnly, SecretVars, vars>>

OfGraph(step) == /\ part = "graph" /\ step
                 /\ UNCHANGED <<part, PlanOnly, SecretVars, vars>>

OfSecret(step) == /\ part = "secret" /\ step
                  /\ UNCHANGED <<part, Both, PlanOnly, GraphOnly, vars>>

OfModels(step) == /\ part = "models" /\ step
                  /\ UNCHANGED <<part, Both, PlanOnly, GraphOnly, SecretVars>>

Next ==
    \/ OfPlan(P!Discover) \/ OfPlan(P!Invalidate)
    \/ OfPlan(P!GetManagedLiveObjs) \/ OfPlan(P!GetManagedLiveObjsFails)
    \/ OfPlan(P!DedupLiveResources) \/ OfPlan(P!Match) \/ OfPlan(P!GroupResources)
    \/ OfPlan(P!ListTasks) \/ OfPlan(P!SetWaves) \/ OfPlan(P!Sort)
    \/ \E k \in GraphKeys :
          \/ OfGraph(G!Create(k)) \/ OfGraph(G!Modify(k)) \/ OfGraph(G!Delete(k))
          \/ OfGraph(G!Process(k)) \/ OfGraph(G!Relist(k))
          \/ OfGraph(G!WalkRoot(k)) \/ OfGraph(G!WalkChild(k))
    \/ OfGraph(G!WalkStart) \/ OfGraph(G!WalkReturn) \/ OfGraph(G!WalkEnd)
    \/ OfSecret(S!Collect) \/ OfSecret(S!Restore)
    \/ \E k \in SecretKeys : OfSecret(S!HideData(k))
    \/ \E a \in SecretNotes : OfSecret(S!HideAnnotation(a))
    \/ OfModels(Process)

PartSpec == Init /\ [][Next]_allVars

-----------------------------------------------------------------------------
(* What the parts promise; see the modules for what each formula says.      *)

\* The tasks are those git and the cluster call for (Reconcile, getSyncTasks).
PlanIsFaithful == part = "plan" => P!PlanIsFaithful

\* Their order is that of phases, waves and dependencies (syncTasks.Sort).
OrderIsSound == part = "plan" => P!OrderIsSound

\* The graph of the cache is that of the server once the events are processed
\* (resolveResourceReferences, onNodeUpdated).
GraphIsTrue == part = "graph" => G!GraphIsTrue

\* A walk calls its action with what it should, once (IterateHierarchyV2).
WalkIsExact == part = "graph" => G!WalkIsExact

\* Hidden values differ where the values did (HideSecretData).
DifferencesKept == part = "secret" => S!DifferencesKept
=============================================================================
