----------------------------- MODULE UniqueModels -----------------------------
(***************************************************************************)
(* pkg/utils/kube/uniqueprotomodels.go: the OpenAPI document of a cluster  *)
(* may define one struct several times, because aggregated APIs bring      *)
(* their own versions of it.  newUniqueModels goes through the models in   *)
(* the order of their names and leaves out each model that shares a gvk    *)
(* with a model it keeps, since the parser of the gvks, on which diffs     *)
(* depend, accepts no gvk twice.  A shared struct such as DeleteOptions    *)
(* has the gvks of many groups.                                            *)
(***************************************************************************)
EXTENDS Integers, Sequences, FiniteSets

CONSTANTS
    Models,     \* number of models, which stand for their names
    Kinds,      \* the gvks
    Kindless    \* a gvk with an empty kind

ASSUME UniqueModelsAssumption == Models \in Nat /\ Kindless \notin Kinds

Names == 1..Models

VARIABLES
    document,   \* the parsed gvks of each model
    at,         \* the model that comes next
    models,     \* the models of the result
    gvks,       \* the gvks seen in them
    tainted     \* the gvks to warn about

vars == <<document, at, models, gvks, tainted>>

\* parseGroupVersionKind: entries with a missing field are skipped, and a model
\* without the extension has none.
ParseGroupVersionKind ==
    {s \in UNION {[1..n -> Kinds \cup {Kindless}] : n \in 0..2} :
        \A i, j \in DOMAIN s : i # j => s[i] # s[j]}

NewUniqueModels ==
    /\ document \in [Names -> ParseGroupVersionKind]
    /\ at = 1
    /\ models = {} /\ gvks = {} /\ tainted = <<>>

KindsOf(s) == {s[i] : i \in DOMAIN s} \ {Kindless}

FaultyProcessed(s) == {i \in DOMAIN s \cap {1} : s[i] # Kindless /\ s[i] \in gvks}
Processed(s) == {i \in DOMAIN s : s[i] # Kindless /\ s[i] \in gvks}

First(s) == s[CHOOSE i \in Processed(s) : \A j \in Processed(s) : i <= j]

\* The body of the loop; Processed and First are modelGvkWasAlreadyProcessed.
Process ==
    /\ at \in Names
    /\ at' = at + 1
    /\ IF Processed(document[at]) = {}
       THEN /\ models' = models \cup {at}
            /\ gvks' = gvks \cup KindsOf(document[at])
            /\ UNCHANGED tainted
       ELSE /\ tainted' = Append(tainted, First(document[at]))
            /\ UNCHANGED <<models, gvks>>
    /\ UNCHANGED document

Spec == NewUniqueModels /\ [][Process]_vars

-----------------------------------------------------------------------------
(* Correctness                                                              *)

Shared(m, n) == KindsOf(document[m]) \cap KindsOf(document[n])

\* "ensures that no two models share the same gvk": the parser accepts the result.
NoSharedKind == \A m, n \in models : m # n => Shared(m, n) = {}

\* "we take the first one": a model is left out only for a model with an earlier
\* name that stays, so a gvk is lost only with a model that has another gvk which
\* is served.
FirstStays ==
    \A m \in 1..(at - 1) : m \notin models => \E n \in models : n < m /\ Shared(m, n) # {}

=============================================================================
