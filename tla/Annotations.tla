---------------------------- MODULE Annotations ----------------------------
(***************************************************************************)
(* What the annotations of an object say about its place in a sync: hook   *)
(* or not, the phases, the wave and the delete policies, by Argo CD's      *)
(* annotations and by Helm's.  A value is the set of its comma-separated   *)
(* items; a wave or weight that is absent or no number is {}.              *)
(***************************************************************************)
EXTENDS Integers

CONSTANT Absent     \* there is no such annotation

HookTypes == {"PreSync", "Sync", "PostSync", "SyncFail", "Skip"}

HelmHookTypes == [t \in {"pre-install", "pre-upgrade", "post-upgrade", "post-install"} |->
                     IF t \in {"pre-install", "pre-upgrade"} THEN "PreSync" ELSE "PostSync"]

HookDeletePolicies == {"HookSucceeded", "HookFailed", "BeforeHookCreation"}

HelmDeletePolicies == [p \in {"hook-succeeded", "hook-failed", "before-hook-creation"} |->
                          CASE p = "hook-succeeded" -> "HookSucceeded"
                            [] p = "hook-failed" -> "HookFailed"
                            [] p = "before-hook-creation" -> "BeforeHookCreation"]

\* An object's annotations.
NoAnnotations == [hook |-> Absent, helm |-> Absent, policy |-> Absent, helmPolicy |-> Absent,
                  wave |-> {}, weight |-> {}]

GetAnnotationCSVs(value) == IF value = Absent THEN {} ELSE value

\* The supported items of an annotation of Argo CD and of one of Helm.
Supported(value, items) == GetAnnotationCSVs(value) \cap items
Translated(value, items) == {items[i] : i \in Supported(value, DOMAIN items)}

\* Helm's types count only if there is none of Argo CD.
Types(a) ==
    IF Supported(a.hook, HookTypes) # {} THEN Supported(a.hook, HookTypes)
    ELSE Translated(a.helm, HelmHookTypes)

Skip(a) == Types(a) = {"Skip"}

\* Helm calls definitions hooks, but they are none.
IsHelmHook(a) == a.helm # Absent /\ a.helm # {"crd-install"}

IsHook(a) == IF a.hook # Absent THEN ~Skip(a) ELSE IsHelmHook(a)

Ignore(a) == IsHook(a) /\ Types(a) = {}

SyncPhases(a) ==
    IF Skip(a) THEN {} ELSE IF IsHook(a) THEN Types(a) \ {"Skip"} ELSE {"Sync"}

\* Policies of both add up.
DeletePolicies(a) ==
    LET policies == Supported(a.policy, HookDeletePolicies)
                      \cup Translated(a.helmPolicy, HelmDeletePolicies)
    IN IF policies = {} THEN {"BeforeHookCreation"} ELSE policies

Weight(a) == IF a.weight = {} THEN 0 ELSE CHOOSE n \in a.weight : TRUE
Wave(a) == IF a.wave = {} THEN Weight(a) ELSE CHOOSE n \in a.wave : TRUE

\* syncTask: a policy of what is no hook has no meaning.
HasHookDeletePolicy(a, policy) == IsHook(a) /\ policy \in DeletePolicies(a)
=============================================================================
