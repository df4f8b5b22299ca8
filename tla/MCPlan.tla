------------------------------- MODULE MCPlan -------------------------------
(* Small scenarios for Plan: a workload in two namespaces, served under two  *)
(* groups, a custom kind with its definition, a cluster-scoped kind that the *)
(* cache discovers late, and hooks of Argo CD and Helm.                      *)
EXTENDS Annotations, TLC

\* Waves, hooks and their phases are what the annotations say.
Wave1 == [NoAnnotations EXCEPT !.wave = {1}]
HookOf(types) == [NoAnnotations EXCEPT !.hook = types]
HelmHookOf(types) == [NoAnnotations EXCEPT !.helm = types]

Manifest(gk, ns, name, a) ==
    [gk |-> gk, ns |-> ns, name |-> name, wave |-> Wave(a), hook |-> IsHook(a),
     phases |-> SyncPhases(a), crd |-> IF gk = "CustomResourceDefinition" THEN "Widget" ELSE ""]

Manifests == {
    Manifest("Namespace", "", "app", NoAnnotations),
    Manifest("Namespace", "", "other", Wave1),
    Manifest("Namespace", "", "app", [HookOf({"Sync", "Skip"}) EXCEPT !.weight = {1}]),
    Manifest("CustomResourceDefinition", "", "widgets",
             [HelmHookOf({"crd-install"}) EXCEPT !.wave = {1}, !.weight = {-5}]),
    Manifest("apps/Deployment", "", "web", NoAnnotations),
    Manifest("apps/Deployment", "app", "web", [NoAnnotations EXCEPT !.weight = {-1}]),
    Manifest("apps/Deployment", "other", "web", NoAnnotations),
    Manifest("Widget", "app", "w", NoAnnotations),
    Manifest("Widget", "other", "job", HelmHookOf({"pre-install", "pre-upgrade", "post-install"})),
    Manifest("Widget", "app", "w", [HelmHookOf({"pre-install"}) EXCEPT !.hook = {"Sync"}]),
    Manifest("Widget", "app", "job", HelmHookOf({"test-success"})),
    Manifest("Widget", "app", "w", [HookOf({"Skip", "Unknown"}) EXCEPT !.weight = {2}]),
    Manifest("Gadget", "", "g", NoAnnotations),
    Manifest("Gadget", "app", "g", NoAnnotations)}

Object(gk, ns, name, a, uid, managed) ==
    [gk |-> gk, ns |-> ns, name |-> name, wave |-> Wave(a), uid |-> uid, managed |-> managed,
     owned |-> FALSE, hook |-> IsHook(a), phases |-> SyncPhases(a), pruneLast |-> FALSE,
     crd |-> IF gk = "CustomResourceDefinition" THEN "Widget" ELSE ""]

Objects == {
    Object("Namespace", "", "app", NoAnnotations, 1, FALSE),
    Object("apps/Deployment", "app", "web", NoAnnotations, 2, TRUE),
    Object("extensions/Deployment", "app", "web", NoAnnotations, 2, TRUE),
    Object("apps/Deployment", "other", "web", [NoAnnotations EXCEPT !.wave = {2}], 3, TRUE),
    [Object("CustomResourceDefinition", "", "widgets", Wave1, 4, TRUE) EXCEPT !.pruneLast = TRUE],
    Object("Widget", "app", "w", [NoAnnotations EXCEPT !.wave = {-1}], 5, FALSE),
    Object("Widget", "app", "w", Wave1, 6, TRUE),
    Object("Widget", "other", "job", HookOf({"PreSync"}), 7, TRUE),
    [Object("apps/Deployment", "app", "part", NoAnnotations, 8, TRUE) EXCEPT !.owned = TRUE],
    Object("Gadget", "", "g", Wave1, 9, TRUE)}

Namespaced ==
    [gk \in {"Namespace", "CustomResourceDefinition", "apps/Deployment",
             "extensions/Deployment", "Widget", "Gadget"} |->
        gk \in {"apps/Deployment", "extensions/Deployment", "Widget"}]

Rank == [gk \in DOMAIN Namespaced |->
             CASE gk = "Namespace" -> 1
               [] gk = "CustomResourceDefinition" -> 2
               [] gk \in {"apps/Deployment", "extensions/Deployment"} -> 3
               [] OTHER -> 4]

NameRank == "app" :> 1 @@ "g" :> 2 @@ "job" :> 3 @@ "other" :> 4 @@ "part" :> 5
              @@ "w" :> 6 @@ "web" :> 7 @@ "widgets" :> 8

Default == [skipHooks |-> FALSE, pruneLast |-> FALSE, createNs |-> "off", namespaced |-> FALSE,
          selected |-> DOMAIN Namespaced, denied |-> {}, skipMissing |-> FALSE]

Options == {
    [Default EXCEPT !.createNs = "modified"],
    [Default EXCEPT !.createNs = "error", !.skipHooks = TRUE, !.denied = {"Gadget"}],
    [Default EXCEPT !.namespaced = TRUE, !.skipMissing = TRUE],
    [Default EXCEPT !.pruneLast = TRUE,
        !.selected = DOMAIN Namespaced \ {"Namespace", "CustomResourceDefinition"}]}
LateKinds == {"Gadget", "Widget"}
AppNamespace == "app"
=============================================================================
