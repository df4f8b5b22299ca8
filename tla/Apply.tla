------------------------------- MODULE Apply -------------------------------
(***************************************************************************)
(* One resource, compared with git and applied, again and again: diff.go,  *)
(* applyObject of sync_context.go and the kubectl commands behind it       *)
(* (resource_ops.go).                                                      *)
(*                                                                         *)
(* An object is a set of fields with values, the configuration that the    *)
(* last client-side apply left in an annotation, and the fields each       *)
(* manager owns.  Between the reading of the live object, the diff and the *)
(* one or two writes of an apply, others write to the object, delete it or *)
(* lose the annotation, git changes, and the user turns server-side apply  *)
(* on.  What the API server and kubectl do with a request is external.     *)
(***************************************************************************)
EXTENDS Integers, FiniteSets

CONSTANTS
    Fields, Values,
    Manifests,      \* contents: what git may declare
    Defaults,       \* contents: the values the API server gives missing fields
    Setups,         \* [diff, mutations, replace, protected, onlyOutOfSync, known,
                    \* ignored]: whether a server-side diff shows what webhooks
                    \* do; ignored are the fields the normalizer removes
    MaxEdits, MaxWrites, MaxFaults, \* bounds on git, on others and on API errors
    Absent, None

Contents == [Fields -> Values \cup {Absent}]

\* Who owns fields: kubectl and the engine by client-side updates, the engine
\* by server-side apply, and another controller.
Managers == {"kubectl", "client", "server", "other"}

ASSUME ApplyAssumption ==
    /\ Absent \notin Values /\ Manifests \subseteq Contents \ {[f \in Fields |-> Absent]}
    /\ None \notin Contents \cup Managers
    /\ Defaults \in Contents
    /\ \A s \in Setups : /\ s.ignored \subseteq Fields
                         /\ s.diff \in {"threeWay", "structured", "serverSide"}
                         /\ {s.mutations, s.replace, s.protected, s.onlyOutOfSync,
                             s.known} \subseteq BOOLEAN
    /\ MaxEdits \in Nat /\ MaxWrites \in Nat /\ MaxFaults \in Nat

VARIABLES
    setup,      \* the options that stay
    serverSide, \* the ServerSideApply option, which the user may turn on
    config,     \* the manifest in git
    live,       \* the object in the cluster, or None
    pc,         \* where the sync is
    target,     \* the manifest this sync has read
    snap,       \* the live object this sync has read
    fresh,      \* whether live is still what it was when snap was read
    diff,       \* [modified, predicted] for target and snap
    edits, writes, faults,
    clean,      \* history: nothing changed since the last successful apply
    ours        \* history: fields our applies have set and no other controller

vars == <<setup, serverSide, config, live, pc, target, snap, fresh, diff,
          edits, writes, faults, clean, ours>>

Empty == [f \in Fields |-> Absent]
Has(c) == {f \in Fields : c[f] # Absent}
Over(c, base) == [f \in Fields |-> IF c[f] # Absent THEN c[f] ELSE base[f]]
Without(c, s) == [f \in Fields |-> IF f \in s THEN Absent ELSE c[f]]
Changed(c, d) == {f \in Fields : c[f] # d[f]}

NoOwners == [m \in Managers |-> {}]

-----------------------------------------------------------------------------
(* The API server and kubectl                                               *)

\* A request of m gives the object new fields: m owns what it changed and
\* declares, and the others no longer own what was changed.
Written(l, fields, m, declared) ==
    LET changed == Changed(fields, l.fields)
    IN [l EXCEPT !.fields = fields,
                 !.by = [x \in Managers |->
                           (IF x = m THEN l.by[x] \cup changed \cup declared
                            ELSE l.by[x] \ changed) \cap Has(fields)]]

Fresh(c, m) == [fields |-> Over(c, Defaults), applied |-> None, keeper |-> None,
                by |-> [NoOwners EXCEPT ![m] = Has(c)]]

\* kubectl replace or an update: what the manifest has not is gone, the
\* annotation too.
Replaced(l, c) ==
    [Written(l, Over(c, Defaults), "client", {}) EXCEPT !.applied = None, !.keeper = None]

\* kubectl apply: a three-way patch against the object as it is now.
ClientApply(l, c, m) ==
    IF l = None THEN [Fresh(c, m) EXCEPT !.applied = c, !.keeper = m]
    ELSE LET gone == IF l.applied = None THEN {} ELSE Has(l.applied) \ Has(c)
             fields == Over(Over(c, Without(l.fields, gone)), Defaults)
         IN [Written(l, fields, m, {}) EXCEPT !.applied = c, !.keeper = m]

\* kubectl apply --server-side --force-conflicts: fields of the client-side
\* manager that keeps the annotation are taken over first; then what the
\* manifest no longer has goes, unless another manager owns it too.
ServerApply(l, c) ==
    IF l = None THEN Fresh(c, "server")
    ELSE LET taken == IF l.keeper = None THEN {} ELSE l.by[l.keeper]
             by == [m \in Managers |-> IF m = "server" THEN l.by[m] \cup taken
                                       ELSE IF m = l.keeper THEN {} ELSE l.by[m]]
             gone == {f \in by["server"] \ Has(c) :
                        \A m \in Managers \ {"server"} : f \notin by[m]}
             fields == Over(Over(c, Without(l.fields, gone)), Defaults)
             written == Written([l EXCEPT !.by = by], fields, "server", Has(c))
         IN [written EXCEPT !.applied = IF l.applied = None THEN None ELSE c,
                            !.keeper = None,
                            !.by["server"] = Has(c)]

-----------------------------------------------------------------------------
(* diff.go                                                                  *)

Normalize(c) == Without(c, setup.ignored)
WithDefaults(c) == IF setup.known THEN Over(c, Defaults) ELSE c

Verdict(predicted, fields) == [modified |-> predicted # fields, predicted |-> predicted]

\* threeWayMergePatch and applyPatch: what orig had and config has not goes,
\* what config has is set.  For a kind without a Go type, the live object is
\* cut down to the fields of orig before the patch is computed.
FaultyDrift(orig, c, l) ==
    LET set == [f \in Fields |-> IF c[f] # orig[f] THEN c[f] ELSE Absent]
    IN Verdict(WithDefaults(Over(set, Without(l, Has(orig) \ Has(c)))), WithDefaults(l))

ThreeWayDiff(orig, c, l) ==
    LET current == IF setup.known THEN l ELSE Without(l, Fields \ Has(orig))
        gone == Has(orig) \ Has(c)
        set == [f \in Fields |-> IF c[f] # current[f] THEN c[f] ELSE Absent]
    IN Verdict(WithDefaults(Over(set, Without(l, gone))), WithDefaults(l))

\* TwoWayDiff takes the manifest for the last applied one.
TwoWayDiff(c, l) == ThreeWayDiff(c, c, l)

\* StructuredMergeDiff: the apply the API server would do, by the fields the
\* server-side manager owns.
FaultyStructuredMergeDiff(c, l) ==
    LET gone == l.by["server"] \ Has(c)
    IN Verdict(WithDefaults(Over(c, Without(Normalize(l.fields), gone))),
               WithDefaults(Normalize(l.fields)))

StructuredMergeDiff(c, l) ==
    LET gone == {f \in l.by["server"] \ Has(c) :
                   \A m \in Managers \ {"server"} : f \notin l.by[m]}
    IN Verdict(WithDefaults(Over(c, Without(Normalize(l.fields), gone))),
               WithDefaults(Normalize(l.fields)))

\* ServerSideDiff asks the API server for a dry run on the object as it is now;
\* removeWebhookMutation, if it is called, takes over only the fields of the
\* manager and those that went.  Client-side and server-side applies have the same
\* manager, and so do their entries; kubectl replace and create have others.
FaultyOwned(l) == Fields

Owned(l) ==
    IF setup.mutations THEN Fields
    ELSE l.by["server"] \cup (IF setup.replace THEN {} ELSE l.by["client"])

ServerSideDiff(c, l, now, mutation) ==
    LET predicted == [ServerApply(now, c) EXCEPT !.fields = Over(mutation, @)]
        removed == Has(l.fields) \ Has(predicted.fields)
        merged == [f \in Fields |->
                     IF f \in Owned(predicted) THEN predicted.fields[f]
                     ELSE IF f \in removed THEN Absent ELSE l.fields[f]]
    IN Verdict(Normalize(merged), Normalize(l.fields))

\* Diff.  Creation counts as modified; a last-applied annotation that is not
\* there leads to the two-way diff.  Normalize runs on all three.
Diff(c, l, now, mutation) ==
    IF l = None THEN [modified |-> TRUE, predicted |-> c]
    ELSE IF setup.diff = "serverSide" THEN ServerSideDiff(c, l, now, mutation)
    ELSE IF setup.diff = "structured" THEN StructuredMergeDiff(Normalize(c), l)
    ELSE IF l.applied # None
         THEN ThreeWayDiff(Normalize(l.applied), Normalize(c), Normalize(l.fields))
         ELSE TwoWayDiff(Normalize(c), Normalize(l.fields))

\* Mutating webhooks change one field that is not in git.
Mutations(c) == {Empty} \cup {[Empty EXCEPT ![f] = v] : f \in Fields \ Has(c), v \in Values}

-----------------------------------------------------------------------------
(* Git, other clients and the user                                          *)

unlessWorld == <<setup, pc, target, snap, diff, faults>>

EditGit ==
    /\ edits < MaxEdits /\ edits' = edits + 1
    /\ \E c \in Manifests \ {config} : config' = c
    /\ clean' = FALSE
    /\ UNCHANGED <<serverSide, live, fresh, writes, ours, unlessWorld>>

\* A sync keeps the options it was made with.
TurnServerSideOn ==
    /\ pc = "idle" /\ ~serverSide /\ serverSide' = TRUE
    /\ clean' = FALSE
    /\ UNCHANGED <<config, live, fresh, edits, writes, ours, unlessWorld>>

Foreign(l) ==
    /\ writes < MaxWrites /\ writes' = writes + 1
    /\ live' = l /\ fresh' = FALSE /\ clean' = FALSE
    /\ UNCHANGED <<serverSide, config, edits, unlessWorld>>

\* Another controller sets a field, or removes one it does not share.
OtherWrites ==
    \E f \in Fields, v \in Values \cup {Absent} :
        /\ live # None /\ live.fields[f] # v
        /\ Foreign(Written(live, Over([live.fields EXCEPT ![f] = v], Defaults), "other", {}))
        /\ ours' = ours \ {f}

OtherDeletes == live # None /\ Foreign(None) /\ ours' = {}

AnnotationLost ==
    /\ live # None /\ live.applied # None
    /\ Foreign([live EXCEPT !.applied = None, !.keeper = None])
    /\ ours' = ours \cap live.by["server"]

-----------------------------------------------------------------------------
(* The sync                                                                 *)

unlessSync == <<setup, serverSide, config, edits, writes>>

NoDiff == [modified |-> FALSE, predicted |-> Empty]

\* The end of a sync: its manifest, its live object and its diff are dropped.
Done == pc' = "idle" /\ target' = Empty /\ snap' = None /\ fresh' = FALSE /\ diff' = NoDiff

ReadLive ==
    /\ pc = "idle"
    /\ pc' = "read"
    /\ target' = config /\ snap' = live /\ fresh' = TRUE
    /\ UNCHANGED <<live, diff, faults, clean, ours, unlessSync>>

\* filterOutOfSyncTasks, under ApplyOutOfSyncOnly.
FilteredOut(result) == setup.onlyOutOfSync /\ ~result.modified /\ snap # None

ComputeDiff ==
    /\ pc = "read"
    /\ \E m \in Mutations(target) :
         LET result == Diff(target, snap, live, m)
         IN IF FilteredOut(result) THEN Done
            ELSE /\ pc' = "apply" /\ diff' = result
                 /\ UNCHANGED <<target, snap, fresh>>
    /\ UNCHANGED <<live, faults, clean, ours, unlessSync>>

\* needsClientSideApplyMigration looks at the object as it was read.
NeedsMigration == serverSide /\ snap # None /\ snap.by["kubectl"] # {}

performClientSideApplyMigration ==
    /\ pc = "apply" /\ NeedsMigration
    /\ pc' = "migrated"
    /\ live' = ClientApply(live, target, "kubectl")
    /\ fresh' = (fresh /\ live' = live) /\ clean' = (clean /\ live' = live)
    /\ UNCHANGED <<target, snap, diff, faults, ours, unlessSync>>

MayWrite == pc = "migrated" \/ (pc = "apply" /\ ~NeedsMigration)

\* Fields of an object that stay when the next apply drops them, or that stayed
\* when this one did: it cannot take over those of kubectl if the annotation is
\* lost after the migration.
Shared(l) ==
    l.by["other"] \cup (IF serverSide THEN l.by["client"] \cup (l.by["kubectl"] \ Has(target))
                       ELSE {})

Applied(l) ==
    /\ Done
    /\ live' = l
    /\ clean' = (config = target)
    /\ ours' = ((IF live = None \/ setup.replace THEN {} ELSE ours) \cup Has(target)) \ Shared(l)
    /\ UNCHANGED <<faults, unlessSync>>

ApplyResource ==
    /\ MayWrite /\ ~setup.replace
    /\ Applied(IF serverSide THEN ServerApply(live, target)
               ELSE ClientApply(live, target, "client"))

\* kubectl create, of an object that was not there when it was read.
CreateResource ==
    /\ MayWrite /\ setup.replace /\ snap = None /\ live = None
    /\ Applied(Fresh(target, "client"))

\* kubectl replace, of whatever is there now.
ReplaceResource ==
    /\ MayWrite /\ setup.replace /\ snap # None /\ live # None /\ ~setup.protected
    /\ Applied(Replaced(live, target))

\* CRDs and namespaces are updated under the resource version that was read.
FaultyUpdateResource ==
    /\ MayWrite /\ setup.replace /\ snap # None /\ live # None /\ setup.protected
    /\ Applied(Replaced(live, target))

UpdateResource ==
    /\ MayWrite /\ setup.replace /\ snap # None /\ live # None /\ setup.protected
    /\ fresh
    /\ Applied(Replaced(live, target))

Gone(reason) ==
    /\ reason
    /\ Done
    /\ UNCHANGED <<live, clean, ours, unlessSync>>

\* What the API server refuses: a create of what exists, a replace of what is
\* gone, an update of what has changed.
Refused ==
    /\ Gone(MayWrite /\ setup.replace /\ ((snap = None) # (live = None)
                                          \/ (snap # None /\ setup.protected /\ ~fresh)))
    /\ UNCHANGED faults

\* Any request may fail, the second one after the first one has been done.
ApiError ==
    /\ Gone(pc \in {"apply", "migrated"} /\ faults < MaxFaults)
    /\ faults' = faults + 1

Sync == ReadLive \/ ComputeDiff \/ performClientSideApplyMigration \/ ApplyResource
        \/ CreateResource \/ ReplaceResource \/ UpdateResource \/ Refused

World == EditGit \/ TurnServerSideOn \/ OtherWrites \/ OtherDeletes \/ AnnotationLost

Next == Sync \/ World \/ ApiError

\* The object may exist, applied with kubectl by a user, or not.
Init ==
    /\ setup \in Setups /\ serverSide \in BOOLEAN
    /\ config \in Manifests
    /\ live \in {None, ClientApply(None, config, "kubectl")}
    /\ ours = IF live = None THEN {} ELSE Has(live.applied)
    /\ pc = "idle" /\ target = Empty /\ snap = None /\ fresh = FALSE /\ diff = NoDiff
    /\ edits = 0 /\ writes = 0 /\ faults = 0 /\ clean = FALSE

Spec == Init /\ [][Next]_vars

\* The agent synchronizes again and again, and a request that fails is made
\* anew with the next operation.
FairSpec == Spec /\ WF_vars(Sync)

-----------------------------------------------------------------------------
(* Properties                                                               *)

LiveObjects == [fields : Contents, applied : Contents \cup {None},
                keeper : Managers \cup {None}, by : [Managers -> SUBSET Fields]]

\* The type invariant: owners own fields that are there, and the annotation and
\* its keeper come and go together.
ApplyTypeOK ==
    /\ setup \in Setups /\ serverSide \in BOOLEAN /\ {config, target} \subseteq Contents
    /\ {live, snap} \subseteq LiveObjects \cup {None}
    /\ live # None => /\ \A m \in Managers : live.by[m] \subseteq Has(live.fields)
                      /\ live.keeper # None => live.applied # None
    /\ pc \in {"idle", "read", "apply", "migrated"}
    /\ {fresh, clean, diff.modified} \subseteq BOOLEAN /\ diff.predicted \in Contents
    /\ fresh => live = snap
    /\ ours \subseteq Fields

Counted == Fields \ setup.ignored

\* What of the manifest the object does not have.
Missing(c, l) == {f \in Has(c) \cap Counted : l.fields[f] # c[f]}

\* What the last apply had and the manifest no longer has: by the annotation,
\* or by the fields that only server-side apply owns.
Released(l) ==
    IF setup.diff = "threeWay" THEN IF l.applied = None THEN {} ELSE Has(l.applied)
    ELSE l.by["server"] \ UNION {l.by[m] : m \in Managers \ {"server"}}

\* A field the API server fills again is present in the dry run and nobody's, so
\* removeWebhookMutation takes it back to the live value.
Refilled == IF setup.diff = "serverSide" /\ ~setup.mutations THEN Has(Defaults) ELSE {}

Leftover(c, l) == {f \in (Released(l) \cap Counted) \ (Has(c) \cup Refilled) :
                     l.fields[f] \notin {Absent, Defaults[f]}}

\* A diff that says "not modified" is right: the object has all of the manifest,
\* and nothing that an earlier manifest had put there.  Under ApplyOutOfSyncOnly
\* that verdict is why a resource is not applied.
QuietMeansSynced ==
    pc = "read" /\ snap # None /\ ~Diff(target, snap, snap, Empty).modified
        => Missing(target, snap) = {} /\ Leftover(target, snap) = {}

\* A server-side diff of what is applied on the client sees fields as owned that
\* only a server-side apply takes over.
SameWay == setup.diff = "serverSide" => serverSide

\* Fields whose mutation a server-side diff takes for a change of its own: all, if
\* it is to show mutations, or those that an earlier client-side apply still owns.
Revealed(l) ==
    IF setup.mutations THEN Fields ELSE IF setup.replace THEN {} ELSE l.by["client"]

\* After an apply and until somebody changes something the diff is quiet, unless a
\* webhook changes what it reveals: no resource is out of sync for good, whichever
\* diff goes with whichever apply.
AppliedMeansQuiet ==
    clean /\ live # None /\ SameWay =>
        \A m \in Mutations(config) :
            (setup.diff = "serverSide" => Has(m) \cap Revealed(live) = {})
               => ~Diff(config, live, live, m).modified

\* Which diff foretells which apply.
Foretells ==
    /\ ~setup.replace
    /\ IF serverSide THEN setup.diff # "threeWay" /\ snap.keeper = None
       ELSE setup.diff = "threeWay"

\* A server-side diff predicts the fields of the manifest only.
Predicts ==
    \A f \in Counted : \/ Over(diff.predicted, Defaults)[f] = live'.fields[f]
                       \/ setup.diff = "serverSide" /\ f \notin Has(target)

\* The predicted live state is what the apply then makes of the object.
PredictionHolds ==
    [][MayWrite /\ pc' = "idle" /\ clean' /\ fresh /\ snap # None /\ Foretells
       => Predicts]_vars

\* What git no longer declares is gone after the next apply, through changes of
\* the way to apply and failed requests, unless somebody else has written it.
DroppedAreGone ==
    clean /\ live # None =>
        \A f \in ours \ Has(config) : live.fields[f] \in {Absent, Defaults[f]}

\* Git, the diff and the object agree: a quiet diff hides nothing, and an apply
\* leaves nothing behind, for the diff to see or not.
DiffIsHonest == QuietMeansSynced /\ AppliedMeansQuiet /\ DroppedAreGone

UpdateStep ==
    /\ setup.replace /\ setup.protected /\ snap # None
    /\ MayWrite /\ pc' = "idle" /\ live' # live

\* A CRD or a namespace is only replaced as it was when it was read: an update
\* by another client in between is never overwritten.
NoLostUpdate == [][UpdateStep => live = snap]_vars

\* In the end, when git, the others and the API errors are quiet, the object is
\* as git says, whatever the diff and the options are.
Converges == <>[](live # None /\ Missing(config, live) = {})
=============================================================================
