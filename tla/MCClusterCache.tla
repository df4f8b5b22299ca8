--------------------------- MODULE MCClusterCache ---------------------------
(***************************************************************************)
(* Two small instances of ClusterCache in one run; `part` says of which a  *)
(* behaviour is.                                                           *)
(* "crds": a custom resource and its definition come and go; the account   *)
(* may not list Secrets; events are handled one by one.                    *)
(* "live": two resources of one kind; events are handled in batches;       *)
(* Invalidate() and a second synchronization.                              *)
(***************************************************************************)
EXTENDS ClusterCache, TLC

CrKeys == {"crd", "cr"}
CrGk == "crd" :> "CRD" @@ "cr" :> "CR"
CrNs == "crd" :> "" @@ "cr" :> "n1"
CrScopes == [gk \in {"CRD", "CR", "Secret"} |-> {AllNs}]
CrCrd == "CRD" :> NoKey @@ "CR" :> "crd" @@ "Secret" :> NoKey
CrForbidden == {<<"Secret", AllNs>>}

\* Both keys are of kind CRD here, and only that kind is listed.
L == INSTANCE ClusterCache WITH
        Gk <- [k \in Keys |-> "CRD"], Ns <- [k \in Keys |-> ""],
        Scopes <- "CRD" :> {AllNs} @@ "CR" :> {} @@ "Secret" :> {},
        Crd <- [gk \in Gks |-> NoKey], Forbidden <- {}, Batch <- TRUE,
        CanInvalidate <- TRUE, MaxWrites <- 2, MaxSyncs <- 2, MaxFaults <- 0

VARIABLE part

PartsInit == \/ part = "crds" /\ Init
             \/ part = "live" /\ L!Init

OfCrds(step) == part = "crds" /\ step /\ UNCHANGED part
OfLive(step) == part = "live" /\ step /\ UNCHANGED part

PartsNext == OfCrds(Next) \/ OfLive(L!Next)

PartsSpec == PartsInit /\ [][PartsNext]_<<part, vars>>

\* The fairness of ClusterCache, for the part that needs it.
PartsFairSpec ==
    /\ PartsSpec
    /\ WF_<<part, vars>>(OfLive(L!SyncStep))
    /\ \A w \in 1..L!MaxWatchers :
          /\ WF_<<part, vars>>(OfLive(w \in DOMAIN watchers /\ L!WatchStep(w)))
          /\ WF_<<part, vars>>(OfLive(w \in DOMAIN watchers /\ L!Relist(w)))
    /\ \A p \in 1..2 : WF_<<part, vars>>(OfLive(p \in DOMAIN procs /\ L!ProcStep(p)))

-----------------------------------------------------------------------------
\* Once everything is processed the cache shows the server, where events are
\* not batched (watchEvents); see ClusterCache.
QuietIsCurrent == part = "crds" => QuietMeansCurrent

\* The lists bring the cache back to the server, whatever happens to batched
\* events (processEvents, loadInitialState); see ClusterCache.
EventuallyHealed == part = "live" => L!EventuallyCurrent
=============================================================================
