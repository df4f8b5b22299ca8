--------------------------- MODULE MCSyncContext ---------------------------
(* Small instances of SyncContext for TLC: each scenario is a set of tasks.  *)
EXTENDS SyncContext, TLC

SyncPhase(ts) == [t \in ts |-> "Sync"]
Zero(ts) == [t \in ts |-> 0]
Itself(ts) == [t \in ts |-> t]

\* "waves": a PreSync hook, a wave with a resource and a prune, a second
\* wave, a PostSync hook.
WTasks == {"pre", "r0", "p0", "r1", "post"}
WPhase == ("pre" :> "PreSync" @@ "post" :> "PostSync") @@ SyncPhase(WTasks)
WWave == "r1" :> 1 @@ Zero(WTasks)
WObj == Itself(WTasks)
WGroup == Zero(WTasks)

\* "fail": a resource and a hook side by side, a second wave, and two
\* SyncFail hooks of two waves.
FTasks == {"r0", "hook", "r1", "sf0", "sf1"}
FPhase == ("sf0" :> "SyncFail" @@ "sf1" :> "SyncFail") @@ SyncPhase(FTasks)
FWave == ("r1" :> 1 @@ "sf1" :> 1) @@ Zero(FTasks)
FObj == Itself(FTasks)
FGroup == Zero(FTasks)

\* "options", also as a dry run: the created namespace, a kind whose CRD is missing, a second
\* wave that is in sync and has no health, and two prune tasks whose waves are
\* mirrored, the second one then put after all waves (PruneLast).
OTasks == {"ns", "cr", "same", "p0", "pl"}
OPhase == "ns" :> "PreSync" @@ SyncPhase(OTasks)
OWave == ("same" :> 1 @@ "p0" :> 1) @@ Zero(OTasks)
OObj == Itself(OTasks)
OGroup == Zero(OTasks)

\* "lost": a prune, then a second wave, with a SyncFail hook.
LTasks == {"p0", "r1", "sf"}
LPhase == "sf" :> "SyncFail" @@ SyncPhase(LTasks)
LWave == "r1" :> 1 @@ Zero(LTasks)
LObj == Itself(LTasks)
LGroup == Zero(LTasks)
=============================================================================
