------------------------------ MODULE MCHealth ------------------------------
(* Every kind that has a check of its own.  A rollout that is overtaken by two *)
(* others takes three changes.                                               *)
EXTENDS Health

MCKinds == Workloads \cup {"Pod", "Job"} \cup Provisioned \cup {"HorizontalPodAutoscaler"}
MCEdits == [k \in MCKinds |-> IF k = "StatefulSet" THEN 3 ELSE 2]
=============================================================================
