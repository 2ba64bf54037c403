---------------------------- MODULE MCKubeGreen -----------------------------
(***************************************************************************)
(* Instances of KubeGreen for TLC: one or two targets with one workload    *)
(* each, an execution of each operation.                                   *)
(***************************************************************************)
EXTENDS KubeGreen

CONSTANTS deployments, statefulsets, web, db, e1, e2

MCTargets == {deployments, statefulsets}
MCWorkloads == {web, db}
MCTargetOf == [w \in MCWorkloads |-> IF w = web THEN deployments
                                                ELSE statefulsets]
MCOneWorkload == {web}
MCOneTarget == [w \in MCOneWorkload |-> deployments]
MCValues == 0 .. 2
MCExecutions == {e1, e2}
MCOperationOf == [e \in MCExecutions |-> IF e = e1 THEN "SLEEP" ELSE "WAKE_UP"]
MCSleepFirst == [e \in {e1} |-> "SLEEP"]
NoOne == [e \in {} |-> "SLEEP"]

=============================================================================
