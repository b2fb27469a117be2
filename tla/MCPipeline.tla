----------------------------- MODULE MCPipeline -----------------------------
(* A small instance of Pipeline with two replicas.  The demonstration runs *)
(* alone, with a fault; next to noise about its service; and the other     *)
(* scenarios run without it, with a fault.                                 *)
EXTENDS Pipeline, TLC
CONSTANTS w1, w2

Alone     == [ticks |-> "deployment-incident" :> 5, faults |-> 1]
InNoise   == [ticks |-> "deployment-incident" :> 5 @@ "steady-state" :> 1, faults |-> 0]
NoiseOnly == [ticks |-> "exposed-bucket" :> 4 @@ "credential-leak" :> 2, faults |-> 1]
MCCampaigns == {Alone, InNoise, NoiseOnly}
TheDemo     == {[Alone EXCEPT !.faults = 0]}

MCServices == {"checkout"}
MCReplicas == {w1, w2}
OneReplica == {w1}

(* Every way to share out the workload's partitions of the demonstration;  *)
(* the others are w1's.                                                    *)
Workload == [prefix |-> "k8s:", name |-> "checkout", marks |-> {}]
AnyAssignment ==
  {[p \in Partitions |-> IF p[2] = Workload THEN a[p[1]] ELSE w1] : a \in [Topics -> MCReplicas]}
AllToOne == {[p \in Partitions |-> w1]}
=============================================================================
