---------------------------- MODULE MCRiskRollup ----------------------------
(* Small instances of RiskRollup: two findings of one asset, as the rules   *)
(* publish them while nothing fills the asset catalog (no criticality, not  *)
(* exposed), and a cluster with a critical member.                          *)
EXTENDS RiskRollup
CONSTANTS a1, a2, w1, w2

Finding(id, asset, severity, exposed) ==
  [id |-> id, asset |-> asset, severity |-> severity, criticality |-> "none",
   environment |-> "production", exposed |-> exposed]
MCFindings == {Finding("public", a1, "critical", FALSE), Finding("patch", a1, "low", FALSE)}
MCClusters ==
  {[key |-> "corr", severities |-> {"info", "critical"}, environment |-> "production",
    findings |-> 1, confidence |-> 65]}
MCAssets == {a1}
MCWorkers == {w1, w2}
AllToOne == [a \in MCAssets |-> w1]
(* Four days old: 2 * log2(4) points.                                       *)
MCAgePoints == {4 * Point}
=============================================================================
