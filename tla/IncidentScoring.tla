-------------------------- MODULE IncidentScoring --------------------------
(***************************************************************************)
(* The pure part of the incident-service: the risk of a cluster            *)
(* (riskFromMembers, apps/incident-service/src/worker.ts) and the paging   *)
(* decision (prioritize, apps/incident-service/src/prioritization.ts).     *)
(* Confidence is in hundredths, so weighted risk is in hundredths too.     *)
(***************************************************************************)
EXTENDS Integers, FiniteSets

MemberSeverities == {"critical", "high", "medium", "low", "info"}
Priorities       == {"P1", "P2", "P3", "P4"}

Weight(severity) ==
  CASE severity = "critical" -> 85
    [] severity = "high"     -> 68
    [] severity = "medium"   -> 45
    [] severity = "low"      -> 25
    [] OTHER                 -> 10

AtMost(bound, x) == IF x < bound THEN x ELSE bound

(* The worst weight, and up to ten points of pressure from further members. *)
Worst(members) ==
  CHOOSE w \in {Weight(m.severity) : m \in members} :
    \A m \in members : Weight(m.severity) <= w
RiskFromMembers(members) ==
  AtMost(100, Worst(members) + AtMost(10, 2 * (Cardinality(members) - 1)))

Prioritize(risk, confidence, environment, exposed, assets) ==
  LET production == environment = "production"
      weighted   == risk * confidence
  IN  IF production /\ (weighted >= 7000 \/ (exposed /\ weighted >= 5500)) THEN "P1"
      ELSE IF weighted >= 5500 \/ (production /\ weighted >= 4000) THEN "P2"
      ELSE IF weighted >= 3000 \/ assets > 3 THEN "P3"
      ELSE "P4"

(* How urgent a priority is: P1 is 4, P4 is 1.                             *)
Urgency(p) == CASE p = "P1" -> 4 [] p = "P2" -> 3 [] p = "P3" -> 2 [] OTHER -> 1
=============================================================================
