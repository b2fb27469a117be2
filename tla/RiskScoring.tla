---------------------------- MODULE RiskScoring ----------------------------
(***************************************************************************)
(* The pure part of the risk-engine (apps/risk-engine/src/scoring.ts).     *)
(* What is summed is in thousandths of a point, which the products of the  *)
(* weights need: Point is one.  A score is in tenths of a point, as        *)
(* round() leaves it.                                                      *)
(***************************************************************************)
EXTENDS Integers, FiniteSets

Point == 10 * 10 * 10
Tenth == 10 * 10
Scores == 0 .. 100 * 10

FindingSeverities == {"critical", "high", "medium", "low", "info"}
Criticalities     == {"tier-0", "tier-1", "tier-2", "tier-3"}
Environments      == {"production", "staging", "development", "sandbox"}
Bands             == {"low", "moderate", "elevated", "high", "severe"}

(* SEVERITY_WEIGHT, CRITICALITY_MULTIPLIER in hundredths and               *)
(* ENVIRONMENT_MULTIPLIER in tenths.                                       *)
SeverityWeight(s) ==
  CASE s = "critical" -> 40 [] s = "high" -> 28 [] s = "medium" -> 16
    [] s = "low" -> 8 [] OTHER -> 2
CriticalityMultiplier(c) ==
  CASE c = "tier-0" -> 150 [] c = "tier-1" -> 125 [] c = "tier-2" -> 100 [] OTHER -> 80
EnvironmentMultiplier(e) ==
  CASE e = "production" -> 14 [] e = "staging" -> 10 [] e = "development" -> 7 [] OTHER -> 5

ExposureBonus == 12 * Point
AgeCap        == 10 * Point
RelatedCap    == 12 * Point
HistoryCap    == 8 * Point

Capped(cap, x) == IF x < cap THEN x ELSE cap

Weighted(severity, criticality, environment) ==
  SeverityWeight(severity) * CriticalityMultiplier(criticality)
    * EnvironmentMultiplier(environment)

(* The total of scoreRisk() before the clamp.  `age` is the contribution   *)
(* of the logarithm of the age, which the callers give.                    *)
Sum(weighted, exposed, age, related, incidents) ==
  weighted + (IF exposed THEN ExposureBonus ELSE 0) + Capped(AgeCap, age)
    + Capped(RelatedCap, 2 * Point * related) + Capped(HistoryCap, 3 * Point * incidents)

Clamp(x) == IF x < 0 THEN 0 ELSE IF x > 100 * Point THEN 100 * Point ELSE x

(* round(): half up, to a tenth.                                           *)
Rounded(x) == (x + 50) \div Tenth

BandOf(total) ==
  IF total >= 85 * Point THEN "severe"
  ELSE IF total >= 70 * Point THEN "high"
  ELSE IF total >= 50 * Point THEN "elevated"
  ELSE IF total >= 30 * Point THEN "moderate"
  ELSE "low"
=============================================================================
