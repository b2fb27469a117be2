------------------------------ MODULE ReadModel ------------------------------
(***************************************************************************)
(* The API's read side (apps/stratus-api/src/modules/read-model.service):  *)
(* what each SQL statement returns for the rows of the tables, and what    *)
(* the service makes of it.                                                *)
(*                                                                         *)
(* Scores are integers; what is rounded is in tenths, the precision that   *)
(* round() keeps, and an average that is not is a sum and a count.  A      *)
(* snapshot's hour is a reading of the same clock as `now`.                *)
(***************************************************************************)
EXTENDS Integers, Sequences, FiniteSetsExt, SequencesExt

CONSTANTS
  ScoreWindow,    \* the 48 hours of securityScore()
  DayBack,        \* the 24 rows it looks back
  TrendWindow,    \* the hours of the trend's window
  TrendWidth      \* the hours of one of its buckets

ASSUME ReadModelAssumption ==
  /\ ScoreWindow \in Nat /\ DayBack \in Nat /\ TrendWindow \in Nat
  /\ TrendWidth \in Nat \ {0}

Where(rows, column, value) == {r \in rows : r[column] = value}
Count(rows) == Cardinality(rows)

(* tally(): rows of a GROUP BY as a function of the grouped column.        *)
Tally(rows, column) ==
  [value \in {r[column] : r \in rows} |-> Count(Where(rows, column, value))]
(* The sum of a tally: how many are counted in it.                         *)
SumOf(tally) == Cardinality(UNION {{v} \X (1 .. tally[v]) : v \in DOMAIN tally})

(* assetSummary(): three statements, one after the other.                  *)
AssetTotals(assets) ==
  [total    |-> Count(assets),
   healthy  |-> Count(Where(assets, "health", "healthy")),
   atRisk   |-> Count(Where(assets, "health", "at-risk")),
   critical |-> Count(Where(assets, "health", "critical"))]
ByEnvironment(assets) == Tally(assets, "environment")
ByProvider(assets) == Tally(assets, "provider")

(* findingSummary() and incidentSummary(), without what they say of times. *)
Severities == {"critical", "high", "medium", "low", "info"}
FindingSummaryOfAll(findings) ==    \* mutated form: resolved findings count
  [open       |-> Count(Where(findings, "status", "open")),
   bySeverity |-> [s \in Severities |-> Count(Where(findings, "severity", s))]]
FindingSummary(findings) ==
  LET open == Where(findings, "status", "open")
  IN  [open       |-> Count(open),
       bySeverity |-> [s \in Severities |-> Count(Where(open, "severity", s))]]
IncidentSummary(incidents) ==
  LET active == incidents \ Where(incidents, "status", "closed")
  IN  [p \in {"P1", "P2", "P3", "P4"} |-> Count(Where(active, "priority", p))]

(* round() of a quotient, in tenths.                                       *)
Tenths(a, b) == (20 * a + b) \div (2 * b)
Average(rows) == [sum |-> MapThenSumSet(LAMBDA s : s.score, rows), count |-> Count(rows)]

DirectionFor(change) ==
  CASE change > 30 -> "degrading" [] change < -30 -> "improving" [] OTHER -> "stable"
Change(from, to) == IF from = 0 THEN 0 ELSE Tenths(100 * (to - from), from)

AtLeast(average, score) == average.sum >= score * average.count
Band(risk) ==
  CASE AtLeast(risk, 85) -> "severe" [] AtLeast(risk, 70) -> "high"
    [] AtLeast(risk, 50) -> "elevated" [] AtLeast(risk, 30) -> "moderate" [] OTHER -> "low"

(* securityScore(): 100 minus the average of the newest hour, compared to  *)
(* the row DayBack hours before it, or to the oldest row there is.  With   *)
(* no row the score is 100.                                                *)
SecurityScore(snapshots, now) ==
  LET recent   == {s \in snapshots : s.hour > now - ScoreWindow}
      hours    == SetToSortSeq({s.hour : s \in recent}, LAMBDA a, b : a > b)
      rows     == [i \in 1 .. Min({Len(hours), ScoreWindow}) |->
                     Average(Where(recent, "hour", hours[i]))]
      nothing  == [sum |-> 0, count |-> 1]
      latest   == IF rows = <<>> THEN nothing ELSE rows[1]
      previous == IF rows = <<>> THEN nothing ELSE rows[Min({Len(rows), DayBack + 1})]
      change   == Change(previous.sum * latest.count, latest.sum * previous.count)
  IN  [score |-> Tenths(100 * latest.count - latest.sum, latest.count),
       band |-> Band(latest), changePercent |-> change, direction |-> DirectionFor(change)]

(* riskTrend(): the points of the window, oldest first.                    *)
RiskTrend(snapshots, now) ==
  LET inside == {s \in snapshots : s.hour > now - TrendWindow}
      bin(s) == (s.hour - (now - TrendWindow)) \div TrendWidth
      bins   == SetToSortSeq({bin(s) : s \in inside}, LAMBDA a, b : a < b)
      points == [i \in 1 .. Len(bins) |->
                   LET average == Average({s \in inside : bin(s) = bins[i]})
                   IN  Tenths(average.sum, average.count)]
      change == IF points = <<>> THEN 0 ELSE Change(points[1], points[Len(points)])
  IN  [points |-> points, changePercent |-> change, direction |-> DirectionFor(change)]
=============================================================================
