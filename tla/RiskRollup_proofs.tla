------------------------- MODULE RiskRollup_proofs -------------------------
(***************************************************************************)
(* Theorems about the risk-engine: what its scores can be, and that its    *)
(* roll-up in Redis stands for what it publishes.                          *)
(***************************************************************************)
EXTENDS RiskRollup, FiniteSetTheorems, TLAPS

(* What the proofs use of Point, which stays folded in them: the provers   *)
(* do badly on products of large literals.                                 *)
LEMMA PointIs == Point = 1000 /\ Tenth = 100
<1>1. 10 * 10 = 100
  OBVIOUS
<1>. QED
  BY <1>1 DEF Point, Tenth

LEMMA TenthIs == Tenth = 100
BY DEF Tenth

LEMMA PointsAreTenths ==
  100 * 10 = Point /\ \A n \in Nat : n * Point = 100 * (10 * n) /\ 10 * n \in Nat
<1>1. ASSUME NEW n \in Nat PROVE n * 1000 = 100 * (10 * n) /\ 10 * n \in Nat
  OBVIOUS
<1>. QED
  BY <1>1, PointIs

LEMMA PointIsLarge == Point \in Nat /\ Point > 60
BY DEF Point

LEMMA CapsAre ==
  /\ ExposureBonus = 12 * Point /\ ExposureBonus \in Nat
  /\ AgeCap = 10 * Point /\ AgeCap \in Nat
  /\ RelatedCap = 12 * Point /\ RelatedCap \in Nat
  /\ HistoryCap = 8 * Point /\ HistoryCap \in Nat
BY PointIsLarge DEF ExposureBonus, AgeCap, RelatedCap, HistoryCap

SecondaryCaps == ExposureBonus + AgeCap + RelatedCap + HistoryCap

LEMMA CappedBounds ==
  ASSUME NEW cap \in Nat, NEW x \in Nat
  PROVE  Capped(cap, x) \in 0 .. cap
BY DEF Capped

LEMMA WeightedBounds ==
  ASSUME NEW s, NEW c, NEW e
  PROVE  Weighted(s, c, e) \in 0 .. 84 * Point
<1>1. SeverityWeight(s) \in {2, 8, 16, 28, 40}
  BY DEF SeverityWeight
<1>2. CriticalityMultiplier(c) \in {80, 100, 125, 150}
  BY DEF CriticalityMultiplier
<1>3. EnvironmentMultiplier(e) \in {5, 7, 10, 14}
  BY DEF EnvironmentMultiplier
<1>4. ASSUME NEW x \in {2, 8, 16, 28, 40}, NEW y \in {80, 100, 125, 150}
      PROVE  x * y \in 0 .. 6 * Point
  <2>1. y \in 0 .. 150
    OBVIOUS
  <2>2. CASE x = 2
    BY PointIs, <2>1, <2>2
  <2>3. CASE x = 8
    BY PointIs, <2>1, <2>3
  <2>4. CASE x = 16
    BY PointIs, <2>1, <2>4
  <2>5. CASE x = 28
    BY PointIs, <2>1, <2>5
  <2>6. CASE x = 40
    BY PointIs, <2>1, <2>6
  <2>. QED
    BY <2>2, <2>3, <2>4, <2>5, <2>6
<1>5. ASSUME NEW x \in 0 .. 6 * Point, NEW y \in {5, 7, 10, 14}
      PROVE  x * y \in 0 .. 84 * Point
  <2>1. CASE y = 5
    BY PointIsLarge, <2>1
  <2>2. CASE y = 7
    BY PointIsLarge, <2>2
  <2>3. CASE y = 10
    BY PointIsLarge, <2>3
  <2>4. CASE y = 14
    BY PointIsLarge, <2>4
  <2>. QED
    BY <2>1, <2>2, <2>3, <2>4
<1>. QED
  BY <1>1, <1>2, <1>3, <1>4, <1>5 DEF Weighted

LEMMA SumBounds ==
  ASSUME NEW weighted \in Nat, NEW exposed \in BOOLEAN, NEW age \in Nat,
         NEW related \in Nat, NEW incidents \in Nat
  PROVE  Sum(weighted, exposed, age, related, incidents)
           \in weighted .. weighted + SecondaryCaps
<1>1. Capped(AgeCap, age) \in 0 .. AgeCap
  BY CapsAre, CappedBounds
<1>2. Capped(RelatedCap, 2 * Point * related) \in 0 .. RelatedCap
  <2>1. 2 * Point * related \in Nat
    BY PointIsLarge
  <2>. QED
    BY CapsAre, CappedBounds, <2>1
<1>3. Capped(HistoryCap, 3 * Point * incidents) \in 0 .. HistoryCap
  <2>1. 3 * Point * incidents \in Nat
    BY PointIsLarge
  <2>. QED
    BY CapsAre, CappedBounds, <2>1
<1>. QED
  BY CapsAre, <1>1, <1>2, <1>3 DEF Sum, SecondaryCaps

LEMMA ClampBounds ==
  ASSUME NEW x \in Int
  PROVE  Clamp(x) \in 0 .. 100 * Point /\ (x \in 0 .. 100 * Point => Clamp(x) = x)
BY PointIsLarge DEF Clamp

LEMMA ScoresAreNat == Scores \subseteq Nat
BY DEF Scores

LEMMA RoundedBounds ==
  ASSUME NEW x \in 0 .. 100 * Point
  PROVE  /\ Rounded(x) \in Scores
         /\ Tenth * Rounded(x) - 50 <= x /\ x < Tenth * Rounded(x) + 50
<1>. DEFINE r == Rounded(x)
<1>0. x + 50 \in Nat /\ r = (x + 50) \div 100
  BY PointIsLarge, TenthIs DEF Rounded
<1>1. 100 * r <= x + 50 /\ x + 50 < 100 * r + 100 /\ r \in Nat
  BY <1>0
<1>. HIDE DEF r
<1>2. r \in Scores
  <2>1. r \in 0 .. Point
    BY <1>1, PointIsLarge
  <2>2. Scores = 0 .. Point
    BY PointsAreTenths, Zenon DEF Scores
  <2>. QED
    BY <2>1, <2>2, Zenon
<1>. QED
  BY TenthIs, <1>1, <1>2 DEF r

(* README.md, "every secondary factor is capped": exposure, age, related   *)
(* findings and history together never add more than 42 points to the      *)
(* weighted severity, and two scores that differ only in one of them       *)
(* differ by at most its cap.                                              *)
THEOREM NoFactorDominates ==
  ASSUME NEW weighted \in Nat, NEW exposed \in BOOLEAN,
         NEW age \in Nat, NEW related \in Nat, NEW incidents \in Nat,
         NEW age2 \in Nat, NEW related2 \in Nat, NEW incidents2 \in Nat
  PROVE  /\ Sum(weighted, exposed, age, related, incidents) - weighted \in 0 .. 42 * Point
         /\ Sum(weighted, exposed, age2, related, incidents)
              - Sum(weighted, exposed, age, related, incidents) <= AgeCap
         /\ Sum(weighted, exposed, age, related2, incidents)
              - Sum(weighted, exposed, age, related, incidents) <= RelatedCap
         /\ Sum(weighted, exposed, age, related, incidents2)
              - Sum(weighted, exposed, age, related, incidents) <= HistoryCap
<1>. DEFINE A(x) == Capped(AgeCap, x)
            R(x) == Capped(RelatedCap, 2 * Point * x)
            H(x) == Capped(HistoryCap, 3 * Point * x)
<1>1. \A x \in Nat : A(x) \in 0 .. AgeCap
  BY CapsAre, CappedBounds
<1>2. \A x \in Nat : R(x) \in 0 .. RelatedCap
  <2>1. \A x \in Nat : 2 * Point * x \in Nat
    BY PointIsLarge
  <2>. QED
    BY CapsAre, CappedBounds, <2>1
<1>3. \A x \in Nat : H(x) \in 0 .. HistoryCap
  <2>1. \A x \in Nat : 3 * Point * x \in Nat
    BY PointIsLarge
  <2>. QED
    BY CapsAre, CappedBounds, <2>1
<1>4. Sum(weighted, exposed, age, related, incidents) - weighted \in 0 .. 42 * Point
  <2>1. SecondaryCaps = 42 * Point
    BY CapsAre, PointIsLarge DEF SecondaryCaps
  <2>2. Sum(weighted, exposed, age, related, incidents) \in weighted .. weighted + 42 * Point
    BY SumBounds, <2>1
  <2>. HIDE DEF A, R, H
  <2>. QED
    BY <2>2, PointIsLarge
<1>5. \A a, r, h \in Nat :
        Sum(weighted, exposed, a, r, h)
          = weighted + (IF exposed THEN ExposureBonus ELSE 0) + A(a) + R(r) + H(h)
  BY DEF Sum
<1>. DEFINE base == weighted + (IF exposed THEN ExposureBonus ELSE 0)
<1>6. base \in Nat
  BY CapsAre
<1>. HIDE DEF A, R, H, base
<1>7. /\ A(age) \in 0 .. AgeCap /\ A(age2) \in 0 .. AgeCap
      /\ R(related) \in 0 .. RelatedCap /\ R(related2) \in 0 .. RelatedCap
      /\ H(incidents) \in 0 .. HistoryCap /\ H(incidents2) \in 0 .. HistoryCap
  BY <1>1, <1>2, <1>3
<1>8. /\ (base + A(age2) + R(related) + H(incidents))
           - (base + A(age) + R(related) + H(incidents)) <= AgeCap
      /\ (base + A(age) + R(related2) + H(incidents))
           - (base + A(age) + R(related) + H(incidents)) <= RelatedCap
      /\ (base + A(age) + R(related) + H(incidents2))
           - (base + A(age) + R(related) + H(incidents)) <= HistoryCap
  BY CapsAre, <1>6, <1>7
<1>. QED
  BY <1>4, <1>5, <1>8 DEF base

(* The published band of a finding is the band of its published score,     *)
(* except within half a tenth below a threshold, where round() carries the *)
(* score over it and the band was chosen before.                           *)
Thresholds == {30 * Point, 50 * Point, 70 * Point, 85 * Point}

THEOREM BandIsOfTheScore ==
  ASSUME NEW total \in 0 .. 100 * Point,
         \A threshold \in Thresholds : total \notin threshold - 50 .. threshold - 1
  PROVE  BandOf(Tenth * Rounded(total)) = BandOf(total)
<1>. DEFINE r == Rounded(total)
<1>1. r \in Nat /\ Tenth * r - 50 <= total /\ total < Tenth * r + 50
  <2>1. r \in Scores
    BY RoundedBounds
  <2>. QED
    BY RoundedBounds, <2>1, ScoresAreNat
<1>. HIDE DEF r
<1>2. ASSUME NEW n \in {30, 50, 70, 85}
      PROVE  Tenth * r >= n * Point <=> total >= n * Point
  <2>1. \/ total < n * Point - 50
        \/ total >= n * Point
    BY PointIsLarge DEF Thresholds
  <2>2. n * Point = 100 * (10 * n) /\ 10 * n \in Nat
    <3>1. n \in Nat
      OBVIOUS
    <3>. QED
      BY <3>1, PointsAreTenths, Zenon
  <2>. DEFINE bound == n * Point  k == 10 * n
  <2>3. bound = 100 * k /\ k \in Nat /\ Tenth * r = 100 * r
    BY <1>1, <2>2, TenthIs
  <2>4. total < bound - 50 \/ total >= bound
    BY <2>1
  <2>. HIDE DEF bound, k
  <2>5. 100 * r >= 100 * k <=> total >= 100 * k
    BY <1>1, <2>3, <2>4
  <2>6. Tenth * r >= bound <=> total >= bound
    BY <2>3, <2>5
  <2>. QED
    BY <2>6 DEF bound
<1>3. BandOf(Tenth * r) = BandOf(total)
  BY <1>2 DEF BandOf
<1>. QED
  BY <1>3 DEF r

(* An incident is never severe: a cluster is scored as one finding of a    *)
(* tier-1 asset, without exposure, age or history, so it has 82 points at  *)
(* most, whatever its members are.                                         *)
LEMMA ClusterWeight ==
  ASSUME NEW s, NEW e
  PROVE  Weighted(s, "tier-1", e) \in 0 .. 70 * Point
<1>1. SeverityWeight(s) \in 0 .. 40
  BY DEF SeverityWeight
<1>2. CriticalityMultiplier("tier-1") = 125
  BY DEF CriticalityMultiplier
<1>3. EnvironmentMultiplier(e) \in {5, 7, 10, 14}
  BY DEF EnvironmentMultiplier
<1>4. ASSUME NEW x \in 0 .. 40
      PROVE  x * 125 \in 0 .. 5 * Point
  BY PointIs
<1>5. ASSUME NEW x \in 0 .. 5 * Point, NEW y \in {5, 7, 10, 14}
      PROVE  x * y \in 0 .. 70 * Point
  <2>1. CASE y = 5
    BY PointIsLarge, <2>1
  <2>2. CASE y = 7
    BY PointIsLarge, <2>2
  <2>3. CASE y = 10
    BY PointIsLarge, <2>3
  <2>4. CASE y = 14
    BY PointIsLarge, <2>4
  <2>. QED
    BY <2>1, <2>2, <2>3, <2>4
<1>. QED
  BY <1>1, <1>2, <1>3, <1>4, <1>5 DEF Weighted

THEOREM IncidentIsNeverSevere ==
  ASSUME NEW c \in Clusters
  PROVE  ClusterTotal(c) \in 0 .. 82 * Point /\ BandOf(ClusterTotal(c)) # "severe"
<1>. DEFINE w == Weighted(WorstOf(c.severities), "tier-1", c.environment)
            total == Sum(w, FALSE, 0, c.findings, 0)
<1>1. w \in 0 .. 70 * Point
  BY ClusterWeight
<1>2. c.findings \in Nat
  BY RiskAssumption
<1>. HIDE DEF w
<1>3. total = w + Capped(AgeCap, 0) + Capped(RelatedCap, 2 * Point * c.findings)
                + Capped(HistoryCap, 3 * Point * 0)
  BY <1>1, CapsAre DEF Sum, Capped
<1>4. Capped(RelatedCap, 2 * Point * c.findings) \in 0 .. RelatedCap
  <2>1. 2 * Point * c.findings \in Nat
    BY PointIsLarge, <1>2
  <2>. QED
    BY CapsAre, CappedBounds, <2>1
<1>5. Capped(AgeCap, 0) = 0 /\ Capped(HistoryCap, 3 * Point * 0) = 0
  BY CapsAre, PointIsLarge DEF Capped
<1>6. total \in 0 .. 82 * Point
  <2>1. ASSUME NEW related \in 0 .. RelatedCap
        PROVE  w + 0 + related + 0 \in 0 .. 82 * Point
    BY <1>1, CapsAre, PointIsLarge
  <2>. QED
    BY <1>3, <1>4, <1>5, <2>1
<1>7. ClusterTotal(c) = Clamp(total)
  BY DEF ClusterTotal, w
<1>. HIDE DEF total
<1>8. ClusterTotal(c) \in 0 .. 82 * Point
  BY <1>6, <1>7, ClampBounds, PointIsLarge
<1>. QED
  BY <1>8, PointIsLarge DEF BandOf
-----------------------------------------------------------------------------
(* The state of the risk-engine.  Stable is what the theorems rest on: the *)
(* handler of an undisturbed asset runs at the owner of the partition, on  *)
(* the message after the cursor, and what it has loaded, written and       *)
(* ranked is what the roll-up and the leaderboard hold.                    *)
FiniteFindings == {F \in SUBSET FindingIds : IsFiniteSet(F)}
Rollups  == [score : Scores, findings : FiniteFindings, incidents : {0}]
Stages   == {"scored", "loaded", "written", "ranked"}
HandlerStates ==
  [asset : Assets, offset : Nat, finding : FindingIds, score : Scores, band : Bands,
   previous : Scores, related : FiniteFindings, next : Rollups, stage : Stages]

Typed ==
  /\ log \in [Assets -> Seq(Findings)]
  /\ owner \in [Assets -> Workers \cup {Nobody}]
  /\ cursor \in [Assets -> Nat] /\ start \in [Assets -> Nat]
  /\ committed \in [Assets -> Nat \cup {NoOffset}]
  /\ work \in [Workers -> SUBSET HandlerStates]
  /\ rollup \in [Assets -> Rollups] /\ leaderboard \in [Assets -> Scores]

LogsByAsset == \A a \in Assets : \A o \in 1 .. Len(log[a]) : log[a][o].asset = a
CommittedBehind ==
  \A a \in Assets : /\ committed[a] <= cursor[a] /\ start[a] <= cursor[a]
                    /\ cursor[a] <= Len(log[a])
                    /\ committed[a] # NoOffset => start[a] < committed[a]
OneHandler == \A w \in Workers : \A g, h \in work[w] : g = h
OnAMessage == \A w \in Workers : \A h \in work[w] :
                /\ h.offset \in 1 .. Len(log[h.asset])
                /\ h.finding = log[h.asset][h.offset].id
ScoredUpdates == \A u \in updates :
                   /\ u.score \in Scores /\ u.previous \in Scores /\ u.band \in Bands
                   /\ u.subjectType = "finding" => u.asset \in Assets
Placed == LogsByAsset /\ CommittedBehind /\ OneHandler /\ OnAMessage /\ ScoredUpdates

Stands(w, h) ==
  /\ owner[h.asset] = w /\ h.offset = cursor[h.asset] + 1
  /\ h.stage # "scored" => h.finding \in h.next.findings /\ h.score <= h.next.score
  /\ h.stage = "loaded" => /\ rollup[h.asset].findings \subseteq h.next.findings
                           /\ rollup[h.asset].score <= h.next.score
  /\ h.stage \in {"written", "ranked"} => rollup[h.asset] = h.next
  /\ h.stage = "ranked" => leaderboard[h.asset] = h.next.score
Stable == \A w \in Workers : \A h \in work[w] : h.asset \notin disturbed => Stands(w, h)

IInv == Typed /\ Placed /\ Stable /\ PublishedIsRecorded /\ LeaderboardFollowsRollup

(* What the handlers compute has its type.                                 *)
LEMMA BlankIsARollup == Blank \in Rollups
<1>1. 0 \in Scores
  BY DEF Scores
<1>2. {} \in FiniteFindings
  BY FS_EmptySet DEF FiniteFindings
<1>. QED
  BY <1>1, <1>2 DEF Blank, Rollups

LEMMA BandOfABand == ASSUME NEW x PROVE BandOf(x) \in Bands
BY DEF BandOf, Bands

LEMMA FindingScored ==
  ASSUME NEW f \in Findings, NEW age \in AgePoints, NEW state \in Rollups
  PROVE  Rounded(FindingTotal(f, age, state)) \in Scores
<1>. DEFINE w == Weighted(f.severity, CriticalityOf(f), f.environment)
            n == Cardinality(state.findings)
<1>1. w \in Nat
  BY WeightedBounds, PointIsLarge
<1>2. n \in Nat
  BY FS_CardinalityType DEF Rollups, FiniteFindings
<1>3. f.exposed \in BOOLEAN /\ age \in Nat /\ state.incidents = 0
  BY RiskAssumption, CapsAre DEF Rollups
<1>. HIDE DEF w, n
<1>4. Sum(w, f.exposed, age, n, state.incidents) \in Nat
  <2>1. ASSUME NEW e \in BOOLEAN
        PROVE  Sum(w, e, age, n, 0) \in w .. w + SecondaryCaps
    <3>1. 0 \in Nat
      OBVIOUS
    <3>. QED
      BY <1>1, <1>2, <1>3, <3>1, SumBounds
  <2>. QED
    BY <1>1, <1>3, <2>1
<1>5. FindingTotal(f, age, state) \in 0 .. 100 * Point
  BY <1>4, ClampBounds DEF FindingTotal, w, n
<1>. QED
  BY <1>5, RoundedBounds

LEMMA ClusterScored ==
  ASSUME NEW c \in Clusters
  PROVE  LET u == ClusterUpdate(c)
         IN  /\ u.score \in Scores /\ u.previous \in Scores /\ u.band \in Bands
             /\ u.subjectType # "finding"
<1>. DEFINE r == Rounded(ClusterTotal(c))
<1>1. ClusterTotal(c) \in 0 .. 100 * Point
  BY IncidentIsNeverSevere, PointIsLarge
<1>2. r \in Scores
  BY <1>1, RoundedBounds
<1>. HIDE DEF r
<1>3. c.confidence \in 0 .. 100
  BY RiskAssumption
<1>4. ASSUME NEW x \in Scores, NEW y \in 0 .. 100
      PROVE  (x * y + 50) \div 100 \in Scores
  <2>1. x \in 0 .. Point
    BY PointIs DEF Scores
  <2>2. x * y \in 0 .. x * 100
    BY <2>1
  <2>. DEFINE p == x * y
  <2>3. p \in 0 .. 100 * Point
    BY <2>1, <2>2, PointIsLarge
  <2>. HIDE DEF p
  <2>4. (p + 50) \div 100 \in 0 .. Point
    BY <2>3, PointIsLarge
  <2>. QED
    BY <2>4, PointIs DEF Scores, p
<1>5. 0 \in Scores
  BY DEF Scores
<1>. QED
  BY <1>2, <1>3, <1>4, <1>5, BandOfABand DEF ClusterUpdate, r

LEMMA RecordedIsARollup ==
  ASSUME NEW state \in Rollups, NEW h \in HandlerStates
  PROVE  /\ Recorded(state, h) \in Rollups
         /\ Recorded(state, h).findings = state.findings \cup {h.finding}
         /\ state.score <= Recorded(state, h).score
         /\ h.score <= Recorded(state, h).score
<1>1. Worse(state.score, h.score) \in Scores
  BY DEF Worse, Rollups, HandlerStates
<1>2. state.findings \cup {h.finding} \in FiniteFindings
  BY FS_AddElement DEF Rollups, FiniteFindings, HandlerStates
<1>3. state.score <= Worse(state.score, h.score) /\ h.score <= Worse(state.score, h.score)
  <2>1. state.score \in Nat /\ h.score \in Nat
    BY ScoresAreNat DEF Rollups, HandlerStates
  <2>. QED
    BY <2>1 DEF Worse
<1>. QED
  BY <1>1, <1>2, <1>3 DEF Recorded, Rollups
LEMMA ScoredHandler ==
  ASSUME Typed, NEW w \in Workers, NEW a \in Assets, Score(w, a)
  PROVE  \E h \in HandlerStates :
           /\ work' = [work EXCEPT ![w] = {h}]
           /\ h.asset = a /\ h.offset = cursor[a] + 1 /\ h.offset \in 1 .. Len(log[a])
           /\ h.finding = log[a][h.offset].id /\ h.stage = "scored"
<1>1. PICK state \in {rollup[a], Blank}, age \in AgePoints :
        LET f     == log[a][cursor[a] + 1]
            total == FindingTotal(f, age, state)
        IN  work' = [work EXCEPT ![w] =
              {[asset |-> a, offset |-> cursor[a] + 1, finding |-> f.id,
                score |-> Rounded(total), band |-> BandOf(total),
                previous |-> state.score, related |-> state.findings,
                next |-> Blank, stage |-> "scored"]}]
  BY DEF Score
<1>. DEFINE f     == log[a][cursor[a] + 1]
            total == FindingTotal(f, age, state)
            h     == [asset |-> a, offset |-> cursor[a] + 1, finding |-> f.id,
                      score |-> Rounded(total), band |-> BandOf(total),
                      previous |-> state.score, related |-> state.findings,
                      next |-> Blank, stage |-> "scored"]
<1>2. cursor[a] \in Nat /\ cursor[a] < Len(log[a]) /\ log[a] \in Seq(Findings)
  BY DEF Typed, Score
<1>3. f \in Findings /\ cursor[a] + 1 \in 1 .. Len(log[a])
  BY <1>2
<1>4. state \in Rollups
  BY BlankIsARollup DEF Typed
<1>5. Rounded(total) \in Scores /\ BandOf(total) \in Bands
  BY <1>3, <1>4, FindingScored, BandOfABand
<1>6. h \in HandlerStates
  BY <1>2, <1>3, <1>4, <1>5, BlankIsARollup DEF HandlerStates, Rollups, Stages, FindingIds
<1>. QED
  BY <1>1, <1>3, <1>6

LEMMA ReloadedHandler ==
  ASSUME Typed, NEW w \in Workers, Reload(w)
  PROVE  \E h \in work[w], state \in Rollups :
           LET n == [h EXCEPT !.next = Recorded(state, h), !.stage = "loaded"]
           IN  /\ work' = [work EXCEPT ![w] = {n}] /\ n \in HandlerStates
               /\ h \in HandlerStates /\ h.stage = "scored"
               /\ disturbed \subseteq disturbed'
               /\ h.asset \notin disturbed' => state = rollup[h.asset]
<1>1. PICK h \in work[w] : \E state \in {rollup[h.asset], Blank} :
        /\ h.stage = "scored" /\ Reading(h.asset, state)
        /\ work' = [work EXCEPT ![w] = {[h EXCEPT !.next = Recorded(state, h), !.stage = "loaded"]}]
  BY DEF Reload
<1>2. PICK state \in {rollup[h.asset], Blank} :
        /\ h.stage = "scored" /\ Reading(h.asset, state)
        /\ work' = [work EXCEPT ![w] = {[h EXCEPT !.next = Recorded(state, h), !.stage = "loaded"]}]
  BY <1>1
<1>3. h \in HandlerStates
  BY DEF Typed
<1>4. h.asset \in Assets
  BY <1>3 DEF HandlerStates
<1>5. state \in Rollups
  BY <1>4, BlankIsARollup DEF Typed
<1>6. Recorded(state, h) \in Rollups
  BY <1>3, <1>5, RecordedIsARollup
<1>7. [h EXCEPT !.next = Recorded(state, h), !.stage = "loaded"] \in HandlerStates
  BY <1>3, <1>6 DEF HandlerStates, Stages
<1>8. disturbed \subseteq disturbed' /\ (h.asset \notin disturbed' => state = rollup[h.asset])
  BY <1>2 DEF Reading
<1>. QED
  BY <1>2, <1>3, <1>5, <1>7, <1>8

LEMMA StagedHandler ==
  ASSUME Typed, NEW w \in Workers, NEW h \in work[w], NEW s \in Stages
  PROVE  h \in HandlerStates /\ [h EXCEPT !.stage = s] \in HandlerStates
<1>1. h \in HandlerStates
  BY DEF Typed
<1>. QED
  BY <1>1 DEF HandlerStates

(* Where partitions are read from again.                                   *)
LEMMA Restarted ==
  ASSUME Typed, NEW S, Restart(S)
  PROVE  /\ cursor' \in [Assets -> Nat] /\ start' \in [Assets -> Nat]
         /\ \A a \in Assets :
              \/ cursor'[a] = cursor[a] /\ start'[a] = start[a] /\ a \notin S
              \/ /\ committed[a] = NoOffset /\ a \in S
                 /\ cursor'[a] = Len(log[a]) /\ start'[a] = Len(log[a])
              \/ /\ committed[a] # NoOffset /\ a \in S
                 /\ cursor'[a] = committed[a] /\ start'[a] = start[a]
<1>1. \A a \in Assets : Len(log[a]) \in Nat
  BY DEF Typed
<1>. QED
  BY <1>1 DEF Typed, Restart

LEMMA Resolved ==
  ASSUME Typed, NEW w \in Workers, NEW h \in work[w], Resolve(w, h)
  PROVE  /\ cursor' \in [Assets -> Nat]
         /\ \A a \in Assets : \/ cursor'[a] = cursor[a]
                              \/ /\ cursor'[a] = cursor[a] + 1 /\ cursor'[a] = h.offset
                                 /\ h.asset = a /\ owner[a] = w
<1>1. h \in HandlerStates
  BY DEF Typed
<1>2. h.asset \in Assets /\ h.offset \in Nat
  BY <1>1 DEF HandlerStates
<1>. QED
  BY <1>2 DEF Typed, Resolve

LEMMA HandlerTyped ==
  ASSUME Typed, NEW w \in Workers, NEW n \in HandlerStates, work' = [work EXCEPT ![w] = {n}]
  PROVE  work' \in [Workers -> SUBSET HandlerStates]
BY DEF Typed

LEMMA TypedNext == ASSUME Typed, [Next]_vars PROVE Typed'
<1>. USE DEF queue, redis, bounds
<1>1. ASSUME NEW f \in Findings, Detect(f) PROVE Typed'
  <2>1. f.asset \in Assets
    BY RiskAssumption
  <2>2. Append(log[f.asset], f) \in Seq(Findings)
    BY <2>1 DEF Typed
  <2>. QED
    BY <1>1, <2>1, <2>2 DEF Typed, Detect
<1>2. ASSUME NEW w \in Workers, NEW a \in Assets, Score(w, a) PROVE Typed'
  <2>1. work' \in [Workers -> SUBSET HandlerStates]
    BY <1>2, ScoredHandler, HandlerTyped
  <2>2. UNCHANGED <<queue, redis>>
    BY <1>2 DEF Score
  <2>. QED
    BY <2>1, <2>2 DEF Typed
<1>3. ASSUME NEW w \in Workers, Reload(w) \/ Write(w) \/ Rank(w) PROVE Typed'
  <2>1. CASE Reload(w)
    <3>1. work' \in [Workers -> SUBSET HandlerStates]
      BY <2>1, ReloadedHandler, HandlerTyped
    <3>2. UNCHANGED <<queue, redis>>
      BY <2>1 DEF Reload
    <3>. QED
      BY <3>1, <3>2 DEF Typed
  <2>2. CASE Write(w)
    <3>1. PICK h \in work[w] :
            /\ rollup' = [rollup EXCEPT ![h.asset] = h.next]
            /\ work' = [work EXCEPT ![w] = {[h EXCEPT !.stage = "written"]}]
      BY <2>2 DEF Write
    <3>2. h \in HandlerStates /\ [h EXCEPT !.stage = "written"] \in HandlerStates
      BY StagedHandler DEF Stages
    <3>3. work' \in [Workers -> SUBSET HandlerStates]
      BY <3>1, <3>2, HandlerTyped
    <3>4. rollup' \in [Assets -> Rollups]
      BY <3>1, <3>2 DEF Typed, HandlerStates
    <3>5. UNCHANGED <<queue, leaderboard>>
      BY <2>2 DEF Write
    <3>. QED
      BY <3>3, <3>4, <3>5 DEF Typed
  <2>3. CASE Rank(w)
    <3>1. PICK h \in work[w] :
            /\ leaderboard' = [leaderboard EXCEPT ![h.asset] = RankOf(h)]
            /\ work' = [work EXCEPT ![w] = {[h EXCEPT !.stage = "ranked"]}]
      BY <2>3 DEF Rank
    <3>2. h \in HandlerStates /\ [h EXCEPT !.stage = "ranked"] \in HandlerStates
      BY StagedHandler DEF Stages
    <3>3. work' \in [Workers -> SUBSET HandlerStates]
      BY <3>1, <3>2, HandlerTyped
    <3>4. RankOf(h) \in Scores
      BY <3>2 DEF RankOf, HandlerStates, Rollups
    <3>5. leaderboard' \in [Assets -> Scores]
      BY <3>1, <3>4 DEF Typed
    <3>6. UNCHANGED <<queue, rollup>>
      BY <2>3 DEF Rank
    <3>. QED
      BY <3>3, <3>5, <3>6 DEF Typed
  <2>. QED
    BY <1>3, <2>1, <2>2, <2>3
<1>4. ASSUME NEW w \in Workers, Announce(w) \/ Fail(w) \/ Crash(w) PROVE Typed'
  <2>1. CASE Announce(w) \/ Fail(w)
    <3>1. PICK h \in work[w] : work' = [work EXCEPT ![w] = {}] /\ Resolve(w, h)
      BY <2>1 DEF Announce, Fail
    <3>2. cursor' \in [Assets -> Nat]
      BY <3>1, Resolved
    <3>. QED
      BY <2>1, <3>1, <3>2 DEF Typed, Announce, Fail
  <2>2. CASE Crash(w)
    <3>1. cursor' \in [Assets -> Nat] /\ start' \in [Assets -> Nat]
      BY <2>2, Restarted DEF Crash
    <3>. QED
      BY <2>2, <3>1 DEF Typed, Crash
  <2>. QED
    BY <1>4, <2>1, <2>2
<1>5. ASSUME NEW c \in Clusters, Correlate(c) PROVE Typed'
  BY <1>5 DEF Typed, Correlate
<1>6. ASSUME NEW a \in Assets, Commit(a) \/ Expire(a) PROVE Typed'
  BY <1>6, BlankIsARollup DEF Typed, Commit, Expire
<1>7. ASSUME NEW a \in Assets, NEW w \in Workers \cup {Nobody}, Rebalance(a, w) PROVE Typed'
  <2>1. cursor' \in [Assets -> Nat] /\ start' \in [Assets -> Nat]
    BY <1>7, Restarted DEF Rebalance
  <2>. QED
    BY <1>7, <2>1 DEF Typed, Rebalance
<1>8. CASE UNCHANGED vars
  BY <1>8 DEF Typed, vars
<1>. QED
  BY <1>1, <1>2, <1>3, <1>4, <1>5, <1>6, <1>7, <1>8 DEF Next

(* What each step leaves alone, for the proofs to cite in the place of the *)
(* actions themselves.                                                     *)
LEMMA Frames ==
  /\ \A f \in Findings :
       Detect(f) => UNCHANGED <<owner, cursor, committed, start, work, rollup, leaderboard,
                                updates, dropped, disturbed>>
  /\ \A w \in Workers, a \in Assets :
       Score(w, a) => UNCHANGED <<log, owner, cursor, committed, start, rollup, leaderboard,
                                  updates, dropped>>
  /\ \A w \in Workers :
       /\ Reload(w) => UNCHANGED <<log, owner, cursor, committed, start, rollup, leaderboard,
                                   updates, dropped>>
       /\ Write(w) => UNCHANGED <<log, owner, cursor, committed, start, leaderboard, updates,
                                  dropped, disturbed>>
       /\ Rank(w) => UNCHANGED <<log, owner, cursor, committed, start, rollup, updates, dropped,
                                 disturbed>>
       /\ Announce(w) => UNCHANGED <<log, owner, committed, start, rollup, leaderboard, dropped,
                                     disturbed>>
       /\ Fail(w) => UNCHANGED <<log, owner, committed, start, rollup, leaderboard, updates,
                                 disturbed>>
       /\ Crash(w) => UNCHANGED <<log, owner, committed, rollup, leaderboard, updates, dropped,
                                  disturbed>>
  /\ \A c \in Clusters :
       Correlate(c) => UNCHANGED <<log, owner, cursor, committed, start, work, rollup,
                                   leaderboard, dropped, disturbed>>
  /\ \A a \in Assets :
       /\ Commit(a) => UNCHANGED <<log, owner, cursor, start, work, rollup, leaderboard,
                                   updates, dropped, disturbed>>
       /\ Expire(a) => UNCHANGED <<log, owner, cursor, committed, start, work, leaderboard,
                                   updates, dropped>>
  /\ \A a \in Assets, w \in Workers \cup {Nobody} :
       Rebalance(a, w) => UNCHANGED <<log, committed, work, rollup, leaderboard, updates,
                                      dropped>>
  /\ UNCHANGED vars => UNCHANGED <<log, owner, cursor, committed, start, work, rollup,
                                   leaderboard, updates, dropped, disturbed>>
<1>1. ASSUME NEW f \in Findings, Detect(f)
      PROVE  UNCHANGED <<owner, cursor, committed, start, work, rollup, leaderboard, updates,
                         dropped, disturbed>>
  BY <1>1 DEF Detect, redis
<1>2. ASSUME NEW w \in Workers, NEW a \in Assets, Score(w, a)
      PROVE  UNCHANGED <<log, owner, cursor, committed, start, rollup, leaderboard, updates,
                         dropped>>
  BY <1>2 DEF Score, queue, redis
<1>3. ASSUME NEW w \in Workers, Reload(w)
      PROVE  UNCHANGED <<log, owner, cursor, committed, start, rollup, leaderboard, updates,
                         dropped>>
  BY <1>3 DEF Reload, queue, redis
<1>4. ASSUME NEW w \in Workers, Write(w)
      PROVE  UNCHANGED <<log, owner, cursor, committed, start, leaderboard, updates, dropped,
                         disturbed>>
  BY <1>4 DEF Write, queue
<1>5. ASSUME NEW w \in Workers, Rank(w)
      PROVE  UNCHANGED <<log, owner, cursor, committed, start, rollup, updates, dropped,
                         disturbed>>
  BY <1>5 DEF Rank, queue
<1>6. ASSUME NEW w \in Workers, Announce(w)
      PROVE  UNCHANGED <<log, owner, committed, start, rollup, leaderboard, dropped, disturbed>>
  BY <1>6 DEF Announce, redis
<1>7. ASSUME NEW w \in Workers, Fail(w)
      PROVE  UNCHANGED <<log, owner, committed, start, rollup, leaderboard, updates, disturbed>>
  BY <1>7 DEF Fail, redis
<1>8. ASSUME NEW w \in Workers, Crash(w)
      PROVE  UNCHANGED <<log, owner, committed, rollup, leaderboard, updates, dropped,
                         disturbed>>
  BY <1>8 DEF Crash, redis
<1>9. ASSUME NEW c \in Clusters, Correlate(c)
      PROVE  UNCHANGED <<log, owner, cursor, committed, start, work, rollup, leaderboard,
                         dropped, disturbed>>
  BY <1>9 DEF Correlate, queue, redis
<1>10. ASSUME NEW a \in Assets, Commit(a)
       PROVE  UNCHANGED <<log, owner, cursor, start, work, rollup, leaderboard, updates,
                          dropped, disturbed>>
  BY <1>10 DEF Commit, redis
<1>11. ASSUME NEW a \in Assets, Expire(a)
       PROVE  UNCHANGED <<log, owner, cursor, committed, start, work, leaderboard, updates,
                          dropped>>
  BY <1>11 DEF Expire, queue
<1>12. ASSUME NEW a \in Assets, NEW w \in Workers \cup {Nobody}, Rebalance(a, w)
       PROVE  UNCHANGED <<log, committed, work, rollup, leaderboard, updates, dropped>>
  BY <1>12 DEF Rebalance, redis
<1>13. ASSUME UNCHANGED vars
       PROVE  UNCHANGED <<log, owner, cursor, committed, start, work, rollup, leaderboard,
                          updates, dropped, disturbed>>
  BY <1>13 DEF vars, queue, redis
<1>. QED
  BY <1>1, <1>2, <1>3, <1>4, <1>5, <1>6, <1>7, <1>8, <1>9, <1>10, <1>11, <1>12, <1>13

(* What a step does to the logs and to the handlers.                       *)
LEMMA LogGrows ==
  ASSUME Typed, [Next]_vars, NEW a \in Assets
  PROVE  /\ Len(log[a]) <= Len(log'[a])
         /\ \A o \in 1 .. Len(log[a]) : log'[a][o] = log[a][o]
<1>1. log[a] \in Seq(Findings)
  BY DEF Typed
<1>2. ASSUME NEW f \in Findings, Detect(f) PROVE log'[a] = log[a] \/ log'[a] = Append(log[a], f)
  BY <1>2 DEF Detect, Typed
<1>3. (\E f \in Findings : Detect(f)) \/ UNCHANGED log
  BY Frames DEF Next
<1>4. CASE UNCHANGED log
  BY <1>1, <1>4
<1>5. ASSUME NEW f \in Findings, log'[a] = Append(log[a], f)
      PROVE  /\ Len(log[a]) <= Len(log'[a])
             /\ \A o \in 1 .. Len(log[a]) : log'[a][o] = log[a][o]
  BY <1>1, <1>5
<1>. QED
  BY <1>1, <1>2, <1>3, <1>4, <1>5

LEMMA HandlerStep ==
  ASSUME Typed, OnAMessage, [Next]_vars, NEW v \in Workers
  PROVE  \/ work'[v] \subseteq work[v]
         \/ \E n \in HandlerStates : /\ work'[v] = {n}
                                     /\ n.offset \in 1 .. Len(log[n.asset])
                                     /\ n.finding = log[n.asset][n.offset].id
<1>. DEFINE P == \/ work'[v] \subseteq work[v]
                 \/ \E n \in HandlerStates : /\ work'[v] = {n}
                                             /\ n.offset \in 1 .. Len(log[n.asset])
                                             /\ n.finding = log[n.asset][n.offset].id
<1>0. work \in [Workers -> SUBSET HandlerStates]
  BY DEF Typed
<1>1. ASSUME NEW w \in Workers, NEW a \in Assets, Score(w, a) PROVE P
  <2>1. PICK h \in HandlerStates :
          /\ work' = [work EXCEPT ![w] = {h}]
          /\ h.asset = a /\ h.offset = cursor[a] + 1 /\ h.offset \in 1 .. Len(log[a])
          /\ h.finding = log[a][h.offset].id /\ h.stage = "scored"
    BY <1>1, ScoredHandler
  <2>. QED
    BY <1>0, <2>1
<1>2. ASSUME NEW w \in Workers, NEW h \in work[w], NEW n \in HandlerStates,
             work' = [work EXCEPT ![w] = {n}],
             n.asset = h.asset, n.offset = h.offset, n.finding = h.finding
      PROVE  P
  BY <1>0, <1>2 DEF OnAMessage
<1>3. ASSUME NEW w \in Workers, Reload(w) PROVE P
  <2>1. PICK h \in work[w], state \in Rollups :
          LET n == [h EXCEPT !.next = Recorded(state, h), !.stage = "loaded"]
          IN  work' = [work EXCEPT ![w] = {n}] /\ n \in HandlerStates /\ h \in HandlerStates
    BY <1>3, ReloadedHandler
  <2>. DEFINE n == [h EXCEPT !.next = Recorded(state, h), !.stage = "loaded"]
  <2>2. n.asset = h.asset /\ n.offset = h.offset /\ n.finding = h.finding
    BY <2>1 DEF HandlerStates
  <2>. HIDE DEF n
  <2>. QED
    BY <1>2, <2>1, <2>2 DEF n
<1>4. ASSUME NEW w \in Workers, Write(w) \/ Rank(w) PROVE P
  <2>1. PICK h \in work[w], s \in Stages : work' = [work EXCEPT ![w] = {[h EXCEPT !.stage = s]}]
    BY <1>4 DEF Write, Rank, Stages
  <2>. DEFINE n == [h EXCEPT !.stage = s]
  <2>2. h \in HandlerStates /\ n \in HandlerStates
    BY StagedHandler
  <2>3. n.asset = h.asset /\ n.offset = h.offset /\ n.finding = h.finding
    BY <2>2 DEF HandlerStates
  <2>4. work' = [work EXCEPT ![w] = {n}]
    BY <2>1
  <2>. HIDE DEF n
  <2>. QED
    BY <1>2, <2>2, <2>3, <2>4
<1>5. ASSUME NEW w \in Workers, Announce(w) \/ Fail(w) \/ Crash(w) PROVE P
  BY <1>0, <1>5 DEF Announce, Fail, Crash
<1>6. UNCHANGED work => P
  OBVIOUS
<1>7. \/ \E w \in Workers, a \in Assets : Score(w, a)
      \/ \E w \in Workers : Reload(w) \/ Write(w) \/ Rank(w) \/ Announce(w) \/ Fail(w) \/ Crash(w)
      \/ UNCHANGED work
  BY Frames DEF Next
<1>. QED
  BY <1>1, <1>3, <1>4, <1>5, <1>6, <1>7

LEMMA PlacedNext == ASSUME Typed, Typed', Placed, [Next]_vars PROVE Placed'
<1>. USE DEF Placed
<1>1. LogsByAsset'
  <2>1. ASSUME NEW f \in Findings, Detect(f), NEW a \in Assets, NEW o \in 1 .. Len(log'[a])
        PROVE  log'[a][o].asset = a
    <3>1. log[a] \in Seq(Findings)
      BY DEF Typed
    <3>2. CASE f.asset = a
      <4>1. log'[a] = Append(log[a], f)
        BY <2>1, <3>2 DEF Detect, Typed
      <4>2. o = Len(log[a]) + 1 \/ o \in 1 .. Len(log[a])
        BY <3>1, <4>1
      <4>3. CASE o = Len(log[a]) + 1
        BY <3>1, <3>2, <4>1, <4>3
      <4>4. CASE o \in 1 .. Len(log[a])
        BY <3>1, <4>1, <4>4 DEF LogsByAsset
      <4>. QED
        BY <4>2, <4>3, <4>4
    <3>3. CASE f.asset # a
      <4>1. log' = [log EXCEPT ![f.asset] = Append(log[f.asset], f)]
        BY <2>1 DEF Detect
      <4>2. log'[a] = log[a]
        BY <3>3, <4>1 DEF Typed
      <4>. QED
        BY <2>1, <4>2 DEF LogsByAsset
    <3>. QED
      BY <3>2, <3>3
  <2>2. CASE UNCHANGED log
    BY <2>2 DEF LogsByAsset
  <2>3. (\E f \in Findings : Detect(f)) \/ UNCHANGED log
    BY Frames DEF Next
  <2>4. ASSUME NEW f \in Findings, Detect(f) PROVE LogsByAsset'
    BY <2>1, <2>4 DEF LogsByAsset
  <2>. QED
    BY <2>2, <2>3, <2>4
<1>2. CommittedBehind'
  <2>1. ASSUME NEW w \in Workers, Announce(w) \/ Fail(w) PROVE CommittedBehind'
    <3>1. PICK h \in work[w] : Resolve(w, h)
      BY <2>1 DEF Announce, Fail
    <3>2. \A a \in Assets : \/ cursor'[a] = cursor[a]
                            \/ cursor'[a] = cursor[a] + 1 /\ cursor'[a] <= Len(log[a])
      BY <3>1, Resolved DEF OnAMessage
    <3>3. UNCHANGED <<log, committed, start>>
      BY <2>1 DEF Announce, Fail
    <3>4. \A a \in Assets : /\ cursor[a] \in Nat /\ start[a] \in Nat
                            /\ committed[a] \in Nat \cup {NoOffset}
      BY DEF Typed
    <3>. QED
      BY <3>2, <3>3, <3>4 DEF CommittedBehind, NoOffset
  <2>0. \A a \in Assets : /\ cursor[a] \in Nat /\ start[a] \in Nat /\ Len(log[a]) \in Nat
                          /\ Len(log'[a]) \in Nat
                          /\ committed[a] \in Nat \cup {NoOffset}
    BY DEF Typed
  <2>restarts. ASSUME NEW S, Restart(S), UNCHANGED <<log, committed>> PROVE CommittedBehind'
    BY <2>0, <2>restarts, Restarted DEF CommittedBehind, NoOffset
  <2>2. ASSUME NEW w \in Workers, Crash(w) PROVE CommittedBehind'
    BY <2>2, <2>restarts DEF Crash
  <2>3. ASSUME NEW a \in Assets, Commit(a) PROVE CommittedBehind'
    BY <2>0, <2>3 DEF CommittedBehind, Typed, Commit
  <2>4. ASSUME NEW a \in Assets, NEW w \in Workers \cup {Nobody}, Rebalance(a, w)
        PROVE  CommittedBehind'
    BY <2>4, <2>restarts DEF Rebalance
  <2>5. CASE UNCHANGED <<cursor, committed, start>>
    BY <2>0, <2>5, LogGrows DEF CommittedBehind
  <2>6. \/ \E w \in Workers : Announce(w) \/ Fail(w) \/ Crash(w)
        \/ \E a \in Assets : Commit(a)
        \/ \E a \in Assets, w \in Workers \cup {Nobody} : Rebalance(a, w)
        \/ UNCHANGED <<cursor, committed, start>>
    BY Frames DEF Next
  <2>. QED
    BY <2>1, <2>2, <2>3, <2>4, <2>5, <2>6
<1>3. OneHandler'
  BY HandlerStep DEF OneHandler
<1>4. OnAMessage'
  <2>1. ASSUME NEW v \in Workers, NEW n \in work'[v]
        PROVE  n.offset \in 1 .. Len(log[n.asset]) /\ n.finding = log[n.asset][n.offset].id
    BY HandlerStep DEF OnAMessage
  <2>2. ASSUME NEW v \in Workers, NEW n \in work'[v]
        PROVE  n.offset \in 1 .. Len(log'[n.asset]) /\ n.finding = log'[n.asset][n.offset].id
    <3>1. n.asset \in Assets
      BY DEF Typed, HandlerStates
    <3>2. Len(log[n.asset]) \in Nat /\ Len(log'[n.asset]) \in Nat
      BY <3>1 DEF Typed
    <3>. QED
      BY <2>1, <3>1, <3>2, LogGrows
  <2>. QED
    BY <2>2 DEF OnAMessage
<1>5. ScoredUpdates'
  <2>1. ASSUME NEW w \in Workers, Announce(w) PROVE ScoredUpdates'
    <3>1. PICK h \in work[w] : updates' = updates \cup {ScoreUpdate(h)}
      BY <2>1 DEF Announce
    <3>2. h \in HandlerStates
      BY DEF Typed
    <3>. QED
      BY <3>1, <3>2 DEF ScoredUpdates, ScoreUpdate, HandlerStates
  <2>2. ASSUME NEW c \in Clusters, Correlate(c) PROVE ScoredUpdates'
    BY <2>2, ClusterScored DEF ScoredUpdates, Correlate
  <2>3. CASE UNCHANGED updates
    BY <2>3 DEF ScoredUpdates
  <2>4. (\E w \in Workers : Announce(w)) \/ (\E c \in Clusters : Correlate(c)) \/ UNCHANGED updates
    BY Frames DEF Next
  <2>. QED
    BY <2>1, <2>2, <2>3, <2>4
<1>. QED
  BY <1>1, <1>2, <1>3, <1>4, <1>5
(* Each step leaves what its handlers stand for.                           *)
LEMMA StableNext == ASSUME Typed, Typed', Placed, Stable, [Next]_vars PROVE Stable'
<1>. SUFFICES ASSUME NEW v \in Workers, NEW n \in work'[v], n.asset \notin disturbed'
              PROVE  Stands(v, n)'
  BY DEF Stable
<1>0. work \in [Workers -> SUBSET HandlerStates] /\ n.asset \in Assets
  BY DEF Typed, HandlerStates
<1>1. ASSUME n \in work[v], disturbed \subseteq disturbed',
             UNCHANGED <<owner[n.asset], cursor[n.asset], rollup[n.asset], leaderboard[n.asset]>>
      PROVE  Stands(v, n)'
  BY <1>1 DEF Stable, Stands
(* Two handlers of one undisturbed asset are the same one.                 *)
<1>2. ASSUME NEW w \in Workers, NEW h \in work[w], n \in work[v], w # v,
             disturbed \subseteq disturbed'
      PROVE  n.asset # h.asset
  BY <1>2 DEF Stable, Stands
<1>3. ASSUME NEW w \in Workers, NEW a \in Assets, Score(w, a) PROVE Stands(v, n)'
  <2>1. PICK h \in HandlerStates :
          /\ work' = [work EXCEPT ![w] = {h}]
          /\ h.asset = a /\ h.offset = cursor[a] + 1 /\ h.stage = "scored"
    BY <1>3, ScoredHandler
  <2>2. UNCHANGED <<owner, cursor, rollup, leaderboard>> /\ owner[a] = w
        /\ disturbed \subseteq disturbed'
    BY <1>3 DEF Score, Reading, queue, redis
  <2>3. CASE v = w
    BY <1>0, <2>1, <2>2, <2>3 DEF Stands
  <2>4. CASE v # w
    BY <1>0, <1>1, <2>1, <2>2, <2>4
  <2>. QED
    BY <2>3, <2>4
<1>4. ASSUME NEW w \in Workers, Reload(w) PROVE Stands(v, n)'
  <2>1. PICK h \in work[w], state \in Rollups :
          LET m == [h EXCEPT !.next = Recorded(state, h), !.stage = "loaded"]
          IN  /\ work' = [work EXCEPT ![w] = {m}]
              /\ h \in HandlerStates /\ h.stage = "scored" /\ disturbed \subseteq disturbed'
              /\ h.asset \notin disturbed' => state = rollup[h.asset]
    BY <1>4, ReloadedHandler
  <2>2. UNCHANGED <<owner, cursor, rollup, leaderboard>>
    BY <1>4 DEF Reload, queue, redis
  <2>3. CASE v = w
    <3>1. n = [h EXCEPT !.next = Recorded(state, h), !.stage = "loaded"]
      BY <1>0, <2>1, <2>3
    <3>2. /\ n.asset = h.asset /\ n.offset = h.offset /\ n.finding = h.finding
          /\ n.score = h.score /\ n.next = Recorded(state, h) /\ n.stage = "loaded"
      BY <2>1, <3>1 DEF HandlerStates
    <3>3. /\ h.finding \in n.next.findings /\ h.score <= n.next.score
          /\ state.findings \subseteq n.next.findings /\ state.score <= n.next.score
      BY <2>1, <3>2, RecordedIsARollup
    <3>4. state = rollup[n.asset] /\ Stands(w, h)
      BY <2>1, <3>2 DEF Stable
    <3>. QED
      BY <2>2, <2>3, <3>2, <3>3, <3>4 DEF Stands
  <2>4. CASE v # w
    BY <1>0, <1>1, <2>1, <2>2, <2>4
  <2>. QED
    BY <2>3, <2>4
<1>5. ASSUME NEW w \in Workers, Write(w) PROVE Stands(v, n)'
  <2>1. PICK h \in work[w] :
          /\ h.stage = "loaded" /\ rollup' = [rollup EXCEPT ![h.asset] = h.next]
          /\ work' = [work EXCEPT ![w] = {[h EXCEPT !.stage = "written"]}]
          /\ UNCHANGED <<owner, cursor, leaderboard, disturbed>>
    BY <1>5 DEF Write, queue
  <2>2. h \in HandlerStates
    BY <1>0
  <2>3. CASE v = w
    <3>1. n = [h EXCEPT !.stage = "written"]
      BY <1>0, <2>1, <2>3
    <3>2. /\ n.asset = h.asset /\ n.offset = h.offset /\ n.finding = h.finding
          /\ n.score = h.score /\ n.next = h.next /\ n.stage = "written"
      BY <2>2, <3>1 DEF HandlerStates
    <3>3. rollup'[n.asset] = n.next
      BY <1>0, <2>1, <3>2 DEF Typed
    <3>4. Stands(w, h)
      BY <2>1, <3>2 DEF Stable
    <3>. QED
      BY <2>1, <2>3, <3>2, <3>3, <3>4 DEF Stands
  <2>4. CASE v # w
    <3>1. n \in work[v]
      BY <1>0, <2>1, <2>4
    <3>2. n.asset # h.asset
      BY <1>2, <2>1, <2>4, <3>1
    <3>3. rollup'[n.asset] = rollup[n.asset]
      BY <1>0, <2>1, <3>2 DEF Typed
    <3>. QED
      BY <1>1, <2>1, <3>1, <3>3
  <2>. QED
    BY <2>3, <2>4
<1>6. ASSUME NEW w \in Workers, Rank(w) PROVE Stands(v, n)'
  <2>1. PICK h \in work[w] :
          /\ h.stage = "written" /\ leaderboard' = [leaderboard EXCEPT ![h.asset] = h.next.score]
          /\ work' = [work EXCEPT ![w] = {[h EXCEPT !.stage = "ranked"]}]
          /\ UNCHANGED <<owner, cursor, rollup, disturbed>>
    BY <1>6 DEF Rank, RankOf, queue
  <2>2. h \in HandlerStates
    BY <1>0
  <2>3. CASE v = w
    <3>1. n = [h EXCEPT !.stage = "ranked"]
      BY <1>0, <2>1, <2>3
    <3>2. /\ n.asset = h.asset /\ n.offset = h.offset /\ n.finding = h.finding
          /\ n.score = h.score /\ n.next = h.next /\ n.stage = "ranked"
      BY <2>2, <3>1 DEF HandlerStates
    <3>3. leaderboard'[n.asset] = n.next.score
      BY <1>0, <2>1, <3>2 DEF Typed
    <3>4. Stands(w, h)
      BY <2>1, <3>2 DEF Stable
    <3>. QED
      BY <2>1, <2>3, <3>2, <3>3, <3>4 DEF Stands
  <2>4. CASE v # w
    <3>1. n \in work[v]
      BY <1>0, <2>1, <2>4
    <3>2. n.asset # h.asset
      BY <1>2, <2>1, <2>4, <3>1
    <3>3. leaderboard'[n.asset] = leaderboard[n.asset]
      BY <1>0, <2>1, <3>2 DEF Typed
    <3>. QED
      BY <1>1, <2>1, <3>1, <3>3
  <2>. QED
    BY <2>3, <2>4
<1>7. ASSUME NEW w \in Workers, Announce(w) \/ Fail(w) PROVE Stands(v, n)'
  <2>1. PICK h \in work[w] :
          /\ work' = [work EXCEPT ![w] = {}] /\ Resolve(w, h)
          /\ UNCHANGED <<owner, rollup, leaderboard, disturbed>>
    BY <1>7 DEF Announce, Fail, redis
  <2>2. v # w /\ n \in work[v]
    BY <1>0, <2>1
  <2>3. n.asset # h.asset
    BY <1>2, <2>1, <2>2
  <2>4. cursor'[n.asset] = cursor[n.asset]
    BY <1>0, <2>1, <2>3, Resolved
  <2>. QED
    BY <1>1, <2>1, <2>2, <2>4
<1>8. ASSUME NEW w \in Workers, Crash(w) PROVE Stands(v, n)'
  <2>1. v # w /\ n \in work[v] /\ UNCHANGED <<owner, rollup, leaderboard, disturbed>>
    BY <1>0, <1>8 DEF Crash, redis
  <2>2. owner[n.asset] = v
    BY <2>1 DEF Stable, Stands
  <2>3. cursor'[n.asset] = cursor[n.asset]
    <3>1. Restart({b \in Assets : owner[b] = w})
      BY <1>8 DEF Crash
    <3>. QED
      BY <1>0, <2>1, <2>2, <3>1, Restarted
  <2>. QED
    BY <1>1, <2>1, <2>3
<1>9. ASSUME NEW a \in Assets, Expire(a) PROVE Stands(v, n)'
  <2>1. /\ rollup' = [rollup EXCEPT ![a] = Blank] /\ disturbed' = disturbed \cup {a}
        /\ UNCHANGED <<owner, cursor, work, leaderboard>>
    BY <1>9 DEF Expire, queue
  <2>2. rollup'[n.asset] = rollup[n.asset]
    BY <1>0, <2>1 DEF Typed
  <2>. QED
    BY <1>1, <2>1, <2>2
<1>10. ASSUME NEW a \in Assets, NEW w \in Workers \cup {Nobody}, Rebalance(a, w)
       PROVE  Stands(v, n)'
  <2>1. /\ owner' = [owner EXCEPT ![a] = w] /\ Restart({a})
        /\ disturbed \subseteq disturbed' /\ UNCHANGED <<work, redis>>
        /\ (\E h \in Handlers : h.asset = a) => a \in disturbed'
    BY <1>10 DEF Rebalance
  <2>2. n \in Handlers
    BY <2>1 DEF Handlers
  <2>3. n.asset # a
    BY <2>1, <2>2
  <2>4. cursor'[n.asset] = cursor[n.asset]
    BY <1>0, <2>1, <2>3, Restarted
  <2>. QED
    BY <1>0, <1>1, <2>1, <2>3, <2>4 DEF Typed, redis
<1>11. CASE UNCHANGED <<owner, cursor, work, rollup, leaderboard, disturbed>>
  BY <1>1, <1>11
<1>. QED
  BY <1>3, <1>4, <1>5, <1>6, <1>7, <1>8, <1>9, <1>10, <1>11, Frames DEF Next
LEMMA GrowsStep ==
  ASSUME Typed, Stable, [Next]_vars, NEW a \in Assets, a \notin disturbed'
  PROVE  /\ rollup[a].findings \subseteq rollup'[a].findings
         /\ rollup[a].score <= rollup'[a].score
<1>1. rollup[a].score \in Nat
  BY ScoresAreNat DEF Typed, Rollups
<1>2. CASE UNCHANGED rollup
  BY <1>1, <1>2
<1>3. ASSUME NEW w \in Workers, Write(w)
      PROVE  /\ rollup[a].findings \subseteq rollup'[a].findings
             /\ rollup[a].score <= rollup'[a].score
  <2>1. PICK h \in work[w] :
          /\ h.stage = "loaded" /\ rollup' = [rollup EXCEPT ![h.asset] = h.next]
          /\ UNCHANGED disturbed
    BY <1>3 DEF Write
  <2>2. CASE h.asset = a
    BY <2>1, <2>2 DEF Stable, Stands, Typed
  <2>3. CASE h.asset # a
    BY <1>1, <2>1, <2>3 DEF Typed
  <2>. QED
    BY <2>2, <2>3
<1>4. ASSUME NEW b \in Assets, Expire(b)
      PROVE  /\ rollup[a].findings \subseteq rollup'[a].findings
             /\ rollup[a].score <= rollup'[a].score
  <2>1. rollup' = [rollup EXCEPT ![b] = Blank] /\ b # a
    BY <1>4 DEF Expire
  <2>2. rollup'[a] = rollup[a]
    BY <2>1 DEF Typed
  <2>. QED
    BY <1>1, <2>2
<1>5. (\E w \in Workers : Write(w)) \/ (\E b \in Assets : Expire(b)) \/ UNCHANGED rollup
  BY Frames DEF Next
<1>. QED
  BY <1>2, <1>3, <1>4, <1>5

LEMMA DisturbedGrows == ASSUME [Next]_vars PROVE disturbed \subseteq disturbed'
<1>1. ASSUME NEW w \in Workers, NEW a \in Assets, Score(w, a) PROVE disturbed \subseteq disturbed'
  BY <1>1 DEF Score, Reading
<1>2. ASSUME NEW w \in Workers, Reload(w) PROVE disturbed \subseteq disturbed'
  BY <1>2 DEF Reload, Reading
<1>3. ASSUME NEW a \in Assets, Expire(a) PROVE disturbed \subseteq disturbed'
  BY <1>3 DEF Expire
<1>4. ASSUME NEW a \in Assets, NEW w \in Workers \cup {Nobody}, Rebalance(a, w)
      PROVE  disturbed \subseteq disturbed'
  BY <1>4 DEF Rebalance
<1>5. CASE UNCHANGED disturbed
  BY <1>5
<1>. QED
  BY <1>1, <1>2, <1>3, <1>4, <1>5, Frames DEF Next

LEMMA DroppedGrows == ASSUME [Next]_vars PROVE dropped \subseteq dropped'
<1>1. ASSUME NEW w \in Workers, Fail(w) PROVE dropped \subseteq dropped'
  BY <1>1 DEF Fail
<1>2. CASE UNCHANGED dropped
  BY <1>2
<1>. QED
  BY <1>1, <1>2, Frames DEF Next

LEMMA PublishedNext ==
  ASSUME Typed, Typed', Placed, Placed', Stable, PublishedIsRecorded, [Next]_vars
  PROVE  PublishedIsRecorded'
<1>. SUFFICES ASSUME NEW u \in FindingUpdates', u.asset \notin disturbed'
              PROVE  u.subject \in rollup'[u.asset].findings /\ u.score <= rollup'[u.asset].score
  BY DEF PublishedIsRecorded
<1>1. u.asset \in Assets /\ u.score \in Nat
  BY ScoresAreNat DEF Placed, ScoredUpdates, FindingUpdates
<1>2. rollup[u.asset].score \in Nat /\ rollup'[u.asset].score \in Nat
  BY <1>1, ScoresAreNat DEF Typed, Rollups
<1>3. u.asset \notin disturbed
  BY DisturbedGrows
<1>4. CASE u \in updates
  <2>1. u.subject \in rollup[u.asset].findings /\ u.score <= rollup[u.asset].score
    BY <1>3, <1>4 DEF PublishedIsRecorded, FindingUpdates
  <2>. QED
    BY <1>1, <1>2, <2>1, GrowsStep
<1>5. ASSUME NEW w \in Workers, Announce(w), u \notin updates
      PROVE  u.subject \in rollup'[u.asset].findings /\ u.score <= rollup'[u.asset].score
  <2>1. PICK h \in work[w] :
          h.stage = "ranked" /\ updates' = updates \cup {ScoreUpdate(h)} /\ UNCHANGED rollup
    BY <1>5 DEF Announce, redis
  <2>2. u = ScoreUpdate(h)
    BY <1>5, <2>1 DEF FindingUpdates
  <2>3. u.subject = h.finding /\ u.asset = h.asset /\ u.score = h.score
    BY <2>2 DEF ScoreUpdate
  <2>4. Stands(w, h)
    BY <1>3, <2>3 DEF Stable
  <2>. QED
    BY <2>1, <2>3, <2>4 DEF Stands
<1>6. ASSUME NEW c \in Clusters, Correlate(c) PROVE u \in updates
  BY <1>6 DEF Correlate, ClusterUpdate, FindingUpdates
<1>7. (\E w \in Workers : Announce(w)) \/ (\E c \in Clusters : Correlate(c)) \/ UNCHANGED updates
  BY Frames DEF Next
<1>8. u \in updates \/ u \notin updates
  OBVIOUS
<1>9. UNCHANGED updates => u \in updates
  BY DEF FindingUpdates
<1>. QED
  BY <1>4, <1>5, <1>6, <1>7, <1>8, <1>9

LEMMA LeaderboardNext ==
  ASSUME Typed, Typed', Placed, Stable, LeaderboardFollowsRollup, [Next]_vars
  PROVE  LeaderboardFollowsRollup'
<1>. DEFINE Follows(a) == \/ leaderboard[a] = rollup[a].score
                          \/ cursor[a] < Len(log[a])
                          \/ cursor[a] = start[a]
                          \/ a \in disturbed \/ \E d \in dropped : d[1] = a
<1>. SUFFICES ASSUME NEW a \in Assets PROVE Follows(a)'
  BY DEF LeaderboardFollowsRollup
<1>1. Follows(a)
  BY DEF LeaderboardFollowsRollup
<1>2. /\ cursor[a] \in Nat /\ cursor'[a] \in Nat /\ start[a] \in Nat /\ start'[a] \in Nat
      /\ committed[a] \in Nat \cup {NoOffset} /\ Len(log[a]) \in Nat /\ Len(log'[a]) \in Nat
      /\ Len(log[a]) <= Len(log'[a]) /\ committed[a] <= cursor[a]
  BY LogGrows DEF Typed, Placed, CommittedBehind
<1>3. disturbed \subseteq disturbed' /\ dropped \subseteq dropped'
  BY DisturbedGrows, DroppedGrows
<1>4. ASSUME UNCHANGED <<cursor[a], start[a], rollup, leaderboard>> PROVE Follows(a)'
  BY <1>1, <1>2, <1>3, <1>4
<1>restarts. ASSUME NEW S, Restart(S), UNCHANGED <<log, rollup, leaderboard>> PROVE Follows(a)'
  <2>1. CASE cursor'[a] = cursor[a] /\ start'[a] = start[a]
    BY <1>4, <1>restarts, <2>1
  <2>2. CASE cursor'[a] = start'[a]
    BY <2>2
  <2>3. CASE committed[a] # NoOffset /\ cursor'[a] = committed[a] /\ start'[a] = start[a]
    <3>1. cursor'[a] = cursor[a] \/ cursor'[a] < cursor[a]
      BY <1>2, <2>3
    <3>2. CASE cursor'[a] < cursor[a]
      <4>1. cursor[a] <= Len(log[a])
        BY DEF Placed, CommittedBehind
      <4>. QED
        BY <1>2, <1>restarts, <2>3, <3>2, <4>1
    <3>. QED
      BY <1>4, <1>restarts, <2>3, <3>1, <3>2
  <2>. QED
    BY <1>restarts, <2>1, <2>2, <2>3, Restarted
<1>5. ASSUME NEW w \in Workers, Write(w) PROVE Follows(a)'
  <2>1. PICK h \in work[w] :
          /\ h.stage = "loaded" /\ rollup' = [rollup EXCEPT ![h.asset] = h.next]
          /\ UNCHANGED <<log, cursor, start, leaderboard, disturbed>>
    BY <1>5 DEF Write, queue
  <2>2. CASE h.asset = a /\ a \notin disturbed
    <3>1. h.offset = cursor[a] + 1 /\ h.offset \in 1 .. Len(log[a])
      BY <2>2 DEF Stable, Stands, Placed, OnAMessage
    <3>. QED
      BY <1>2, <2>1, <3>1
  <2>3. CASE h.asset # a
    <3>1. rollup'[a] = rollup[a]
      BY <2>1, <2>3 DEF Typed
    <3>. QED
      BY <1>1, <1>3, <2>1, <3>1
  <2>4. CASE a \in disturbed
    BY <1>3, <2>4
  <2>. QED
    BY <2>2, <2>3, <2>4
<1>6. ASSUME NEW w \in Workers, Rank(w) PROVE Follows(a)'
  <2>1. PICK h \in work[w] :
          /\ h.stage = "written" /\ leaderboard' = [leaderboard EXCEPT ![h.asset] = h.next.score]
          /\ UNCHANGED <<log, cursor, start, rollup, disturbed>>
    BY <1>6 DEF Rank, RankOf, queue
  <2>2. CASE h.asset = a /\ a \notin disturbed
    BY <2>1, <2>2 DEF Stable, Stands, Typed
  <2>3. CASE h.asset # a
    <3>1. leaderboard'[a] = leaderboard[a]
      BY <2>1, <2>3 DEF Typed
    <3>. QED
      BY <1>1, <1>3, <2>1, <3>1
  <2>4. CASE a \in disturbed
    BY <1>3, <2>4
  <2>. QED
    BY <2>2, <2>3, <2>4
<1>7. ASSUME NEW w \in Workers, Announce(w) PROVE Follows(a)'
  <2>1. PICK h \in work[w] :
          h.stage = "ranked" /\ Resolve(w, h) /\ UNCHANGED <<start, rollup, leaderboard>>
    BY <1>7 DEF Announce, redis
  <2>2. CASE h.asset = a /\ a \notin disturbed
    BY <2>1, <2>2 DEF Stable, Stands
  <2>3. CASE h.asset # a
    BY <1>2, <1>4, <2>1, <2>3, Resolved
  <2>4. CASE a \in disturbed
    BY <1>3, <2>4
  <2>. QED
    BY <2>2, <2>3, <2>4
<1>8. ASSUME NEW w \in Workers, Fail(w) PROVE Follows(a)'
  <2>1. PICK h \in work[w] :
          /\ Resolve(w, h) /\ dropped' = dropped \cup {<<h.asset, h.offset>>}
          /\ UNCHANGED <<start, rollup, leaderboard>>
    BY <1>8 DEF Fail, redis
  <2>2. CASE h.asset = a
    <3>1. <<a, h.offset>> \in dropped' /\ <<a, h.offset>>[1] = a
      BY <2>1, <2>2
    <3>. QED
      BY <3>1
  <2>3. CASE h.asset # a
    BY <1>2, <1>4, <2>1, <2>3, Resolved
  <2>. QED
    BY <2>2, <2>3
<1>9. ASSUME NEW w \in Workers, Crash(w) PROVE Follows(a)'
  BY <1>restarts, <1>9 DEF Crash, redis
<1>10. ASSUME NEW b \in Assets, Expire(b) PROVE Follows(a)'
  <2>1. CASE a = b
    BY <1>10, <2>1 DEF Expire
  <2>2. CASE a # b
    <3>1. UNCHANGED <<log, cursor, start, leaderboard>> /\ rollup'[a] = rollup[a]
      BY <1>10, <2>2 DEF Expire, queue, Typed
    <3>. QED
      BY <1>1, <1>3, <3>1
  <2>. QED
    BY <2>1, <2>2
<1>11. ASSUME NEW b \in Assets, NEW w \in Workers \cup {Nobody}, Rebalance(b, w)
       PROVE  Follows(a)'
  BY <1>restarts, <1>11 DEF Rebalance, redis
<1>12. CASE UNCHANGED <<cursor, start, rollup, leaderboard>>
  BY <1>2, <1>4, <1>12
<1>. HIDE DEF Follows
<1>. QED
  BY <1>5, <1>6, <1>7, <1>8, <1>9, <1>10, <1>11, <1>12, Frames DEF Next

LEMMA InitIInv == ASSUME Init PROVE IInv
<1>1. 0 \in Scores
  BY DEF Scores
<1>2. Typed
  BY <1>1, BlankIsARollup, RiskAssumption DEF Init, Typed
<1>3. Placed
  BY DEF Init, Placed, LogsByAsset, CommittedBehind, OneHandler, OnAMessage, ScoredUpdates,
         NoOffset
<1>4. Stable
  BY DEF Init, Stable
<1>5. PublishedIsRecorded
  BY DEF Init, PublishedIsRecorded, FindingUpdates
<1>6. LeaderboardFollowsRollup
  BY DEF Init, LeaderboardFollowsRollup, Blank
<1>. QED
  BY <1>2, <1>3, <1>4, <1>5, <1>6 DEF IInv

LEMMA NextIInv == ASSUME IInv, [Next]_vars PROVE IInv'
<1>1. Typed'
  BY TypedNext DEF IInv
<1>2. Placed'
  BY <1>1, PlacedNext DEF IInv
<1>3. Stable'
  BY <1>1, StableNext DEF IInv
<1>. QED
  BY <1>1, <1>2, <1>3, PublishedNext, LeaderboardNext DEF IInv

LEMMA Invariance == Spec => []IInv
BY InitIInv, NextIInv, PTL DEF Spec

(* Every roll-up, handler and published score is what its type says.       *)
THEOREM TypeCorrect == Spec => []TypeOK
<1>1. ASSUME IInv PROVE TypeOK
  <2>1. Typed /\ Placed
    BY <1>1 DEF IInv
  <2>2. ASSUME NEW s \in Rollups PROVE RollupOK(s)
    BY DEF Rollups, RollupOK, FiniteFindings
  <2>3. ASSUME NEW w \in Workers, NEW h \in work[w] PROVE HandlerOK(h)
    <3>1. h \in HandlerStates
      BY <2>1 DEF Typed
    <3>2. h.offset \in 1 .. Len(log[h.asset]) /\ h.finding = log[h.asset][h.offset].id
      BY <2>1 DEF Placed, OnAMessage
    <3>3. RollupOK(h.next)
      BY <2>2, <3>1 DEF HandlerStates
    <3>. QED
      BY <3>1, <3>2, <3>3 DEF HandlerOK, HandlerStates, Stages
  <2>4. \A a \in Assets : RollupOK(rollup[a]) /\ leaderboard[a] \in Scores
    BY <2>1, <2>2 DEF Typed
  <2>5. \A a \in Assets : \A o \in 1 .. Len(log[a]) : log[a][o] \in Findings /\ log[a][o].asset = a
    BY <2>1 DEF Typed, Placed, LogsByAsset
  <2>6. \A u \in updates : u.score \in Scores /\ u.previous \in Scores /\ u.band \in Bands
    BY <2>1 DEF Placed, ScoredUpdates
  <2>7. \A h \in Handlers : HandlerOK(h)
    BY <2>3 DEF Handlers
  <2>. QED
    BY <2>1, <2>4, <2>5, <2>6, <2>7 DEF TypeOK, Typed, Placed, OneHandler
<1>. QED
  BY <1>1, Invariance, PTL

(* A published score is in the roll-up of its asset, and no higher than    *)
(* it, as long as the roll-up was not disturbed: state.store.ts writes     *)
(* before worker.ts publishes.                                             *)
THEOREM RecordedBeforePublished == Spec => []PublishedIsRecorded
<1>1. IInv => PublishedIsRecorded
  BY DEF IInv
<1>. QED
  BY <1>1, Invariance, PTL

(* The leaderboard is the roll-up's score once the messages of an asset    *)
(* are finished with, as long as the roll-up was not disturbed, unless one *)
(* of them was dead-lettered half-way, or passed over when the group, with *)
(* nothing committed, began at the end again (bus.ts:102).                 *)
THEOREM LeaderboardIsRollup == Spec => []LeaderboardFollowsRollup
<1>1. IInv => LeaderboardFollowsRollup
  BY DEF IInv
<1>. QED
  BY <1>1, Invariance, PTL

(* No finding and no point of an undisturbed roll-up is ever lost.         *)
THEOREM NothingIsLost == Spec => RollupOnlyGrows
<1>1. ASSUME IInv, [Next]_vars
      PROVE  [\A a \in Assets : a \notin disturbed' =>
                /\ rollup[a].findings \subseteq rollup'[a].findings
                /\ rollup[a].score <= rollup'[a].score]_vars
  BY <1>1, GrowsStep DEF IInv
<1>. QED
  BY <1>1, Invariance, PTL DEF Spec, RollupOnlyGrows
=============================================================================
