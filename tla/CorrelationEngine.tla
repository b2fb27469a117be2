------------------------- MODULE CorrelationEngine -------------------------
(***************************************************************************)
(* The pure part of the event-processor's CorrelationEngine               *)
(* (apps/event-processor/src/correlation/engine.ts): families, keys,       *)
(* eviction, confidence, and the cluster an ingested event completes; and  *)
(* the candidates that its worker makes of signals and findings.           *)
(*                                                                         *)
(* A bucket is an array of events in the code.  Here it is a set of        *)
(* deliveries [n, event]: n numbers the calls of ingest, so that an event  *)
(* delivered twice is held twice, as in the array, and the order of the    *)
(* array is the order of n.  Confidence is in hundredths and times are in  *)
(* a unit the constants share.                                             *)
(***************************************************************************)
EXTENDS Integers, FiniteSets

CONSTANTS
  WindowMs,       \* windowMs, the length of the sliding window
  NearMs,         \* the five minutes of proximityScore
  MinConfidence   \* minConfidence, in hundredths

ASSUME EngineAssumption ==
  /\ WindowMs \in Nat
  /\ NearMs \in Nat
  /\ MinConfidence \in Nat

EventTypes == {"deployment.completed", "performance.alert",
               "security.finding", "infrastructure.event"}
Families   == {"deployment", "performance", "security", "infrastructure"}
Severities == {"critical", "high", "medium", "low", "info"}

(* family(): the prefix of the event type.                                 *)
Family(eventType) ==
  CASE eventType = "deployment.completed" -> "deployment"
    [] eventType = "performance.alert"    -> "performance"
    [] eventType = "security.finding"     -> "security"
    [] OTHER                              -> "infrastructure"

(* eventTypeFor() of worker.ts.                                            *)
EventTypeFor(signalType) ==
  CASE signalType = "deployment-event"  -> "deployment.completed"
    [] signalType = "performance-alert" -> "performance.alert"
    [] signalType = "security-finding"  -> "security.finding"
    [] OTHER                            -> "infrastructure.event"

(* The CorrelatableEvent each subscription builds from its message.        *)
FromSignal(m) ==
  [eventId       |-> m.eventId,
   eventType     |-> EventTypeFor(m.type),
   resourceId    |-> m.resourceId,
   service       |-> m.service,
   environment   |-> m.environment,
   correlationId |-> m.correlationId,
   severity      |-> m.severity,
   observedAt    |-> m.observedAt,
   assetIds      |-> {},
   findingIds    |-> {}]

FromFindingOfAsset(m) ==        \* mutated form: the asset's id for its name
  [eventId |-> m.eventId, eventType |-> "security.finding", resourceId |-> m.assetId,
   service |-> m.assetId, environment |-> m.environment, correlationId |-> m.correlationId,
   severity |-> m.severity, observedAt |-> m.firstSeenAt,
   assetIds |-> {m.assetId}, findingIds |-> {m.findingId}]
FromFinding(m) ==
  [eventId       |-> m.eventId,
   eventType     |-> "security.finding",
   resourceId    |-> m.assetId,
   service       |-> m.assetName,
   environment   |-> m.environment,
   correlationId |-> m.correlationId,
   severity      |-> m.severity,
   observedAt    |-> m.firstSeenAt,
   assetIds      |-> {m.assetId},
   findingIds    |-> {m.findingId}]

(* keyFor(): an explicit correlation id wins, a default one (the resource  *)
(* id, or none) leaves the event to its service and environment.           *)
KeyIgnoringEnvironment(e) ==    \* mutated form
  IF e.correlationId # "" /\ e.correlationId # e.resourceId
  THEN <<"corr", e.correlationId>>
  ELSE <<"svc", e.service>>
KeyFor(e) ==
  IF e.correlationId # "" /\ e.correlationId # e.resourceId
  THEN <<"corr", e.correlationId>>
  ELSE <<"svc", e.environment, e.service>>

(* `e.assetIds ?? [e.resourceId]`: {} stands for an absent list.           *)
AssetsOf(e) == IF e.assetIds = {} THEN {e.resourceId} ELSE e.assetIds

FamiliesOf(bucket) == {Family(d.event.eventType) : d \in bucket}

TimesOf(bucket) == {d.event.observedAt : d \in bucket}
Earliest(bucket) == CHOOSE t \in TimesOf(bucket) : \A u \in TimesOf(bucket) : t <= u
Latest(bucket)   == CHOOSE t \in TimesOf(bucket) : \A u \in TimesOf(bucket) : u <= t

(* evict(): only events observed inside the window that ends now stay.     *)
EvictNothing(bucket, now) == bucket    \* mutated form
EvictHalfWindow(bucket, now) ==        \* mutated form
  {d \in bucket : 2 * d.event.observedAt >= 2 * now - WindowMs}
Evict(bucket, now) == {d \in bucket : d.event.observedAt >= now - WindowMs}

SeverityScore(bucket) ==
  IF \E d \in bucket : d.event.severity = "critical" THEN 25
  ELSE IF \E d \in bucket : d.event.severity = "high" THEN 15
  ELSE 5

ProximityScore(bucket) ==
  LET spread == Latest(bucket) - Earliest(bucket)
  IN  IF spread <= NearMs THEN 20
      ELSE IF 2 * spread <= WindowMs THEN 10
      ELSE 0

FamilyScore(families) ==
  LET s == (Cardinality(families) - 1) * 30
  IN  IF s < 60 THEN s ELSE 60

ConfidenceFor(bucket) ==
  LET c == 20 + FamilyScore(FamiliesOf(bucket)) + SeverityScore(bucket)
              + ProximityScore(bucket)
  IN  IF c < 100 THEN c ELSE 100

(* The three early returns of ingest(), after the push.                    *)
CredibleOnCount(bucket) ==    \* mutated form
  /\ Cardinality(bucket) >= 2
  /\ ConfidenceFor(bucket) >= MinConfidence
Credible(bucket) ==
  /\ Cardinality(bucket) >= 2
  /\ Cardinality(FamiliesOf(bucket)) >= 2
  /\ ConfidenceFor(bucket) >= MinConfidence

(* The cluster ingest() returns.  `at` is the clock at the call: the code  *)
(* does not return it, the properties use it.                              *)
ClusterOf(key, bucket, now) ==
  [correlationKey |-> key,
   members        |-> bucket,
   confidence     |-> ConfidenceFor(bucket),
   from           |-> Earliest(bucket),
   to             |-> Latest(bucket),
   assetIds       |-> UNION {AssetsOf(d.event) : d \in bucket},
   findingIds     |-> UNION {d.event.findingIds : d \in bucket},
   at             |-> now]
=============================================================================
