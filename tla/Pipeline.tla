------------------------------ MODULE Pipeline ------------------------------
(***************************************************************************)
(* The services in a row, from a scenario of the simulator to a paged      *)
(* incident: signal-engine, security-engine, the replicas of the           *)
(* event-processor, incident-service.  Each has a module of its own for    *)
(* what happens inside a handler; here a handler is one step, and the      *)
(* question is who gets to see what: signal.received is keyed by resource  *)
(* and finding.detected by asset, the partitions of the two topics are     *)
(* shared out among the replicas, and a replica correlates what it was     *)
(* given, in memory.                                                       *)
(*                                                                         *)
(* A scenario is over in seconds and the window is of 15 minutes: there is *)
(* no clock here, and nothing leaves the window.                           *)
(***************************************************************************)
EXTENDS CorrelationEngine, IncidentScoring, SecurityRules, Simulator

CONSTANTS
  Campaigns,      \* what may be run: the scenarios, each in a simulator of its own, with
                  \* bounds: [ticks of each before its deadline, faults]
  Services,       \* bound: those of SERVICES that steady-state picks from
  Replicas,       \* of the event-processor
  Assignments,    \* how its partitions may be shared out at first
  MaxAhead        \* bound: clusters that wait for the incident-service

Topics == {"signals", "findings"}
Posted ==
  LET asked == {t \in SCENARIOS \X (1 .. 9) :
                  \E c \in Campaigns : t[1] \in DOMAIN c.ticks /\ t[2] <= c.ticks[t[1]]}
  IN  UNION {Returned(t[1], t[2], Services) : t \in asked}
(* Every message of a scenario has one element, and becomes one signal.    *)
TheSignal(m) == (CHOOSE s \in Normalize(m.source, m.body) : TRUE).signal
Resources  == {TheSignal(m).resource : m \in Posted}
Partitions == Topics \X Resources

ASSUME PipelineAssumption ==
  /\ Services \subseteq SERVICES
  /\ \A c \in Campaigns :
       /\ DOMAIN c.ticks \subseteq SCENARIOS /\ c.faults \in Nat
       /\ \A s \in DOMAIN c.ticks : c.ticks[s] \in 0 .. 9
  /\ \A a \in Assignments : a \in [Partitions -> Replicas]
  /\ MaxAhead \in Nat

VARIABLES
  campaign,       \* the one that is run
  ticks,          \* ticks[s]: how often scenario s was asked for messages
  requests,       \* posts under way: <<scenario, message>>
  minted,         \* signal ids so far
  log,            \* log[p]: the messages of a partition
  evaluated,      \* evaluated[r]: the signals of r that the security-engine is done with
  owner,          \* owner[p]: the event-processor that has partition p
  position,       \* position[p]: how far it has got
  held,           \* held[w]: the deliveries in the buckets of replica w
  correlations,   \* what the incident-service has still to read of correlation.detected
  incidents,      \* the rows, by correlation key
  announced,      \* incident.created and incident.updated
  faults

simulation == <<campaign, ticks, requests>>
engines    == <<log, evaluated>>
processors == <<owner, position, held>>
vars == <<simulation, minted, engines, processors, correlations, incidents,
          announced, faults>>

Init ==
  /\ campaign \in Campaigns
  /\ ticks = [s \in DOMAIN campaign.ticks |-> 0]
  /\ requests = {} /\ minted = 0
  /\ log = [p \in Partitions |-> <<>>]
  /\ evaluated = [r \in Resources |-> 0]
  /\ owner \in Assignments
  /\ position = [p \in Partitions |-> 0]
  /\ held = [w \in Replicas |-> {}]
  /\ correlations = <<>>
  /\ incidents = <<>> /\ announced = {}
  /\ faults = 0

(* The timer fires until next() returns a message, which is posted; ticks  *)
(* that return nothing are passed over.  The post is not waited for before *)
(* the next tick, so that posts may overtake one another.                  *)
Tick(s) ==
  /\ LET loud == {n \in ticks[s] + 1 .. campaign.ticks[s] : Returned(s, n, Services) # {}}
     IN  \E n \in loud :
           /\ \A o \in loud : n <= o
           /\ ticks' = [ticks EXCEPT ![s] = n]
           /\ \E m \in Returned(s, n, Services) : requests' = requests \cup {<<s, m>>}
  /\ UNCHANGED <<campaign, minted, engines, processors, correlations, incidents,
                 announced, faults>>

(* The post gets no answer: it is logged and not repeated.                 *)
Lose(request) ==
  /\ faults < campaign.faults
  /\ faults' = faults + 1
  /\ requests' = requests \ {request}
  /\ UNCHANGED <<campaign, ticks, minted, engines, processors, correlations,
                 incidents, announced>>

(* The signal on the bus.  about, which no action reads, is where it came  *)
(* from: a service in an environment, and a scenario.                      *)
Received(id, s, scenario) ==
  [eventId |-> <<id, "signal">>, type |-> s.type, resource |-> s.resource,
   resourceId |-> ResourceId(s.resource), service |-> s.service,
   environment |-> s.environment, correlationId |-> s.correlationId,
   severity |-> s.severity, observedAt |-> 0,
   configuration |-> s.configuration, malformed |-> s.malformed,
   about |-> [service |-> s.service, environment |-> s.environment, scenario |-> scenario]]

(* The signal-engine normalizes the message into one signal, publishes it  *)
(* and answers.                                                            *)
Ingest(request) ==
  /\ LET s == TheSignal(request[2])
     IN  log' = [log EXCEPT ![<<"signals", s.resource>>] =
                   Append(@, Received(minted + 1, s, request[1]))]
  /\ minted' = minted + 1
  /\ requests' = requests \ {request}
  /\ UNCHANGED <<campaign, ticks, evaluated, processors, correlations, incidents,
                 announced, faults>>

(* AssetCatalog.get() without a cached asset names it by the last segment  *)
(* of its id.                                                              *)
AssetName(r) == IF r.prefix = "k8s:" \/ "/" \in r.marks THEN r.name ELSE ResourceId(r)

Detected(m, evaluation) ==
  [eventId |-> <<m.eventId[1], evaluation.rule>>, assetId |-> m.resourceId,
   assetName |-> AssetName(m.resource), environment |-> m.environment,
   correlationId |-> m.correlationId, severity |-> evaluation.severity,
   firstSeenAt |-> m.observedAt, findingId |-> <<evaluation.rule, m.resourceId>>,
   about |-> m.about]

(* The results of a batch of rules, in the order of the catalog.           *)
InOrder(results) ==
  [i \in 1 .. Cardinality(results) |->
     CHOOSE e \in results : Cardinality({d \in results : d.at <= e.at}) = i]
ContextOf(m) ==
  [kind |-> InferKind(m.resource), environment |-> m.environment, today |-> 0,
   configuration |-> m.configuration, malformed |-> m.malformed]

(* The security-engine evaluates a signal and publishes its findings.      *)
Examine(r) ==
  /\ evaluated[r] < Len(log[<<"signals", r>>])
  /\ LET m == log[<<"signals", r>>][evaluated[r] + 1]
         found == InOrder(Evaluate(ContextOf(m)))
     IN  log' = [log EXCEPT ![<<"findings", r>>] =
                   @ \o [i \in DOMAIN found |-> Detected(m, found[i])]]
  /\ evaluated' = [evaluated EXCEPT ![r] = @ + 1]
  /\ UNCHANGED <<simulation, minted, processors, correlations, incidents,
                 announced, faults>>

(* A replica of the event-processor takes the next message of a partition  *)
(* of its own, and publishes the cluster that it completes, if it does.    *)
Correlate(w, p) ==
  /\ owner[p] = w /\ position[p] < Len(log[p]) /\ Len(correlations) < MaxAhead
  /\ LET m        == log[p][position[p] + 1]
         event    == IF p[1] = "signals" THEN FromSignal(m) ELSE FromFinding(m)
         copies   == {d \in held[w] : d.event = event}
         delivery == [n |-> Cardinality(copies) + 1, event |-> event, about |-> m.about]
         bucket   == {d \in held[w] : KeyFor(d.event) = KeyFor(event)} \cup {delivery}
     IN  /\ held' = [held EXCEPT ![w] = @ \cup {delivery}]
         /\ correlations' =
              IF Credible(bucket)
              THEN Append(correlations, [environment |-> event.environment,
                                         cluster |-> ClusterOf(KeyFor(event), bucket, 0)])
              ELSE correlations
  /\ position' = [position EXCEPT ![p] = @ + 1]
  /\ UNCHANGED <<simulation, minted, engines, owner, incidents, announced, faults>>

(* The row that the incident-service writes for a cluster.                 *)
Row(c) ==
  LET risk == RiskFromMembers({[member |-> d, severity |-> d.event.severity] :
                                 d \in c.cluster.members})
  IN  [priority |-> Prioritize(risk, c.cluster.confidence, c.environment, FALSE,
                               Cardinality(c.cluster.assetIds)),
       members |-> {[family |-> Family(d.event.eventType), about |-> d.about] :
                      d \in c.cluster.members}]

(* The incident-service finds the incident of the cluster's key or opens   *)
(* one, writes its row and announces it.                                   *)
OpenIncident ==
  /\ correlations # <<>>
  /\ LET c   == Head(correlations)
         key == c.cluster.correlationKey
     IN  /\ incidents' = [k \in DOMAIN incidents \cup {key} |->
                            IF k = key THEN Row(c) ELSE incidents[k]]
         /\ announced' = announced \cup {[created |-> key \notin DOMAIN incidents, row |-> Row(c)]}
  /\ correlations' = Tail(correlations)
  /\ UNCHANGED <<simulation, minted, engines, processors, faults>>

(* Where a partition is taken up again: at the offset that the group has   *)
(* committed of it, or when it has committed none at the end of the topic  *)
(* (fromBeginning is false), past what was published meanwhile.  A         *)
(* partition of Kafka holds the messages of several keys, so that the      *)
(* offset committed may also lie before the first one of this key.         *)
Resumptions(p) == 0 .. position[p] \cup {Len(log[p])}

(* A replica dies: its buckets are gone, and its partitions are taken up   *)
(* again, by itself or after a Rebalance by another.                       *)
Crash(w) ==
  /\ faults < campaign.faults
  /\ faults' = faults + 1
  /\ held' = [held EXCEPT ![w] = {}]
  /\ LET its == {p \in Partitions : owner[p] = w /\ log[p] # <<>>}
     IN  \E resumed \in [its -> UNION {Resumptions(p) : p \in its}] :
           /\ \A p \in its : resumed[p] \in Resumptions(p)
           /\ position' = [p \in Partitions |-> IF p \in its THEN resumed[p] ELSE position[p]]
  /\ UNCHANGED <<simulation, minted, engines, owner, correlations, incidents,
                 announced>>

(* A partition goes to another replica, which takes it up.  What the first *)
(* one holds stays in its buckets.                                         *)
Rebalance(p, w) ==
  /\ faults < campaign.faults /\ owner[p] # w
  /\ faults' = faults + 1
  /\ owner' = [owner EXCEPT ![p] = w]
  /\ \E o \in Resumptions(p) : position' = [position EXCEPT ![p] = o]
  /\ UNCHANGED <<simulation, minted, engines, held, correlations, incidents,
                 announced>>

Next ==
  \/ \E s \in DOMAIN ticks : Tick(s)
  \/ \E request \in requests : Lose(request) \/ Ingest(request)
  \/ \E r \in Resources : Examine(r)
  \/ \E p \in Partitions, w \in Replicas : Correlate(w, p) \/ Rebalance(p, w)
  \/ OpenIncident
  \/ \E w \in Replicas : Crash(w)

Spec == Init /\ [][Next]_vars

(* The timer fires, posts are answered, and every consumer keeps polling.  *)
(* That each partition is read is more than the code promises: the two     *)
(* subscriptions of a replica are consumers of one group, whose leader may *)
(* leave a topic to nobody (bus.ts:99-102).  In Spec such a partition is   *)
(* one whose owner takes no step.                                          *)
FairSpec ==
  /\ Spec
  /\ WF_vars(\E s \in DOMAIN ticks : Tick(s))
  /\ WF_vars(\E request \in requests : Ingest(request))
  /\ \A r \in Resources : WF_vars(Examine(r))
  /\ \A w \in Replicas : WF_vars(\E p \in Partitions : Correlate(w, p))
  /\ WF_vars(OpenIncident)
-----------------------------------------------------------------------------
(* What replica w holds about a service, outside the stories of a commit.  *)
Holds(w, service, family) ==
  \E d \in held[w] :
    /\ d.about.service = service
    /\ Family(d.event.eventType) = family
    /\ d.event.correlationId = d.event.resourceId

(* One replica is all it takes: when it holds the latency alert of the     *)
(* demonstration together with any event of the cluster or any finding     *)
(* about the same service, however these went through partitions, faults   *)
(* and posts that overtook each other, an incident that shows both has     *)
(* been paged as P1 once the incident-service has caught up.  A finding is *)
(* bucketed under its asset's name, and the signals under their service.   *)
TogetherIsPaged ==
  correlations = <<>> =>
    \A w \in Replicas, family \in {"infrastructure", "security"} :
      (Holds(w, "checkout", "performance") /\ Holds(w, "checkout", family)) =>
        \E x \in announced :
          /\ x.row.priority = "P1"
          /\ {"performance", family} \subseteq {m.family : m \in x.row.members}

(* Routine noise, and events redelivered after a fault, never make an      *)
(* incident: each has a member that the demonstration of one sent, the     *)
(* only scenario of the simulator that opens any.                          *)
NoiseNeverPages ==
  \A x \in announced : \E m \in x.row.members : m.about.scenario = "deployment-incident"

(* README.md:351-354: a deploy, a latency regression and a new critical    *)
(* finding on the same service, "Three families inside the window,         *)
(* confidence above threshold, one P1".                                    *)
TheDemoIsOneIncident ==
  <>(/\ Cardinality(DOMAIN incidents) = 1
     /\ \A k \in DOMAIN incidents :
          /\ incidents[k].priority = "P1"
          /\ {"deployment", "performance", "security"} \subseteq
               {m.family : m \in incidents[k].members})
=============================================================================
