# A verification of Stratus

Stratus turns signals from collectors into findings, correlated clusters, risk
scores and incidents. It is a pipeline of services that only share Kafka topics,
a Redis and a Postgres. This directory holds TLA+ modules of the parts that
decide something, TLC configurations that check them on small instances, and
theorems about them that TLAPS proves for every value of the constants.

## The system

```
collectors -> signal-engine -> signal.received -+-> security-engine -> finding.detected
                                                 |                          |
                                                 +---> event-processor <----+
                                                            |               |
                                                  correlation.detected      |
                                                     |             |        |
                                          incident-service      risk-engine <
                                                |                   |
                              incident.created/updated      risk.score.updated
                                                |                   |
                                                +---> stratus-api (SSE, SQL) -> console
```

| Component | State it keeps | Operations | What is hard | What makes it correct |
| --- | --- | --- | --- | --- |
| `KafkaBus` (`packages/event-contracts/src/bus.ts`) | shared producer, one consumer per topic, committed offsets at the broker | `publish`, `subscribe` and its `eachMessage`, `deadLetter`, `ensureTopics`, `shutdown` | background commits, crashes before and after the first commit, several topics in one group, a dead letter that fails, retried sends | once the group has committed, a message is handled or dead-lettered before its offset passes it; no partition that is assigned stalls |
| event-processor | buckets of recent events, in memory | two subscriptions, `ingest`, publication of a cluster | two consumers interleave at the awaited publication; redelivery; a sliding window | a cluster tells one story, copies of an event are not a story, nothing in the window is lost |
| incident-service | table `incidents` | handler of a cluster: find, upsert, announce | three awaits, two replicas, an operator's edits, crashes between them | one open incident per key, announced as created once; each half of a row from one cluster |
| risk-engine | roll-up per asset and leaderboard, in Redis | handler of a finding (load, score, record, rank, publish) and of a cluster | read-modify-write in Redis, reads that fail, expiry | published scores are recorded, the leaderboard follows the roll-up, every finding is scored |
| security-engine and rules | asset catalog in Redis | handler of a signal: asset lookup, `evaluate`, publication of findings | several publications per signal; a rule that throws; a rule that reads the clock | a handled signal has every finding its attributes call for on the bus; one rule cannot hide another's finding |
| signal-engine | none | `ingest`, `ingestBatch`, normalizers | a batch that fails half-way | every accepted signal is on the bus |
| topic provisioning (`ensureTopics`) | the topics at the broker | list, create what is missing, at the boot of every worker | services that boot together, a request cut short | whoever is up finds every topic |
| stratus-api live stream | a Subject; a consumer group per process id | boot, subscribe, emit, SSE connections | replicas that boot before the topics exist, crashes, rebalances | a browser gets what is published while it is connected |
| stratus-api migrator | `schema_migrations` | run every file that is not recorded, each in a transaction; by hand or in CI | a file that fails, a killed process, two runs at once | a file has taken effect exactly when it is recorded |
| stratus-api seed and read model | the tables of `0001_init.sql` | truncate and insert the demo estate; summaries, trend, lists | several statements in no transaction, on either side | a seed that ends leaves its estate; an overview adds up |
| console | what its pages hold | fetch with a fallback to bundled samples | two requests of one page with different fates | samples are flagged, and under a banner where a page has one |
| simulator | the tick of each scenario | post a message per tick, without waiting | posts overtake each other or are lost | the demonstration pages, noise does not |
| observability, config, infrastructure | none that matters here | | | |

Components meet only through topics (one producer side, one consumer group per
service), and through Redis and Postgres rows that replicas of one service share.

## Modules

| Module | Models | State and actions |
| --- | --- | --- |
| `CorrelationEngine` | the pure part of `correlation/engine.ts` | operators: `Family`, `KeyFor`, `Evict`, `ConfidenceFor`, `Credible`, `ClusterOf` |
| `EventProcessor` | `event-processor/src/worker.ts` with the engine | `buckets` is the engine's map, `assigned`/`position`/`committed` which of the two consumers may read and their offsets, `pending` the cluster a consumer is awaiting the publication of. `Ingest` is `ingest()` up to the first `await`; `Publish`, `PublishFails`, `DeadLetterFails` end the handler; `Commit` is `autoCommit`; `Assign` and `Revoke` are what a rebalance does to a consumer; `Crash` loses the memory |
| `SubscriptionDelivery` | what a subscription promises | length of the topic, where the group started, committed offset, settled offsets |
| `KafkaBus` | `bus.ts` and `serialization.ts` | one action per step of `eachMessage`: `Deliver` (decode), `HandlerPublishes`, `HandlerReturns`, `HandlerThrows`, `DeadLetter`, `DeadLetterThrows`; `Join` is `subscribe()`, and `Assignments` what kafkajs makes of a group with several topics |
| `IncidentScoring` | `riskFromMembers`, `prioritize` | operators |
| `Incidents` | `incident-service` | `work[w]` is the handler a replica runs: `Find`, `Upsert`, `Announce`, or `Fail`; `Rebalance` hands its partition over without stopping it; `Restart` is where a partition is read from; `Edit` is an operator |
| `RiskScoring` | `scoring.ts` | operators; sums in thousandths of a point, scores in tenths |
| `RiskRollup` | `risk-engine` worker and `state.store.ts` | `Score` (first `load`), `Reload` (the `load` of `recordFinding`), `Write` (`set`), `Rank` (`zadd`), `Announce`; `Correlate` is the second handler; `Expire` is the 30-day TTL; a partition may be `Nobody`'s |
| `SecurityRules` | `packages/security-rules`: the loop of `RuleEngine.evaluate` and the 21 rules | operators: a table of the rules (kinds, severity, the list a rule goes through), their conditions per category, `Severity`, `Evaluate` (the results in no order: `Evaluation`, one per rule that fires) |
| `SignalEngine` | `signal-engine`: both endpoints, `ingest`, the four normalizers | `requests[p]` is a request being served, `log[r]` the partition of `signal.received` a resource is keyed to; `Post`, `NormalizeNext` (one body of a batch), `PublishSignal`, `SignalFails`, `Reply` |
| `SecurityEngine` | `security-engine` behind `SignalEngine`, with `SecurityRules` | `work[w]` is the handler of a replica with the findings it has still to publish: `Start` (lookup and evaluation), `PublishFinding`, `Return`, `Fail`; `Reject` is a signal that `decode` refuses; `Tick` is the clock a rule reads |
| `Normalizers` | the four normalizers of the signal-engine | operators: `CloudTrail`, `Kubernetes`, `GithubActions`, `Prometheus`, `SignalOf`, and `Normalize` (the signals of a payload, each with the place of its element) |
| `TopicProvisioning` | `ensureTopics()` as the workers await it at boot | `existing` at the broker; per worker its `boot` stage and what its `request` has still to create: `List`, `Create` (the broker, one topic at a time), `Created`, `BootFails` |
| `LiveStream` | `live-stream.service.ts`, `stream.controller.ts`, `live-feed.tsx`, over `TopicProvisioning` | per replica its process id and its subscriptions (`Subscribe`, `SubscribeThrows`, `Crash`); per consumer group who reads each lane, if anybody does, and its offsets (`Rebalance` with `Assignments`, `Commit`); `Emit` is the handler with `subject.next()`; `Connect` and `Disconnect` are browsers |
| `Migrator` | `migrate.ts` | `schema` is what took effect, `recorded` the rows of `schema_migrations`; per process what it has `applied`: `ReadApplied`, `Apply` (BEGIN and the file), `Commit`, `RowExists`, `RunFails`, `Rerun` |
| `Estate` | the tables and `seed.ts`, over `Migrator` | one action per statement of the seed, in its order: `BeginSeed`, `Truncate`, `InsertAssets`, `ScoreAsset`, `InsertFindings`, `ResolveFindings`, `InsertIncident`, `InsertSnapshot`, `EndSeed`; `NoTable` and `SeedDies` end it early; `OpenIncident` is the incident-service |
| `ReadModel` | `read-model.service.ts` | operators, one per query: `AssetTotals`, `FindingSummary`, `IncidentSummary`, `SecurityScore`, `RiskTrend` |
| `Console` | the controllers, `lib/api.ts` and the pages, over `Estate` and `ReadModel` | `AskOverview`, `Answer` (one statement, at its own moment), `ShowOverview`; `FetchList`; `ListForIncident` and `ShowIncident` are the two requests of the incident page; `Shown` and `DemoBanner` are what a page shows and whether it has a banner |
| `Simulator` | the four scenarios | operators: `Returned(scenario, n, services)` is what the n-th call of `next()` may return |
| `Pipeline` | the services in a row, with `CorrelationEngine`, `IncidentScoring`, `SecurityRules`, `Simulator` | what a message becomes on its way (`TheSignal`, `ContextOf`, `InOrder`); a handler is one step: `Tick`, `Lose`, `Ingest`, `Examine`, `Correlate`, `OpenIncident`, and `Crash` and `Rebalance` of the event-processors, which own partitions and hold what they were given |
| `MC*` | | values for the constants of the runs |
| `*_proofs` | | theorems and proofs |

Definitions marked as mutated forms are not part of the models: each is a
plausible mistake in the definition that follows it, kept so that a run can show
that the property of interest would notice.

Of a signal's attributes the models keep what a rule reads. A resource id is its
prefix, a name, and the marks that `inferKind` looks for in it. A list is the set of what
the rules look at in its elements, and a value that is no such list is a key in
`malformed`. In `SecurityEngine` and `RiskRollup` a dead letter always succeeds:
what happens when it does not is `KafkaBus`'s subject.

What is abstracted everywhere: the text of titles, summaries and hypotheses,
metrics and logs, timestamps of envelopes. Times in `EventProcessor` are in
units of 2.5 minutes, so that the window is 6 and the five minutes of
`proximityScore` are 2. Confidences are in hundredths. Rounding errors of
double-precision arithmetic are not modelled. An incident id minted from the
clock is a new one: two INSERTs of one key in one millisecond are not modelled.
The session timeout of a consumer group is not modelled: a member that dies
leaves at once, which a later notice only delays. A process id belongs to a host
and is the same after a restart, as in a container. Of the answer to a list the
console's model keeps only where it came from.

### Where a consumer starts

`subscribe()` joins with `fromBeginning: false` (`bus.ts:102`). Whenever a
partition is assigned, by a boot, after a crash or in a rebalance, it is read from
the offset that the group has committed, and when it has committed none from its
end: what lies before is passed over and never comes back. Every module with
offsets has this rule: `KafkaBus` in `Rebalance`, `EventProcessor` in `Assign`,
`Incidents`, `RiskRollup` and `SecurityEngine` in `Restart`, `LiveStream` in
`Rebalance`, and `Pipeline` in `Resumptions`. `committed` is `NoOffset` until the
first commit; `start` is the end of the partition when it was last read from there.
The properties about redelivery say what that leaves: `CommittedIsSettled`,
`NothingSkippedOnceCommitted` and `FinishedIsShown` hold from `start` on,
`LeaderboardFollowsRollup` not until a message behind `start` is finished with,
and `EveryMessageSettles`, `EveryFindingScored` and `SettlesOnLatest` except for
what was there before. `AtLeastOnce`, without such an exception, is refuted.

### Several topics in one group

`subscribe()` makes a consumer per topic, and all consumers of a bus join one group
(`bus.ts:99-103`). The leader of a kafkajs group assigns the partitions of the
topics it subscribes to itself, and deals them out to all members; a member drops
what is not of its own topic. So as long as a group has members of two topics, one
topic at the most is read, and perhaps not even that one. The event-processor, the
risk-engine and the live stream are such groups; the security-engine and the
incident-service subscribe to one topic each. `KafkaBus` (`Assignments`) and
`LiveStream` (`Assignments`, with the dealing out) have kafkajs's rule. In
`EventProcessor`, `RiskRollup` and `Pipeline` a topic or partition may be anybody's
or nobody's at any time, which is more than the rule allows, so that what is shown
does not rest on it. What must happen in the end is then asked of what stays
assigned: `NoPartitionStalls` and `EveryMessageSettles` of a topic that is assigned
for ever from some point on, `EveryFindingScored` of a partition that does not stay
with nobody, `LiveFeedIsLive` of a lane that the browser's replica reads. That both
topics of a service are read is not claimed: the code does not see to it.

## Runs

Where a start without a commit matters, runs allow two crashes or faults, so that
one may hit before the first commit and another after it, or the same message
twice; the others allow one. Deadlock is not checked: the bounds on arrivals and
faults make every model stop.

| Run | Instance | Shows |
| --- | --- | --- |
| `event_processor` | a deployment and a finding of one service 12.5 minutes apart, and an alert of the same service in another environment; clock 0, 5, 8; two crashes or rebalances, one failed publication | `OneStoryPerCluster`, `RedeliveryTellsNoStory`, `OnlyTheTriggerIsStale`, `NothingInWindowForgotten`, `CommittedIsSettled`, and `EveryMessageSettles` |
| `kafka_bus` | two topics in one group, two messages each of any kind, two faults, two crashes | `NothingSkippedOnceCommitted`, `DeadLettersNameTheFault`, `OnlyValidMessagesHaveEffects`, `NoPartitionStalls`, and that each subscription implements `SubscriptionDelivery` |
| `incidents` | two keys, two replicas, two clusters of two sizes, of staging and of production, two failures or crashes, one rebalance, one edit | `RowsShowTheirStory`, `OneOpenIncident`, `CreatedAtMostOnce`, `NoSilentIncident`, `StatusLostOnlyByRace`, `SettlesOnLatest` |
| `risk_rollup` | two findings of one asset, two detections, two replicas, two faults (crash, unreadable or expired roll-up, throwing step), two rebalances, to the other replica or to nobody | `PublishedIsRecorded`, `LeaderboardFollowsRollup`, `RollupOnlyGrows`, `EveryFindingScored` |
| `security_engine` | a batch of a pod on the host network whose containers are no list and a body that is none; a post of two alerts, one resolved, one from an environment outside the contract; another publisher's two signals about an overdue secret; two replicas, one fault, one rebalance, two days | `AcceptedIsDurable`, `FinishedIsShown`, `SeverityFallsOnlyByTakeover`, `CollectorsShow`, `PartitionsCatchUp` |
| `live_stream` | two workers that provision two topics, one boot that fails; two API replicas with process ids of their own that subscribe to both, one crash; one browser that comes and goes; one event | `ProvisionedOnceUp`, `LoneReplicaSeesEveryEvent`, `LiveFeedIsLive`, `EverybodyBoots` |
| `console` | two migrations run by two processes, one failure each; two assets in one environment, one of them critical, with two findings, two runs of the seed of which one may die, one live incident; one request of each kind at a time | `MigrationsAreWhole`, `SeedLeavesTheEstate`, `OverviewAddsUp`, `FallbacksAreFlagged` |
| `pipeline` | three campaigns: the demonstration with one fault, next to noise about its service, and the other two scenarios with one fault; two event-processors, and each way to share out the partitions of the demonstration's workload | `TogetherIsPaged`, `NoiseNeverPages` |
| `at_least_once` | one topic, two messages | refutes `bus.ts:24-25`: a crash before the first commit passes over a message that had arrived |
| `replay_converges` | one key, two clusters, an operator who closes | refutes ADR-0004: a redelivered cluster opens a second incident |
| `every_replica` | two replicas with one process id | refutes `live-stream.service.ts:30`: they are one group and split the events |
| `demo_is_one_incident` | the demonstration, one event-processor, no fault | refutes `README.md:351-354` and `deployment-incident.ts:5-6`: the deployment, whose key is its commit sha, joins no incident |

Bounds, and why they are enough. The window and the clock readings of
`event_processor` put every pair of events inside and outside the window, before
and after the eviction. Two consumers, two topics, two replicas are what an
interleaving needs; two messages let a topic hold one that fails with one before or
after it, and two crashes let the first fall before the first commit and the second
after it. In `incidents` two clusters of different severity make
the priority change and the environment with it, and with two keys a replica may hold a handler
of either. In `risk_rollup` the findings differ in score, so that the worst and
the last are not the same. In `security_engine` one collector is
enough: requests share nothing but the bus, and appends of one key commute with
those of another. The three kinds of signal are one that a rule throws on before
another fires, one that is refused, and one whose evaluation depends on the day.
In `live_stream` two topics let a boot be cut short between them, and let a
replica wait for the second one, and let a group of one replica have a leader of
either topic; one event is enough for it to be published on either lane before,
during and after each membership change. Workers are alike and so are replicas, so
that it is enough that one named of each fails. In `console` two
migrations and two processes give a race for either file and a run that fails
between them; two assets give an overview that sees the first without the
second; the second seed runs over what the first one left, whole or not. Five
ticks of the demonstration are one round of it, four of the bucket's scenario
its first repetition. `pipeline` has no clock: a scenario is over in seconds, so
that nothing leaves the window, which is `event_processor`'s subject.
What the bounds hide is stated for all values by the
theorems below, where there is one.

Fairness. A consumer keeps polling, and a handler's `await` returns or throws
(kafkajs, ioredis and pg all end their calls in a result or an error), so weak
fairness of the consumer's steps is assumed: `Consume(c)` and `Handle(w)`. It is
fairness of a consumer that has something assigned: a topic or partition that the
group leaves to nobody is not read under it (see above). In
`live_stream` a service that is down is started again (the deployments restart
their pods) and its boot goes on: fairness of `Provision(w)` for each worker, of
`Subscribe(r)` with `SubscribeThrows(r)` for each replica, and of its polling, of
whichever lanes (`\E l : Emit(r, l)`). In
`demo_is_one_incident` the timer fires, posts are answered and every service
polls all its partitions, which is more than the group promises; the property fails
all the same. Nothing is assumed of arrivals, commits, the clock, crashes, failures, rebalances
or operators.

## What the runs say beyond "it holds"

- The three early returns of `ingest` are two: with the default `minConfidence`
  every cluster of two families passes (`DefaultThresholdFiltersNothing`).
- A cluster may span more than the window, but only by the event that completed
  it (`OnlyTheTriggerIsStale`).
- Two incidents of one key need a partition handed over while its handler is
  running; crashes, failures, redeliveries and edits alone never make them
  (`OneOpenIncident`).
- An operator's change of status is lost only to a handler that had read the row
  before (`StatusLostOnlyByRace`); the incident is then open again.
- Of the 21 rules, six can be fired by what the four collectors send
  (`CollectorsShow`): their signals do not carry the keys the others read. Two of
  the six fire on what is missing, so that every alert about an image or a
  pipeline is a finding.
- `inferKind` finds its marks anywhere in the id, before it looks at the prefixes:
  a service whose name contains `db-` is a database. `put()` of the asset catalog
  is never called, so this is the kind of every asset.
- A finding that is evaluated again is never published as less severe than before,
  unless a replica goes on publishing after its partition moved
  (`SeverityFallsOnlyByTakeover`).
- An environment label outside the contract is answered with 202 and the signal
  dead-lettered by its consumers; the partitions get past it (`PartitionsCatchUp`).
- A roll-up loses a finding only by an expiry, an unreadable read or a hand-over
  (`RollupOnlyGrows`); an unreadable read is enough, because `load()` turns an
  error into a blank state that `recordFinding` writes back.
- A service that is up finds every topic (`ProvisionedOnceUp`), but not every
  dead-letter topic: `missing` looks at topics only, so that one whose request
  was cut short before its dead-letter topic never gets it: nothing else creates
  topics (`bus.ts:71,127`, `docker-compose.yml:22`). `deadLetter()` then throws for
  every message of that topic, which is delivered again and again;
  `NoPartitionStalls` is about dead letters that fail a bounded number of times.
- The API creates no topic: a replica that boots before the workers have done so
  fails, and is restarted until they have (`EverybodyBoots`).
- The seed empties `incidents`, live ones included, and has no transaction: a run
  that dies leaves part of its estate until the next one. Two runs at the same
  time are left out of the model. Its open incidents are rows like any other:
  `findByCorrelationKey` finds them.
- Nothing but the seed writes `assets`, `findings` and `risk_snapshots`, although
  `0001_init.sql:71` and `README.md:289` name the risk-engine: with no snapshot,
  the overview shows a security score of 100.
- The figures of the overview that one statement returns add up whatever happens;
  those of several do unless the seed writes assets in between
  (`OverviewAddsUp`).
- Every fallback to sample data is flagged where it is fetched, and the incidents,
  findings and assets pages and the overview of the command center show a banner
  over it (`FallbacksAreFlagged`). Two places keep no flag: the command center's
  list of incidents (`page.tsx:18,33,67`; its banner is the overview's), and the
  incident page, which has no banner (`incidents/[id]/page.tsx`).
- An incident may show the priority of a production cluster under the title of a
  staging one: ON CONFLICT leaves title, environment and opening time
  (`incident.repository.ts:20-29`). Each half is of one cluster that was written to
  that row (`RowsShowTheirStory`).
- The bus passes over what arrived before a group's first commit whenever the
  group is joined anew (`AtLeastOnce`), and services with two topics read one at a
  time at best: see "Where a consumer starts" and "Several topics in one group".
- The demonstration pages only when its alert and its workload, or the workload's
  finding, reach one replica of the event-processor (`TogetherIsPaged`); three
  replicas are deployed (`workers.yaml:47`), and where the partitions of the two
  are shared out to different replicas no incident opens. A finding meets a
  signal because the demo's asset is named like its service: the one is bucketed
  under the asset's name, the other under the service.
- Of the four scenarios only the demonstration opens an incident, and it does not
  need its deployment: a noise event of the same service next to the alert is
  paged as P1 as well (`NoiseNeverPages` says that noise alone never is). The
  exposed bucket and the leaked credential never open one.
- More statements of the documents do not hold of the code, each visible in
  a definition and without a run of its own: a payload that is no JSON is not
  surfaced as a `ContractViolationError` (`serialization.ts:19-21`): its dead letter
  is labelled as a handler's failure (`ErrorKind`, `DeadLettersNameTheFault`); not
  every fallback is labelled in the UI (`README.md:315-316`, `demo-banner.tsx:1`,
  `lib/api.ts:27`: `Shown` and `DemoBanner`); a second topic that is subscribed to
  on one bus is not read while the leader is of the first (`Assignments`; every
  service's `worker.ts` expects it); a producer first used by
  `deadLetter()` is not idempotent, so that `RetrySend` may store a record twice
  (`README.md:117`); the related findings of a finding count the finding itself
  (`scoring.ts:22`); the band of a cluster is the band of an unscaled score
  (`README.md:201`); a rule reads the clock, so that a replay a day later may find
  another severity (`engine.ts:11-12`); a signal without the sha of a commit does
  not join the cluster of the commit (`correlation/engine.ts:47-50`).
- The simulator counts a post that failed as sent, and does not repeat it. A row's
  title is never updated by a later cluster.

## Proofs

Eight modules prove every safety property of every passing run, for every value
of the constants that the named assumptions allow: `EngineAssumption`,
`ProcessorAssumption`, `BusAssumption`, `RiskAssumption`, `IncidentAssumption`,
`ProvisioningAssumption`, `StreamAssumption`, `SignalAssumption`,
`SecurityAssumption`, `MigratorAssumption`, `EstateAssumption`,
`ReadModelAssumption`, `PipelineAssumption`, and `ShaAssumption` (the sha of the
leaked credential's commit is not the id of a service). TLC evaluates them in the
passing runs. `ProvisionedOnceUp` is proved of the specification that `LiveStream`
embeds, and `MigrationsAreWhole` of the one that `Console` embeds; that the
composition implements it carries both over. What the scores of the risk-engine
can be, and which clusters the incident-service pages, is proved next to them.

*EventProcessor.* `Typing` strengthens `TypeOK` with the shape of pending and
published clusters. `BucketInv` says that a delivery lies under the key of its
event and that what was seen inside the window is there: it is inductive because
the clock only advances, so a later eviction drops only what no longer counts.
`ClusterInv` says of every cluster, pending or published, what was true of its
bucket when `ingest` returned it: published clusters never change, so only
`Ingest` has to be argued, by `NewClusterIsGood`. That in turn needs the buckets
to be homogeneous (`BucketInv`) and the two-families test of `Credible`.
`OffsetInv` says that what lies between `start` and the position is settled, and so
is what lies between `start` and the committed offset, which once there is one is
past `start`: a start at the end happens only without it. With
`ArrivedInv` (what is settled or passed has arrived) it makes each subscription of
an event-processor an implementation of
`SubscriptionDelivery`: by `StepOfAConsumer` every step is, seen by one consumer,
an arrival, a beginning, a settlement, a commit or nothing (`Refinement`).
`Assign` with nothing committed is `StartAtEnd`.

*KafkaBus.* `EffectInv` ties what a consumer is doing to the kind of the message
it does it for, which is why only valid messages have effects and why a dead
letter's kind is that of its message: `error` is set by `Deliver` or
`HandlerThrows` for the message at `position` and cleared when it moves on.
`DeliveryInv` says that everything between `start` and `position` is settled, of a
topic that is assigned, and likewise up to the committed offset.
The refinement maps every step to a step or a stutter of each subscription: a
`Join` of one consumer moves the others too, and what it assigns with nothing
committed makes a `StartAtEnd` of its topic. Which topics the leader assigns does not matter to it.

*RiskRollup.* `Stable` says what a replica's handler has achieved: that it runs at
the owner of its partition, on the message after the cursor, and that what it
loaded, wrote and ranked is what Redis holds. It is needed because each
property is about a value another step left in the handler; it holds only of
undisturbed assets, since a second owner would write between two of its steps.
That two replicas never handle one undisturbed asset follows from it, and with it
every step of another handler is harmless. `CommittedBehind` places the committed
offset, where there is one, between `start` and the cursor: a restart finds the
half-done message again, or leaves the cursor at `start`, which
`LeaderboardFollowsRollup` excepts. Of the scores: `NoFactorDominates` is
the README's claim that every secondary factor is capped; `BandIsOfTheScore`
says that for a finding the band is off only within half a tenth of a threshold;
`IncidentIsNeverSevere` that the highest band is out of reach of incidents. The
totals are bounded case by case over the weights, with `Point` left folded.

*Incidents.* `BaseInv` types the state, says that a handler works on the cluster
at its offset and on an incident of its own key, and that what was announced is
in the table. `StoriesAreWhole` needs of a row only what `Upsert` writes: an INSERT
makes both halves of one cluster, an update one of them. `CreatedInv` adds to `CreatedAtMostOnce` that a handler which
inserted a row is the only one with that row, and has not announced it yet: ids
are never reused. `SilentInv` names the handler that owes the announcement.
`OpenInv` is the one that `overlaps` is needed for: as long as no partition was
taken from a running handler, a handler runs at its partition's owner, so it has
its key to itself, and every open incident of the key is the one it found
(`Alone`); an edit never reopens a closed one. `EditInv` says that before the
first edit every status is "open", in the table and in the handlers. Of the
paging decision: `WorseIsNeverLessUrgent` says that no order of the tests in
`prioritize()` makes a worse cluster less urgent, `WeakCorrelationNeverPages` is
the README's promise to on-call.

*SecurityEngine.* The signal-engine first: `NothingIsSkipped` says that what a
request will answer for is on the bus or has still to be published, from which
`AcceptedIsDurable` follows at `Reply`. Then the engine behind it, one
conjunct of `EngineInv` per thing a handler must not lose. `NothingIsForgotten`:
the rules that its signal calls for are among what it has left to publish and what
the bus has. `Finished` is `FinishedIsShown`, between `start` and the cursor, so that a rebalance,
which sets the cursor back to the committed offset, or both to the end, has nothing
to prove.
`OneEvaluation` and `NoLessSevere` are for `SeverityFallsOnlyByTakeover`: what is
left comes from one evaluation of one day, no less severe than what was published
for the signal before, because an overdue secret only gets older
(`SeverityIsMonotonic`) and no other replica has that partition (`OneReplica`).
`Justified` says that a finding on the bus was drawn from its signal by a rule.
`CollectorsShow` follows from it and from what the normalizers can send
(`Collectable`): the rules are evaluated over every body a collector could be
posted, where the run has a handful.

*TopicProvisioning and LiveStream.* `BootInv`: what a worker found missing is
either there by now or still in its request, whoever creates it. `DlqInv` keeps
sight of each dead-letter topic: it exists, is requested, or was in a request
that was cut short. `ProvisioningGoesOn` shows that the composition implements
`ProvisionSpec`, so that `ProvisionedInStream` needs no second argument.
`StreamInv` adds to `LoneReplicaSeesEveryEvent` that no group is ahead of what was
published: a replica that has just made its last subscription has missed nothing,
and a new assignment, whichever lanes it leaves to nobody, moves only its own group,
and back or to the end (`RebalanceMoves`).

*Console.* `FallbacksFlagged` needs that no sample is live in what the pages hold
(`PagesInv`): `Combine` is live only if a request was, and then takes its answer.
`ConsoleMigrates` shows that the composition implements
`MigratorSpec`. There, `KnownIsRecorded`: a migrator takes for applied only what is
recorded, however old its list is. With that and without a gap in what is
recorded, the first file it has not found follows on what is there (`NoGap`).
`SeedInv` says what each table holds at each statement of the seed, up to the rows
it has written; nothing of a run that has died, because the next one begins with a
TRUNCATE. `OverviewInv` adds to `OverviewAddsUp` that the statements answered so far
add up, and are of the current assets unless the seed has written some since. That
the figures of one statement add up for a table of any size is `TallyAddsUp` (the
counts of a GROUP BY sum up to the rows), shown by a bijection: number the rows of
each group, and the pairs of a value and a number are the rows, one to one.

*Pipeline.* `Flow` types what is on its way: every message was sent by a scenario,
every delivery and every cluster stems from one. Of a message of a scenario,
`IsKnown` says what the two properties need, and `DeliveriesAreKnown` carries it
through normalizers, rules and `FromSignal`. `NoiseInv`: a cluster on its way to the
incident-service has a member of the demonstration. Noise alone is of one family
per bucket, since its deployments have a commit's key of their own and its
infrastructure events the key of their service. `TogetherInv`: once the alert
and the other event are held by one replica, the row that pages is announced or
that of a cluster on its way. `TogetherPages` assumes `MinConfidence <= 95`: two
families of one service, at one moment, are worth 20 + 30 + 25 + 20, the least that
this cluster can have; with a higher threshold the property is false. Whatever
order `Evaluate`'s rules are listed in, the list has each result once
(`EveryResultIsListed`). `SharedReplicaPages` turns `TogetherIsPaged`, which is
about what a replica holds, into a statement about the deployment: as long as
nothing has failed, an alert and another event about its service that were read
from two partitions of one replica are paged together. `ReadInv` carries it: until
the first fault a replica holds everything it has read, since the bus only appends
(`LogExtends`) and a scenario is over long before the window is. After a fault it
is false, because a crashed process forgets buckets whose messages are committed,
and a group that has committed nothing passes over what it was to read.

No run checks `KeepsDelivery` and `ReadTogetherIsPaged`: they are stated with their
proofs. Both were found to hold on the instances of `MCEventProcessor` and
`MCPipeline` before they were proved.

Only TLC has a say on liveness, which needs fairness and ENABLED:
`EveryMessageSettles`, `NoPartitionStalls`, `SettlesOnLatest`, `EveryFindingScored`,
`PartitionsCatchUp`, `LiveFeedIsLive`, `EverybodyBoots`; and on the four refuted
statements. Nothing is proved of
what a recursive definition computes for every input: that needs an induction over
data, which the installed provers cannot instantiate. The models have one, the
average of `SecurityScore` and `RiskTrend` (a sum over rows), and no property
rests on its value.

## Plan

1. Done: the services (`EventProcessor`, `Incidents`, `RiskRollup`, `SecurityEngine`,
   `SignalEngine`), the bus (`KafkaBus`, `TopicProvisioning`), the API and the
   console (`LiveStream`, `Migrator`, `Estate`, `ReadModel`, `Console`), their
   composition (`Pipeline` with `Simulator`), and the proofs above.
   Every safety property of every passing run is a theorem.
2. Next: `Pipeline` with one event-processor as the abstract specification of
   `Pipeline` with several whose partitions are shared out by service.
   `SharedReplicaPages` says so of the one incident that the demonstration needs;
   the refinement would say it of every cluster.
3. Then: `SubscriptionDelivery` as the interface of `RiskRollup` too, as it is of
   `KafkaBus` and `EventProcessor`, in place of the offsets it keeps; the lists of the read
   model with their order, and the payload contracts of `payloads.ts`.

## Not modelled

Fields of provider payloads that no later service looks at, and elements of them
that are null, which the normalizers drop. Rules that a tenant disables, an
option that nobody passes. `aggregateOrganizationScore` and `postureScore`, which
nothing calls. Compaction, which is the broker's. Of the read model
`resolvedLast7d` and `meanTimeToDetect`, and the columns and the order of the
lists; of the incident-service and the pages the wording: `hypothesisFor`,
`suggestActions`, rendering. Configuration, observability and infrastructure
keep no state that the platform's behaviour depends on. A record that a broker
stored although it did not acknowledge it is a fault of the broker's client; only
the retry that would store it again is modelled.
