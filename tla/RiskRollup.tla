----------------------------- MODULE RiskRollup -----------------------------
(***************************************************************************)
(* The risk-engine (apps/risk-engine/src/worker.ts and state.store.ts):    *)
(* its replicas score every finding against the roll-up of its asset kept  *)
(* in Redis, add the finding to the roll-up, rank the asset, and publish   *)
(* the score; a cluster is scored from its own message alone.              *)
(*                                                                         *)
(* Every call to Redis is awaited, so it is a step of its own: between the *)
(* read of the roll-up and the write of the new one the replica may crash, *)
(* the roll-up may expire, or another replica may take the partition over  *)
(* and write it.  finding.detected is keyed by asset: the messages of one  *)
(* asset are one partition.                                                *)
(*                                                                         *)
(* The worker subscribes to two topics and so has two consumers in one     *)
(* group (bus.ts:99-103).  Whether a partition of finding.detected is read *)
(* at all then depends on which consumer leads the group (KafkaBus has the *)
(* rule): here any partition may be Nobody's for a time.  Where the group  *)
(* has committed nothing, a partition is read from its end (bus.ts:102).   *)
(***************************************************************************)
EXTENDS RiskScoring, Sequences

CONSTANTS
  Assets, Workers,
  Nobody,         \* the owner of a partition that no consumer reads
  Findings,       \* what the security-engine may publish
  Clusters,       \* what the event-processor may publish
  Assignment,     \* Assignment[a]: who has a's partition at first
  AgePoints,      \* what the age of a finding may contribute when it is scored
  MaxDetections,  \* bound: findings published
  MaxFaults,      \* bound: crashes, failed reads, steps that throw, expiries
  MaxRebalances   \* bound: partitions assigned to another replica or to Nobody

NoOffset == -1

ASSUME RiskAssumption ==
  /\ Nobody \notin Workers
  /\ Assignment \in [Assets -> Workers \cup {Nobody}]
  /\ AgePoints \subseteq 0 .. AgeCap
  /\ \A f \in Findings : /\ f.asset \in Assets /\ f.severity \in FindingSeverities
                         /\ f.criticality \in Criticalities \cup {"none"}
                         /\ f.environment \in Environments /\ f.exposed \in BOOLEAN
  /\ \A c \in Clusters : /\ IsFiniteSet(c.severities) /\ c.severities \subseteq FindingSeverities
                         /\ c.environment \in Environments
                         /\ c.findings \in Nat /\ c.confidence \in 0 .. 100
  /\ MaxDetections \in Nat /\ MaxFaults \in Nat /\ MaxRebalances \in Nat

VARIABLES
  log,          \* log[a]: the findings published for asset a
  owner,        \* owner[a]: the replica the partition of a is assigned to, or Nobody
  cursor,       \* cursor[a]: the messages of a that are finished with
  committed,    \* committed[a]: the offset the group has committed
  start,        \* start[a]: the end of the partition when it was last read from
                \* there, with nothing committed
  work,         \* work[w]: {} or the handler that replica w is running
  rollup,       \* stratus:risk:asset:<a> in Redis
  leaderboard,  \* leaderboard[a] in Redis, 0 when a is not ranked
  updates,      \* the risk.score.updated published, without their order
  faults, rebalances,
  \* History variables.
  dropped,      \* <<a, offset>> that were dead-lettered
  disturbed     \* assets whose roll-up expired, could not be read, or whose
                \* partition was taken over while its handler was running

queue  == <<log, owner, cursor, committed, start>>
redis  == <<rollup, leaderboard>>
bounds == <<faults, rebalances>>
vars   == <<queue, work, redis, updates, bounds, dropped, disturbed>>

(* The state load() makes up when there is none.  historicalIncidents is   *)
(* written nowhere, so it stays 0.                                         *)
Blank == [score |-> 0, findings |-> {}, incidents |-> 0]

Init ==
  /\ log = [a \in Assets |-> <<>>]
  /\ owner = Assignment
  /\ cursor = [a \in Assets |-> 0]
  /\ committed = [a \in Assets |-> NoOffset]
  /\ start = [a \in Assets |-> 0]
  /\ work = [w \in Workers |-> {}]
  /\ rollup = [a \in Assets |-> Blank]
  /\ leaderboard = [a \in Assets |-> 0]
  /\ updates = {}
  /\ faults = 0 /\ rebalances = 0
  /\ dropped = {} /\ disturbed = {}

Published == UNION {{a} \X (1 .. Len(log[a])) : a \in Assets}

Detect(f) ==
  /\ Cardinality(Published) < MaxDetections
  /\ log' = [log EXCEPT ![f.asset] = Append(@, f)]
  /\ UNCHANGED <<owner, cursor, committed, start, work, redis, updates, bounds,
                 dropped, disturbed>>

(* load(): the roll-up, or a blank one when Redis does not answer.         *)
Reading(a, state) ==
  \/ /\ state = rollup[a]
     /\ UNCHANGED <<faults, disturbed>>
  \/ /\ faults < MaxFaults /\ rollup[a] # Blank
     /\ state = Blank
     /\ faults' = faults + 1
     /\ disturbed' = disturbed \cup {a}

(* scoreRisk() as the finding handler calls it: the findings of the        *)
(* roll-up are the related ones, the finding itself included when it was   *)
(* scored before.  `age` is 2 * log2(ageDays), capped: Date.now() is read  *)
(* here, so that the same message may score differently each time.         *)
CriticalityOf(f) == IF f.criticality = "none" THEN "tier-2" ELSE f.criticality
FindingTotal(f, age, state) ==
  Clamp(Sum(Weighted(f.severity, CriticalityOf(f), f.environment), f.exposed,
            age, Cardinality(state.findings), state.incidents))

Score(w, a) ==
  /\ work[w] = {} /\ owner[a] = w /\ cursor[a] < Len(log[a])
  /\ \E state \in {rollup[a], Blank}, age \in AgePoints :
       /\ Reading(a, state)
       /\ LET f     == log[a][cursor[a] + 1]
              total == FindingTotal(f, age, state)
          IN  work' = [work EXCEPT ![w] =
                {[asset |-> a, offset |-> cursor[a] + 1, finding |-> f.id,
                  score |-> Rounded(total), band |-> BandOf(total),
                  previous |-> state.score, related |-> state.findings,
                  next |-> Blank, stage |-> "scored"]}]
  /\ UNCHANGED <<queue, redis, updates, rebalances, dropped>>

(* recordFinding(): the roll-up is loaded again, then written, then the    *)
(* asset is ranked by the new worst score.                                 *)
Summed(x, y) == x + y           \* mutated form of Worse
Worse(x, y) == IF x > y THEN x ELSE y

LatestOnly(state, h) ==         \* mutated form: the last score, not the worst
  [state EXCEPT !.findings = @ \cup {h.finding}, !.score = h.score]
FindingOnly(state, h) ==        \* mutated form: the other findings are lost
  [state EXCEPT !.findings = {h.finding}, !.score = Worse(@, h.score)]
Recorded(state, h) ==
  [state EXCEPT !.findings = @ \cup {h.finding}, !.score = Worse(@, h.score)]

Reload(w) ==
  \E h \in work[w] : \E state \in {rollup[h.asset], Blank} :
    /\ h.stage = "scored"
    /\ Reading(h.asset, state)
    /\ work' = [work EXCEPT ![w] = {[h EXCEPT !.next = Recorded(state, h), !.stage = "loaded"]}]
    /\ UNCHANGED <<queue, redis, updates, rebalances, dropped>>

Write(w) ==
  \E h \in work[w] :
    /\ h.stage = "loaded"
    /\ rollup' = [rollup EXCEPT ![h.asset] = h.next]
    /\ work' = [work EXCEPT ![w] = {[h EXCEPT !.stage = "written"]}]
    /\ UNCHANGED <<queue, leaderboard, updates, bounds, dropped, disturbed>>

RankOfFinding(h) == h.score     \* mutated form: the finding's score ranks it
RankOf(h) == h.next.score

Rank(w) ==
  \E h \in work[w] :
    /\ h.stage = "written"
    /\ leaderboard' = [leaderboard EXCEPT ![h.asset] = RankOf(h)]
    /\ work' = [work EXCEPT ![w] = {[h EXCEPT !.stage = "ranked"]}]
    /\ UNCHANGED <<queue, rollup, updates, bounds, dropped, disturbed>>

Resolve(w, h) ==
  cursor' = IF owner[h.asset] = w /\ cursor[h.asset] + 1 = h.offset
            THEN [cursor EXCEPT ![h.asset] = h.offset] ELSE cursor

(* publish() of the score, and the handler returns.                        *)
ScoreUpdate(h) ==
  [subjectType |-> "finding", subject |-> h.finding, asset |-> h.asset,
   offset |-> h.offset, score |-> h.score, band |-> h.band, previous |-> h.previous, related |-> h.related]

AnnounceChange(w) ==            \* mutated form: only a higher score is published
  \E h \in work[w] :
    /\ h.stage = "ranked"
    /\ updates' = IF h.score <= h.previous THEN updates ELSE updates \cup {ScoreUpdate(h)}
    /\ work' = [work EXCEPT ![w] = {}]
    /\ Resolve(w, h)
    /\ UNCHANGED <<log, owner, committed, start, redis, bounds, dropped, disturbed>>

Announce(w) ==
  \E h \in work[w] :
    /\ h.stage = "ranked"
    /\ updates' = updates \cup {ScoreUpdate(h)}
    /\ work' = [work EXCEPT ![w] = {}]
    /\ Resolve(w, h)
    /\ UNCHANGED <<log, owner, committed, start, redis, bounds, dropped, disturbed>>

(* set, zadd or publish throws: the message is dead-lettered.              *)
Fail(w) ==
  \E h \in work[w] :
    /\ h.stage # "scored" /\ faults < MaxFaults
    /\ faults' = faults + 1
    /\ work' = [work EXCEPT ![w] = {}]
    /\ Resolve(w, h)
    /\ dropped' = dropped \cup {<<h.asset, h.offset>>}
    /\ UNCHANGED <<log, owner, committed, start, redis, updates, rebalances,
                   disturbed>>

(* The correlation handler: the worst severity of the members, as one      *)
(* subject of a tier-1 asset; its score is scaled by the confidence.       *)
WorstOf(severities) ==
  IF severities = {} THEN "info"
  ELSE CHOOSE s \in severities : \A t \in severities : SeverityWeight(t) <= SeverityWeight(s)
ClusterTotal(c) ==
  Clamp(Sum(Weighted(WorstOf(c.severities), "tier-1", c.environment), FALSE, 0, c.findings, 0))
ClusterUpdate(c) ==
  [subjectType |-> "incident", subject |-> c.key,
   score |-> (Rounded(ClusterTotal(c)) * c.confidence + 50) \div 100,
   band |-> BandOf(ClusterTotal(c)), previous |-> 0]

Correlate(c) ==
  /\ ClusterUpdate(c) \notin updates
  /\ updates' = updates \cup {ClusterUpdate(c)}
  /\ UNCHANGED <<queue, work, redis, bounds, dropped, disturbed>>

Commit(a) ==
  /\ committed[a] < cursor[a] /\ start[a] < cursor[a]
  /\ committed' = [committed EXCEPT ![a] = cursor[a]]
  /\ UNCHANGED <<log, owner, cursor, start, work, redis, updates, bounds, dropped, disturbed>>

(* Where the partitions in S are read from when they are assigned: at the  *)
(* committed offset, or at the end if there is none (fromBeginning false). *)
Restart(S) ==
  /\ cursor' = [a \in Assets |-> IF a \notin S THEN cursor[a]
                                ELSE IF committed[a] = NoOffset THEN Len(log[a])
                                ELSE committed[a]]
  /\ start' = [a \in Assets |-> IF a \in S /\ committed[a] = NoOffset
                               THEN Len(log[a]) ELSE start[a]]

(* A replica dies and comes back.  What arrives in between arrives, in     *)
(* this model, at a replica that is about to die.                          *)
Crash(w) ==
  /\ faults < MaxFaults
  /\ faults' = faults + 1
  /\ work' = [work EXCEPT ![w] = {}]
  /\ Restart({a \in Assets : owner[a] = w})
  /\ UNCHANGED <<log, owner, committed, redis, updates, rebalances,
                 dropped, disturbed>>

(* The group assigns the partition of a to another replica, or to Nobody.  *)
(* The handler that is running on it, if there is one, is not interrupted. *)
Handlers == UNION {work[w] : w \in Workers}

Rebalance(a, w) ==
  /\ rebalances < MaxRebalances /\ owner[a] # w
  /\ rebalances' = rebalances + 1
  /\ owner' = [owner EXCEPT ![a] = w]
  /\ Restart({a})
  /\ disturbed' = IF \E h \in Handlers : h.asset = a
                  THEN disturbed \cup {a} ELSE disturbed
  /\ UNCHANGED <<log, committed, work, redis, updates, faults, dropped>>

(* Thirty days without a finding: the key expires, the rank stays.         *)
Expire(a) ==
  /\ faults < MaxFaults /\ rollup[a] # Blank
  /\ faults' = faults + 1
  /\ rollup' = [rollup EXCEPT ![a] = Blank]
  /\ disturbed' = disturbed \cup {a}
  /\ UNCHANGED <<queue, work, leaderboard, updates, rebalances, dropped>>

Handle(w) ==
  (\E a \in Assets : Score(w, a)) \/ Reload(w) \/ Write(w) \/ Rank(w) \/ Announce(w)

Next ==
  \/ \E f \in Findings : Detect(f)
  \/ \E w \in Workers : \/ \E a \in Assets : Score(w, a)
                        \/ Reload(w) \/ Write(w) \/ Rank(w) \/ Announce(w)
                        \/ Fail(w) \/ Crash(w)
  \/ \E c \in Clusters : Correlate(c)
  \/ \E a \in Assets : Commit(a) \/ Expire(a)
  \/ \E a \in Assets, w \in Workers \cup {Nobody} : Rebalance(a, w)

Spec == Init /\ [][Next]_vars

(* A replica keeps polling, and Redis and the broker answer or fail.       *)
FairSpec == Spec /\ \A w \in Workers : WF_vars(Handle(w))
-----------------------------------------------------------------------------
FindingUpdates == {u \in updates : u.subjectType = "finding"}
FindingIds == {f.id : f \in Findings}

RollupOK(s) == s.score \in Scores /\ s.findings \subseteq FindingIds /\ s.incidents = 0

HandlerOK(h) ==
  /\ h.asset \in Assets /\ h.offset \in 1 .. Len(log[h.asset])
  /\ h.finding = log[h.asset][h.offset].id
  /\ h.score \in Scores /\ h.previous \in Scores /\ h.band \in Bands
  /\ RollupOK(h.next)
  /\ h.stage \in {"scored", "loaded", "written", "ranked"}

TypeOK ==
  /\ \A a \in Assets : \A o \in 1 .. Len(log[a]) : log[a][o] \in Findings /\ log[a][o].asset = a
  /\ owner \in [Assets -> Workers \cup {Nobody}]
  /\ cursor \in [Assets -> Nat] /\ start \in [Assets -> Nat]
  /\ committed \in [Assets -> Nat \cup {NoOffset}]
  /\ \A w \in Workers : \A g, h \in work[w] : g = h
  /\ \A h \in Handlers : HandlerOK(h)
  /\ \A a \in Assets : RollupOK(rollup[a]) /\ leaderboard[a] \in Scores
  /\ \A u \in updates : u.score \in Scores /\ u.previous \in Scores /\ u.band \in Bands

(* Nothing is published that the roll-up does not stand for: while the     *)
(* roll-up of an asset was neither lost, unreadable nor fought over, it    *)
(* holds every finding a score was published for and is at least as high.  *)
PublishedIsRecorded ==
  \A u \in FindingUpdates : u.asset \notin disturbed =>
    /\ u.subject \in rollup[u.asset].findings
    /\ u.score <= rollup[u.asset].score

(* The leaderboard ranks an asset by its roll-up, except for as long as a  *)
(* message is still to be finished that will rank it again, or when the    *)
(* message that should have was dead-lettered, or passed over: the group,  *)
(* with nothing committed, began at the end behind it, and has finished    *)
(* nothing since.                                                          *)
LeaderboardFollowsRollup ==
  \A a \in Assets :
    \/ leaderboard[a] = rollup[a].score
    \/ cursor[a] < Len(log[a])
    \/ cursor[a] = start[a]
    \/ a \in disturbed \/ \E d \in dropped : d[1] = a

(* A roll-up only grows, in findings and in score, until it is disturbed.  *)
RollupOnlyGrows ==
  [][\A a \in Assets : a \notin disturbed' =>
       /\ rollup[a].findings \subseteq rollup'[a].findings
       /\ rollup[a].score <= rollup'[a].score]_vars

(* Where the group keeps the partition of an asset assigned in the end,    *)
(* every finding of it is scored and published, or dead-lettered, or was   *)
(* there before the group, with nothing committed, began to read.          *)
EveryFindingScored ==
  \A a \in Assets : \A o \in 1 .. MaxDetections :
    <>[](owner[a] # Nobody) =>
      ((Len(log[a]) >= o) ~> (\/ o <= start[a]
                              \/ <<a, o>> \in dropped
                              \/ \E u \in FindingUpdates : u.asset = a /\ u.offset = o))
=============================================================================
