--------------------------- MODULE EventProcessor ---------------------------
(***************************************************************************)
(* One event-processor process (apps/event-processor/src/worker.ts): two   *)
(* consumers, one of signal.received and one of finding.detected, that     *)
(* feed one CorrelationEngine and publish what it returns on               *)
(* correlation.detected.                                                   *)
(*                                                                         *)
(* ingest() runs to its end without an await, so it is one step; the       *)
(* publication that follows is awaited, and the other consumer may ingest  *)
(* and publish meanwhile.  A consumer handles one message at a time.       *)
(* Offsets are committed in the background (autoCommit), and a crash loses *)
(* the buckets, which are in memory only, and goes back to the committed   *)
(* offsets, or to the end of a topic of which nothing was committed.       *)
(*                                                                         *)
(* Both consumers are members of one group (bus.ts:99-102).  Which of them *)
(* the group lets read is up to its leader and changes when it rebalances: *)
(* KafkaBus has the rule that kafkajs follows, and here any of them may be *)
(* reading, so that nothing shown rests on that rule.                      *)
(***************************************************************************)
EXTENDS CorrelationEngine, Sequences

CONSTANTS
  Signals,        \* messages that may be published on signal.received
  Findings,       \* messages that may be published on finding.detected
  Instants,       \* the clock readings explored
  MaxCrashes,     \* bound: crashes of the process and rebalances of its group
  MaxFaults       \* bound: publications that fail

Consumers == {"signals", "findings"}

Candidate(c, m) == IF c = "signals" THEN FromSignal(m) ELSE FromFinding(m)

Messages(c) == IF c = "signals" THEN Signals ELSE Findings
Candidates  == {FromSignal(m) : m \in Signals} \cup {FromFinding(m) : m \in Findings}
Keys        == {KeyFor(e) : e \in Candidates}
NoOffset    == -1
Deliveries  == [n : Nat, event : Candidates]

ASSUME ProcessorAssumption ==
  /\ Instants \subseteq Nat /\ 0 \in Instants
  /\ MaxCrashes \in Nat /\ MaxFaults \in Nat
  /\ \A e \in Candidates : e.observedAt \in Nat
  /\ \A a, b \in Candidates : a.eventId = b.eventId => a.eventType = b.eventType

VARIABLES
  now,          \* Date.now()
  log,          \* log[c]: the messages of the topic consumer c reads
  assigned,     \* the consumers whose topic the group lets them read
  start,        \* start[c]: the end of the topic when the group last began
                \* to read it with nothing committed
  position,     \* position[c]: the messages c has finished with, while it reads
  committed,    \* committed[c]: the offset the group has committed
  buckets,      \* buckets[k]: the deliveries held under key k, {} if none
  arrivals,     \* calls of ingest so far
  pending,      \* pending[c]: {} or the one cluster c is publishing
  correlations, \* the clusters published, in the order of the topic
  deadLetters,  \* <<c, offset>> of the messages dead-lettered
  crashes, faults,
  \* History variables: no action reads them.
  seen,         \* deliveries ingested since the process started
  settled       \* <<c, offset>> whose handler returned or was dead-lettered

group == <<assigned, start>>
vars == <<now, log, group, position, committed, buckets, arrivals, pending,
          correlations, deadLetters, crashes, faults, seen, settled>>

Init ==
  /\ now = 0
  /\ log = [c \in Consumers |-> <<>>]
  /\ assigned = {}
  /\ start = [c \in Consumers |-> 0]
  /\ position = [c \in Consumers |-> 0]
  /\ committed = [c \in Consumers |-> NoOffset]
  /\ buckets = [k \in Keys |-> {}]
  /\ arrivals = 0
  /\ pending = [c \in Consumers |-> {}]
  /\ correlations = <<>>
  /\ deadLetters = {}
  /\ crashes = 0 /\ faults = 0
  /\ seen = {}
  /\ settled = {}

(* A collector or the security engine publishes a message, at most once.   *)
Arrive(c, m) ==
  /\ \A i \in 1 .. Len(log[c]) : log[c][i] # m
  /\ log' = [log EXCEPT ![c] = Append(@, m)]
  /\ UNCHANGED <<now, group, position, committed, buckets, arrivals, pending,
                 correlations, deadLetters, crashes, faults, seen, settled>>

Tick ==
  /\ now' \in {t \in Instants : t > now}
  /\ UNCHANGED <<log, group, position, committed, buckets, arrivals, pending,
                 correlations, deadLetters, crashes, faults, seen, settled>>

(* The group lets c read.  It starts at what the group has committed; with *)
(* nothing committed, fromBeginning false means the end of the topic.      *)
Assign(c) ==
  /\ c \notin assigned
  /\ assigned' = assigned \cup {c}
  /\ IF committed[c] = NoOffset
     THEN /\ start' = [start EXCEPT ![c] = Len(log[c])]
          /\ position' = [position EXCEPT ![c] = Len(log[c])]
     ELSE /\ position' = [position EXCEPT ![c] = committed[c]]
          /\ UNCHANGED start
  /\ UNCHANGED <<now, log, committed, buckets, arrivals, pending, correlations,
                 deadLetters, crashes, faults, seen, settled>>

(* A rebalance takes the topic away, between two messages of c.            *)
Revoke(c) ==
  /\ c \in assigned /\ pending[c] = {} /\ crashes < MaxCrashes
  /\ crashes' = crashes + 1
  /\ assigned' = assigned \ {c}
  /\ position' = [position EXCEPT ![c] = 0]
  /\ UNCHANGED <<now, log, start, committed, buckets, arrivals, pending,
                 correlations, deadLetters, faults, seen, settled>>

(* The handler of c takes its next message and calls ingest(): every       *)
(* bucket is evicted, the event is pushed, and either the handler returns  *)
(* at once or it starts publishing the cluster.                            *)
BucketsAfter(key, delivery) ==
  [k \in Keys |-> Evict(buckets[k], now) \cup (IF k = key THEN {delivery} ELSE {})]

(* Mutated form: the publication is not awaited, so that the handler       *)
(* returns at once and the next message is taken.                          *)
IngestUnawaited(c) ==
  /\ c \in assigned /\ position[c] < Len(log[c])
  /\ LET event    == Candidate(c, log[c][position[c] + 1])
         key      == KeyFor(event)
         delivery == [n |-> arrivals + 1, event |-> event]
     IN  /\ buckets' = BucketsAfter(key, delivery)
         /\ arrivals' = arrivals + 1
         /\ seen' = seen \cup {delivery}
         /\ pending' = [pending EXCEPT ![c] = @ \cup
                          IF Credible(buckets'[key])
                          THEN {ClusterOf(key, buckets'[key], now)} ELSE {}]
  /\ position' = [position EXCEPT ![c] = @ + 1]
  /\ settled' = IF pending'[c] = {} THEN settled \cup {<<c, position[c] + 1>>}
                                    ELSE settled
  /\ UNCHANGED <<now, log, group, committed, correlations, deadLetters, crashes, faults>>

Ingest(c) ==
  /\ c \in assigned /\ pending[c] = {}
  /\ position[c] < Len(log[c])
  /\ LET event    == Candidate(c, log[c][position[c] + 1])
         key      == KeyFor(event)
         delivery == [n |-> arrivals + 1, event |-> event]
     IN  /\ buckets' = BucketsAfter(key, delivery)
         /\ arrivals' = arrivals + 1
         /\ seen' = seen \cup {delivery}
         /\ IF Credible(buckets'[key])
            THEN /\ pending' = [pending EXCEPT ![c] =
                                  {ClusterOf(key, buckets'[key], now)}]
                 /\ UNCHANGED <<position, settled>>
            ELSE /\ position' = [position EXCEPT ![c] = @ + 1]
                 /\ settled' = settled \cup {<<c, position[c] + 1>>}
                 /\ UNCHANGED pending
  /\ UNCHANGED <<now, log, group, committed, correlations, deadLetters, crashes, faults>>

(* The bus has stored the cluster; the handler returns.                    *)
Publish(c) ==
  /\ pending[c] # {}
  /\ \E cluster \in pending[c] :
       correlations' = Append(correlations, [by |-> c, cluster |-> cluster])
  /\ pending' = [pending EXCEPT ![c] = {}]
  /\ position' = [position EXCEPT ![c] = @ + 1]
  /\ settled' = settled \cup {<<c, position[c] + 1>>}
  /\ UNCHANGED <<now, log, group, committed, buckets, arrivals, deadLetters,
                 crashes, faults, seen>>

(* publish() throws: the subscription dead-letters the message, whose      *)
(* event stays in its bucket.                                              *)
PublishFails(c) ==
  /\ pending[c] # {} /\ faults < MaxFaults
  /\ faults' = faults + 1
  /\ pending' = [pending EXCEPT ![c] = {}]
  /\ deadLetters' = deadLetters \cup {<<c, position[c] + 1>>}
  /\ position' = [position EXCEPT ![c] = @ + 1]
  /\ settled' = settled \cup {<<c, position[c] + 1>>}
  /\ UNCHANGED <<now, log, group, committed, buckets, arrivals, correlations,
                 crashes, seen>>

(* publish() throws and so does deadLetter(): the message is delivered to  *)
(* the handler again, and its event ingested a second time.                *)
DeadLetterFails(c) ==
  /\ pending[c] # {} /\ faults < MaxFaults
  /\ faults' = faults + 1
  /\ pending' = [pending EXCEPT ![c] = {}]
  /\ UNCHANGED <<now, log, group, position, committed, buckets, arrivals,
                 correlations, deadLetters, crashes, seen, settled>>

(* Mutated form of Commit: what was delivered is committed.                *)
CommitInFlight(c) ==
  /\ c \in assigned /\ committed[c] < position[c] + Cardinality(pending[c])
  /\ start[c] < position[c] + Cardinality(pending[c])
  /\ committed' = [committed EXCEPT ![c] = position[c] + Cardinality(pending[c])]
  /\ UNCHANGED <<now, log, group, position, buckets, arrivals, pending, correlations,
                 deadLetters, crashes, faults, seen, settled>>

(* autoCommit: kafkajs commits what is resolved, in the background.        *)
Commit(c) ==
  /\ c \in assigned /\ committed[c] < position[c] /\ start[c] < position[c]
  /\ committed' = [committed EXCEPT ![c] = position[c]]
  /\ UNCHANGED <<now, log, group, position, buckets, arrivals, pending, correlations,
                 deadLetters, crashes, faults, seen, settled>>

(* The process dies and its consumers leave the group; what was in memory  *)
(* is gone.                                                                *)
Crash ==
  /\ crashes < MaxCrashes
  /\ crashes' = crashes + 1
  /\ buckets' = [k \in Keys |-> {}]
  /\ pending' = [c \in Consumers |-> {}]
  /\ assigned' = {}
  /\ position' = [c \in Consumers |-> 0]
  /\ seen' = {}
  /\ UNCHANGED <<now, log, start, committed, arrivals, correlations, deadLetters,
                 faults, settled>>

Consume(c) == Ingest(c) \/ Publish(c)

Next ==
  \/ \E c \in Consumers : \E m \in Messages(c) : Arrive(c, m)
  \/ Tick
  \/ \E c \in Consumers : \/ Assign(c) \/ Revoke(c)
                          \/ Ingest(c) \/ Publish(c) \/ PublishFails(c)
                          \/ DeadLetterFails(c) \/ Commit(c)
  \/ Crash

Spec == Init /\ [][Next]_vars

(* A consumer that may read keeps polling and its publications return.     *)
FairSpec == Spec /\ \A c \in Consumers : WF_vars(Consume(c))
-----------------------------------------------------------------------------
(* The newest delivery of a cluster: the one whose ingest returned it.     *)
IsTrigger(d, cluster) == \A x \in cluster.members : x.n <= d.n

Clusters == {correlations[i].cluster : i \in 1 .. Len(correlations)}
              \cup UNION {pending[c] : c \in Consumers}

ClusterType(x) ==
  /\ x.correlationKey \in Keys
  /\ x.members \subseteq Deliveries
  /\ x.confidence \in Int
  /\ x.at \in Nat

(* A consumer that is publishing still has its message in hand.            *)
InHand ==
  \A c \in Consumers : pending[c] # {} => c \in assigned /\ position[c] < Len(log[c])

TypeOK ==
  /\ now \in Nat
  /\ log \in [Consumers -> Seq(Signals \cup Findings)]
  /\ \A c \in Consumers : \A i \in 1 .. Len(log[c]) : log[c][i] \in Messages(c)
  /\ assigned \subseteq Consumers
  /\ start \in [Consumers -> Nat]
  /\ position \in [Consumers -> Nat]
  /\ committed \in [Consumers -> Nat \cup {NoOffset}]
  /\ buckets \in [Keys -> SUBSET Deliveries]
  /\ arrivals \in Nat
  /\ DOMAIN pending = Consumers
  /\ \A c \in Consumers : \A x, y \in pending[c] : x = y
  /\ InHand
  /\ \A x \in Clusters : ClusterType(x)
  /\ crashes \in 0 .. MaxCrashes /\ faults \in 0 .. MaxFaults
  /\ deadLetters \subseteq Consumers \X Nat
  /\ settled \subseteq Consumers \X Nat
  /\ seen \subseteq Deliveries

(* Members of one cluster tell one story: they carry the same explicit     *)
(* correlation id, or none of them carries one and they touch the same     *)
(* service in the same environment.                                        *)
Explicit(e) == e.correlationId # "" /\ e.correlationId # e.resourceId

OneStoryPerCluster ==
  \A x \in Clusters : \A a, b \in x.members :
    \/ /\ Explicit(a.event) /\ Explicit(b.event)
       /\ a.event.correlationId = b.event.correlationId
    \/ /\ ~Explicit(a.event) /\ ~Explicit(b.event)
       /\ a.event.service = b.event.service
       /\ a.event.environment = b.event.environment

(* Redeliveries and crashes notwithstanding, copies of one event never     *)
(* make a story: every cluster holds two different events, of two          *)
(* different families, and reaches the publication threshold.              *)
RedeliveryTellsNoStory ==
  \A x \in Clusters :
    /\ \E a, b \in x.members :
         /\ a.event.eventId # b.event.eventId
         /\ Family(a.event.eventType) # Family(b.event.eventType)
    /\ MinConfidence <= x.confidence /\ x.confidence <= 100

(* Only the event whose ingest returned a cluster may have been observed   *)
(* before the window that ended at that ingest: it is pushed after the     *)
(* eviction.  Everything it is joined with is inside the window.           *)
OnlyTheTriggerIsStale ==
  \A x \in Clusters : \A d \in x.members :
    IsTrigger(d, x) \/ d.event.observedAt >= x.at - WindowMs

(* Nothing inside the window is forgotten while the process lives: every   *)
(* delivery ingested since the start and observed inside the window that   *)
(* ends now is held under its key, whatever was ingested, published or     *)
(* dead-lettered in between.                                               *)
NothingInWindowForgotten ==
  \A d \in seen : d.event.observedAt >= now - WindowMs => d \in buckets[KeyFor(d.event)]

(* Once the group has committed, its offset never passes a message, from   *)
(* where it began to read, whose handler has neither returned nor been     *)
(* dead-lettered: a crash or a rebalance repeats it.                       *)
CommittedIsSettled ==
  \A c \in Consumers : committed[c] # NoOffset =>
    \A o \in start[c] + 1 .. committed[c] : <<c, o>> \in settled

(* A consumer that the group leaves with its topic handles every message   *)
(* to its end or dead-letters it, except those that were there when the    *)
(* group last began to read with nothing committed.                        *)
EveryMessageSettles ==
  \A c \in Consumers : <>[](c \in assigned) =>
    \A o \in 1 .. Cardinality(Messages(c)) :
      (Len(log[c]) >= o) ~> (<<c, o>> \in settled \/ o <= start[c])
=============================================================================
