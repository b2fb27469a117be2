----------------------- MODULE EventProcessor_proofs -----------------------
(***************************************************************************)
(* Proofs about EventProcessor for every set of messages, every window,    *)
(* threshold and clock, and any number of crashes and faults.              *)
(*                                                                         *)
(* The inductive invariant IInv says what is true of the buckets (keyed,   *)
(* numbered, nothing in the window forgotten), of every cluster when it is *)
(* made (GoodCluster), and of the offsets (everything from where the group *)
(* began to read to the position of a consumer that reads is settled).  A cluster never changes, so a step only has to account for   *)
(* the one a call of ingest may add: NewClusterIsGood.                     *)
(* At the end: each consumer implements SubscriptionDelivery.              *)
(***************************************************************************)
EXTENDS EventProcessor, TLAPS, FiniteSetTheorems, SequenceTheorems
-----------------------------------------------------------------------------
(* A set of cardinality two or more has two different elements.            *)
LEMMA TwoElements ==
  ASSUME NEW S, Cardinality(S) >= 2
  PROVE  \E a, b \in S : a # b
<1>1. S # {}
  BY FS_EmptySet
<1>2. PICK a \in S : TRUE
  BY <1>1
<1>3. S # {a}
  BY FS_Singleton
<1>. QED
  BY <1>2, <1>3

(* The families of a bucket are at most four: their number is a natural.   *)
LEMMA FamiliesFinite ==
  ASSUME NEW bucket
  PROVE  Cardinality(FamiliesOf(bucket)) \in Nat
<1>1. FamiliesOf(bucket) \subseteq Families
  BY DEF FamiliesOf, Family, Families
<1>2. IsFiniteSet(Families)
  <2>1. IsFiniteSet({} \cup {"deployment"})
    BY FS_EmptySet, FS_AddElement
  <2>2. IsFiniteSet(({} \cup {"deployment"}) \cup {"performance"})
    BY <2>1, FS_AddElement
  <2>3. IsFiniteSet((({} \cup {"deployment"}) \cup {"performance"}) \cup {"security"})
    BY <2>2, FS_AddElement
  <2>4. IsFiniteSet(((({} \cup {"deployment"}) \cup {"performance"}) \cup {"security"})
                     \cup {"infrastructure"})
    BY <2>3, FS_AddElement
  <2>5. Families = ((({} \cup {"deployment"}) \cup {"performance"}) \cup {"security"})
                     \cup {"infrastructure"}
    BY DEF Families
  <2>. QED
    BY <2>4, <2>5
<1>. QED
  BY <1>1, <1>2, FS_Subset, FS_CardinalityType

(* confidenceFor() is at most 1 whatever the bucket.                       *)
LEMMA ConfidenceType ==
  ASSUME NEW bucket
  PROVE  /\ ConfidenceFor(bucket) \in Int
         /\ ConfidenceFor(bucket) <= 100
<1>1. FamilyScore(FamiliesOf(bucket)) \in Int
  BY FamiliesFinite DEF FamilyScore
<1>2. SeverityScore(bucket) \in {5, 15, 25}
  BY DEF SeverityScore
<1>3. ProximityScore(bucket) \in {0, 10, 20}
  BY DEF ProximityScore
<1>. HIDE DEF FamilyScore, SeverityScore, ProximityScore
<1>. QED
  BY <1>1, <1>2, <1>3 DEF ConfidenceFor

(* The threshold of 0.5 never rejects what the family rule accepts: two    *)
(* families are worth 0.2 + 0.3 and any severity 0.05 more, so only a      *)
(* minConfidence above 0.55 (README: "default publish threshold is 0.5")   *)
(* filters anything.                                                       *)
THEOREM DefaultThresholdFiltersNothing ==
  ASSUME NEW bucket, MinConfidence <= 55,
         Cardinality(bucket) >= 2, Cardinality(FamiliesOf(bucket)) >= 2
  PROVE  Credible(bucket)
<1>1. FamilyScore(FamiliesOf(bucket)) \in Int /\ FamilyScore(FamiliesOf(bucket)) >= 30
  BY FamiliesFinite DEF FamilyScore
<1>2. SeverityScore(bucket) \in {5, 15, 25}
  BY DEF SeverityScore
<1>3. ProximityScore(bucket) \in {0, 10, 20}
  BY DEF ProximityScore
<1>4. ConfidenceFor(bucket) \in Int /\ ConfidenceFor(bucket) >= 55
  <2>. HIDE DEF FamilyScore, SeverityScore, ProximityScore
  <2>. QED
    BY <1>1, <1>2, <1>3 DEF ConfidenceFor
<1>. QED
  BY <1>4, EngineAssumption DEF Credible
-----------------------------------------------------------------------------
(* Every cluster is one that ingest() can build.                           *)
AnyCluster ==
  {ClusterOf(k, b, t) : k \in Keys, b \in SUBSET Deliveries, t \in Nat}

Typing ==
  /\ now \in Nat
  /\ log \in [Consumers -> Seq(Signals \cup Findings)]
  /\ \A c \in Consumers : \A i \in 1 .. Len(log[c]) : log[c][i] \in Messages(c)
  /\ assigned \subseteq Consumers
  /\ start \in [Consumers -> Nat]
  /\ position \in [Consumers -> Nat]
  /\ committed \in [Consumers -> Nat \cup {NoOffset}]
  /\ buckets \in [Keys -> SUBSET Deliveries]
  /\ arrivals \in Nat
  /\ pending \in [Consumers -> SUBSET AnyCluster]
  /\ \A c \in Consumers : \A x, y \in pending[c] : x = y
  /\ correlations \in Seq([by : Consumers, cluster : AnyCluster])
  /\ crashes \in 0 .. MaxCrashes /\ faults \in 0 .. MaxFaults
  /\ deadLetters \subseteq Consumers \X Nat
  /\ settled \subseteq Consumers \X Nat
  /\ seen \subseteq Deliveries

LEMMA ClusterOfType ==
  ASSUME NEW k \in Keys, NEW b \in SUBSET Deliveries, NEW t \in Nat
  PROVE  ClusterType(ClusterOf(k, b, t))
BY ConfidenceType DEF ClusterOf, ClusterType

LEMMA TypingImpliesTypeOK == Typing /\ InHand => TypeOK
<1>. SUFFICES ASSUME Typing, InHand PROVE TypeOK
  OBVIOUS
<1>1. ASSUME NEW x \in Clusters PROVE x \in AnyCluster
  <2>. HIDE DEF AnyCluster
  <2>1. ASSUME NEW i \in 1 .. Len(correlations) PROVE correlations[i].cluster \in AnyCluster
    <3>1. correlations[i] \in [by : Consumers, cluster : AnyCluster]
      BY ElementOfSeq DEF Typing
    <3>. QED
      BY <3>1
  <2>2. ASSUME NEW c \in Consumers PROVE pending[c] \subseteq AnyCluster
    BY DEF Typing
  <2>. QED
    BY <2>1, <2>2 DEF Clusters
<1>2. ASSUME NEW x \in Clusters PROVE ClusterType(x)
  <2>1. PICK k \in Keys, b \in SUBSET Deliveries, t \in Nat : x = ClusterOf(k, b, t)
    BY <1>1 DEF AnyCluster
  <2>. QED
    BY <2>1, ClusterOfType
<1>3. DOMAIN pending = Consumers
  BY DEF Typing
<1>. QED
  BY <1>2, <1>3 DEF Typing, TypeOK

(* What the handler of c does to a message at the head of its log.         *)
LEMMA IngestedEvent ==
  ASSUME Typing, NEW c \in Consumers, position[c] < Len(log[c])
  PROVE  /\ Candidate(c, log[c][position[c] + 1]) \in Candidates
         /\ KeyFor(Candidate(c, log[c][position[c] + 1])) \in Keys
         /\ [n |-> arrivals + 1, event |-> Candidate(c, log[c][position[c] + 1])]
               \in Deliveries
<1>1. log[c] \in Seq(Signals \cup Findings) /\ position[c] \in Nat /\ arrivals \in Nat
  BY DEF Typing
<1>2. position[c] + 1 \in 1 .. Len(log[c])
  BY <1>1
<1>3. log[c][position[c] + 1] \in Messages(c)
  BY <1>2 DEF Typing
<1>4. Candidate(c, log[c][position[c] + 1]) \in Candidates
  BY <1>3 DEF Candidate, Candidates, Messages, Consumers
<1>. QED
  BY <1>1, <1>4 DEF Keys, Deliveries

LEMMA BucketsAfterType ==
  ASSUME buckets \in [Keys -> SUBSET Deliveries], NEW key \in Keys,
         NEW d \in Deliveries
  PROVE  BucketsAfter(key, d) \in [Keys -> SUBSET Deliveries]
BY DEF BucketsAfter, Evict

LEMMA TypingStep == Typing /\ [Next]_vars => Typing'
<1>. SUFFICES ASSUME Typing, [Next]_vars PROVE Typing'
  OBVIOUS
<1>. USE ProcessorAssumption DEF group
<1>1. ASSUME NEW c \in Consumers, NEW m \in Messages(c), Arrive(c, m) PROVE Typing'
  <2>1. m \in Signals \cup Findings
    BY DEF Messages
  <2>2. log[c] \in Seq(Signals \cup Findings)
    BY DEF Typing
  <2>3. Append(log[c], m) \in Seq(Signals \cup Findings)
    BY <2>1, <2>2, AppendProperties
  <2>4. \A i \in 1 .. Len(Append(log[c], m)) : Append(log[c], m)[i] \in Messages(c)
    <3>. SUFFICES ASSUME NEW i \in 1 .. Len(Append(log[c], m))
                  PROVE  Append(log[c], m)[i] \in Messages(c)
      OBVIOUS
    <3>1. Len(log[c]) \in Nat /\ Len(Append(log[c], m)) = Len(log[c]) + 1
      BY <2>1, <2>2, AppendProperties, LenProperties
    <3>2. CASE i = Len(log[c]) + 1
      BY <3>2, <2>1, <2>2, AppendProperties
    <3>3. CASE i \in 1 .. Len(log[c])
      BY <3>3, <2>1, <2>2, AppendProperties DEF Typing
    <3>. QED
      BY <3>1, <3>2, <3>3
  <2>. QED
    BY <1>1, <2>3, <2>4 DEF Arrive, Typing
<1>2. ASSUME Tick PROVE Typing'
  BY <1>2 DEF Tick, Typing
<1>3. ASSUME NEW c \in Consumers, Ingest(c) PROVE Typing'
  <2>. DEFINE event == Candidate(c, log[c][position[c] + 1])
              key == KeyFor(event)
              delivery == [n |-> arrivals + 1, event |-> event]
  <2>1. key \in Keys /\ delivery \in Deliveries
    BY <1>3, IngestedEvent DEF Ingest
  <2>2. buckets' = BucketsAfter(key, delivery)
    BY <1>3 DEF Ingest
  <2>3. buckets' \in [Keys -> SUBSET Deliveries]
    BY <2>1, <2>2, BucketsAfterType DEF Typing
  <2>. HIDE DEF event, key, delivery
  <2>4. ClusterOf(key, buckets'[key], now) \in AnyCluster
    <3>1. buckets'[key] \in SUBSET Deliveries /\ now \in Nat
      BY <2>1, <2>3 DEF Typing
    <3>. QED
      BY <2>1, <3>1 DEF AnyCluster
  <2>5. /\ pending' \in [Consumers -> SUBSET AnyCluster]
        /\ \A b \in Consumers : \A x, y \in pending'[b] : x = y
        /\ position' \in [Consumers -> Nat]
        /\ settled' \subseteq Consumers \X Nat
    <3>1. CASE Credible(buckets'[key])
      <4>1. /\ pending' = [pending EXCEPT ![c] = {ClusterOf(key, buckets'[key], now)}]
            /\ UNCHANGED <<position, settled>>
        BY <1>3, <3>1 DEF Ingest, event, key, delivery
      <4>. QED
        BY <4>1, <2>4 DEF Typing
    <3>2. CASE ~Credible(buckets'[key])
      <4>1. /\ position' = [position EXCEPT ![c] = @ + 1]
            /\ settled' = settled \cup {<<c, position[c] + 1>>}
            /\ UNCHANGED pending
        BY <1>3, <3>2 DEF Ingest, event, key, delivery
      <4>. QED
        BY <4>1 DEF Typing
    <3>. QED
      BY <3>1, <3>2
  <2>6. /\ arrivals' = arrivals + 1
        /\ seen' = seen \cup {delivery}
        /\ UNCHANGED <<now, log, group, committed, correlations, deadLetters, crashes,
                       faults>>
    BY <1>3 DEF Ingest, event, key, delivery
  <2>7. arrivals' \in Nat /\ seen' \subseteq Deliveries
    BY <2>1, <2>6 DEF Typing
  <2>8. /\ now' \in Nat
        /\ log' \in [Consumers -> Seq(Signals \cup Findings)]
        /\ \A b \in Consumers : \A i \in 1 .. Len(log'[b]) : log'[b][i] \in Messages(b)
        /\ assigned' \subseteq Consumers /\ start' \in [Consumers -> Nat]
        /\ committed' \in [Consumers -> Nat \cup {NoOffset}]
        /\ correlations' \in Seq([by : Consumers, cluster : AnyCluster])
        /\ crashes' \in 0 .. MaxCrashes /\ faults' \in 0 .. MaxFaults
        /\ deadLetters' \subseteq Consumers \X Nat
    BY <2>6 DEF Typing
  <2>. QED
    BY <2>3, <2>5, <2>7, <2>8 DEF Typing
<1>4. ASSUME NEW c \in Consumers, Publish(c) PROVE Typing'
  <2>1. PICK x \in pending[c] : correlations' = Append(correlations, [by |-> c, cluster |-> x])
    BY <1>4 DEF Publish
  <2>2. x \in AnyCluster
    BY DEF Typing
  <2>3. [by |-> c, cluster |-> x] \in [by : Consumers, cluster : AnyCluster]
    BY <2>2
  <2>4. correlations' \in Seq([by : Consumers, cluster : AnyCluster])
    BY <2>1, <2>3, AppendProperties DEF Typing
  <2>. QED
    BY <1>4, <2>4 DEF Publish, Typing
<1>5. ASSUME NEW c \in Consumers, PublishFails(c) PROVE Typing'
  BY <1>5 DEF PublishFails, Typing
<1>6. ASSUME NEW c \in Consumers, DeadLetterFails(c) PROVE Typing'
  BY <1>6 DEF DeadLetterFails, Typing
<1>7. ASSUME NEW c \in Consumers, Commit(c) PROVE Typing'
  BY <1>7 DEF Commit, Typing
<1>8. ASSUME Crash PROVE Typing'
  BY <1>8 DEF Crash, Typing
<1>9. ASSUME NEW c \in Consumers, Assign(c) PROVE Typing'
  <2>1. Len(log[c]) \in Nat
    BY LenProperties DEF Typing
  <2>2. /\ assigned' \subseteq Consumers
        /\ start' \in [Consumers -> Nat] /\ position' \in [Consumers -> Nat]
    BY <1>9, <2>1 DEF Assign, Typing
  <2>. QED
    BY <1>9, <2>2 DEF Assign, Typing
<1>10. ASSUME NEW c \in Consumers, Revoke(c) PROVE Typing'
  <2>1. crashes' \in 0 .. MaxCrashes
    BY <1>10 DEF Revoke, Typing
  <2>2. /\ assigned' \subseteq Consumers /\ position' \in [Consumers -> Nat]
    BY <1>10 DEF Revoke, Typing
  <2>. QED
    BY <1>10, <2>1, <2>2 DEF Revoke, Typing
<1>11. CASE UNCHANGED vars
  BY <1>11 DEF vars, Typing
<1>. QED
  BY <1>1, <1>2, <1>3, <1>4, <1>5, <1>6, <1>7, <1>8, <1>9, <1>10, <1>11 DEF Next

LEMMA TypingInit == Init => Typing
BY ProcessorAssumption DEF Init, Typing, NoOffset

(* The log only grows, and a handler moves past its message only when it   *)
(* ends.                                                                   *)
LEMMA InHandStep == Typing /\ InHand /\ [Next]_vars => InHand'
<1>. SUFFICES ASSUME Typing, InHand, [Next]_vars, NEW d \in Consumers, pending'[d] # {}
              PROVE  d \in assigned' /\ position'[d] < Len(log'[d])
  BY DEF InHand
<1>. USE DEF group
<1>1. /\ log[d] \in Seq(Signals \cup Findings) /\ Len(log[d]) \in Nat
      /\ position \in [Consumers -> Nat] /\ position[d] \in Nat
      /\ DOMAIN pending = Consumers /\ DOMAIN log = Consumers
  BY LenProperties DEF Typing
<1>2. ASSUME NEW c \in Consumers, NEW m \in Messages(c), Arrive(c, m)
      PROVE  d \in assigned' /\ position'[d] < Len(log'[d])
  <2>1. position'[d] = position[d] /\ position[d] < Len(log[d]) /\ d \in assigned'
    BY <1>2 DEF Arrive, InHand
  <2>2. log'[d] = IF d = c THEN Append(log[d], m) ELSE log[d]
    BY <1>1, <1>2 DEF Arrive
  <2>3. m \in Signals \cup Findings
    BY DEF Messages
  <2>4. Len(Append(log[d], m)) = Len(log[d]) + 1
    BY <1>1, <2>3, AppendProperties
  <2>. QED
    BY <1>1, <2>1, <2>2, <2>4
<1>3. ASSUME Tick PROVE d \in assigned' /\ position'[d] < Len(log'[d])
  BY <1>3 DEF Tick, InHand
<1>4. ASSUME NEW c \in Consumers, Ingest(c) PROVE d \in assigned' /\ position'[d] < Len(log'[d])
  <2>1. UNCHANGED <<log, assigned>> /\ pending[c] = {} /\ position[c] < Len(log[c])
        /\ c \in assigned
    BY <1>4 DEF Ingest
  <2>2. CASE UNCHANGED position
    BY <2>1, <2>2, <1>1, <1>4 DEF Ingest, InHand
  <2>3. CASE UNCHANGED pending /\ position' = [position EXCEPT ![c] = @ + 1]
    BY <2>1, <2>3, <1>1 DEF InHand
  <2>. QED
    BY <1>4, <2>2, <2>3 DEF Ingest
<1>5. ASSUME NEW c \in Consumers, Publish(c) PROVE d \in assigned' /\ position'[d] < Len(log'[d])
  BY <1>1, <1>5 DEF Publish, InHand
<1>6. ASSUME NEW c \in Consumers, PublishFails(c) PROVE d \in assigned' /\ position'[d] < Len(log'[d])
  BY <1>1, <1>6 DEF PublishFails, InHand
<1>7. ASSUME NEW c \in Consumers, DeadLetterFails(c) PROVE d \in assigned' /\ position'[d] < Len(log'[d])
  BY <1>1, <1>7 DEF DeadLetterFails, InHand
<1>8. ASSUME NEW c \in Consumers, Commit(c) PROVE d \in assigned' /\ position'[d] < Len(log'[d])
  BY <1>8 DEF Commit, InHand
<1>9. CASE Crash
  BY <1>9 DEF Crash
<1>10. ASSUME NEW c \in Consumers, Assign(c)
       PROVE  d \in assigned' /\ position'[d] < Len(log'[d])
  BY <1>1, <1>10 DEF Assign, InHand
<1>11. ASSUME NEW c \in Consumers, Revoke(c)
       PROVE  d \in assigned' /\ position'[d] < Len(log'[d])
  BY <1>1, <1>11 DEF Revoke, InHand
<1>12. CASE UNCHANGED vars
  BY <1>12 DEF vars, InHand
<1>. QED
  BY <1>2, <1>3, <1>4, <1>5, <1>6, <1>7, <1>8, <1>9, <1>10, <1>11, <1>12 DEF Next

(* Type correctness, for every instance.                                   *)
THEOREM TypeCorrect == Spec => []TypeOK
<1>1. Init => InHand
  BY DEF Init, InHand
<1>2. Typing /\ InHand => TypeOK
  BY TypingImpliesTypeOK
<1>. QED
  BY <1>1, <1>2, TypingInit, TypingStep, InHandStep, PTL DEF Spec
-----------------------------------------------------------------------------
(* Offsets.  CommittedIsSettled alone is not inductive: a commit jumps to  *)
(* the consumer's position, so everything before the position must be      *)
(* settled too, from where the group began to read.                        *)
OffsetInv ==
  \A c \in Consumers :
    /\ c \in assigned =>
         /\ start[c] <= position[c]
         /\ \A o \in start[c] + 1 .. position[c] : <<c, o>> \in settled
    /\ committed[c] # NoOffset =>
         /\ start[c] < committed[c]
         /\ \A o \in start[c] + 1 .. committed[c] : <<c, o>> \in settled

LEMMA OffsetInit == Init => OffsetInv
BY DEF Init, OffsetInv

LEMMA OffsetStep == Typing /\ InHand /\ OffsetInv /\ [Next]_vars => OffsetInv'
<1>. SUFFICES ASSUME Typing, InHand, OffsetInv, [Next]_vars PROVE OffsetInv'
  OBVIOUS
<1>. USE DEF group
<1>1. /\ position \in [Consumers -> Nat] /\ start \in [Consumers -> Nat]
      /\ committed \in [Consumers -> Nat \cup {NoOffset}]
      /\ \A c \in Consumers : Len(log[c]) \in Nat
  BY LenProperties DEF Typing
(* Every handler that ends settles the offset it advances over.            *)
<1>2. ASSUME NEW c \in Consumers, c \in assigned,
             position' = [position EXCEPT ![c] = @ + 1],
             settled' = settled \cup {<<c, position[c] + 1>>},
             UNCHANGED <<assigned, start, committed>>
      PROVE  OffsetInv'
  <2>. SUFFICES ASSUME NEW b \in Consumers
                PROVE  /\ b \in assigned =>
                            /\ start[b] <= position'[b]
                            /\ \A o \in start[b] + 1 .. position'[b] : <<b, o>> \in settled'
                       /\ committed[b] # NoOffset =>
                            /\ start[b] < committed[b]
                            /\ \A o \in start[b] + 1 .. committed[b] : <<b, o>> \in settled'
    BY <1>2 DEF OffsetInv
  <2>1. CASE b = c
    BY <1>1, <1>2, <2>1 DEF OffsetInv
  <2>2. CASE b # c
    BY <1>1, <1>2, <2>2 DEF OffsetInv
  <2>. QED
    BY <2>1, <2>2
<1>3. ASSUME UNCHANGED <<group, position, committed, settled>> PROVE OffsetInv'
  BY <1>3 DEF OffsetInv
<1>4. ASSUME NEW c \in Consumers, Ingest(c) PROVE OffsetInv'
  BY <1>2, <1>3, <1>4 DEF Ingest
<1>5. ASSUME NEW c \in Consumers, Publish(c) \/ PublishFails(c) PROVE OffsetInv'
  BY <1>2, <1>5 DEF Publish, PublishFails, InHand
<1>6. ASSUME NEW c \in Consumers, Commit(c) PROVE OffsetInv'
  BY <1>1, <1>6 DEF Commit, OffsetInv
(* Who is given a topic starts at its end, or where everything before was  *)
(* committed.                                                              *)
<1>7. ASSUME NEW c \in Consumers, Assign(c) PROVE OffsetInv'
  <2>1. CASE committed[c] = NoOffset
    BY <1>1, <1>7, <2>1 DEF Assign, OffsetInv
  <2>2. CASE committed[c] # NoOffset
    BY <1>1, <1>7, <2>2 DEF Assign, OffsetInv
  <2>. QED
    BY <2>1, <2>2
<1>8. ASSUME NEW c \in Consumers, Revoke(c) PROVE OffsetInv'
  BY <1>1, <1>8 DEF Revoke, OffsetInv
<1>9. ASSUME Crash PROVE OffsetInv'
  BY <1>1, <1>9 DEF Crash, OffsetInv
<1>. QED
  BY <1>3, <1>4, <1>5, <1>6, <1>7, <1>8, <1>9
  DEF Next, vars, Arrive, Tick, DeadLetterFails

(* No crash and no rebalance makes the processor skip a message once the   *)
(* group has committed: between where it began to read and its offset      *)
(* everything is settled.  Before that it may skip what it was given.      *)
THEOREM CommitsOnlySettled == Spec => []CommittedIsSettled
<1>1. Init => InHand
  BY DEF Init, InHand
<1>2. OffsetInv => CommittedIsSettled
  BY DEF OffsetInv, CommittedIsSettled
<1>. QED
  BY <1>1, <1>2, TypingInit, TypingStep, InHandStep, OffsetInit, OffsetStep, PTL DEF Spec
-----------------------------------------------------------------------------
(* The buckets: every delivery lies under its own key and is numbered by   *)
(* the call of ingest that pushed it, and whatever was ingested since the  *)
(* start and is inside the window is still there.                          *)
BucketInv ==
  /\ \A k \in Keys : \A d \in buckets[k] : KeyFor(d.event) = k /\ d.n <= arrivals
  /\ NothingInWindowForgotten

LEMMA BucketInit == Init => BucketInv
BY DEF Init, BucketInv, NothingInWindowForgotten

(* What one call of ingest does to the buckets.                            *)
LEMMA IngestStep ==
  ASSUME Typing, BucketInv, NEW c \in Consumers, Ingest(c)
  PROVE  \E key \in Keys, d \in Deliveries :
           /\ key = KeyFor(d.event) /\ d.n = arrivals + 1
           /\ buckets' = BucketsAfter(key, d)
           /\ arrivals' = arrivals + 1 /\ now' = now
           /\ seen' = seen \cup {d}
           /\ \/ /\ Credible(buckets'[key])
                 /\ pending' = [pending EXCEPT ![c] = {ClusterOf(key, buckets'[key], now)}]
              \/ pending' = pending
           /\ correlations' = correlations
<1>. DEFINE event == Candidate(c, log[c][position[c] + 1])
            key == KeyFor(event)
            delivery == [n |-> arrivals + 1, event |-> event]
<1>1. key \in Keys /\ delivery \in Deliveries
  BY IngestedEvent DEF Ingest
<1>2. key = KeyFor(delivery.event) /\ delivery.n = arrivals + 1
  OBVIOUS
<1>3. /\ buckets' = BucketsAfter(key, delivery)
      /\ arrivals' = arrivals + 1 /\ now' = now
      /\ seen' = seen \cup {delivery}
      /\ correlations' = correlations
  BY DEF Ingest
<1>4. \/ /\ Credible(buckets'[key])
         /\ pending' = [pending EXCEPT ![c] = {ClusterOf(key, buckets'[key], now)}]
      \/ pending' = pending
  BY DEF Ingest
<1>. HIDE DEF event, key, delivery
<1>. QED
  BY <1>1, <1>2, <1>3, <1>4

LEMMA BucketStep == Typing /\ BucketInv /\ [Next]_vars => BucketInv'
<1>. SUFFICES ASSUME Typing, BucketInv, [Next]_vars PROVE BucketInv'
  OBVIOUS
<1>. USE EngineAssumption, ProcessorAssumption
<1>0. /\ now \in Nat /\ arrivals \in Nat /\ seen \subseteq Deliveries
      /\ buckets \in [Keys -> SUBSET Deliveries]
      /\ \A d \in Deliveries : d.n \in Nat /\ d.event.observedAt \in Nat
                             /\ KeyFor(d.event) \in Keys
  BY DEF Typing, Deliveries, Keys
<1>1. ASSUME NEW c \in Consumers, Ingest(c) PROVE BucketInv'
  <2>1. PICK key \in Keys, d \in Deliveries :
           /\ key = KeyFor(d.event) /\ d.n = arrivals + 1
           /\ buckets' = BucketsAfter(key, d)
           /\ arrivals' = arrivals + 1 /\ now' = now
           /\ seen' = seen \cup {d}
    BY <1>1, IngestStep
  <2>2. \A k \in Keys : buckets'[k] = Evict(buckets[k], now)
                                        \cup (IF k = key THEN {d} ELSE {})
    BY <2>1 DEF BucketsAfter
  <2>3. \A k \in Keys : \A x \in buckets'[k] : KeyFor(x.event) = k /\ x.n <= arrivals'
    BY <1>0, <2>1, <2>2 DEF BucketInv, Evict
  <2>4. NothingInWindowForgotten'
    <3>. SUFFICES ASSUME NEW x \in seen', x.event.observedAt >= now' - WindowMs
                  PROVE  x \in buckets'[KeyFor(x.event)]
      BY DEF NothingInWindowForgotten
    <3>1. CASE x = d
      BY <3>1, <2>1, <2>2
    <3>2. CASE x \in seen
      BY <3>2, <1>0, <2>1, <2>2 DEF BucketInv, NothingInWindowForgotten, Evict
    <3>. QED
      BY <3>1, <3>2, <2>1
  <2>. QED
    BY <2>3, <2>4 DEF BucketInv
<1>2. ASSUME Tick PROVE BucketInv'
  <2>1. now' \in Nat /\ now' > now /\ UNCHANGED <<buckets, arrivals, seen>>
    BY <1>2 DEF Tick
  <2>2. \A x \in seen : x.event.observedAt >= now' - WindowMs
                         => x.event.observedAt >= now - WindowMs
    BY <1>0, <2>1
  <2>. QED
    BY <2>1, <2>2 DEF BucketInv, NothingInWindowForgotten
<1>3. ASSUME Crash PROVE BucketInv'
  BY <1>3 DEF Crash, BucketInv, NothingInWindowForgotten
<1>4. ASSUME UNCHANGED <<now, buckets, arrivals, seen>> PROVE BucketInv'
  BY <1>4 DEF BucketInv, NothingInWindowForgotten
<1>. QED
  BY <1>1, <1>2, <1>3, <1>4
  DEF Next, vars, Arrive, Assign, Revoke, Publish, PublishFails, DeadLetterFails, Commit

(* The sliding window forgets nothing that is still inside it.             *)
THEOREM WindowIsComplete == Spec => []NothingInWindowForgotten
<1>1. BucketInv => NothingInWindowForgotten
  BY DEF BucketInv
<1>. QED
  BY <1>1, TypingInit, TypingStep, BucketInit, BucketStep, PTL DEF Spec
-----------------------------------------------------------------------------
(* What every cluster guarantees from the call of ingest that returns it.  *)
GoodCluster(x) ==
  /\ x.members \subseteq Deliveries
  /\ \A d \in x.members : KeyFor(d.event) = x.correlationKey
  /\ \E a, b \in x.members : Family(a.event.eventType) # Family(b.event.eventType)
  /\ MinConfidence <= x.confidence /\ x.confidence <= 100
  /\ \A d \in x.members :
       IsTrigger(d, x) \/ d.event.observedAt >= x.at - WindowMs

ClusterInv == \A x \in Clusters : GoodCluster(x)

(* The cluster that ingest returns: the buckets it is built from are those *)
(* left by the eviction plus the event that was pushed.                    *)
LEMMA NewClusterIsGood ==
  ASSUME Typing, BucketInv,
         NEW key \in Keys, NEW d \in Deliveries,
         key = KeyFor(d.event), d.n = arrivals + 1,
         NEW b, b = BucketsAfter(key, d)[key],
         Credible(b)
  PROVE  GoodCluster(ClusterOf(key, b, now))
<1>. DEFINE x == ClusterOf(key, b, now)
<1>1. b = Evict(buckets[key], now) \cup {d}
  BY DEF BucketsAfter
<1>2. /\ x.members = b /\ x.correlationKey = key
      /\ x.confidence = ConfidenceFor(b) /\ x.at = now
  BY DEF ClusterOf
<1>3. b \subseteq Deliveries
  BY <1>1 DEF Typing, Evict
<1>4. \A y \in b : KeyFor(y.event) = key
  BY <1>1 DEF BucketInv, Evict
<1>5. \E y, z \in b : Family(y.event.eventType) # Family(z.event.eventType)
  <2>1. PICK f, g \in FamiliesOf(b) : f # g
    BY TwoElements DEF Credible
  <2>. QED
    BY <2>1 DEF FamiliesOf
<1>6. MinConfidence <= x.confidence /\ x.confidence <= 100
  BY <1>2, ConfidenceType DEF Credible
<1>7. \A y \in b : (\A z \in b : z.n <= y.n) \/ y.event.observedAt >= now - WindowMs
  <2>1. \A z \in b : z.n \in Nat
    BY <1>3 DEF Deliveries
  <2>2. arrivals \in Nat
    BY DEF Typing
  <2>3. \A z \in b : z.n <= d.n
    <3>1. d.n = arrivals + 1
      BY <1>1
    <3>2. \A z \in b : z = d \/ z.n <= arrivals
      BY <1>1 DEF BucketInv, Evict
    <3>. QED
      BY <2>1, <2>2, <3>1, <3>2
  <2>. QED
    BY <1>1, <2>3 DEF Evict
<1>. HIDE DEF x
<1>. QED
  BY <1>2, <1>3, <1>4, <1>5, <1>6, <1>7 DEF GoodCluster, IsTrigger, x

LEMMA ClusterInit == Init => ClusterInv
BY DEF Init, ClusterInv, Clusters

(* A step publishes or drops clusters that exist; only ingest makes one.   *)
LEMMA ClusterStep == Typing /\ BucketInv /\ ClusterInv /\ [Next]_vars => ClusterInv'
<1>. SUFFICES ASSUME Typing, BucketInv, ClusterInv, [Next]_vars,
                     NEW x \in Clusters'
              PROVE  GoodCluster(x)
  BY DEF ClusterInv, GoodCluster, IsTrigger
<1>. HIDE DEF GoodCluster
<1>0. /\ pending \in [Consumers -> SUBSET AnyCluster]
      /\ correlations \in Seq([by : Consumers, cluster : AnyCluster])
  BY DEF Typing
<1>1. ASSUME NEW c \in Consumers, Ingest(c) PROVE GoodCluster(x)
  <2>1. PICK key \in Keys, d \in Deliveries :
           /\ key = KeyFor(d.event) /\ d.n = arrivals + 1
           /\ buckets' = BucketsAfter(key, d)
           /\ \/ /\ Credible(buckets'[key])
                 /\ pending' = [pending EXCEPT ![c] = {ClusterOf(key, buckets'[key], now)}]
              \/ pending' = pending
           /\ correlations' = correlations
    BY <1>1, IngestStep
  <2>2. CASE x \in Clusters
    BY <2>2 DEF ClusterInv
  <2>3. CASE x \notin Clusters
    <3>1. /\ Credible(buckets'[key])
          /\ x = ClusterOf(key, buckets'[key], now)
      BY <2>1, <2>3, <1>0 DEF Clusters
    <3>2. buckets'[key] = BucketsAfter(key, d)[key]
      BY <2>1
    <3>. QED
      BY <3>1, <3>2, <2>1, NewClusterIsGood
  <2>. QED
    BY <2>2, <2>3
<1>2. ASSUME NEW c \in Consumers, Publish(c) PROVE GoodCluster(x)
  <2>1. PICK y \in pending[c] :
           correlations' = Append(correlations, [by |-> c, cluster |-> y])
    BY <1>2 DEF Publish
  <2>2. pending' = [pending EXCEPT ![c] = {}]
    BY <1>2 DEF Publish
  <2>3. [by |-> c, cluster |-> y] \in [by : Consumers, cluster : AnyCluster]
    BY <1>0
  <2>4. \A i \in 1 .. Len(correlations') :
           \/ i \in 1 .. Len(correlations) /\ correlations'[i] = correlations[i]
           \/ correlations'[i] = [by |-> c, cluster |-> y]
    BY <1>0, <2>1, <2>3, AppendProperties, LenProperties
  <2>5. x \in Clusters
    BY <1>0, <2>2, <2>4 DEF Clusters
  <2>. QED
    BY <2>5 DEF ClusterInv
<1>3. ASSUME NEW c \in Consumers, PublishFails(c) \/ DeadLetterFails(c)
      PROVE  GoodCluster(x)
  <2>1. pending' = [pending EXCEPT ![c] = {}] /\ correlations' = correlations
    BY <1>3 DEF PublishFails, DeadLetterFails
  <2>2. x \in Clusters
    BY <1>0, <2>1 DEF Clusters
  <2>. QED
    BY <2>2 DEF ClusterInv
<1>4. ASSUME Crash PROVE GoodCluster(x)
  <2>1. pending' = [c \in Consumers |-> {}] /\ correlations' = correlations
    BY <1>4 DEF Crash
  <2>2. x \in Clusters
    BY <2>1 DEF Clusters
  <2>. QED
    BY <2>2 DEF ClusterInv
<1>5. ASSUME UNCHANGED <<pending, correlations>> PROVE GoodCluster(x)
  BY <1>5 DEF ClusterInv, Clusters
<1>. QED
  BY <1>1, <1>2, <1>3, <1>4, <1>5 DEF Next, vars, Arrive, Tick, Assign, Revoke, Commit

LEMMA ClusterInvariant == Spec => [](Typing /\ ClusterInv)
BY TypingInit, TypingStep, BucketInit, BucketStep, ClusterInit, ClusterStep, PTL DEF Spec

(* Whatever is redelivered, dead-lettered or lost in a crash, a cluster    *)
(* holds events of one story only.                                         *)
THEOREM OneStory == Spec => []OneStoryPerCluster
<1>1. ASSUME ClusterInv PROVE OneStoryPerCluster
  <2>. SUFFICES ASSUME NEW x \in Clusters, NEW a \in x.members, NEW b \in x.members
                PROVE  \/ /\ Explicit(a.event) /\ Explicit(b.event)
                          /\ a.event.correlationId = b.event.correlationId
                       \/ /\ ~Explicit(a.event) /\ ~Explicit(b.event)
                          /\ a.event.service = b.event.service
                          /\ a.event.environment = b.event.environment
    BY DEF OneStoryPerCluster
  <2>1. KeyFor(a.event) = KeyFor(b.event)
    BY <1>1 DEF ClusterInv, GoodCluster
  <2>2. \A e : KeyFor(e) = IF Explicit(e) THEN <<"corr", e.correlationId>>
                           ELSE <<"svc", e.environment, e.service>>
    BY DEF KeyFor, Explicit
  <2>3. \A u, v, w : <<"corr", u>> # <<"svc", v, w>>
    OBVIOUS
  <2>4. (Explicit(a.event) <=> Explicit(b.event))
    BY <2>1, <2>2, <2>3
  <2>5. CASE Explicit(a.event) /\ Explicit(b.event)
    BY <2>1, <2>2, <2>5
  <2>6. CASE ~Explicit(a.event) /\ ~Explicit(b.event)
    BY <2>1, <2>2, <2>6
  <2>. QED
    BY <2>4, <2>5, <2>6
<1>. QED
  BY <1>1, ClusterInvariant, PTL

(* Copies of one event never make a cluster.                               *)
THEOREM RedeliveryHarmless == Spec => []RedeliveryTellsNoStory
<1>1. ASSUME Typing, ClusterInv PROVE RedeliveryTellsNoStory
  <2>. SUFFICES ASSUME NEW x \in Clusters
                PROVE  /\ \E a, b \in x.members :
                            /\ a.event.eventId # b.event.eventId
                            /\ Family(a.event.eventType) # Family(b.event.eventType)
                       /\ MinConfidence <= x.confidence /\ x.confidence <= 100
    BY DEF RedeliveryTellsNoStory
  <2>1. GoodCluster(x)
    BY <1>1 DEF ClusterInv
  <2>2. PICK a, b \in x.members : Family(a.event.eventType) # Family(b.event.eventType)
    BY <2>1 DEF GoodCluster
  <2>3. a.event \in Candidates /\ b.event \in Candidates
    BY <2>1 DEF GoodCluster, Deliveries
  <2>4. a.event.eventId # b.event.eventId
    BY <2>2, <2>3, ProcessorAssumption
  <2>. QED
    BY <2>1, <2>2, <2>4 DEF GoodCluster
<1>. QED
  BY <1>1, ClusterInvariant, PTL

(* Only the event that completes a cluster can be older than the window.   *)
THEOREM StalenessIsBounded == Spec => []OnlyTheTriggerIsStale
<1>1. ASSUME ClusterInv PROVE OnlyTheTriggerIsStale
  BY <1>1 DEF ClusterInv, GoodCluster, OnlyTheTriggerIsStale
<1>. QED
  BY <1>1, ClusterInvariant, PTL
-----------------------------------------------------------------------------
(* Refinement: each consumer of the processor keeps the promise that       *)
(* SubscriptionDelivery makes of one subscription, with a handler that     *)
(* correlates and publishes, and with the same start: the end of the topic *)
(* each time the group begins to read it with nothing committed.           *)
SettledOf(c) == {o \in 1 .. Len(log[c]) : <<c, o>> \in settled}
Delivery(c) == INSTANCE SubscriptionDelivery
  WITH length <- Len(log[c]), start <- start[c], committed <- committed[c],
       settled <- SettledOf(c)

KeepsDelivery ==
  /\ \A c \in Consumers : Delivery(c)!Init
  /\ [][\A c \in Consumers : [Delivery(c)!Next]_(Delivery(c)!vars)]_vars

(* Nothing is settled, or passed, that has not arrived.                    *)
ArrivedInv ==
  \A c \in Consumers :
    /\ start[c] <= Len(log[c]) /\ committed[c] <= Len(log[c])
    /\ c \in assigned => position[c] <= Len(log[c])
    /\ \A o \in Nat : <<c, o>> \in settled => o \in 1 .. Len(log[c])

(* The steps, seen by the consumer u: a message arrives, the message in    *)
(* hand is settled, the position is committed, u begins at the end of its  *)
(* topic, or nothing of its promise changes.                               *)
Arrives(u) ==
  /\ Len(log'[u]) = Len(log[u]) + 1
  /\ UNCHANGED <<group, position[u], committed[u], settled>>
Settles(u) ==
  /\ u \in assigned /\ position[u] < Len(log[u]) /\ position'[u] = position[u] + 1
  /\ UNCHANGED <<log[u], group, committed[u]>>
  /\ settled' = settled \cup {<<u, position[u] + 1>>}
Commits(u) ==
  /\ u \in assigned /\ start[u] < position[u]
  /\ committed[u] < position[u] /\ committed'[u] = position[u]
  /\ UNCHANGED <<log[u], group, position[u], settled>>
Begins(u) ==
  /\ committed[u] = NoOffset
  /\ start'[u] = Len(log[u]) /\ position'[u] = Len(log[u])
  /\ UNCHANGED <<log[u], committed[u], settled>>
Keeps(u) ==
  /\ UNCHANGED <<log[u], start[u], committed[u]>>
  /\ u \in assigned' => \/ u \in assigned /\ position'[u] = position[u]
                        \/ position'[u] = committed[u]
  /\ \A o \in Nat : <<u, o>> \in settled' <=> <<u, o>> \in settled

LEMMA StepOfAConsumer ==
  ASSUME Typing, InHand, [Next]_vars, NEW u \in Consumers
  PROVE  Arrives(u) \/ Settles(u) \/ Commits(u) \/ Begins(u) \/ Keeps(u)
<1>. DEFINE P == Arrives(u) \/ Settles(u) \/ Commits(u) \/ Begins(u) \/ Keeps(u)
<1>0. /\ log \in [Consumers -> Seq(Signals \cup Findings)] /\ log[u] \in Seq(Signals \cup Findings)
      /\ position \in [Consumers -> Nat] /\ start \in [Consumers -> Nat]
      /\ committed \in [Consumers -> Nat \cup {NoOffset}]
  BY DEF Typing
<1>. USE DEF group
<1>1. ASSUME NEW c \in Consumers, NEW m \in Messages(c), Arrive(c, m) PROVE P
  <2>1. /\ log' = [log EXCEPT ![c] = Append(log[c], m)]
        /\ UNCHANGED <<group, position, committed, settled>>
    BY <1>1 DEF Arrive
  <2>2. CASE u = c
    <3>1. m \in Signals \cup Findings /\ log'[u] = Append(log[u], m)
      BY <1>0, <2>1, <2>2 DEF Messages
    <3>2. Len(log'[u]) = Len(log[u]) + 1
      BY <1>0, <3>1, AppendProperties
    <3>. QED
      BY <2>1, <3>2 DEF Arrives
  <2>3. CASE u # c
    <3>1. log'[u] = log[u]
      BY <1>0, <2>1, <2>3
    <3>. QED
      BY <2>1, <3>1 DEF Keeps
  <2>. QED
    BY <2>2, <2>3
<1>2. ASSUME NEW c \in Consumers, UNCHANGED <<log, group, committed>>, c \in assigned,
             position[c] < Len(log[c]),
             position' = [position EXCEPT ![c] = position[c] + 1],
             settled' = settled \cup {<<c, position[c] + 1>>}
      PROVE  P
  <2>1. CASE u = c
    BY <1>0, <1>2, <2>1 DEF Settles
  <2>2. CASE u # c
    <3>1. position'[u] = position[u]
      BY <1>0, <1>2, <2>2
    <3>2. \A o \in Nat : <<u, o>> \in settled' <=> <<u, o>> \in settled
      BY <1>2, <2>2
    <3>. QED
      BY <1>2, <3>1, <3>2 DEF Keeps
  <2>. QED
    BY <2>1, <2>2
<1>3. ASSUME UNCHANGED <<log, group, position, committed, settled>> PROVE P
  BY <1>3 DEF Keeps
<1>4. ASSUME NEW c \in Consumers, Ingest(c) PROVE P
  <2>1. UNCHANGED <<log, group, committed>> /\ c \in assigned /\ position[c] < Len(log[c])
    BY <1>4 DEF Ingest
  <2>2. \/ UNCHANGED <<position, settled>>
        \/ /\ position' = [position EXCEPT ![c] = position[c] + 1]
           /\ settled' = settled \cup {<<c, position[c] + 1>>}
    BY <1>4 DEF Ingest
  <2>. HIDE DEF P
  <2>. QED
    BY <1>2, <1>3, <2>1, <2>2
<1>5. ASSUME NEW c \in Consumers, Publish(c) \/ PublishFails(c) PROVE P
  <2>1. /\ UNCHANGED <<log, group, committed>> /\ pending[c] # {}
        /\ position' = [position EXCEPT ![c] = position[c] + 1]
        /\ settled' = settled \cup {<<c, position[c] + 1>>}
    BY <1>5 DEF Publish, PublishFails
  <2>2. c \in assigned /\ position[c] < Len(log[c])
    BY <2>1 DEF InHand
  <2>. HIDE DEF P
  <2>. QED
    BY <1>2, <2>1, <2>2
<1>6. ASSUME NEW c \in Consumers, Commit(c) PROVE P
  <2>1. /\ c \in assigned /\ committed[c] < position[c] /\ start[c] < position[c]
        /\ committed' = [committed EXCEPT ![c] = position[c]]
        /\ UNCHANGED <<log, group, position, settled>>
    BY <1>6 DEF Commit
  <2>2. CASE u = c
    BY <1>0, <2>1, <2>2 DEF Commits
  <2>3. CASE u # c
    BY <1>0, <2>1, <2>3 DEF Keeps
  <2>. QED
    BY <2>2, <2>3
<1>7. ASSUME NEW c \in Consumers, Assign(c) PROVE P
  <2>1. CASE u = c /\ committed[u] = NoOffset
    BY <1>0, <1>7, <2>1 DEF Assign, Begins
  <2>2. CASE u = c /\ committed[u] # NoOffset
    BY <1>0, <1>7, <2>2 DEF Assign, Keeps
  <2>3. CASE u # c
    BY <1>0, <1>7, <2>3 DEF Assign, Keeps
  <2>. QED
    BY <2>1, <2>2, <2>3
<1>8. ASSUME NEW c \in Consumers, Revoke(c) PROVE P
  BY <1>0, <1>8 DEF Revoke, Keeps
<1>9. ASSUME Crash PROVE P
  BY <1>9 DEF Crash, Keeps
<1>10. Tick \/ UNCHANGED vars \/ (\E c \in Consumers : DeadLetterFails(c)) => P
  BY <1>3 DEF Tick, DeadLetterFails, vars
<1>. HIDE DEF P
<1>. QED
  BY <1>1, <1>4, <1>5, <1>6, <1>7, <1>8, <1>9, <1>10 DEF Next, P

LEMMA ArrivedStep == Typing /\ Typing' /\ InHand /\ ArrivedInv /\ [Next]_vars => ArrivedInv'
<1>. SUFFICES ASSUME Typing, Typing', InHand, ArrivedInv, [Next]_vars, NEW u \in Consumers
              PROVE  /\ start'[u] <= Len(log'[u]) /\ committed'[u] <= Len(log'[u])
                     /\ u \in assigned' => position'[u] <= Len(log'[u])
                     /\ \A o \in Nat : <<u, o>> \in settled' => o \in 1 .. Len(log'[u])
  BY DEF ArrivedInv
<1>. USE DEF group
<1>1. /\ position[u] \in Nat /\ committed[u] \in Nat \cup {NoOffset} /\ start[u] \in Nat
      /\ Len(log[u]) \in Nat
      /\ start[u] <= Len(log[u]) /\ committed[u] <= Len(log[u])
      /\ u \in assigned => position[u] <= Len(log[u])
      /\ \A o \in Nat : <<u, o>> \in settled => o \in 1 .. Len(log[u])
  BY LenProperties DEF Typing, ArrivedInv
<1>2. CASE Arrives(u)
  <2>1. Len(log'[u]) \in Nat /\ NoOffset \in Int
    BY <1>1, <1>2 DEF Arrives, NoOffset
  <2>. QED
    BY <1>1, <1>2, <2>1 DEF Arrives
<1>3. CASE Settles(u)
  <2>1. \A o \in Nat : <<u, o>> \in settled' => <<u, o>> \in settled \/ o = position[u] + 1
    BY <1>3 DEF Settles
  <2>. QED
    BY <1>1, <1>3, <2>1 DEF Settles
<1>4. CASE Commits(u)
  BY <1>1, <1>4 DEF Commits
<1>5. CASE Begins(u)
  BY <1>1, <1>5 DEF Begins
<1>6. CASE Keeps(u)
  BY <1>1, <1>6 DEF Keeps
<1>. QED
  BY <1>2, <1>3, <1>4, <1>5, <1>6, StepOfAConsumer

LEMMA DeliveryStep ==
  ASSUME Typing, InHand, OffsetInv, ArrivedInv, [Next]_vars, NEW u \in Consumers
  PROVE  [Delivery(u)!Next]_(Delivery(u)!vars)
<1>. USE DEF group
<1>1. /\ position[u] \in Nat /\ committed[u] \in Nat \cup {NoOffset} /\ start[u] \in Nat
      /\ Len(log[u]) \in Nat
      /\ u \in assigned =>
           /\ start[u] <= position[u] /\ position[u] <= Len(log[u])
           /\ \A o \in start[u] + 1 .. position[u] : <<u, o>> \in settled
      /\ \A o \in Nat : <<u, o>> \in settled => o \in 1 .. Len(log[u])
  BY LenProperties DEF Typing, ArrivedInv, OffsetInv
<1>2. CASE Arrives(u)
  <2>1. SettledOf(u)' = SettledOf(u)
    BY <1>1, <1>2 DEF Arrives, SettledOf
  <2>2. Delivery(u)!Grow
    BY <1>2, <2>1 DEF Arrives, Delivery!Grow
  <2>. QED
    BY <2>2 DEF Delivery!Next
<1>3. CASE Settles(u)
  <2>1. position[u] + 1 \in start[u] + 1 .. Len(log[u])
    BY <1>1, <1>3 DEF Settles
  <2>2. /\ SettledOf(u)' = SettledOf(u) \cup {position[u] + 1}
        /\ UNCHANGED <<Len(log[u]), start[u], committed[u]>>
    BY <1>1, <1>3, <2>1 DEF Settles, SettledOf
  <2>3. Delivery(u)!Settle
    BY <2>1, <2>2 DEF Delivery!Settle
  <2>. QED
    BY <2>3 DEF Delivery!Next
<1>4. CASE Commits(u)
  <2>1. /\ SettledOf(u)' = SettledOf(u) /\ committed'[u] = position[u]
        /\ UNCHANGED <<Len(log[u]), start[u]>>
    BY <1>4 DEF Commits, SettledOf
  <2>2. position[u] \in start[u] + 1 .. Len(log[u]) /\ position[u] > committed[u]
    BY <1>1, <1>4 DEF Commits, NoOffset
  <2>3. start[u] + 1 .. position[u] \subseteq SettledOf(u)
    BY <1>1, <1>4 DEF SettledOf, Commits
  <2>4. Delivery(u)!Commit
    BY <2>1, <2>2, <2>3 DEF Delivery!Commit
  <2>. QED
    BY <2>4 DEF Delivery!Next
<1>5. CASE Begins(u)
  <2>1. /\ SettledOf(u)' = SettledOf(u) /\ start'[u] = Len(log[u])
        /\ UNCHANGED <<Len(log[u]), committed[u]>>
    BY <1>5 DEF Begins, SettledOf
  <2>2. Delivery(u)!StartAtEnd
    BY <1>5, <2>1 DEF Begins, Delivery!StartAtEnd, Delivery!NoOffset, NoOffset
  <2>. QED
    BY <2>2 DEF Delivery!Next
<1>6. CASE Keeps(u)
  <2>1. /\ SettledOf(u)' = SettledOf(u)
        /\ UNCHANGED <<Len(log[u]), start[u], committed[u]>>
    BY <1>1, <1>6 DEF Keeps, SettledOf
  <2>. QED
    BY <2>1 DEF Delivery!vars
<1>. QED
  BY <1>2, <1>3, <1>4, <1>5, <1>6, StepOfAConsumer

(* However the publications of a consumer fail, the process crashes and    *)
(* the group rebalances, the subscription keeps the promise that KafkaBus  *)
(* keeps for any handler: from where the group began to read, it commits   *)
(* no message that was not handled to its end or dead-lettered.            *)
THEOREM Refinement == Spec => KeepsDelivery
<1>1. Init => ArrivedInv /\ InHand /\ \A c \in Consumers : Delivery(c)!Init
  BY DEF Init, ArrivedInv, InHand, SettledOf, Delivery!Init, Delivery!NoOffset, NoOffset
<1>2. Typing /\ InHand /\ OffsetInv /\ ArrivedInv /\ [Next]_vars
      => [\A c \in Consumers : [Delivery(c)!Next]_(Delivery(c)!vars)]_vars
  BY DeliveryStep
<1>. QED
  BY <1>1, <1>2, TypingInit, TypingStep, InHandStep, OffsetInit, OffsetStep, ArrivedStep, PTL
     DEF Spec, KeepsDelivery
=============================================================================
