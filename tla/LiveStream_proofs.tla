-------------------------- MODULE LiveStream_proofs --------------------------
(***************************************************************************)
(* Proofs about TopicProvisioning and LiveStream, for any topics,          *)
(* partitions and services, any number of boots that fail, any replicas    *)
(* and process ids, and any browsers.                                      *)
(***************************************************************************)
EXTENDS LiveStream, TLAPS

(* What a boot has achieved: a service that waits for its request has      *)
(* asked for every topic that did not exist, and has nothing to wait for   *)
(* otherwise.                                                              *)
BootInv ==
  \A w \in Workers :
    /\ boot[w] = "up" => \A t \in Topics : Topic(t) \in existing
    /\ boot[w] = "creating" => \A t \in Topics : Topic(t) \in existing \cup request[w]
    /\ boot[w] # "creating" => request[w] = {}

(* A topic is created before its dead-letter topic, by the same request.   *)
PairInv ==
  \A w \in Workers, t \in Topics : Topic(t) \in request[w] => DlqTopic(t) \in request[w]

(* Where the dead-letter topic of a topic is.                              *)
DlqInSight(t) ==
  \/ DlqTopic(t) \in existing
  \/ \E v \in Workers : DlqTopic(t) \in request[v]
  \/ t \in cut
DlqInv == \A t \in Topics : Topic(t) \in existing => DlqInSight(t)

ProvisionInv == ProvisionTypeOK /\ BootInv /\ PairInv /\ DlqInv
-----------------------------------------------------------------------------
LEMMA NamesDiffer ==
  ASSUME NEW t, NEW u
  PROVE  /\ Topic(t) # DlqTopic(u)
         /\ Topic(t) = Topic(u) => t = u
         /\ DlqTopic(t) = DlqTopic(u) => t = u
BY DEF Topic, DlqTopic

LEMMA NameOfTopic ==
  ASSUME NEW name \in Names
  PROVE  /\ name[1] \in Topics
         /\ name = Topic(name[1]) \/ name = DlqTopic(name[1])
BY DEF Names, Topic, DlqTopic

LEMMA MissingPairs ==
  /\ Missing \subseteq Names
  /\ \A t \in Topics : Topic(t) \in existing \cup Missing
  /\ \A t \in Topics : Topic(t) \in Missing => DlqTopic(t) \in Missing
<1>1. Missing \subseteq Names
  BY DEF Missing, Names
<1>2. ASSUME NEW t \in Topics, Topic(t) \notin existing
      PROVE  Topic(t) \in Missing /\ DlqTopic(t) \in Missing
  BY <1>2 DEF Missing
<1>3. ASSUME NEW t \in Topics, Topic(t) \in Missing PROVE Topic(t) \notin existing
  <2>1. PICK u \in Topics : Topic(u) \notin existing /\ Topic(t) \in {Topic(u), DlqTopic(u)}
    BY <1>3 DEF Missing
  <2>. QED
    BY <2>1, NamesDiffer
<1>. QED
  BY <1>1, <1>2, <1>3

LEMMA ProvisionStart == ProvisionInit => ProvisionInv
BY ProvisioningAssumption
   DEF ProvisionInit, ProvisionInv, ProvisionTypeOK, BootInv, PairInv, DlqInv

LEMMA ProvisionStep == ProvisionInv /\ [ProvisionNext]_provisioning => ProvisionInv'
<1>. SUFFICES ASSUME ProvisionInv, [ProvisionNext]_provisioning PROVE ProvisionInv'
  OBVIOUS
<1>. USE DEF ProvisionInv
<1>1. ASSUME NEW w \in Workers, List(w) PROVE ProvisionInv'
  <2>1. ProvisionTypeOK'
    BY <1>1, MissingPairs DEF List, ProvisionTypeOK
  <2>2. BootInv'
    BY <1>1, MissingPairs DEF List, ProvisionTypeOK, BootInv
  <2>3. PairInv'
    BY <1>1, MissingPairs DEF List, ProvisionTypeOK, PairInv
  <2>4. DlqInv'
    <3>1. request[w] = {} /\ \A v \in Workers : v # w => request'[v] = request[v]
      BY <1>1 DEF List, ProvisionTypeOK, BootInv
    <3>2. UNCHANGED <<existing, cut>>
      BY <1>1 DEF List
    <3>. QED
      BY <3>1, <3>2 DEF DlqInv, DlqInSight
  <2>. QED
    BY <2>1, <2>2, <2>3, <2>4
<1>2. ASSUME NEW w \in Workers, Create(w) PROVE ProvisionInv'
  <2>1. PICK name \in request[w] :
          /\ name = Topic(name[1]) \/ Topic(name[1]) \notin request[w]
          /\ existing' = existing \cup {name}
          /\ request' = [request EXCEPT ![w] = @ \ {name}]
          /\ UNCHANGED <<boot, faults, cut>>
    BY <1>2 DEF Create, Leading
  <2>2. /\ name \in Names /\ name[1] \in Topics
        /\ name = Topic(name[1]) \/ name = DlqTopic(name[1])
    BY NameOfTopic DEF ProvisionTypeOK
  <2>3. /\ request'[w] = request[w] \ {name}
        /\ \A v \in Workers : v # w => request'[v] = request[v]
    BY <2>1 DEF ProvisionTypeOK
  <2>4. ProvisionTypeOK'
    BY <2>1, <2>2 DEF ProvisionTypeOK
  <2>5. BootInv'
    BY <2>1, <2>3 DEF BootInv
  <2>6. PairInv'
    BY <2>1, <2>2, <2>3, NamesDiffer DEF PairInv
  <2>7. DlqInv'
    <3>1. ASSUME NEW t \in Topics, Topic(t) \in existing PROVE DlqInSight(t)'
      BY <2>1, <2>3, <3>1 DEF DlqInv, DlqInSight
    <3>2. ASSUME NEW t \in Topics, Topic(t) = name PROVE DlqInSight(t)'
      <4>1. DlqTopic(t) \in request[w]
        BY <2>1, <3>2 DEF PairInv
      <4>. QED
        BY <2>3, <3>2, <4>1, NamesDiffer DEF DlqInSight
    <3>. QED
      BY <2>1, <3>1, <3>2 DEF DlqInv
  <2>. QED
    BY <2>4, <2>5, <2>6, <2>7
<1>3. ASSUME NEW w \in Workers, Created(w) PROVE ProvisionInv'
  <2>1. ProvisionTypeOK'
    BY <1>3 DEF Created, ProvisionTypeOK
  <2>2. BootInv'
    BY <1>3 DEF Created, ProvisionTypeOK, BootInv
  <2>3. PairInv' /\ DlqInv'
    BY <1>3 DEF Created, PairInv, DlqInv, DlqInSight
  <2>. QED
    BY <2>1, <2>2, <2>3
<1>4. ASSUME NEW w \in Workers, BootFails(w) PROVE ProvisionInv'
  <2>1. ProvisionTypeOK'
    <3>1. /\ faults \in [Workers -> Nat] /\ MaxFaults \in [Workers -> Nat]
          /\ faults[w] < MaxFaults[w] /\ faults' = [faults EXCEPT ![w] = @ + 1]
      BY <1>4, ProvisioningAssumption DEF BootFails, ProvisionTypeOK
    <3>2. faults' \in [Workers -> Nat] /\ faults'[w] <= MaxFaults[w]
      BY <3>1
    <3>3. \A v \in Workers : v # w => faults'[v] = faults[v]
      BY <3>1
    <3>4. \A v \in Workers : faults'[v] <= MaxFaults[v]
      BY <3>2, <3>3 DEF ProvisionTypeOK
    <3>5. /\ existing' = existing /\ cut' \subseteq Topics
          /\ boot' \in [Workers -> {"down", "creating", "up"}]
          /\ request' \in [Workers -> SUBSET Names]
      BY <1>4 DEF BootFails, ProvisionTypeOK
    <3>. QED
      BY <3>2, <3>4, <3>5 DEF ProvisionTypeOK
  <2>2. BootInv'
    BY <1>4 DEF BootFails, ProvisionTypeOK, BootInv
  <2>3. PairInv'
    BY <1>4 DEF BootFails, ProvisionTypeOK, PairInv
  <2>4. DlqInv'
    BY <1>4 DEF BootFails, ProvisionTypeOK, DlqInv, DlqInSight
  <2>. QED
    BY <2>1, <2>2, <2>3, <2>4
<1>5. CASE UNCHANGED provisioning
  BY <1>5 DEF provisioning, ProvisionTypeOK, BootInv, PairInv, DlqInv, DlqInSight
<1>. QED
  BY <1>1, <1>2, <1>3, <1>4, <1>5 DEF ProvisionNext
-----------------------------------------------------------------------------
(* Types, for any topics, services and bound.                              *)
THEOREM ProvisionTypeCorrect == ProvisionSpec => []ProvisionTypeOK
<1>1. ProvisionInv => ProvisionTypeOK
  BY DEF ProvisionInv
<1>. QED
  BY <1>1, ProvisionStart, ProvisionStep, PTL DEF ProvisionSpec

(* Whoever races and whichever boot fails, a service that is up finds      *)
(* every topic, and no dead-letter topic is lost but to a cut request.     *)
THEOREM Provisioned == ProvisionSpec => []ProvisionedOnceUp
<1>1. ProvisionInv => ProvisionedOnceUp
  BY DEF ProvisionInv, BootInv, DlqInv, DlqInSight, ProvisionedOnceUp
<1>. QED
  BY <1>1, ProvisionStart, ProvisionStep, PTL DEF ProvisionSpec
-----------------------------------------------------------------------------
Offsets == Nat \cup {NoOffset}

(* The parts of the state that the argument is about.                      *)
StreamTypes ==
  /\ length \in [Lanes -> Nat]
  /\ pid \in PidsOfHosts
  /\ subscribed \in [Replicas -> 0 .. Len(Subscribed)]
  /\ position \in [Groups -> [Lanes -> Nat]]
  /\ committed \in [Groups -> [Lanes -> Offsets]]
  /\ upSince \in [Replicas -> [Lanes -> Nat]]
  /\ DOMAIN emitted = Replicas

(* Nobody is ahead of what was published.  This is why a replica that has  *)
(* just made its last subscription has missed nothing yet.                 *)
NotAhead ==
  \A g \in Groups, l \in Lanes :
    position[g][l] <= length[l] /\ committed[g][l] <= length[l]

StreamInv == StreamTypes /\ NotAhead /\ LoneReplicaSeesEveryEvent
-----------------------------------------------------------------------------
LEMMA GroupsOfReplicas ==
  ASSUME pid \in PidsOfHosts
  PROVE  \A r \in Replicas : GroupOf(r) \in Groups
BY DEF GroupOf, GroupId, Groups

LEMMA LoneGroup ==
  ASSUME NEW r \in Replicas, NEW q \in Replicas, ~Shared(r), GroupOf(q) = GroupOf(r)
  PROVE  q = r
BY DEF Shared, GroupOf, GroupId

(* A new assignment moves only its own group, and not ahead.               *)
LEMMA RebalanceMoves ==
  ASSUME StreamTypes, NotAhead, NEW g \in Groups, NEW subscriptions,
         Rebalance(g, subscriptions), length' = length
  PROVE  /\ position' \in [Groups -> [Lanes -> Nat]]
         /\ committed' = committed
         /\ NotAhead'
         /\ \A h \in Groups : h # g => position'[h] = position[h]
<1>. DEFINE start == [l \in Lanes |->
                        IF owner'[g][l] = None THEN 0
                        ELSE IF committed[g][l] = NoOffset THEN length[l] ELSE committed[g][l]]
<1>1. position' = [position EXCEPT ![g] = start] /\ committed' = committed
  BY DEF Rebalance
<1>2. start \in [Lanes -> Nat] /\ \A l \in Lanes : start[l] <= length[l]
  BY DEF StreamTypes, NotAhead, Offsets
<1>. HIDE DEF start
<1>3. position' \in [Groups -> [Lanes -> Nat]]
  BY <1>1, <1>2 DEF StreamTypes
<1>4. NotAhead'
  BY <1>1, <1>2 DEF StreamTypes, NotAhead
<1>5. \A h \in Groups : h # g => position'[h] = position[h]
  BY <1>1 DEF StreamTypes
<1>. QED
  BY <1>1, <1>3, <1>4, <1>5
-----------------------------------------------------------------------------
LEMMA StreamStart == Init => StreamInv
<1>. SUFFICES ASSUME Init PROVE StreamInv
  OBVIOUS
<1>1. Len(Subscribed) \in Nat
  BY StreamAssumption
<1>2. StreamTypes
  BY <1>1 DEF Init, StreamTypes, Offsets, NoOffset
<1>3. NotAhead
  BY DEF Init, NotAhead, NoOffset
<1>4. LoneReplicaSeesEveryEvent
  BY <1>2, GroupsOfReplicas DEF Init, LoneReplicaSeesEveryEvent, StreamTypes
<1>. QED
  BY <1>2, <1>3, <1>4 DEF StreamInv

(* A replica that leaves is not up, so that it owes nothing.               *)
LEMMA LeaveKeeps ==
  ASSUME StreamInv, NEW r \in Replicas, Leave(r), Len(Subscribed) # 0
  PROVE  StreamInv'
<1>. USE DEF StreamInv
<1>1. GroupOf(r) \in Groups /\ \A q \in Replicas : GroupOf(q) \in Groups
  BY GroupsOfReplicas DEF StreamTypes
<1>2. length' = length /\ pid' = pid
  BY DEF Leave
<1>3. /\ position' \in [Groups -> [Lanes -> Nat]] /\ committed' = committed /\ NotAhead'
      /\ \A h \in Groups : h # GroupOf(r) => position'[h] = position[h]
  BY <1>1, <1>2, RebalanceMoves DEF Leave
<1>4. 0 \in 0 .. Len(Subscribed)
  BY StreamAssumption
<1>5. StreamTypes'
  BY <1>2, <1>3, <1>4 DEF Leave, StreamTypes
<1>6. LoneReplicaSeesEveryEvent'
  <2>. SUFFICES ASSUME NEW q \in Replicas, Up(q)', ~Shared(q)', NEW l \in Lanes,
                       NEW o \in (upSince[q][l] + 1 .. position[GroupOf(q)][l])'
                PROVE  (<<l, o>> \in emitted[q])'
    BY DEF LoneReplicaSeesEveryEvent
  <2>1. q # r
    BY DEF Leave, Up, StreamTypes
  <2>2. Up(q) /\ ~Shared(q) /\ GroupOf(q)' = GroupOf(q)
    BY <1>2, <2>1 DEF Leave, Up, Shared, GroupOf, GroupId, StreamTypes
  <2>3. position'[GroupOf(q)] = position[GroupOf(q)]
    BY <1>1, <1>3, <2>1, <2>2, LoneGroup
  <2>4. upSince'[q] = upSince[q] /\ emitted'[q] = emitted[q]
    BY <2>1 DEF Leave, StreamTypes
  <2>. QED
    BY <2>2, <2>3, <2>4 DEF LoneReplicaSeesEveryEvent
<1>. QED
  BY <1>3, <1>5, <1>6

LEMMA SubscribeKeeps ==
  ASSUME StreamInv, NEW r \in Replicas, Subscribe(r)
  PROVE  StreamInv'
<1>. USE DEF StreamInv
<1>1. GroupOf(r) \in Groups /\ \A q \in Replicas : GroupOf(q) \in Groups
  BY GroupsOfReplicas DEF StreamTypes
<1>2. length' = length /\ pid' = pid /\ emitted' = emitted
  BY DEF Subscribe
<1>3. /\ position' \in [Groups -> [Lanes -> Nat]] /\ committed' = committed /\ NotAhead'
      /\ \A h \in Groups : h # GroupOf(r) => position'[h] = position[h]
  BY <1>1, <1>2, RebalanceMoves DEF Subscribe
<1>4. subscribed' \in [Replicas -> 0 .. Len(Subscribed)]
  <2>1. subscribed[r] + 1 \in 0 .. Len(Subscribed)
    BY StreamAssumption DEF Subscribe, Up, StreamTypes
  <2>. QED
    BY <2>1 DEF Subscribe, StreamTypes
<1>5. upSince' \in [Replicas -> [Lanes -> Nat]]
  BY DEF Subscribe, StreamTypes
<1>6. StreamTypes'
  BY <1>2, <1>3, <1>4, <1>5 DEF StreamTypes
<1>7. LoneReplicaSeesEveryEvent'
  <2>. SUFFICES ASSUME NEW q \in Replicas, Up(q)', ~Shared(q)', NEW l \in Lanes,
                       NEW o \in (upSince[q][l] + 1 .. position[GroupOf(q)][l])'
                PROVE  (<<l, o>> \in emitted[q])'
    BY DEF LoneReplicaSeesEveryEvent
  <2>1. GroupOf(q)' = GroupOf(q)
    BY <1>2 DEF GroupOf, GroupId
  <2>2. CASE q = r
    <3>1. upSince'[q][l] = length[l]
      BY <2>2 DEF Subscribe, StreamTypes, Up
    <3>2. position'[GroupOf(q)][l] \in Nat /\ position'[GroupOf(q)][l] <= length[l]
      BY <1>1, <1>2, <1>3 DEF NotAhead
    <3>3. length[l] \in Nat
      BY DEF StreamTypes
    <3>. QED
      BY <2>1, <3>1, <3>2, <3>3
  <2>3. CASE q # r
    <3>1. Up(q) /\ ~Shared(q)
      BY <1>2, <2>3 DEF Subscribe, Up, Shared, StreamTypes
    <3>2. position'[GroupOf(q)] = position[GroupOf(q)]
      BY <1>1, <1>3, <2>3, <3>1, LoneGroup
    <3>3. upSince'[q] = upSince[q]
      BY <2>3 DEF Subscribe, StreamTypes
    <3>. QED
      BY <1>2, <2>1, <3>1, <3>2, <3>3 DEF LoneReplicaSeesEveryEvent
  <2>. QED
    BY <2>2, <2>3
<1>. QED
  BY <1>3, <1>6, <1>7

(* Only the replica itself moves the group of a lone replica, and pushes   *)
(* the event that it moves past.                                           *)
LEMMA EmitKeeps ==
  ASSUME StreamInv, NEW r \in Replicas, NEW m \in Lanes, Emit(r, m)
  PROVE  StreamInv'
<1>. USE DEF StreamInv
<1>. DEFINE g == GroupOf(r)
<1>1. g \in Groups /\ \A q \in Replicas : GroupOf(q) \in Groups
  BY GroupsOfReplicas DEF StreamTypes
<1>2. /\ position[g][m] < length[m]
      /\ position' = [position EXCEPT ![g][m] = @ + 1]
      /\ emitted' = [emitted EXCEPT ![r] = @ \cup {<<m, position[g][m] + 1>>}]
      /\ UNCHANGED <<length, pid, subscribed, committed, upSince>>
  BY DEF Emit
<1>3. /\ position' \in [Groups -> [Lanes -> Nat]]
      /\ position'[g][m] = position[g][m] + 1
      /\ \A h \in Groups, l \in Lanes :
           h # g \/ l # m => position'[h][l] = position[h][l]
  BY <1>1, <1>2 DEF StreamTypes
<1>. HIDE DEF g
<1>4. StreamTypes'
  BY <1>2, <1>3 DEF StreamTypes
<1>5. NotAhead'
  BY <1>1, <1>2, <1>3 DEF NotAhead, StreamTypes
<1>6. LoneReplicaSeesEveryEvent'
  <2>. SUFFICES ASSUME NEW q \in Replicas, Up(q)', ~Shared(q)', NEW l \in Lanes,
                       NEW o \in (upSince[q][l] + 1 .. position[GroupOf(q)][l])'
                PROVE  (<<l, o>> \in emitted[q])'
    BY DEF LoneReplicaSeesEveryEvent
  <2>1. Up(q) /\ ~Shared(q) /\ GroupOf(q)' = GroupOf(q)
    BY <1>2 DEF Up, Shared, GroupOf, GroupId
  <2>2. emitted[q] \subseteq emitted'[q] /\ upSince'[q] = upSince[q]
    BY <1>2 DEF StreamTypes
  <2>3. upSince[q][l] \in Nat /\ position[GroupOf(q)][l] \in Nat
    BY <1>1 DEF StreamTypes
  <2>4. CASE o \in upSince[q][l] + 1 .. position[GroupOf(q)][l]
    BY <2>1, <2>2, <2>4 DEF LoneReplicaSeesEveryEvent
  <2>5. CASE o \notin upSince[q][l] + 1 .. position[GroupOf(q)][l]
    <3>1. position'[GroupOf(q)][l] # position[GroupOf(q)][l]
      BY <2>1, <2>2, <2>5
    <3>2. GroupOf(q) = g /\ l = m
      BY <1>1, <1>3, <3>1
    <3>3. q = r
      BY <2>1, <3>2, LoneGroup DEF g
    <3>4. o = position[g][m] + 1
      <4>1. position'[GroupOf(q)][l] = position[g][m] + 1 /\ GroupOf(q) = g /\ l = m
        BY <1>1, <1>3, <3>2
      <4>. QED
        BY <2>1, <2>2, <2>3, <2>5, <4>1
    <3>. QED
      BY <1>2, <3>2, <3>3, <3>4 DEF StreamTypes
  <2>. QED
    BY <2>4, <2>5
<1>. QED
  BY <1>4, <1>5, <1>6

LEMMA PublishKeeps ==
  ASSUME StreamInv, NEW l \in Lanes, Publish(l)
  PROVE  StreamInv'
<1>1. /\ length' = [length EXCEPT ![l] = @ + 1]
      /\ UNCHANGED <<pid, subscribed, position, committed, upSince, emitted>>
  BY DEF Publish, groups
<1>2. StreamTypes'
  BY <1>1 DEF StreamInv, StreamTypes
<1>3. NotAhead'
  <2>1. \A m \in Lanes : length[m] \in Nat /\ length'[m] \in Nat /\ length[m] <= length'[m]
    BY <1>1 DEF StreamInv, StreamTypes
  <2>2. \A g \in Groups, m \in Lanes :
          position[g][m] \in Nat /\ committed[g][m] \in Nat \cup {-1}
    BY DEF StreamInv, StreamTypes, Offsets, NoOffset
  <2>3. position' = position /\ committed' = committed
    BY <1>1
  <2>. QED
    BY <2>1, <2>2, <2>3 DEF StreamInv, NotAhead
<1>4. LoneReplicaSeesEveryEvent'
  BY <1>1 DEF StreamInv, LoneReplicaSeesEveryEvent, Up, Shared, GroupOf, GroupId
<1>. QED
  BY <1>2, <1>3, <1>4 DEF StreamInv

LEMMA CommitKeeps ==
  ASSUME StreamInv, NEW g \in Groups, NEW l \in Lanes, Commit(g, l)
  PROVE  StreamInv'
<1>1. /\ committed' = [committed EXCEPT ![g][l] = position[g][l]]
      /\ UNCHANGED <<length, pid, subscribed, position, upSince, emitted>>
  BY DEF Commit
<1>2. /\ committed' \in [Groups -> [Lanes -> Offsets]]
      /\ committed'[g][l] = position[g][l]
      /\ \A h \in Groups, m \in Lanes : h # g \/ m # l => committed'[h][m] = committed[h][m]
  BY <1>1 DEF StreamInv, StreamTypes, Offsets
<1>3. StreamTypes'
  BY <1>1, <1>2 DEF StreamInv, StreamTypes
<1>4. NotAhead'
  BY <1>1, <1>2 DEF StreamInv, NotAhead
<1>5. LoneReplicaSeesEveryEvent'
  BY <1>1 DEF StreamInv, LoneReplicaSeesEveryEvent, Up, Shared, GroupOf, GroupId
<1>. QED
  BY <1>3, <1>4, <1>5 DEF StreamInv

LEMMA StreamStep == StreamInv /\ [Next]_vars => StreamInv'
<1>. SUFFICES ASSUME StreamInv, [Next]_vars PROVE StreamInv'
  OBVIOUS
<1>1. ASSUME UNCHANGED <<length, pid, subscribed, position, committed, upSince, emitted>>
      PROVE  StreamInv'
  BY <1>1 DEF StreamInv, StreamTypes, NotAhead, LoneReplicaSeesEveryEvent, Up, Shared,
              GroupOf, GroupId
<1>2. ASSUME NEW r \in Replicas, Subscribe(r) PROVE StreamInv'
  BY <1>2, SubscribeKeeps
<1>3. ASSUME NEW r \in Replicas, SubscribeThrows(r) PROVE StreamInv'
  <2>1. Len(Subscribed) # 0
    BY <1>3, StreamAssumption DEF SubscribeThrows, Up, StreamInv, StreamTypes
  <2>. QED
    BY <1>3, <2>1, LeaveKeeps DEF SubscribeThrows
<1>4. ASSUME NEW r \in Replicas, Crash(r) PROVE StreamInv'
  <2>1. Len(Subscribed) # 0
    BY <1>4, StreamAssumption DEF Crash, StreamInv, StreamTypes
  <2>. QED
    BY <1>4, <2>1, LeaveKeeps DEF Crash
<1>5. ASSUME NEW r \in Replicas, NEW l \in Lanes, Emit(r, l) PROVE StreamInv'
  BY <1>5, EmitKeeps
<1>6. ASSUME NEW r \in Replicas, NEW c \in Clients, Connect(c, r) PROVE StreamInv'
  BY <1>1, <1>6 DEF Connect, groups
<1>7. ASSUME NEW l \in Lanes, Publish(l) PROVE StreamInv'
  BY <1>7, PublishKeeps
<1>8. ASSUME NEW l \in Lanes, NEW g \in Groups, Commit(g, l) PROVE StreamInv'
  BY <1>8, CommitKeeps
<1>9. ASSUME NEW c \in Clients, Disconnect(c) PROVE StreamInv'
  BY <1>1, <1>9 DEF Disconnect, groups
<1>10. CASE UNCHANGED stream
  BY <1>1, <1>10 DEF stream, groups
<1>11. CASE StreamNext
  BY <1>2, <1>3, <1>4, <1>5, <1>6, <1>7, <1>8, <1>9, <1>11 DEF StreamNext
<1>. QED
  BY <1>10, <1>11 DEF Next, vars
-----------------------------------------------------------------------------
(* A replica whose process id no other has sees every event since it       *)
(* booted, whatever the other groups do.                                   *)
THEOREM LoneReplicaMissesNothing == Spec => []LoneReplicaSeesEveryEvent
<1>1. StreamInv => LoneReplicaSeesEveryEvent
  BY DEF StreamInv
<1>. QED
  BY <1>1, StreamStart, StreamStep, PTL DEF Spec

(* The API's replicas leave the provisioning alone: what is proved of it   *)
(* holds next to them.                                                     *)
THEOREM ProvisioningGoesOn == Spec => ProvisionSpec
<1>1. Init => ProvisionInit
  BY DEF Init
<1>2. [Next]_vars => [ProvisionNext]_provisioning
  BY DEF Next, vars
<1>. QED
  BY <1>1, <1>2, PTL DEF Spec, ProvisionSpec

(* Nor do they take the broker's topics away: whoever has provisioned      *)
(* finds all of them, in the composition as in the module by itself.       *)
THEOREM ProvisionedInStream == Spec => []ProvisionedOnceUp
BY ProvisioningGoesOn, Provisioned, PTL
=============================================================================
