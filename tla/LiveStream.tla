----------------------------- MODULE LiveStream -----------------------------
(***************************************************************************)
(* The API's live stream (apps/stratus-api/src/modules/live-stream.service *)
(* and stream.controller) from the bus to the console's live feed          *)
(* (apps/stratus-console/components/live-feed.tsx), and the topics it      *)
(* subscribes to, which only the workers provision.                        *)
(*                                                                         *)
(* A replica subscribes to its topics one after the other, with a consumer *)
(* for each, all in a group named after its process id, and starts over    *)
(* when a topic does not exist.  Each topic has lanes (partitions), which  *)
(* the group deals out to its members; it commits in the background, and   *)
(* goes back to what it committed, or to the end of the lane, whenever its *)
(* membership changes.                                                     *)
(* The handler pushes to a Subject, which keeps nothing: an event reaches  *)
(* the browsers that are connected to that replica at that moment.         *)
(***************************************************************************)
EXTENDS TopicProvisioning, FiniteSets

CONSTANTS
  Replicas,    \* the replicas of the API
  PidsOfHosts, \* the process ids their hosts may give them, as functions
  Subscribed,  \* the topics a replica subscribes to, in this order
  Clients,     \* browsers with the console open
  Partitions,  \* the partitions of a topic
  FeedSize,    \* the rows the feed keeps (40 in the code)
  MaxEvents,   \* bound: events published
  MaxCrashes,  \* bound, for each replica: how often it dies
  None         \* nobody

SubscribedTopics == {Subscribed[i] : i \in 1 .. Len(Subscribed)}

ASSUME StreamAssumption ==
  /\ Subscribed \in Seq(Topics)
  /\ \A pids \in PidsOfHosts : DOMAIN pids = Replicas
  /\ FeedSize \in Nat \ {0} /\ MaxEvents \in Nat /\ MaxCrashes \in [Replicas -> Nat]
  /\ None \notin Replicas

Lanes == SubscribedTopics \X Partitions
NoOffset == -1
Groups == UNION {{pids[r] : r \in Replicas} : pids \in PidsOfHosts}

VARIABLES
  length,      \* length[l]: the events published on lane l
  pid,         \* pid[r]: the process id of replica r, the same after a restart
  subscribed,  \* subscribed[r]: how many of its subscriptions it has made
  owner,       \* owner[g][l]: the replica that reads lane l in group g
  position,    \* position[g][l]: the events of l the owner has handled
  committed,   \* committed[g][l]: the offset group g has committed
  viewing,     \* viewing[c]: the replica browser c is connected to, or None
  feed,        \* feed[c]: the rows of c's live feed, newest first
  crashes,
  \* History variables.
  upSince,     \* upSince[r]: the length of the lanes when r was up
  emitted,     \* emitted[r]: the events r has pushed since it booted
  due          \* <<c, event>> that must still appear in c's feed

groups  == <<owner, position, committed>>
clients == <<viewing, feed>>
stream  == <<length, pid, subscribed, groups, clients, crashes, upSince,
             emitted, due>>
vars == <<provisioning, stream>>

(* groupId: `stratus-api-sse-${process.pid}`.                              *)
GroupForAll(p) == CHOOSE g \in Groups : TRUE    \* mutated form: one group for all
GroupId(p) == p

Up(r) == subscribed[r] = Len(Subscribed)
GroupOf(r) == GroupId(pid[r])
Shared(r) == \E q \in Replicas \ {r} : pid[q] = pid[r]

Init ==
  /\ ProvisionInit
  /\ length = [l \in Lanes |-> 0]
  /\ pid \in PidsOfHosts
  /\ subscribed = [r \in Replicas |-> 0]
  /\ owner = [g \in Groups |-> [l \in Lanes |-> None]]
  /\ position = [g \in Groups |-> [l \in Lanes |-> 0]]
  /\ committed = [g \in Groups |-> [l \in Lanes |-> NoOffset]]
  /\ viewing = [c \in Clients |-> None]
  /\ feed = [c \in Clients |-> <<>>]
  /\ crashes = [r \in Replicas |-> 0]
  /\ upSince = [r \in Replicas |-> length]
  /\ emitted = [r \in Replicas |-> {}]
  /\ due = {}

(* The members of group g, when the replicas have made so many of their    *)
(* subscriptions: a consumer for each replica and topic.                   *)
MembersOf(g, subscriptions) ==
  {m \in Replicas \X (1 .. Len(Subscribed)) :
     GroupOf(m[1]) = g /\ m[2] <= subscriptions[m[1]]}

(* What kafkajs makes of a group.  The member that leads it deals out the  *)
(* partitions of its own topic, to all members in turn, and a member drops *)
(* what is not of a topic of its own.  The rest is read by nobody.         *)
Deals(members) ==
  {deal \in [Partitions -> members] :
     \A m, n \in members : Cardinality({p \in Partitions : deal[p] = m})
                             <= Cardinality({p \in Partitions : deal[p] = n}) + 1}
Read(leader, deal) ==
  [l \in Lanes |-> IF /\ l[1] = Subscribed[leader[2]]
                      /\ l[1] = Subscribed[deal[l[2]][2]]
                   THEN deal[l[2]][1] ELSE None]
Assignments(members) ==
  IF members = {} THEN {[l \in Lanes |-> None]}
  ELSE {Read(leader, deal) : leader \in members, deal \in Deals(members)}

(* Group g is given a new assignment.  A lane is read again from its       *)
(* committed offset, or from its end.                                      *)
Rebalance(g, subscriptions) ==
  /\ \E assignment \in Assignments(MembersOf(g, subscriptions)) :
       owner' = [owner EXCEPT ![g] = assignment]
  /\ position' = [position EXCEPT ![g] = [l \in Lanes |->
                    IF owner'[g][l] = None THEN 0
                    ELSE IF committed[g][l] = NoOffset THEN length[l] ELSE committed[g][l]]]
  /\ UNCHANGED committed

(* The next `await bus.subscribe(...)` of onModuleInit(): one more         *)
(* consumer joins the group.                                               *)
Subscribe(r) ==
  /\ ~Up(r)
  /\ Topic(Subscribed[subscribed[r] + 1]) \in existing
  /\ subscribed' = [subscribed EXCEPT ![r] = @ + 1]
  /\ Rebalance(GroupOf(r), subscribed')
  /\ upSince' = IF subscribed'[r] = Len(Subscribed)
                THEN [upSince EXCEPT ![r] = length] ELSE upSince
  /\ UNCHANGED <<length, pid, clients, crashes, emitted, due>>

(* The process ends and its connections close.  The group notices after    *)
(* the session timeout at the latest, which only delays what follows.      *)
Leave(r) ==
  /\ subscribed' = [subscribed EXCEPT ![r] = 0]
  /\ Rebalance(GroupOf(r), subscribed')
  /\ viewing' = [c \in Clients |-> IF viewing[c] = r THEN None ELSE viewing[c]]
  /\ due' = {d \in due : viewing[d[1]] # r}
  /\ upSince' = [upSince EXCEPT ![r] = [l \in Lanes |-> 0]]
  /\ emitted' = [emitted EXCEPT ![r] = {}]
  /\ UNCHANGED <<length, pid, feed>>

(* The topic does not exist: subscribe() throws, and the boot fails.       *)
SubscribeThrows(r) ==
  /\ ~Up(r)
  /\ Topic(Subscribed[subscribed[r] + 1]) \notin existing
  /\ Leave(r)
  /\ UNCHANGED crashes

Crash(r) ==
  /\ subscribed[r] # 0 /\ crashes[r] < MaxCrashes[r]
  /\ crashes' = [crashes EXCEPT ![r] = @ + 1]
  /\ Leave(r)

(* A service that has booted publishes an event.  It is due to every       *)
(* browser connected to a replica that has a group of its own.             *)
Publish(l) ==
  /\ \E w \in Workers : boot[w] = "up"
  /\ Cardinality(UNION {{m} \X (1 .. length[m]) : m \in Lanes}) < MaxEvents
  /\ length' = [length EXCEPT ![l] = @ + 1]
  /\ due' = due \cup {<<c, <<l, length'[l]>>>> :
              c \in {d \in Clients : viewing[d] # None /\ ~Shared(viewing[d])}}
  /\ UNCHANGED <<pid, subscribed, groups, clients, crashes, upSince, emitted>>

(* The handler: subject.next() pushes the event to every browser connected *)
(* to the replica, whose feed prepends it and drops its oldest rows.       *)
Prepend(event, rows) ==
  SubSeq(<<event>> \o rows, 1, IF Len(rows) < FeedSize THEN Len(rows) + 1 ELSE FeedSize)
Emit(r, l) ==
  LET g == GroupOf(r)
      event == <<l, position[g][l] + 1>>
  IN  /\ owner[g][l] = r /\ position[g][l] < length[l]
      /\ position' = [position EXCEPT ![g][l] = @ + 1]
      /\ emitted' = [emitted EXCEPT ![r] = @ \cup {event}]
      /\ feed' = [c \in Clients |->
                    IF viewing[c] = r THEN Prepend(event, feed[c]) ELSE feed[c]]
      /\ due' = due \ {<<c, event>> : c \in {d \in Clients : viewing[d] = r}}
      /\ UNCHANGED <<length, pid, subscribed, owner, committed, viewing, crashes,
                     upSince>>

Commit(g, l) ==
  /\ committed[g][l] < position[g][l]
  /\ owner[g][l] # None /\ <<l, position[g][l]>> \in emitted[owner[g][l]]
  /\ committed' = [committed EXCEPT ![g][l] = position[g][l]]
  /\ UNCHANGED <<length, pid, subscribed, owner, position, clients, crashes, upSince,
                 emitted, due>>

(* The EventSource connects, again if it must, to any replica that serves; *)
(* the feed stays.                                                         *)
Connect(c, r) ==
  /\ viewing[c] = None /\ Up(r)
  /\ viewing' = [viewing EXCEPT ![c] = r]
  /\ UNCHANGED <<length, pid, subscribed, groups, feed, crashes, upSince,
                 emitted, due>>

Disconnect(c) ==
  /\ viewing[c] # None
  /\ viewing' = [viewing EXCEPT ![c] = None]
  /\ due' = {d \in due : d[1] # c}
  /\ UNCHANGED <<length, pid, subscribed, groups, feed, crashes, upSince, emitted>>

StreamNext ==
  \/ \E r \in Replicas : \/ Subscribe(r) \/ SubscribeThrows(r) \/ Crash(r)
                         \/ \E l \in Lanes : Emit(r, l)
                         \/ \E c \in Clients : Connect(c, r)
  \/ \E l \in Lanes : Publish(l) \/ \E g \in Groups : Commit(g, l)
  \/ \E c \in Clients : Disconnect(c)

Next == \/ ProvisionNext /\ UNCHANGED stream
        \/ StreamNext /\ UNCHANGED provisioning

Spec == Init /\ [][Next]_vars
(* A worker that boots goes on; so does a replica, which is restarted when *)
(* it ends; its consumers keep polling, whichever of its lanes come first. *)
FairSpec ==
  /\ Spec
  /\ \A w \in Workers : WF_vars(Provision(w) /\ UNCHANGED stream)
  /\ \A r \in Replicas :
       /\ WF_vars((Subscribe(r) \/ SubscribeThrows(r)) /\ UNCHANGED provisioning)
       /\ WF_vars((\E l \in Lanes : Emit(r, l)) /\ UNCHANGED provisioning)
-----------------------------------------------------------------------------
(* A replica that is up, and whose group no other replica has shared since *)
(* it booted, has pushed every event its group has got past since then:    *)
(* none is skipped by the assignments and commits of the other groups.     *)
LoneReplicaSeesEveryEvent ==
  \A r \in Replicas : Up(r) /\ ~Shared(r) =>
    \A l \in Lanes : \A o \in upSince[r][l] + 1 .. position[GroupOf(r)][l] :
      <<l, o>> \in emitted[r]

(* An event published while a browser is connected to such a replica       *)
(* reaches that browser's feed, unless it disconnects or the replica dies  *)
(* first, or the lane is one that the group of the replica does not read.  *)
LiveFeedIsLive ==
  \A c \in Clients, l \in Lanes, o \in 1 .. MaxEvents :
    (<<c, <<l, o>>>> \in due)
      ~> \/ <<c, <<l, o>>>> \notin due
         \/ viewing[c] # None /\ owner[GroupOf(viewing[c])][l] = None

(* The API subscribes to topics it does not create and starts over until   *)
(* they exist: whatever boots fail, all services and replicas are up in    *)
(* the end.                                                                *)
EverybodyBoots ==
  <>[]((\A w \in Workers : boot[w] = "up") /\ \A r \in Replicas : Up(r))

(* live-stream.service.ts:30: "A unique group per instance: every API      *)
(* replica sees every event": of the events its group gets past, with only *)
(* one topic subscribed, so that one consumer does not starve another.     *)
EveryReplicaSeesEveryEvent ==
  \A r \in Replicas : Up(r) =>
    \A l \in Lanes : \A o \in upSince[r][l] + 1 .. position[GroupOf(r)][l] :
      <<l, o>> \in emitted[r]
=============================================================================
