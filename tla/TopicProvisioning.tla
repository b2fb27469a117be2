------------------------- MODULE TopicProvisioning -------------------------
(***************************************************************************)
(* KafkaBus.ensureTopics() (packages/event-contracts/src/bus.ts), which    *)
(* every worker service awaits at boot before it subscribes: list the      *)
(* topics, and ask the broker for those that are missing, each with its    *)
(* dead-letter topic.                                                      *)
(*                                                                         *)
(* A request names topics, and the broker creates them one at a time, in   *)
(* the order of the request.  What another service created first counts as *)
(* done: kafkajs returns normally when every error is that a topic exists  *)
(* already.  Any other error, or the death of the process, ends the boot,  *)
(* and the service is started again.                                       *)
(***************************************************************************)
EXTENDS Integers, Sequences

CONSTANTS
  TopicSpecs, \* TOPIC_SPECS, the topics the platform declares
  Workers,    \* the services that provision at boot
  MaxFaults   \* bound, for each service: boots that end amid a request

ASSUME ProvisioningAssumption == MaxFaults \in [Workers -> Nat]

Topics == {TopicSpecs[i] : i \in 1 .. Len(TopicSpecs)}

(* dlqTopic(): the dead-letter topic of t.                                 *)
DlqTopic(t) == <<t, "dlq">>
Topic(t) == <<t, "topic">>
Names == {Topic(t) : t \in Topics} \cup {DlqTopic(t) : t \in Topics}

VARIABLES
  existing,   \* the topics the broker has
  boot,       \* boot[w]: down, creating or up
  request,    \* request[w]: what the broker has still to create for w
  faults,
  \* History variable.
  cut         \* topics left without their dead-letter topic by a cut request

provisioning == <<existing, boot, request, faults, cut>>

ProvisionInit ==
  /\ existing = {}
  /\ boot = [w \in Workers |-> "down"]
  /\ request = [w \in Workers |-> {}]
  /\ faults = [w \in Workers |-> 0]
  /\ cut = {}

(* The topics that are not listed, each followed by its dead-letter topic. *)
MissingUnlessAny ==         \* mutated form: a broker that has topics has them all
  IF existing # {} THEN {} ELSE Names
Missing ==
  UNION {{Topic(t), DlqTopic(t)} : t \in {u \in Topics : Topic(u) \notin existing}}

(* listTopics(), and createTopics() if anything is missing.                *)
List(w) ==
  /\ boot[w] = "down"
  /\ request' = [request EXCEPT ![w] = Missing]
  /\ boot' = [boot EXCEPT ![w] = IF Missing = {} THEN "up" ELSE "creating"]
  /\ UNCHANGED <<existing, faults, cut>>

(* The names a request starts with: those of its first topic.              *)
Rank(t) == CHOOSE i \in 1 .. Len(TopicSpecs) : TopicSpecs[i] = t
Leading(names) == {n \in names : \A m \in names : Rank(n[1]) <= Rank(m[1])}

(* The broker creates the next topic of the request, or finds it existing; *)
(* a dead-letter topic comes after its topic.                              *)
Create(w) ==
  \E name \in Leading(request[w]) :
    /\ name = Topic(name[1]) \/ Topic(name[1]) \notin request[w]
    /\ existing' = existing \cup {name}
    /\ request' = [request EXCEPT ![w] = @ \ {name}]
    /\ UNCHANGED <<boot, faults, cut>>

(* Mutated form: the boot does not wait for the request.                   *)
CreatedUnawaited(w) ==
  /\ boot[w] = "creating"
  /\ boot' = [boot EXCEPT ![w] = "up"]
  /\ UNCHANGED <<existing, request, faults, cut>>
(* createTopics() returns once every topic of the request has a leader.    *)
Created(w) ==
  /\ boot[w] = "creating" /\ request[w] = {}
  /\ boot' = [boot EXCEPT ![w] = "up"]
  /\ UNCHANGED <<existing, request, faults, cut>>

(* The request is cut short and the boot fails.                            *)
BootFails(w) ==
  /\ boot[w] = "creating" /\ faults[w] < MaxFaults[w]
  /\ faults' = [faults EXCEPT ![w] = @ + 1]
  /\ boot' = [boot EXCEPT ![w] = "down"]
  /\ request' = [request EXCEPT ![w] = {}]
  /\ cut' = cut \cup {t \in Topics : DlqTopic(t) \in request[w]}
  /\ UNCHANGED existing

ProvisionNext ==
  \E w \in Workers : List(w) \/ Create(w) \/ Created(w) \/ BootFails(w)

ProvisionSpec == ProvisionInit /\ [][ProvisionNext]_provisioning

(* The steps of a boot that goes on.                                       *)
Provision(w) == List(w) \/ Create(w) \/ Created(w)
-----------------------------------------------------------------------------
ProvisionTypeOK ==
  /\ existing \subseteq Names
  /\ boot \in [Workers -> {"down", "creating", "up"}]
  /\ request \in [Workers -> SUBSET Names]
  /\ faults \in [Workers -> Nat] /\ \A w \in Workers : faults[w] <= MaxFaults[w]
  /\ cut \subseteq Topics

(* A service that has booted finds every topic of the platform, whoever    *)
(* raced it and whichever boot failed.  Its dead-letter topic exists too,  *)
(* is about to be created for another service that booted at the same      *)
(* time, or was in a request that was cut short: later boots list the      *)
(* topic and never create the dead-letter topic that it lacks.             *)
ProvisionedOnceUp ==
  (\E w \in Workers : boot[w] = "up") =>
    \A t \in Topics :
      /\ Topic(t) \in existing
      /\ \/ DlqTopic(t) \in existing
         \/ \E v \in Workers : DlqTopic(t) \in request[v]
         \/ t \in cut
=============================================================================
