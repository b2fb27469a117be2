------------------------------ MODULE KafkaBus ------------------------------
(***************************************************************************)
(* The KafkaBus of one process (packages/event-contracts/src/bus.ts) and   *)
(* the part of kafkajs and the broker it relies on: one consumer per       *)
(* subscribed topic, each with its own position and committed offset, all  *)
(* of them members of one group; one producer shared by every handler and  *)
(* by deadLetter(), created by whichever sends first.                      *)
(*                                                                         *)
(* A message is only its kind: one that decodes, one that violates the     *)
(* contract (or is null), and one that is not JSON.  A handler publishes   *)
(* one message or none, and may throw at any point.  The process may       *)
(* crash, a send may be acknowledged too late and be retried, and          *)
(* deadLetter() may itself fail, in which case kafkajs runs eachMessage    *)
(* again for the same message.                                             *)
(***************************************************************************)
EXTENDS Integers, Sequences, FiniteSets

CONSTANTS
  Topics,       \* the topics this process subscribes to
  MaxMessages,  \* bound: messages in all topics together
  MaxFaults,    \* bound: handlers that throw, sends that fail or are retried
  MaxCrashes    \* bound: crashes of the process

ASSUME BusAssumption ==
  MaxMessages \in Nat /\ MaxFaults \in Nat /\ MaxCrashes \in Nat

Kinds == {"valid", "contract", "garbage"}
NoOffset == -1

VARIABLES
  log,        \* log[t]: the messages of topic t
  phase,      \* phase[t]: what the consumer of t is doing
  assigned,   \* the topics that the group lets their consumer read
  position,   \* position[t]: the messages it has finished with, while it reads
  committed,  \* committed[t]: the offset its group has committed
  error,      \* error[t]: the x-error-kind of the message being dead-lettered
  dlq,        \* dlq[t]: <<offset, x-error-kind>> of the messages of t.dlq
  producer,   \* the shared producer: none yet, idempotent or plain
  out,        \* the messages handlers have published, by topic and offset
  retried,    \* whether the last send of the handler of t was retried
  faults, crashes,
  \* History variables.
  first,      \* first[t]: the end of the topic when the group first read it
  start,      \* start[t]: ... and when it last began with nothing committed
  handled     \* handled[t]: the offsets whose handler returned

consumer == <<phase, assigned, position, committed, error>>
history  == <<first, start, handled>>
vars == <<log, consumer, dlq, producer, out, retried, faults, crashes, history>>

Init ==
  /\ log = [t \in Topics |-> <<>>]
  /\ phase = [t \in Topics |-> "down"]
  /\ assigned = {}
  /\ position = [t \in Topics |-> 0]
  /\ committed = [t \in Topics |-> NoOffset]
  /\ error = [t \in Topics |-> "none"]
  /\ dlq = [t \in Topics |-> {}]
  /\ producer = "none"
  /\ out = <<>>
  /\ retried = [t \in Topics |-> FALSE]
  /\ faults = 0 /\ crashes = 0
  /\ first = [t \in Topics |-> NoOffset]
  /\ start = [t \in Topics |-> 0]
  /\ handled = [t \in Topics |-> {}]

(* Another process publishes on t.                                         *)
Messages == UNION {{t} \X (1 .. Len(log[t])) : t \in Topics}

Arrive(t, kind) ==
  /\ Cardinality(Messages) < MaxMessages
  /\ log' = [log EXCEPT ![t] = Append(@, kind)]
  /\ UNCHANGED <<consumer, dlq, producer, out, retried, faults, crashes, history>>

(* What kafkajs makes of a group.  The member that leads it assigns the    *)
(* partitions of the topics it subscribes to itself, and deals them out to *)
(* all members; a member drops what is not of a topic of its own.  So the  *)
(* topic of the leader is read, or not even that, and no other one.        *)
Members == {t \in Topics : phase[t] # "down"}
Assignments(members) ==
  IF Cardinality(members) = 1 THEN {members} ELSE {{}} \cup {{t} : t \in members}

(* Who is given a topic starts at what the group has committed.  With      *)
(* nothing committed, fromBeginning false means the end of the topic.      *)
Rebalance(members) ==
  /\ assigned' \in Assignments(members)
  /\ position' = [t \in Topics |->
       IF t \notin assigned' THEN 0
       ELSE IF committed[t] = NoOffset THEN Len(log[t]) ELSE committed[t]]
  /\ start' = [t \in Topics |->
       IF t \in assigned' /\ committed[t] = NoOffset THEN Len(log[t]) ELSE start[t]]
  /\ first' = [t \in Topics |->
       IF t \in assigned' /\ first[t] = NoOffset THEN Len(log[t]) ELSE first[t]]

(* subscribe(): one more consumer joins the group of the bus, which waits  *)
(* for the handlers of the others before it assigns anew.                  *)
Join(t) ==
  /\ phase[t] = "down" /\ \A u \in Members : phase[u] = "idle"
  /\ phase' = [phase EXCEPT ![t] = "idle"]
  /\ Rebalance(Members \cup {t})
  /\ UNCHANGED <<log, committed, error, dlq, producer, out, retried, faults,
                 crashes, handled>>

(* decode(): what is not an event of the contract throws before the        *)
(* handler runs.  JSON.parse throws a SyntaxError, which is not a          *)
(* ContractViolationError and counts as a failure of the handler.          *)
KindItself(kind) == kind    \* mutated form of ErrorKind
ErrorKind(kind) == IF kind = "contract" THEN "contract" ELSE "handler"

(* Mutated form: the handler is given the message before it is validated.  *)
DeliverUnchecked(t) ==
  /\ phase[t] = "idle" /\ t \in assigned /\ position[t] < Len(log[t])
  /\ phase' = [phase EXCEPT ![t] = "handling"]
  /\ UNCHANGED <<log, assigned, position, committed, error, dlq, producer, out,
                 retried, faults, crashes, history>>

Deliver(t) ==
  /\ phase[t] = "idle" /\ t \in assigned /\ position[t] < Len(log[t])
  /\ LET kind == log[t][position[t] + 1]
     IN  IF kind = "valid"
         THEN /\ phase' = [phase EXCEPT ![t] = "handling"]
              /\ UNCHANGED error
         ELSE /\ phase' = [phase EXCEPT ![t] = "failed"]
              /\ error' = [error EXCEPT ![t] = ErrorKind(kind)]
  /\ UNCHANGED <<log, assigned, position, committed, dlq, producer, out, retried,
                 faults, crashes, history>>

(* publish(), called by the handler: the producer is created if there is   *)
(* none, idempotent, and the broker stores the message.                    *)
HandlerPublishes(t) ==
  /\ phase[t] = "handling"
  /\ phase' = [phase EXCEPT ![t] = "published"]
  /\ producer' = IF producer = "none" THEN "idempotent" ELSE producer
  /\ out' = Append(out, <<t, position[t] + 1>>)
  /\ UNCHANGED <<log, assigned, position, committed, error, dlq, retried, faults,
                 crashes, history>>

(* The acknowledgement is late and kafkajs sends again: the broker drops   *)
(* the second copy only when the producer is idempotent.                   *)
RetrySend(t) ==
  /\ phase[t] = "published" /\ ~retried[t] /\ faults < MaxFaults
  /\ faults' = faults + 1
  /\ retried' = [retried EXCEPT ![t] = TRUE]
  /\ IF producer = "idempotent"
     THEN UNCHANGED out
     ELSE out' = Append(out, <<t, position[t] + 1>>)
  /\ UNCHANGED <<log, consumer, dlq, producer, crashes, history>>

(* eachMessage ends without an error: the offset is resolved.              *)
HandlerReturns(t) ==
  /\ phase[t] \in {"handling", "published"}
  /\ phase' = [phase EXCEPT ![t] = "idle"]
  /\ position' = [position EXCEPT ![t] = @ + 1]
  /\ retried' = [retried EXCEPT ![t] = FALSE]
  /\ handled' = [handled EXCEPT ![t] = @ \cup {position[t] + 1}]
  /\ UNCHANGED <<log, assigned, committed, error, dlq, producer, out, faults,
                 crashes, first, start>>

HandlerThrows(t) ==
  /\ phase[t] \in {"handling", "published"} /\ faults < MaxFaults
  /\ faults' = faults + 1
  /\ phase' = [phase EXCEPT ![t] = "failed"]
  /\ error' = [error EXCEPT ![t] = "handler"]
  /\ retried' = [retried EXCEPT ![t] = FALSE]
  /\ UNCHANGED <<log, assigned, position, committed, dlq, producer, out, crashes,
                 history>>

(* The producer deadLetter() uses: the shared one, or a new one that is    *)
(* not idempotent.                                                         *)
ProducerOfDeadLetter == IF producer = "none" THEN "plain" ELSE producer

(* Mutated forms of DeadLetter: the error is swallowed without a dead      *)
(* letter; the message is dead-lettered and then thrown again; whatever    *)
(* failed counts as a broken contract.                                     *)
SwallowError(t) ==
  /\ phase[t] = "failed"
  /\ producer' = ProducerOfDeadLetter
  /\ phase' = [phase EXCEPT ![t] = "idle"]
  /\ error' = [error EXCEPT ![t] = "none"]
  /\ position' = [position EXCEPT ![t] = @ + 1]
  /\ UNCHANGED <<log, assigned, committed, out, retried, faults, crashes, history, dlq>>
DeadLetterAndRethrow(t) ==
  /\ phase[t] = "failed"
  /\ producer' = ProducerOfDeadLetter
  /\ dlq' = [dlq EXCEPT ![t] = @ \cup {<<position[t] + 1, error[t]>>}]
  /\ phase' = [phase EXCEPT ![t] = "idle"]
  /\ error' = [error EXCEPT ![t] = "none"]
  /\ UNCHANGED <<log, assigned, position, committed, out, retried, faults, crashes,
                 history>>
DeadLetterLastError(t) ==
  /\ phase[t] = "failed"
  /\ producer' = ProducerOfDeadLetter
  /\ dlq' = [dlq EXCEPT ![t] = @ \cup {<<position[t] + 1, "contract">>}]
  /\ phase' = [phase EXCEPT ![t] = "idle"]
  /\ error' = [error EXCEPT ![t] = "none"]
  /\ position' = [position EXCEPT ![t] = @ + 1]
  /\ UNCHANGED <<log, assigned, committed, out, retried, faults, crashes, history>>

(* The catch block: the message goes to t.dlq, eachMessage ends normally   *)
(* and the offset is resolved.                                             *)
DeadLetter(t) ==
  /\ phase[t] = "failed"
  /\ producer' = ProducerOfDeadLetter
  /\ dlq' = [dlq EXCEPT ![t] = @ \cup {<<position[t] + 1, error[t]>>}]
  /\ phase' = [phase EXCEPT ![t] = "idle"]
  /\ error' = [error EXCEPT ![t] = "none"]
  /\ position' = [position EXCEPT ![t] = @ + 1]
  /\ UNCHANGED <<log, assigned, committed, out, retried, faults, crashes, history>>

(* deadLetter() throws: eachMessage runs again for the same message.       *)
DeadLetterThrows(t) ==
  /\ phase[t] = "failed" /\ faults < MaxFaults
  /\ faults' = faults + 1
  /\ producer' = ProducerOfDeadLetter
  /\ phase' = [phase EXCEPT ![t] = "idle"]
  /\ error' = [error EXCEPT ![t] = "none"]
  /\ UNCHANGED <<log, assigned, position, committed, dlq, out, retried, crashes,
                 history>>

(* Mutated form of Commit: what was delivered is committed.                *)
CommitDelivered(t) ==
  /\ t \in assigned /\ committed[t] < position[t] + (IF phase[t] = "idle" THEN 0 ELSE 1)
  /\ position[t] + (IF phase[t] = "idle" THEN 0 ELSE 1) > start[t]
  /\ committed' = [committed EXCEPT ![t] =
                     position[t] + (IF phase[t] = "idle" THEN 0 ELSE 1)]
  /\ UNCHANGED <<log, phase, assigned, position, error, dlq, producer, out, retried,
                 faults, crashes, history>>

(* autoCommit: kafkajs commits what is resolved, in the background.        *)
Commit(t) ==
  /\ t \in assigned /\ committed[t] < position[t] /\ position[t] > start[t]
  /\ committed' = [committed EXCEPT ![t] = position[t]]
  /\ UNCHANGED <<log, phase, assigned, position, error, dlq, producer, out, retried,
                 faults, crashes, history>>

(* The process dies and is restarted: the producer and every consumer go.  *)
Crash ==
  /\ crashes < MaxCrashes
  /\ crashes' = crashes + 1
  /\ phase' = [t \in Topics |-> "down"]
  /\ assigned' = {}
  /\ position' = [t \in Topics |-> 0]
  /\ error' = [t \in Topics |-> "none"]
  /\ retried' = [t \in Topics |-> FALSE]
  /\ producer' = "none"
  /\ UNCHANGED <<log, committed, dlq, out, faults, history>>

(* The steps of a consumer that runs.                                      *)
Consume(t) ==
  Join(t) \/ Deliver(t) \/ HandlerPublishes(t) \/ HandlerReturns(t) \/ DeadLetter(t)

Next ==
  \/ \E t \in Topics :
       \/ \E kind \in Kinds : Arrive(t, kind)
       \/ Join(t) \/ Deliver(t) \/ HandlerPublishes(t) \/ RetrySend(t)
       \/ HandlerReturns(t) \/ HandlerThrows(t)
       \/ DeadLetter(t) \/ DeadLetterThrows(t) \/ Commit(t)
  \/ Crash

Spec == Init /\ [][Next]_vars

(* A consumer keeps polling what it was given to read, a handler returns   *)
(* or throws, and a send ends.                                             *)
FairSpec == Spec /\ \A t \in Topics : WF_vars(Consume(t))
-----------------------------------------------------------------------------
DeadLettered(t) == {entry[1] : entry \in dlq[t]}
Settled(t) == handled[t] \cup DeadLettered(t)

TypeOK ==
  /\ log \in [Topics -> Seq(Kinds)]
  /\ phase \in [Topics -> {"down", "idle", "handling", "published", "failed"}]
  /\ assigned \subseteq Topics
  /\ position \in [Topics -> Nat]
  /\ committed \in [Topics -> Nat \cup {NoOffset}]
  /\ error \in [Topics -> {"none", "contract", "handler"}]
  /\ dlq \in [Topics -> SUBSET (Nat \X {"none", "contract", "handler"})]
  /\ producer \in {"none", "idempotent", "plain"}
  /\ out \in Seq(Topics \X Nat)
  /\ retried \in [Topics -> BOOLEAN]
  /\ faults \in 0 .. MaxFaults /\ crashes \in 0 .. MaxCrashes
  /\ first \in [Topics -> Nat \cup {NoOffset}]
  /\ start \in [Topics -> Nat]
  /\ handled \in [Topics -> SUBSET Nat]

(* Once the group has committed, no message from where it started to the   *)
(* committed offset is unaccounted for: its handler returned or it is in   *)
(* the dead-letter topic, whatever crashed or threw.                       *)
NothingSkippedOnceCommitted ==
  \A t \in Topics : committed[t] # NoOffset =>
    \A o \in start[t] + 1 .. committed[t] : o \in Settled(t)

(* What the x-error-kind of a dead letter says of its own message, whoever *)
(* else failed before it: "contract" that it is JSON that violates the     *)
(* schema, or null; "handler" that its handler threw, or that it is no     *)
(* JSON at all.  The second half of that is not what serialization.ts:19   *)
(* says, "Invalid messages are surfaced as ContractViolationError".        *)
DeadLettersNameTheFault ==
  \A t \in Topics : \A entry \in dlq[t] :
    /\ entry[1] \in 1 .. Len(log[t])
    /\ \/ entry[2] = "contract" /\ log[t][entry[1]] = "contract"
       \/ entry[2] = "handler" /\ log[t][entry[1]] \in {"valid", "garbage"}

(* The outcome of a message is its own: what a handler publishes is on     *)
(* behalf of a message that decodes, never of one that was rejected.       *)
OnlyValidMessagesHaveEffects ==
  \A i \in 1 .. Len(out) : log[out[i][1]][out[i][2]] = "valid"

(* bus.ts:90-93: a payload that violates the contract cannot stall a       *)
(* partition, nor can a failing handler: a consumer that is left with its  *)
(* topic gets past every message.                                          *)
NoPartitionStalls ==
  \A t \in Topics : <>[](t \in assigned) =>
    \A o \in 1 .. MaxMessages : (Len(log[t]) >= o) ~> (position[t] >= o)

(* Every subscription keeps the promise of SubscriptionDelivery.           *)
Delivery(t) == INSTANCE SubscriptionDelivery
  WITH length <- Len(log[t]), start <- start[t],
       committed <- committed[t], settled <- Settled(t)

KeepsDelivery ==
  /\ \A t \in Topics : Delivery(t)!Init
  /\ [][\A t \in Topics : [Delivery(t)!Next]_(Delivery(t)!vars)]_vars

(* bus.ts:25: "at-least-once delivery semantics with manual commit on      *)
(* success".  Every message that arrives once the group reads the topic is *)
(* settled before the consumer is past it.                                 *)
AtLeastOnce ==
  \A t \in assigned : \A o \in first[t] + 1 .. position[t] : o \in Settled(t)
=============================================================================
