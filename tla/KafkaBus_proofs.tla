-------------------------- MODULE KafkaBus_proofs --------------------------
(***************************************************************************)
(* Proofs about KafkaBus for any topics and any number of messages, faults *)
(* and crashes: types, the fate of every message, and the refinement of    *)
(* SubscriptionDelivery.                                                   *)
(***************************************************************************)
EXTENDS KafkaBus, TLAPS, SequenceTheorems

(* Appending keeps what is there.                                          *)
LEMMA AppendKeeps ==
  ASSUME NEW S, NEW s \in Seq(S), NEW e \in S
  PROVE  /\ Append(s, e) \in Seq(S)
         /\ Len(s) \in Nat /\ Len(Append(s, e)) = Len(s) + 1
         /\ \A i \in 1 .. Len(s) : Append(s, e)[i] = s[i]
         /\ Append(s, e)[Len(s) + 1] = e
BY AppendProperties, LenProperties

(* A rebalance assigns topics of this bus, and whoever is given one starts *)
(* at the committed offset, or at the end of the topic if there is none.   *)
LEMMA RebalanceStarts ==
  ASSUME TypeOK, NEW members \in SUBSET Topics, Rebalance(members)
  PROVE  /\ assigned' \subseteq Topics
         /\ position' \in [Topics -> Nat] /\ start' \in [Topics -> Nat]
         /\ first' \in [Topics -> Nat \cup {NoOffset}]
         /\ \A u \in Topics :
              \/ /\ u \in assigned' /\ committed[u] = NoOffset
                 /\ position'[u] = Len(log[u]) /\ start'[u] = Len(log[u])
              \/ /\ u \in assigned' /\ committed[u] # NoOffset
                 /\ position'[u] = committed[u] /\ start'[u] = start[u]
              \/ u \notin assigned' /\ start'[u] = start[u]
<1>1. \A u \in Topics : Len(log[u]) \in Nat
  BY LenProperties DEF TypeOK
<1>2. assigned' \subseteq Topics
  BY DEF Rebalance, Assignments
<1>3. \A u \in Topics : committed[u] \in Nat \cup {NoOffset}
                        /\ start[u] \in Nat /\ first[u] \in Nat \cup {NoOffset}
  BY DEF TypeOK
<1>4. position' \in [Topics -> Nat]
  BY <1>1, <1>3 DEF Rebalance
<1>5. start' \in [Topics -> Nat]
  BY <1>1, <1>3 DEF Rebalance
<1>6. first' \in [Topics -> Nat \cup {NoOffset}]
  BY <1>1, <1>3 DEF Rebalance
<1>7. ASSUME NEW u \in Topics
      PROVE  \/ /\ u \in assigned' /\ committed[u] = NoOffset
                /\ position'[u] = Len(log[u]) /\ start'[u] = Len(log[u])
             \/ /\ u \in assigned' /\ committed[u] # NoOffset
                /\ position'[u] = committed[u] /\ start'[u] = start[u]
             \/ u \notin assigned' /\ start'[u] = start[u]
  BY DEF Rebalance
<1>. QED
  BY <1>2, <1>4, <1>5, <1>6, <1>7
-----------------------------------------------------------------------------
LEMMA TypingInit == Init => TypeOK
<1>. SUFFICES ASSUME Init PROVE TypeOK
  OBVIOUS
<1>1. faults \in 0 .. MaxFaults /\ crashes \in 0 .. MaxCrashes
  BY BusAssumption DEF Init
<1>2. <<>> \in Seq(Kinds) /\ <<>> \in Seq(Topics \X Nat)
  BY EmptySeq
<1>3. retried \in [Topics -> BOOLEAN]
  BY DEF Init
<1>. QED
  BY <1>1, <1>2, <1>3 DEF Init, TypeOK, NoOffset

LEMMA TypingStep == TypeOK /\ [Next]_vars => TypeOK'
<1>. SUFFICES ASSUME TypeOK, [Next]_vars PROVE TypeOK'
  OBVIOUS
<1>. USE BusAssumption DEF consumer, history
<1>1. ASSUME NEW t \in Topics, NEW kind \in Kinds, Arrive(t, kind) PROVE TypeOK'
  BY <1>1, AppendProperties DEF Arrive, TypeOK
<1>2. ASSUME NEW t \in Topics, Join(t) PROVE TypeOK'
  <2>1. phase' \in [Topics -> {"down", "idle", "handling", "published", "failed"}]
    BY <1>2 DEF Join, TypeOK
  <2>2. /\ assigned' \subseteq Topics
        /\ position' \in [Topics -> Nat] /\ start' \in [Topics -> Nat]
        /\ first' \in [Topics -> Nat \cup {NoOffset}]
    <3>1. Members \cup {t} \in SUBSET Topics
      BY DEF Members
    <3>. QED
      BY <1>2, <3>1, RebalanceStarts DEF Join
  <2>. QED
    BY <1>2, <2>1, <2>2 DEF Join, TypeOK
<1>3. ASSUME NEW t \in Topics, Deliver(t) PROVE TypeOK'
  BY <1>3 DEF Deliver, ErrorKind, TypeOK
<1>4. ASSUME NEW t \in Topics, HandlerPublishes(t) PROVE TypeOK'
  <2>1. Append(out, <<t, position[t] + 1>>) \in Seq(Topics \X Nat)
    <3>1. <<t, position[t] + 1>> \in Topics \X Nat
      BY DEF TypeOK
    <3>. QED
      BY <3>1, AppendProperties DEF TypeOK
  <2>. QED
    BY <1>4, <2>1 DEF HandlerPublishes, TypeOK
<1>5. ASSUME NEW t \in Topics, RetrySend(t) PROVE TypeOK'
  <2>1. Append(out, <<t, position[t] + 1>>) \in Seq(Topics \X Nat)
    <3>1. <<t, position[t] + 1>> \in Topics \X Nat
      BY DEF TypeOK
    <3>. QED
      BY <3>1, AppendProperties DEF TypeOK
  <2>2. faults' \in 0 .. MaxFaults
    BY <1>5 DEF RetrySend, TypeOK
  <2>3. retried' \in [Topics -> BOOLEAN]
    BY <1>5 DEF RetrySend, TypeOK
  <2>4. out' \in Seq(Topics \X Nat)
    BY <1>5, <2>1 DEF RetrySend, TypeOK
  <2>. QED
    BY <1>5, <2>2, <2>3, <2>4 DEF RetrySend, TypeOK
<1>6. ASSUME NEW t \in Topics, HandlerReturns(t) PROVE TypeOK'
  BY <1>6 DEF HandlerReturns, TypeOK
<1>7. ASSUME NEW t \in Topics, HandlerThrows(t) PROVE TypeOK'
  <2>1. faults' \in 0 .. MaxFaults
    BY <1>7 DEF HandlerThrows, TypeOK
  <2>2. retried' \in [Topics -> BOOLEAN]
    BY <1>7 DEF HandlerThrows, TypeOK
  <2>. QED
    BY <1>7, <2>1, <2>2 DEF HandlerThrows, TypeOK
<1>8. ASSUME NEW t \in Topics, DeadLetter(t) PROVE TypeOK'
  <2>1. <<position[t] + 1, error[t]>> \in Nat \X {"none", "contract", "handler"}
    BY DEF TypeOK
  <2>2. dlq' \in [Topics -> SUBSET (Nat \X {"none", "contract", "handler"})]
    BY <1>8, <2>1 DEF DeadLetter, TypeOK
  <2>3. producer' \in {"none", "idempotent", "plain"}
    BY <1>8 DEF DeadLetter, ProducerOfDeadLetter, TypeOK
  <2>. QED
    BY <1>8, <2>2, <2>3 DEF DeadLetter, TypeOK
<1>9. ASSUME NEW t \in Topics, DeadLetterThrows(t) PROVE TypeOK'
  <2>1. faults' \in 0 .. MaxFaults
    BY <1>9 DEF DeadLetterThrows, TypeOK
  <2>2. producer' \in {"none", "idempotent", "plain"}
    BY <1>9 DEF DeadLetterThrows, ProducerOfDeadLetter, TypeOK
  <2>. QED
    BY <1>9, <2>1, <2>2 DEF DeadLetterThrows, TypeOK
<1>10. ASSUME NEW t \in Topics, Commit(t) PROVE TypeOK'
  BY <1>10 DEF Commit, TypeOK
<1>11. ASSUME Crash PROVE TypeOK'
  BY <1>11 DEF Crash, TypeOK
<1>12. CASE UNCHANGED vars
  BY <1>12 DEF vars, TypeOK
<1>. QED
  BY <1>1, <1>2, <1>3, <1>4, <1>5, <1>6, <1>7, <1>8, <1>9, <1>10, <1>11, <1>12
  DEF Next

(* Type correctness, for every instance.                                   *)
THEOREM TypeCorrect == Spec => []TypeOK
BY TypingInit, TypingStep, PTL DEF Spec
-----------------------------------------------------------------------------
(* The message a consumer works on is the one after its position, of a     *)
(* topic it was given, and what it is doing agrees with the kind of that   *)
(* message.                                                                *)
Working(t) ==
  /\ phase[t] \in {"handling", "published", "failed"} => t \in assigned
  /\ phase[t] \in {"handling", "published"} =>
       position[t] < Len(log[t]) /\ log[t][position[t] + 1] = "valid"
  /\ phase[t] = "failed" =>
       /\ position[t] < Len(log[t])
       /\ \/ error[t] = "contract" /\ log[t][position[t] + 1] = "contract"
          \/ error[t] = "handler" /\ log[t][position[t] + 1] \in {"valid", "garbage"}

OutInv ==
  \A i \in 1 .. Len(out) :
    /\ out[i][2] \in 1 .. Len(log[out[i][1]])
    /\ log[out[i][1]][out[i][2]] = "valid"

EffectInv ==
  /\ \A t \in Topics : Working(t)
  /\ DeadLettersNameTheFault
  /\ OutInv

LEMMA EffectInit == Init => EffectInv
BY DEF Init, EffectInv, Working, DeadLettersNameTheFault, OutInv

(* A message, once in the log, stays what it is.                           *)
LEMMA ArriveKeepsLog ==
  ASSUME TypeOK, NEW t \in Topics, NEW kind \in Kinds, Arrive(t, kind)
  PROVE  \A u \in Topics : \A o \in 1 .. Len(log[u]) :
           o \in 1 .. Len(log'[u]) /\ log'[u][o] = log[u][o]
BY AppendKeeps DEF Arrive, TypeOK

LEMMA EffectStep == TypeOK /\ EffectInv /\ [Next]_vars => EffectInv'
<1>. SUFFICES ASSUME TypeOK, EffectInv, [Next]_vars PROVE EffectInv'
  OBVIOUS
<1>. USE DEF consumer, history
<1>0. /\ log \in [Topics -> Seq(Kinds)] /\ position \in [Topics -> Nat]
      /\ \A t \in Topics : Len(log[t]) \in Nat
      /\ phase \in [Topics -> {"down", "idle", "handling", "published", "failed"}]
      /\ error \in [Topics -> {"none", "contract", "handler"}]
      /\ dlq \in [Topics -> SUBSET (Nat \X {"none", "contract", "handler"})]
      /\ out \in Seq(Topics \X Nat) /\ Len(out) \in Nat
  BY LenProperties DEF TypeOK
<1>1. ASSUME NEW t \in Topics, NEW kind \in Kinds, Arrive(t, kind) PROVE EffectInv'
  <2>1. UNCHANGED <<phase, assigned, position, error, dlq, out>>
    BY <1>1 DEF Arrive
  <2>2. \A u \in Topics : \A o \in 1 .. Len(log[u]) :
           o \in 1 .. Len(log'[u]) /\ log'[u][o] = log[u][o]
    BY <1>1, ArriveKeepsLog
  <2>3. \A u \in Topics : Len(log'[u]) \in Nat
    BY <1>0, <1>1, AppendKeeps DEF Arrive
  <2>4. \A u \in Topics : Working(u)'
    <3>. SUFFICES ASSUME NEW u \in Topics PROVE Working(u)'
      OBVIOUS
    <3>1. Working(u)
      BY DEF EffectInv
    <3>2. position[u] < Len(log[u]) =>
             /\ position[u] < Len(log'[u])
             /\ log'[u][position[u] + 1] = log[u][position[u] + 1]
      <4>. SUFFICES ASSUME position[u] < Len(log[u])
                    PROVE  /\ position[u] < Len(log'[u])
                           /\ log'[u][position[u] + 1] = log[u][position[u] + 1]
        OBVIOUS
      <4>1. position[u] + 1 \in 1 .. Len(log[u])
        BY <1>0
      <4>. QED
        BY <1>0, <2>2, <2>3, <4>1
    <3>. QED
      BY <2>1, <3>1, <3>2 DEF Working
  <2>5. DeadLettersNameTheFault'
    BY <2>1, <2>2 DEF EffectInv, DeadLettersNameTheFault
  <2>6. OutInv'
    <3>. SUFFICES ASSUME NEW i \in 1 .. Len(out)
                  PROVE  /\ out[i][2] \in 1 .. Len(log'[out[i][1]])
                         /\ log'[out[i][1]][out[i][2]] = "valid"
      BY <2>1 DEF OutInv
    <3>1. out[i] \in Topics \X Nat
      BY <1>0, ElementOfSeq
    <3>. QED
      BY <2>2, <3>1 DEF EffectInv, OutInv
  <2>. QED
    BY <2>4, <2>5, <2>6 DEF EffectInv
(* Steps of one consumer that publish nothing and dead-letter nothing.     *)
<1>2. ASSUME NEW t \in Topics, UNCHANGED <<log, assigned, dlq, out>>,
             \A u \in Topics \ {t} : /\ phase'[u] = phase[u] /\ error'[u] = error[u]
                                     /\ position'[u] = position[u],
             Working(t)'
      PROVE  EffectInv'
  <2>1. \A u \in Topics : Working(u)'
    BY <1>2 DEF EffectInv, Working
  <2>. QED
    BY <1>2, <2>1 DEF EffectInv, DeadLettersNameTheFault, OutInv
(* A rebalance finds every consumer between two messages.                  *)
<1>3. ASSUME NEW t \in Topics, Join(t) PROVE EffectInv'
  <2>1. UNCHANGED <<log, dlq, out>>
    BY <1>3 DEF Join
  <2>2. \A u \in Topics : phase'[u] \in {"idle", "down"}
    BY <1>0, <1>3 DEF Join, Members
  <2>3. \A u \in Topics : Working(u)'
    BY <2>2 DEF Working
  <2>. QED
    BY <2>1, <2>3 DEF EffectInv, DeadLettersNameTheFault, OutInv
<1>4. ASSUME NEW t \in Topics, Deliver(t) PROVE EffectInv'
  <2>1. position[t] + 1 \in 1 .. Len(log[t]) /\ log[t][position[t] + 1] \in Kinds
    BY <1>0, <1>4, ElementOfSeq DEF Deliver
  <2>2. Working(t)'
    BY <1>0, <1>4, <2>1 DEF Deliver, Working, ErrorKind, Kinds
  <2>. QED
    BY <1>0, <1>2, <1>4, <2>2 DEF Deliver
<1>5. ASSUME NEW t \in Topics, HandlerReturns(t) \/ HandlerThrows(t) \/ DeadLetterThrows(t)
      PROVE  EffectInv'
  <2>1. Working(t)'
    BY <1>0, <1>5 DEF EffectInv, HandlerReturns, HandlerThrows, DeadLetterThrows, Working
  <2>. QED
    BY <1>0, <1>2, <1>5, <2>1 DEF HandlerReturns, HandlerThrows, DeadLetterThrows
<1>6. ASSUME NEW t \in Topics, DeadLetter(t) PROVE EffectInv'
  <2>1. /\ position[t] < Len(log[t])
        /\ \/ error[t] = "contract" /\ log[t][position[t] + 1] = "contract"
           \/ error[t] = "handler" /\ log[t][position[t] + 1] \in {"valid", "garbage"}
    BY <1>6 DEF DeadLetter, EffectInv, Working
  <2>2. \A u \in Topics : Working(u)'
    BY <1>0, <1>6 DEF DeadLetter, EffectInv, Working
  <2>3. DeadLettersNameTheFault'
    BY <1>0, <1>6, <2>1 DEF DeadLetter, EffectInv, DeadLettersNameTheFault
  <2>4. OutInv'
    BY <1>6 DEF DeadLetter, EffectInv, OutInv
  <2>. QED
    BY <2>2, <2>3, <2>4 DEF EffectInv
(* What a handler sends is on behalf of the message it works on.           *)
<1>7. ASSUME NEW t \in Topics, HandlerPublishes(t) \/ RetrySend(t) PROVE EffectInv'
  <2>1. position[t] < Len(log[t]) /\ log[t][position[t] + 1] = "valid"
    BY <1>7 DEF HandlerPublishes, RetrySend, EffectInv, Working
  <2>2. UNCHANGED <<log, dlq>>
    BY <1>7 DEF HandlerPublishes, RetrySend
  <2>3. \A u \in Topics : Working(u)'
    BY <1>0, <1>7 DEF HandlerPublishes, RetrySend, EffectInv, Working
  <2>4. OutInv'
    <3>. DEFINE e == <<t, position[t] + 1>>
    <3>1. e \in Topics \X Nat
      BY <1>0
    <3>2. out' = out \/ out' = Append(out, e)
      BY <1>7 DEF HandlerPublishes, RetrySend
    <3>3. /\ Len(Append(out, e)) = Len(out) + 1
          /\ \A i \in 1 .. Len(out) : Append(out, e)[i] = out[i]
          /\ Append(out, e)[Len(out) + 1] = e
      BY <1>0, <3>1, AppendKeeps
    <3>4. /\ e[2] \in 1 .. Len(log[e[1]])
          /\ log[e[1]][e[2]] = "valid"
      BY <1>0, <2>1
    <3>. HIDE DEF e
    <3>5. CASE out' = out
      BY <2>2, <3>5 DEF EffectInv, OutInv
    <3>6. CASE out' = Append(out, e)
      <4>1. \A i \in 1 .. Len(out') : \/ i \in 1 .. Len(out) /\ out'[i] = out[i]
                                      \/ out'[i] = e
        BY <1>0, <3>3, <3>6
      <4>. QED
        BY <2>2, <4>1, <3>4 DEF EffectInv, OutInv
    <3>. QED
      BY <3>2, <3>5, <3>6
  <2>. QED
    BY <2>2, <2>3, <2>4 DEF EffectInv, DeadLettersNameTheFault
<1>8. ASSUME Crash PROVE EffectInv'
  BY <1>8 DEF Crash, EffectInv, Working, DeadLettersNameTheFault, OutInv
<1>9. ASSUME UNCHANGED <<log, phase, assigned, position, error, dlq, out>> PROVE EffectInv'
  BY <1>9 DEF EffectInv, Working, DeadLettersNameTheFault, OutInv
<1>. QED
  BY <1>1, <1>3, <1>4, <1>5, <1>6, <1>7, <1>8, <1>9 DEF Next, Commit, vars

(* A dead letter labelled contract is of a message that violates the       *)
(* schema, and one labelled handler of a message that decodes or that is   *)
(* no JSON at all, whatever else failed or crashed before it.              *)
THEOREM DeadLettersAreExact == Spec => []DeadLettersNameTheFault
<1>1. EffectInv => DeadLettersNameTheFault
  BY DEF EffectInv
<1>. QED
  BY <1>1, TypingInit, TypingStep, EffectInit, EffectStep, PTL DEF Spec

(* A message that does not decode has no effect downstream.                *)
THEOREM RejectedHaveNoEffect == Spec => []OnlyValidMessagesHaveEffects
<1>1. EffectInv => OnlyValidMessagesHaveEffects
  BY DEF EffectInv, OutInv, OnlyValidMessagesHaveEffects
<1>. QED
  BY <1>1, TypingInit, TypingStep, EffectInit, EffectStep, PTL DEF Spec
-----------------------------------------------------------------------------
(* While a consumer reads, all from where it started to its position is    *)
(* settled, and so is everything to the committed offset, which         *)
(* survives the consumer.                                                  *)
DeliveryInv ==
  \A t \in Topics :
    /\ t \in assigned =>
         /\ start[t] <= position[t] /\ position[t] <= Len(log[t])
         /\ \A o \in start[t] + 1 .. position[t] : o \in Settled(t)
    /\ committed[t] # NoOffset =>
         /\ start[t] < committed[t] /\ committed[t] <= Len(log[t])
         /\ \A o \in start[t] + 1 .. committed[t] : o \in Settled(t)

LEMMA DeliveryInit == Init => DeliveryInv
BY DEF Init, DeliveryInv

(* What is settled stays settled, and a handler that returns or a dead     *)
(* letter settles the message after the position.                          *)
LEMMA SettledStep ==
  ASSUME TypeOK, [Next]_vars, NEW u \in Topics
  PROVE  /\ Settled(u) \subseteq Settled(u)'
         /\ \/ Settled(u)' = Settled(u)
            \/ /\ HandlerReturns(u) \/ DeadLetter(u)
               /\ Settled(u)' = Settled(u) \cup {position[u] + 1}
<1>. USE DEF consumer, history
<1>0. /\ handled \in [Topics -> SUBSET Nat]
      /\ dlq \in [Topics -> SUBSET (Nat \X {"none", "contract", "handler"})]
  BY DEF TypeOK
<1>1. CASE \E t \in Topics : HandlerReturns(t)
  <2>1. PICK t \in Topics : HandlerReturns(t)
    BY <1>1
  <2>2. handled' = [handled EXCEPT ![t] = @ \cup {position[t] + 1}] /\ dlq' = dlq
    BY <2>1 DEF HandlerReturns
  <2>. QED
    BY <1>0, <2>1, <2>2 DEF Settled, DeadLettered
<1>2. CASE \E t \in Topics : DeadLetter(t)
  <2>1. PICK t \in Topics : DeadLetter(t)
    BY <1>2
  <2>2. /\ dlq' = [dlq EXCEPT ![t] = @ \cup {<<position[t] + 1, error[t]>>}]
        /\ handled' = handled
    BY <2>1 DEF DeadLetter
  <2>3. CASE u = t
    <3>1. dlq'[t] = dlq[t] \cup {<<position[t] + 1, error[t]>>}
      BY <1>0, <2>2
    <3>2. {entry[1] : entry \in dlq'[t]} = {entry[1] : entry \in dlq[t]} \cup {position[t] + 1}
      <4>1. \A S, x : {entry[1] : entry \in S \cup {x}} = {entry[1] : entry \in S} \cup {x[1]}
        OBVIOUS
      <4>2. <<position[t] + 1, error[t]>>[1] = position[t] + 1
        OBVIOUS
      <4>3. {entry[1] : entry \in dlq[t] \cup {<<position[t] + 1, error[t]>>}}
              = {entry[1] : entry \in dlq[t]} \cup {<<position[t] + 1, error[t]>>[1]}
        BY <4>1
      <4>. QED
        BY <3>1, <4>2, <4>3
    <3>. QED
      BY <2>1, <2>2, <2>3, <3>2 DEF Settled, DeadLettered
  <2>4. CASE u # t
    BY <1>0, <2>2, <2>4 DEF Settled, DeadLettered
  <2>. QED
    BY <2>3, <2>4
<1>3. CASE UNCHANGED <<handled, dlq>>
  BY <1>3 DEF Settled, DeadLettered
<1>. QED
  BY <1>1, <1>2, <1>3
  DEF Next, vars, Arrive, Join, Deliver, HandlerPublishes, RetrySend, HandlerThrows,
      DeadLetterThrows, Commit, Crash

LEMMA DeliveryStep == TypeOK /\ EffectInv /\ DeliveryInv /\ [Next]_vars => DeliveryInv'
<1>. SUFFICES ASSUME TypeOK, EffectInv, DeliveryInv, [Next]_vars, NEW u \in Topics
              PROVE  /\ u \in assigned' =>
                          /\ start'[u] <= position'[u] /\ position'[u] <= Len(log'[u])
                          /\ \A o \in start'[u] + 1 .. position'[u] : o \in Settled(u)'
                     /\ committed'[u] # NoOffset =>
                          /\ start'[u] < committed'[u] /\ committed'[u] <= Len(log'[u])
                          /\ \A o \in start'[u] + 1 .. committed'[u] : o \in Settled(u)'
  BY DEF DeliveryInv
<1>. USE DEF consumer, history
<1>0. /\ log \in [Topics -> Seq(Kinds)]
      /\ \A t \in Topics : Len(log[t]) \in Nat
      /\ position \in [Topics -> Nat] /\ start \in [Topics -> Nat]
      /\ committed \in [Topics -> Nat \cup {NoOffset}]
      /\ phase \in [Topics -> {"down", "idle", "handling", "published", "failed"}]
  BY LenProperties DEF TypeOK
<1>1. Settled(u) \subseteq Settled(u)'
  BY SettledStep
<1>2. ASSUME NEW t \in Topics, NEW kind \in Kinds, Arrive(t, kind)
      PROVE  Len(log'[u]) \in Nat /\ Len(log[u]) <= Len(log'[u])
  BY <1>0, <1>2, AppendKeeps DEF Arrive
<1>3. CASE \E t \in Topics, kind \in Kinds : Arrive(t, kind)
  <2>1. UNCHANGED <<assigned, position, committed, start>>
    BY <1>3 DEF Arrive
  <2>2. Len(log'[u]) \in Nat /\ Len(log[u]) <= Len(log'[u])
    BY <1>2, <1>3
  <2>. QED
    BY <1>0, <1>1, <2>1, <2>2 DEF DeliveryInv
(* Whoever is given a topic starts at its end, or at what was committed.   *)
<1>4. CASE \E t \in Topics : Join(t)
  <2>1. UNCHANGED <<log, committed>>
    BY <1>4 DEF Join
  <2>2. \/ /\ u \in assigned' /\ committed[u] = NoOffset
           /\ position'[u] = Len(log[u]) /\ start'[u] = Len(log[u])
        \/ /\ u \in assigned' /\ committed[u] # NoOffset
           /\ position'[u] = committed[u] /\ start'[u] = start[u]
        \/ u \notin assigned' /\ start'[u] = start[u]
    <3>1. PICK t \in Topics : Join(t)
      BY <1>4
    <3>2. Members \cup {t} \in SUBSET Topics
      BY DEF Members
    <3>. QED
      BY <3>1, <3>2, RebalanceStarts DEF Join
  <2>. QED
    BY <1>0, <1>1, <2>1, <2>2 DEF DeliveryInv
(* The two steps that advance the position settle the message they pass.   *)
<1>5. CASE \E t \in Topics : HandlerReturns(t) \/ DeadLetter(t)
  <2>1. PICK t \in Topics : HandlerReturns(t) \/ DeadLetter(t)
    BY <1>5
  <2>2. /\ position' = [position EXCEPT ![t] = @ + 1]
        /\ UNCHANGED <<log, assigned, committed, start>>
    BY <2>1 DEF HandlerReturns, DeadLetter
  <2>3. position[t] < Len(log[t])
    BY <1>0, <2>1 DEF HandlerReturns, DeadLetter, EffectInv, Working
  <2>4. u = t => position[u] + 1 \in Settled(u)'
    <3>. SUFFICES ASSUME u = t PROVE position[u] + 1 \in Settled(u)'
      OBVIOUS
    <3>1. handled'[t] = handled[t] \cup {position[t] + 1} \/ <<position[t] + 1, error[t]>> \in dlq'[t]
      BY <2>1 DEF HandlerReturns, DeadLetter, TypeOK
    <3>. QED
      BY <3>1 DEF Settled, DeadLettered
  <2>5. CASE u = t
    BY <1>0, <1>1, <2>2, <2>3, <2>4, <2>5 DEF DeliveryInv
  <2>6. CASE u # t
    BY <1>0, <1>1, <2>2, <2>6 DEF DeliveryInv
  <2>. QED
    BY <2>5, <2>6
<1>6. CASE \E t \in Topics : Commit(t)
  BY <1>0, <1>1, <1>6 DEF Commit, DeliveryInv
<1>7. CASE \E t \in Topics : \/ Deliver(t) \/ HandlerPublishes(t) \/ RetrySend(t)
                            \/ HandlerThrows(t) \/ DeadLetterThrows(t)
  <2>1. UNCHANGED <<log, assigned, position, committed, start>>
    BY <1>7 DEF Deliver, HandlerPublishes, RetrySend, HandlerThrows, DeadLetterThrows
  <2>. QED
    BY <1>0, <1>1, <2>1 DEF DeliveryInv
<1>8. CASE Crash
  BY <1>0, <1>1, <1>8 DEF Crash, DeliveryInv
<1>9. CASE UNCHANGED vars
  BY <1>0, <1>1, <1>9 DEF vars, DeliveryInv
<1>. QED
  BY <1>3, <1>4, <1>5, <1>6, <1>7, <1>8, <1>9 DEF Next

LEMMA BusInvariant == Spec => [](TypeOK /\ EffectInv /\ DeliveryInv)
BY TypingInit, TypingStep, EffectInit, EffectStep, DeliveryInit, DeliveryStep, PTL DEF Spec

(* Whatever crashes, throws or is retried, what a group has committed has  *)
(* been handled or dead-lettered.                                          *)
THEOREM CommittedIsSettled == Spec => []NothingSkippedOnceCommitted
<1>1. DeliveryInv => NothingSkippedOnceCommitted
  BY DEF DeliveryInv, NothingSkippedOnceCommitted
<1>. QED
  BY <1>1, BusInvariant, PTL
-----------------------------------------------------------------------------
(* Refinement: each subscription maps to SubscriptionDelivery.             *)
DeliveryRefined == \A t \in Topics : [Delivery(t)!Next]_(Delivery(t)!vars)

LEMMA RefinementInit == Init => \A t \in Topics : Delivery(t)!Init
BY DEF Init, Delivery!Init, Delivery!NoOffset, NoOffset, Settled, DeadLettered

LEMMA RefinementStep ==
  TypeOK /\ EffectInv /\ DeliveryInv /\ [Next]_vars => DeliveryRefined
<1>. SUFFICES ASSUME TypeOK, EffectInv, DeliveryInv, [Next]_vars, NEW u \in Topics
              PROVE  [Delivery(u)!Next]_(Delivery(u)!vars)
  BY DEF DeliveryRefined
<1>. USE DEF consumer, history
<1>. DEFINE Same == UNCHANGED <<Len(log[u]), start[u], committed[u], Settled(u)>>
<1>0. /\ log \in [Topics -> Seq(Kinds)]
      /\ \A t \in Topics : Len(log[t]) \in Nat
      /\ position \in [Topics -> Nat] /\ start \in [Topics -> Nat]
      /\ committed \in [Topics -> Nat \cup {NoOffset}]
  BY LenProperties DEF TypeOK
<1>1. Settled(u)' = Settled(u) \/ ((HandlerReturns(u) \/ DeadLetter(u))
                                     /\ Settled(u)' = Settled(u) \cup {position[u] + 1})
  BY SettledStep
<1>2. Same => [Delivery(u)!Next]_(Delivery(u)!vars)
  BY DEF Delivery!vars
<1>3. CASE \E kind \in Kinds : Arrive(u, kind)
  <2>1. /\ Len(log'[u]) = Len(log[u]) + 1
        /\ UNCHANGED <<start, committed>> /\ Settled(u)' = Settled(u)
    BY <1>0, <1>3, AppendKeeps DEF Arrive, Settled, DeadLettered
  <2>2. Delivery(u)!Grow
    BY <2>1 DEF Delivery!Grow
  <2>. QED
    BY <2>2 DEF Delivery!Next
<1>4. CASE \E t \in Topics : Join(t)
  <2>1. UNCHANGED <<log, committed>> /\ Settled(u)' = Settled(u)
    BY <1>4 DEF Join, Settled, DeadLettered
  <2>2. \/ committed[u] = NoOffset /\ start'[u] = Len(log[u])
        \/ start'[u] = start[u]
    <3>1. PICK t \in Topics : Join(t)
      BY <1>4
    <3>2. Members \cup {t} \in SUBSET Topics
      BY DEF Members
    <3>. QED
      BY <3>1, <3>2, RebalanceStarts DEF Join
  <2>3. CASE committed[u] = NoOffset /\ start'[u] = Len(log[u])
    <3>1. Delivery(u)!StartAtEnd
      BY <2>1, <2>3 DEF Delivery!StartAtEnd, Delivery!NoOffset, NoOffset
    <3>. QED
      BY <3>1 DEF Delivery!Next
  <2>4. CASE start'[u] = start[u]
    BY <1>2, <2>1, <2>4
  <2>. QED
    BY <2>2, <2>3, <2>4
<1>5. CASE HandlerReturns(u) \/ DeadLetter(u)
  <2>1. /\ position[u] < Len(log[u]) /\ start[u] <= position[u]
        /\ UNCHANGED <<log, start, committed>>
    BY <1>0, <1>5 DEF HandlerReturns, DeadLetter, EffectInv, Working, DeliveryInv
  <2>2. position[u] + 1 \in start[u] + 1 .. Len(log[u])
    BY <1>0, <2>1
  <2>3. CASE Settled(u)' = Settled(u)
    BY <1>2, <2>1, <2>3
  <2>4. CASE Settled(u)' = Settled(u) \cup {position[u] + 1}
    <3>1. Delivery(u)!Settle
      BY <2>1, <2>2, <2>4 DEF Delivery!Settle
    <3>. QED
      BY <3>1 DEF Delivery!Next
  <2>. QED
    BY <1>1, <2>3, <2>4
<1>6. CASE Commit(u)
  <2>1. /\ u \in assigned /\ committed[u] < position[u] /\ position[u] > start[u]
        /\ committed'[u] = position[u]
        /\ UNCHANGED <<log, start>> /\ Settled(u)' = Settled(u)
    BY <1>0, <1>6 DEF Commit, Settled, DeadLettered
  <2>2. /\ position[u] \in start[u] + 1 .. Len(log[u])
        /\ start[u] + 1 .. position[u] \subseteq Settled(u)
    BY <1>0, <2>1 DEF DeliveryInv
  <2>3. Delivery(u)!Commit
    BY <1>0, <2>1, <2>2 DEF Delivery!Commit, NoOffset
  <2>. QED
    BY <2>3 DEF Delivery!Next
(* Every other step leaves this subscription's promise as it is.           *)
<1>7. CASE \E t \in Topics \ {u} :
              \/ \E kind \in Kinds : Arrive(t, kind)
              \/ HandlerReturns(t) \/ DeadLetter(t) \/ Commit(t)
  <2>1. UNCHANGED <<log[u], start[u], committed[u]>>
    BY <1>0, <1>7 DEF Arrive, HandlerReturns, DeadLetter, Commit
  <2>2. handled'[u] = handled[u] /\ dlq'[u] = dlq[u]
    BY <1>7 DEF Arrive, HandlerReturns, DeadLetter, Commit, TypeOK
  <2>. QED
    BY <1>2, <2>1, <2>2 DEF Settled, DeadLettered
<1>8. CASE \/ \E t \in Topics : \/ Deliver(t) \/ HandlerPublishes(t) \/ RetrySend(t)
                                \/ HandlerThrows(t) \/ DeadLetterThrows(t)
           \/ Crash \/ UNCHANGED vars
  <2>1. UNCHANGED <<log, start, committed, handled, dlq>>
    BY <1>8 DEF Deliver, HandlerPublishes, RetrySend, HandlerThrows,
                DeadLetterThrows, Crash, vars
  <2>. QED
    BY <1>2, <2>1 DEF Settled, DeadLettered
<1>. QED
  BY <1>3, <1>4, <1>5, <1>6, <1>7, <1>8 DEF Next

(* Every subscription of the bus implements SubscriptionDelivery.          *)
THEOREM Refinement == Spec => KeepsDelivery
<1>1. TypeOK /\ EffectInv /\ DeliveryInv /\ [Next]_vars
      => [\A t \in Topics : [Delivery(t)!Next]_(Delivery(t)!vars)]_vars
  BY RefinementStep DEF DeliveryRefined
<1>2. Init => \A t \in Topics : Delivery(t)!Init
  BY RefinementInit
<1>. QED
  BY <1>1, <1>2, BusInvariant, PTL DEF Spec, KeepsDelivery
=============================================================================
