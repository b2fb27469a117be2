---------------------------- MODULE SignalEngine ----------------------------
(***************************************************************************)
(* The signal-engine (apps/signal-engine): collectors post the payloads of *)
(* a provider, one or a batch; each is normalized into signals, which are  *)
(* published one by one, each send being awaited.  The answer lists the    *)
(* signals once all of them are on the bus.                                *)
(***************************************************************************)
EXTENDS Normalizers, FiniteSets

CONSTANTS
  Collectors,
  Resources,    \* what signals may be about
  Posts,        \* what collectors post: [source, batch, bodies]
  MaxPosts,     \* bound: requests
  MaxFaults     \* bound: sends that throw; with the security-engine, its faults too

(* The elements of a post's batch, and the signals of all posts.           *)
Bodies(post) == {post.bodies[i] : i \in DOMAIN post.bodies}
Collected ==
  UNION {{s.signal : s \in UNION {Normalize(post.source, b) : b \in {x \in Bodies(post) : ~x.broken}}} :
           post \in {q \in Posts : q.source \in SUPPORTED_SOURCES}}

ASSUME SignalAssumption ==
  /\ MaxPosts \in Nat /\ MaxFaults \in Nat
  /\ \A post \in Posts : post.bodies \in Seq(Bodies(post))
  /\ \A post \in Posts : \A b \in Bodies(post) :
       ~b.broken => Len(b.items) \in Nat /\ DOMAIN b.items = 1 .. Len(b.items)
  /\ \A s \in Collected : s.resource \in Resources

VARIABLES
  log,          \* log[r]: the signals of resource r, a partition key, on signal.received
  requests,     \* requests[p]: {} or the request of collector p that is being served
  posts,        \* requests so far
  minted,       \* signal ids so far
  faults,
  accepted      \* ids that were answered with 202

signalVars == <<log, requests, posts, minted, accepted>>

SignalInit ==
  /\ log = [r \in Resources |-> <<>>]
  /\ requests = [p \in Collectors |-> {}]
  /\ posts = 0 /\ minted = 0
  /\ accepted = {}

(* The single endpoint refuses a source it does not know; the batch        *)
(* endpoint does not look.                                                 *)
Post(p, post) ==
  /\ requests[p] = {} /\ posts < MaxPosts
  /\ post.batch \/ post.source \in SUPPORTED_SOURCES
  /\ posts' = posts + 1
  /\ requests' = [requests EXCEPT ![p] =
       {[source |-> post.source, bodies |-> post.bodies, signals |-> {}, ids |-> {}]}]
  /\ UNCHANGED <<log, minted, faults, accepted>>

(* ingest() of the next body: normalized whole, and every signal gets its  *)
(* id, before the first is published.  A source without a normalizer, or a *)
(* body whose list is none, throws: the answer is an error.                *)
NormalizeNext(p) ==
  \E q \in requests[p] :
    /\ q.signals = {} /\ q.bodies # <<>>
    /\ IF q.source \notin SUPPORTED_SOURCES \/ Head(q.bodies).broken
       THEN /\ requests' = [requests EXCEPT ![p] = {}]
            /\ UNCHANGED minted
       ELSE LET body    == Head(q.bodies)
                signals == {[id |-> minted + s.at, signal |-> s.signal] :
                              s \in Normalize(q.source, body)}
            IN  /\ requests' = [requests EXCEPT ![p] =
                     {[q EXCEPT !.bodies = Tail(@), !.signals = signals,
                                !.ids = @ \cup {s.id : s \in signals}]}]
                /\ minted' = minted + Len(body.items)
    /\ UNCHANGED <<log, posts, faults, accepted>>

Logged(id, s, via) ==
  [id |-> id, environment |-> s.environment, configuration |-> s.configuration,
   malformed |-> s.malformed, via |-> via]

PublishSignal(p) ==
  \E q \in requests[p] : \E s \in q.signals :
    /\ \A t \in q.signals : s.id <= t.id
    /\ log' = [log EXCEPT ![s.signal.resource] = Append(@, Logged(s.id, s.signal, "collector"))]
    /\ requests' = [requests EXCEPT ![p] = {[q EXCEPT !.signals = @ \ {s}]}]
    /\ UNCHANGED <<posts, minted, faults, accepted>>

(* The send throws: the rest of the batch is not published.                *)
ContinueAfterFailure(p) ==      \* mutated form: the error is caught and the batch goes on
  \E q \in requests[p] : \E s \in q.signals :
    /\ faults < MaxFaults /\ \A t \in q.signals : s.id <= t.id
    /\ faults' = faults + 1
    /\ requests' = [requests EXCEPT ![p] = {[q EXCEPT !.signals = @ \ {s}]}]
    /\ UNCHANGED <<log, posts, minted, accepted>>
SignalFails(p) ==
  \E q \in requests[p] :
    /\ q.signals # {} /\ faults < MaxFaults
    /\ faults' = faults + 1
    /\ requests' = [requests EXCEPT ![p] = {}]
    /\ UNCHANGED <<log, posts, minted, accepted>>

Reply(p) ==
  \E q \in requests[p] :
    /\ q.signals = {} /\ q.bodies = <<>>
    /\ accepted' = accepted \cup q.ids
    /\ requests' = [requests EXCEPT ![p] = {}]
    /\ UNCHANGED <<log, posts, minted, faults>>
-----------------------------------------------------------------------------
OnTheBus == UNION {{log[r][o].id : o \in 1 .. Len(log[r])} : r \in Resources}

(* signal.service.ts:17: the answer comes "as soon as the event is durable *)
(* on the bus".  Every signal that was answered for can be evaluated,      *)
(* whatever failed in the batch it came with.                              *)
AcceptedIsDurable == accepted \subseteq OnTheBus
=============================================================================
