----------------------- MODULE SecurityEngine_proofs -----------------------
(***************************************************************************)
(* Theorems about the signal-engine and the security-engine behind it:     *)
(* what was answered for is on the bus, what is finished with is shown,    *)
(* and what the catalog makes of a signal on one day and on another.       *)
(***************************************************************************)
EXTENDS SecurityEngine, TLAPS

-----------------------------------------------------------------------------
(* The catalog: where each rule is in it, no two of the same id.           *)
LEMMA CatalogIs ==
  /\ DOMAIN catalog = 1 .. 21
  /\ catalog[1].id = "CLOUD-STORAGE-PUBLIC" /\ catalog[2].id = "CLOUD-DB-PUBLIC"
  /\ catalog[3].id = "CLOUD-SG-OPEN-ADMIN" /\ catalog[4].id = "CLOUD-IAM-WILDCARD"
  /\ catalog[5].id = "CLOUD-RESOURCE-UNENCRYPTED"
  /\ catalog[6].id = "K8S-PRIVILEGED-CONTAINER" /\ catalog[7].id = "K8S-ROOT-CONTAINER"
  /\ catalog[8].id = "K8S-MISSING-RESOURCE-LIMITS" /\ catalog[9].id = "K8S-INSECURE-RBAC"
  /\ catalog[10].id = "K8S-HOST-NETWORK"
  /\ catalog[11].id = "IMG-KNOWN-VULNERABILITIES" /\ catalog[12].id = "IMG-LATEST-TAG"
  /\ catalog[13].id = "IMG-UNSIGNED" /\ catalog[14].id = "IMG-PRIVILEGED-RUNTIME"
  /\ catalog[15].id = "SEC-CREDENTIAL-EXPOSED" /\ catalog[16].id = "SEC-ENV-VAR-SECRET"
  /\ catalog[17].id = "SEC-SECRET-EXPIRED"
  /\ catalog[18].id = "CICD-NO-SECURITY-SCAN" /\ catalog[19].id = "CICD-EXCESSIVE-PERMISSIONS"
  /\ catalog[20].id = "CICD-EXPOSED-SECRETS" /\ catalog[21].id = "CICD-UNPROTECTED-DEPLOY"
BY DEF catalog, cloudRules, kubernetesRules, containerRules, secretsRules, cicdRules, Rule

LEMMA Categories ==
  /\ \A i \in 1 .. 5 : catalog[i].category = "cloud"
  /\ \A i \in 6 .. 10 : catalog[i].category = "kubernetes"
  /\ \A i \in 11 .. 14 : catalog[i].category = "container"
  /\ \A i \in 15 .. 17 : catalog[i].category = "secrets"
  /\ \A i \in 18 .. 21 : catalog[i].category = "cicd"
BY DEF catalog, cloudRules, kubernetesRules, containerRules, secretsRules, cicdRules, Rule

Severities == {"critical", "high", "medium", "low"}

LEMMA SeveritiesAre == \A i \in DOMAIN catalog : catalog[i].severity \in Severities
<1>1. \A i \in 1 .. 21 : catalog[i].severity \in Severities
  BY DEF catalog, cloudRules, kubernetesRules, containerRules, secretsRules, cicdRules, Rule,
         Severities
<1>. QED
  BY <1>1, CatalogIs

LEMMA OneRulePerId ==
  ASSUME NEW i \in DOMAIN catalog, NEW j \in DOMAIN catalog, catalog[i].id = catalog[j].id
  PROVE  i = j
BY CatalogIs

(* The context of a signal, on a day.                                      *)
ContextOn(r, s, day) ==
  [kind |-> InferKind(r), environment |-> s.environment, today |-> day,
   configuration |-> s.configuration, malformed |-> s.malformed]

LEMMA ContextIs == \A r, s : Context(r, s) = ContextOn(r, s, today)
BY DEF Context, ContextOn

(* Only SEC-SECRET-EXPIRED looks at the clock.                             *)
LEMMA FiresOnAnyDay ==
  ASSUME NEW i \in DOMAIN catalog, catalog[i].id # "SEC-SECRET-EXPIRED",
         NEW r, NEW s, NEW d, NEW e
  PROVE  RuleFires(catalog[i], ContextOn(r, s, d)) <=> RuleFires(catalog[i], ContextOn(r, s, e))
<1>. DEFINE c == ContextOn(r, s, d)
            x == ContextOn(r, s, e)
<1>1. /\ c.configuration = x.configuration /\ c.kind = x.kind /\ c.malformed = x.malformed
  BY DEF ContextOn
<1>. HIDE DEF c, x
<1>2. ASSUME NEW id PROVE CloudMatched(id, c) <=> CloudMatched(id, x)
  BY <1>1 DEF CloudMatched, Cfg
<1>3. ASSUME NEW id PROVE KubernetesMatched(id, c) <=> KubernetesMatched(id, x)
  BY <1>1 DEF KubernetesMatched, Cfg
<1>4. ASSUME NEW id PROVE ContainerMatched(id, c) <=> ContainerMatched(id, x)
  BY <1>1 DEF ContainerMatched, Cfg
<1>5. ASSUME NEW id \in {"SEC-CREDENTIAL-EXPOSED", "SEC-ENV-VAR-SECRET"}
      PROVE  SecretsMatched(id, c) <=> SecretsMatched(id, x)
  BY <1>1 DEF SecretsMatched, Cfg
<1>6. ASSUME NEW id PROVE CicdMatched(id, c) <=> CicdMatched(id, x)
  BY <1>1 DEF CicdMatched, Cfg
<1>7. Matched(catalog[i], c) <=> Matched(catalog[i], x)
  <2>1. CASE i \in 1 .. 5
    BY <1>2, <2>1, Categories DEF Matched
  <2>2. CASE i \in 6 .. 10
    BY <1>3, <2>2, Categories DEF Matched
  <2>3. CASE i \in 11 .. 14
    BY <1>4, <2>3, Categories DEF Matched
  <2>4. CASE i \in 15 .. 17
    <3>1. catalog[i].id \in {"SEC-CREDENTIAL-EXPOSED", "SEC-ENV-VAR-SECRET"}
      BY <2>4, CatalogIs
    <3>. QED
      BY <1>5, <2>4, <3>1, Categories DEF Matched
  <2>5. CASE i \in 18 .. 21
    BY <1>6, <2>5, Categories DEF Matched
  <2>. QED
    BY <2>1, <2>2, <2>3, <2>4, <2>5, CatalogIs
<1>. QED
  BY <1>1, <1>7 DEF RuleFires, Throws, c, x

Rank(severity) == SeverityRank[severity]

LEMMA SeverityIsOne ==
  ASSUME NEW i \in DOMAIN catalog, NEW c
  PROVE  Severity(catalog[i], c) \in Severities
BY SeveritiesAre DEF Severity, Severities

LEMMA RankIsOne == \A severity \in Severities : Rank(severity) \in 1 .. 4
BY DEF Rank, SeverityRank, Severities

(* A configuration in which the clock's rule finds numbers.                *)
Dated(s) ==
  \A key \in {"secretRotatedAt", "secretMaxAgeDays"} \cap DOMAIN s.configuration :
    s.configuration[key] \in Int

(* On a later day a signal's finding is as severe as on an earlier one, or *)
(* more.                                                                   *)
LEMMA SeverityIsMonotonic ==
  ASSUME NEW i \in DOMAIN catalog, NEW r, NEW s, Dated(s),
         NEW d \in Nat, NEW e \in Nat, d <= e,
         RuleFires(catalog[i], ContextOn(r, s, d))
  PROVE  Rank(Severity(catalog[i], ContextOn(r, s, d)))
           <= Rank(Severity(catalog[i], ContextOn(r, s, e)))
<1>. DEFINE c == ContextOn(r, s, d)
            x == ContextOn(r, s, e)
<1>1. /\ c.configuration = s.configuration /\ x.configuration = s.configuration
      /\ c.environment = x.environment /\ c.today = d /\ x.today = e
  BY DEF ContextOn
<1>2. RuleFires(catalog[i], c)
  OBVIOUS
<1>. HIDE DEF c, x
<1>3. CASE i = 17
  <2>1. catalog[i].id = "SEC-SECRET-EXPIRED" /\ catalog[i].category = "secrets"
    BY <1>3, CatalogIs, Categories
  <2>2. "secretRotatedAt" \in DOMAIN s.configuration
    BY <1>1, <1>2, <2>1 DEF RuleFires, Matched, SecretsMatched
  <2>3. s.configuration["secretRotatedAt"] \in Int
    BY <2>2 DEF Dated
  <2>4. /\ SecretMaxAge(c) = SecretMaxAge(x)
        /\ SecretMaxAge(c) \in Int
    <3>1. CASE "secretMaxAgeDays" \in DOMAIN s.configuration
      BY <1>1, <3>1 DEF Dated, SecretMaxAge, Cfg
    <3>2. CASE "secretMaxAgeDays" \notin DOMAIN s.configuration
      BY <1>1, <3>2 DEF SecretMaxAge, Cfg
    <3>. QED
      BY <3>1, <3>2
  <2>5. /\ SecretAge(c) = d - s.configuration["secretRotatedAt"]
        /\ SecretAge(x) = e - s.configuration["secretRotatedAt"]
    BY <1>1 DEF SecretAge
  <2>6. SecretAge(c) > 2 * SecretMaxAge(c) => SecretAge(x) > 2 * SecretMaxAge(x)
    BY <2>3, <2>4, <2>5
  <2>7. catalog[i].severity = "medium"
    BY <1>3
       DEF catalog, cloudRules, kubernetesRules, containerRules, secretsRules, cicdRules, Rule
  <2>8. /\ Severity(catalog[i], c) = IF SecretAge(c) > 2 * SecretMaxAge(c) THEN "high" ELSE "medium"
        /\ Severity(catalog[i], x) = IF SecretAge(x) > 2 * SecretMaxAge(x) THEN "high" ELSE "medium"
    BY <2>1, <2>7 DEF Severity
  <2>9. Rank("medium") <= Rank("high") /\ Rank("medium") <= Rank("medium") /\ Rank("high") <= Rank("high")
    BY DEF Rank, SeverityRank
  <2>. QED
    BY <2>6, <2>8, <2>9 DEF c, x
<1>4. CASE i # 17
  <2>1. catalog[i].id # "SEC-SECRET-EXPIRED"
    BY <1>4, CatalogIs
  <2>2. Severity(catalog[i], c) = Severity(catalog[i], x)
    BY <1>1, <2>1 DEF Severity, Cfg
  <2>3. Rank(Severity(catalog[i], c)) \in 1 .. 4
    BY SeverityIsOne, RankIsOne
  <2>. QED
    BY <2>2, <2>3 DEF c, x
<1>. QED
  BY <1>3, <1>4

(* What a collector's signals have of configuration: nothing, or of a pod  *)
(* its containers and its network.                                         *)
Collectable(r, configuration) ==
  \/ configuration = Nothing
  \/ r.prefix = "k8s:" /\ DOMAIN configuration = {"containers", "hostNetwork"}

LEMMA CollectedIsCollectable ==
  \A s \in Collected : Collectable(s.resource, s.configuration)
<1>. SUFFICES ASSUME NEW source \in SUPPORTED_SOURCES, NEW item
              PROVE  Collectable(SignalOf(source, item).resource,
                                 SignalOf(source, item).configuration)
  BY DEF Collected, Normalize
<1>1. CASE source = "cloudtrail"
  BY <1>1 DEF SignalOf, CloudTrail, Collectable
<1>2. CASE source = "kubernetes"
  BY <1>2 DEF SignalOf, Kubernetes, Under, Collectable
<1>3. CASE source = "github-actions"
  BY <1>3 DEF SignalOf, GithubActions, Collectable
<1>4. CASE source = "prometheus"
  BY <1>4 DEF SignalOf, Prometheus, Collectable
<1>. QED
  BY <1>1, <1>2, <1>3, <1>4 DEF SUPPORTED_SOURCES

ShownByCollectors(kind, id) ==
  \/ /\ kind = "kubernetes-workload"
     /\ id \in {"K8S-PRIVILEGED-CONTAINER", "K8S-ROOT-CONTAINER",
                "K8S-MISSING-RESOURCE-LIMITS", "K8S-HOST-NETWORK"}
  \/ kind = "container-image" /\ id = "IMG-UNSIGNED"
  \/ kind = "ci-pipeline" /\ id = "CICD-NO-SECURITY-SCAN"

LEMMA CollectableFires ==
  ASSUME NEW i \in DOMAIN catalog, NEW r, NEW s, NEW d, Collectable(r, s.configuration),
         RuleFires(catalog[i], ContextOn(r, s, d))
  PROVE  ShownByCollectors(InferKind(r), catalog[i].id)
<1>. DEFINE c == ContextOn(r, s, d)
<1>1. /\ c.configuration = s.configuration /\ c.kind = InferKind(r)
      /\ c.kind \in catalog[i].kinds /\ Matched(catalog[i], c)
  BY DEF ContextOn, RuleFires
<1>. HIDE DEF c
<1>2. ASSUME NEW key, NEW default, key \notin {"containers", "hostNetwork"}
      PROVE  key \notin DOMAIN c.configuration /\ Cfg(c, key, default) = default
  BY <1>1, <1>2 DEF Collectable, Nothing, Cfg
<1>3. r.prefix = "k8s:" \/ c.configuration = Nothing
  BY <1>1 DEF Collectable
<1>4. r.prefix = "k8s:" => InferKind(r) = "kubernetes-workload"
  BY DEF InferKind
<1>5. CASE i \in 1 .. 5
  <2>1. CloudMatched(catalog[i].id, c)
    BY <1>1, <1>5, Categories DEF Matched
  <2>2. \A key \in {"acl", "policyAllowsAnonymous", "publiclyAccessible", "ingress",
                    "statements", "encryptionEnabled"} : key \notin DOMAIN c.configuration
    BY <1>2
  <2>3. /\ ~CloudMatched("CLOUD-STORAGE-PUBLIC", c) /\ ~CloudMatched("CLOUD-DB-PUBLIC", c)
        /\ ~CloudMatched("CLOUD-SG-OPEN-ADMIN", c) /\ ~CloudMatched("CLOUD-IAM-WILDCARD", c)
        /\ ~CloudMatched("CLOUD-RESOURCE-UNENCRYPTED", c)
    BY <2>2 DEF CloudMatched, Cfg
  <2>. QED
    BY <1>5, <2>1, <2>3, CatalogIs
<1>6. CASE i \in 6 .. 10
  <2>1. KubernetesMatched(catalog[i].id, c)
    BY <1>1, <1>6, Categories DEF Matched
  <2>2. Cfg(c, "roleBindings", {}) = {}
    BY <1>2
  <2>3. i # 9
    BY <2>1, <2>2, CatalogIs DEF KubernetesMatched
  <2>4. catalog[i].kinds = {"kubernetes-workload"}
    BY <1>6, <2>3
       DEF catalog, cloudRules, kubernetesRules, containerRules, secretsRules, cicdRules, Rule
  <2>. QED
    BY <1>1, <1>6, <2>3, <2>4, CatalogIs DEF ShownByCollectors
<1>7. CASE i \in 11 .. 14
  <2>1. ContainerMatched(catalog[i].id, c)
    BY <1>1, <1>7, Categories DEF Matched
  <2>2. /\ Cfg(c, "vulnerabilities", {}) = {} /\ Cfg(c, "images", {}) = {}
        /\ Cfg(c, "capabilities", {}) = {}
    BY <1>2
  <2>3. i = 13
    <3>1. \A id \in {"IMG-KNOWN-VULNERABILITIES", "IMG-LATEST-TAG", "IMG-PRIVILEGED-RUNTIME"} :
            ~ContainerMatched(id, c)
      BY <2>2 DEF ContainerMatched
    <3>. QED
      BY <1>7, <2>1, <3>1, CatalogIs
  <2>4. catalog[i].kinds = {"container-image"}
    BY <2>3
       DEF catalog, cloudRules, kubernetesRules, containerRules, secretsRules, cicdRules, Rule
  <2>. QED
    BY <1>1, <2>3, <2>4, CatalogIs DEF ShownByCollectors
<1>8. CASE i \in 15 .. 17
  <2>1. SecretsMatched(catalog[i].id, c)
    BY <1>1, <1>8, Categories DEF Matched
  <2>2. /\ Cfg(c, "secretMatches", {}) = {} /\ Cfg(c, "environmentVariables", {}) = {}
        /\ "secretRotatedAt" \notin DOMAIN c.configuration
    BY <1>2
  <2>3. \A id \in {"SEC-CREDENTIAL-EXPOSED", "SEC-ENV-VAR-SECRET", "SEC-SECRET-EXPIRED"} :
          ~SecretsMatched(id, c)
    BY <2>2 DEF SecretsMatched
  <2>. QED
    BY <1>8, <2>1, <2>3, CatalogIs
<1>9. CASE i \in 18 .. 21
  <2>1. CicdMatched(catalog[i].id, c)
    BY <1>1, <1>9, Categories DEF Matched
  <2>2. /\ Cfg(c, "permissions", "none") = "none" /\ Cfg(c, "logLeaks", {}) = {}
        /\ Cfg(c, "deployEnvironment", "none") = "none"
    BY <1>2
  <2>3. i = 18
    <3>1. \A id \in {"CICD-EXCESSIVE-PERMISSIONS", "CICD-EXPOSED-SECRETS",
                     "CICD-UNPROTECTED-DEPLOY"} : ~CicdMatched(id, c)
      BY <2>2 DEF CicdMatched
    <3>. QED
      BY <1>9, <2>1, <3>1, CatalogIs
  <2>4. catalog[i].kinds = {"ci-pipeline"}
    BY <2>3
       DEF catalog, cloudRules, kubernetesRules, containerRules, secretsRules, cicdRules, Rule
  <2>. QED
    BY <1>1, <2>3, <2>4, CatalogIs DEF ShownByCollectors
<1>. QED
  BY <1>5, <1>6, <1>7, <1>8, <1>9, CatalogIs
-----------------------------------------------------------------------------
(* The signal-engine's side: what can be on the bus about a resource, and  *)
(* what a request can be.                                                  *)
LoggedAbout(r) ==
  {Logged(id, s, "collector") : id \in Nat, s \in {t \in Collected : t.resource = r}}
    \cup {Logged(id, s, "other") : id \in Nat, s \in {t \in OtherSignals : t.resource = r}}

Requests ==
  UNION {[source : {post.source}, bodies : Seq(Bodies(post)),
          signals : SUBSET [id : Nat, signal : Collected], ids : SUBSET Nat] : post \in Posts}

LogOK == DOMAIN log = Resources /\ \A r \in Resources : log[r] \in Seq(LoggedAbout(r))

SignalType ==
  /\ LogOK
  /\ requests \in [Collectors -> SUBSET Requests]
  /\ minted \in Nat
  /\ accepted \subseteq 1 .. minted
  /\ \A p \in Collectors : \A q \in requests[p] : q.ids \subseteq 1 .. minted

(* What a request answers for is on the bus or has still to be published.  *)
NothingIsSkipped ==
  \A p \in Collectors : \A q \in requests[p] :
    q.ids \subseteq OnTheBus \cup {s.id : s \in q.signals}

SignalInv == SignalType /\ NothingIsSkipped /\ AcceptedIsDurable

LogGrows ==
  \A r \in Resources :
    Len(log[r]) <= Len(log'[r]) /\ \A o \in 1 .. Len(log[r]) : log'[r][o] = log[r][o]

LEMMA LoggedIs ==
  ASSUME NEW r, NEW e \in LoggedAbout(r)
  PROVE  Dated(e) /\ (e.via = "collector" => Collectable(r, e.configuration))
<1>1. CASE \E id \in Nat, s \in Collected : s.resource = r /\ e = Logged(id, s, "collector")
  <2>1. PICK s \in Collected : s.resource = r /\ e.configuration = s.configuration
    BY <1>1 DEF Logged
  <2>2. Collectable(r, e.configuration)
    BY <2>1, CollectedIsCollectable
  <2>. QED
    BY <2>2 DEF Collectable, Dated, Nothing
<1>2. CASE \E id \in Nat, s \in OtherSignals : s.resource = r /\ e = Logged(id, s, "other")
  BY <1>2, SecurityAssumption DEF Logged, Dated
<1>. QED
  BY <1>1, <1>2 DEF LoggedAbout

LEMMA LogIs ==
  ASSUME LogOK, NEW r \in Resources
  PROVE  /\ Len(log[r]) \in Nat /\ DOMAIN log[r] = 1 .. Len(log[r])
         /\ \A o \in 1 .. Len(log[r]) : log[r][o] \in LoggedAbout(r)
BY DEF LogOK

LEMMA Published ==
  ASSUME LogOK, NEW x \in Resources, NEW e \in LoggedAbout(x),
         log' = [log EXCEPT ![x] = Append(@, e)]
  PROVE  LogOK' /\ LogGrows /\ e.id \in OnTheBus'
<1>1. log[x] \in Seq(LoggedAbout(x)) /\ log'[x] = Append(log[x], e)
  BY DEF LogOK
<1>2. /\ log'[x] \in Seq(LoggedAbout(x)) /\ Len(log'[x]) = Len(log[x]) + 1
      /\ Len(log[x]) \in Nat
      /\ \A o \in 1 .. Len(log[x]) : log'[x][o] = log[x][o]
      /\ log'[x][Len(log[x]) + 1] = e
  BY <1>1
<1>3. \A r \in Resources : r # x => log'[r] = log[r]
  BY DEF LogOK
<1>4. LogOK'
  BY <1>2, <1>3 DEF LogOK
<1>5. LogGrows
  <2>. SUFFICES ASSUME NEW r \in Resources
                PROVE  Len(log[r]) <= Len(log'[r]) /\ \A o \in 1 .. Len(log[r]) : log'[r][o] = log[r][o]
    BY DEF LogGrows
  <2>. QED
    BY <1>2, <1>3, LogIs
<1>. QED
  BY <1>2, <1>4, <1>5 DEF OnTheBus

LEMMA BusGrows ==
  ASSUME LogOK, LogGrows, LogOK'
  PROVE  OnTheBus \subseteq OnTheBus'
<1>. SUFFICES ASSUME NEW id \in OnTheBus
              PROVE  id \in OnTheBus'
  OBVIOUS
<1>0. PICK r \in Resources : \E o \in 1 .. Len(log[r]) : log[r][o].id = id
  BY DEF OnTheBus
<1>1. PICK o \in 1 .. Len(log[r]) : log[r][o].id = id
  BY <1>0
<1>2. o \in 1 .. Len(log'[r]) /\ log'[r][o].id = id
  <2>1. Len(log[r]) \in Nat /\ Len(log'[r]) \in Nat
    BY DEF LogOK
  <2>. QED
    BY <1>1, <2>1 DEF LogGrows
<1>. QED
  BY <1>2 DEF OnTheBus

LEMMA SignalsOfABody ==
  ASSUME NEW post \in Posts, NEW body \in Bodies(post), ~body.broken,
         post.source \in SUPPORTED_SOURCES
  PROVE  /\ Len(body.items) \in Nat
         /\ \A s \in Normalize(post.source, body) :
              s.at \in 1 .. Len(body.items) /\ s.signal \in Collected
<1>1. Len(body.items) \in Nat /\ DOMAIN body.items = 1 .. Len(body.items)
  BY SignalAssumption
<1>2. \A s \in Normalize(post.source, body) : s.at \in DOMAIN body.items
  BY DEF Normalize
<1>3. \A s \in Normalize(post.source, body) : s.signal \in Collected
  BY DEF Collected
<1>. QED
  BY <1>1, <1>2, <1>3

(* A step that leaves the bus alone keeps what it can of the invariant.    *)
LEMMA BusIsLeftAlone ==
  ASSUME SignalInv, UNCHANGED log
  PROVE  LogOK' /\ LogGrows /\ OnTheBus' = OnTheBus
<1>1. LogOK'
  BY DEF SignalInv, SignalType, LogOK
<1>2. LogGrows
  BY LogIs DEF SignalInv, SignalType, LogGrows
<1>3. OnTheBus' = OnTheBus
  BY DEF OnTheBus
<1>. QED
  BY <1>1, <1>2, <1>3

(* Of the requests one changes, or ends, and of the ids that were minted   *)
(* and accepted none is lost.                                              *)
LEMMA RequestsStep ==
  ASSUME SignalInv, LogOK', LogGrows, NEW p \in Collectors, NEW now \in SUBSET Requests,
         requests' = [requests EXCEPT ![p] = now],
         minted' \in Nat, minted <= minted',
         \A q \in now : q.ids \subseteq 1 .. minted',
         \A q \in now : q.ids \subseteq OnTheBus' \cup {s.id : s \in q.signals},
         accepted' \subseteq 1 .. minted',
         accepted' \subseteq OnTheBus'
  PROVE  SignalInv'
<1>1. requests' \in [Collectors -> SUBSET Requests] /\ requests'[p] = now
  BY DEF SignalInv, SignalType
<1>2. \A x \in Collectors : x # p => requests'[x] = requests[x]
  BY DEF SignalInv, SignalType
<1>3. \A x \in Collectors : \A q \in requests'[x] : q.ids \subseteq 1 .. minted'
  BY <1>1, <1>2 DEF SignalInv, SignalType
<1>4. NothingIsSkipped'
  <2>. SUFFICES ASSUME NEW x \in Collectors, NEW q \in requests'[x]
                PROVE  q.ids \subseteq OnTheBus' \cup {s.id : s \in q.signals}
    BY DEF NothingIsSkipped
  <2>1. CASE x = p
    BY <1>1, <2>1
  <2>2. CASE x # p
    <3>1. q.ids \subseteq OnTheBus \cup {s.id : s \in q.signals}
      BY <1>2, <2>2 DEF SignalInv, NothingIsSkipped
    <3>. QED
      BY <3>1, BusGrows DEF SignalInv, SignalType
  <2>. QED
    BY <2>1, <2>2
<1>. QED
  BY <1>1, <1>3, <1>4 DEF SignalInv, SignalType, AcceptedIsDurable

LEMMA PostStep ==
  ASSUME SignalInv, NEW p \in Collectors, NEW post \in Posts, Post(p, post)
  PROVE  SignalInv' /\ LogGrows
<1>. DEFINE q == [source |-> post.source, bodies |-> post.bodies, signals |-> {}, ids |-> {}]
<1>1. /\ requests' = [requests EXCEPT ![p] = {q}]
      /\ UNCHANGED <<log, minted, accepted>>
  BY DEF Post
<1>2. q \in Requests
  <2>1. post.bodies \in Seq(Bodies(post))
    BY SignalAssumption
  <2>. QED
    BY <2>1 DEF Requests
<1>3. LogOK' /\ LogGrows /\ OnTheBus' = OnTheBus
  BY <1>1, BusIsLeftAlone
<1>4. q.ids = {}
  OBVIOUS
<1>. HIDE DEF q
<1>5. /\ minted' \in Nat /\ minted <= minted'
      /\ accepted' \subseteq 1 .. minted' /\ accepted' \subseteq OnTheBus'
  BY <1>1, <1>3 DEF SignalInv, SignalType, AcceptedIsDurable
<1>. QED
  BY <1>1, <1>2, <1>3, <1>4, <1>5, RequestsStep

LEMMA NormalizeStep ==
  ASSUME SignalInv, NEW p \in Collectors, NormalizeNext(p)
  PROVE  SignalInv' /\ LogGrows
<1>1. PICK q \in requests[p] :
        /\ q.signals = {} /\ q.bodies # <<>>
        /\ IF q.source \notin SUPPORTED_SOURCES \/ Head(q.bodies).broken
           THEN /\ requests' = [requests EXCEPT ![p] = {}]
                /\ UNCHANGED minted
           ELSE LET body    == Head(q.bodies)
                    signals == {[id |-> minted + s.at, signal |-> s.signal] :
                                  s \in Normalize(q.source, body)}
                IN  /\ requests' = [requests EXCEPT ![p] =
                         {[q EXCEPT !.bodies = Tail(@), !.signals = signals,
                                    !.ids = @ \cup {s.id : s \in signals}]}]
                    /\ minted' = minted + Len(body.items)
        /\ UNCHANGED <<log, posts, faults, accepted>>
  BY DEF NormalizeNext
<1>2. LogOK' /\ LogGrows /\ OnTheBus' = OnTheBus
  BY <1>1, BusIsLeftAlone
<1>3. CASE q.source \notin SUPPORTED_SOURCES \/ Head(q.bodies).broken
  <2>1. requests' = [requests EXCEPT ![p] = {}] /\ UNCHANGED <<minted, accepted>>
    BY <1>1, <1>3
  <2>2. /\ minted' \in Nat /\ minted <= minted'
        /\ accepted' \subseteq 1 .. minted' /\ accepted' \subseteq OnTheBus'
    BY <1>2, <2>1 DEF SignalInv, SignalType, AcceptedIsDurable
  <2>3. {} \in SUBSET Requests
    OBVIOUS
  <2>. QED
    BY <1>2, <2>1, <2>2, <2>3, RequestsStep
<1>4. CASE q.source \in SUPPORTED_SOURCES /\ ~Head(q.bodies).broken
  <2>. DEFINE body    == Head(q.bodies)
              signals == {[id |-> minted + s.at, signal |-> s.signal] :
                            s \in Normalize(q.source, body)}
              n       == [q EXCEPT !.bodies = Tail(@), !.signals = signals,
                                   !.ids = @ \cup {s.id : s \in signals}]
  <2>1. /\ requests' = [requests EXCEPT ![p] = {n}]
        /\ minted' = minted + Len(body.items) /\ UNCHANGED accepted
    BY <1>1, <1>4
  <2>2. q \in Requests /\ minted \in Nat /\ q.ids \subseteq 1 .. minted
    BY DEF SignalInv, SignalType
  <2>3. PICK post \in Posts : q \in [source : {post.source}, bodies : Seq(Bodies(post)),
                                     signals : SUBSET [id : Nat, signal : Collected],
                                     ids : SUBSET Nat]
    BY <2>2 DEF Requests
  <2>4. q.bodies \in Seq(Bodies(post)) /\ q.source = post.source
    BY <2>3
  <2>5. body \in Bodies(post) /\ Tail(q.bodies) \in Seq(Bodies(post)) /\ ~body.broken
    <3>1. ASSUME NEW S, NEW bodies \in Seq(S), bodies # <<>>
          PROVE  Head(bodies) \in S /\ Tail(bodies) \in Seq(S)
      BY <3>1
    <3>. QED
      BY <1>1, <1>4, <2>4, <3>1
  <2>6. /\ Len(body.items) \in Nat
        /\ \A s \in Normalize(q.source, body) :
             s.at \in 1 .. Len(body.items) /\ s.signal \in Collected
    <3>. HIDE DEF body
    <3>. QED
      BY <1>4, <2>4, <2>5, SignalsOfABody
  <2>. HIDE DEF body
  <2>7. /\ signals \subseteq [id : Nat, signal : Collected]
        /\ \A s \in signals : s.id \in 1 .. minted + Len(body.items)
    BY <2>2, <2>6
  <2>. HIDE DEF signals
  <2>8. /\ n.signals = signals /\ n.ids = q.ids \cup {s.id : s \in signals}
        /\ n.source = q.source /\ n.bodies = Tail(q.bodies)
        /\ n \in [source : {post.source}, bodies : Seq(Bodies(post)),
                  signals : SUBSET [id : Nat, signal : Collected], ids : SUBSET Nat]
    BY <2>3, <2>5, <2>7
  <2>. HIDE DEF n
  <2>9. n \in Requests
    BY <2>8 DEF Requests
  <2>10. n.ids \subseteq 1 .. minted' /\ minted' \in Nat /\ minted <= minted'
    BY <2>1, <2>2, <2>6, <2>7, <2>8
  <2>11. n.ids \subseteq OnTheBus' \cup {s.id : s \in n.signals}
    <3>1. q.ids \subseteq OnTheBus
      BY <1>1 DEF SignalInv, NothingIsSkipped
    <3>. QED
      BY <1>2, <2>8, <3>1
  <2>12. accepted' \subseteq 1 .. minted' /\ accepted' \subseteq OnTheBus'
    BY <1>2, <2>1, <2>2, <2>10 DEF SignalInv, SignalType, AcceptedIsDurable
  <2>. QED
    BY <1>2, <2>1, <2>9, <2>10, <2>11, <2>12, RequestsStep
<1>. QED
  BY <1>3, <1>4

LEMMA PublishStep ==
  ASSUME SignalInv, NEW p \in Collectors, PublishSignal(p)
  PROVE  SignalInv' /\ LogGrows
<1>1. PICK q \in requests[p] : \E s \in q.signals :
        /\ log' = [log EXCEPT ![s.signal.resource] = Append(@, Logged(s.id, s.signal, "collector"))]
        /\ requests' = [requests EXCEPT ![p] = {[q EXCEPT !.signals = @ \ {s}]}]
        /\ UNCHANGED <<posts, minted, faults, accepted>>
  BY DEF PublishSignal
<1>2. PICK s \in q.signals :
        /\ log' = [log EXCEPT ![s.signal.resource] = Append(@, Logged(s.id, s.signal, "collector"))]
        /\ requests' = [requests EXCEPT ![p] = {[q EXCEPT !.signals = @ \ {s}]}]
        /\ UNCHANGED <<minted, accepted>>
  BY <1>1
<1>3. PICK post \in Posts : q \in [source : {post.source}, bodies : Seq(Bodies(post)),
                                   signals : SUBSET [id : Nat, signal : Collected],
                                   ids : SUBSET Nat]
  BY DEF SignalInv, SignalType, Requests
<1>4. s.id \in Nat /\ s.signal \in Collected /\ s.signal.resource \in Resources
  BY <1>3, SignalAssumption
<1>. DEFINE e == Logged(s.id, s.signal, "collector")
            n == [q EXCEPT !.signals = @ \ {s}]
<1>5. e \in LoggedAbout(s.signal.resource) /\ e.id = s.id
  <2>1. e.id = s.id
    BY DEF Logged
  <2>. QED
    BY <1>4, <2>1 DEF LoggedAbout
<1>6. LogOK' /\ LogGrows /\ s.id \in OnTheBus'
  <2>1. log' = [log EXCEPT ![s.signal.resource] = Append(@, e)]
    BY <1>2
  <2>. HIDE DEF e
  <2>. QED
    BY <1>4, <1>5, <2>1, Published DEF SignalInv, SignalType
<1>7. /\ n.signals = q.signals \ {s} /\ n.ids = q.ids
      /\ n \in [source : {post.source}, bodies : Seq(Bodies(post)),
                signals : SUBSET [id : Nat, signal : Collected], ids : SUBSET Nat]
  BY <1>3
<1>8. requests' = [requests EXCEPT ![p] = {n}]
  BY <1>2
<1>. HIDE DEF e, n
<1>9. n \in Requests
  BY <1>7 DEF Requests
<1>10. n.ids \subseteq OnTheBus' \cup {t.id : t \in n.signals}
  <2>1. q.ids \subseteq OnTheBus \cup {t.id : t \in q.signals}
    BY DEF SignalInv, NothingIsSkipped
  <2>. QED
    BY <1>6, <1>7, <2>1, BusGrows DEF SignalInv, SignalType
<1>11. accepted' \subseteq OnTheBus'
  BY <1>2, <1>6, BusGrows DEF SignalInv, SignalType, AcceptedIsDurable
<1>12. /\ minted' \in Nat /\ minted <= minted' /\ n.ids \subseteq 1 .. minted'
       /\ accepted' \subseteq 1 .. minted'
  BY <1>2, <1>7 DEF SignalInv, SignalType
<1>. QED
  BY <1>6, <1>8, <1>9, <1>10, <1>11, <1>12, RequestsStep

LEMMA SignalFailsStep ==
  ASSUME SignalInv, NEW p \in Collectors, SignalFails(p)
  PROVE  SignalInv' /\ LogGrows
<1>1. requests' = [requests EXCEPT ![p] = {}] /\ UNCHANGED <<log, minted, accepted>>
  BY DEF SignalFails
<1>2. LogOK' /\ LogGrows /\ OnTheBus' = OnTheBus
  BY <1>1, BusIsLeftAlone
<1>3. /\ minted' \in Nat /\ minted <= minted'
      /\ accepted' \subseteq 1 .. minted' /\ accepted' \subseteq OnTheBus'
  BY <1>1, <1>2 DEF SignalInv, SignalType, AcceptedIsDurable
<1>4. {} \in SUBSET Requests
  OBVIOUS
<1>. QED
  BY <1>1, <1>2, <1>3, <1>4, RequestsStep

LEMMA ReplyStep ==
  ASSUME SignalInv, NEW p \in Collectors, Reply(p)
  PROVE  SignalInv' /\ LogGrows
<1>1. PICK q \in requests[p] :
        /\ q.signals = {}
        /\ accepted' = accepted \cup q.ids
        /\ requests' = [requests EXCEPT ![p] = {}]
        /\ UNCHANGED <<log, minted>>
  BY DEF Reply
<1>2. LogOK' /\ LogGrows /\ OnTheBus' = OnTheBus
  BY <1>1, BusIsLeftAlone
<1>3. q.ids \subseteq OnTheBus
  BY <1>1 DEF SignalInv, NothingIsSkipped
<1>4. q.ids \subseteq 1 .. minted
  BY DEF SignalInv, SignalType
<1>5. /\ minted' \in Nat /\ minted <= minted'
      /\ accepted' \subseteq 1 .. minted' /\ accepted' \subseteq OnTheBus'
  <2>1. /\ minted \in Nat /\ accepted \subseteq 1 .. minted /\ accepted \subseteq OnTheBus
    BY DEF SignalInv, SignalType, AcceptedIsDurable
  <2>2. minted' = minted /\ accepted' = accepted \cup q.ids /\ OnTheBus' = OnTheBus
    BY <1>1, <1>2
  <2>3. minted' \in Nat /\ minted <= minted'
    BY <2>1, <2>2
  <2>4. 1 .. minted' = 1 .. minted
    BY <2>2
  <2>5. accepted' \subseteq 1 .. minted' /\ accepted' \subseteq OnTheBus'
    BY <1>3, <1>4, <2>1, <2>2, <2>4, Zenon
  <2>. QED
    BY <2>3, <2>5
<1>6. {} \in SUBSET Requests
  OBVIOUS
<1>. QED
  BY <1>1, <1>2, <1>5, <1>6, RequestsStep

LEMMA ArriveStep ==
  ASSUME SignalInv, NEW s \in OtherSignals, Arrive(s)
  PROVE  SignalInv' /\ LogGrows
<1>. DEFINE e == Logged(minted + 1, s, "other")
<1>1. /\ minted' = minted + 1 /\ log' = [log EXCEPT ![s.resource] = Append(@, e)]
      /\ UNCHANGED <<requests, accepted>>
  BY DEF Arrive
<1>2. e \in LoggedAbout(s.resource) /\ s.resource \in Resources
  BY SecurityAssumption DEF SignalInv, SignalType, LoggedAbout
<1>. HIDE DEF e
<1>3. LogOK' /\ LogGrows
  BY <1>1, <1>2, Published DEF SignalInv, SignalType
<1>4. SignalType'
  BY <1>1, <1>3 DEF SignalInv, SignalType
<1>5. NothingIsSkipped' /\ AcceptedIsDurable'
  BY <1>1, <1>3, BusGrows DEF SignalInv, SignalType, NothingIsSkipped, AcceptedIsDurable
<1>. QED
  BY <1>3, <1>4, <1>5 DEF SignalInv

LEMMA SignalsLeftAlone ==
  ASSUME SignalInv, UNCHANGED <<log, requests, minted, accepted>>
  PROVE  SignalInv' /\ LogGrows
<1>1. LogOK' /\ LogGrows /\ OnTheBus' = OnTheBus
  BY BusIsLeftAlone
<1>2. SignalType'
  BY <1>1 DEF SignalInv, SignalType
<1>. QED
  BY <1>1, <1>2 DEF SignalInv, NothingIsSkipped, AcceptedIsDurable
-----------------------------------------------------------------------------
(* The security-engine's side.                                             *)
Due      == [at : Nat, rule : RuleIds, severity : Severities]
Handlers == [resource : Resources, offset : Nat, left : SUBSET Due]
Findings == [offset : Nat, rule : RuleIds, severity : Severities]

(* A finding comes from a rule that fired on the signal, on a day.         *)
Draws(r, s, day, rule, severity) ==
  \E i \in DOMAIN catalog :
    /\ RuleFires(catalog[i], ContextOn(r, s, day))
    /\ rule = catalog[i].id /\ severity = Severity(catalog[i], ContextOn(r, s, day))

(* The rules, without the clock's, that a signal calls for, and those that *)
(* are among the findings for an offset.                                   *)
Calls(r, s) ==
  {catalog[i].id : i \in {j \in DOMAIN catalog :
     catalog[j].id # "SEC-SECRET-EXPIRED" /\ RuleFires(catalog[j], ContextOn(r, s, 0))}}
Ids(found, o) == {found[k].rule : k \in {j \in DOMAIN found : found[j].offset = o}}

QueueType ==
  /\ owner \in [Resources -> Workers]
  /\ cursor \in [Resources -> Nat] /\ start \in [Resources -> Nat]
  /\ committed \in [Resources -> Nat \cup {NoOffset}]
  /\ \A r \in Resources : /\ committed[r] <= cursor[r] /\ start[r] <= cursor[r]
                          /\ cursor[r] <= Len(log[r])
                          /\ committed[r] # NoOffset => start[r] < committed[r]

WorkType ==
  /\ work \in [Workers -> SUBSET Handlers]
  /\ \A w \in Workers : \A g, h \in work[w] : g = h
  /\ \A w \in Workers : \A h \in work[w] : h.offset \in 1 .. Len(log[h.resource])

FindingsType ==
  /\ findings \in [Resources -> Seq(Findings)]
  /\ \A r \in Resources : \A k \in DOMAIN findings[r] :
       findings[r][k].offset \in 1 .. Len(log[r])

Justified ==
  \A r \in Resources : \A k \in DOMAIN findings[r] :
    \E d \in 0 .. today : Draws(r, log[r][findings[r][k].offset], d,
                               findings[r][k].rule, findings[r][k].severity)

(* What a handler has still to publish is of one evaluation.               *)
OneEvaluation ==
  \A w \in Workers : \A h \in work[w] : \E d \in 0 .. today :
    h.left \subseteq Evaluate(ContextOn(h.resource, log[h.resource][h.offset], d))

NothingIsForgotten ==
  \A w \in Workers : \A h \in work[w] :
    Calls(h.resource, log[h.resource][h.offset])
      \subseteq {e.rule : e \in h.left} \cup Ids(findings[h.resource], h.offset)

Finished ==
  \A r \in Resources : \A o \in start[r] + 1 .. cursor[r] :
    <<r, o>> \in dropped \/ Calls(r, log[r][o]) \subseteq Ids(findings[r], o)

OneReplica ==
  \A w \in Workers : \A h \in work[w] : h.resource \in takenOver \/ owner[h.resource] = w

(* A handler's findings are as severe as what the bus has of them already. *)
NoLessSevere ==
  \A w \in Workers : \A h \in work[w] : \A e \in h.left :
    \A k \in DOMAIN findings[h.resource] :
      h.resource \notin takenOver /\ findings[h.resource][k].offset = h.offset
        /\ findings[h.resource][k].rule = e.rule
      => Rank(findings[h.resource][k].severity) <= Rank(e.severity)

EngineInv ==
  /\ today \in Nat
  /\ QueueType /\ WorkType /\ FindingsType
  /\ Justified /\ OneEvaluation /\ NothingIsForgotten /\ Finished
  /\ OneReplica /\ NoLessSevere /\ SeverityFallsOnlyByTakeover

IInv == SignalInv /\ EngineInv

(* A step that publishes no finding and starts no handler.                 *)
LEMMA Quiet ==
  ASSUME IInv, SignalInv', LogGrows, UNCHANGED findings,
         today' \in Nat, today <= today', takenOver \subseteq takenOver',
         work' \in [Workers -> SUBSET Handlers],
         \A w \in Workers : work'[w] \subseteq work[w]
  PROVE  /\ WorkType' /\ FindingsType' /\ Justified' /\ OneEvaluation'
         /\ NothingIsForgotten' /\ NoLessSevere' /\ SeverityFallsOnlyByTakeover'
<1>. USE DEF IInv, EngineInv
<1>1. \A r \in Resources : /\ Len(log[r]) \in Nat /\ Len(log'[r]) \in Nat
                           /\ 1 .. Len(log[r]) \subseteq 1 .. Len(log'[r])
                           /\ \A o \in 1 .. Len(log[r]) : log'[r][o] = log[r][o]
  <2>1. LogOK /\ LogOK'
    BY DEF SignalInv, SignalType
  <2>. QED
    BY <2>1 DEF LogOK, LogGrows
<1>2. \A w \in Workers : \A h \in work'[w] :
        /\ h \in work[w] /\ h.resource \in Resources
        /\ h.offset \in 1 .. Len(log[h.resource])
        /\ log'[h.resource][h.offset] = log[h.resource][h.offset]
  BY <1>1 DEF WorkType, Handlers
<1>3. 0 .. today \subseteq 0 .. today'
  OBVIOUS
<1>4. WorkType'
  BY <1>1, <1>2 DEF WorkType
<1>5. FindingsType'
  BY <1>1 DEF FindingsType
<1>6. Justified'
  <2>. SUFFICES ASSUME NEW r \in Resources, NEW k \in DOMAIN findings[r]
                PROVE  \E d \in 0 .. today' : Draws(r, log'[r][findings[r][k].offset], d,
                                                   findings[r][k].rule, findings[r][k].severity)
    BY DEF Justified
  <2>1. log'[r][findings[r][k].offset] = log[r][findings[r][k].offset]
    BY <1>1 DEF FindingsType
  <2>. QED
    BY <1>3, <2>1 DEF Justified
<1>7. OneEvaluation'
  <2>. SUFFICES ASSUME NEW w \in Workers, NEW h \in work'[w]
                PROVE  \E d \in 0 .. today' : h.left
                         \subseteq Evaluate(ContextOn(h.resource, log'[h.resource][h.offset], d))
    BY DEF OneEvaluation
  <2>. QED
    BY <1>2, <1>3 DEF OneEvaluation
<1>8. NothingIsForgotten'
  <2>. SUFFICES ASSUME NEW w \in Workers, NEW h \in work'[w]
                PROVE  Calls(h.resource, log'[h.resource][h.offset])
                         \subseteq {e.rule : e \in h.left} \cup Ids(findings[h.resource], h.offset)
    BY DEF NothingIsForgotten
  <2>. QED
    BY <1>2 DEF NothingIsForgotten
<1>9. NoLessSevere'
  <2>. SUFFICES ASSUME NEW w \in Workers, NEW h \in work'[w], NEW e \in h.left,
                       NEW k \in DOMAIN findings[h.resource],
                       h.resource \notin takenOver', findings[h.resource][k].offset = h.offset,
                       findings[h.resource][k].rule = e.rule
                PROVE  Rank(findings[h.resource][k].severity) <= Rank(e.severity)
    BY DEF NoLessSevere
  <2>. QED
    BY <1>2 DEF NoLessSevere
<1>10. SeverityFallsOnlyByTakeover'
  BY DEF SeverityFallsOnlyByTakeover
<1>. QED
  BY <1>4, <1>5, <1>6, <1>7, <1>8, <1>9, <1>10

(* A cursor goes over one signal that is dead-lettered or shown.           *)
LEMMA FinishedStep ==
  ASSUME IInv, SignalInv', LogGrows, UNCHANGED findings, dropped \subseteq dropped',
         UNCHANGED start, cursor' \in [Resources -> Nat], NEW x,
         \A r \in Resources : cursor'[r] > cursor[r] => r = x /\ cursor'[r] = cursor[r] + 1,
         \/ \A r \in Resources : cursor'[r] <= cursor[r]
         \/ <<x, cursor[x] + 1>> \in dropped'
         \/ Calls(x, log'[x][cursor[x] + 1]) \subseteq Ids(findings[x], cursor[x] + 1)
  PROVE  Finished'
<1>. SUFFICES ASSUME NEW r \in Resources, NEW o \in start[r] + 1 .. cursor'[r],
                     <<r, o>> \notin dropped'
              PROVE  Calls(r, log'[r][o]) \subseteq Ids(findings[r], o)
  BY DEF Finished
<1>1. /\ cursor[r] \in Nat /\ cursor'[r] \in Nat /\ Len(log[r]) \in Nat
      /\ start[r] \in Nat /\ cursor[r] <= Len(log[r])
  BY LogIs DEF IInv, EngineInv, QueueType, SignalInv, SignalType
<1>2. CASE o \in start[r] + 1 .. cursor[r]
  <2>1. log'[r][o] = log[r][o]
    BY <1>1, <1>2 DEF LogGrows
  <2>2. Calls(r, log[r][o]) \subseteq Ids(findings[r], o)
    BY <1>2 DEF IInv, EngineInv, Finished
  <2>. QED
    BY <2>1, <2>2
<1>3. CASE o \notin start[r] + 1 .. cursor[r]
  <2>1. cursor'[r] > cursor[r] /\ r = x /\ o = cursor[r] + 1
    BY <1>1, <1>3
  <2>2. ~(cursor'[r] <= cursor[r])
    BY <1>1, <2>1
  <2>. QED
    BY <2>1, <2>2
<1>. QED
  BY <1>2, <1>3

(* Partitions are read from their committed offset again, or from the end: *)
(* what is then behind the cursor was before, or is passed over.           *)
LEMMA Restarts ==
  ASSUME IInv, NEW S, Restart(S), UNCHANGED <<log, findings, committed, dropped>>,
         owner' \in [Resources -> Workers]
  PROVE  QueueType' /\ Finished'
<1>1. \A r \in Resources : /\ Len(log[r]) \in Nat /\ cursor[r] \in Nat /\ start[r] \in Nat
                           /\ committed[r] \in Nat \cup {NoOffset}
  BY LogIs DEF IInv, EngineInv, QueueType, SignalInv, SignalType
<1>2. /\ cursor' \in [Resources -> Nat] /\ start' \in [Resources -> Nat]
      /\ \A r \in Resources :
           \/ cursor'[r] = cursor[r] /\ start'[r] = start[r]
           \/ committed[r] = NoOffset /\ cursor'[r] = Len(log[r]) /\ start'[r] = Len(log[r])
           \/ committed[r] # NoOffset /\ cursor'[r] = committed[r] /\ start'[r] = start[r]
  BY <1>1 DEF Restart, IInv, EngineInv, QueueType
<1>3. QueueType'
  <2>1. ASSUME NEW r \in Resources
        PROVE  /\ committed[r] <= cursor'[r] /\ start'[r] <= cursor'[r]
               /\ cursor'[r] <= Len(log[r])
               /\ committed[r] # NoOffset => start'[r] < committed[r]
    <3>1. /\ committed[r] <= cursor[r] /\ start[r] <= cursor[r] /\ cursor[r] <= Len(log[r])
          /\ committed[r] # NoOffset => start[r] < committed[r]
      BY DEF IInv, EngineInv, QueueType
    <3>2. CASE cursor'[r] = cursor[r] /\ start'[r] = start[r]
      BY <3>1, <3>2
    <3>3. CASE /\ committed[r] = NoOffset
               /\ cursor'[r] = Len(log[r]) /\ start'[r] = Len(log[r])
      BY <1>1, <3>3 DEF NoOffset
    <3>4. CASE /\ committed[r] # NoOffset
               /\ cursor'[r] = committed[r] /\ start'[r] = start[r]
      BY <1>1, <3>1, <3>4 DEF NoOffset
    <3>. QED
      BY <1>2, <3>2, <3>3, <3>4
  <2>. QED
    BY <1>2, <2>1 DEF IInv, EngineInv, QueueType
<1>4. ASSUME NEW r \in Resources, NEW o \in start'[r] + 1 .. cursor'[r]
      PROVE  o \in start[r] + 1 .. cursor[r]
  <2>1. /\ cursor'[r] \in Nat /\ start'[r] \in Nat /\ committed[r] <= cursor[r]
        /\ start'[r] < cursor'[r]
    BY <1>2 DEF IInv, EngineInv, QueueType
  <2>. QED
    BY <1>1, <1>2, <2>1
<1>5. Finished'
  BY <1>4 DEF IInv, EngineInv, Finished
<1>. QED
  BY <1>3, <1>5

(* A step that changes no queue either.                                    *)
LEMMA QueueKept ==
  ASSUME IInv, SignalInv', LogGrows, UNCHANGED queue
  PROVE  QueueType'
<1>1. \A r \in Resources : Len(log[r]) \in Nat /\ Len(log'[r]) \in Nat /\ Len(log[r]) <= Len(log'[r])
  BY LogIs DEF IInv, SignalInv, SignalType, LogOK, LogGrows
<1>. QED
  BY <1>1 DEF IInv, EngineInv, QueueType, queue

LEMMA SignalsOnly ==
  ASSUME IInv, SignalInv', LogGrows,
         UNCHANGED <<queue, work, findings, dropped, takenOver>>,
         today' \in Nat, today <= today'
  PROVE  IInv'
<1>1. QueueType'
  BY QueueKept
<1>2. work' \in [Workers -> SUBSET Handlers] /\ \A w \in Workers : work'[w] \subseteq work[w]
  BY DEF IInv, EngineInv, WorkType
<1>3. /\ WorkType' /\ FindingsType' /\ Justified' /\ OneEvaluation'
      /\ NothingIsForgotten' /\ NoLessSevere' /\ SeverityFallsOnlyByTakeover'
  BY <1>2, Quiet
<1>4. Finished'
  <2>1. /\ cursor' \in [Resources -> Nat] /\ start' = start
        /\ \A r \in Resources : cursor'[r] <= cursor[r] /\ ~(cursor'[r] > cursor[r])
    BY DEF IInv, EngineInv, QueueType, queue
  <2>. QED
    BY <2>1, FinishedStep
<1>5. OneReplica'
  BY DEF IInv, EngineInv, OneReplica, queue
<1>. QED
  BY <1>1, <1>3, <1>4, <1>5 DEF IInv, EngineInv

LEMMA EvaluateIsDue ==
  ASSUME NEW c
  PROVE  Evaluate(c) \subseteq Due
<1>1. \A i \in DOMAIN catalog : i \in Nat /\ catalog[i].id \in RuleIds
  BY CatalogIs DEF RuleIds, Rules
<1>. QED
  BY <1>1, SeverityIsOne DEF Evaluate, Evaluation, Due

LEMMA EvaluationIsOf ==
  ASSUME NEW c, NEW e \in Evaluate(c)
  PROVE  \E i \in DOMAIN catalog : /\ RuleFires(catalog[i], c) /\ e.at = i
                                  /\ e.rule = catalog[i].id /\ e.severity = Severity(catalog[i], c)
BY DEF Evaluate, Evaluation

LEMMA EvaluateCalls ==
  ASSUME NEW r, NEW s, NEW d
  PROVE  Calls(r, s) \subseteq {e.rule : e \in Evaluate(ContextOn(r, s, d))}
<1>. SUFFICES ASSUME NEW i \in DOMAIN catalog, catalog[i].id # "SEC-SECRET-EXPIRED",
                     RuleFires(catalog[i], ContextOn(r, s, 0))
              PROVE  \E e \in Evaluate(ContextOn(r, s, d)) : e.rule = catalog[i].id
  BY DEF Calls
<1>1. RuleFires(catalog[i], ContextOn(r, s, d))
  BY FiresOnAnyDay
<1>2. /\ Evaluation(i, ContextOn(r, s, d)) \in Evaluate(ContextOn(r, s, d))
      /\ Evaluation(i, ContextOn(r, s, d)).rule = catalog[i].id
  BY <1>1 DEF Evaluate, Evaluation
<1>. QED
  BY <1>2

LEMMA StartStep ==
  ASSUME IInv, NEW w \in Workers, NEW r \in Resources, Start(w, r)
  PROVE  IInv'
<1>. DEFINE s == log[r][cursor[r] + 1]
            c == ContextOn(r, s, today)
            h == [resource |-> r, offset |-> cursor[r] + 1, left |-> Evaluate(c)]
<1>1. /\ work' = [work EXCEPT ![w] = {h}] /\ owner[r] = w /\ cursor[r] < Len(log[r])
      /\ UNCHANGED <<log, requests, minted, accepted, today, queue, findings, dropped, takenOver>>
  BY ContextIs DEF Start, MayHandle, signalVars
<1>2. SignalInv' /\ LogGrows
  BY <1>1, SignalsLeftAlone DEF IInv
<1>3. /\ cursor[r] \in Nat /\ Len(log[r]) \in Nat /\ cursor[r] + 1 \in 1 .. Len(log[r])
      /\ s \in LoggedAbout(r)
  BY <1>1, LogIs DEF IInv, EngineInv, SignalInv, SignalType, QueueType
<1>4. Evaluate(c) \subseteq Due
  BY EvaluateIsDue
<1>5. Dated(s)
  BY <1>3, LoggedIs
<1>6. h.resource = r /\ h.offset = cursor[r] + 1 /\ h.left = Evaluate(c) /\ log[h.resource][h.offset] = s
  OBVIOUS
<1>7. h \in Handlers
  BY <1>3, <1>4 DEF Handlers
<1>. HIDE DEF s, c, h
<1>8. work' \in [Workers -> SUBSET Handlers] /\ work'[w] = {h}
  BY <1>1, <1>7 DEF IInv, EngineInv, WorkType
<1>9. \A x \in Workers : x # w => work'[x] = work[x]
  BY <1>1 DEF IInv, EngineInv, WorkType
<1>10. \A x \in Workers : \A g \in work'[x] : g = h \/ g \in work[x]
  BY <1>8, <1>9
<1>11. /\ today \in Nat
       /\ QueueType' /\ FindingsType' /\ Justified' /\ Finished' /\ SeverityFallsOnlyByTakeover'
  BY <1>1 DEF IInv, EngineInv, QueueType, FindingsType, Justified, Finished,
              SeverityFallsOnlyByTakeover, queue
<1>12. WorkType'
  <2>1. h.offset \in 1 .. Len(log[h.resource])
    BY <1>3, <1>6
  <2>. QED
    BY <1>1, <1>8, <1>9, <1>10, <2>1 DEF IInv, EngineInv, WorkType
<1>13. OneEvaluation'
  <2>. SUFFICES ASSUME NEW x \in Workers, NEW g \in work'[x]
                PROVE  \E d \in 0 .. today :
                         g.left \subseteq Evaluate(ContextOn(g.resource, log[g.resource][g.offset], d))
    BY <1>1 DEF OneEvaluation
  <2>1. CASE g = h
    <3>1. today \in 0 .. today
      BY <1>11
    <3>. QED
      BY <1>6, <2>1, <3>1 DEF c
  <2>2. CASE g \in work[x]
    BY <2>2 DEF IInv, EngineInv, OneEvaluation
  <2>. QED
    BY <1>10, <2>1, <2>2
<1>14. NothingIsForgotten'
  <2>. SUFFICES ASSUME NEW x \in Workers, NEW g \in work'[x]
                PROVE  Calls(g.resource, log[g.resource][g.offset])
                         \subseteq {e.rule : e \in g.left} \cup Ids(findings[g.resource], g.offset)
    BY <1>1 DEF NothingIsForgotten
  <2>1. CASE g = h
    BY <1>6, <2>1, EvaluateCalls DEF c
  <2>2. CASE g \in work[x]
    BY <2>2 DEF IInv, EngineInv, NothingIsForgotten
  <2>. QED
    BY <1>10, <2>1, <2>2
<1>15. OneReplica'
  <2>1. \A x \in Workers : \A g \in work[x] : g.resource \in takenOver \/ owner[g.resource] = x
    BY DEF IInv, EngineInv, OneReplica
  <2>2. UNCHANGED <<owner, takenOver>>
    BY <1>1 DEF queue
  <2>. QED
    BY <1>1, <1>6, <1>8, <1>9, <2>1, <2>2 DEF OneReplica
<1>16. NoLessSevere'
  <2>. SUFFICES ASSUME NEW x \in Workers, NEW g \in work'[x], NEW e \in g.left,
                       NEW k \in DOMAIN findings[g.resource],
                       g.resource \notin takenOver, findings[g.resource][k].offset = g.offset,
                       findings[g.resource][k].rule = e.rule
                PROVE  Rank(findings[g.resource][k].severity) <= Rank(e.severity)
    BY <1>1 DEF NoLessSevere
  <2>1. CASE g = h
    <3>. DEFINE f == findings[r][k]
    <3>1. PICK d \in 0 .. today : Draws(r, log[r][f.offset], d, f.rule, f.severity)
      BY <1>6, <2>1 DEF IInv, EngineInv, Justified
    <3>2. log[r][f.offset] = s
      BY <1>6, <2>1
    <3>3. PICK i \in DOMAIN catalog :
            /\ RuleFires(catalog[i], ContextOn(r, s, d))
            /\ f.rule = catalog[i].id /\ f.severity = Severity(catalog[i], ContextOn(r, s, d))
      BY <3>1, <3>2 DEF Draws
    <3>4. PICK j \in DOMAIN catalog : e.rule = catalog[j].id /\ e.severity = Severity(catalog[j], c)
      BY <1>6, <2>1, EvaluationIsOf
    <3>5. i = j
      BY <1>6, <2>1, <3>3, <3>4, OneRulePerId
    <3>6. d \in Nat /\ d <= today
      BY <1>11, <3>1
    <3>7. Rank(Severity(catalog[i], ContextOn(r, s, d))) <= Rank(Severity(catalog[i], ContextOn(r, s, today)))
      BY <1>5, <1>11, <3>3, <3>6, SeverityIsMonotonic
    <3>. QED
      BY <1>6, <2>1, <3>3, <3>4, <3>5, <3>7 DEF c
  <2>2. CASE g \in work[x]
    BY <2>2 DEF IInv, EngineInv, NoLessSevere
  <2>. QED
    BY <1>10, <2>1, <2>2
<1>. QED
  BY <1>1, <1>2, <1>11, <1>12, <1>13, <1>14, <1>15, <1>16 DEF IInv, EngineInv

LEMMA PublishFindingStep ==
  ASSUME IInv, NEW w \in Workers, PublishFinding(w)
  PROVE  IInv'
<1>1. PICK h \in work[w] : \E e \in h.left :
        /\ findings' = [findings EXCEPT ![h.resource] = Append(@, FindingDetected(h, e))]
        /\ work' = [work EXCEPT ![w] = {[h EXCEPT !.left = @ \ {e}]}]
        /\ UNCHANGED <<signalVars, faults, today, others, queue, rebalances, dropped, takenOver>>
  BY DEF PublishFinding
<1>2. PICK e \in h.left :
        /\ findings' = [findings EXCEPT ![h.resource] = Append(@, FindingDetected(h, e))]
        /\ work' = [work EXCEPT ![w] = {[h EXCEPT !.left = @ \ {e}]}]
        /\ UNCHANGED <<log, requests, minted, accepted, today, queue, dropped, takenOver>>
  BY <1>1 DEF signalVars
<1>. DEFINE r == h.resource
            f == FindingDetected(h, e)
            n == [h EXCEPT !.left = @ \ {e}]
<1>3. h \in Handlers /\ h.offset \in 1 .. Len(log[r]) /\ r \in Resources
  BY DEF IInv, EngineInv, WorkType, Handlers
<1>4. /\ n \in Handlers /\ n.resource = r /\ n.offset = h.offset /\ n.left = h.left \ {e}
      /\ n.left \subseteq h.left
  BY <1>3 DEF Handlers
<1>5. f \in Findings /\ f.offset = h.offset /\ f.rule = e.rule /\ f.severity = e.severity
  BY <1>3 DEF Handlers, Due, Findings, FindingDetected
<1>6. SignalInv' /\ LogGrows
  BY <1>2, SignalsLeftAlone DEF IInv
<1>7. PICK d \in 0 .. today : h.left \subseteq Evaluate(ContextOn(r, log[r][h.offset], d))
  BY DEF IInv, EngineInv, OneEvaluation
<1>. HIDE DEF r, f, n
<1>8. /\ findings' = [findings EXCEPT ![r] = Append(@, f)] /\ work' = [work EXCEPT ![w] = {n}]
      /\ r = h.resource
  BY <1>2 DEF r, f, n
<1>9. /\ work' \in [Workers -> SUBSET Handlers] /\ work'[w] = {n}
      /\ \A x \in Workers : x # w => work'[x] = work[x]
  BY <1>4, <1>8 DEF IInv, EngineInv, WorkType
<1>10. findings[r] \in Seq(Findings) /\ findings'[r] = Append(findings[r], f)
  BY <1>3, <1>8 DEF IInv, EngineInv, FindingsType
<1>11. /\ findings' \in [Resources -> Seq(Findings)]
       /\ \A x \in Resources : x # r => findings'[x] = findings[x]
  BY <1>3, <1>5, <1>8 DEF IInv, EngineInv, FindingsType
<1>12. /\ Len(findings[r]) \in Nat /\ DOMAIN findings[r] = 1 .. Len(findings[r])
       /\ DOMAIN findings'[r] = 1 .. Len(findings[r]) + 1
       /\ findings'[r][Len(findings[r]) + 1] = f
       /\ \A k \in 1 .. Len(findings[r]) : findings'[r][k] = findings[r][k]
  BY <1>5, <1>10
<1>13. \A k \in DOMAIN findings'[r] : k \in DOMAIN findings[r] \/ findings'[r][k] = f
  BY <1>12
<1>14. /\ \A x \in Resources : \A o : Ids(findings[x], o) \subseteq Ids(findings'[x], o)
       /\ e.rule \in Ids(findings'[r], h.offset)
  <2>1. \A o : Ids(findings[r], o) \subseteq Ids(findings'[r], o)
    BY <1>12 DEF Ids
  <2>2. e.rule \in Ids(findings'[r], h.offset)
    <3>1. Len(findings[r]) + 1 \in DOMAIN findings'[r]
      BY <1>12
    <3>. QED
      BY <1>5, <1>12, <3>1 DEF Ids
  <2>. QED
    BY <1>11, <2>1, <2>2
<1>15. QueueType' /\ today' \in Nat
  BY <1>2 DEF IInv, EngineInv, QueueType, queue
<1>16. WorkType'
  <2>1. \A g \in work'[w] : g = n /\ g.offset \in 1 .. Len(log[g.resource])
    BY <1>3, <1>4, <1>8, <1>9
  <2>. QED
    BY <1>2, <1>9, <2>1 DEF IInv, EngineInv, WorkType
<1>17. FindingsType'
  <2>. SUFFICES ASSUME NEW x \in Resources, NEW k \in DOMAIN findings'[x]
                PROVE  findings'[x][k].offset \in 1 .. Len(log[x])
    BY <1>2, <1>11 DEF FindingsType
  <2>. QED
    BY <1>3, <1>5, <1>8, <1>11, <1>12, <1>13 DEF IInv, EngineInv, FindingsType
<1>18. Justified'
  <2>. SUFFICES ASSUME NEW x \in Resources, NEW k \in DOMAIN findings'[x]
                PROVE  \E day \in 0 .. today :
                         Draws(x, log[x][findings'[x][k].offset], day,
                               findings'[x][k].rule, findings'[x][k].severity)
    BY <1>2 DEF Justified
  <2>1. CASE x = r /\ findings'[r][k] = f
    <3>1. Draws(r, log[r][h.offset], d, e.rule, e.severity)
      BY <1>7, EvaluationIsOf DEF Draws
    <3>. QED
      BY <1>5, <2>1, <3>1
  <2>2. CASE k \in DOMAIN findings[x] /\ findings'[x][k] = findings[x][k]
    BY <2>2 DEF IInv, EngineInv, Justified
  <2>. QED
    BY <1>11, <1>12, <1>13, <2>1, <2>2
<1>19. OneEvaluation'
  <2>. SUFFICES ASSUME NEW x \in Workers, NEW g \in work'[x]
                PROVE  \E day \in 0 .. today :
                         g.left \subseteq Evaluate(ContextOn(g.resource, log[g.resource][g.offset], day))
    BY <1>2 DEF OneEvaluation
  <2>1. CASE x = w
    <3>1. g = n
      BY <1>9, <2>1
    <3>2. n.left \subseteq Evaluate(ContextOn(n.resource, log[n.resource][n.offset], d))
      BY <1>4, <1>7
    <3>. QED
      BY <3>1, <3>2
  <2>2. CASE x # w
    BY <1>9, <2>2 DEF IInv, EngineInv, OneEvaluation
  <2>. QED
    BY <2>1, <2>2
<1>20. NothingIsForgotten'
  <2>. SUFFICES ASSUME NEW x \in Workers, NEW g \in work'[x]
                PROVE  Calls(g.resource, log[g.resource][g.offset])
                         \subseteq {due.rule : due \in g.left} \cup Ids(findings'[g.resource], g.offset)
    BY <1>2 DEF NothingIsForgotten
  <2>1. CASE x = w
    <3>1. g = n
      BY <1>9, <2>1
    <3>2. Calls(r, log[r][h.offset]) \subseteq {due.rule : due \in h.left} \cup Ids(findings[r], h.offset)
      BY <1>8 DEF IInv, EngineInv, NothingIsForgotten
    <3>3. {due.rule : due \in h.left} \subseteq {due.rule : due \in n.left} \cup {e.rule}
      BY <1>4
    <3>4. Ids(findings[r], h.offset) \subseteq Ids(findings'[r], h.offset)
      BY <1>3, <1>8, <1>14
    <3>. QED
      BY <1>4, <1>14, <3>1, <3>2, <3>3, <3>4
  <2>2. CASE x # w
    <3>1. g \in work[x] /\ g.resource \in Resources
      BY <1>9, <2>2 DEF IInv, EngineInv, WorkType, Handlers
    <3>2. Calls(g.resource, log[g.resource][g.offset])
            \subseteq {due.rule : due \in g.left} \cup Ids(findings[g.resource], g.offset)
      BY <3>1 DEF IInv, EngineInv, NothingIsForgotten
    <3>. QED
      BY <1>14, <3>1, <3>2
  <2>. QED
    BY <2>1, <2>2
<1>21. Finished'
  <2>. SUFFICES ASSUME NEW x \in Resources, NEW o \in start[x] + 1 .. cursor[x],
                       <<x, o>> \notin dropped
                PROVE  Calls(x, log[x][o]) \subseteq Ids(findings'[x], o)
    BY <1>2 DEF Finished, queue
  <2>1. Calls(x, log[x][o]) \subseteq Ids(findings[x], o)
    BY DEF IInv, EngineInv, Finished
  <2>. QED
    BY <1>14, <2>1
<1>22. OneReplica'
  <2>. SUFFICES ASSUME NEW x \in Workers, NEW g \in work'[x]
                PROVE  g.resource \in takenOver \/ owner[g.resource] = x
    BY <1>2 DEF OneReplica, queue
  <2>1. CASE x = w
    <3>1. g.resource = h.resource
      BY <1>4, <1>8, <1>9, <2>1
    <3>. QED
      BY <2>1, <3>1 DEF IInv, EngineInv, OneReplica
  <2>2. CASE x # w
    BY <1>9, <2>2 DEF IInv, EngineInv, OneReplica
  <2>. QED
    BY <2>1, <2>2
<1>23. NoLessSevere'
  <2>. SUFFICES ASSUME NEW x \in Workers, NEW g \in work'[x], NEW due \in g.left,
                       NEW k \in DOMAIN findings'[g.resource],
                       g.resource \notin takenOver, findings'[g.resource][k].offset = g.offset,
                       findings'[g.resource][k].rule = due.rule
                PROVE  Rank(findings'[g.resource][k].severity) <= Rank(due.severity)
    BY <1>2, SMTT(20) DEF NoLessSevere
  <2>1. CASE x = w
    <3>1. g = n /\ due \in h.left /\ due # e /\ g.resource = r
      BY <1>4, <1>9, <2>1
    <3>2. PICK i \in DOMAIN catalog :
            e.at = i /\ e.rule = catalog[i].id
              /\ e = Evaluation(i, ContextOn(r, log[r][h.offset], d))
      BY <1>7, <1>8 DEF Evaluate, Evaluation
    <3>3. PICK j \in DOMAIN catalog :
            due.at = j /\ due.rule = catalog[j].id
              /\ due = Evaluation(j, ContextOn(r, log[r][h.offset], d))
      BY <1>7, <1>8, <3>1 DEF Evaluate, Evaluation
    <3>4. due.rule # e.rule
      BY <3>1, <3>2, <3>3, OneRulePerId
    <3>5. findings'[r][k] # f
      BY <1>5, <3>1, <3>4
    <3>6. k \in DOMAIN findings[r] /\ findings'[r][k] = findings[r][k]
      BY <1>12, <1>13, <3>1, <3>5
    <3>7. \A t \in DOMAIN findings[r] :
            r \notin takenOver /\ findings[r][t].offset = h.offset /\ findings[r][t].rule = due.rule
              => Rank(findings[r][t].severity) <= Rank(due.severity)
      BY <1>8, <3>1 DEF IInv, EngineInv, NoLessSevere
    <3>. QED
      BY <1>4, <3>1, <3>6, <3>7
  <2>2. CASE x # w
    <3>1. g \in work[x] /\ g.resource \in Resources
      BY <1>9, <2>2 DEF IInv, EngineInv, WorkType, Handlers
    <3>2. g.resource # r
      BY <1>8, <2>2, <3>1 DEF IInv, EngineInv, OneReplica
    <3>. QED
      BY <1>11, <3>1, <3>2 DEF IInv, EngineInv, NoLessSevere
  <2>. QED
    BY <2>1, <2>2
<1>24. SeverityFallsOnlyByTakeover'
  <2>. SUFFICES ASSUME NEW x \in Resources, x \notin takenOver,
                       NEW i \in DOMAIN findings'[x], NEW j \in DOMAIN findings'[x], i < j,
                       findings'[x][i].rule = findings'[x][j].rule,
                       findings'[x][i].offset = findings'[x][j].offset
                PROVE  Rank(findings'[x][i].severity) <= Rank(findings'[x][j].severity)
    <3>1. takenOver' = takenOver
      BY <1>2
    <3>. QED
      BY <3>1 DEF SeverityFallsOnlyByTakeover, Rank
  <2>1. CASE x # r
    <3>1. findings'[x] = findings[x]
      BY <1>11, <2>1
    <3>2. SeverityFallsOnlyByTakeover
      BY DEF IInv, EngineInv
    <3>. QED
      BY <3>1, <3>2 DEF SeverityFallsOnlyByTakeover, Rank
  <2>2. CASE x = r /\ j \in DOMAIN findings[r]
    <3>1. i \in DOMAIN findings[r]
      BY <1>12, <2>2
    <3>2. findings'[r][i] = findings[r][i] /\ findings'[r][j] = findings[r][j]
      BY <1>12, <2>2, <3>1
    <3>3. SeverityFallsOnlyByTakeover
      BY DEF IInv, EngineInv
    <3>. QED
      BY <2>2, <3>1, <3>2, <3>3 DEF SeverityFallsOnlyByTakeover, Rank
  <2>3. CASE x = r /\ j \notin DOMAIN findings[r]
    <3>1. /\ j = Len(findings[r]) + 1 /\ i \in DOMAIN findings[r]
          /\ findings'[r][i] = findings[r][i] /\ findings'[r][j] = f
      BY <1>12, <2>3
    <3>2. findings[r][i].rule = e.rule /\ findings[r][i].offset = h.offset
      BY <1>5, <2>3, <3>1
    <3>3. Rank(findings[r][i].severity) <= Rank(e.severity)
      BY <1>8, <2>3, <3>1, <3>2 DEF IInv, EngineInv, NoLessSevere
    <3>. QED
      BY <1>5, <2>3, <3>1, <3>3
  <2>. QED
    BY <2>1, <2>2, <2>3
<1>. QED
  BY <1>6, <1>15, <1>16, <1>17, <1>18, <1>19, <1>20, <1>21, <1>22, <1>23, <1>24
     DEF IInv, EngineInv

(* Nothing but the queue, the handlers that are running and what was       *)
(* dead-lettered changes, and no handler is started.                       *)
LEMMA QueueStep ==
  ASSUME IInv, UNCHANGED <<log, requests, minted, accepted, today, findings>>,
         QueueType', Finished', OneReplica', takenOver \subseteq takenOver',
         work' \in [Workers -> SUBSET Handlers],
         \A w \in Workers : work'[w] \subseteq work[w]
  PROVE  IInv'
<1>1. SignalInv' /\ LogGrows
  BY SignalsLeftAlone DEF IInv
<1>2. today \in Nat /\ today' \in Nat /\ today <= today'
  BY DEF IInv, EngineInv
<1>3. /\ WorkType' /\ FindingsType' /\ Justified' /\ OneEvaluation'
      /\ NothingIsForgotten' /\ NoLessSevere' /\ SeverityFallsOnlyByTakeover'
  BY <1>1, <1>2, Quiet
<1>. QED
  BY <1>1, <1>2, <1>3 DEF IInv, EngineInv

LEMMA WorkShrinks ==
  ASSUME IInv, NEW w \in Workers, work' = [work EXCEPT ![w] = {}]
  PROVE  /\ work' \in [Workers -> SUBSET Handlers]
         /\ \A x \in Workers : work'[x] \subseteq work[x]
BY DEF IInv, EngineInv, WorkType

LEMMA OneReplicaKept ==
  ASSUME IInv, UNCHANGED <<owner, takenOver>>, \A x \in Workers : work'[x] \subseteq work[x]
  PROVE  OneReplica'
BY DEF IInv, EngineInv, OneReplica

LEMMA RejectStep ==
  ASSUME IInv, NEW w \in Workers, NEW r \in Resources, Reject(w, r)
  PROVE  IInv'
<1>1. /\ cursor[r] < Len(log[r]) /\ dropped' = dropped \cup {<<r, cursor[r] + 1>>}
      /\ cursor' = [cursor EXCEPT ![r] = @ + 1]
      /\ UNCHANGED <<log, requests, minted, accepted, today, findings>>
      /\ UNCHANGED <<owner, committed, start, work, takenOver>>
  BY DEF Reject, MayHandle, signalVars
<1>2. \A x \in Resources : Len(log[x]) \in Nat
  BY LogIs DEF IInv, SignalInv, SignalType
<1>3. QueueType'
  <2>1. cursor' \in [Resources -> Nat] /\ cursor \in [Resources -> Nat]
    BY <1>1 DEF IInv, EngineInv, QueueType
  <2>2. ASSUME NEW x \in Resources
        PROVE  /\ cursor'[x] >= cursor[x] /\ cursor'[x] <= Len(log[x])
               /\ committed[x] <= cursor'[x] /\ start[x] <= cursor'[x]
    <3>1. /\ committed[x] \in Nat \cup {NoOffset} /\ start[x] \in Nat
          /\ committed[x] <= cursor[x] /\ start[x] <= cursor[x] /\ cursor[x] <= Len(log[x])
      BY DEF IInv, EngineInv, QueueType
    <3>2. \/ cursor'[x] = cursor[x]
          \/ x = r /\ cursor'[x] = cursor[x] + 1
      BY <1>1, <2>1
    <3>3. cursor[x] \in Nat /\ Len(log[x]) \in Nat /\ (x = r => cursor[x] < Len(log[x]))
      BY <1>1, <1>2, <2>1
    <3>. QED
      BY <3>1, <3>2, <3>3 DEF NoOffset
  <2>. QED
    BY <1>1, <2>1, <2>2 DEF IInv, EngineInv, QueueType
<1>4. SignalInv' /\ LogGrows
  BY <1>1, SignalsLeftAlone DEF IInv
<1>5. /\ cursor' \in [Resources -> Nat]
      /\ \A x \in Resources : cursor'[x] > cursor[x] => x = r /\ cursor'[x] = cursor[x] + 1
  BY <1>1 DEF IInv, EngineInv, QueueType
<1>6. Finished'
  BY <1>1, <1>4, <1>5, FinishedStep
<1>7. work' \in [Workers -> SUBSET Handlers] /\ \A x \in Workers : work'[x] \subseteq work[x]
  BY <1>1 DEF IInv, EngineInv, WorkType
<1>. QED
  BY <1>1, <1>3, <1>6, <1>7, OneReplicaKept, QueueStep

(* A handler ends, and its signal is shown or dead-lettered.               *)
LEMMA ResolveStep ==
  ASSUME IInv, NEW w \in Workers, NEW h \in work[w], Resolve(w, h),
         h.left = {} \/ <<h.resource, h.offset>> \in dropped', dropped \subseteq dropped',
         work' = [work EXCEPT ![w] = {}],
         UNCHANGED <<log, requests, minted, accepted, today, findings, owner, committed, start,
                     takenOver>>
  PROVE  IInv'
<1>. DEFINE r == h.resource
<1>1. h.resource \in Resources /\ h.offset \in 1 .. Len(log[r]) /\ Len(log[r]) \in Nat
  BY LogIs DEF IInv, EngineInv, SignalInv, SignalType, WorkType, Handlers
<1>2. \/ cursor' = cursor
      \/ cursor[r] + 1 = h.offset /\ cursor' = [cursor EXCEPT ![r] = h.offset]
  BY DEF Resolve
<1>. HIDE DEF r
<1>3. cursor \in [Resources -> Nat] /\ r \in Resources /\ h.offset \in Nat /\ r = h.resource
  BY <1>1 DEF IInv, EngineInv, QueueType, r
<1>4. /\ cursor' \in [Resources -> Nat]
      /\ \A x \in Resources : cursor'[x] > cursor[x] =>
           x = r /\ cursor'[x] = cursor[x] + 1 /\ cursor[x] + 1 = h.offset
      /\ \A x \in Resources : cursor'[x] >= cursor[x]
  BY <1>2, <1>3
<1>5. \A x \in Resources : cursor'[x] <= Len(log[x])
  <2>1. \A x \in Resources : Len(log[x]) \in Nat /\ cursor[x] <= Len(log[x])
    BY LogIs DEF IInv, EngineInv, SignalInv, SignalType, QueueType
  <2>2. h.offset <= Len(log[r])
    BY <1>1, <1>3
  <2>. QED
    BY <1>2, <1>3, <2>1, <2>2
<1>6. QueueType'
  <2>1. ASSUME NEW x \in Resources
        PROVE  committed[x] <= cursor'[x] /\ start[x] <= cursor'[x]
    <3>1. /\ committed[x] \in Nat \cup {NoOffset} /\ start[x] \in Nat
          /\ committed[x] <= cursor[x] /\ start[x] <= cursor[x]
      BY DEF IInv, EngineInv, QueueType
    <3>2. cursor[x] \in Nat /\ cursor'[x] \in Nat /\ cursor'[x] >= cursor[x]
      BY <1>3, <1>4
    <3>. QED
      BY <3>1, <3>2 DEF NoOffset
  <2>. QED
    BY <1>4, <1>5, <2>1 DEF IInv, EngineInv, QueueType
<1>7. SignalInv' /\ LogGrows
  BY SignalsLeftAlone DEF IInv
<1>8. \/ \A x \in Resources : cursor'[x] <= cursor[x]
      \/ <<r, cursor[r] + 1>> \in dropped'
      \/ Calls(r, log'[r][cursor[r] + 1]) \subseteq Ids(findings[r], cursor[r] + 1)
  <2>1. CASE cursor' = cursor
    BY <1>3, <2>1
  <2>2. CASE cursor[r] + 1 = h.offset /\ <<h.resource, h.offset>> \in dropped'
    BY <1>3, <2>2
  <2>3. CASE cursor[r] + 1 = h.offset /\ h.left = {}
    <3>1. Calls(r, log[r][h.offset]) \subseteq {e.rule : e \in h.left} \cup Ids(findings[r], h.offset)
      BY <1>3 DEF IInv, EngineInv, NothingIsForgotten
    <3>. QED
      BY <2>3, <3>1
  <2>. QED
    BY <1>2, <2>1, <2>2, <2>3
<1>9. Finished'
  BY <1>4, <1>7, <1>8, FinishedStep
<1>. QED
  BY <1>6, <1>9, WorkShrinks, OneReplicaKept, QueueStep

LEMMA ReturnStep ==
  ASSUME IInv, NEW w \in Workers, Return(w)
  PROVE  IInv'
<1>1. PICK h \in work[w] :
        /\ h.left = {} /\ work' = [work EXCEPT ![w] = {}] /\ Resolve(w, h)
        /\ UNCHANGED <<log, requests, minted, accepted, today, findings, owner, committed,
                       start, takenOver, dropped>>
  BY DEF Return, signalVars
<1>. QED
  BY <1>1, ResolveStep

LEMMA FailStep ==
  ASSUME IInv, NEW w \in Workers, Fail(w)
  PROVE  IInv'
<1>1. PICK h \in work[w] :
        /\ work' = [work EXCEPT ![w] = {}] /\ Resolve(w, h)
        /\ dropped' = dropped \cup {<<h.resource, h.offset>>}
        /\ UNCHANGED <<log, requests, minted, accepted, today, findings, owner, committed,
                       start, takenOver>>
  BY DEF Fail, signalVars
<1>. QED
  BY <1>1, ResolveStep

LEMMA CommitStep ==
  ASSUME IInv, NEW r \in Resources, Commit(r)
  PROVE  IInv'
<1>1. /\ start[r] < cursor[r] /\ committed' = [committed EXCEPT ![r] = cursor[r]]
      /\ UNCHANGED <<log, requests, minted, accepted, today, findings>>
      /\ UNCHANGED <<owner, cursor, start, work, dropped, takenOver>>
  BY DEF Commit, signalVars
<1>2. QueueType'
  BY <1>1 DEF IInv, EngineInv, QueueType
<1>3. Finished'
  BY <1>1 DEF IInv, EngineInv, Finished
<1>4. work' \in [Workers -> SUBSET Handlers] /\ \A x \in Workers : work'[x] \subseteq work[x]
  BY <1>1 DEF IInv, EngineInv, WorkType
<1>. QED
  BY <1>1, <1>2, <1>3, <1>4, OneReplicaKept, QueueStep

LEMMA CrashStep ==
  ASSUME IInv, NEW w \in Workers, Crash(w)
  PROVE  IInv'
<1>1. /\ work' = [work EXCEPT ![w] = {}]
      /\ Restart({r \in Resources : owner[r] = w})
      /\ UNCHANGED <<log, requests, minted, accepted, today, findings>>
      /\ UNCHANGED <<owner, committed, dropped, takenOver>>
  BY DEF Crash, signalVars
<1>2. owner' \in [Resources -> Workers]
  BY <1>1 DEF IInv, EngineInv, QueueType
<1>3. QueueType' /\ Finished'
  BY <1>1, <1>2, Restarts
<1>. QED
  BY <1>1, <1>3, WorkShrinks, OneReplicaKept, QueueStep

LEMMA RebalanceStep ==
  ASSUME IInv, NEW r \in Resources, NEW w \in Workers, Rebalance(r, w)
  PROVE  IInv'
<1>1. /\ owner' = [owner EXCEPT ![r] = w] /\ Restart({r})
      /\ takenOver' = IF \E h \in work[owner[r]] : h.resource = r
                      THEN takenOver \cup {r} ELSE takenOver
      /\ UNCHANGED <<log, requests, minted, accepted, today, findings>>
      /\ UNCHANGED <<committed, work, dropped>>
  BY DEF Rebalance, signalVars
<1>2. owner' \in [Resources -> Workers]
  BY <1>1 DEF IInv, EngineInv, QueueType
<1>3. QueueType' /\ Finished'
  BY <1>1, <1>2, Restarts
<1>4. work' \in [Workers -> SUBSET Handlers] /\ \A x \in Workers : work'[x] \subseteq work[x]
  BY <1>1 DEF IInv, EngineInv, WorkType
<1>5. OneReplica'
  <2>. SUFFICES ASSUME NEW x \in Workers, NEW h \in work[x], h.resource \notin takenOver'
                PROVE  owner'[h.resource] = x
    BY <1>1 DEF OneReplica
  <2>1. h.resource \notin takenOver
    BY <1>1
  <2>2. owner[h.resource] = x
    BY <2>1 DEF IInv, EngineInv, OneReplica
  <2>3. h.resource # r
    BY <1>1, <2>2
  <2>. QED
    BY <1>1, <2>2, <2>3 DEF IInv, EngineInv, QueueType
<1>. QED
  BY <1>1, <1>3, <1>4, <1>5, QueueStep
-----------------------------------------------------------------------------
LEMMA Initially == Init => IInv
<1>. SUFFICES ASSUME Init
              PROVE  IInv
  OBVIOUS
<1>. USE DEF Init, SignalInit
<1>1. SignalInv
  BY DEF SignalInv, SignalType, LogOK, NothingIsSkipped, AcceptedIsDurable
<1>2. today \in Nat /\ QueueType
  BY SecurityAssumption DEF QueueType, NoOffset
<1>3. WorkType /\ FindingsType
  BY DEF WorkType, FindingsType
<1>4. Justified /\ OneEvaluation /\ NothingIsForgotten /\ Finished
  BY DEF Justified, OneEvaluation, NothingIsForgotten, Finished
<1>5. OneReplica /\ NoLessSevere /\ SeverityFallsOnlyByTakeover
  BY DEF OneReplica, NoLessSevere, SeverityFallsOnlyByTakeover
<1>. QED
  BY <1>1, <1>2, <1>3, <1>4, <1>5 DEF IInv, EngineInv

LEMMA Inductive == IInv /\ [Next]_vars => IInv'
<1>. SUFFICES ASSUME IInv, [Next]_vars
              PROVE  IInv'
  OBVIOUS
<1>1. today \in Nat /\ today <= today
  BY DEF IInv, EngineInv
<1>2. CASE Ingest
  <2>1. SignalInv' /\ LogGrows
    BY <1>2, PostStep, NormalizeStep, PublishStep, SignalFailsStep, ReplyStep DEF Ingest, IInv
  <2>. QED
    BY <1>1, <1>2, <2>1, SignalsOnly DEF Ingest, engineVars
<1>3. ASSUME NEW s \in OtherSignals, Arrive(s) PROVE IInv'
  <2>1. SignalInv' /\ LogGrows
    BY <1>3, ArriveStep DEF IInv
  <2>. QED
    BY <1>1, <1>3, <2>1, SignalsOnly DEF Arrive
<1>4. CASE Tick
  <2>1. SignalInv' /\ LogGrows
    BY <1>4, SignalsLeftAlone DEF Tick, signalVars, IInv
  <2>2. today' \in Nat /\ today <= today'
    BY <1>1, <1>4 DEF Tick
  <2>. QED
    BY <1>4, <2>1, <2>2, SignalsOnly DEF Tick
<1>5. CASE UNCHANGED vars
  <2>1. SignalInv' /\ LogGrows
    BY <1>5, SignalsLeftAlone DEF vars, signalVars, IInv
  <2>. QED
    BY <1>1, <1>5, <2>1, SignalsOnly DEF vars
<1>. QED
  BY <1>2, <1>3, <1>4, <1>5, StartStep, RejectStep, PublishFindingStep, ReturnStep, FailStep,
     CrashStep, CommitStep, RebalanceStep DEF Next

LEMMA InvariantHolds == Spec => []IInv
BY Initially, Inductive, PTL DEF Spec

(* No replica has read or committed what is not there, whatever fails and  *)
(* whoever takes over; every finding is about a signal of its resource and *)
(* of a rule of the catalog; only minted ids were answered for.            *)
THEOREM TypeCorrect == Spec => []TypeOK
<1>1. IInv => TypeOK
  <2>. SUFFICES ASSUME IInv
                PROVE  TypeOK
    OBVIOUS
  <2>1. \A r \in Resources : \A i \in DOMAIN findings[r] :
          findings[r][i].offset \in 1 .. Len(log[r]) /\ findings[r][i].rule \in RuleIds
    <3>1. \A r \in Resources : \A i \in DOMAIN findings[r] : findings[r][i] \in Findings
      BY DEF IInv, EngineInv, FindingsType
    <3>. QED
      BY <3>1 DEF IInv, EngineInv, FindingsType, Findings
  <2>2. \A w \in Workers : \A h \in work[w] :
          h.resource \in Resources /\ h.offset \in 1 .. Len(log[h.resource])
    BY DEF IInv, EngineInv, WorkType, Handlers
  <2>. QED
    BY <2>1, <2>2 DEF IInv, EngineInv, SignalInv, SignalType, QueueType, TypeOK
<1>. QED
  BY <1>1, InvariantHolds, PTL

(* signal.service.ts:17: what was answered with 202 is on the bus, all of  *)
(* a batch, whatever failed in it or in another collector's.               *)
THEOREM AcceptedSignalsAreDurable == Spec => []AcceptedIsDurable
<1>1. IInv => AcceptedIsDurable
  BY DEF IInv, SignalInv
<1>. QED
  BY <1>1, InvariantHolds, PTL

(* The offset of a signal is passed only when every finding its attributes *)
(* call for is on the bus, or the signal is dead-lettered, or was there    *)
(* before the group, with nothing committed, last began at the end: once   *)
(* something is committed, no crash, rebalance or late commit skips one.   *)
THEOREM FinishedSignalsAreShown == Spec => []FinishedIsShown
<1>1. IInv => FinishedIsShown
  <2>. SUFFICES ASSUME IInv, NEW r \in Resources, NEW o \in start[r] + 1 .. cursor[r],
                       <<r, o>> \notin dropped,
                       NEW rule \in Rules, rule.id # "SEC-SECRET-EXPIRED",
                       RuleFires(rule, Context(r, log[r][o]))
                PROVE  \E k \in DOMAIN findings[r] :
                         findings[r][k].offset = o /\ findings[r][k].rule = rule.id
    BY DEF FinishedIsShown, Shown
  <2>0. PICK i \in DOMAIN catalog : rule = catalog[i]
    BY DEF Rules
  <2>1. RuleFires(catalog[i], ContextOn(r, log[r][o], 0))
    BY <2>0, ContextIs, FiresOnAnyDay
  <2>2. catalog[i].id \in Calls(r, log[r][o])
    BY <2>0, <2>1 DEF Calls
  <2>3. catalog[i].id \in Ids(findings[r], o)
    BY <2>2 DEF IInv, EngineInv, Finished
  <2>. QED
    BY <2>0, <2>3 DEF Ids
<1>. QED
  BY <1>1, InvariantHolds, PTL

(* In the order of the bus, what is found again of a signal is no less     *)
(* severe, unless its partition moved from under a running handler.        *)
THEOREM SeverityFallsOnlyThen == Spec => []SeverityFallsOnlyByTakeover
<1>1. IInv => SeverityFallsOnlyByTakeover
  BY DEF IInv, EngineInv
<1>. QED
  BY <1>1, InvariantHolds, PTL

(* Six of the catalog's rules are all that the four collectors can make    *)
(* fire, each of them about one kind of asset.                             *)
THEOREM CollectorsShowNothingElse == Spec => []CollectorsShow
<1>1. IInv => CollectorsShow
  <2>. SUFFICES ASSUME IInv, NEW r \in Resources, NEW k \in DOMAIN findings[r],
                       log[r][findings[r][k].offset].via = "collector"
                PROVE  ShownByCollectors(InferKind(r), findings[r][k].rule)
    BY DEF CollectorsShow, ShownByCollectors
  <2>. DEFINE s == log[r][findings[r][k].offset]
  <2>1. s \in LoggedAbout(r)
    BY LogIs DEF IInv, EngineInv, SignalInv, SignalType, FindingsType
  <2>2. Collectable(r, s.configuration)
    BY <2>1, LoggedIs
  <2>3. PICK d \in 0 .. today : Draws(r, s, d, findings[r][k].rule, findings[r][k].severity)
    BY DEF IInv, EngineInv, Justified
  <2>. HIDE DEF s
  <2>4. PICK i \in DOMAIN catalog :
          RuleFires(catalog[i], ContextOn(r, s, d)) /\ findings[r][k].rule = catalog[i].id
    BY <2>3 DEF Draws
  <2>. QED
    BY <2>2, <2>4, CollectableFires
<1>. QED
  BY <1>1, InvariantHolds, PTL
=============================================================================
