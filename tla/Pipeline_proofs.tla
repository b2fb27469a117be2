--------------------------- MODULE Pipeline_proofs ---------------------------
(***************************************************************************)
(* Theorems about the services in a row: what the scenarios of the         *)
(* simulator become on the bus and in the buckets, and which incidents can *)
(* come of it, for any campaigns, services, replicas and assignments of    *)
(* partitions, and any number of faults.                                   *)
(***************************************************************************)
EXTENDS Pipeline, FiniteSetTheorems, TLAPS

Demo == "deployment-incident"
-----------------------------------------------------------------------------
(* The catalog: no rule fires on an asset that is neither an image nor a   *)
(* pipeline when its configuration says nothing that a rule looks for.     *)
LEMMA CatalogIs ==
  /\ DOMAIN catalog = 1 .. 21
  /\ catalog[1].id = "CLOUD-STORAGE-PUBLIC" /\ catalog[2].id = "CLOUD-DB-PUBLIC"
  /\ catalog[3].id = "CLOUD-SG-OPEN-ADMIN" /\ catalog[4].id = "CLOUD-IAM-WILDCARD"
  /\ catalog[5].id = "CLOUD-RESOURCE-UNENCRYPTED"
  /\ catalog[6].id = "K8S-PRIVILEGED-CONTAINER" /\ catalog[7].id = "K8S-ROOT-CONTAINER"
  /\ catalog[8].id = "K8S-MISSING-RESOURCE-LIMITS" /\ catalog[9].id = "K8S-INSECURE-RBAC"
  /\ catalog[10].id = "K8S-HOST-NETWORK"
  /\ catalog[11].kinds = {"container-image"} /\ catalog[12].id = "IMG-LATEST-TAG"
  /\ catalog[13].kinds = {"container-image"} /\ catalog[14].id = "IMG-PRIVILEGED-RUNTIME"
  /\ catalog[15].id = "SEC-CREDENTIAL-EXPOSED" /\ catalog[16].id = "SEC-ENV-VAR-SECRET"
  /\ catalog[17].id = "SEC-SECRET-EXPIRED"
  /\ \A i \in 18 .. 21 : catalog[i].kinds = {"ci-pipeline"}
BY DEF catalog, cloudRules, kubernetesRules, containerRules, secretsRules, cicdRules, Rule

LEMMA Categories ==
  /\ \A i \in 1 .. 5 : catalog[i].category = "cloud"
  /\ \A i \in 6 .. 10 : catalog[i].category = "kubernetes"
  /\ \A i \in 11 .. 14 : catalog[i].category = "container"
  /\ \A i \in 15 .. 17 : catalog[i].category = "secrets"
BY DEF catalog, cloudRules, kubernetesRules, containerRules, secretsRules, cicdRules, Rule

NoContainers == [containers |-> {}, hostNetwork |-> FALSE]

LEMMA QuietFiresNothing ==
  ASSUME NEW c, c.configuration \in {Nothing, NoContainers},
         c.kind \notin {"container-image", "ci-pipeline"}
  PROVE  Evaluate(c) = {}
<1>1. /\ DOMAIN c.configuration \subseteq {"containers", "hostNetwork"}
      /\ "containers" \in DOMAIN c.configuration => c.configuration["containers"] = {}
      /\ "hostNetwork" \in DOMAIN c.configuration => c.configuration["hostNetwork"] = FALSE
  BY DEF Nothing, NoContainers
<1>2. \A key : key \notin {"containers", "hostNetwork"} => key \notin DOMAIN c.configuration
  BY <1>1
<1>3. Cfg(c, "containers", {}) = {} /\ ~Cfg(c, "hostNetwork", FALSE)
  BY <1>1 DEF Cfg
<1>4. ASSUME NEW i \in 1 .. 5, Matched(catalog[i], c) PROVE FALSE
  <2>1. CloudMatched(catalog[i].id, c)
    BY <1>4, Categories DEF Matched
  <2>2. \A key \in {"acl", "policyAllowsAnonymous", "publiclyAccessible", "ingress",
                    "statements", "encryptionEnabled"} : key \notin DOMAIN c.configuration
    BY <1>2
  <2>3. /\ ~CloudMatched("CLOUD-STORAGE-PUBLIC", c) /\ ~CloudMatched("CLOUD-DB-PUBLIC", c)
        /\ ~CloudMatched("CLOUD-SG-OPEN-ADMIN", c) /\ ~CloudMatched("CLOUD-IAM-WILDCARD", c)
        /\ ~CloudMatched("CLOUD-RESOURCE-UNENCRYPTED", c)
    BY <2>2 DEF CloudMatched, Cfg
  <2>. QED
    BY <2>1, <2>3, CatalogIs
<1>5. ASSUME NEW i \in 6 .. 10, Matched(catalog[i], c) PROVE FALSE
  <2>1. KubernetesMatched(catalog[i].id, c)
    BY <1>5, Categories DEF Matched
  <2>2. "roleBindings" \notin DOMAIN c.configuration
    BY <1>2
  <2>3. /\ ~KubernetesMatched("K8S-PRIVILEGED-CONTAINER", c)
        /\ ~KubernetesMatched("K8S-ROOT-CONTAINER", c)
        /\ ~KubernetesMatched("K8S-MISSING-RESOURCE-LIMITS", c)
        /\ ~KubernetesMatched("K8S-HOST-NETWORK", c)
    BY <1>3 DEF KubernetesMatched
  <2>4. ~KubernetesMatched("K8S-INSECURE-RBAC", c)
    BY <2>2 DEF KubernetesMatched, Cfg
  <2>. QED
    BY <2>1, <2>3, <2>4, CatalogIs
<1>6. ASSUME NEW i \in {12, 14}, Matched(catalog[i], c) PROVE FALSE
  <2>. i \in 11 .. 14
    OBVIOUS
  <2>1. ContainerMatched(catalog[i].id, c)
    BY <1>6, Categories DEF Matched
  <2>2. "images" \notin DOMAIN c.configuration /\ "capabilities" \notin DOMAIN c.configuration
    BY <1>2
  <2>3. ~ContainerMatched("IMG-LATEST-TAG", c) /\ ~ContainerMatched("IMG-PRIVILEGED-RUNTIME", c)
    BY <2>2 DEF ContainerMatched, Cfg
  <2>. QED
    BY <2>1, <2>3, CatalogIs
<1>7. ASSUME NEW i \in 15 .. 17, Matched(catalog[i], c) PROVE FALSE
  <2>1. SecretsMatched(catalog[i].id, c)
    BY <1>7, Categories DEF Matched
  <2>2. \A key \in {"secretMatches", "environmentVariables", "secretRotatedAt"} :
          key \notin DOMAIN c.configuration
    BY <1>2
  <2>3. /\ ~SecretsMatched("SEC-CREDENTIAL-EXPOSED", c)
        /\ ~SecretsMatched("SEC-ENV-VAR-SECRET", c) /\ ~SecretsMatched("SEC-SECRET-EXPIRED", c)
    BY <2>2 DEF SecretsMatched, Cfg
  <2>. QED
    BY <2>1, <2>3, CatalogIs
<1>8. \A i \in {11, 13} \cup 18 .. 21 : c.kind \notin catalog[i].kinds
  BY CatalogIs
<1>9. \A i \in DOMAIN catalog : ~RuleFires(catalog[i], c)
  <2>1. \A i \in DOMAIN catalog :
          i \in 1 .. 5 \cup 6 .. 10 \cup {12, 14} \cup 15 .. 17 \cup {11, 13} \cup 18 .. 21
    BY CatalogIs
  <2>. QED
    BY <1>4, <1>5, <1>6, <1>7, <1>8, <2>1 DEF RuleFires
<1>. QED
  BY <1>9 DEF Evaluate
-----------------------------------------------------------------------------
(* What the scenarios send, and what becomes of it.                        *)
LEMMA TheSignalIs ==
  ASSUME NEW source, NEW item, ~Dropped(source, item)
  PROVE  TheSignal(Message(source, item)) = SignalOf(source, item)
<1>. DEFINE m == Message(source, item)
<1>1. m.source = source /\ m.body.items = <<item>>
  BY DEF Message
<1>2. Normalize(m.source, m.body) = {[at |-> 1, signal |-> SignalOf(source, item)]}
  BY <1>1 DEF Normalize
<1>. DEFINE x == [at |-> 1, signal |-> SignalOf(source, item)]
<1>. HIDE DEF m
<1>3. (CHOOSE y \in Normalize(m.source, m.body) : TRUE) = x
  BY <1>2
<1>4. TheSignal(m) = x.signal
  BY <1>3 DEF TheSignal
<1>. QED
  BY <1>4 DEF m

LEMMA CloudTrailIs ==
  ASSUME NEW item, "resource" \in DOMAIN item, "environment" \notin DOMAIN item,
         NEW s, s = SignalOf("cloudtrail", item)
  PROVE  /\ s.type = "audit-event" /\ s.resource = item["resource"]
         /\ s.correlationId = ResourceId(s.resource)
         /\ s.environment = "production" /\ s.configuration = Nothing
BY DEF SignalOf, CloudTrail, Has

LEMMA DeploymentIs ==
  ASSUME NEW item, "head_sha" \in DOMAIN item, "environment" \notin DOMAIN item,
         NEW s, s = SignalOf("github-actions", item)
  PROVE  /\ s.type = "deployment-event" /\ s.resource = Under("service:", item.repository)
         /\ s.correlationId = item["head_sha"]
         /\ s.environment = "production" /\ s.configuration = Nothing
BY DEF SignalOf, GithubActions, Has

LEMMA AlertIs ==
  ASSUME NEW item, "service" \in DOMAIN item, "resource" \in DOMAIN item,
         "environment" \notin DOMAIN item, item.severity = "critical",
         NEW s, s = SignalOf("prometheus", item)
  PROVE  /\ s.type = "performance-alert" /\ s.resource = item["resource"]
         /\ s.service = item["service"].name
         /\ s.correlationId = ResourceId(s.resource) /\ s.severity = "critical"
         /\ s.environment = "production" /\ s.configuration = Nothing
BY DEF SignalOf, Prometheus, Has

LEMMA WorkloadIs ==
  ASSUME NEW item, "environment" \notin DOMAIN item,
         NEW s, s = SignalOf("kubernetes", item)
  PROVE  /\ s.type = "infrastructure-event" /\ s.resource = Under("k8s:", item.object)
         /\ s.correlationId = ResourceId(s.resource)
         /\ s.environment = "production"
         /\ "containers" \notin DOMAIN item /\ "hostNetwork" \notin DOMAIN item =>
              s.configuration = NoContainers
BY DEF SignalOf, Kubernetes, Has, NoContainers

(* An id that is not the default one is explicit.  (The provers' encoding  *)
(* has no empty string: what says "" is named, and the name is expanded    *)
(* only where nothing else is to be shown.)                                *)
Bare(name) == Plain("", name)
Explicit(id, default) == id # "" /\ id # default

LEMMA PlainIs ==
  ASSUME NEW prefix, NEW name, NEW r, r = Plain(prefix, name)
  PROVE  r.prefix = prefix /\ r.name = name
BY DEF Plain

LEMMA BareIs ==
  ASSUME NEW name, NEW r, r = Bare(name)
  PROVE  r.name = name /\ \A other : Under(other, r) = Plain(other, name)
BY Zenon DEF Bare, Plain, Under

LEMMA NotDropped == \A source, item : source # "prometheus" => ~Dropped(source, item)
BY DEF Dropped

(* What any signal of a scenario is like.  Only the demonstration raises   *)
(* an alert or sends a configuration that a rule fires on; and a commit    *)
(* that is deployed by another scenario gives its events a key of their    *)
(* own.                                                                    *)
SignalTypes == {"audit-event", "infrastructure-event", "deployment-event", "performance-alert"}
IsKnown(s, scenario) ==
  /\ s.environment = "production" /\ s.type \in SignalTypes
  /\ s.type # "deployment-event" => s.correlationId = ResourceId(s.resource)
  /\ s.type = "deployment-event" /\ scenario # Demo =>
       Explicit(s.correlationId, ResourceId(s.resource))
  /\ s.type = "performance-alert" =>
       scenario = Demo /\ s.service = "checkout" /\ s.severity = "critical"
  /\ \/ /\ s.configuration \in {Nothing, NoContainers}
        /\ InferKind(s.resource) \notin {"container-image", "ci-pipeline"}
     \/ scenario = Demo /\ s.resource = Plain("k8s:", "checkout") /\ s.service = "checkout"

LEMMA KindIs ==
  ASSUME NEW r, r.prefix \notin {"image:", "pipeline:"}
  PROVE  InferKind(r) \notin {"container-image", "ci-pipeline"}
BY DEF InferKind

LEMMA TrailIsKnown ==
  ASSUME NEW name, NEW origin, NEW r, NEW scenario, NEW item,
         NEW m, m = Message("cloudtrail", item),
         item = [eventName |-> name, eventSource |-> origin, resource |-> r],
         r.prefix \notin {"image:", "pipeline:"}
  PROVE  IsKnown(TheSignal(m), scenario)
<1>. DEFINE s == TheSignal(m)
<1>1. "resource" \in DOMAIN item /\ item["resource"] = r /\ "environment" \notin DOMAIN item
  OBVIOUS
<1>2. s = SignalOf("cloudtrail", item)
  BY TheSignalIs, NotDropped
<1>. HIDE DEF s
<1>3. /\ s.type = "audit-event" /\ s.resource = r
      /\ s.correlationId = ResourceId(s.resource) /\ s.environment = "production"
      /\ s.configuration = Nothing
  BY <1>1, <1>2, CloudTrailIs
<1>4. InferKind(s.resource) \notin {"container-image", "ci-pipeline"}
  BY <1>3, KindIs
<1>5. IsKnown(s, scenario)
  BY <1>3, <1>4 DEF IsKnown, SignalTypes
<1>. QED
  BY <1>5 DEF s

LEMMA DeploymentIsKnown ==
  ASSUME NEW name, NEW sha, NEW scenario, NEW item, NEW m, m = Message("github-actions", item),
         item.repository = Bare(name), "head_sha" \in DOMAIN item,
         item["head_sha"] = sha, "environment" \notin DOMAIN item,
         scenario # Demo => Explicit(sha, ResourceId(Plain("service:", name)))
  PROVE  IsKnown(TheSignal(m), scenario)
<1>. DEFINE s == TheSignal(m)
<1>1. s = SignalOf("github-actions", item)
  BY TheSignalIs, NotDropped
<1>. HIDE DEF s
<1>2. /\ s.type = "deployment-event" /\ s.resource = Under("service:", item.repository)
      /\ s.correlationId = sha /\ s.environment = "production"
      /\ s.configuration = Nothing
  BY <1>1, DeploymentIs
<1>3. s.resource = Plain("service:", name)
  BY <1>2, BareIs
<1>4. s.resource.prefix = "service:"
  BY <1>3, PlainIs
<1>5. InferKind(s.resource) \notin {"container-image", "ci-pipeline"}
  BY <1>4, KindIs
<1>6. IsKnown(s, scenario)
  BY <1>2, <1>3, <1>5 DEF IsKnown, SignalTypes
<1>. QED
  BY <1>6 DEF s

LEMMA WorkloadIsKnown ==
  ASSUME NEW scenario, NEW item, NEW m, m = Message("kubernetes", item),
         {"environment", "containers", "hostNetwork"} \cap DOMAIN item = {}
  PROVE  IsKnown(TheSignal(m), scenario)
<1>. DEFINE s == TheSignal(m)
<1>1. s = SignalOf("kubernetes", item)
  BY TheSignalIs, NotDropped
<1>. HIDE DEF s
<1>2. "environment" \notin DOMAIN item /\ "containers" \notin DOMAIN item
      /\ "hostNetwork" \notin DOMAIN item
  OBVIOUS
<1>3. /\ s.type = "infrastructure-event" /\ s.resource = Under("k8s:", item.object)
      /\ s.correlationId = ResourceId(s.resource) /\ s.environment = "production"
      /\ s.configuration = NoContainers
  BY <1>1, <1>2, WorkloadIs
<1>4. s.resource.prefix = "k8s:"
  BY <1>3 DEF Under
<1>5. InferKind(s.resource) \notin {"container-image", "ci-pipeline"}
  BY <1>4, KindIs
<1>6. IsKnown(s, scenario)
  BY <1>3, <1>5 DEF IsKnown, SignalTypes
<1>. QED
  BY <1>6 DEF s

LEMMA AlertIsKnown ==
  ASSUME NEW item, NEW m, m = Message("prometheus", item),
         "service" \in DOMAIN item, item["service"] = Bare("checkout"),
         "resource" \in DOMAIN item, item["resource"].prefix \notin {"image:", "pipeline:"},
         "environment" \notin DOMAIN item, item.severity = "critical", item.status = "firing"
  PROVE  IsKnown(TheSignal(m), Demo)
<1>. DEFINE s == TheSignal(m)
<1>1. ~Dropped("prometheus", item)
  BY DEF Dropped
<1>2. s = SignalOf("prometheus", item)
  BY TheSignalIs, <1>1
<1>. HIDE DEF s
<1>3. /\ s.type = "performance-alert" /\ s.resource = item["resource"]
      /\ s.service = item["service"].name
      /\ s.correlationId = ResourceId(s.resource) /\ s.environment = "production"
      /\ s.severity = "critical" /\ s.configuration = Nothing
  BY <1>2, AlertIs
<1>4. s.service = "checkout"
  BY <1>3, BareIs
<1>5. InferKind(s.resource) \notin {"container-image", "ci-pipeline"}
  BY <1>3, KindIs
<1>6. IsKnown(s, Demo)
  BY <1>3, <1>4, <1>5 DEF IsKnown, SignalTypes
<1>. QED
  BY <1>6 DEF s

LEMMA PodIsKnown ==
  ASSUME NEW item, NEW m, m = Message("kubernetes", item),
         item.object = Bare("checkout"), "environment" \notin DOMAIN item,
         "service" \in DOMAIN item, item["service"] = "checkout"
  PROVE  IsKnown(TheSignal(m), Demo)
<1>. DEFINE s == TheSignal(m)
<1>1. s = SignalOf("kubernetes", item)
  BY TheSignalIs, NotDropped
<1>. HIDE DEF s
<1>2. /\ s.type = "infrastructure-event" /\ s.resource = Under("k8s:", item.object)
      /\ s.correlationId = ResourceId(s.resource) /\ s.environment = "production"
  BY <1>1, WorkloadIs
<1>3. s.resource = Plain("k8s:", "checkout")
  BY <1>2, BareIs
<1>4. s.service = "checkout"
  BY <1>1 DEF SignalOf, Kubernetes, Has
<1>5. IsKnown(s, Demo)
  BY <1>2, <1>3, <1>4 DEF IsKnown, SignalTypes
<1>. QED
  BY <1>5 DEF s

LEMMA DemoIsKnown ==
  ASSUME NEW tick, NEW m \in DeploymentIncident(tick)
  PROVE  IsKnown(TheSignal(m), Demo)
<1>1. CASE m = Message("github-actions", [repository |-> Bare("checkout"),
                                          head_sha |-> "9f2c41ab7e5d"])
  <2>. DEFINE item == [repository |-> Bare("checkout"), head_sha |-> "9f2c41ab7e5d"]
  <2>1. /\ item.repository = Bare("checkout") /\ "head_sha" \in DOMAIN item
        /\ item["head_sha"] = "9f2c41ab7e5d" /\ "environment" \notin DOMAIN item
    OBVIOUS
  <2>2. m = Message("github-actions", item)
    BY <1>1
  <2>. HIDE DEF item
  <2>. QED
    BY <2>1, <2>2, DeploymentIsKnown
<1>2. CASE m = Message("prometheus", [status |-> "firing", service |-> Bare("checkout"),
                                      severity |-> "critical",
                                      resource |-> Plain("service:", "checkout")])
  <2>. DEFINE item == [status |-> "firing", service |-> Bare("checkout"),
                       severity |-> "critical", resource |-> Plain("service:", "checkout")]
  <2>1. /\ "service" \in DOMAIN item /\ item["service"] = Bare("checkout")
        /\ "resource" \in DOMAIN item /\ item["resource"] = Plain("service:", "checkout")
        /\ "environment" \notin DOMAIN item /\ item.severity = "critical"
        /\ item.status = "firing"
    OBVIOUS
  <2>2. m = Message("prometheus", item)
    BY <1>2
  <2>. HIDE DEF item
  <2>3. item["resource"].prefix = "service:"
    BY <2>1, PlainIs
  <2>. QED
    BY <2>1, <2>2, <2>3, AlertIsKnown
<1>3. CASE \E containers :
             m = Message("kubernetes", [object |-> Bare("checkout"),
                                        service |-> "checkout", warning |-> TRUE,
                                        hostNetwork |-> TRUE, containers |-> containers])
  <2>. PICK containers :
         m = Message("kubernetes", [object |-> Bare("checkout"),
                                    service |-> "checkout", warning |-> TRUE,
                                    hostNetwork |-> TRUE, containers |-> containers])
    BY <1>3
  <2>. DEFINE item == [object |-> Bare("checkout"), service |-> "checkout",
                       warning |-> TRUE, hostNetwork |-> TRUE, containers |-> containers]
  <2>1. /\ item.object = Bare("checkout") /\ "environment" \notin DOMAIN item
        /\ "service" \in DOMAIN item /\ item["service"] = "checkout"
    OBVIOUS
  <2>2. m = Message("kubernetes", item)
    OBVIOUS
  <2>. HIDE DEF item
  <2>. QED
    BY <2>1, <2>2, PodIsKnown
<1>. QED
  BY <1>1, <1>2, <1>3 DEF DeploymentIncident, Bare

(* The messages of the scenarios, whichever tick they are sent at.         *)
Sent == UNION {{<<s, m>> : m \in Returned(s, n, Services)} : s \in SCENARIOS, n \in Nat}

LEMMA SentIsKnown ==
  ASSUME NEW q \in Sent
  PROVE  IsKnown(TheSignal(q[2]), q[1])
<1>1. PICK s \in SCENARIOS, n \in Nat : \E m \in Returned(s, n, Services) : q = <<s, m>>
  BY DEF Sent
<1>2. PICK m \in Returned(s, n, Services) : q = <<s, m>>
  BY <1>1
<1>. SUFFICES IsKnown(TheSignal(m), s)
  BY <1>2
<1>3. CASE s = "deployment-incident"
  BY <1>3, DemoIsKnown DEF Returned, Demo
<1>4. CASE s = "credential-leak"
  <2>1. CASE m = Message("github-actions", [repository |-> Bare("payments"),
                                            head_sha |-> "aa11bb22cc33"])
    <3>. DEFINE item == [repository |-> Bare("payments"), head_sha |-> "aa11bb22cc33"]
    <3>1. /\ item.repository = Bare("payments") /\ "head_sha" \in DOMAIN item
          /\ item["head_sha"] = "aa11bb22cc33" /\ "environment" \notin DOMAIN item
      OBVIOUS
    <3>2. m = Message("github-actions", item)
      BY <2>1
    <3>3. Explicit("aa11bb22cc33", ResourceId(Plain("service:", "payments")))
      BY Zenon, ShaAssumption DEF Explicit
    <3>. HIDE DEF item
    <3>. QED
      BY <3>1, <3>2, <3>3, DeploymentIsKnown
  <2>2. CASE m = Message("cloudtrail",
                   [eventName |-> "CreateAccessKey", eventSource |-> "iam.amazonaws.com",
                    resource |-> Resource("arn:aws:iam:role/", "payments-ci", {":role/", "/"})])
    <3>1. Resource("arn:aws:iam:role/", "payments-ci", {":role/", "/"}).prefix
            = "arn:aws:iam:role/"
      BY DEF Resource
    <3>. QED
      BY <2>2, <3>1, TrailIsKnown
  <2>. QED
    BY <1>4, <2>1, <2>2 DEF Returned, CredentialLeak, Bare
<1>5. CASE s = "exposed-bucket"
  <2>1. PICK name : m = BucketEvent(name)
    BY <1>5 DEF Returned, ExposedBucket
  <2>2. CustomerExports.prefix = "arn:aws:s3:::"
    BY DEF CustomerExports, Resource
  <2>. QED
    BY <2>1, <2>2, TrailIsKnown DEF BucketEvent
<1>6. CASE s = "steady-state"
  <2>1. CASE \E name, service :
               m = Message("cloudtrail",
                     [eventName |-> name, eventSource |-> "ec2.amazonaws.com",
                      resource |-> Resource("arn:aws:ec2:instance/", service, {"/"})])
    <3>1. \A service : Resource("arn:aws:ec2:instance/", service, {"/"}).prefix
                         = "arn:aws:ec2:instance/"
      BY DEF Resource
    <3>. QED
      BY <2>1, <3>1, TrailIsKnown
  <2>2. CASE \E name, service, warning :
               m = Message("kubernetes", [object |-> Bare(name), service |-> service,
                                          warning |-> warning])
    <3>. PICK name, service, warning :
           m = Message("kubernetes", [object |-> Bare(name), service |-> service,
                                      warning |-> warning])
      BY <2>2
    <3>. DEFINE item == [object |-> Bare(name), service |-> service, warning |-> warning]
    <3>1. {"environment", "containers", "hostNetwork"} \cap DOMAIN item = {}
      OBVIOUS
    <3>2. m = Message("kubernetes", item)
      OBVIOUS
    <3>. HIDE DEF item
    <3>. QED
      BY <3>1, <3>2, WorkloadIsKnown
  <2>3. m \in SteadyState(Services)
    BY <1>6 DEF Returned
  <2>. DEFINE Trail(name, service) ==
                Message("cloudtrail",
                  [eventName |-> name, eventSource |-> "ec2.amazonaws.com",
                   resource |-> Resource("arn:aws:ec2:instance/", service, {"/"})])
              Workload(service, warning) ==
                Message("kubernetes", [object |-> Bare(service \o "-7d9f"), service |-> service,
                                       warning |-> warning])
              NAMES == {"DescribeInstances", "GetObject", "AssumeRole", "CreateAccessKey"}
  <2>4. SteadyState(Services) =
          {Trail(name, service) : name \in NAMES, service \in Services}
            \cup {Workload(service, warning) : warning \in BOOLEAN, service \in Services}
    BY DEF SteadyState, Bare
  <2>5. CASE m \in {Trail(name, service) : name \in NAMES, service \in Services}
    <3>. HIDE DEF Trail, NAMES
    <3>1. PICK name \in NAMES, service \in Services : m = Trail(name, service)
      BY <2>5
    <3>. QED
      BY <2>1, <3>1 DEF Trail
  <2>6. CASE m \in {Workload(service, warning) : warning \in BOOLEAN, service \in Services}
    <3>. HIDE DEF Workload
    <3>1. PICK warning \in BOOLEAN, service \in Services : m = Workload(service, warning)
      BY <2>6
    <3>. QED
      BY <2>2, <3>1 DEF Workload
  <2>. QED
    BY <2>3, <2>4, <2>5, <2>6
<1>. QED
  BY <1>3, <1>4, <1>5, <1>6 DEF SCENARIOS
-----------------------------------------------------------------------------
(* What is on the topics, in the buckets of the replicas, and on its way   *)
(* to the incident-service.                                                *)
Signals == {Received(id, TheSignal(q[2]), q[1]) : id \in Nat, q \in Sent}
Results(m) ==
  LET found == InOrder(Evaluate(ContextOf(m))) IN {found[i] : i \in DOMAIN found}
Findings == UNION {{Detected(m, e) : e \in Results(m)} : m \in Signals}
Delivered(n, event, about) == [n |-> n, event |-> event, about |-> about]
Deliveries ==
  {Delivered(n, FromSignal(m), m.about) : n \in Nat, m \in Signals}
    \cup {Delivered(n, FromFinding(f), f.about) : n \in Nat, f \in Findings}
Clusters ==
  {[environment |-> d.event.environment, cluster |-> ClusterOf(KeyFor(d.event), b, 0)] :
     d \in Deliveries, b \in SUBSET Deliveries}

LEMMA ResultsAreOfRules ==
  ASSUME NEW m, Results(m) # {}
  PROVE  Evaluate(ContextOf(m)) # {}
<1>1. Cardinality({}) = 0
  BY FS_EmptySet
<1>2. SUFFICES ASSUME Evaluate(ContextOf(m)) = {} PROVE FALSE
  OBVIOUS
<1>3. DOMAIN InOrder({}) = {}
  BY <1>1 DEF InOrder
<1>. QED
  BY <1>2, <1>3 DEF Results

(* The results of a batch are as many as the rules that fire.              *)
LEMMA EvaluateIsFinite ==
  ASSUME NEW c
  PROVE  IsFiniteSet(Evaluate(c))
<1>. DEFINE firing == {i \in DOMAIN catalog : RuleFires(catalog[i], c)}
            f == [i \in firing |-> Evaluation(i, c)]
<1>. PICK n \in Int : DOMAIN catalog = 1 .. n
  <2>. 21 \in Int
    OBVIOUS
  <2>. WITNESS 21 \in Int
  <2>. QED
    BY CatalogIs
<1>1. IsFiniteSet(1 .. n)
  BY FS_Interval
<1>2. firing \in SUBSET (1 .. n)
  OBVIOUS
<1>3. IsFiniteSet(firing)
  BY <1>1, <1>2, FS_Subset
<1>4. f \in Surjection(firing, Evaluate(c))
  BY DEF Surjection, Evaluate
<1>. QED
  BY <1>3, <1>4, FS_Surjection

(* InOrder lists them: each result once, in the order of the catalog.      *)
LEMMA RankGrows ==
  ASSUME NEW E, IsFiniteSet(E), \A x \in E : x.at \in Int,
         NEW d \in E, NEW e \in E, d.at < e.at
  PROVE  Cardinality({x \in E : x.at <= d.at}) < Cardinality({x \in E : x.at <= e.at})
<1>. DEFINE D == {x \in E : x.at <= d.at}
            F == {x \in E : x.at <= e.at}
<1>1. D \in SUBSET F /\ F \in SUBSET E /\ e \in F /\ e \notin D
  OBVIOUS
<1>. HIDE DEF D, F
<1>2. IsFiniteSet(F) /\ IsFiniteSet(D)
  BY <1>1, FS_Subset
<1>3. Cardinality(D) <= Cardinality(F) /\ Cardinality(D) # Cardinality(F)
  BY <1>1, <1>2, FS_Subset
<1>4. Cardinality(D) < Cardinality(F)
  BY <1>2, <1>3, FS_CardinalityType
<1>. QED
  BY <1>4 DEF D, F

LEMMA InOrderIs ==
  ASSUME NEW E, IsFiniteSet(E), \A x \in E : x.at \in Int,
         \A x, y \in E : x.at = y.at => x = y
  PROVE  /\ \A i \in 1 .. Cardinality(E) : InOrder(E)[i] \in E
         /\ \A e \in E : \E i \in 1 .. Cardinality(E) : InOrder(E)[i] = e
         /\ \A i, j \in 1 .. Cardinality(E) : i < j => InOrder(E)[i].at < InOrder(E)[j].at
<1>. DEFINE rank == [e \in E |-> Cardinality({x \in E : x.at <= e.at})]
            n == Cardinality(E)
<1>1. n \in Nat
  BY FS_CardinalityType
<1>2. \A e \in E : rank[e] \in 1 .. n
  <2>. SUFFICES ASSUME NEW e \in E PROVE rank[e] \in 1 .. n
    OBVIOUS
  <2>. DEFINE F == {x \in E : x.at <= e.at}
  <2>1. F \in SUBSET E /\ e \in F /\ rank[e] = Cardinality(F)
    OBVIOUS
  <2>. HIDE DEF F, rank
  <2>2. IsFiniteSet(F) /\ Cardinality(F) <= n
    BY <2>1, FS_Subset
  <2>3. Cardinality(F) \in Nat /\ Cardinality(F) # 0
    BY <2>1, <2>2, FS_CardinalityType, FS_EmptySet
  <2>. QED
    BY <1>1, <2>1, <2>2, <2>3
<1>3. \A d, e \in E : d.at < e.at => rank[d] < rank[e]
  BY RankGrows
<1>4. \A d, e \in E : d # e => rank[d] # rank[e]
  <2>. SUFFICES ASSUME NEW d \in E, NEW e \in E, d # e PROVE rank[d] # rank[e]
    OBVIOUS
  <2>. HIDE DEF rank
  <2>1. d.at < e.at \/ e.at < d.at
    OBVIOUS
  <2>. QED
    BY <1>2, <1>3, <2>1
<1>5. rank \in Injection(E, 1 .. n)
  BY <1>2, <1>4 DEF Injection, IsInjective
<1>6. IsFiniteSet(1 .. n) /\ Cardinality(1 .. n) = n
  BY <1>1, FS_Interval
<1>7. rank \in Surjection(E, 1 .. n)
  <2>. HIDE DEF rank
  <2>. QED
    BY <1>5, <1>6, FS_Injection
<1>8. \A i \in 1 .. n : \E e \in E : rank[e] = i
  BY <1>7 DEF Surjection
<1>9. \A i \in 1 .. n : InOrder(E)[i] = CHOOSE e \in E : rank[e] = i
  BY DEF InOrder
<1>. HIDE DEF rank
<1>10. \A i \in 1 .. n : InOrder(E)[i] \in E /\ rank[InOrder(E)[i]] = i
  BY <1>8, <1>9
<1>11. \A e \in E : InOrder(E)[rank[e]] = e
  BY <1>2, <1>4, <1>10
<1>12. \A i, j \in 1 .. n : i < j => InOrder(E)[i].at < InOrder(E)[j].at
  <2>. SUFFICES ASSUME NEW i \in 1 .. n, NEW j \in 1 .. n, i < j
                PROVE  InOrder(E)[i].at < InOrder(E)[j].at
    OBVIOUS
  <2>. DEFINE d == InOrder(E)[i]
              e == InOrder(E)[j]
  <2>1. d \in E /\ e \in E /\ rank[d] = i /\ rank[e] = j
    BY <1>10
  <2>. HIDE DEF d, e
  <2>2. d.at # e.at /\ ~(e.at < d.at)
    BY <1>3, <2>1
  <2>3. d.at < e.at
    BY <2>1, <2>2
  <2>. QED
    BY <2>3 DEF d, e
<1>. QED
  BY <1>2, <1>10, <1>11, <1>12

(* Examine publishes the result of every rule that fires on the signal     *)
(* once, in the order of the catalog.                                      *)
THEOREM EveryResultIsListed ==
  ASSUME NEW c, NEW found, found = InOrder(Evaluate(c))
  PROVE  /\ {found[i] : i \in DOMAIN found} = Evaluate(c)
         /\ \A i, j \in DOMAIN found : i < j => found[i].at < found[j].at
<1>1. \A x \in Evaluate(c) : x.at \in DOMAIN catalog /\ x = Evaluation(x.at, c)
  BY DEF Evaluate, Evaluation
<1>2. \A x \in Evaluate(c) : x.at \in Int
  BY <1>1, CatalogIs
<1>3. \A x, y \in Evaluate(c) : x.at = y.at => x = y
  BY <1>1
<1>4. IsFiniteSet(Evaluate(c))
  BY EvaluateIsFinite
<1>5. DOMAIN found = 1 .. Cardinality(Evaluate(c))
  BY DEF InOrder
<1>. DEFINE E == Evaluate(c)
<1>. HIDE DEF E
<1>6. /\ \A i \in 1 .. Cardinality(E) : InOrder(E)[i] \in E
      /\ \A e \in E : \E i \in 1 .. Cardinality(E) : InOrder(E)[i] = e
      /\ \A i, j \in 1 .. Cardinality(E) : i < j => InOrder(E)[i].at < InOrder(E)[j].at
  BY <1>2, <1>3, <1>4, InOrderIs DEF E
<1>7. found = InOrder(E) /\ DOMAIN found = 1 .. Cardinality(E)
  BY <1>5 DEF E
<1>8. {found[i] : i \in DOMAIN found} = E
  BY <1>6, <1>7
<1>9. \A i, j \in DOMAIN found : i < j => found[i].at < found[j].at
  BY <1>6, <1>7
<1>. QED
  BY <1>8, <1>9 DEF E

LEMMA SignalsAreKnown ==
  ASSUME NEW m \in Signals
  PROVE  /\ m.observedAt = 0 /\ m.environment = "production" /\ m.type \in SignalTypes
         /\ m.about.service = m.service
         /\ m.type # "deployment-event" => m.correlationId = m.resourceId
         /\ m.type = "deployment-event" /\ m.about.scenario # Demo =>
              Explicit(m.correlationId, m.resourceId)
         /\ m.type = "performance-alert" =>
              m.about.scenario = Demo /\ m.service = "checkout" /\ m.severity = "critical"
         /\ Results(m) # {} =>
              /\ m.about.scenario = Demo /\ m.service = "checkout"
              /\ m.resource = Plain("k8s:", "checkout")
<1>1. PICK id \in Nat, q \in Sent : m = Received(id, TheSignal(q[2]), q[1])
  BY DEF Signals
<1>. DEFINE s == TheSignal(q[2])
<1>2. IsKnown(s, q[1])
  BY SentIsKnown
<1>. HIDE DEF s
<1>3. /\ m.type = s.type /\ m.resource = s.resource /\ m.resourceId = ResourceId(s.resource)
      /\ m.service = s.service /\ m.environment = s.environment
      /\ m.correlationId = s.correlationId /\ m.severity = s.severity /\ m.observedAt = 0
      /\ m.configuration = s.configuration
      /\ m.about.service = s.service /\ m.about.scenario = q[1]
  BY <1>1 DEF Received, s
<1>4. ASSUME Results(m) # {}
      PROVE  ~(/\ s.configuration \in {Nothing, NoContainers}
               /\ InferKind(s.resource) \notin {"container-image", "ci-pipeline"})
  <2>1. ContextOf(m).configuration = s.configuration /\ ContextOf(m).kind = InferKind(s.resource)
    BY <1>3 DEF ContextOf
  <2>2. Evaluate(ContextOf(m)) # {}
    BY <1>4, ResultsAreOfRules
  <2>. QED
    BY <2>1, <2>2, QuietFiresNothing
<1>. QED
  BY <1>2, <1>3, <1>4 DEF IsKnown

DeliveryIsKnown(d) ==
  /\ d.event.observedAt = 0 /\ d.event.environment = "production"
  /\ d.event.eventType \in EventTypes
  /\ d.event.eventType # "deployment.completed" =>
       d.event.service = d.about.service
  /\ d.event.eventType = "deployment.completed" /\ d.about.scenario # Demo =>
       Explicit(d.event.correlationId, d.event.resourceId)
  /\ d.event.eventType = "infrastructure.event" => d.event.correlationId = d.event.resourceId
  /\ d.event.eventType = "performance.alert" =>
       d.about.scenario = Demo /\ d.event.severity = "critical"
  /\ d.event.eventType = "security.finding" => d.about.scenario = Demo

LEMMA DeliveriesAreKnown ==
  ASSUME NEW d \in Deliveries
  PROVE  DeliveryIsKnown(d)
<1>1. CASE \E n \in Nat : \E m \in Signals : d = Delivered(n, FromSignal(m), m.about)
  <2>1. PICK n \in Nat : \E m \in Signals : d = Delivered(n, FromSignal(m), m.about)
    BY <1>1
  <2>2. PICK m \in Signals : d = Delivered(n, FromSignal(m), m.about)
    BY <2>1
  <2>3. /\ d.event.observedAt = m.observedAt /\ d.event.environment = m.environment
        /\ d.event.eventType = EventTypeFor(m.type) /\ d.event.service = m.service
        /\ d.event.correlationId = m.correlationId /\ d.event.resourceId = m.resourceId
        /\ d.event.severity = m.severity /\ d.about = m.about
    BY <2>2 DEF Delivered, FromSignal
  <2>4. /\ m.type \in SignalTypes
        /\ EventTypeFor(m.type) \in EventTypes \ {"security.finding"}
        /\ EventTypeFor(m.type) = "deployment.completed" <=> m.type = "deployment-event"
        /\ EventTypeFor(m.type) = "performance.alert" <=> m.type = "performance-alert"
    BY SignalsAreKnown DEF SignalTypes, EventTypeFor, EventTypes
  <2>. QED
    BY <2>3, <2>4, SignalsAreKnown DEF DeliveryIsKnown
<1>2. CASE \E n \in Nat : \E f \in Findings : d = Delivered(n, FromFinding(f), f.about)
  <2>1. PICK n \in Nat : \E f \in Findings : d = Delivered(n, FromFinding(f), f.about)
    BY <1>2
  <2>2. PICK f \in Findings : d = Delivered(n, FromFinding(f), f.about)
    BY <2>1
  <2>3. PICK m \in Signals : \E e \in Results(m) : f = Detected(m, e)
    BY DEF Findings
  <2>4. PICK e \in Results(m) : f = Detected(m, e)
    BY <2>3
  <2>5. /\ f.environment = m.environment /\ f.firstSeenAt = m.observedAt
        /\ f.assetName = AssetName(m.resource) /\ f.about = m.about
    BY <2>4 DEF Detected
  <2>6. /\ d.event.observedAt = f.firstSeenAt /\ d.event.environment = f.environment
        /\ d.event.eventType = "security.finding" /\ d.event.service = f.assetName
        /\ d.about = f.about
    BY <2>2 DEF Delivered, FromFinding
  <2>7. AssetName(m.resource) = "checkout"
    <3>1. m.resource = Plain("k8s:", "checkout")
      BY <2>4, SignalsAreKnown
    <3>2. m.resource.prefix = "k8s:" /\ m.resource.name = "checkout"
      BY <3>1, PlainIs
    <3>. QED
      BY <3>2 DEF AssetName
  <2>8. m.about.scenario = Demo /\ m.about.service = "checkout"
        /\ m.observedAt = 0 /\ m.environment = "production"
    BY <2>4, SignalsAreKnown
  <2>. QED
    BY <2>5, <2>6, <2>7, <2>8 DEF DeliveryIsKnown, EventTypes
<1>. QED
  BY <1>1, <1>2 DEF Deliveries
-----------------------------------------------------------------------------
(* What a bucket can be.  Without a delivery of the demonstration there is *)
(* one family in it: its deployments have a key of their commit's, its     *)
(* infrastructure events that of a service, and there is nothing else.     *)
LEMMA KeyIs ==
  ASSUME NEW e
  PROVE  /\ Explicit(e.correlationId, e.resourceId) => KeyFor(e) = <<"corr", e.correlationId>>
         /\ ~Explicit(e.correlationId, e.resourceId) =>
              KeyFor(e) = <<"svc", e.environment, e.service>>
BY DEF KeyFor, Explicit

LEMMA TheDefaultIsNotExplicit ==
  ASSUME NEW id, NEW default, id = default
  PROVE  ~Explicit(id, default)
BY Zenon DEF Explicit

LEMMA FamilyIs ==
  /\ Family("deployment.completed") = "deployment"
  /\ Family("performance.alert") = "performance"
  /\ Family("security.finding") = "security"
  /\ Family("infrastructure.event") = "infrastructure"
BY DEF Family

LEMMA OneFamilyIsNotCredible ==
  ASSUME NEW bucket, NEW family, FamiliesOf(bucket) \subseteq {family}
  PROVE  ~Credible(bucket)
<1>1. IsFiniteSet({family}) /\ Cardinality({family}) = 1
  BY FS_Singleton
<1>2. Cardinality(FamiliesOf(bucket)) <= 1 /\ Cardinality(FamiliesOf(bucket)) \in Nat
  BY <1>1, FS_Subset, FS_CardinalityType
<1>. QED
  BY <1>2 DEF Credible

LEMMA CredibleHasTheDemo ==
  ASSUME NEW bucket \in SUBSET Deliveries, NEW key,
         \A d \in bucket : KeyFor(d.event) = key,
         Credible(bucket)
  PROVE  \E d \in bucket : d.about.scenario = Demo
<1>. SUFFICES ASSUME \A d \in bucket : d.about.scenario # Demo PROVE FALSE
  OBVIOUS
<1>1. \A d \in bucket :
        \/ /\ d.event.eventType = "deployment.completed"
           /\ Explicit(d.event.correlationId, d.event.resourceId)
        \/ /\ d.event.eventType = "infrastructure.event"
           /\ ~Explicit(d.event.correlationId, d.event.resourceId)
  BY DeliveriesAreKnown, TheDefaultIsNotExplicit DEF DeliveryIsKnown, EventTypes
<1>2. \A d \in bucket :
        \/ /\ Family(d.event.eventType) = "deployment"
           /\ key = <<"corr", d.event.correlationId>>
        \/ /\ Family(d.event.eventType) = "infrastructure"
           /\ key = <<"svc", d.event.environment, d.event.service>>
  BY <1>1, KeyIs, FamilyIs
<1>3. \A d, e \in bucket : Family(d.event.eventType) = Family(e.event.eventType)
  <2>. SUFFICES ASSUME NEW d \in bucket, NEW e \in bucket
                PROVE  Family(d.event.eventType) = Family(e.event.eventType)
    OBVIOUS
  <2>1. <<"corr", d.event.correlationId>> # <<"svc", e.event.environment, e.event.service>>
    OBVIOUS
  <2>2. <<"corr", e.event.correlationId>> # <<"svc", d.event.environment, d.event.service>>
    OBVIOUS
  <2>. QED
    BY <1>2, <2>1, <2>2
<1>4. CASE bucket = {}
  BY <1>4, OneFamilyIsNotCredible DEF FamiliesOf
<1>5. CASE bucket # {}
  <2>1. PICK e \in bucket : TRUE
    BY <1>5
  <2>2. FamiliesOf(bucket) \subseteq {Family(e.event.eventType)}
    BY <1>3 DEF FamiliesOf
  <2>. QED
    BY <2>2, OneFamilyIsNotCredible
<1>. QED
  BY <1>4, <1>5

(* A latency alert of the demonstration makes a bucket with anything of    *)
(* another family a P1: it is critical, in production, and there is no     *)
(* time between the two.                                                   *)
LEMMA TheWorstIsCritical ==
  ASSUME NEW members, NEW m \in members, m.severity = "critical"
  PROVE  Worst(members) = 85
<1>1. \A severity : Weight(severity) \in {85, 68, 45, 25, 10}
  BY DEF Weight
<1>2. Weight("critical") = 85
  BY DEF Weight
<1>3. \A severity : Weight(severity) <= 85
  BY <1>1
<1>4. 85 \in {Weight(x.severity) : x \in members} /\ \A x \in members : Weight(x.severity) <= 85
  BY <1>2, <1>3
<1>5. \A v \in {Weight(x.severity) : x \in members} :
        (\A x \in members : Weight(x.severity) <= v) => v = 85
  BY <1>1, <1>2
<1>. QED
  BY <1>4, <1>5 DEF Worst

LEMMA CriticalRisk ==
  ASSUME NEW members, IsFiniteSet(members), NEW m \in members, m.severity = "critical"
  PROVE  RiskFromMembers(members) \in Int /\ RiskFromMembers(members) >= 85
<1>1. Cardinality(members) \in Nat /\ Cardinality(members) # 0
  BY FS_CardinalityType, FS_EmptySet
<1>2. AtMost(10, 2 * (Cardinality(members) - 1)) \in 0 .. 10
  BY <1>1 DEF AtMost
<1>3. Worst(members) = 85
  BY TheWorstIsCritical
<1>. QED
  BY <1>2, <1>3 DEF RiskFromMembers, AtMost

LEMMA PairIsTwo ==
  ASSUME NEW x, NEW y, x # y
  PROVE  IsFiniteSet({x, y}) /\ Cardinality({x, y}) = 2
<1>1. IsFiniteSet({x}) /\ Cardinality({x}) = 1
  BY FS_Singleton
<1>2. IsFiniteSet({x} \cup {y}) /\ Cardinality({x} \cup {y}) = 2
  BY <1>1, FS_AddElement
<1>3. {x, y} = {x} \cup {y}
  OBVIOUS
<1>. QED
  BY <1>2, <1>3

LEMMA FamiliesAreFinite ==
  ASSUME NEW bucket
  PROVE  IsFiniteSet(FamiliesOf(bucket)) /\ Cardinality(FamiliesOf(bucket)) \in Nat
<1>1. FamiliesOf(bucket) \subseteq {"deployment", "performance"} \cup {"security"}
                                    \cup {"infrastructure"}
  BY DEF FamiliesOf, Family
<1>2. IsFiniteSet({"deployment", "performance"})
  BY PairIsTwo
<1>3. IsFiniteSet({"deployment", "performance"} \cup {"security"})
  BY <1>2, FS_AddElement
<1>4. IsFiniteSet({"deployment", "performance"} \cup {"security"} \cup {"infrastructure"})
  BY <1>3, FS_AddElement
<1>. QED
  BY <1>1, <1>4, FS_Subset, FS_CardinalityType

LEMMA TwoFamilies ==
  ASSUME NEW bucket, IsFiniteSet(bucket), NEW a \in bucket, NEW b \in bucket,
         Family(a.event.eventType) # Family(b.event.eventType)
  PROVE  /\ Cardinality(bucket) \in Nat /\ Cardinality(bucket) >= 2
         /\ Cardinality(FamiliesOf(bucket)) \in Nat /\ Cardinality(FamiliesOf(bucket)) >= 2
<1>1. {a, b} \in SUBSET bucket /\ a # b
  OBVIOUS
<1>2. Cardinality({a, b}) <= Cardinality(bucket) /\ Cardinality({a, b}) = 2
  BY <1>1, FS_Subset, PairIsTwo
<1>. DEFINE f == Family(a.event.eventType)
            g == Family(b.event.eventType)
<1>3. f # g /\ {f, g} \in SUBSET FamiliesOf(bucket)
  BY DEF FamiliesOf
<1>. HIDE DEF f, g
<1>4. Cardinality({f, g}) <= Cardinality(FamiliesOf(bucket)) /\ Cardinality({f, g}) = 2
  BY <1>3, FS_Subset, FamiliesAreFinite, PairIsTwo
<1>. QED
  BY <1>2, <1>4, FS_CardinalityType, FamiliesAreFinite

LEMMA CriticalClusterIsP1 ==
  ASSUME NEW bucket \in SUBSET Deliveries, IsFiniteSet(bucket), NEW key, NEW c,
         c = [environment |-> "production", cluster |-> ClusterOf(key, bucket, 0)],
         NEW a \in bucket, NEW b \in bucket, a.event.severity = "critical",
         Family(a.event.eventType) # Family(b.event.eventType), MinConfidence <= 95
  PROVE  Credible(bucket) /\ Row(c).priority = "P1"
<1>1. SeverityScore(bucket) = 25
  BY DEF SeverityScore
<1>2. ProximityScore(bucket) = 20
  <2>1. TimesOf(bucket) = {0}
    BY DeliveriesAreKnown DEF TimesOf, DeliveryIsKnown
  <2>2. Latest(bucket) = 0 /\ Earliest(bucket) = 0
    BY <2>1 DEF Latest, Earliest
  <2>. QED
    BY <2>2, EngineAssumption DEF ProximityScore
<1>3. FamilyScore(FamiliesOf(bucket)) \in Int /\ FamilyScore(FamiliesOf(bucket)) >= 30
  BY TwoFamilies DEF FamilyScore
<1>4. ConfidenceFor(bucket) \in Int /\ ConfidenceFor(bucket) >= 95
  <2>. HIDE DEF FamilyScore, SeverityScore, ProximityScore
  <2>. QED
    BY <1>1, <1>2, <1>3 DEF ConfidenceFor
<1>5. Credible(bucket)
  BY <1>4, TwoFamilies, EngineAssumption DEF Credible
<1>. DEFINE member(d) == [member |-> d, severity |-> d.event.severity]
            members == {member(d) : d \in bucket}
<1>6. IsFiniteSet(members)
  <2>. DEFINE f == [d \in bucket |-> member(d)]
  <2>1. f \in Surjection(bucket, members)
    BY DEF Surjection
  <2>. QED
    BY <2>1, FS_Surjection
<1>7. member(a) \in members /\ member(a).severity = "critical"
  OBVIOUS
<1>8. RiskFromMembers(members) \in Int /\ RiskFromMembers(members) >= 85
  <2>. HIDE DEF member, members
  <2>. QED
    BY <1>6, <1>7, CriticalRisk
<1>9. /\ c.environment = "production" /\ c.cluster.confidence = ConfidenceFor(bucket)
      /\ c.cluster.members = bucket
  BY DEF ClusterOf
<1>10. Row(c).priority = Prioritize(RiskFromMembers(members), c.cluster.confidence,
                                    c.environment, FALSE, Cardinality(c.cluster.assetIds))
  BY <1>9 DEF Row
<1>11. \A assets : Prioritize(RiskFromMembers(members), ConfidenceFor(bucket), "production",
                              FALSE, assets) = "P1"
  <2>. HIDE DEF members
  <2>1. \A x, y \in Int : x >= 85 /\ y >= 95 => x * y >= 85 * 95
    OBVIOUS
  <2>2. RiskFromMembers(members) * ConfidenceFor(bucket) >= 7000
    BY <1>4, <1>8, <2>1
  <2>. QED
    BY <2>2 DEF Prioritize
<1>. QED
  BY <1>5, <1>9, <1>10, <1>11
-----------------------------------------------------------------------------
(* The invariant.  What runs through the row of services is what the       *)
(* scenarios sent and what was made of it.                                 *)
Messages(p) == IF p[1] = "signals" THEN Signals ELSE Findings

TicksAreCounted ==
  /\ campaign \in Campaigns
  /\ DOMAIN ticks \subseteq SCENARIOS /\ \A s \in DOMAIN ticks : ticks[s] \in Nat
RequestsAreSent == requests \subseteq Sent /\ minted \in Nat
LogsAreKnown ==
  /\ DOMAIN log = Partitions
  /\ \A p \in Partitions : log[p] \in Seq(Messages(p))
PositionsAreCounted ==
  /\ DOMAIN evaluated = Resources /\ \A r \in Resources : evaluated[r] \in Nat
  /\ DOMAIN position = Partitions /\ \A p \in Partitions : position[p] \in Nat
HeldAreDeliveries ==
  /\ DOMAIN held = Replicas
  /\ \A w \in Replicas : held[w] \subseteq Deliveries /\ IsFiniteSet(held[w])
CorrelationsAreClusters == correlations \in Seq(Clusters)

Flow ==
  /\ TicksAreCounted /\ RequestsAreSent /\ LogsAreKnown /\ PositionsAreCounted
  /\ HeldAreDeliveries /\ CorrelationsAreClusters

LEMMA FlowStarts == Init => Flow
<1>. SUFFICES ASSUME Init PROVE Flow
  OBVIOUS
<1>1. TicksAreCounted
  BY PipelineAssumption DEF Init, TicksAreCounted
<1>2. RequestsAreSent
  BY DEF Init, RequestsAreSent
<1>3. LogsAreKnown
  <2>1. \A p \in Partitions : log[p] = <<>> /\ <<>> \in Seq(Messages(p))
    BY DEF Init
  <2>. QED
    BY <2>1 DEF Init, LogsAreKnown
<1>4. PositionsAreCounted
  BY DEF Init, PositionsAreCounted
<1>5. HeldAreDeliveries
  BY FS_EmptySet DEF Init, HeldAreDeliveries
<1>6. CorrelationsAreClusters
  BY DEF Init, CorrelationsAreClusters
<1>. QED
  BY <1>1, <1>2, <1>3, <1>4, <1>5, <1>6 DEF Flow

LEMMA TickSends ==
  ASSUME Flow, NEW s \in DOMAIN ticks, Tick(s)
  PROVE  TicksAreCounted' /\ RequestsAreSent'
<1>1. PICK n \in ticks[s] + 1 .. campaign.ticks[s] :
        /\ ticks' = [ticks EXCEPT ![s] = n]
        /\ \E m \in Returned(s, n, Services) : requests' = requests \cup {<<s, m>>}
  BY DEF Tick
<1>2. s \in SCENARIOS /\ n \in Nat
  BY <1>1 DEF Flow, TicksAreCounted
<1>3. PICK m \in Returned(s, n, Services) : requests' = requests \cup {<<s, m>>}
  BY <1>1
<1>4. <<s, m>> \in Sent
  <2>. DEFINE Of(u, k) == {<<u, x>> : x \in Returned(u, k, Services)}
  <2>1. <<s, m>> \in Of(s, n)
    OBVIOUS
  <2>2. Sent = UNION {Of(u, k) : u \in SCENARIOS, k \in Nat}
    BY DEF Sent
  <2>. HIDE DEF Of
  <2>3. Of(s, n) \in {Of(u, k) : u \in SCENARIOS, k \in Nat}
    BY <1>2
  <2>. QED
    BY <2>1, <2>2, <2>3
<1>5. campaign' = campaign /\ minted' = minted
  BY DEF Tick
<1>. QED
  BY <1>1, <1>2, <1>3, <1>4, <1>5 DEF Flow, TicksAreCounted, RequestsAreSent

LEMMA IngestAppends ==
  ASSUME Flow, NEW request \in requests, Ingest(request)
  PROVE  LogsAreKnown' /\ RequestsAreSent'
<1>. DEFINE s == TheSignal(request[2])
            p == <<"signals", s.resource>>
            m == Received(minted + 1, s, request[1])
<1>1. log' = [log EXCEPT ![p] = Append(log[p], m)]
  BY DEF Ingest
<1>2. m \in Signals
  BY DEF Signals, Flow, RequestsAreSent
<1>3. p \in Partitions => log[p] \in Seq(Signals)
  BY DEF Flow, LogsAreKnown, Messages
<1>4. Messages(p) = Signals
  BY DEF Messages
<1>. HIDE DEF p, m
<1>5. DOMAIN log' = Partitions /\ \A q \in Partitions : log'[q] \in Seq(Messages(q))
  BY <1>1, <1>2, <1>3, <1>4 DEF Flow, LogsAreKnown
<1>6. requests' = requests \ {request} /\ minted' = minted + 1
  BY DEF Ingest
<1>. QED
  BY <1>5, <1>6 DEF Flow, LogsAreKnown, RequestsAreSent

LEMMA ExamineAdds ==
  ASSUME Flow, NEW r \in Resources, Examine(r)
  PROVE  \E results \in Seq(Findings) :
           log' = [log EXCEPT ![<<"findings", r>>] = log[<<"findings", r>>] \o results]
<1>. DEFINE p == <<"findings", r>>
            m == log[<<"signals", r>>][evaluated[r] + 1]
            found == InOrder(Evaluate(ContextOf(m)))
            results == [i \in DOMAIN found |-> Detected(m, found[i])]
<1>1. log' = [log EXCEPT ![p] = log[p] \o results]
  BY DEF Examine
<1>2. evaluated[r] < Len(log[<<"signals", r>>])
  BY DEF Examine
<1>3. <<"signals", r>> \in Partitions
  BY DEF Partitions, Topics
<1>4. log[<<"signals", r>>] \in Seq(Signals)
  BY <1>3 DEF Flow, LogsAreKnown, Messages
<1>5. m \in Signals
  BY <1>2, <1>4 DEF Flow, PositionsAreCounted
<1>6. \A i \in DOMAIN found : Detected(m, found[i]) \in Findings
  BY <1>5 DEF Findings, Results
<1>7. IsFiniteSet(Evaluate(ContextOf(m)))
  BY EvaluateIsFinite
<1>8. DOMAIN found = 1 .. Cardinality(Evaluate(ContextOf(m)))
      /\ Cardinality(Evaluate(ContextOf(m))) \in Nat
  BY <1>7, FS_CardinalityType DEF InOrder
<1>9. results \in Seq(Findings)
  <2>. HIDE DEF found, m
  <2>. QED
    BY <1>6, <1>8
<1>. HIDE DEF p, results
<1>. QED
  BY <1>1, <1>9 DEF p

LEMMA ExamineAppends ==
  ASSUME Flow, NEW r \in Resources, Examine(r)
  PROVE  LogsAreKnown' /\ PositionsAreCounted'
<1>. DEFINE p == <<"findings", r>>
<1>1. PICK results \in Seq(Findings) : log' = [log EXCEPT ![p] = log[p] \o results]
  BY ExamineAdds
<1>2. evaluated' = [evaluated EXCEPT ![r] = evaluated[r] + 1] /\ position' = position
  BY DEF Examine, processors
<1>3. p \in Partitions /\ Messages(p) = Findings
  BY DEF Partitions, Topics, Messages
<1>4. log[p] \in Seq(Findings)
  BY <1>3 DEF Flow, LogsAreKnown
<1>. HIDE DEF p
<1>5. DOMAIN log' = Partitions /\ \A q \in Partitions : log'[q] \in Seq(Messages(q))
  BY <1>1, <1>3, <1>4 DEF Flow, LogsAreKnown
<1>. QED
  BY <1>2, <1>5 DEF Flow, LogsAreKnown, PositionsAreCounted

(* The delivery of a message that a replica takes, and the bucket it joins. *)
Of(p, m) == IF p[1] = "signals" THEN FromSignal(m) ELSE FromFinding(m)
Bucket(H, d) == {x \in H : KeyFor(x.event) = KeyFor(d.event)} \cup {d}
Sends(d, bucket) ==
  [environment |-> d.event.environment, cluster |-> ClusterOf(KeyFor(d.event), bucket, 0)]

LEMMA CorrelateDelivers ==
  ASSUME Flow, NEW p \in Partitions, NEW w \in Replicas, Correlate(w, p)
  PROVE  \E d \in Deliveries :
           /\ held' = [held EXCEPT ![w] = held[w] \cup {d}]
           /\ correlations' = IF Credible(Bucket(held[w], d))
                              THEN Append(correlations, Sends(d, Bucket(held[w], d)))
                              ELSE correlations
           /\ position' = [position EXCEPT ![p] = position[p] + 1]
           /\ d.event = Of(p, log[p][position[p] + 1])
           /\ d.about = log[p][position[p] + 1].about
<1>. DEFINE m == log[p][position[p] + 1]
            event == Of(p, m)
            n == Cardinality({d \in held[w] : d.event = event}) + 1
            d == Delivered(n, event, m.about)
<1>1. position[p] \in Nat /\ position[p] < Len(log[p]) /\ log[p] \in Seq(Messages(p))
  BY DEF Correlate, Flow, PositionsAreCounted, LogsAreKnown
<1>2. m \in Messages(p)
  BY <1>1
<1>3. n \in Nat
  <2>1. {x \in held[w] : x.event = event} \in SUBSET held[w] /\ IsFiniteSet(held[w])
    BY DEF Flow, HeldAreDeliveries
  <2>2. IsFiniteSet({x \in held[w] : x.event = event})
    BY <2>1, FS_Subset
  <2>. HIDE DEF event
  <2>. QED
    BY <2>2, FS_CardinalityType
<1>4. d \in Deliveries
  <2>. HIDE DEF m, n
  <2>1. CASE p[1] = "signals"
    BY <1>2, <1>3, <2>1 DEF Deliveries, Messages, Of
  <2>2. CASE p[1] # "signals"
    BY <1>2, <1>3, <2>2 DEF Deliveries, Messages, Of
  <2>. QED
    BY <2>1, <2>2
<1>5. d.event = event /\ d.about = m.about
  BY DEF Delivered
<1>6. /\ held' = [held EXCEPT ![w] = held[w] \cup {d}]
      /\ correlations' = IF Credible(Bucket(held[w], d))
                         THEN Append(correlations, Sends(d, Bucket(held[w], d)))
                         ELSE correlations
      /\ position' = [position EXCEPT ![p] = position[p] + 1]
  BY <1>5 DEF Correlate, Of, Delivered, Bucket, Sends
<1>. HIDE DEF d
<1>. QED
  BY <1>4, <1>5, <1>6

LEMMA BucketIs ==
  ASSUME Flow, NEW w \in Replicas, NEW d \in Deliveries
  PROVE  /\ Bucket(held[w], d) \in SUBSET Deliveries /\ IsFiniteSet(Bucket(held[w], d))
         /\ d \in Bucket(held[w], d)
         /\ \A x \in Bucket(held[w], d) : KeyFor(x.event) = KeyFor(d.event)
         /\ Sends(d, Bucket(held[w], d)) \in Clusters
         /\ Sends(d, Bucket(held[w], d)).cluster.members = Bucket(held[w], d)
<1>. DEFINE same == {x \in held[w] : KeyFor(x.event) = KeyFor(d.event)}
<1>1. held[w] \subseteq Deliveries /\ IsFiniteSet(held[w]) /\ same \in SUBSET held[w]
  BY DEF Flow, HeldAreDeliveries
<1>2. IsFiniteSet(same)
  BY <1>1, FS_Subset
<1>3. Bucket(held[w], d) = same \cup {d}
  BY DEF Bucket
<1>4. IsFiniteSet(same \cup {d})
  BY <1>2, FS_AddElement
<1>5. Bucket(held[w], d) \in SUBSET Deliveries
  BY <1>1, <1>3
<1>6. Sends(d, Bucket(held[w], d)) \in Clusters
  BY <1>5 DEF Sends, Clusters
<1>7. Sends(d, Bucket(held[w], d)).cluster.members = Bucket(held[w], d)
  BY DEF Sends, ClusterOf
<1>. QED
  BY <1>3, <1>4, <1>5, <1>6, <1>7

LEMMA ResumptionsAreCounted ==
  ASSUME Flow, NEW p \in Partitions
  PROVE  Resumptions(p) \subseteq Nat
<1>1. position[p] \in Nat /\ Len(log[p]) \in Nat
  BY DEF Flow, PositionsAreCounted, LogsAreKnown
<1>. QED
  BY <1>1 DEF Resumptions

LEMMA FlowStep == Flow /\ [Next]_vars => Flow'
<1>. SUFFICES ASSUME Flow, [Next]_vars PROVE Flow'
  OBVIOUS
<1>1. ASSUME NEW s \in DOMAIN ticks, Tick(s) PROVE Flow'
  <2>1. UNCHANGED <<log, evaluated, position, held, correlations>>
    BY <1>1 DEF Tick, engines, processors
  <2>. QED
    BY <1>1, <2>1, TickSends
       DEF Flow, LogsAreKnown, PositionsAreCounted, HeldAreDeliveries, CorrelationsAreClusters
<1>2. ASSUME NEW request \in requests, Lose(request) PROVE Flow'
  BY <1>2 DEF Lose, engines, processors, Flow, TicksAreCounted, RequestsAreSent, LogsAreKnown,
              PositionsAreCounted, HeldAreDeliveries, CorrelationsAreClusters
<1>3. ASSUME NEW request \in requests, Ingest(request) PROVE Flow'
  <2>1. UNCHANGED <<campaign, ticks, evaluated, position, held, correlations>>
    BY <1>3 DEF Ingest, processors
  <2>. QED
    BY <1>3, <2>1, IngestAppends
       DEF Flow, TicksAreCounted, PositionsAreCounted, HeldAreDeliveries, CorrelationsAreClusters
<1>4. ASSUME NEW r \in Resources, Examine(r) PROVE Flow'
  <2>1. UNCHANGED <<campaign, ticks, requests, minted, held, correlations>>
    BY <1>4 DEF Examine, simulation, processors
  <2>. QED
    BY <1>4, <2>1, ExamineAppends
       DEF Flow, TicksAreCounted, RequestsAreSent, HeldAreDeliveries, CorrelationsAreClusters
<1>5. ASSUME NEW p \in Partitions, NEW w \in Replicas, Correlate(w, p) PROVE Flow'
  <2>1. PICK d \in Deliveries :
           /\ held' = [held EXCEPT ![w] = held[w] \cup {d}]
           /\ correlations' = IF Credible(Bucket(held[w], d))
                              THEN Append(correlations, Sends(d, Bucket(held[w], d)))
                              ELSE correlations
           /\ position' = [position EXCEPT ![p] = position[p] + 1]
    BY <1>5, CorrelateDelivers
  <2>2. UNCHANGED <<campaign, ticks, requests, minted, log, evaluated>>
    BY <1>5 DEF Correlate, simulation, engines
  <2>3. HeldAreDeliveries'
    BY <2>1, FS_AddElement DEF Flow, HeldAreDeliveries
  <2>4. CorrelationsAreClusters'
    BY <2>1, BucketIs DEF Flow, CorrelationsAreClusters
  <2>5. PositionsAreCounted'
    BY <2>1, <2>2 DEF Flow, PositionsAreCounted
  <2>. QED
    BY <2>2, <2>3, <2>4, <2>5 DEF Flow, TicksAreCounted, RequestsAreSent, LogsAreKnown
<1>6. ASSUME NEW p \in Partitions, NEW w \in Replicas, Rebalance(p, w) PROVE Flow'
  <2>1. PICK o \in Resumptions(p) : position' = [position EXCEPT ![p] = o]
    BY <1>6 DEF Rebalance
  <2>2. UNCHANGED <<campaign, ticks, requests, minted, log, evaluated, held, correlations>>
    BY <1>6 DEF Rebalance, simulation, engines
  <2>3. PositionsAreCounted'
    BY <2>1, <2>2, ResumptionsAreCounted DEF Flow, PositionsAreCounted
  <2>. QED
    BY <2>2, <2>3 DEF Flow, TicksAreCounted, RequestsAreSent, LogsAreKnown, HeldAreDeliveries,
                      CorrelationsAreClusters
<1>7. ASSUME OpenIncident PROVE Flow'
  <2>1. UNCHANGED <<campaign, ticks, requests, minted, log, evaluated, position, held>>
    BY <1>7 DEF OpenIncident, simulation, engines, processors
  <2>2. CorrelationsAreClusters'
    BY <1>7 DEF OpenIncident, Flow, CorrelationsAreClusters
  <2>. QED
    BY <2>1, <2>2 DEF Flow, TicksAreCounted, RequestsAreSent, LogsAreKnown,
                      PositionsAreCounted, HeldAreDeliveries
<1>8. ASSUME NEW w \in Replicas, Crash(w) PROVE Flow'
  <2>. DEFINE its == {p \in Partitions : owner[p] = w /\ log[p] # <<>>}
  <2>1. PICK resumed \in [its -> UNION {Resumptions(p) : p \in its}] :
          /\ \A p \in its : resumed[p] \in Resumptions(p)
          /\ position' = [p \in Partitions |-> IF p \in its THEN resumed[p] ELSE position[p]]
    BY <1>8 DEF Crash
  <2>2. \A p \in its : resumed[p] \in Nat
    BY <2>1, ResumptionsAreCounted
  <2>3. UNCHANGED <<campaign, ticks, requests, minted, log, evaluated, correlations>>
        /\ held' = [held EXCEPT ![w] = {}]
    BY <1>8 DEF Crash, simulation, engines
  <2>4. PositionsAreCounted'
    <3>. HIDE DEF its
    <3>. QED
      BY <2>1, <2>2, <2>3 DEF Flow, PositionsAreCounted
  <2>5. HeldAreDeliveries'
    BY <2>3, FS_EmptySet DEF Flow, HeldAreDeliveries
  <2>. QED
    BY <2>3, <2>4, <2>5 DEF Flow, TicksAreCounted, RequestsAreSent, LogsAreKnown,
                      CorrelationsAreClusters
<1>9. CASE UNCHANGED vars
  BY <1>9 DEF vars, simulation, engines, processors, Flow, TicksAreCounted, RequestsAreSent,
              LogsAreKnown, PositionsAreCounted, HeldAreDeliveries, CorrelationsAreClusters
<1>. QED
  BY <1>1, <1>2, <1>3, <1>4, <1>5, <1>6, <1>7, <1>8, <1>9 DEF Next
-----------------------------------------------------------------------------
(* NoiseNeverPages: a cluster that is on its way to the incident-service   *)
(* has a member of the demonstration too.                                  *)
SendersAreTheDemo ==
  \A i \in 1 .. Len(correlations) :
    \E d \in correlations[i].cluster.members : d.about.scenario = Demo
NoiseInv == SendersAreTheDemo /\ NoiseNeverPages

LEMMA RowShows ==
  ASSUME NEW c, NEW d \in c.cluster.members
  PROVE  \E m \in Row(c).members : m.family = Family(d.event.eventType) /\ m.about = d.about
<1>. DEFINE Member(x) == [family |-> Family(x.event.eventType), about |-> x.about]
            m == Member(d)
<1>1. Row(c).members = {Member(x) : x \in c.cluster.members}
  BY DEF Row
<1>2. m \in Row(c).members
  <2>. HIDE DEF Member
  <2>. QED
    BY <1>1
<1>3. m.family = Family(d.event.eventType) /\ m.about = d.about
  BY Zenon
<1>. HIDE DEF m
<1>. QED
  BY <1>2, <1>3

(* Besides Correlate and OpenIncident no step touches what is sent.        *)
LEMMA OthersSendNothing ==
  ASSUME Flow, [Next]_vars
  PROVE  \/ UNCHANGED <<correlations, announced>>
         \/ \E p \in Partitions, w \in Replicas : Correlate(w, p)
         \/ OpenIncident
BY DEF Next, Tick, Lose, Ingest, Examine, Rebalance, Crash, vars

LEMMA OpenIncidentAnnounces ==
  ASSUME Flow, OpenIncident
  PROVE  /\ correlations # <<>> /\ correlations' = Tail(correlations)
         /\ \E x : /\ x.row = Row(correlations[1])
                   /\ announced' = announced \cup {x}
<1>. DEFINE x == [created |-> correlations[1].cluster.correlationKey \notin DOMAIN incidents,
                  row |-> Row(correlations[1])]
<1>1. correlations # <<>> /\ Head(correlations) = correlations[1]
  BY DEF OpenIncident, Flow, CorrelationsAreClusters
<1>2. correlations' = Tail(correlations) /\ announced' = announced \cup {x}
  BY <1>1 DEF OpenIncident
<1>3. x.row = Row(correlations[1])
  OBVIOUS
<1>. HIDE DEF x
<1>. QED
  BY <1>1, <1>2, <1>3

LEMMA NoiseStep == Flow /\ NoiseInv /\ [Next]_vars => NoiseInv'
<1>. SUFFICES ASSUME Flow, NoiseInv, [Next]_vars PROVE NoiseInv'
  OBVIOUS
<1>1. CASE UNCHANGED <<correlations, announced>>
  BY <1>1 DEF NoiseInv, SendersAreTheDemo, NoiseNeverPages
<1>2. ASSUME NEW p \in Partitions, NEW w \in Replicas, Correlate(w, p) PROVE NoiseInv'
  <2>1. PICK d \in Deliveries :
           correlations' = IF Credible(Bucket(held[w], d))
                           THEN Append(correlations, Sends(d, Bucket(held[w], d)))
                           ELSE correlations
    BY <1>2, CorrelateDelivers
  <2>. DEFINE b == Bucket(held[w], d)
              c == Sends(d, b)
  <2>2. /\ b \in SUBSET Deliveries /\ \A x \in b : KeyFor(x.event) = KeyFor(d.event)
        /\ c \in Clusters /\ c.cluster.members = b
    BY BucketIs
  <2>3. Credible(b) => \E x \in b : x.about.scenario = Demo
    BY <2>2, CredibleHasTheDemo
  <2>4. correlations \in Seq(Clusters)
    BY DEF Flow, CorrelationsAreClusters
  <2>5. SendersAreTheDemo'
    <3>1. CASE Credible(b)
      <4>. HIDE DEF c, b
      <4>1. /\ correlations' = Append(correlations, c)
            /\ \E x \in c.cluster.members : x.about.scenario = Demo
        BY <2>1, <2>2, <2>3, <3>1 DEF b, c
      <4>2. \A i \in 1 .. Len(correlations') :
              \/ i \in 1 .. Len(correlations) /\ correlations'[i] = correlations[i]
              \/ correlations'[i] = c
        BY <2>2, <2>4, <4>1
      <4>. QED
        BY <4>1, <4>2 DEF NoiseInv, SendersAreTheDemo
    <3>2. CASE ~Credible(b)
      BY <2>1, <3>2 DEF NoiseInv, SendersAreTheDemo
    <3>. QED
      BY <3>1, <3>2
  <2>6. announced' = announced
    BY <1>2 DEF Correlate
  <2>. QED
    BY <2>5, <2>6 DEF NoiseInv, NoiseNeverPages
<1>3. CASE OpenIncident
  <2>1. correlations # <<>> /\ correlations' = Tail(correlations) /\ correlations \in Seq(Clusters)
    BY <1>3, OpenIncidentAnnounces DEF Flow, CorrelationsAreClusters
  <2>2. PICK x : x.row = Row(correlations[1]) /\ announced' = announced \cup {x}
    BY <1>3, OpenIncidentAnnounces
  <2>3. SendersAreTheDemo'
    <3>1. \A i \in 1 .. Len(correlations') :
            i + 1 \in 1 .. Len(correlations) /\ correlations'[i] = correlations[i + 1]
      BY <2>1
    <3>. QED
      BY <3>1 DEF NoiseInv, SendersAreTheDemo
  <2>4. \E d \in correlations[1].cluster.members : d.about.scenario = Demo
    BY <2>1 DEF NoiseInv, SendersAreTheDemo
  <2>5. \E m \in x.row.members : m.about.scenario = Demo
    BY <2>2, <2>4, RowShows
  <2>. QED
    BY <2>2, <2>3, <2>5 DEF NoiseInv, NoiseNeverPages, Demo
<1>. QED
  BY <1>1, <1>2, <1>3, OthersSendNothing

LEMMA FlowInvariant == Spec => []Flow
BY FlowStarts, FlowStep, PTL DEF Spec

(* Whatever scenarios run, however posts overtake each other and events    *)
(* are redelivered after faults, and however the partitions are shared     *)
(* out, an incident has a member that the demonstration of one sent.       *)
THEOREM NoiseIsQuiet == Spec => []NoiseNeverPages
<1>1. Init => NoiseInv
  BY DEF Init, NoiseInv, SendersAreTheDemo, NoiseNeverPages
<1>. QED
  BY <1>1, NoiseStep, FlowInvariant, PTL DEF Spec, NoiseInv
-----------------------------------------------------------------------------
(* TogetherIsPaged: until it has been announced, the row that pages is     *)
(* that of a cluster on its way to the incident-service.                   *)
OtherFamilies == {"infrastructure", "security"}
Pages(row, family) ==
  /\ row.priority = "P1"
  /\ {"performance", family} \subseteq {m.family : m \in row.members}
Relevant(d, family) ==
  /\ d.about.service = "checkout" /\ Family(d.event.eventType) = family
  /\ d.event.correlationId = d.event.resourceId
Meet(H, family) ==
  (\E d \in H : Relevant(d, "performance")) /\ \E d \in H : Relevant(d, family)
TogetherInv ==
  \A w \in Replicas : \A family \in OtherFamilies :
    Meet(held[w], family) =>
      \/ \E i \in 1 .. Len(correlations) : Pages(Row(correlations[i]), family)
      \/ \E x \in announced : Pages(x.row, family)

(* The alert and the other event have the key of the service, whichever of *)
(* the two comes last.                                                     *)
LEMMA RelevantKey ==
  ASSUME NEW d \in Deliveries, NEW family \in OtherFamilies \cup {"performance"},
         Relevant(d, family)
  PROVE  KeyFor(d.event) = <<"svc", "production", "checkout">>
<1>1. d.event.eventType # "deployment.completed"
  BY FamilyIs DEF Relevant, OtherFamilies
<1>2. d.event.service = "checkout" /\ d.event.environment = "production"
  BY <1>1, DeliveriesAreKnown DEF DeliveryIsKnown, Relevant
<1>3. ~Explicit(d.event.correlationId, d.event.resourceId)
  BY TheDefaultIsNotExplicit DEF Relevant
<1>. QED
  BY <1>2, <1>3, KeyIs

LEMMA TheMeetingPages ==
  ASSUME Flow, MinConfidence <= 95, NEW w \in Replicas, NEW d \in Deliveries,
         NEW family \in OtherFamilies,
         Meet(held[w] \cup {d}, family), ~Meet(held[w], family)
  PROVE  /\ Credible(Bucket(held[w], d))
         /\ Pages(Row(Sends(d, Bucket(held[w], d))), family)
<1>. DEFINE bucket == Bucket(held[w], d)
            c == Sends(d, bucket)
<1>1. PICK a \in held[w] \cup {d} : Relevant(a, "performance")
  BY DEF Meet
<1>2. PICK b \in held[w] \cup {d} : Relevant(b, family)
  BY DEF Meet
<1>3. a = d \/ b = d
  BY <1>1, <1>2 DEF Meet
<1>4. a \in Deliveries /\ b \in Deliveries
  BY DEF Flow, HeldAreDeliveries
<1>5. KeyFor(a.event) = <<"svc", "production", "checkout">>
      /\ KeyFor(b.event) = <<"svc", "production", "checkout">>
  BY <1>1, <1>2, <1>4, RelevantKey
<1>6. a \in bucket /\ b \in bucket
  BY <1>3, <1>5 DEF Bucket
<1>7. /\ bucket \in SUBSET Deliveries /\ IsFiniteSet(bucket)
      /\ c.cluster.members = bucket
  BY BucketIs
<1>8. Family(a.event.eventType) = "performance" /\ Family(b.event.eventType) = family
      /\ family # "performance"
  BY <1>1, <1>2 DEF Relevant, OtherFamilies
<1>9. a.event.severity = "critical"
  <2>1. a.event.eventType = "performance.alert"
    BY <1>4, <1>8, DeliveriesAreKnown, FamilyIs DEF DeliveryIsKnown, EventTypes
  <2>. QED
    BY <1>4, <2>1, DeliveriesAreKnown DEF DeliveryIsKnown
<1>10. c = [environment |-> "production", cluster |-> ClusterOf(KeyFor(d.event), bucket, 0)]
  <2>1. d.event.environment = "production"
    BY DeliveriesAreKnown DEF DeliveryIsKnown
  <2>. QED
    BY <2>1 DEF Sends
<1>11. Credible(bucket) /\ Row(c).priority = "P1"
  <2>. HIDE DEF bucket, c
  <2>1. Family(a.event.eventType) # Family(b.event.eventType)
    BY <1>8
  <2>. QED
    BY <1>6, <1>7, <1>9, <1>10, <2>1, CriticalClusterIsP1
<1>12. {"performance", family} \subseteq {m.family : m \in Row(c).members}
  <2>. HIDE DEF bucket, c
  <2>1. a \in c.cluster.members /\ b \in c.cluster.members
    BY <1>6, <1>7
  <2>2. \E m \in Row(c).members : m.family = "performance"
    BY <1>8, <2>1, RowShows
  <2>3. \E m \in Row(c).members : m.family = family
    BY <1>8, <2>1, RowShows
  <2>. QED
    BY <2>2, <2>3
<1>. QED
  BY <1>11, <1>12 DEF Pages

LEMMA HeldShrinksOrStays ==
  ASSUME Flow, [Next]_vars, NEW w \in Replicas
  PROVE  \/ held'[w] \subseteq held[w]
         \/ \E p \in Partitions : Correlate(w, p)
<1>1. CASE held' = held
  BY <1>1
<1>. DOMAIN held = Replicas
  BY DEF Flow, HeldAreDeliveries
<1>2. ASSUME NEW v \in Replicas, Crash(v) PROVE held'[w] \subseteq held[w]
  <2>1. held' = [held EXCEPT ![v] = {}]
    BY <1>2 DEF Crash
  <2>2. held'[w] = held[w] \/ held'[w] = {}
    BY <2>1
  <2>. QED
    BY <2>2
<1>3. ASSUME NEW p \in Partitions, NEW v \in Replicas, Correlate(v, p), v # w
      PROVE  held'[w] \subseteq held[w]
  <2>1. PICK bucket : held' = [held EXCEPT ![v] = bucket]
    BY <1>3, CorrelateDelivers
  <2>2. held'[w] = held[w]
    BY <1>3, <2>1
  <2>. QED
    BY <2>2
<1>4. \/ held' = held
      \/ \E v \in Replicas : Crash(v)
      \/ \E p \in Partitions, v \in Replicas : Correlate(v, p)
  BY DEF Next, Tick, Lose, Ingest, Examine, Rebalance, OpenIncident, processors, vars
<1>. QED
  BY <1>1, <1>2, <1>3, <1>4

LEMMA PagingStays ==
  ASSUME Flow, [Next]_vars, NEW family,
         \/ \E i \in 1 .. Len(correlations) : Pages(Row(correlations[i]), family)
         \/ \E x \in announced : Pages(x.row, family)
  PROVE  \/ \E i \in 1 .. Len(correlations') : Pages(Row(correlations'[i]), family)
         \/ \E x \in announced' : Pages(x.row, family)
<1>. correlations \in Seq(Clusters)
  BY DEF Flow, CorrelationsAreClusters
<1>1. CASE UNCHANGED <<correlations, announced>>
  BY <1>1
<1>2. ASSUME NEW p \in Partitions, NEW w \in Replicas, Correlate(w, p)
      PROVE  \/ \E i \in 1 .. Len(correlations') : Pages(Row(correlations'[i]), family)
             \/ \E x \in announced' : Pages(x.row, family)
  <2>1. PICK d \in Deliveries :
           correlations' = IF Credible(Bucket(held[w], d))
                           THEN Append(correlations, Sends(d, Bucket(held[w], d)))
                           ELSE correlations
    BY <1>2, CorrelateDelivers
  <2>2. \A i \in 1 .. Len(correlations) :
          i \in 1 .. Len(correlations') /\ correlations'[i] = correlations[i]
    <3>1. CASE correlations' = correlations
      BY <3>1
    <3>2. CASE \E c \in Clusters : correlations' = Append(correlations, c)
      BY <3>2
    <3>. QED
      BY <2>1, <3>1, <3>2, BucketIs
  <2>3. announced' = announced
    BY <1>2 DEF Correlate
  <2>. QED
    BY <2>2, <2>3
<1>3. CASE OpenIncident
  <2>1. correlations # <<>> /\ correlations' = Tail(correlations)
    BY <1>3, OpenIncidentAnnounces
  <2>2. PICK x : x.row = Row(correlations[1]) /\ announced' = announced \cup {x}
    BY <1>3, OpenIncidentAnnounces
  <2>3. CASE \E y \in announced : Pages(y.row, family)
    BY <2>2, <2>3
  <2>4. ASSUME NEW i \in 1 .. Len(correlations), Pages(Row(correlations[i]), family)
        PROVE  \/ \E j \in 1 .. Len(correlations') : Pages(Row(correlations'[j]), family)
               \/ \E y \in announced' : Pages(y.row, family)
    <3>1. CASE i = 1
      BY <2>2, <2>4, <3>1
    <3>2. CASE i # 1
      <4>1. i - 1 \in 1 .. Len(correlations') /\ correlations'[i - 1] = correlations[i]
        BY <2>1, <3>2
      <4>. QED
        BY <2>4, <4>1
    <3>. QED
      BY <3>1, <3>2
  <2>. QED
    BY <2>3, <2>4
<1>. QED
  BY <1>1, <1>2, <1>3, OthersSendNothing

LEMMA TogetherStep ==
  ASSUME MinConfidence <= 95
  PROVE  Flow /\ TogetherInv /\ [Next]_vars => TogetherInv'
<1>. SUFFICES ASSUME Flow, TogetherInv, [Next]_vars,
                     NEW w \in Replicas, NEW family \in OtherFamilies, Meet(held'[w], family)
              PROVE  \/ \E i \in 1 .. Len(correlations') : Pages(Row(correlations'[i]), family)
                     \/ \E x \in announced' : Pages(x.row, family)
  BY DEF TogetherInv
<1>1. CASE Meet(held[w], family)
  BY <1>1, PagingStays DEF TogetherInv
<1>2. CASE ~Meet(held[w], family)
  <2>1. ~(held'[w] \subseteq held[w])
    BY <1>2 DEF Meet
  <2>2. PICK p \in Partitions : Correlate(w, p)
    BY <2>1, HeldShrinksOrStays
  <2>3. PICK d \in Deliveries :
           /\ held' = [held EXCEPT ![w] = held[w] \cup {d}]
           /\ correlations' = IF Credible(Bucket(held[w], d))
                              THEN Append(correlations, Sends(d, Bucket(held[w], d)))
                              ELSE correlations
    BY <2>2, CorrelateDelivers
  <2>4. held'[w] = held[w] \cup {d}
    BY <2>3 DEF Flow, HeldAreDeliveries
  <2>. DEFINE c == Sends(d, Bucket(held[w], d))
  <2>5. Credible(Bucket(held[w], d)) /\ Pages(Row(c), family)
    BY <1>2, <2>4, TheMeetingPages
  <2>6. c \in Clusters /\ correlations \in Seq(Clusters)
    BY BucketIs DEF Flow, CorrelationsAreClusters
  <2>7. correlations' = Append(correlations, c)
    BY <2>3, <2>5
  <2>. HIDE DEF c
  <2>8. Len(correlations) + 1 \in 1 .. Len(correlations')
        /\ correlations'[Len(correlations) + 1] = c
    BY <2>6, <2>7
  <2>. QED
    BY <2>5, <2>8
<1>. QED
  BY <1>1, <1>2

(* When minConfidence lets a confidence of 0.95 pass, as any setting of    *)
(* the threshold near its default of 0.5 does, a replica that holds the    *)
(* latency alert together with an event of the cluster or a finding about  *)
(* the same service has had an incident paged as P1 that shows both, by    *)
(* the time the incident-service has caught up.                            *)
THEOREM TogetherPages ==
  ASSUME MinConfidence <= 95
  PROVE  Spec => []TogetherIsPaged
<1>1. Init => TogetherInv
  BY DEF Init, TogetherInv, Meet
<1>2. Flow /\ TogetherInv => TogetherIsPaged
  <2>. SUFFICES ASSUME TogetherInv, correlations = <<>>,
                       NEW w \in Replicas, NEW family \in OtherFamilies,
                       Holds(w, "checkout", "performance"), Holds(w, "checkout", family)
                PROVE  \E x \in announced : Pages(x.row, family)
    BY DEF TogetherIsPaged, Pages, OtherFamilies
  <2>1. Meet(held[w], family)
    BY DEF Holds, Meet, Relevant
  <2>2. 1 .. Len(correlations) = {}
    OBVIOUS
  <2>. QED
    BY <2>1, <2>2 DEF TogetherInv
<1>3. Flow /\ TogetherInv /\ [Next]_vars => TogetherInv'
  BY TogetherStep
<1>. QED
  BY <1>1, <1>2, <1>3, FlowInvariant, PTL DEF Spec
-----------------------------------------------------------------------------
(* What it takes for the demonstration to be paged is thus a matter of how *)
(* the partitions are shared out.  Until something fails, a replica holds  *)
(* all that it has read: an unbroken group pages whatever was read of two  *)
(* partitions that one replica has, and how the posts, the rules and the   *)
(* two topics were interleaved does not matter.                            *)
HasRead(p, service, family) ==
  \E i \in 1 .. position[p] :
    /\ log[p][i].about.service = service
    /\ Family(Of(p, log[p][i]).eventType) = family
    /\ Of(p, log[p][i]).correlationId = Of(p, log[p][i]).resourceId

ReadTogetherIsPaged ==
  (faults = 0 /\ correlations = <<>>) =>
    \A p, q \in Partitions, family \in OtherFamilies :
      (owner[p] = owner[q] /\ HasRead(p, "checkout", "performance")
                           /\ HasRead(q, "checkout", family)) =>
        \E x \in announced : Pages(x.row, family)

IsHeld(p, i) ==
  \E d \in held[owner[p]] : d.event = Of(p, log[p][i]) /\ d.about = log[p][i].about
ReadIsHeld ==
  \A p \in Partitions :
    /\ owner[p] \in Replicas /\ position[p] <= Len(log[p])
    /\ \A i \in 1 .. position[p] : IsHeld(p, i)
ReadInv == faults \in Nat /\ (faults = 0 => ReadIsHeld)

(* The bus only appends.                                                   *)
LEMMA LogExtends ==
  ASSUME Flow, [Next]_vars, NEW p \in Partitions
  PROVE  /\ Len(log[p]) <= Len(log'[p])
         /\ \A i \in 1 .. Len(log[p]) : log'[p][i] = log[p][i]
<1>. DEFINE Extends == /\ Len(log[p]) <= Len(log'[p])
                       /\ \A i \in 1 .. Len(log[p]) : log'[p][i] = log[p][i]
<1>0. log[p] \in Seq(Messages(p)) /\ DOMAIN log = Partitions /\ Len(log[p]) \in Nat
  BY DEF Flow, LogsAreKnown
<1>1. CASE log'[p] = log[p]
  BY <1>0, <1>1
<1>2. ASSUME NEW request \in requests, Ingest(request) PROVE Extends
  <2>1. PICK b, m : log' = [log EXCEPT ![b] = Append(log[b], m)]
    BY <1>2 DEF Ingest
  <2>2. CASE b = p
    <3>1. log'[p] = Append(log[p], m)
      BY <1>0, <2>1, <2>2
    <3>2. Len(log'[p]) = Len(log[p]) + 1 /\ \A i \in 1 .. Len(log[p]) : log'[p][i] = log[p][i]
      BY <1>0, <3>1
    <3>. QED
      BY <1>0, <3>2
  <2>3. CASE b # p
    <3>1. log'[p] = log[p]
      BY <1>0, <2>1, <2>3
    <3>. QED
      BY <1>1, <3>1
  <2>. QED
    BY <2>2, <2>3
<1>3. ASSUME NEW r \in Resources, Examine(r) PROVE Extends
  <2>. DEFINE b == <<"findings", r>>
  <2>1. PICK results \in Seq(Findings) : log' = [log EXCEPT ![b] = log[b] \o results]
    BY <1>3, ExamineAdds
  <2>. HIDE DEF b
  <2>2. CASE b = p
    <3>1. log'[p] = log[p] \o results
      BY <1>0, <2>1, <2>2
    <3>2. /\ Len(log'[p]) = Len(log[p]) + Len(results) /\ Len(results) \in Nat
          /\ \A i \in 1 .. Len(log[p]) : log'[p][i] = log[p][i]
      BY <1>0, <3>1
    <3>. QED
      BY <1>0, <3>2
  <2>3. CASE b # p
    <3>1. log'[p] = log[p]
      BY <1>0, <2>1, <2>3
    <3>. QED
      BY <1>1, <3>1
  <2>. QED
    BY <2>2, <2>3
<1>4. \/ log' = log
      \/ \E request \in requests : Ingest(request)
      \/ \E r \in Resources : Examine(r)
  <2>. DEFINE Same == log' = log
  <2>1. ASSUME NEW s \in DOMAIN ticks, Tick(s) PROVE Same
    BY <2>1 DEF Tick, engines
  <2>2. ASSUME NEW request \in requests, Lose(request) PROVE Same
    BY <2>2 DEF Lose, engines
  <2>3. ASSUME NEW b \in Partitions, NEW w \in Replicas, Correlate(w, b) \/ Rebalance(b, w)
        PROVE  Same
    BY <2>3 DEF Correlate, Rebalance, engines
  <2>4. OpenIncident => Same
    BY DEF OpenIncident, engines
  <2>5. ASSUME NEW w \in Replicas, Crash(w) PROVE Same
    BY <2>5 DEF Crash, engines
  <2>6. UNCHANGED vars => Same
    BY DEF vars, engines
  <2>. HIDE DEF Same
  <2>7. \/ Same
        \/ \E request \in requests : Ingest(request)
        \/ \E r \in Resources : Examine(r)
    BY <2>1, <2>2, <2>3, <2>4, <2>5, <2>6 DEF Next
  <2>. QED
    BY <2>7 DEF Same
<1>. QED
  BY <1>1, <1>2, <1>3, <1>4

(* Besides Correlate, no step before the first fault touches what the      *)
(* replicas have read and hold.                                            *)
LEMMA NothingIsDropped ==
  ASSUME ReadInv, [Next]_vars
  PROVE  /\ faults' \in Nat /\ (faults' = 0 => faults = 0)
         /\ \/ faults' # 0
            \/ UNCHANGED <<owner, position, held>>
            \/ \E p \in Partitions, w \in Replicas :
                 Correlate(w, p) /\ UNCHANGED <<owner, log>> /\ owner[p] = w
                                 /\ position[p] < Len(log[p])
<1>. DEFINE Still  == UNCHANGED <<owner, position, held, faults>>
            Failed == faults' = faults + 1
            Reads(p, w) == UNCHANGED <<owner, log, faults>> /\ owner[p] = w
                           /\ position[p] < Len(log[p])
<1>1. ASSUME NEW s \in DOMAIN ticks, Tick(s) PROVE Still
  BY <1>1 DEF Tick, processors
<1>2. ASSUME NEW request \in requests, Lose(request) PROVE Failed
  BY <1>2 DEF Lose
<1>3. ASSUME NEW request \in requests, Ingest(request) PROVE Still
  BY <1>3 DEF Ingest, processors
<1>4. ASSUME NEW r \in Resources, Examine(r) PROVE Still
  BY <1>4 DEF Examine, processors
<1>5. ASSUME NEW p \in Partitions, NEW w \in Replicas, Correlate(w, p) PROVE Reads(p, w)
  BY <1>5 DEF Correlate, engines
<1>6. ASSUME NEW p \in Partitions, NEW w \in Replicas, Rebalance(p, w) PROVE Failed
  BY <1>6 DEF Rebalance
<1>7. ASSUME OpenIncident PROVE Still
  BY <1>7 DEF OpenIncident, processors
<1>8. ASSUME NEW w \in Replicas, Crash(w) PROVE Failed
  BY <1>8 DEF Crash
<1>9. ASSUME UNCHANGED vars PROVE Still
  BY <1>9 DEF vars, processors
<1>10. \/ Failed \/ Still
       \/ \E p \in Partitions, w \in Replicas : Correlate(w, p) /\ Reads(p, w)
  <2>. HIDE DEF Still, Failed, Reads
  <2>. QED
    BY <1>1, <1>2, <1>3, <1>4, <1>5, <1>6, <1>7, <1>8, <1>9 DEF Next
<1>11. faults' = faults + 1 \/ faults' = faults
  BY <1>10
<1>12. faults' \in Nat /\ (faults' = faults + 1 => faults' # 0) /\ (faults' = 0 => faults = 0)
  BY <1>11 DEF ReadInv
<1>. QED
  BY <1>10, <1>12

LEMMA ReadStep == Flow /\ ReadInv /\ [Next]_vars => ReadInv'
<1>. SUFFICES ASSUME Flow, ReadInv, [Next]_vars, faults' = 0, NEW p \in Partitions
              PROVE  /\ owner'[p] \in Replicas /\ position'[p] <= Len(log'[p])
                     /\ \A i \in 1 .. position'[p] : IsHeld(p, i)'
  BY NothingIsDropped DEF ReadInv, ReadIsHeld
<1>1. /\ owner[p] \in Replicas /\ position[p] <= Len(log[p])
      /\ \A i \in 1 .. position[p] : IsHeld(p, i)
  BY NothingIsDropped DEF ReadInv, ReadIsHeld
<1>2. position[p] \in Nat /\ Len(log[p]) \in Nat /\ Len(log'[p]) \in Nat
      /\ Len(log[p]) <= Len(log'[p]) /\ \A i \in 1 .. Len(log[p]) : log'[p][i] = log[p][i]
  <2>1. position[p] \in Nat /\ log[p] \in Seq(Messages(p)) /\ log'[p] \in Seq(Messages(p))
    BY FlowStep DEF Flow, PositionsAreCounted, LogsAreKnown
  <2>. QED
    BY <2>1, LogExtends
<1>3. CASE UNCHANGED <<owner, position, held>>
  <2>1. position[p] <= Len(log'[p])
    BY <1>1, <1>2
  <2>2. ASSUME NEW i \in 1 .. position[p] PROVE IsHeld(p, i)'
    <3>1. log'[p][i] = log[p][i]
      BY <1>1, <1>2
    <3>. QED
      BY <1>1, <1>3, <3>1 DEF IsHeld
  <2>. QED
    BY <1>1, <1>3, <2>1, <2>2
<1>4. ASSUME NEW q \in Partitions, NEW w \in Replicas, Correlate(w, q), UNCHANGED <<owner, log>>,
             owner[q] = w, position[q] < Len(log[q])
      PROVE  /\ owner'[p] \in Replicas /\ position'[p] <= Len(log'[p])
             /\ \A i \in 1 .. position'[p] : IsHeld(p, i)'
  <2>1. PICK d \in Deliveries :
           /\ held' = [held EXCEPT ![w] = held[w] \cup {d}]
           /\ position' = [position EXCEPT ![q] = position[q] + 1]
           /\ d.event = Of(q, log[q][position[q] + 1])
           /\ d.about = log[q][position[q] + 1].about
    BY <1>4, CorrelateDelivers
  <2>2. DOMAIN held = Replicas /\ DOMAIN position = Partitions
    BY DEF Flow, HeldAreDeliveries, PositionsAreCounted
  <2>3. \A v \in Replicas : held[v] \subseteq held'[v]
    BY <2>1, <2>2
  <2>4. ASSUME NEW i \in 1 .. position[p] PROVE IsHeld(p, i)'
    BY <1>1, <1>4, <2>3 DEF IsHeld
  <2>5. CASE p # q
    <3>1. position'[p] = position[p]
      BY <2>1, <2>2, <2>5
    <3>. QED
      BY <1>1, <1>4, <2>4, <3>1
  <2>6. CASE p = q
    <3>1. position'[p] = position[p] + 1
      BY <2>1, <2>2, <2>6
    <3>2. d \in held'[w]
      BY <2>1, <2>2
    <3>3. ASSUME NEW i, i = position[p] + 1 PROVE IsHeld(p, i)'
      BY <1>4, <2>1, <2>6, <3>2, <3>3 DEF IsHeld
    <3>4. \A i \in 1 .. position'[p] : i \in 1 .. position[p] \/ i = position[p] + 1
      BY <1>2, <3>1
    <3>5. position'[p] <= Len(log'[p])
      BY <1>2, <1>4, <2>6, <3>1
    <3>. QED
      BY <1>1, <1>4, <2>4, <3>3, <3>4, <3>5
  <2>. QED
    BY <2>5, <2>6
<1>. QED
  BY <1>3, <1>4, NothingIsDropped

(* While nothing has failed, an alert and another event about its service  *)
(* that were read from two partitions of one replica have been paged       *)
(* together by the time the incident-service has caught up, however many   *)
(* replicas there are and whatever other scenarios run: what the group     *)
(* must see to is that those two partitions go to one replica.             *)
THEOREM SharedReplicaPages ==
  ASSUME MinConfidence <= 95
  PROVE  Spec => []ReadTogetherIsPaged
<1>1. Init => TogetherInv /\ ReadInv
  <2>. SUFFICES ASSUME Init PROVE TogetherInv /\ ReadInv
    OBVIOUS
  <2>1. TogetherInv
    BY DEF Init, TogetherInv, Meet
  <2>2. ASSUME NEW p \in Partitions
        PROVE  owner[p] \in Replicas /\ position[p] = 0 /\ log[p] = <<>>
    BY PipelineAssumption DEF Init
  <2>3. faults = 0
    BY DEF Init
  <2>4. ReadIsHeld
    BY <2>2 DEF ReadIsHeld
  <2>. QED
    BY <2>1, <2>3, <2>4 DEF ReadInv
<1>2. Flow /\ TogetherInv /\ ReadInv => ReadTogetherIsPaged
  <2>. SUFFICES ASSUME TogetherInv, ReadInv, faults = 0, correlations = <<>>,
                       NEW p \in Partitions, NEW q \in Partitions, NEW family \in OtherFamilies,
                       owner[p] = owner[q], HasRead(p, "checkout", "performance"),
                       HasRead(q, "checkout", family)
                PROVE  \E x \in announced : Pages(x.row, family)
    BY DEF ReadTogetherIsPaged
  <2>1. ASSUME NEW b \in Partitions, NEW f, HasRead(b, "checkout", f)
        PROVE  \E d \in held[owner[b]] : Relevant(d, f)
    <3>1. PICK i \in 1 .. position[b] :
            /\ log[b][i].about.service = "checkout"
            /\ Family(Of(b, log[b][i]).eventType) = f
            /\ Of(b, log[b][i]).correlationId = Of(b, log[b][i]).resourceId
      BY <2>1 DEF HasRead
    <3>2. PICK d \in held[owner[b]] : d.event = Of(b, log[b][i]) /\ d.about = log[b][i].about
      BY DEF ReadInv, ReadIsHeld, IsHeld
    <3>3. Relevant(d, f)
      BY <3>1, <3>2 DEF Relevant
    <3>. QED
      BY <3>3
  <2>2. owner[p] \in Replicas /\ Meet(held[owner[p]], family)
    BY <2>1 DEF Meet, ReadInv, ReadIsHeld
  <2>3. 1 .. Len(correlations) = {}
    OBVIOUS
  <2>. QED
    BY <2>2, <2>3 DEF TogetherInv
<1>3. Flow /\ TogetherInv /\ ReadInv /\ [Next]_vars => TogetherInv' /\ ReadInv'
  BY TogetherStep, ReadStep
<1>. QED
  BY <1>1, <1>2, <1>3, FlowInvariant, PTL DEF Spec
=============================================================================
