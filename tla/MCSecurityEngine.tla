-------------------------- MODULE MCSecurityEngine --------------------------
(* A small instance of SecurityEngine: a batch of a pod on the host network *)
(* whose containers are no list and of a body that is none; a single post   *)
(* of two alerts about an image, one resolved, one from an environment that *)
(* the contract does not have; and two signals of another publisher, about  *)
(* a secret that is overdue today and twice overdue tomorrow.               *)
EXTENDS SecurityEngine
CONSTANTS w1, w2

Pod   == [prefix |-> "k8s:", name |-> "checkout", marks |-> {}]
Image == [prefix |-> "image:", name |-> "checkout", marks |-> {}]
Host  == [prefix |-> "", name |-> "vault", marks |-> {}]
MCResources == {Pod, Image, Host}

Body(items) == [broken |-> FALSE, items |-> items]
PodEvent == [object |-> Pod, warning |-> FALSE, hostNetwork |-> TRUE, malformed |-> {"containers"}]
Alert(status, environment) ==
  [status |-> status, resource |-> Image, environment |-> environment, severity |-> "page"]

MCPosts ==
  {[source |-> "kubernetes", batch |-> TRUE,
    bodies |-> <<Body(<<PodEvent>>), [broken |-> TRUE, items |-> <<>>]>>],
   [source |-> "prometheus", batch |-> FALSE,
    bodies |-> <<Body(<<Alert("resolved", "production"), Alert("firing", "prod")>>)>>]}

Overdue ==
  [resource |-> Host, environment |-> "production", malformed |-> {},
   configuration |-> [secretRotatedAt |-> -4, secretMaxAgeDays |-> 2, secretMatches |-> {FALSE}]]
MCOtherSignals == {Overdue}

MCCollectors == {"collector"}
MCWorkers == {w1, w2}
AllToOne == [r \in MCResources |-> w1]
=============================================================================
