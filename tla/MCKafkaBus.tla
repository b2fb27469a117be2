----------------------------- MODULE MCKafkaBus -----------------------------
(* Small instances of KafkaBus: the processor's two subscriptions, or one.  *)
EXTENDS KafkaBus
CONSTANTS t1, t2
TwoTopics == {t1, t2}
OneTopic == {t1}
=============================================================================
