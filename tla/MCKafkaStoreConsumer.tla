------------------------- MODULE MCKafkaStoreConsumer -------------------------
(* Instances of KafkaStoreConsumer for TLC. *)
EXTENDS KafkaStoreConsumer
=============================================================================
