--------------------------- MODULE MCKafkaConsumer ---------------------------
(* Instances of KafkaConsumer for TLC. *)
EXTENDS KafkaConsumer

CONSTANTS w1

\* The oldest message, and one that may not exist yet, or no more.
MCSeeds == {OffsetBeginning, 1}
=============================================================================
