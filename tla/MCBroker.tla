------------------------------ MODULE MCBroker ------------------------------
(* Broker for TLC: the requests clients send and the answers to them. *)
EXTENDS Broker

CONSTANTS AskedParts,     \* partitions clients consume
          AskedTotals     \* numbers of partitions they ask for

MCRequest ==
    [type : {"produce", "other"}, topic : Topic]
    \cup [type : {"consume"}, topic : Topic, partition : AskedParts]
    \cup [type : {"create_topic"}, topic : Topic, total : AskedTotals]

MCAnswer == Response
=============================================================================
