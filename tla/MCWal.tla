-------------------------------- MODULE MCWal --------------------------------
(***************************************************************************)
(* Wal on small instances: records of one and two words, segments that are *)
(* full after two records, and buffers of a few words, so that spilling    *)
(* leaves a partial record or a partial index entry in the files.          *)
(***************************************************************************)
EXTENDS WalInvariants

Alternating == [n \in Offset |-> n % 2]
=============================================================================
