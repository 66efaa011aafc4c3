------------------------------ MODULE MCRaftLog ------------------------------
(***************************************************************************)
(* RaftLog on small instances: two entries whose records have different    *)
(* lengths, so that a record written at a wrong position does not line up. *)
(***************************************************************************)
EXTENDS RaftLog

CONSTANTS short, long, dummy

PayloadWords == [e \in {short, long, dummy} |-> IF e = long THEN 2 ELSE 1]
=============================================================================
