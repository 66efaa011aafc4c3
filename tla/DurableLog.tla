----------------------------- MODULE DurableLog -----------------------------
(***************************************************************************)
(* What the Raft log of raft/storage.go promises to raft.go: "a durable    *)
(* append-only Raft log".  It is one sequence of entries.  Opening it puts *)
(* the dummy entry of term 0 in front the first time; while it is open an  *)
(* entry may be appended or a suffix other than the dummy removed; closing *)
(* or crashing changes nothing, so the next open finds exactly the entries *)
(* whose operations returned.                                              *)
(***************************************************************************)
EXTENDS Naturals, Sequences

CONSTANTS Entry,        \* the entries a caller may append
          Dummy         \* the entry newRaftLog puts at index 0

VARIABLES content,      \* the entries, index N of the code at position N + 1
          open          \* openRaftLog has returned and the process lives

vars == <<content, open>>

Init == /\ content = <<>>
        /\ open = FALSE

\* The dummy reaches the disk, in an open that found no entry.
Initialise == /\ ~open
              /\ content = <<>>
              /\ content' = <<Dummy>>
              /\ UNCHANGED open

Open == /\ ~open
        /\ content # <<>>
        /\ open' = TRUE
        /\ UNCHANGED content

Extend(e) == /\ open
             /\ content' = Append(content, e)
             /\ UNCHANGED open

Cut(n) == /\ open
          /\ content' = SubSeq(content, 1, n)
          /\ UNCHANGED open

Crash == /\ open
         /\ open' = FALSE
         /\ UNCHANGED content

Next == \/ Initialise
        \/ Open
        \/ \E e \in Entry : Extend(e)
        \/ \E n \in 1..Len(content) : Cut(n)
        \/ Crash

Spec == Init /\ [][Next]_vars
=============================================================================
