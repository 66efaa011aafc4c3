--------------------------- MODULE MCRaftGroup ---------------------------
(* The Raft group for TLC.                                               *)
EXTENDS RaftGroup, TLC

CONSTANTS s1, s2, s3, c, d

\* Servers with the same part in the bounds are interchangeable.
ServerSymmetry ==
    Permutations(Campaigner \ FailingDisk) \cup Permutations(Server \ Campaigner)

\* The candidate that made the call still counts the votes of that election.
Waiting(r, t) == state[r] = Candidate /\ term[r] = t

\* A call made by r under term t can still have an effect on r.
Listening(r, t) ==
    RepliesMayOutliveTerm \/ (state[r] = Leader /\ term[r] = t)

\* What can still make a difference.  Left out are calls and replies which
\* every later step ignores, and what only a candidate or a leader looks at
\* in a server that is neither: startElection and becameLeader overwrite it.
ConsensusView ==
    <<state, term, votedFor, commitIndex, log, stateFile, faults,
      IF faults < MaxFaults THEN <<lastApplied, wal>> ELSE <<>>,
      [r \in Server |-> IF state[r] = Leader
                        THEN <<nextIndex[r], matchIndex[r]>> ELSE <<>>],
      [r \in Server |-> IF state[r] # Follower THEN votes[r] ELSE {}],
      [r \in Server |-> {t \in heartbeats[r] : Listening(r, t)}],
      {m \in voteReqs : \/ m.term >= term[m.to]
                        \/ (m.alive /\ Waiting(m.from, m.term))},
      {m \in voteResps : /\ Waiting(m.to, m.savedTerm)
                         /\ m.granted \/ m.term > m.savedTerm},
      {m \in appendReqs : \/ m.term >= term[m.to]
                          \/ (m.alive /\ Listening(m.from, m.term))},
      {m \in appendResps : Listening(m.to, m.savedTerm)}>>

\* The same, with every vote that Ballots counts.
BallotView == <<ConsensusView, {m \in voteResps : m.granted}>>

-----------------------------------------------------------------------------
(* Start states that take the initial one many steps to reach.  Each is    *)
(* reached with all calls answered or failed.                              *)

\* The servers are in term t, with votes v and logs; no calls are open and
\* nothing is committed.
Quiet(t, v, logs) ==
    /\ term = [r \in Server |-> t]
    /\ votedFor = v
    /\ stateFile = [r \in Server |-> [term |-> t, votedFor |-> v[r]]]
    /\ log = logs
    /\ commitIndex = [r \in Server |-> 0]
    /\ lastApplied = [r \in Server |-> 0]
    /\ matchIndex = [r \in Server |-> [p \in Server |-> 0]]
    /\ wal = [r \in Server |-> <<>>]
    /\ voteReqs = {} /\ voteResps = {}
    /\ appendReqs = {} /\ appendResps = {}
    /\ faults = 0

\* The record that the leader of term t appended.
E(t) == [term |-> t, cmd |-> IF t = 1 \/ d \notin Command THEN c ELSE d]

\* s1 led term 1, s2 led term 2, both with the vote of s3; each appended an
\* entry that reached nobody; then all three restarted.
Diverged ==
    /\ Quiet(2, s1 :> Nil @@ s2 :> s2 @@ s3 :> s2,
                s1 :> <<E(1)>> @@ s2 :> <<E(2)>> @@ s3 :> <<>>)
    /\ state = [r \in Server |-> Follower]
    /\ nextIndex = [r \in Server |-> [p \in Server |-> 0]]
    /\ votes = [r \in Server |-> {}]
    /\ heartbeats = [r \in Server |-> {}]

DivergedSpec == Diverged /\ [][Next]_vars
DivergedFairSpec == DivergedSpec /\ Fairness

\* As before, but s1 appended two entries in term 1, has won term 3 with the
\* vote of s3, and has backed up to the start of the log of s3.
BackedUp ==
    /\ Quiet(3, s1 :> s1 @@ s2 :> Nil @@ s3 :> s1,
                s1 :> <<E(1), E(1)>> @@ s2 :> <<E(2)>> @@ s3 :> <<>>)
    /\ state = s1 :> Leader @@ s2 :> Follower @@ s3 :> Follower
    /\ nextIndex = [r \in Server |-> [p \in Server |->
                       IF r # s1 \/ p = s1 THEN 0 ELSE IF p = s3 THEN 1 ELSE 3]]
    /\ votes = s1 :> {s1, s3} @@ s2 :> {} @@ s3 :> {}
    /\ heartbeats = s1 :> {3} @@ s2 :> {} @@ s3 :> {}

BackedUpSpec == BackedUp /\ [][Next]_vars

=============================================================================
