--------------------------- MODULE RaftGuarantees ---------------------------
(***************************************************************************)
(* What a Raft group promises the partitions that are built on it, proved  *)
(* from SafetyInv for any number of servers, terms, entries and faults, on *)
(* disks that persist raft.state and with calls that end with their term.  *)
(***************************************************************************)
EXTENDS RaftSafetyProofs

\* Logs that agree up to n have the same first n entries.
LEMMA AgreePrefix ==
    ASSUME NEW l \in Seq(Entry), NEW k \in Seq(Entry), NEW n \in Nat, Agree(l, k, n)
    PROVE  SubSeq(l, 1, n) = SubSeq(k, 1, n)
<1>1. n <= Len(l) /\ n <= Len(k) /\ \A i \in 1..n : l[i] = k[i]
  BY DEF Agree
<1>2. Len(l) \in Nat /\ Len(k) \in Nat
  BY LenProperties
<1>3. /\ SubSeq(l, 1, n) = [i \in 1..n |-> l[i]]
      /\ SubSeq(k, 1, n) = [i \in 1..n |-> k[i]]
  BY <1>1, <1>2
<1> QED  BY <1>1, <1>3

-----------------------------------------------------------------------------
(* Log matching.                                                           *)

\* Two logs with an entry of the same term at an index are the same up to it:
\* the check of the previous entry in AppendEntries, and the truncation at the
\* first conflict, never splice the logs of two leaders.
THEOREM LogsMatch ==
    ASSUME Reliable
    PROVE  Spec => []LogMatching
<1>1. SafetyInv => LogMatching
  <2> SUFFICES ASSUME SafetyInv, NEW a \in Server, NEW b \in Server,
                      NEW i \in 1..Min2(Len(log[a]), Len(log[b])),
                      log[a][i].term = log[b][i].term
               PROVE  SubSeq(log[a], 1, i) = SubSeq(log[b], 1, i)
    BY DEF LogMatching
  <2>1. TypeOK
    BY DEF SafetyInv
  <2>2. log[a] \in Seq(Entry) /\ log[b] \in Seq(Entry) /\ Len(log[a]) \in Nat /\ Len(log[b]) \in Nat
    BY <2>1, LenProperties DEF TypeOK
  <2>3. PICK won, lead, cast, ack :
            HistoryType(won, lead, cast, ack) /\ HistoryInv(won, lead, cast, ack)
    BY DEF SafetyInv
  <2>4. lead \in LeaderLogs /\ Sound(lead, log[a]) /\ Sound(lead, log[b])
    BY <2>3 DEF HistoryType, HistoryInv, LeadInv
  <2>5. i \in Nat /\ 0 < i /\ i <= Len(log[a]) /\ i <= Len(log[b])
    BY <2>2 DEF Min2
  <2>6. Agree(log[a], log[b], i)
    BY <2>2, <2>4, <2>5, SoundAgree
  <2> QED  BY <2>2, <2>5, <2>6, AgreePrefix
<1> QED  BY <1>1, SafetyInvariant, PTL

-----------------------------------------------------------------------------
(* What is committed.                                                      *)

\* What was chosen at index k of term s is in the log of the leader of every
\* later term.
LEMMA ChosenIsKept ==
    ASSUME NEW won, NEW lead, NEW cast, NEW ack, KeepInv(won, lead, cast, ack),
           NEW s \in Nat, NEW t \in Nat, s < t, won[t] # Nil,
           NEW k \in Nat, Own(lead, s, k), Chosen(ack, s, k)
    PROVE  Agree(lead[t], lead[s], k)
<1>1. Safe(lead, ack, lead[t], s, k)
  BY DEF KeepInv
<1> QED  BY <1>1, ChosenNotLost DEF Safe

\* A leader that is gone or not yet elected has no entries of its own.
LEMMA OwnersWon ==
    ASSUME NEW won, NEW lead, LeadInv(won, lead), NEW t \in Nat, NEW k, Own(lead, t, k)
    PROVE  won[t] # Nil
<1>1. k \in 1..Len(lead[t])
  BY DEF Own
<1>2. won[t] = Nil => lead[t] = <<>>
  BY DEF LeadInv
<1> QED  BY <1>1, <1>2

\* Two logs in which the first n entries are committed agree on them.
LEMMA CommittedAgree ==
    ASSUME NEW won, NEW lead, NEW cast, NEW ack, HistoryType(won, lead, cast, ack),
           LeadInv(won, lead), KeepInv(won, lead, cast, ack),
           NEW l \in Seq(Entry), NEW k \in Seq(Entry), NEW t \in Nat, NEW u \in Nat,
           NEW n \in Nat, n > 0,
           Committed(lead, ack, l, t, n), Committed(lead, ack, k, u, n)
    PROVE  Agree(l, k, n)
<1>1. lead \in LeaderLogs
  BY DEF HistoryType
<1>2. PICK s \in 0..t : \E i \in Nat : /\ n <= i /\ Own(lead, s, i) /\ Chosen(ack, s, i)
                                       /\ Agree(l, lead[s], n)
  BY DEF Committed
<1>3. PICK i \in Nat : n <= i /\ Own(lead, s, i) /\ Chosen(ack, s, i) /\ Agree(l, lead[s], n)
  BY <1>2
<1>4. PICK v \in 0..u : \E j \in Nat : /\ n <= j /\ Own(lead, v, j) /\ Chosen(ack, v, j)
                                       /\ Agree(k, lead[v], n)
  BY DEF Committed
<1>5. PICK j \in Nat : n <= j /\ Own(lead, v, j) /\ Chosen(ack, v, j) /\ Agree(k, lead[v], n)
  BY <1>4
<1>6. s \in Nat /\ v \in Nat /\ n \in 0..i /\ n \in 0..j
  BY <1>3, <1>5
<1>7. lead[s] \in Seq(Entry) /\ lead[v] \in Seq(Entry)
  BY <1>1, <1>6, LogOfLeader
<1>8. Agree(lead[s], lead[v], n)
  <2>1. won[s] # Nil /\ won[v] # Nil
    BY <1>3, <1>5, <1>6, OwnersWon
  <2>2. CASE s = v
    BY <1>3, <2>2 DEF Agree
  <2>3. CASE s < v
    <3>1. Agree(lead[v], lead[s], i)
      BY <1>3, <1>6, <2>1, <2>3, ChosenIsKept
    <3>2. Agree(lead[v], lead[s], n)
      BY <1>6, <1>7, <3>1, AgreeFacts
    <3> QED  BY <1>7, <3>2, AgreeFacts
  <2>4. CASE v < s
    <3>1. Agree(lead[s], lead[v], j)
      BY <1>5, <1>6, <2>1, <2>4, ChosenIsKept
    <3> QED  BY <1>6, <1>7, <3>1, AgreeFacts
  <2> QED  BY <1>6, <2>2, <2>3, <2>4
<1>9. Agree(lead[v], k, n)
  BY <1>5, <1>7, AgreeFacts
<1>10. Agree(l, lead[v], n)
  BY <1>3, <1>7, <1>8, AgreeFacts
<1> QED  BY <1>7, <1>9, <1>10, AgreeFacts

\* Whatever two replicas have committed at an index is the same entry, so that
\* ApplyLoop hands the same records in the same order to every replica's WAL,
\* leader changes and restarts included.
THEOREM ReplicasAgree ==
    ASSUME Reliable
    PROVE  Spec => []StateMachineSafety
<1>1. SafetyInv => StateMachineSafety
  <2> SUFFICES ASSUME SafetyInv, NEW a \in Server, NEW b \in Server,
                      NEW i \in 1..Min2(commitIndex[a], commitIndex[b])
               PROVE  i <= Len(log[a]) /\ i <= Len(log[b]) /\ log[a][i] = log[b][i]
    BY DEF StateMachineSafety
  <2>1. TypeOK
    BY DEF SafetyInv
  <2>2. /\ log[a] \in Seq(Entry) /\ log[b] \in Seq(Entry)
        /\ commitIndex[a] \in Nat /\ commitIndex[b] \in Nat
        /\ term[a] \in Nat /\ term[b] \in Nat
    BY <2>1 DEF TypeOK
  <2>3. PICK won, lead, cast, ack :
            HistoryType(won, lead, cast, ack) /\ HistoryInv(won, lead, cast, ack)
    BY DEF SafetyInv
  <2>4. lead \in LeaderLogs /\ LeadInv(won, lead) /\ KeepInv(won, lead, cast, ack)
    BY <2>3 DEF HistoryType, HistoryInv
  <2>5. /\ Committed(lead, ack, log[a], term[a], commitIndex[a])
        /\ Committed(lead, ack, log[b], term[b], commitIndex[b])
    BY <2>3 DEF HistoryInv, CommitInv
  <2>6. i \in Nat /\ i > 0 /\ i <= commitIndex[a] /\ i <= commitIndex[b]
    BY <2>2 DEF Min2
  <2>7. Committed(lead, ack, log[a], term[a], i) /\ Committed(lead, ack, log[b], term[b], i)
    <3>1. term[a] <= term[a] /\ term[b] <= term[b]
      BY <2>2
    <3> QED  BY <2>2, <2>4, <2>5, <2>6, <3>1, CommittedLess
  <2>8. Agree(log[a], log[b], i)
    BY <2>2, <2>3, <2>4, <2>6, <2>7, CommittedAgree
  <2> QED  BY <2>6, <2>8 DEF Agree
<1> QED  BY <1>1, SafetyInvariant, PTL

\* A leader has every entry that a server of no later term has committed: the
\* up-to-date check of RequestVote keeps anyone without them from a majority.
THEOREM LeadersAreComplete ==
    ASSUME Reliable
    PROVE  Spec => []LeaderCompleteness
<1>1. SafetyInv => LeaderCompleteness
  <2> SUFFICES ASSUME SafetyInv, NEW a \in Server, NEW r \in Server,
                      state[a] = Leader, term[a] >= term[r]
               PROVE  /\ commitIndex[r] <= Len(log[a])
                      /\ SubSeq(log[r], 1, commitIndex[r]) = SubSeq(log[a], 1, commitIndex[r])
    BY DEF LeaderCompleteness
  <2>1. TypeOK
    BY DEF SafetyInv
  <2>2. /\ log[a] \in Seq(Entry) /\ log[r] \in Seq(Entry) /\ commitIndex[r] \in Nat
        /\ term[a] \in Nat /\ term[r] \in Nat /\ a # Nil
    BY <2>1, ServerAssumption DEF TypeOK
  <2>3. PICK won, lead, cast, ack :
            HistoryType(won, lead, cast, ack) /\ HistoryInv(won, lead, cast, ack)
    BY DEF SafetyInv
  <2>4. KeepInv(won, lead, cast, ack) /\ CommitInv(lead, ack)
    BY <2>3 DEF HistoryInv
  <2>5. won[term[a]] = a /\ log[a] = lead[term[a]]
    BY <2>3 DEF HistoryInv, LeadInv
  <2>6. term[r] <= term[a] /\ won[term[a]] # Nil
    BY <2>2, <2>5
  <2>7. Agree(log[r], log[a], commitIndex[r])
    BY <2>1, <2>2, <2>3, <2>4, <2>5, <2>6, TakingKeepsCommitted
  <2>8. SubSeq(log[r], 1, commitIndex[r]) = SubSeq(log[a], 1, commitIndex[r])
    BY <2>2, <2>7, AgreePrefix
  <2> QED  BY <2>7, <2>8 DEF Agree
<1> QED  BY <1>1, SafetyInvariant, PTL

\* A set of servers with a majority among them is one.
LEMMA MajorityGrows ==
    ASSUME NEW Q \in Majority, NEW R, R \subseteq Server, Q \subseteq R
    PROVE  IsMajority(Cardinality(R))
<1>1. IsFiniteSet(R) /\ IsFiniteSet(Q)
  BY ServerAssumption, FS_Subset DEF Majority
<1>2. Cardinality(Q) <= Cardinality(R)
  BY <1>1, FS_Subset
<1>3. /\ Cardinality(Q) \in Nat /\ Cardinality(R) \in Nat /\ Cardinality(Server) \in Nat
  BY <1>1, ServerAssumption, FS_CardinalityType
<1> QED  BY <1>2, <1>3 DEF Majority, IsMajority

\* All servers are a majority, if there are any.
LEMMA AllAreMajority ==
    ASSUME NEW r \in Server
    PROVE  Server \in Majority
<1>1. Cardinality(Server) \in Nat /\ Cardinality(Server) # 0
  BY ServerAssumption, FS_CardinalityType, FS_EmptySet
<1>2. Cardinality(Server) > Cardinality(Server) \div 2
  BY <1>1
<1> QED  BY <1>2 DEF Majority, IsMajority

\* What a leader has committed is in the log of a majority, now and not only
\* when matchIndex counted it: no truncation on a follower takes it back.
THEOREM CommitsAreHeld ==
    ASSUME Reliable
    PROVE  Spec => []CommitHeldByMajority
<1>1. SafetyInv => CommitHeldByMajority
  <2> SUFFICES ASSUME SafetyInv, NEW r \in Server
               PROVE  IsMajority(Cardinality({p \in Server :
                        /\ commitIndex[r] <= Len(log[p])
                        /\ SubSeq(log[p], 1, commitIndex[r]) = SubSeq(log[r], 1, commitIndex[r])}))
    BY DEF CommitHeldByMajority
  <2>1. TypeOK
    BY DEF SafetyInv
  <2>2. commitIndex[r] \in Nat /\ \A p \in Server : log[p] \in Seq(Entry) /\ Len(log[p]) \in Nat
    BY <2>1, LenProperties DEF TypeOK
  <2>3. PICK won, lead, cast, ack :
            HistoryType(won, lead, cast, ack) /\ HistoryInv(won, lead, cast, ack)
    BY DEF SafetyInv
  <2>4. lead \in LeaderLogs /\ KeepInv(won, lead, cast, ack)
    BY <2>3 DEF HistoryType, HistoryInv
  <2>5. Committed(lead, ack, log[r], term[r], commitIndex[r])
    BY <2>3 DEF HistoryInv, CommitInv
  <2>6. \E Q \in Majority : \A p \in Q : Agree(log[p], log[r], commitIndex[r])
    <3>1. CASE commitIndex[r] = 0
      <4>1. \A p \in Server : Agree(log[p], log[r], commitIndex[r])
        BY <2>2, <3>1 DEF Agree
      <4> QED  BY <4>1, AllAreMajority
    <3>2. CASE commitIndex[r] # 0
      <4>1. commitIndex[r] > 0
        BY <2>2, <3>2
      <4>2. PICK s \in 0..term[r] : \E k \in Nat :
                /\ commitIndex[r] <= k /\ Own(lead, s, k) /\ Chosen(ack, s, k)
                /\ Agree(log[r], lead[s], commitIndex[r])
        BY <2>5, <4>1 DEF Committed
      <4>3. PICK k \in Nat : /\ commitIndex[r] <= k /\ Own(lead, s, k) /\ Chosen(ack, s, k)
                             /\ Agree(log[r], lead[s], commitIndex[r])
        BY <4>2
      <4>4. PICK Q \in Majority : \A p \in Q : <<p, s, k>> \in ack
        BY <4>3 DEF Chosen
      <4>5. s \in Nat /\ lead[s] \in Seq(Entry) /\ commitIndex[r] \in 0..k
        BY <2>2, <2>4, <4>3, LogOfLeader
      <4>6. ASSUME NEW p \in Q  PROVE Agree(log[p], log[r], commitIndex[r])
        <5>1. p \in Server /\ log[p] \in Seq(Entry)
          BY <2>2 DEF Majority
        <5>2. Safe(lead, ack, log[p], s, k)
          BY <2>4, <4>3, <4>4, <4>5, <5>1 DEF KeepInv
        <5>3. Agree(log[p], lead[s], k)
          BY <4>3, <5>2, ChosenNotLost DEF Safe
        <5>4. Agree(log[p], lead[s], commitIndex[r])
          BY <4>5, <5>1, <5>3, AgreeFacts
        <5>5. Agree(lead[s], log[r], commitIndex[r])
          BY <2>2, <4>3, <4>5, AgreeFacts
        <5> QED  BY <2>2, <4>5, <5>1, <5>4, <5>5, AgreeFacts
      <4> QED  BY <4>6
    <3> QED  BY <3>1, <3>2
  <2>7. PICK Q \in Majority : \A p \in Q : Agree(log[p], log[r], commitIndex[r])
    BY <2>6
  <2>8. ASSUME NEW p \in Q
        PROVE  /\ p \in Server /\ commitIndex[r] <= Len(log[p])
               /\ SubSeq(log[p], 1, commitIndex[r]) = SubSeq(log[r], 1, commitIndex[r])
    <3>1. p \in Server
      BY DEF Majority
    <3>2. SubSeq(log[p], 1, commitIndex[r]) = SubSeq(log[r], 1, commitIndex[r])
      BY <2>2, <2>7, <3>1, AgreePrefix
    <3> QED  BY <2>7, <3>1, <3>2 DEF Agree
  <2> QED  BY <2>8, MajorityGrows
<1> QED  BY <1>1, SafetyInvariant, PTL

-----------------------------------------------------------------------------
(* Steps.                                                                  *)

\* What a step does to the logs: one of them takes entries of a leader, or a
\* leader appends to its own, or none changes.
LEMMA LogStep ==
    ASSUME [Next]_vars
    PROVE  \/ log' = log
           \/ \E r \in Server, c \in Command : Submit(r, c)
           \/ \E m \in appendReqs : AcceptEntries(m) \/ InterruptedAppend(m)
<1>1. ASSUME NEW r \in Server,
             startElection(r) \/ ApplyLoop(r) \/ Restart(r)
             \/ \E p \in Peers(r), t \in heartbeats[r] : replicateToPeer(r, p, t)
      PROVE  log' = log
  BY <1>1 DEF startElection, ApplyLoop, Restart, replicateToPeer
<1>2. ASSUME NEW m \in voteReqs, HandleRequestVote(m)  PROVE log' = log
  BY <1>2 DEF HandleRequestVote
<1>3. ASSUME NEW m \in voteResps, IgnoreVoteReply(m) \/ LoseElection(m) \/ CountVote(m)
      PROVE  log' = log
  BY <1>3 DEF IgnoreVoteReply, LoseElection, CountVote
<1>4. ASSUME NEW m \in appendReqs, RefuseStaleAppend(m) \/ RefuseMismatch(m)
      PROVE  log' = log
  BY <1>4 DEF RefuseStaleAppend, RefuseMismatch
<1>5. ASSUME NEW m \in appendResps, HandleAppendReply(m)  PROVE log' = log
  BY <1>5 DEF HandleAppendReply, IgnoreAppendReply, StepDownOnReply, BackUp, RecordMatch
<1>6. ASSUME CallFails \/ UNCHANGED vars  PROVE log' = log
  BY <1>6 DEF CallFails, vars
<1> QED  BY <1>1, <1>2, <1>3, <1>4, <1>5, <1>6 DEF Next, HandleAppendEntries

\* A step leaves the log of every server alone up to its commit index.
LEMMA CommittedStep ==
    ASSUME SafetyInv, [Next]_vars, NEW r \in Server
    PROVE  Agree(log'[r], log[r], commitIndex[r])
<1>1. TypeOK
  BY DEF SafetyInv
<1>2. PICK won, lead, cast, ack :
          HistoryType(won, lead, cast, ack) /\ HistoryInv(won, lead, cast, ack)
  BY DEF SafetyInv
<1>3. /\ lead \in LeaderLogs /\ LeadInv(won, lead) /\ AppendReqInv(won, lead, ack)
      /\ KeepInv(won, lead, cast, ack) /\ CommitInv(lead, ack)
  BY <1>2 DEF HistoryType, HistoryInv
<1>4. commitIndex[r] \in Nat /\ Len(log[r]) \in Nat /\ commitIndex[r] <= Len(log[r])
  BY <1>1, <1>2, <1>3, CommitWithin
<1>5. log[r] \in Seq(Entry)
  BY <1>1 DEF TypeOK
<1>6. ASSUME log'[r] = log[r]  PROVE Agree(log'[r], log[r], commitIndex[r])
  BY <1>4, <1>5, <1>6, AgreeFacts
<1>7. ASSUME NEW q \in Server, NEW c \in Command, Submit(q, c)
      PROVE  Agree(log'[r], log[r], commitIndex[r])
  <2>1. log' = [log EXCEPT ![q] = Append(log[q], [term |-> term[q], cmd |-> c])]
    BY <1>7 DEF Submit
  <2>2. CASE q = r
    <3>1. PICK e \in Entry : log'[r] = Append(log[r], e)
      BY <1>1, <2>1, <2>2 DEF TypeOK, Entry
    <3> QED  BY <1>4, <1>5, <3>1, AppendProperties DEF Agree
  <2> QED  BY <1>1, <1>6, <2>1, <2>2 DEF TypeOK
<1>8. ASSUME NEW m \in appendReqs, AcceptEntries(m) \/ InterruptedAppend(m)
      PROVE  Agree(log'[r], log[r], commitIndex[r])
  <2>1. PICK new \in Seq(Entry) :
          /\ log' = [log EXCEPT ![m.to] = new]
          /\ \A i \in Nat : Agree(log[m.to], lead[m.term], i) => Agree(new, lead[m.term], i)
    <3>1. CASE AcceptEntries(m)
      BY <1>1, <1>2, <1>3, <3>1, AcceptedLog
    <3>2. CASE InterruptedAppend(m)
      BY <1>1, <1>2, <1>3, <3>2, InterruptedLog
    <3> QED  BY <1>8, <3>1, <3>2
  <2>2. CASE m.to = r
    <3>1. m.term \in Nat /\ term[r] \in Nat /\ term[r] <= m.term
      BY <1>1, <1>8, <2>2 DEF TypeOK, AppendReq, AcceptEntries, InterruptedAppend
    <3>2. won[m.term] # Nil
      BY <1>3 DEF AppendReqInv
    <3>3. Agree(log[r], lead[m.term], commitIndex[r])
      BY <1>1, <1>2, <1>3, <3>1, <3>2, TakingKeepsCommitted
    <3>4. log'[r] = new /\ Agree(new, lead[m.term], commitIndex[r])
      BY <1>1, <1>4, <2>1, <2>2, <3>3 DEF TypeOK
    <3>5. lead[m.term] \in Seq(Entry)
      BY <1>3, <3>1, LogOfLeader
    <3>6. Agree(lead[m.term], log[r], commitIndex[r])
      BY <1>4, <1>5, <3>3, <3>5, AgreeFacts
    <3> QED  BY <1>4, <1>5, <3>4, <3>5, <3>6, AgreeFacts
  <2>3. CASE m.to # r
    <3>1. log'[r] = log[r]
      BY <1>1, <2>1, <2>3 DEF TypeOK
    <3> QED  BY <1>6, <3>1
  <2> QED  BY <2>2, <2>3
<1> QED  BY <1>6, <1>7, <1>8, LogStep

\* No step removes or rewrites an entry that its server knows to be committed:
\* neither the truncation in AppendEntries, interrupted or not, nor a crash.
THEOREM CommitsAreStable ==
    ASSUME Reliable
    PROVE  Spec => CommittedIsStable
<1>1. SafetyInv /\ SafetyInv' /\ [Next]_vars =>
        [\A r \in Server :
          /\ Len(log'[r]) >= commitIndex[r]
          /\ SubSeq(log'[r], 1, commitIndex[r]) = SubSeq(log[r], 1, commitIndex[r])]_vars
  <2> SUFFICES ASSUME SafetyInv, SafetyInv', [Next]_vars, NEW r \in Server
               PROVE  /\ Len(log'[r]) >= commitIndex[r]
                      /\ SubSeq(log'[r], 1, commitIndex[r]) = SubSeq(log[r], 1, commitIndex[r])
    OBVIOUS
  <2>1. Agree(log'[r], log[r], commitIndex[r])
    BY CommittedStep
  <2>2. /\ log[r] \in Seq(Entry) /\ log'[r] \in Seq(Entry) /\ commitIndex[r] \in Nat
        /\ Len(log'[r]) \in Nat
    BY LenProperties DEF SafetyInv, TypeOK
  <2>3. SubSeq(log'[r], 1, commitIndex[r]) = SubSeq(log[r], 1, commitIndex[r])
    BY <2>1, <2>2, AgreePrefix
  <2> QED  BY <2>1, <2>2, <2>3 DEF Agree
<1> QED  BY <1>1, SafetyInvariant, PTL DEF Spec, CommittedIsStable

-----------------------------------------------------------------------------
(* Leaders and their peers.                                                *)

\* How a leader comes by its next indexes.
LEMMA LeaderIndexStep ==
    ASSUME TypeOK, [Next]_vars, NEW r \in Server, state'[r] = Leader
    PROVE  \/ state[r] = Leader /\ nextIndex'[r] = nextIndex[r]
           \/ becameLeader(r) /\ log' = log
           \/ \E m \in appendResps : m.to = r /\ (BackUp(m) \/ RecordMatch(m))
<1> DEFINE Same == state[r] = Leader /\ nextIndex'[r] = nextIndex[r]
<1>1. state \in [Server -> {Follower, Candidate, Leader}] /\ nextIndex \in [Server -> [Server -> Nat]]
  BY DEF TypeOK
<1>2. Leader # Follower /\ Leader # Candidate
  BY DEF Leader, Follower, Candidate
<1>3. ASSUME UNCHANGED <<state, nextIndex>>  PROVE Same
  BY <1>3
<1>4. ASSUME NEW q \in Server, NEW v \in {Follower, Candidate},
             state' = [state EXCEPT ![q] = v], nextIndex' = nextIndex
      PROVE  Same
  <2>1. q # r
    BY <1>1, <1>2, <1>4
  <2> QED  BY <1>1, <1>4, <2>1
<1>5. ASSUME NEW q \in Server, startElection(q)  PROVE Same
  BY <1>4, <1>5 DEF startElection, leaderVars
<1>6. ASSUME NEW q \in Server,
             ApplyLoop(q) \/ (\E c \in Command : Submit(q, c))
             \/ \E p \in Peers(q), t \in heartbeats[q] : replicateToPeer(q, p, t)
      PROVE  Same
  BY <1>3, <1>6 DEF ApplyLoop, Submit, replicateToPeer, leaderVars
<1>7. ASSUME NEW q \in Server, Restart(q)  PROVE Same
  <2>1. state' = [state EXCEPT ![q] = Follower]
        /\ nextIndex' = [nextIndex EXCEPT ![q] = [p \in Server |-> 0]]
    BY <1>7 DEF Restart
  <2>2. q # r
    BY <1>1, <1>2, <2>1
  <2> QED  BY <1>1, <2>1, <2>2
<1>8. ASSUME NEW m \in voteReqs, HandleRequestVote(m)  PROVE Same
  <2>1. m.to \in Server
    BY DEF TypeOK, VoteReq
  <2>2. state' = [state EXCEPT ![m.to] = IF m.term > term[m.to] THEN Follower ELSE @]
        /\ nextIndex' = nextIndex
    BY <1>8 DEF HandleRequestVote, leaderVars
  <2> QED  BY <1>1, <1>2, <2>1, <2>2
<1>9. ASSUME NEW m \in voteResps, IgnoreVoteReply(m) \/ LoseElection(m)  PROVE Same
  <2>1. m.to \in Server
    BY DEF TypeOK, VoteResp
  <2> QED  BY <1>3, <1>4, <1>9, <2>1 DEF IgnoreVoteReply, LoseElection, becameFollower, leaderVars
<1>10. ASSUME NEW m \in voteResps, CountVote(m)  PROVE Same \/ (becameLeader(r) /\ log' = log)
  <2>1. m.to \in Server
    BY DEF TypeOK, VoteResp
  <2>2. log' = log /\ (becameLeader(m.to) \/ UNCHANGED <<state, leaderVars>>)
    BY <1>10 DEF CountVote
  <2>3. CASE becameLeader(m.to) /\ m.to # r
    BY <1>1, <2>1, <2>3 DEF becameLeader
  <2> QED  BY <1>3, <2>2, <2>3 DEF leaderVars
<1>11. ASSUME NEW m \in appendReqs, HandleAppendEntries(m)  PROVE Same
  <2>1. m.to \in Server
    BY DEF TypeOK, AppendReq
  <2> QED  BY <1>3, <1>4, <1>11, <2>1 DEF HandleAppendEntries, RefuseStaleAppend, RefuseMismatch,
                AcceptEntries, InterruptedAppend, becameFollower, leaderVars
<1>12. ASSUME NEW m \in appendResps, IgnoreAppendReply(m) \/ StepDownOnReply(m)  PROVE Same
  <2>1. m.to \in Server
    BY DEF TypeOK, AppendResp
  <2> QED  BY <1>3, <1>4, <1>12, <2>1 DEF IgnoreAppendReply, StepDownOnReply, becameFollower, leaderVars
<1>13. ASSUME NEW m \in appendResps, BackUp(m) \/ RecordMatch(m), m.to # r  PROVE Same
  <2>1. m.to \in Server /\ UNCHANGED state
    BY <1>13 DEF TypeOK, AppendResp, BackUp, RecordMatch
  <2>2. \E n : nextIndex' = [nextIndex EXCEPT ![m.to][m.from] = n]
    BY <1>13 DEF BackUp, RecordMatch
  <2> QED  BY <1>1, <1>13, <2>1, <2>2
<1>14. ASSUME CallFails \/ UNCHANGED vars  PROVE Same
  BY <1>3, <1>14 DEF CallFails, vars, leaderVars
<1> HIDE DEF Same
<1>15. Same \/ (becameLeader(r) /\ log' = log)
       \/ \E m \in appendResps : m.to = r /\ (BackUp(m) \/ RecordMatch(m))
  BY <1>5, <1>6, <1>7, <1>8, <1>9, <1>10, <1>11, <1>12, <1>13, <1>14 DEF Next, HandleAppendReply
<1> QED  BY <1>15 DEF Same

\* A peer has acknowledged no more than its leader has: what it answered is
\* about the log its caller still leads with.
LEMMA AnsweredWithinLog ==
    ASSUME Reliable, SafetyInv, NEW m \in appendResps, RecordMatch(m)
    PROVE  m.last \in 0..Len(log[m.to])
<1>1. TypeOK
  BY DEF SafetyInv
<1>2. PICK won, lead, cast, ack :
          HistoryType(won, lead, cast, ack) /\ HistoryInv(won, lead, cast, ack)
  BY DEF SafetyInv
<1>3. LeadInv(won, lead) /\ AckInv(lead, ack)
  BY <1>2 DEF HistoryInv
<1>4. /\ m.to \in Server /\ m.from \in Server /\ m.last \in Nat /\ m.savedTerm \in Nat
      /\ Len(log[m.to]) \in Nat
  BY <1>1, LenProperties DEF TypeOK, AppendResp
<1>5. state[m.to] = Leader /\ m.success /\ m.savedTerm = term[m.to]
  BY DEF RecordMatch, InItsTerm, Reliable
<1>6. log[m.to] = lead[m.savedTerm]
  BY <1>3, <1>4, <1>5 DEF LeadInv
<1>7. CASE m.last > 0
  <2>1. m.last \in 1..m.last
    BY <1>4, <1>7
  <2>2. <<m.from, m.savedTerm, m.last>> \in ack
    BY <1>3, <1>5, <2>1 DEF AckInv
  <2>3. m.last \in 1..Len(lead[m.savedTerm])
    BY <1>3, <1>4, <2>2 DEF AckInv
  <2> QED  BY <1>4, <1>6, <2>3
<1> QED  BY <1>4, <1>7

\* A leader can always read the entry its next call to a peer builds on: no
\* sequence of elections, refusals and answers drives nextIndex to 0 or past
\* the end of the log, where replicateToPeer would give up for good.
THEOREM NextIndexStaysReadable ==
    ASSUME Reliable
    PROVE  Spec => []NextIndexReadable
<1>1. Init => NextIndexReadable
  BY DEF Init, NextIndexReadable, Follower, Leader
<1>2. SafetyInv /\ SafetyInv' /\ NextIndexReadable /\ [Next]_vars => NextIndexReadable'
  <2> SUFFICES ASSUME SafetyInv, SafetyInv', NextIndexReadable, [Next]_vars,
                      NEW r \in Server, state'[r] = Leader, NEW p \in Peers(r)
               PROVE  nextIndex'[r][p] - 1 \in 0..Len(log'[r])
    BY DEF NextIndexReadable, Readable, LastIndex, Peers
  <2>1. TypeOK /\ TypeOK'
    BY DEF SafetyInv
  <2>2. /\ log[r] \in Seq(Entry) /\ Len(log[r]) \in Nat /\ Len(log'[r]) \in Nat
        /\ p \in Server /\ p # r
        /\ nextIndex \in [Server -> [Server -> Nat]] /\ nextIndex[r][p] \in Nat
    <3>1. /\ log \in [Server -> Seq(Entry)] /\ log' \in [Server -> Seq(Entry)]
          /\ nextIndex \in [Server -> [Server -> Nat]]
      BY <2>1, Zenon DEF TypeOK
    <3>2. p \in Server /\ p # r
      BY DEF Peers
    <3>3. log[r] \in Seq(Entry) /\ log'[r] \in Seq(Entry) /\ nextIndex[r][p] \in Nat
      BY <3>1, <3>2
    <3> QED  BY <3>1, <3>2, <3>3, LenProperties, Zenon
  <2>3. Len(log'[r]) >= Len(log[r])
    <3>1. log'[r] = log[r] \/ \E e \in Entry : log'[r] = Append(log[r], e)
      BY <2>1, LeaderLogStep
    <3> QED  BY <2>2, <3>1, AppendProperties
  <2>4. state[r] = Leader => nextIndex[r][p] - 1 \in 0..Len(log[r])
    BY DEF NextIndexReadable, Readable, LastIndex
  <2>5. CASE state[r] = Leader /\ nextIndex'[r] = nextIndex[r]
    BY <2>2, <2>3, <2>4, <2>5
  <2>6. CASE becameLeader(r) /\ log' = log
    <3>1. nextIndex'[r] = [q \in Server |-> IF q = r THEN nextIndex[r][q] ELSE Len(log[r]) + 1]
      BY <2>2, <2>6 DEF becameLeader, LastIndex
    <3>2. nextIndex'[r][p] = Len(log[r]) + 1
      BY <2>2, <3>1
    <3> QED  BY <2>2, <2>6, <3>2
  <2>7. ASSUME NEW m \in appendResps, m.to = r, BackUp(m) \/ RecordMatch(m)
        PROVE  nextIndex'[r][p] - 1 \in 0..Len(log'[r])
    <3>1. m.from \in Server /\ m.last \in Nat /\ state[r] = Leader /\ log' = log
      BY <2>1, <2>7 DEF TypeOK, AppendResp, BackUp, RecordMatch
    <3>2. CASE BackUp(m)
      <4>1. nextIndex' = [nextIndex EXCEPT ![r][m.from] = OneEarlier(@)]
        BY <2>7, <3>2 DEF BackUp
      <4>2. nextIndex'[r][p] = nextIndex[r][p] \/ nextIndex'[r][p] = OneEarlier(nextIndex[r][p])
        BY <2>2, <3>1, <4>1
      <4> QED  BY <2>2, <2>4, <3>1, <4>2, SMTT(40) DEF OneEarlier
    <3>3. CASE RecordMatch(m)
      <4>1. nextIndex' = [nextIndex EXCEPT ![r][m.from] = m.last + 1]
        BY <2>7, <3>3 DEF RecordMatch
      <4>2. nextIndex'[r][p] = nextIndex[r][p] \/ nextIndex'[r][p] = m.last + 1
        BY <2>2, <3>1, <4>1
      <4>3. m.last \in 0..Len(log[r])
        BY <2>7, <3>3, AnsweredWithinLog
      <4> QED  BY <2>2, <2>4, <3>1, <4>2, <4>3, SMTT(40)
    <3> QED  BY <2>7, <3>2, <3>3
  <2> QED  BY <2>1, <2>5, <2>6, <2>7, LeaderIndexStep
<1> QED  BY <1>1, <1>2, SafetyInvariant, PTL DEF Spec

-----------------------------------------------------------------------------
(* The WAL.                                                                *)

\* What a restart may leave of the WAL of r.
LosesSome(r) ==
    \E k \in 0..Len(wal[r]) :
        /\ lastApplied'[r] = k /\ Len(wal'[r]) = k
        /\ \A i \in 1..k : wal'[r][i] \in {wal[r][i], Gone}

\* How a step changes a WAL: it may apply the next committed entry, or lose
\* what a restart finds unwritten.
LEMMA WalStep ==
    ASSUME TypeOK, [Next]_vars, NEW r \in Server
    PROVE  \/ wal'[r] = wal[r] /\ lastApplied'[r] = lastApplied[r]
           \/ ApplyLoop(r)
           \/ LosesSome(r)
<1> DEFINE Same == wal'[r] = wal[r] /\ lastApplied'[r] = lastApplied[r]
<1>1. wal \in [Server -> Seq(Stored)] /\ lastApplied \in [Server -> Nat]
  BY DEF TypeOK
<1>2. ASSUME UNCHANGED applyVars  PROVE Same
  BY <1>2 DEF applyVars
<1>3. ASSUME NEW q \in Server,
             startElection(q) \/ (\E c \in Command : Submit(q, c))
             \/ \E p \in Peers(q), t \in heartbeats[q] : replicateToPeer(q, p, t)
      PROVE  UNCHANGED applyVars
  BY <1>3 DEF startElection, Submit, replicateToPeer, applyVars
<1>4. ASSUME NEW m \in voteReqs, HandleRequestVote(m)  PROVE UNCHANGED applyVars
  BY <1>4 DEF HandleRequestVote, applyVars
<1>5. ASSUME NEW m \in voteResps, IgnoreVoteReply(m) \/ LoseElection(m) \/ CountVote(m)
      PROVE  UNCHANGED applyVars
  BY <1>5 DEF IgnoreVoteReply, LoseElection, CountVote, applyVars
<1>6. ASSUME NEW m \in appendReqs, HandleAppendEntries(m)  PROVE UNCHANGED applyVars
  BY <1>6 DEF HandleAppendEntries, RefuseStaleAppend, RefuseMismatch, AcceptEntries,
              InterruptedAppend, applyVars
<1>7. ASSUME NEW m \in appendResps, HandleAppendReply(m)  PROVE UNCHANGED applyVars
  BY <1>7 DEF HandleAppendReply, IgnoreAppendReply, StepDownOnReply, BackUp, RecordMatch, applyVars
<1>8. ASSUME CallFails \/ UNCHANGED vars  PROVE UNCHANGED applyVars
  BY <1>8 DEF CallFails, vars, applyVars
<1>9. ASSUME NEW q \in Server, ApplyLoop(q)  PROVE Same \/ ApplyLoop(r)
  <2>1. CASE q # r
    BY <1>1, <1>9, <2>1 DEF ApplyLoop
  <2> QED  BY <1>9, <2>1
<1>10. ASSUME NEW q \in Server, Restart(q)
       PROVE  Same \/ LosesSome(r)
  <2>1. PICK k \in 0..Len(wal[q]) : \E holes \in SUBSET (1..k) :
            /\ wal' = [wal EXCEPT ![q] = AfterLoss(@, k, holes)]
            /\ lastApplied' = [lastApplied EXCEPT ![q] = k]
    BY <1>10 DEF Restart, SetLastApplied
  <2>2. CASE q # r
    BY <1>1, <2>1, <2>2
  <2>3. CASE q = r
    <3>1. PICK holes : wal'[r] = AfterLoss(wal[r], k, holes) /\ lastApplied'[r] = k
      BY <1>1, <2>1, <2>3
    <3>2. wal[r] \in Seq(Stored) /\ k \in 0..Len(wal[r])
      BY <1>1, <2>1, <2>3
    <3>3. Len(wal'[r]) = k /\ \A i \in 1..k : wal'[r][i] \in {wal[r][i], Gone}
      BY <3>1, <3>2, LossProperties
    <3> QED  BY <3>1, <3>2, <3>3 DEF LosesSome
  <2> QED  BY <2>2, <2>3
<1> HIDE DEF Same
<1>11. Same \/ ApplyLoop(r) \/ LosesSome(r)
  BY <1>2, <1>3, <1>4, <1>5, <1>6, <1>7, <1>8, <1>9, <1>10 DEF Next
<1> QED  BY <1>11 DEF Same

\* Offset i of the WAL belongs to entry i of the log, so that SetLastApplied,
\* which takes the next offset of the WAL for the index of the last entry
\* applied, makes a restart neither append an entry at the offset of another
\* nor append one again, whatever records the crash took.  It rests on a WAL
\* that refuses no record: one that it refuses takes an index of the log and no
\* offset of the WAL.
THEOREM WalMirrorsLog ==
    ASSUME Reliable, Oversize = {}
    PROVE  Spec => []WalFollowsLog
<1>1. Init => WalFollowsLog
  BY DEF Init, WalFollowsLog
<1>2. SafetyInv /\ SafetyInv' /\ WalFollowsLog /\ [Next]_vars => WalFollowsLog'
  <2> SUFFICES ASSUME SafetyInv, SafetyInv', WalFollowsLog, [Next]_vars, NEW r \in Server
               PROVE  /\ Len(wal'[r]) = lastApplied'[r] /\ lastApplied'[r] <= Len(log'[r])
                      /\ \A i \in 1..lastApplied'[r] : wal'[r][i] \in {log'[r][i].cmd, Gone}
    BY DEF WalFollowsLog
  <2>1. TypeOK /\ TypeOK'
    BY DEF SafetyInv
  <2>2. PICK won, lead, cast, ack :
            HistoryType(won, lead, cast, ack) /\ HistoryInv(won, lead, cast, ack)
    BY DEF SafetyInv
  <2>3. CommitInv(lead, ack)
    BY <2>2 DEF HistoryInv
  <2>4. commitIndex[r] \in Nat /\ Len(log[r]) \in Nat /\ commitIndex[r] <= Len(log[r])
    BY <2>1, <2>2, <2>3, CommitWithin
  <2>5. lastApplied[r] \in Nat /\ lastApplied[r] <= commitIndex[r]
    BY <2>1, <2>3 DEF TypeOK, CommitInv
  <2>6. wal[r] \in Seq(Stored) /\ Len(wal[r]) \in Nat /\ Len(log'[r]) \in Nat
    BY <2>1, LenProperties DEF TypeOK
  <2>7. /\ commitIndex[r] <= Len(log'[r])
        /\ \A i \in 1..commitIndex[r] : log'[r][i] = log[r][i]
    BY CommittedStep DEF Agree
  <2>8. /\ Len(wal[r]) = lastApplied[r]
        /\ \A i \in 1..lastApplied[r] : wal[r][i] \in {log[r][i].cmd, Gone}
    BY DEF WalFollowsLog
  <2>9. ASSUME NEW i \in 1..lastApplied[r]  PROVE wal[r][i] \in {log'[r][i].cmd, Gone}
    <3>1. i \in 1..commitIndex[r]
      BY <2>4, <2>5
    <3>2. log'[r][i] = log[r][i]
      BY <2>7, <3>1
    <3> QED  BY <2>8, <3>2
  <2>10. lastApplied[r] <= Len(log'[r])
    BY <2>4, <2>5, <2>6, <2>7
  <2>11. CASE wal'[r] = wal[r] /\ lastApplied'[r] = lastApplied[r]
    BY <2>8, <2>9, <2>10, <2>11
  <2>12. CASE LosesSome(r)
    <3>1. PICK k \in 0..Len(wal[r]) :
              /\ lastApplied'[r] = k /\ Len(wal'[r]) = k
              /\ \A i \in 1..k : wal'[r][i] \in {wal[r][i], Gone}
      BY <2>12 DEF LosesSome
    <3>2. ASSUME NEW i \in 1..k  PROVE wal'[r][i] \in {log'[r][i].cmd, Gone}
      <4>1. i \in 1..lastApplied[r]
        BY <2>5, <2>8, <3>1
      <4> QED  BY <2>9, <3>1, <4>1
    <3>3. k <= Len(log'[r])
      BY <2>5, <2>6, <2>8, <2>10, <3>1, SMTT(40)
    <3> QED  BY <3>1, <3>2, <3>3
  <2>13. CASE ApplyLoop(r)
    <3> DEFINE n == lastApplied[r]
    <3>1. /\ n < commitIndex[r] /\ lastApplied' = [lastApplied EXCEPT ![r] = n + 1]
          /\ wal' = [wal EXCEPT ![r] =
                 IF Readable(log[r], n + 1) /\ log[r][n + 1].cmd \notin Oversize
                 THEN Append(@, log[r][n + 1].cmd) ELSE @]
      BY <2>13 DEF ApplyLoop
    <3>2. Readable(log[r], n + 1)
      BY <2>4, <2>5, <3>1 DEF Readable, LastIndex
    <3>3. lastApplied'[r] = n + 1 /\ wal'[r] = Append(wal[r], log[r][n + 1].cmd)
      BY <2>1, <3>1, <3>2 DEF TypeOK
    <3>4. log'[r][n + 1] = log[r][n + 1] /\ n + 1 <= Len(log'[r])
      BY <2>4, <2>5, <2>6, <2>7, <3>1, SMTT(40)
    <3>5. log[r][n + 1].cmd \in Stored
      <4>1. log[r][n + 1] \in Entry
        BY <2>1, <2>4, <2>5, <3>1, ElementOfSeq, SMTT(40) DEF TypeOK
      <4> QED  BY <4>1 DEF Entry, Stored
    <3>6. /\ Len(wal'[r]) = n + 1
          /\ \A i \in 1..n : wal'[r][i] = wal[r][i]
          /\ wal'[r][n + 1] = log[r][n + 1].cmd
      BY <2>6, <2>8, <3>3, <3>5, AppendProperties
    <3>7. ASSUME NEW i \in 1..(n + 1)  PROVE wal'[r][i] \in {log'[r][i].cmd, Gone}
      <4>1. CASE i \in 1..n
        BY <2>9, <3>6, <4>1
      <4>2. CASE i = n + 1
        BY <3>4, <3>6, <4>2
      <4> QED  BY <2>5, <4>1, <4>2
    <3> QED  BY <3>3, <3>4, <3>6, <3>7, Zenon
  <2> QED  BY <2>1, <2>11, <2>12, <2>13, WalStep
<1> QED  BY <1>1, <1>2, SafetyInvariant, PTL DEF Spec

\* A consumer that reads an offset from one replica finds the record there that
\* any other replica has at that offset, or none.
WalsAgree ==
    \A a, b \in Server :
        \A i \in 1..Min2(Len(wal[a]), Len(wal[b])) :
            wal[a][i] = wal[b][i] \/ Gone \in {wal[a][i], wal[b][i]}

\* The replicas of a partition never hold different records at an offset,
\* whoever led when they were written, whoever restarted since and whatever the
\* restarts lost.
THEOREM OffsetsMeanTheSame ==
    ASSUME Reliable, Oversize = {}
    PROVE  Spec => []WalsAgree
<1>1. SafetyInv /\ StateMachineSafety /\ WalFollowsLog => WalsAgree
  <2> SUFFICES ASSUME SafetyInv, StateMachineSafety, WalFollowsLog,
                      NEW a \in Server, NEW b \in Server,
                      NEW i \in 1..Min2(Len(wal[a]), Len(wal[b]))
               PROVE  wal[a][i] = wal[b][i] \/ Gone \in {wal[a][i], wal[b][i]}
    BY DEF WalsAgree
  <2>1. PICK won, lead, cast, ack : HistoryInv(won, lead, cast, ack)
    BY DEF SafetyInv
  <2>2. ASSUME NEW r \in Server
        PROVE  /\ Len(wal[r]) \in Nat /\ commitIndex[r] \in Nat /\ Len(wal[r]) <= commitIndex[r]
               /\ \A j \in 1..Len(wal[r]) : wal[r][j] \in {log[r][j].cmd, Gone}
    <3>1. wal[r] \in Seq(Stored) /\ lastApplied[r] \in Nat /\ commitIndex[r] \in Nat
      BY DEF SafetyInv, TypeOK
    <3>2. lastApplied[r] <= commitIndex[r]
      BY <2>1 DEF HistoryInv, CommitInv
    <3>3. /\ Len(wal[r]) = lastApplied[r]
          /\ \A j \in 1..lastApplied[r] : wal[r][j] \in {log[r][j].cmd, Gone}
      BY DEF WalFollowsLog
    <3> QED  BY <3>1, <3>2, <3>3
  <2>3. i \in 1..Len(wal[a]) /\ i \in 1..Len(wal[b])
    BY <2>2 DEF Min2
  <2>4. wal[a][i] \in {log[a][i].cmd, Gone} /\ wal[b][i] \in {log[b][i].cmd, Gone}
    BY <2>2, <2>3
  <2>5. i \in 1..Min2(commitIndex[a], commitIndex[b])
    BY <2>2, <2>3 DEF Min2
  <2>6. log[a][i] = log[b][i]
    BY <2>5 DEF StateMachineSafety
  <2> QED  BY <2>4, <2>6
<1> QED  BY <1>1, SafetyInvariant, ReplicasAgree, WalMirrorsLog, PTL
=============================================================================
