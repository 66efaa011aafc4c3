-------------------------- MODULE RaftGroupProofs --------------------------
(***************************************************************************)
(* Proofs about RaftGroup: type correctness, that no two servers lead the  *)
(* same term, that a vote is given once in a term and that a leader only   *)
(* appends, for every number of servers and every bound, with restarts,    *)
(* with disks that fail to write raft.state, and with calls that outlive   *)
(* their term.                                                             *)
(***************************************************************************)
EXTENDS RaftGroup, TLAPS, FiniteSetTheorems, SequenceTheorems

-----------------------------------------------------------------------------
(* Type correctness.                                                       *)

\* What a crash leaves of a WAL is as long as it says, and has the record that
\* was there at each offset, or none.
LEMMA LossProperties ==
    ASSUME NEW w \in Seq(Stored), NEW k \in 0..Len(w), NEW holes
    PROVE  /\ AfterLoss(w, k, holes) \in Seq(Stored)
           /\ Len(AfterLoss(w, k, holes)) = k
           /\ \A i \in 1..k : AfterLoss(w, k, holes)[i] \in {w[i], Gone}
<1>1. k \in Nat /\ \A i \in 1..k : w[i] \in Stored
  BY LenProperties, ElementOfSeq
<1>2. Gone \in Stored
  BY DEF Stored
<1>3. AfterLoss(w, k, holes) \in [1..k -> Stored]
  BY <1>1, <1>2 DEF AfterLoss
<1> QED  BY <1>1, <1>3 DEF AfterLoss

\* A log whose entries below a cut are kept and above it replaced is a log.
LEMMA MergedType ==
    ASSUME NEW l \in Seq(Entry), NEW m \in AppendReq, m.prevIndex <= Len(l)
    PROVE  Merged(l, m) \in Seq(Entry)
<1> DEFINE n == MergedLen(l, m)
<1>1. m.prevIndex \in Nat /\ m.entries \in Seq(Entry) /\ Len(m.entries) \in Nat /\ Len(l) \in Nat
  BY DEF AppendReq
<1>2. n \in Nat
  BY <1>1 DEF MergedLen, LastIndex
<1>3. ASSUME NEW i \in 1..n
      PROVE  (IF Keeps(l, m, i) THEN l[i] ELSE m.entries[i - m.prevIndex]) \in Entry
  <2>1. CASE Keeps(l, m, i)
    <3>1. i \in 1..Len(l)
      BY <2>1, <1>1, <1>2 DEF Keeps, LastIndex
    <3> QED  BY <3>1, <2>1, ElementOfSeq
  <2>2. CASE ~Keeps(l, m, i)
    <3>1. i > m.prevIndex
      BY <2>2, <1>1, <1>2 DEF Keeps, LastIndex
    <3>2. i <= m.prevIndex + Len(m.entries)
      <4>1. CASE n = m.prevIndex + Len(m.entries)
        BY <4>1, <1>1
      <4>2. CASE n # m.prevIndex + Len(m.entries)
        <5>1. n = Len(l) /\ m.prevIndex + Len(m.entries) < Len(l)
              /\ Keeps(l, m, m.prevIndex + Len(m.entries))
          BY <4>2 DEF MergedLen, LastIndex
        <5>2. Keeps(l, m, i)
          BY <5>1, <1>1, <1>2 DEF Keeps, LastIndex
        <5> QED  BY <5>2, <2>2
      <4> QED  BY <4>1, <4>2
    <3>3. i - m.prevIndex \in 1..Len(m.entries)
      BY <3>1, <3>2, <1>1, <1>2
    <3> QED  BY <3>3, <1>1, <2>2, ElementOfSeq
  <2> QED  BY <2>1, <2>2
<1> QED  BY <1>2, <1>3, IsASeq DEF Merged

\* becameFollower gives every variable it assigns a value of its type.
LEMMA BecameFollowerType ==
    ASSUME TypeOK, NEW r \in Server, NEW t \in Nat, becameFollower(r, t)
    PROVE  /\ state' \in [Server -> {Follower, Candidate, Leader}]
           /\ term' \in [Server -> Nat]
           /\ votedFor' \in [Server -> Server \cup {Nil}]
           /\ stateFile' \in [Server -> [term : Nat, votedFor : Server \cup {Nil}]]
<1>1. TermAfter(r, t) \in Nat /\ VoteAfter(r, t) \in Server \cup {Nil}
  BY DEF TypeOK, TermAfter, VoteAfter
<1>2. ASSUME NEW ok \in PersistOutcomes(r)
      PROVE  FileAfterAdopting(r, t, ok) \in [term : Nat, votedFor : Server \cup {Nil}]
  BY DEF TypeOK, FileAfterAdopting, FileAfter
<1>3. /\ state \in [Server -> {Follower, Candidate, Leader}] /\ term \in [Server -> Nat]
      /\ votedFor \in [Server -> Server \cup {Nil}]
      /\ stateFile \in [Server -> [term : Nat, votedFor : Server \cup {Nil}]]
  BY Zenon DEF TypeOK
<1>4. state' \in [Server -> {Follower, Candidate, Leader}]
  BY <1>3, ZenonT(60) DEF becameFollower
<1>5. term' \in [Server -> Nat]
  BY <1>1, <1>3, ZenonT(60) DEF becameFollower
<1>6. votedFor' \in [Server -> Server \cup {Nil}]
  BY <1>1, <1>3, ZenonT(60) DEF becameFollower
<1>7. stateFile' \in [Server -> [term : Nat, votedFor : Server \cup {Nil}]]
  BY <1>2, <1>3, ZenonT(60) DEF becameFollower
<1> QED  BY <1>4, <1>5, <1>6, <1>7

\* The term read at an index of the log, or of the dummy, is a term.
LEMMA TermAtType ==
    ASSUME NEW l \in Seq(Entry), NEW i \in 0..Len(l)
    PROVE  TermAt(l, i) \in Nat
<1>1. CASE i = 0
  BY <1>1 DEF TermAt
<1>2. CASE i # 0
  <2>1. l[i] \in Entry
    BY <1>2, ElementOfSeq, LenProperties
  <2> QED  BY <2>1, <1>2 DEF TermAt, Entry
<1> QED  BY <1>1, <1>2

\* The steps of startElection, HandleRequestVote and the vote replies keep
\* every variable in its type.
LEMMA ElectionTypes ==
    ASSUME TypeOK
    PROVE  /\ \A r \in Server : startElection(r) => TypeOK'
           /\ \A m \in voteReqs : HandleRequestVote(m) => TypeOK'
           /\ \A m \in voteResps :
                IgnoreVoteReply(m) \/ LoseElection(m) \/ CountVote(m) => TypeOK'
<1>1. ASSUME NEW r \in Server, startElection(r)  PROVE TypeOK'
  <2>1. LastIndex(log[r]) \in Nat /\ LastTerm(log[r]) \in Nat
    BY TermAtType, LenProperties DEF TypeOK, LastIndex, LastTerm
  <2>2. voteReqs' \subseteq VoteReq
    <3> DEFINE req(p) == [from |-> r, to |-> p, term |-> term[r] + 1,
                          lastIndex |-> LastIndex(log[r]),
                          lastTerm |-> LastTerm(log[r]), alive |-> TRUE]
    <3>1. ASSUME NEW p \in Peers(r)  PROVE req(p) \in VoteReq
      BY <2>1, SMTT(40) DEF TypeOK, VoteReq, Peers
    <3>2. voteReqs' = voteReqs \cup {req(p) : p \in Peers(r)}
      BY <1>1 DEF startElection
    <3> HIDE DEF req
    <3> QED  BY <3>1, <3>2 DEF TypeOK
  <2>3. stateFile' \in [Server -> [term : Nat, votedFor : Server \cup {Nil}]]
    BY <1>1 DEF TypeOK, startElection, FileAfter
  <2>4. /\ state' \in [Server -> {Follower, Candidate, Leader}]
        /\ term' \in [Server -> Nat]
        /\ votedFor' \in [Server -> Server \cup {Nil}]
        /\ votes' \in [Server -> SUBSET Server]
    BY <1>1 DEF TypeOK, startElection
  <2> QED
    BY <1>1, <2>2, <2>3, <2>4
    DEF TypeOK, startElection, leaderVars, applyVars, appendMsgs
<1>2. ASSUME NEW m \in voteReqs, HandleRequestVote(m)  PROVE TypeOK'
  <2>1. m \in VoteReq /\ m.to \in Server /\ m.from \in Server /\ m.term \in Nat
    BY DEF TypeOK, VoteReq
  <2>2. TermAfter(m.to, m.term) \in Nat /\ VoteAfter(m.to, m.term) \in Server \cup {Nil}
    BY <2>1 DEF TypeOK, TermAfter, VoteAfter
  <2>3. PICK adopted, saved \in PersistOutcomes(m.to) :
          /\ stateFile' = [stateFile EXCEPT ![m.to] =
                IF MayGrant(m) /\ saved
                THEN FileAfter(m.to, TermAfter(m.to, m.term), m.from, saved)
                ELSE FileAfterAdopting(m.to, m.term, adopted)]
          /\ voteResps' = voteResps \cup
                Answer(m, [from |-> m.to, to |-> m.from, savedTerm |-> m.term,
                           term |-> TermAfter(m.to, m.term),
                           granted |-> MayGrant(m) /\ saved])
    BY <1>2 DEF HandleRequestVote
  <2>4. stateFile' \in [Server -> [term : Nat, votedFor : Server \cup {Nil}]]
    BY <2>1, <2>2, <2>3 DEF TypeOK, FileAfter, FileAfterAdopting
  <2>5. saved \in BOOLEAN /\ (MayGrant(m) /\ saved) \in BOOLEAN
    BY DEF PersistOutcomes, MayGrant
  <2>6. voteResps' \subseteq VoteResp
    <3> DEFINE resp == [from |-> m.to, to |-> m.from, savedTerm |-> m.term,
                        term |-> TermAfter(m.to, m.term),
                        granted |-> MayGrant(m) /\ saved]
    <3>1. resp \in VoteResp
      BY <2>1, <2>2, <2>5 DEF VoteResp
    <3>2. voteResps' = voteResps \cup Answer(m, resp)
      BY <2>3
    <3> HIDE DEF resp
    <3> QED  BY <3>1, <3>2 DEF TypeOK, Answer
  <2>7. /\ state' \in [Server -> {Follower, Candidate, Leader}]
        /\ term' \in [Server -> Nat]
        /\ votedFor' \in [Server -> Server \cup {Nil}]
        /\ voteReqs' \subseteq VoteReq
    BY <1>2, <2>1, <2>2 DEF TypeOK, HandleRequestVote
  <2> QED
    BY <1>2, <2>4, <2>6, <2>7 DEF TypeOK, HandleRequestVote, leaderVars, applyVars, appendMsgs
<1>3. ASSUME NEW m \in voteResps, IgnoreVoteReply(m)  PROVE TypeOK'
  BY <1>3 DEF TypeOK, IgnoreVoteReply, leaderVars, applyVars, appendMsgs
<1>4. ASSUME NEW m \in voteResps, LoseElection(m)  PROVE TypeOK'
  <2>1. m.to \in Server /\ m.term \in Nat
    BY DEF TypeOK, VoteResp
  <2>2. becameFollower(m.to, m.term)
    BY <1>4 DEF LoseElection
  <2> QED
    BY <1>4, <2>1, <2>2, BecameFollowerType
    DEF TypeOK, LoseElection, leaderVars, applyVars, appendMsgs
<1>5. ASSUME NEW m \in voteResps, CountVote(m)  PROVE TypeOK'
  <2>1. m.to \in Server /\ m.from \in Server
    BY DEF TypeOK, VoteResp
  <2>2. votes' \in [Server -> SUBSET Server]
    BY <1>5, <2>1, ZenonT(40) DEF TypeOK, CountVote
  <2>3. \/ becameLeader(m.to)
        \/ UNCHANGED <<state, leaderVars, heartbeats>>
    BY <1>5 DEF CountVote
  <2>4. /\ state' \in [Server -> {Follower, Candidate, Leader}]
        /\ nextIndex' \in [Server -> [Server -> Nat]]
        /\ matchIndex' \in [Server -> [Server -> Nat]]
        /\ heartbeats' \in [Server -> SUBSET Nat]
    <3>1. CASE becameLeader(m.to)
      <4>1. LastIndex(log[m.to]) + 1 \in Nat
        BY <2>1, LenProperties DEF TypeOK, LastIndex
      <4> DEFINE next == [p \in Server |-> IF p = m.to THEN nextIndex[m.to][p]
                                           ELSE LastIndex(log[m.to]) + 1]
                 match == [p \in Server |-> IF p = m.to THEN matchIndex[m.to][p] ELSE 0]
      <4>2. next \in [Server -> Nat] /\ match \in [Server -> Nat]
        BY <2>1, <4>1 DEF TypeOK
      <4>3. nextIndex' = [nextIndex EXCEPT ![m.to] = next]
        BY <3>1 DEF becameLeader
      <4>4. matchIndex' = [matchIndex EXCEPT ![m.to] = match]
        BY <3>1 DEF becameLeader
      <4> HIDE DEF next, match
      <4>5. state' \in [Server -> {Follower, Candidate, Leader}]
        BY <3>1, <2>1 DEF TypeOK, becameLeader
      <4>6. heartbeats' \in [Server -> SUBSET Nat]
        <5>1. heartbeats[m.to] \cup {term[m.to]} \in SUBSET Nat
          BY <2>1, SMTT(40) DEF TypeOK
        <5> QED  BY <3>1, <2>1, <5>1, Zenon DEF TypeOK, becameLeader
      <4> QED  BY <4>2, <4>3, <4>4, <4>5, <4>6 DEF TypeOK
    <3>2. CASE UNCHANGED <<state, leaderVars, heartbeats>>
      BY <3>2 DEF TypeOK, leaderVars
    <3> QED  BY <2>3, <3>1, <3>2
  <2> QED
    BY <1>5, <2>2, <2>4 DEF TypeOK, CountVote, applyVars
<1> QED  BY <1>1, <1>2, <1>3, <1>4, <1>5

\* The replies of HandleAppendEntries are AppendEntries replies.
LEMMA AppendReplyType ==
    ASSUME NEW m \in AppendReq, NEW t \in Nat, NEW ok \in BOOLEAN
    PROVE  AppendReply(m, t, ok) \subseteq AppendResp
<1> DEFINE resp == [from |-> m.to, to |-> m.from, id |-> m.id, savedTerm |-> m.term,
                    term |-> t, success |-> ok,
                    last |-> m.prevIndex + Len(m.entries)]
<1>1. m.prevIndex + Len(m.entries) \in Nat
  BY LenProperties DEF AppendReq
<1>2. resp \in AppendResp
  BY <1>1 DEF AppendReq, AppendResp
<1>3. AppendReply(m, t, ok) = Answer(m, resp)
  BY DEF AppendReply
<1> HIDE DEF resp
<1> QED  BY <1>2, <1>3 DEF Answer

\* Changing one peer's entry in a leader's nextIndex or matchIndex keeps the
\* type of the table.
LEMMA RowUpdateType ==
    ASSUME NEW f \in [Server -> [Server -> Nat]], NEW a \in Server, NEW b \in Server,
           NEW n \in Nat
    PROVE  [f EXCEPT ![a][b] = n] \in [Server -> [Server -> Nat]]
<1>1. [f[a] EXCEPT ![b] = n] \in [Server -> Nat]
  OBVIOUS
<1>2. [f EXCEPT ![a][b] = n] = [f EXCEPT ![a] = [f[a] EXCEPT ![b] = n]]
  OBVIOUS
<1> QED  BY <1>1, <1>2

\* The steps of replicateToPeer, HandleAppendEntries and the handling of its
\* replies keep every variable in its type.
LEMMA ReplicationTypes ==
    ASSUME TypeOK
    PROVE  /\ \A r \in Server : \A p \in Peers(r), t \in heartbeats[r] :
                replicateToPeer(r, p, t) => TypeOK'
           /\ \A m \in appendReqs : HandleAppendEntries(m) => TypeOK'
           /\ \A m \in appendResps : HandleAppendReply(m) => TypeOK'
<1>1. ASSUME NEW r \in Server, NEW p \in Peers(r), NEW t \in heartbeats[r],
             replicateToPeer(r, p, t)
      PROVE  TypeOK'
  <2> DEFINE next == nextIndex[r][p]
             id == CHOOSE i \in FreeIds(r, p, t) : TRUE
             req == [from |-> r, to |-> p, id |-> id,
                     term |-> t, prevIndex |-> next - 1,
                     prevTerm |-> TermAt(log[r], next - 1),
                     entries |-> SubSeq(log[r], next, LastIndex(log[r])),
                     leaderCommit |-> commitIndex[r], alive |-> TRUE]
  <2>1. p \in Server /\ t \in Nat /\ log[r] \in Seq(Entry) /\ commitIndex[r] \in Nat
        /\ next \in Nat /\ Len(log[r]) \in Nat
    BY LenProperties DEF TypeOK, Peers
  <2>2. next - 1 \in 0..Len(log[r])
    BY <1>1 DEF replicateToPeer, Readable, LastIndex
  <2>3. TermAt(log[r], next - 1) \in Nat
    BY <2>1, <2>2, TermAtType
  <2>4. SubSeq(log[r], next, LastIndex(log[r])) \in Seq(Entry)
    BY <2>1, <2>2, SubSeqProperties DEF LastIndex
  <2>5. id \in Nat
    <3>1. FreeIds(r, p, t) # {}
      BY <1>1 DEF replicateToPeer
    <3>2. FreeIds(r, p, t) \subseteq Nat
      BY BoundAssumption DEF FreeIds
    <3> QED  BY <3>1, <3>2
  <2>6. appendReqs' = appendReqs \cup {req}
    BY <1>1 DEF replicateToPeer
  <2> HIDE DEF id, next
  <2>7. req \in AppendReq
    BY <2>1, <2>2, <2>3, <2>4, <2>5 DEF AppendReq
  <2> HIDE DEF req
  <2> QED
    BY <1>1, <2>6, <2>7 DEF TypeOK, replicateToPeer, leaderVars, applyVars, voteMsgs
<1>2. ASSUME NEW m \in appendReqs, HandleAppendEntries(m)  PROVE TypeOK'
  <2>1. m \in AppendReq /\ m.to \in Server /\ m.from \in Server /\ m.term \in Nat
        /\ m.leaderCommit \in Nat
    BY DEF TypeOK, AppendReq
  <2>2. term[m.to] \in Nat /\ log[m.to] \in Seq(Entry)
    BY <2>1 DEF TypeOK
  <2>3. CASE RefuseStaleAppend(m)
    BY <2>1, <2>2, <2>3, AppendReplyType
    DEF TypeOK, RefuseStaleAppend, leaderVars, applyVars, voteMsgs
  <2>4. CASE RefuseMismatch(m)
    <3>1. becameFollower(m.to, m.term)
      BY <2>4 DEF RefuseMismatch
    <3> QED
      BY <2>1, <2>2, <2>4, <3>1, BecameFollowerType, AppendReplyType
      DEF TypeOK, RefuseMismatch, leaderVars, applyVars, voteMsgs
  <2>5. PrevMatches(m) => /\ Merged(log[m.to], m) \in Seq(Entry)
                          /\ LastIndex(Merged(log[m.to], m)) \in Nat
    BY <2>1, <2>2, MergedType, LenProperties DEF PrevMatches, LastIndex
  <2>6. CASE AcceptEntries(m)
    <3>1. becameFollower(m.to, m.term) /\ PrevMatches(m)
      BY <2>6 DEF AcceptEntries
    <3>2. log' \in [Server -> Seq(Entry)]
      BY <2>1, <2>5, <2>6, <3>1 DEF TypeOK, AcceptEntries
    <3>3. commitIndex' \in [Server -> Nat]
      BY <2>1, <2>5, <2>6, <3>1 DEF TypeOK, AcceptEntries, Min2
    <3> QED
      BY <2>1, <2>6, <3>1, <3>2, <3>3, BecameFollowerType, AppendReplyType
      DEF TypeOK, AcceptEntries, leaderVars, applyVars, voteMsgs
  <2>7. CASE InterruptedAppend(m)
    <3>1. becameFollower(m.to, m.term) /\ PrevMatches(m)
      BY <2>7 DEF InterruptedAppend
    <3>2. log' \in [Server -> Seq(Entry)]
      <4>1. PICK n \in 0..(LastIndex(Merged(log[m.to], m)) - 1) :
                log' = [log EXCEPT ![m.to] = SubSeq(Merged(log[m.to], m), 1, n)]
        BY <2>7 DEF InterruptedAppend
      <4>2. SubSeq(Merged(log[m.to], m), 1, n) \in Seq(Entry)
        BY <2>5, <3>1, SubSeqProperties DEF LastIndex
      <4> QED  BY <2>1, <4>1, <4>2 DEF TypeOK
    <3>3. faults' \in Nat /\ appendReqs' \subseteq AppendReq
      BY <2>7 DEF TypeOK, InterruptedAppend
    <3>4. /\ state' \in [Server -> {Follower, Candidate, Leader}]
          /\ term' \in [Server -> Nat]
          /\ votedFor' \in [Server -> Server \cup {Nil}]
          /\ stateFile' \in [Server -> [term : Nat, votedFor : Server \cup {Nil}]]
      BY <2>1, <3>1, BecameFollowerType
    <3> QED
      BY <2>7, <3>2, <3>3, <3>4
      DEF TypeOK, InterruptedAppend, leaderVars, applyVars, voteMsgs
  <2> QED  BY <1>2, <2>3, <2>4, <2>6, <2>7 DEF HandleAppendEntries
<1>3. ASSUME NEW m \in appendResps, HandleAppendReply(m)  PROVE TypeOK'
  <2>1. m.to \in Server /\ m.from \in Server /\ m.term \in Nat /\ m.last \in Nat
    BY DEF TypeOK, AppendResp
  <2>2. CASE IgnoreAppendReply(m)
    BY <2>2 DEF TypeOK, IgnoreAppendReply, leaderVars, applyVars, voteMsgs
  <2>3. CASE StepDownOnReply(m)
    <3>1. becameFollower(m.to, m.term)
      BY <2>3 DEF StepDownOnReply
    <3> QED
      BY <2>1, <2>3, <3>1, BecameFollowerType
      DEF TypeOK, StepDownOnReply, leaderVars, applyVars, voteMsgs
  <2>4. CASE BackUp(m)
    <3>1. nextIndex' \in [Server -> [Server -> Nat]]
      <4> DEFINE n == IF nextIndex[m.to][m.from] > 1 THEN nextIndex[m.to][m.from] - 1
                      ELSE nextIndex[m.to][m.from]
      <4>1. n \in Nat
        <5>1. nextIndex[m.to][m.from] \in Nat
          <6>1. nextIndex \in [Server -> [Server -> Nat]]
            BY DEF TypeOK
          <6> QED  BY <2>1, <6>1
        <5> QED  BY <5>1
      <4>2. nextIndex' = [nextIndex EXCEPT ![m.to][m.from] = n]
        BY <2>4 DEF BackUp, OneEarlier
      <4> HIDE DEF n
      <4> QED  BY <2>1, <4>1, <4>2, RowUpdateType DEF TypeOK
    <3> QED  BY <2>4, <3>1 DEF TypeOK, BackUp, applyVars, voteMsgs
  <2>5. CASE RecordMatch(m)
    <3>1. nextIndex' \in [Server -> [Server -> Nat]]
          /\ matchIndex' \in [Server -> [Server -> Nat]]
      <4>1. /\ nextIndex' = [nextIndex EXCEPT ![m.to][m.from] = m.last + 1]
            /\ matchIndex' = [matchIndex EXCEPT ![m.to][m.from] = m.last]
        BY <2>5, Zenon DEF RecordMatch
      <4>2. m.last + 1 \in Nat
        BY <2>1
      <4> QED  BY <2>1, <4>1, <4>2, RowUpdateType, Zenon DEF TypeOK
    <3>2. commitIndex' \in [Server -> Nat]
      <4>1. ASSUME NEW mi  PROVE advanceLeaderCommit(m.to, mi) \subseteq Nat
        <5>1. commitIndex[m.to] \in Nat
          BY <2>1 DEF TypeOK
        <5>2. Committable(m.to, mi) \subseteq (commitIndex[m.to] + 1)..LastIndex(log[m.to])
          BY DEF Committable
        <5>3. Committable(m.to, mi) \subseteq Nat
          BY <5>1, <5>2
        <5> QED  BY <5>1, <5>3 DEF advanceLeaderCommit
      <4> QED  BY <2>1, <2>5, <4>1 DEF TypeOK, RecordMatch
    <3> QED  BY <2>5, <3>1, <3>2 DEF TypeOK, RecordMatch, applyVars, voteMsgs
  <2> QED  BY <1>3, <2>2, <2>3, <2>4, <2>5 DEF HandleAppendReply
<1> QED  BY <1>1, <1>2, <1>3

\* Submit, ApplyLoop, restarts and failing calls keep every variable in its
\* type.
LEMMA OtherTypes ==
    ASSUME TypeOK
    PROVE  /\ \A r \in Server, c \in Command : Submit(r, c) => TypeOK'
           /\ \A r \in Server : ApplyLoop(r) => TypeOK'
           /\ \A r \in Server : Restart(r) => TypeOK'
           /\ CallFails => TypeOK'
<1>1. ASSUME NEW r \in Server, NEW c \in Command, Submit(r, c)  PROVE TypeOK'
  <2>1. Append(log[r], [term |-> term[r], cmd |-> c]) \in Seq(Entry)
    <3>1. log[r] \in Seq(Entry) /\ [term |-> term[r], cmd |-> c] \in Entry
      BY DEF TypeOK, Entry
    <3> QED  BY <3>1, AppendProperties
  <2> QED
    BY <1>1, <2>1 DEF TypeOK, Submit, leaderVars, applyVars, voteMsgs, appendMsgs
<1>2. ASSUME NEW r \in Server, ApplyLoop(r)  PROVE TypeOK'
  <2> DEFINE i == lastApplied[r] + 1
             new == IF Readable(log[r], i) /\ log[r][i].cmd \notin Oversize
                    THEN Append(wal[r], log[r][i].cmd) ELSE wal[r]
  <2>1. i \in Nat \ {0} /\ log[r] \in Seq(Entry) /\ wal[r] \in Seq(Stored)
    BY DEF TypeOK
  <2>2. Readable(log[r], i) => log[r][i].cmd \in Command
    <3>1. ASSUME Readable(log[r], i)  PROVE log[r][i] \in Entry
      BY <2>1, <3>1, ElementOfSeq, LenProperties DEF Readable, LastIndex
    <3> QED  BY <3>1 DEF Entry
  <2>3. new \in Seq(Stored)
    BY <2>1, <2>2 DEF Stored
  <2>4. wal' = [wal EXCEPT ![r] = new] /\ lastApplied' = [lastApplied EXCEPT ![r] = i]
    BY <1>2 DEF ApplyLoop
  <2> HIDE DEF i, new
  <2>5. wal' \in [Server -> Seq(Stored)] /\ lastApplied' \in [Server -> Nat]
    BY <2>1, <2>3, <2>4 DEF TypeOK
  <2> QED
    BY <1>2, <2>5 DEF TypeOK, ApplyLoop, leaderVars, voteMsgs, appendMsgs
<1>3. ASSUME NEW r \in Server, Restart(r)  PROVE TypeOK'
  <2>1. PICK k \in 0..Len(wal[r]) : \E holes \in SUBSET (1..k) :
          /\ wal' = [wal EXCEPT ![r] = AfterLoss(@, k, holes)]
          /\ lastApplied' = [lastApplied EXCEPT ![r] = k]
          /\ commitIndex' = [commitIndex EXCEPT ![r] = k]
    BY <1>3 DEF Restart, SetLastApplied
  <2>2. k \in Nat /\ \A holes : AfterLoss(wal[r], k, holes) \in Seq(Stored)
    BY LenProperties, LossProperties DEF TypeOK
  <2>3. /\ wal' \in [Server -> Seq(Stored)]
        /\ lastApplied' \in [Server -> Nat]
        /\ commitIndex' \in [Server -> Nat]
    BY <2>1, <2>2 DEF TypeOK
  <2>4. /\ state' \in [Server -> {Follower, Candidate, Leader}]
        /\ term' \in [Server -> Nat]
        /\ votedFor' \in [Server -> Server \cup {Nil}]
        /\ faults' \in Nat
    BY <1>3, SMTT(90) DEF TypeOK, Restart
  <2>5. /\ nextIndex' \in [Server -> [Server -> Nat]]
        /\ matchIndex' \in [Server -> [Server -> Nat]]
    <3>1. [p \in Server |-> 0] \in [Server -> Nat]
      OBVIOUS
    <3> QED  BY <1>3, <3>1 DEF TypeOK, Restart
  <2>6. votes' \in [Server -> SUBSET Server] /\ heartbeats' \in [Server -> SUBSET Nat]
    BY <1>3 DEF TypeOK, Restart
  <2>7. voteReqs' \subseteq VoteReq
    <3>1. ASSUME NEW m \in VoteReq
          PROVE  [m EXCEPT !.alive = @ /\ m.from # r] \in VoteReq
      BY DEF VoteReq
    <3> QED  BY <1>3, <3>1, SMTT(90) DEF TypeOK, Restart, AfterCrash
  <2>8. appendReqs' \subseteq AppendReq
    <3>1. ASSUME NEW m \in AppendReq
          PROVE  [m EXCEPT !.alive = @ /\ m.from # r] \in AppendReq
      BY DEF AppendReq
    <3> QED  BY <1>3, <3>1, SMTT(90) DEF TypeOK, Restart, AfterCrash
  <2>9. voteResps' \subseteq VoteResp /\ appendResps' \subseteq AppendResp
    BY <1>3 DEF TypeOK, Restart
  <2> QED
    BY <1>3, <2>3, <2>4, <2>5, <2>6, <2>7, <2>8, <2>9 DEF TypeOK, Restart
<1>4. ASSUME CallFails  PROVE TypeOK'
  <2>1. ASSUME NEW m \in AppendReq  PROVE [m EXCEPT !.alive = FALSE] \in AppendReq
    BY DEF AppendReq
  <2>2. appendReqs' \subseteq AppendReq /\ appendResps' \subseteq AppendResp
    BY <1>4, <2>1 DEF TypeOK, CallFails
  <2>3. faults' \in Nat
    BY <1>4 DEF TypeOK, CallFails
  <2> QED
    BY <1>4, <2>2, <2>3 DEF TypeOK, CallFails, leaderVars, applyVars, voteMsgs
<1> QED  BY <1>1, <1>2, <1>3, <1>4

\* NewRaft on empty storage starts well typed.
LEMMA InitTypes == Init => TypeOK
<1> SUFFICES ASSUME Init PROVE TypeOK
  OBVIOUS
<1>1. <<>> \in Seq(Entry) /\ <<>> \in Seq(Command)
  OBVIOUS
<1>2. [p \in Server |-> 0] \in [Server -> Nat]
  OBVIOUS
<1> QED  BY <1>1, <1>2 DEF Init, TypeOK

\* Every step of the group keeps every variable in its type.
LEMMA TypeStep == TypeOK /\ [Next]_vars => TypeOK'
<1> SUFFICES ASSUME TypeOK, [Next]_vars PROVE TypeOK'
  OBVIOUS
<1>1. CASE Next
  BY <1>1, ElectionTypes, ReplicationTypes, OtherTypes DEF Next
<1>2. CASE UNCHANGED vars
  BY <1>2 DEF vars, TypeOK
<1> QED  BY <1>1, <1>2

\* Every variable keeps its type in every reachable state.
THEOREM TypeCorrect == Spec => []TypeOK
BY InitTypes, TypeStep, PTL DEF Spec

-----------------------------------------------------------------------------
(* Election safety.  The argument: a vote counted from a peer is in that   *)
(* peer's file, and the file only moves forward, so a peer that two        *)
(* leaders of a term have counted would have voted twice in one file.  The *)
(* leader's own vote may be missing from its file, but it is in memory for *)
(* as long as it leads.                                                    *)

Votes ==
    /\ VotesOnDisk
    /\ OneBallotPerTerm
    /\ FileBehindMemory
    /\ VotesForItself
    /\ LeaderHasMajority

electionVars == <<state, term, votedFor, stateFile, votes, voteResps>>

\* A file is replaced only by a later term, or by the same term with the
\* vote it holds, if any.
FileGrows ==
    \A p \in Server :
        \/ stateFile'[p] = stateFile[p]
        \/ stateFile'[p].term > stateFile[p].term
        \/ /\ stateFile'[p].term = stateFile[p].term
           /\ stateFile[p].votedFor \in {Nil, stateFile'[p].votedFor}

\* When files grow, promises are kept.
LEMMA PromiseKept ==
    ASSUME TypeOK, TypeOK', FileGrows,
           NEW p \in Server, NEW c \in Server, NEW t \in Nat, Promised(p, c, t)
    PROVE  Promised(p, c, t)'
<1>1. /\ stateFile[p].term \in Nat /\ stateFile'[p].term \in Nat
  BY DEF TypeOK
<1>2. c # Nil
  BY ServerAssumption
<1> QED  BY <1>1, <1>2 DEF FileGrows, Promised

\* Ballots, as a function of the variables it reads.
CountedFor(te, vo, c) ==
    {[voter |-> p, candidate |-> c, term |-> te[c]] : p \in vo[c] \ {c}}

Replied(resps) ==
    {[voter |-> m.from, candidate |-> m.to, term |-> m.savedTerm] :
        m \in {n \in resps : n.granted}}

BallotsOf(st, te, vo, resps) ==
    (UNION {CountedFor(te, vo, c) : c \in {r \in Server : st[r] # Follower}})
    \cup Replied(resps)

IsBallot(st, te, vo, resps, x) ==
    \/ \E c \in Server : \E p \in vo[c] \ {c} :
          st[c] # Follower /\ x = [voter |-> p, candidate |-> c, term |-> te[c]]
    \/ \E m \in resps :
          /\ m.granted
          /\ x = [voter |-> m.from, candidate |-> m.to, term |-> m.savedTerm]

\* What a ballot is: a vote that has been counted, or a granting reply.
LEMMA BallotMeaning ==
    ASSUME NEW st, NEW te, NEW vo, NEW resps, NEW x
    PROVE  x \in BallotsOf(st, te, vo, resps) <=> IsBallot(st, te, vo, resps, x)
<1> DEFINE all == UNION {CountedFor(te, vo, c) : c \in {r \in Server : st[r] # Follower}}
<1>1. x \in BallotsOf(st, te, vo, resps) <=> x \in all \/ x \in Replied(resps)
  BY Zenon DEF BallotsOf
<1>2. ASSUME NEW c
      PROVE  x \in CountedFor(te, vo, c) <=>
               \E p \in vo[c] \ {c} : x = [voter |-> p, candidate |-> c, term |-> te[c]]
  BY DEF CountedFor
<1>3. x \in all <=> \E c \in Server : st[c] # Follower /\ x \in CountedFor(te, vo, c)
  OBVIOUS
<1>4. x \in Replied(resps) <=>
        \E m \in resps :
          /\ m.granted
          /\ x = [voter |-> m.from, candidate |-> m.to, term |-> m.savedTerm]
  BY Zenon DEF Replied
<1> HIDE DEF all
<1> QED  BY <1>1, <1>2, <1>3, <1>4, Zenon DEF IsBallot

\* The set of ballots, by its two sources.
LEMMA BallotsAre ==
    /\ Ballots = BallotsOf(state, term, votes, voteResps)
    /\ Ballots' = BallotsOf(state', term', votes', voteResps')
BY Zenon DEF Ballots, BallotsOf, CountedFor, Replied

\* A vote counted by a server that is no follower is a ballot.
LEMMA CountedBallot ==
    ASSUME NEW c \in Server, NEW p \in votes[c] \ {c}, state[c] # Follower
    PROVE  [voter |-> p, candidate |-> c, term |-> term[c]] \in Ballots
BY BallotMeaning, BallotsAre, Zenon DEF IsBallot

\* A granting reply on its way is a ballot.
LEMMA SentBallot ==
    ASSUME NEW m \in voteResps, m.granted
    PROVE  [voter |-> m.from, candidate |-> m.to, term |-> m.savedTerm] \in Ballots
BY BallotMeaning, BallotsAre, Zenon DEF IsBallot

\* What a ballot of the next state is.
LEMMA NextBallot ==
    ASSUME NEW x \in Ballots'
    PROVE  IsBallot(state', term', votes', voteResps', x)
BY BallotMeaning, BallotsAre, Zenon

\* A step whose counted votes were ballots before, and which sends no reply,
\* casts no ballot.
LEMMA FewerBallots ==
    ASSUME \A q \in Server : \A p \in votes'[q] \ {q} : state'[q] # Follower =>
               [voter |-> p, candidate |-> q, term |-> term'[q]] \in Ballots,
           voteResps' \subseteq voteResps
    PROVE  Ballots' \subseteq Ballots
<1> SUFFICES ASSUME NEW x \in Ballots' PROVE x \in Ballots
  OBVIOUS
<1>1. IsBallot(state', term', votes', voteResps', x)
  BY NextBallot
<1>2. CASE \E m \in voteResps' :
             m.granted /\ x = [voter |-> m.from, candidate |-> m.to, term |-> m.savedTerm]
  BY <1>2, SentBallot
<1>3. CASE \E c \in Server : \E p \in votes'[c] \ {c} :
             state'[c] # Follower /\ x = [voter |-> p, candidate |-> c, term |-> term'[c]]
  BY <1>3
<1> QED  BY <1>1, <1>2, <1>3 DEF IsBallot

\* A ballot names two servers and a term.
LEMMA BallotType ==
    ASSUME TypeOK, NEW x \in Ballots
    PROVE  x.voter \in Server /\ x.candidate \in Server /\ x.term \in Nat
<1>1. CASE \E c \in Server : \E p \in votes[c] \ {c} :
              x = [voter |-> p, candidate |-> c, term |-> term[c]]
  BY <1>1 DEF TypeOK
<1>2. CASE \E m \in voteResps :
              x = [voter |-> m.from, candidate |-> m.to, term |-> m.savedTerm]
  BY <1>2, SMTT(40) DEF TypeOK, VoteResp
<1>3. IsBallot(state, term, votes, voteResps, x)
  BY BallotMeaning, BallotsAre
<1> QED  BY <1>1, <1>2, <1>3 DEF IsBallot

\* A step that casts no ballot keeps what is known of the ballots there are.
LEMMA BallotsKept ==
    ASSUME TypeOK, TypeOK', Votes, FileGrows, Ballots' \subseteq Ballots
    PROVE  VotesOnDisk' /\ OneBallotPerTerm'
<1>1. ASSUME NEW x \in Ballots'  PROVE Promised(x.voter, x.candidate, x.term)'
  <2>1. Promised(x.voter, x.candidate, x.term)
    BY DEF Votes, VotesOnDisk
  <2>2. x.voter \in Server /\ x.candidate \in Server /\ x.term \in Nat
    BY BallotType
  <2> QED  BY <2>1, <2>2, PromiseKept
<1> QED  BY <1>1 DEF Votes, VotesOnDisk, OneBallotPerTerm

\* Steps that leave the election state alone.
LEMMA NoVotes ==
    ASSUME Votes, UNCHANGED electionVars
    PROVE  Votes'
<1>1. Ballots' = Ballots
  BY DEF electionVars, Ballots
<1> QED
  BY <1>1 DEF Votes, electionVars, VotesOnDisk, OneBallotPerTerm, FileBehindMemory,
              VotesForItself, LeaderHasMajority, Promised

\* Steps whose effect on the election state is becameFollower(t).
LEMMA StepDownVotes ==
    ASSUME TypeOK, TypeOK', Votes, NEW r \in Server, NEW t \in Nat,
           becameFollower(r, t), votes' = votes, voteResps' \subseteq voteResps
    PROVE  Votes'
<1>1. PICK ok \in PersistOutcomes(r) :
         stateFile' = [stateFile EXCEPT ![r] = FileAfterAdopting(r, t, ok)]
  BY DEF becameFollower
<1>2. /\ state' = [state EXCEPT ![r] = Follower]
      /\ term' = [term EXCEPT ![r] = TermAfter(r, t)]
      /\ votedFor' = [votedFor EXCEPT ![r] = VoteAfter(r, t)]
  BY DEF becameFollower
<1>3. \A p \in Server : stateFile[p].term \in Nat /\ term[p] \in Nat
  BY DEF TypeOK
<1>4. FileBehindMemory
  BY DEF Votes
<1>5. \/ stateFile'[r] = stateFile[r]
      \/ t > term[r] /\ stateFile'[r] = [term |-> t, votedFor |-> Nil]
  BY <1>1 DEF TypeOK, FileAfterAdopting, FileAfter
<1>6. \A p \in Server \ {r} : /\ stateFile'[p] = stateFile[p] /\ term'[p] = term[p]
                             /\ votedFor'[p] = votedFor[p] /\ state'[p] = state[p]
  BY <1>1, <1>2 DEF TypeOK
<1>7. term'[r] = TermAfter(r, t) /\ votedFor'[r] = VoteAfter(r, t) /\ state'[r] = Follower
  BY <1>2 DEF TypeOK
<1>8. FileGrows
  BY <1>3, <1>4, <1>5, <1>6 DEF FileGrows, FileBehindMemory
<1>9. Ballots' \subseteq Ballots
  <2>1. ASSUME NEW q \in Server, NEW p \in votes'[q] \ {q}, state'[q] # Follower
        PROVE  [voter |-> p, candidate |-> q, term |-> term'[q]] \in Ballots
    <3>1. q # r /\ state[q] # Follower /\ term'[q] = term[q] /\ p \in votes[q] \ {q}
      BY <2>1, <1>6, <1>7
    <3> QED  BY <3>1, CountedBallot
  <2> QED  BY <2>1, FewerBallots
<1>10. FileBehindMemory'
  <2>1. ASSUME NEW p \in Server
        PROVE  /\ stateFile'[p].term <= term'[p]
               /\ stateFile'[p].term = term'[p] /\ stateFile'[p].votedFor # Nil =>
                     votedFor'[p] = stateFile'[p].votedFor
    <3>1. CASE p # r
      BY <3>1, <1>4, <1>6 DEF FileBehindMemory
    <3>2. CASE p = r
      BY <3>2, <1>3, <1>4, <1>5, <1>7 DEF FileBehindMemory, TermAfter, VoteAfter
    <3> QED  BY <3>1, <3>2
  <2> QED  BY <2>1 DEF FileBehindMemory
<1>11. VotesForItself' /\ LeaderHasMajority'
  BY <1>6, <1>7 DEF Votes, VotesForItself, LeaderHasMajority, Leader, Follower
<1> QED  BY <1>8, <1>9, <1>10, <1>11, BallotsKept DEF Votes

\* startElection moves to a new term with only its own vote.
LEMMA StartElectionVotes ==
    ASSUME TypeOK, TypeOK', Votes, NEW r \in Server, startElection(r)
    PROVE  Votes'
<1>1. PICK ok \in PersistOutcomes(r) :
         stateFile' = [stateFile EXCEPT ![r] = FileAfter(r, term[r] + 1, r, ok)]
  BY DEF startElection
<1>2. \A p \in Server : stateFile[p].term \in Nat /\ term[p] \in Nat
  BY DEF TypeOK
<1>3. FileBehindMemory
  BY DEF Votes
<1>4. \/ stateFile'[r] = stateFile[r]
      \/ stateFile'[r] = [term |-> term[r] + 1, votedFor |-> r]
  BY <1>1 DEF TypeOK, FileAfter
<1>5. \A p \in Server \ {r} : /\ stateFile'[p] = stateFile[p] /\ term'[p] = term[p]
                             /\ votedFor'[p] = votedFor[p] /\ state'[p] = state[p]
                             /\ votes'[p] = votes[p]
  BY <1>1 DEF TypeOK, startElection
<1>6. /\ term'[r] = term[r] + 1 /\ votedFor'[r] = r /\ state'[r] = Candidate
      /\ votes'[r] = {r} /\ voteResps' = voteResps
  BY DEF TypeOK, startElection
<1>7. FileGrows
  BY <1>2, <1>3, <1>4, <1>5 DEF FileGrows, FileBehindMemory
<1>8. Ballots' \subseteq Ballots
  <2>1. ASSUME NEW q \in Server, NEW p \in votes'[q] \ {q}, state'[q] # Follower
        PROVE  [voter |-> p, candidate |-> q, term |-> term'[q]] \in Ballots
    <3>1. q # r
      BY <2>1, <1>6
    <3>2. state[q] # Follower /\ term'[q] = term[q] /\ p \in votes[q] \ {q}
      BY <3>1, <2>1, <1>5
    <3> QED  BY <3>2, CountedBallot
  <2> QED  BY <2>1, <1>6, FewerBallots
<1>9. FileBehindMemory'
  <2>1. ASSUME NEW p \in Server
        PROVE  /\ stateFile'[p].term <= term'[p]
               /\ stateFile'[p].term = term'[p] /\ stateFile'[p].votedFor # Nil =>
                     votedFor'[p] = stateFile'[p].votedFor
    <3>1. CASE p # r
      BY <3>1, <1>3, <1>5 DEF FileBehindMemory
    <3>2. CASE p = r
      BY <3>2, <1>2, <1>3, <1>4, <1>6 DEF FileBehindMemory
    <3> QED  BY <3>1, <3>2
  <2> QED  BY <2>1 DEF FileBehindMemory
<1>10. VotesForItself' /\ LeaderHasMajority'
  BY <1>5, <1>6 DEF Votes, VotesForItself, LeaderHasMajority, Leader, Candidate
<1> QED  BY <1>7, <1>8, <1>9, <1>10, BallotsKept DEF Votes

\* HandleRequestVote writes a vote before it answers with one.
LEMMA RequestVoteVotes ==
    ASSUME TypeOK, TypeOK', Votes, NEW m \in voteReqs, HandleRequestVote(m)
    PROVE  Votes'
<1> DEFINE r == m.to
           t == TermAfter(m.to, m.term)
<1>1. m \in VoteReq /\ r \in Server /\ m.from \in Server /\ m.term \in Nat
  BY DEF TypeOK, VoteReq
<1>2. PICK adopted, saved \in PersistOutcomes(r) :
        /\ stateFile' = [stateFile EXCEPT ![r] =
              IF MayGrant(m) /\ saved
              THEN FileAfter(r, t, m.from, saved)
              ELSE FileAfterAdopting(r, m.term, adopted)]
        /\ voteResps' = voteResps \cup
              Answer(m, [from |-> r, to |-> m.from, savedTerm |-> m.term,
                         term |-> t, granted |-> MayGrant(m) /\ saved])
  BY DEF HandleRequestVote
<1>3. \A p \in Server : stateFile[p].term \in Nat /\ term[p] \in Nat
  BY DEF TypeOK
<1>4. FileBehindMemory
  BY DEF Votes
<1>5. \A p \in Server \ {r} : /\ stateFile'[p] = stateFile[p] /\ term'[p] = term[p]
                             /\ votedFor'[p] = votedFor[p] /\ state'[p] = state[p]
  BY <1>1, <1>2, SMTT(90) DEF TypeOK, HandleRequestVote
<1>6. /\ term'[r] = t
      /\ votedFor'[r] = (IF MayGrant(m) THEN m.from ELSE VoteAfter(r, m.term))
      /\ state'[r] = (IF m.term > term[r] THEN Follower ELSE state[r])
      /\ votes' = votes
  BY <1>1, ZenonT(40) DEF TypeOK, HandleRequestVote
<1>7. \/ /\ MayGrant(m) /\ saved
         /\ stateFile'[r] = [term |-> t, votedFor |-> m.from]
      \/ /\ ~(MayGrant(m) /\ saved)
         /\ \/ stateFile'[r] = stateFile[r]
            \/ m.term > term[r] /\ stateFile'[r] = [term |-> m.term, votedFor |-> Nil]
  <2>1. CASE MayGrant(m) /\ saved
    BY <2>1, <1>1, <1>2 DEF TypeOK, FileAfter
  <2>2. CASE ~(MayGrant(m) /\ saved)
    BY <2>2, <1>1, <1>2 DEF TypeOK, FileAfter, FileAfterAdopting
  <2> QED  BY <2>1, <2>2
<1>8. MayGrant(m) => /\ t = m.term /\ m.term >= term[r]
                     /\ m.term = term[r] => votedFor[r] \in {Nil, m.from}
  BY <1>1, <1>3 DEF MayGrant, TermAfter, VoteAfter
<1>9. t \in Nat /\ t >= term[r] /\ t >= m.term /\ (m.term > term[r] => t = m.term)
      /\ (~(m.term > term[r]) => t = term[r])
  BY <1>1, <1>3 DEF TermAfter
<1> HIDE DEF r, t
<1>10. FileGrows
  <2>1. CASE MayGrant(m) /\ saved
    BY <2>1, <1>1, <1>3, <1>4, <1>5, <1>7, <1>8, <1>9 DEF FileGrows, FileBehindMemory
  <2>2. CASE ~(MayGrant(m) /\ saved)
    BY <2>2, <1>1, <1>3, <1>4, <1>5, <1>7 DEF FileGrows, FileBehindMemory
  <2> QED  BY <2>1, <2>2
<1>11. VotesOnDisk' /\ OneBallotPerTerm'
  <2> DEFINE new == [voter |-> r, candidate |-> m.from, term |-> m.term]
  <2>1. ASSUME NEW x \in Ballots'
        PROVE  \/ x \in Ballots
               \/ x = new /\ MayGrant(m) /\ saved
    <3>1. ASSUME NEW q \in Server, NEW p \in votes'[q] \ {q}, state'[q] # Follower
          PROVE  [voter |-> p, candidate |-> q, term |-> term'[q]] \in Ballots
      <4>1. state[q] # Follower /\ term'[q] = term[q] /\ p \in votes[q] \ {q}
        BY <3>1, <1>1, <1>3, <1>5, <1>6, <1>9
      <4> QED  BY <4>1, CountedBallot
    <3>2. ASSUME NEW n \in voteResps', n.granted, n \notin voteResps
          PROVE  /\ [voter |-> n.from, candidate |-> n.to, term |-> n.savedTerm] = new
                 /\ MayGrant(m) /\ saved
      <4>1. n = [from |-> r, to |-> m.from, savedTerm |-> m.term,
                 term |-> t, granted |-> MayGrant(m) /\ saved]
        BY <3>2, <1>2 DEF Answer
      <4>2. n.from = r /\ n.to = m.from /\ n.savedTerm = m.term
        BY <4>1
      <4>3. MayGrant(m) /\ saved
        BY <4>1, <3>2
      <4> QED  BY <4>2, <4>3
    <3>3. IsBallot(state', term', votes', voteResps', x)
      BY NextBallot
    <3> HIDE DEF new
    <3> QED  BY <3>1, <3>2, <3>3, SentBallot DEF IsBallot
  <2>2. ASSUME NEW x \in Ballots
        PROVE  Promised(x.voter, x.candidate, x.term)'
    <3>1. Promised(x.voter, x.candidate, x.term)
      BY DEF Votes, VotesOnDisk
    <3>2. x.voter \in Server /\ x.candidate \in Server /\ x.term \in Nat
      BY BallotType
    <3> QED  BY <3>1, <3>2, <1>10, PromiseKept
  <2>3. MayGrant(m) /\ saved =>
            /\ stateFile'[r].term = m.term /\ stateFile'[r].votedFor = m.from
            /\ Promised(r, m.from, m.term)'
    BY <1>1, <1>7, <1>8 DEF Promised
  <2>4. new.voter = r /\ new.candidate = m.from /\ new.term = m.term
    OBVIOUS
  <2> HIDE DEF new
  <2>5. VotesOnDisk'
    BY <2>1, <2>2, <2>3, <2>4 DEF VotesOnDisk
  <2>6. ASSUME NEW x \in Ballots, x.voter = r, x.term = m.term, MayGrant(m), saved
        PROVE  x.candidate = m.from
    BY <2>2, <2>3, <2>6 DEF Promised
  <2>7. OneBallotPerTerm'
    BY <2>1, <2>4, <2>6 DEF OneBallotPerTerm, Votes
  <2> QED  BY <2>5, <2>7
<1>12. FileBehindMemory'
  <2>1. ASSUME NEW p \in Server
        PROVE  /\ stateFile'[p].term <= term'[p]
               /\ stateFile'[p].term = term'[p] /\ stateFile'[p].votedFor # Nil =>
                     votedFor'[p] = stateFile'[p].votedFor
    <3>1. CASE p # r
      BY <3>1, <1>4, <1>5 DEF FileBehindMemory
    <3>2. CASE p = r /\ MayGrant(m) /\ saved
      BY <3>2, <1>6, <1>7, <1>9
    <3>3. CASE p = r /\ MayGrant(m) /\ ~saved
      BY <3>3, <1>3, <1>4, <1>6, <1>7, <1>8, <1>9 DEF FileBehindMemory
    <3>4. CASE p = r /\ ~MayGrant(m)
      BY <3>4, <1>3, <1>4, <1>6, <1>7, <1>9 DEF FileBehindMemory, VoteAfter, r
    <3> QED  BY <3>1, <3>2, <3>3, <3>4
  <2> QED  BY <2>1 DEF FileBehindMemory
<1>13. VotesForItself'
  <2>1. ASSUME NEW q \in Server, state'[q] # Follower  PROVE votedFor'[q] = q
    <3>1. CASE q # r
      BY <3>1, <2>1, <1>5 DEF Votes, VotesForItself
    <3>2. CASE q = r
      <4>1. ~(m.term > term[r]) /\ state[r] # Follower /\ votedFor[r] = r
        BY <3>2, <2>1, <1>1, <1>6 DEF Votes, VotesForItself
      <4>2. MayGrant(m) => m.from = r
        BY <4>1, <1>1, <1>3, <1>8, ServerAssumption
      <4> QED  BY <3>2, <4>1, <4>2, <1>6 DEF VoteAfter, r
    <3> QED  BY <3>1, <3>2
  <2> QED  BY <2>1 DEF VotesForItself
<1>14. LeaderHasMajority'
  BY <1>1, <1>5, <1>6 DEF Votes, LeaderHasMajority, Leader, Follower
<1> QED  BY <1>11, <1>12, <1>13, <1>14 DEF Votes

\* A counted vote was promised to the candidate that counts it.
LEMMA CountVoteVotes ==
    ASSUME TypeOK, TypeOK', Votes, NEW m \in voteResps, CountVote(m)
    PROVE  Votes'
<1> DEFINE r == m.to
           counted == IF m.term = m.savedTerm /\ m.granted
                      THEN votes[r] \cup {m.from} ELSE votes[r]
<1>1. m \in VoteResp /\ r \in Server /\ m.from \in Server /\ m.savedTerm \in Nat
  BY DEF TypeOK, VoteResp
<1>2. /\ state[r] = Candidate /\ term[r] = m.savedTerm
      /\ votes' = [votes EXCEPT ![r] = counted]
      /\ voteResps' = voteResps \ {m}
      /\ term' = term /\ votedFor' = votedFor /\ stateFile' = stateFile
  BY DEF CountVote
<1>3. \A p \in Server \ {r} : votes'[p] = votes[p] /\ state'[p] = state[p]
  <2>1. state' = [state EXCEPT ![r] = Leader] \/ state' = state
    BY DEF CountVote, becameLeader
  <2>2. votes \in [Server -> SUBSET Server] /\ DOMAIN state = Server
    BY DEF TypeOK
  <2>3. votes' = [votes EXCEPT ![r] = counted]
    BY <1>2
  <2> HIDE DEF counted, r
  <2> QED  BY <2>1, <2>2, <2>3
<1>4. votes'[r] = counted /\ state[r] # Follower
  BY <1>1, <1>2 DEF TypeOK, Follower, Candidate
<1>5. state'[r] = Leader => IsMajority(Cardinality(votes'[r]))
  <2>1. \/ IsMajority(Cardinality(counted))
        \/ state' = state
    BY DEF CountVote
  <2> QED  BY <2>1, <1>2, <1>4 DEF Leader, Candidate
<1>6. Ballots' \subseteq Ballots
  <2>1. ASSUME NEW q \in Server, NEW p \in votes'[q] \ {q}, state'[q] # Follower
        PROVE  [voter |-> p, candidate |-> q, term |-> term'[q]] \in Ballots
    <3>1. CASE p \in votes[q]
      <4>1. state[q] # Follower
        BY <2>1, <1>3, <1>4
      <4> QED  BY <2>1, <3>1, <4>1, <1>2, CountedBallot
    <3>2. CASE p \notin votes[q]
      <4>1. q = r /\ p = m.from /\ m.granted
        BY <2>1, <3>2, <1>3, <1>4
      <4> QED  BY <4>1, <1>2, SentBallot
    <3> QED  BY <3>1, <3>2
  <2> QED  BY <2>1, <1>2, FewerBallots
<1>7. FileGrows
  BY <1>2 DEF FileGrows
<1>8. FileBehindMemory'
  BY <1>2 DEF Votes, FileBehindMemory
<1>9. VotesForItself'
  BY <1>2, <1>3, <1>4 DEF Votes, VotesForItself
<1>10. LeaderHasMajority'
  BY <1>3, <1>5 DEF Votes, LeaderHasMajority
<1> QED  BY <1>6, <1>8, <1>9, <1>10, <1>7, BallotsKept DEF Votes

\* A restart makes memory equal to the file and drops every vote received.
LEMMA RestartVotes ==
    ASSUME TypeOK, TypeOK', Votes, NEW r \in Server, Restart(r)
    PROVE  Votes'
<1>1. stateFile' = stateFile /\ voteResps' \subseteq voteResps
  BY DEF Restart
<1>2. \A p \in Server \ {r} : /\ term'[p] = term[p] /\ votedFor'[p] = votedFor[p]
                             /\ state'[p] = state[p] /\ votes'[p] = votes[p]
  BY DEF TypeOK, Restart
<1>3. /\ term'[r] = stateFile[r].term /\ votedFor'[r] = stateFile[r].votedFor
      /\ state'[r] = Follower
  BY DEF TypeOK, Restart
<1>4. Ballots' \subseteq Ballots
  <2>1. ASSUME NEW q \in Server, NEW p \in votes'[q] \ {q}, state'[q] # Follower
        PROVE  [voter |-> p, candidate |-> q, term |-> term'[q]] \in Ballots
    <3>1. q # r
      BY <2>1, <1>3
    <3> QED  BY <2>1, <3>1, <1>2, CountedBallot
  <2> QED  BY <2>1, <1>1, FewerBallots
<1>5. FileGrows
  BY <1>1 DEF FileGrows
<1>6. FileBehindMemory'
  <2>1. \A p \in Server : stateFile[p].term \in Nat
    BY DEF TypeOK
  <2> QED  BY <2>1, <1>1, <1>2, <1>3 DEF Votes, FileBehindMemory
<1>7. VotesForItself' /\ LeaderHasMajority'
  BY <1>2, <1>3 DEF Votes, VotesForItself, LeaderHasMajority, Leader, Follower
<1> QED  BY <1>4, <1>6, <1>7, <1>5, BallotsKept DEF Votes

\* Every step preserves the part of ElectionInv that speaks of votes.
LEMMA VotesStep == TypeOK /\ TypeOK' /\ Votes /\ [Next]_vars => Votes'
<1> SUFFICES ASSUME TypeOK, TypeOK', Votes, [Next]_vars PROVE Votes'
  OBVIOUS
<1>1. CASE UNCHANGED vars
  BY <1>1, NoVotes DEF vars, electionVars
<1>2. ASSUME NEW r \in Server, startElection(r)  PROVE Votes'
  BY <1>2, StartElectionVotes
<1>3. ASSUME NEW r \in Server, NEW p \in Peers(r), NEW t \in heartbeats[r],
             replicateToPeer(r, p, t)
      PROVE  Votes'
  BY <1>3, NoVotes DEF replicateToPeer, electionVars, voteMsgs
<1>4. ASSUME NEW r \in Server, NEW c \in Command, Submit(r, c)  PROVE Votes'
  BY <1>4, NoVotes DEF Submit, electionVars, voteMsgs
<1>5. ASSUME NEW r \in Server, ApplyLoop(r)  PROVE Votes'
  BY <1>5, NoVotes DEF ApplyLoop, electionVars, voteMsgs
<1>6. ASSUME NEW r \in Server, Restart(r)  PROVE Votes'
  BY <1>6, RestartVotes
<1>7. ASSUME NEW m \in voteReqs, HandleRequestVote(m)  PROVE Votes'
  BY <1>7, RequestVoteVotes
<1>8. ASSUME NEW m \in voteResps, IgnoreVoteReply(m) \/ LoseElection(m) \/ CountVote(m)
      PROVE  Votes'
  <2>1. m.to \in Server /\ m.term \in Nat
    BY DEF TypeOK, VoteResp
  <2>2. CASE IgnoreVoteReply(m)
    <3>1. Ballots' \subseteq Ballots
      BY <2>2 DEF IgnoreVoteReply, Ballots
    <3> QED
      BY <2>2, <3>1 DEF Votes, IgnoreVoteReply, VotesOnDisk, OneBallotPerTerm,
          FileBehindMemory, VotesForItself, LeaderHasMajority, Promised
  <2>3. CASE LoseElection(m)
    <3>1. becameFollower(m.to, m.term) /\ votes' = votes /\ voteResps' \subseteq voteResps
      BY <2>3 DEF LoseElection
    <3> QED  BY <2>1, <3>1, StepDownVotes
  <2>4. CASE CountVote(m)
    BY <2>4, CountVoteVotes
  <2> QED  BY <1>8, <2>2, <2>3, <2>4
<1>9. ASSUME NEW m \in appendReqs, HandleAppendEntries(m)  PROVE Votes'
  <2>1. m.to \in Server /\ m.term \in Nat
    BY DEF TypeOK, AppendReq
  <2>2. CASE RefuseStaleAppend(m)
    BY <2>2, NoVotes DEF RefuseStaleAppend, electionVars, voteMsgs
  <2>3. CASE RefuseMismatch(m) \/ AcceptEntries(m) \/ InterruptedAppend(m)
    <3>1. becameFollower(m.to, m.term) /\ votes' = votes /\ voteResps' \subseteq voteResps
      BY <2>3 DEF RefuseMismatch, AcceptEntries, InterruptedAppend, voteMsgs
    <3> QED  BY <2>1, <3>1, StepDownVotes
  <2> QED  BY <1>9, <2>2, <2>3 DEF HandleAppendEntries
<1>10. ASSUME NEW m \in appendResps, HandleAppendReply(m)  PROVE Votes'
  <2>1. m.to \in Server /\ m.term \in Nat
    BY DEF TypeOK, AppendResp
  <2>2. CASE IgnoreAppendReply(m) \/ BackUp(m) \/ RecordMatch(m)
    BY <2>2, NoVotes DEF IgnoreAppendReply, BackUp, RecordMatch, electionVars, voteMsgs
  <2>3. CASE StepDownOnReply(m)
    <3>1. becameFollower(m.to, m.term) /\ votes' = votes /\ voteResps' \subseteq voteResps
      BY <2>3 DEF StepDownOnReply, voteMsgs
    <3> QED  BY <2>1, <3>1, StepDownVotes
  <2> QED  BY <1>10, <2>2, <2>3 DEF HandleAppendReply
<1>11. CASE CallFails
  BY <1>11, NoVotes DEF CallFails, electionVars, voteMsgs
<1> QED
  BY <1>1, <1>2, <1>3, <1>4, <1>5, <1>6, <1>7, <1>8, <1>9, <1>10, <1>11 DEF Next

\* Two majorities share a voter, and a voter is promised to one candidate.
LEMMA VotesElect == TypeOK /\ Votes => ElectionSafety
<1> SUFFICES ASSUME TypeOK, Votes, NEW a \in Server, NEW b \in Server,
                    state[a] = Leader, state[b] = Leader, term[a] = term[b], a # b
             PROVE  FALSE
  BY DEF ElectionSafety
<1>1. IsFiniteSet(Server) /\ votes[a] \subseteq Server /\ votes[b] \subseteq Server
  BY ServerAssumption DEF TypeOK
<1>2. /\ Cardinality(Server) \in Nat
      /\ Cardinality(votes[a]) \in Nat /\ Cardinality(votes[b]) \in Nat
  BY <1>1, FS_CardinalityType, FS_Subset
<1>3. Cardinality(votes[a]) + Cardinality(votes[b]) > Cardinality(Server)
  BY <1>2 DEF Votes, LeaderHasMajority, IsMajority
<1>4. PICK p \in votes[a] : p \in votes[b]
  BY <1>1, <1>3, FS_MajoritiesIntersect
<1>5. state[a] # Follower /\ state[b] # Follower
  BY DEF Leader, Follower
<1>6. votedFor[a] = a /\ votedFor[b] = b
  BY <1>5 DEF Votes, VotesForItself
<1>7. p \in Server /\ stateFile[p].term \in Nat /\ term[p] \in Nat
  BY <1>1, <1>4 DEF TypeOK
<1> DEFINE x == [voter |-> p, candidate |-> a, term |-> term[a]]
           y == [voter |-> p, candidate |-> b, term |-> term[a]]
<1>8. p # a => x \in Ballots /\ Promised(p, a, term[a])
  <2>1. p # a => x \in Ballots
    BY <1>4, <1>5, CountedBallot
  <2> QED  BY <2>1 DEF Votes, VotesOnDisk
<1>9. p # b => y \in Ballots /\ Promised(p, b, term[a])
  <2>1. p # b => y \in Ballots
    BY <1>4, <1>5, CountedBallot
  <2> QED  BY <2>1 DEF Votes, VotesOnDisk
<1>10. term[a] \in Nat /\ a # Nil /\ b # Nil
  BY ServerAssumption DEF TypeOK
<1>11. stateFile[p].term <= term[p]
       /\ (stateFile[p].term = term[p] /\ stateFile[p].votedFor # Nil =>
              votedFor[p] = stateFile[p].votedFor)
  BY <1>7 DEF Votes, FileBehindMemory
<1>12. CASE p = a
  BY <1>12, <1>6, <1>7, <1>9, <1>10, <1>11 DEF Promised
<1>13. CASE p = b
  BY <1>13, <1>6, <1>7, <1>8, <1>10, <1>11 DEF Promised
<1>14. CASE p # a /\ p # b
  <2>1. x.candidate = y.candidate
    BY <1>14, <1>8, <1>9 DEF Votes, OneBallotPerTerm
  <2> QED  BY <2>1
<1> QED  BY <1>12, <1>13, <1>14

\* ElectionInv holds initially and is preserved by every step.
THEOREM ElectionInvariant == Spec => []ElectionInv
<1>1. Init => ElectionInv
  <2>1. Init => Votes
    BY DEF Init, Ballots, Votes, VotesOnDisk, OneBallotPerTerm, FileBehindMemory, VotesForItself,
           LeaderHasMajority, Leader, Follower
  <2> QED  BY <2>1, InitTypes DEF ElectionInv, Votes
<1>2. ElectionInv /\ [Next]_vars => ElectionInv'
  BY TypeStep, VotesStep DEF ElectionInv, Votes
<1> QED  BY <1>1, <1>2, PTL DEF Spec

\* No two servers ever lead the same term at the same time: for any number of
\* servers, with restarts and with disks that fail to persist raft.state.
THEOREM AtMostOneLeaderPerTerm == Spec => []ElectionSafety
<1>1. ElectionInv => ElectionSafety
  BY VotesElect DEF ElectionInv, Votes
<1> QED  BY <1>1, ElectionInvariant, PTL

-----------------------------------------------------------------------------
(* Votes and terms of servers whose disk works.                            *)

\* becameFollower keeps the file in step with memory, and a vote in its term.
LEMMA BecameFollowerPersists ==
    ASSUME TypeOK, FileIsMemory, NEW r \in Server, NEW t \in Nat, becameFollower(r, t),
           NEW p \in Server \ FailingDisk
    PROVE  /\ stateFile'[p] = [term |-> term'[p], votedFor |-> votedFor'[p]]
           /\ term'[p] >= term[p]
           /\ term'[p] = term[p] => votedFor'[p] = votedFor[p]
<1>1. term[p] \in Nat /\ term[r] \in Nat
  BY DEF TypeOK
<1>2. stateFile[p] = [term |-> term[p], votedFor |-> votedFor[p]]
  BY DEF FileIsMemory
<1>3. CASE p # r
  <2>1. stateFile'[p] = stateFile[p] /\ term'[p] = term[p] /\ votedFor'[p] = votedFor[p]
    BY <1>3 DEF TypeOK, becameFollower
  <2> QED  BY <1>1, <1>2, <2>1
<1>4. CASE p = r
  <2>1. /\ term'[r] = TermAfter(r, t) /\ votedFor'[r] = VoteAfter(r, t)
        /\ stateFile'[r] = FileAfterAdopting(r, t, TRUE)
    BY <1>4 DEF TypeOK, becameFollower, PersistOutcomes
  <2> QED  BY <1>1, <1>2, <1>4, <2>1 DEF TermAfter, VoteAfter, FileAfterAdopting, FileAfter
<1> QED  BY <1>3, <1>4

\* The same for every step: a vote changes only with the term, or from none.
LEMMA FileStep ==
    ASSUME TypeOK, FileIsMemory, [Next]_vars, NEW p \in Server \ FailingDisk
    PROVE  /\ stateFile'[p] = [term |-> term'[p], votedFor |-> votedFor'[p]]
           /\ term'[p] >= term[p]
           /\ term'[p] = term[p] /\ votedFor[p] # Nil => votedFor'[p] = votedFor[p]
<1> DEFINE Goal == /\ stateFile'[p] = [term |-> term'[p], votedFor |-> votedFor'[p]]
                   /\ term'[p] >= term[p]
                   /\ term'[p] = term[p] /\ votedFor[p] # Nil => votedFor'[p] = votedFor[p]
<1>1. term[p] \in Nat /\ stateFile[p] = [term |-> term[p], votedFor |-> votedFor[p]]
  BY DEF TypeOK, FileIsMemory
<1>2. ASSUME stateFile'[p] = stateFile[p], term'[p] = term[p], votedFor'[p] = votedFor[p]
      PROVE  Goal
  BY <1>1, <1>2
<1>3. ASSUME NEW r \in Server, NEW t \in Nat, becameFollower(r, t)  PROVE Goal
  BY <1>3, BecameFollowerPersists
<1>4. ASSUME NEW r \in Server, startElection(r)  PROVE Goal
  <2>1. CASE p # r
    <3>1. stateFile'[p] = stateFile[p] /\ term'[p] = term[p] /\ votedFor'[p] = votedFor[p]
      BY <1>4, <2>1 DEF TypeOK, startElection
    <3> QED  BY <1>2, <3>1
  <2>2. CASE p = r
    <3>1. /\ stateFile'[r] = [term |-> term[r] + 1, votedFor |-> r]
          /\ term'[r] = term[r] + 1 /\ votedFor'[r] = r
      BY <1>4, <2>2 DEF TypeOK, startElection, PersistOutcomes, FileAfter
    <3> QED  BY <1>1, <2>2, <3>1
  <2> QED  BY <2>1, <2>2
<1>5. ASSUME NEW m \in voteReqs, HandleRequestVote(m)  PROVE Goal
  <2>1. m.to \in Server /\ m.term \in Nat
    BY DEF TypeOK, VoteReq
  <2>2. CASE p # m.to
    <3>1. stateFile'[p] = stateFile[p] /\ term'[p] = term[p] /\ votedFor'[p] = votedFor[p]
      BY <1>5, <2>1, <2>2 DEF TypeOK, HandleRequestVote
    <3> QED  BY <1>2, <3>1
  <2>3. CASE p = m.to
    <3>1. /\ term'[p] = TermAfter(p, m.term)
          /\ votedFor'[p] = IF MayGrant(m) THEN m.from ELSE VoteAfter(p, m.term)
      BY <1>5, <2>3 DEF TypeOK, HandleRequestVote
    <3>2. stateFile'[p] = IF MayGrant(m) THEN FileAfter(p, TermAfter(p, m.term), m.from, TRUE)
                          ELSE FileAfterAdopting(p, m.term, TRUE)
      <4>1. PersistOutcomes(p) = {TRUE}
        BY DEF PersistOutcomes
      <4>2. stateFile' = [stateFile EXCEPT ![p] =
                IF MayGrant(m) THEN FileAfter(p, TermAfter(p, m.term), m.from, TRUE)
                ELSE FileAfterAdopting(p, m.term, TRUE)]
        BY <1>5, <2>3, <4>1 DEF HandleRequestVote
      <4> QED  BY <4>2 DEF TypeOK
    <3>3. MayGrant(m) => VoteAfter(p, m.term) \in {Nil, m.from}
      BY <2>3 DEF MayGrant
    <3>4. CASE MayGrant(m)
      BY <1>1, <2>1, <3>1, <3>2, <3>3, <3>4 DEF TermAfter, VoteAfter, FileAfter
    <3>5. CASE ~MayGrant(m)
      BY <1>1, <2>1, <3>1, <3>2, <3>5 DEF TermAfter, VoteAfter, FileAfterAdopting, FileAfter
    <3> QED  BY <3>4, <3>5
  <2> QED  BY <2>2, <2>3
<1>6. ASSUME NEW m \in voteResps, IgnoreVoteReply(m) \/ LoseElection(m) \/ CountVote(m)
      PROVE  Goal
  <2>1. m.to \in Server /\ m.term \in Nat
    BY DEF TypeOK, VoteResp
  <2>2. CASE IgnoreVoteReply(m)
    BY <1>2, <2>2 DEF IgnoreVoteReply
  <2>3. CASE LoseElection(m)
    BY <1>3, <2>1, <2>3 DEF LoseElection
  <2>4. CASE CountVote(m)
    BY <1>2, <2>4 DEF CountVote
  <2> QED  BY <1>6, <2>2, <2>3, <2>4
<1>7. ASSUME NEW m \in appendReqs, HandleAppendEntries(m)  PROVE Goal
  <2>1. m.to \in Server /\ m.term \in Nat
    BY DEF TypeOK, AppendReq
  <2>2. CASE RefuseStaleAppend(m)
    BY <1>2, <2>2 DEF RefuseStaleAppend
  <2>3. CASE RefuseMismatch(m) \/ AcceptEntries(m) \/ InterruptedAppend(m)
    BY <1>3, <2>1, <2>3 DEF RefuseMismatch, AcceptEntries, InterruptedAppend
  <2> QED  BY <1>7, <2>2, <2>3 DEF HandleAppendEntries
<1>8. ASSUME NEW m \in appendResps, HandleAppendReply(m)  PROVE Goal
  <2>1. m.to \in Server /\ m.term \in Nat
    BY DEF TypeOK, AppendResp
  <2>2. CASE IgnoreAppendReply(m) \/ BackUp(m) \/ RecordMatch(m)
    BY <1>2, <2>2 DEF IgnoreAppendReply, BackUp, RecordMatch
  <2>3. CASE StepDownOnReply(m)
    BY <1>3, <2>1, <2>3 DEF StepDownOnReply
  <2> QED  BY <1>8, <2>2, <2>3 DEF HandleAppendReply
<1>9. ASSUME NEW r \in Server, Restart(r)  PROVE Goal
  <2>1. CASE p # r
    <3>1. stateFile'[p] = stateFile[p] /\ term'[p] = term[p] /\ votedFor'[p] = votedFor[p]
      BY <1>9, <2>1 DEF TypeOK, Restart
    <3> QED  BY <1>2, <3>1
  <2>2. CASE p = r
    <3>1. /\ stateFile'[r] = stateFile[r]
          /\ term'[r] = stateFile[r].term /\ votedFor'[r] = stateFile[r].votedFor
      BY <1>9 DEF TypeOK, Restart
    <3> QED  BY <1>1, <2>2, <3>1
  <2> QED  BY <2>1, <2>2
<1>10. ASSUME NEW r \in Server, NEW q \in Peers(r), NEW t \in heartbeats[r],
              replicateToPeer(r, q, t)
       PROVE  Goal
  BY <1>2, <1>10 DEF replicateToPeer
<1>11. ASSUME NEW r \in Server, NEW c \in Command, Submit(r, c)  PROVE Goal
  BY <1>2, <1>11 DEF Submit
<1>12. ASSUME NEW r \in Server, ApplyLoop(r)  PROVE Goal
  BY <1>2, <1>12 DEF ApplyLoop
<1>13. ASSUME CallFails \/ UNCHANGED vars  PROVE Goal
  BY <1>2, <1>13 DEF CallFails, vars
<1> HIDE DEF Goal
<1>14. Goal
  BY <1>4, <1>5, <1>6, <1>7, <1>8, <1>9, <1>10, <1>11, <1>12, <1>13 DEF Next
<1> QED  BY <1>14 DEF Goal

\* No server whose raft.state can be written goes back to an earlier term or
\* changes its vote within one, restarts included.
THEOREM VotesOnce == Spec => VoteOncePerTerm
<1>1. Init => FileIsMemory
  BY DEF Init, FileIsMemory
<1>2. TypeOK /\ FileIsMemory /\ [Next]_vars => FileIsMemory'
  BY FileStep DEF FileIsMemory
<1>3. TypeOK /\ FileIsMemory /\ [Next]_vars =>
        [\A r \in Server \ FailingDisk :
          /\ term'[r] >= term[r]
          /\ (term'[r] = term[r] /\ votedFor[r] # Nil) => votedFor'[r] = votedFor[r]]_vars
  BY FileStep
<1> QED  BY <1>1, <1>2, <1>3, TypeCorrect, PTL DEF Spec, VoteOncePerTerm

-----------------------------------------------------------------------------
(* A leader's own log.                                                     *)

\* Only Submit changes the log of a server that leads after the step: whoever
\* takes entries from somebody else is a follower.
LEMMA LeaderLogStep ==
    ASSUME TypeOK, [Next]_vars, NEW r \in Server, state'[r] = Leader
    PROVE  log'[r] = log[r] \/ \E e \in Entry : log'[r] = Append(log[r], e)
<1>1. ASSUME log' = log  PROVE log'[r] = log[r]
  BY <1>1
<1>2. ASSUME NEW q \in Server, NEW c \in Command, Submit(q, c)
      PROVE  log'[r] = log[r] \/ \E e \in Entry : log'[r] = Append(log[r], e)
  <2>1. [term |-> term[q], cmd |-> c] \in Entry
    BY DEF TypeOK, Entry
  <2>2. log'[r] = log[r] \/ log'[r] = Append(log[r], [term |-> term[q], cmd |-> c])
    BY <1>2 DEF TypeOK, Submit
  <2> QED  BY <2>1, <2>2
<1>3. ASSUME NEW m \in appendReqs, HandleAppendEntries(m)  PROVE log'[r] = log[r]
  <2>1. m.to \in Server
    BY DEF TypeOK, AppendReq
  <2>2. CASE RefuseStaleAppend(m) \/ RefuseMismatch(m)
    BY <2>2 DEF RefuseStaleAppend, RefuseMismatch
  <2>3. CASE AcceptEntries(m) \/ InterruptedAppend(m)
    <3>1. becameFollower(m.to, m.term)
      BY <2>3 DEF AcceptEntries, InterruptedAppend
    <3>2. r # m.to
      BY <2>1, <3>1 DEF TypeOK, becameFollower, Leader, Follower
    <3>3. \E l : log' = [log EXCEPT ![m.to] = l]
      BY <2>3 DEF AcceptEntries, InterruptedAppend
    <3> QED  BY <3>2, <3>3 DEF TypeOK
  <2> QED  BY <1>3, <2>2, <2>3 DEF HandleAppendEntries
<1>4. ASSUME NEW m \in appendResps, HandleAppendReply(m)  PROVE log' = log
  BY <1>4 DEF HandleAppendReply, IgnoreAppendReply, StepDownOnReply, BackUp, RecordMatch
<1>5. ASSUME NEW m \in voteResps, IgnoreVoteReply(m) \/ LoseElection(m) \/ CountVote(m)
      PROVE  log' = log
  BY <1>5 DEF IgnoreVoteReply, LoseElection, CountVote
<1>6. ASSUME NEW m \in voteReqs, HandleRequestVote(m)  PROVE log' = log
  BY <1>6 DEF HandleRequestVote
<1>7. ASSUME NEW q \in Server, startElection(q) \/ ApplyLoop(q) \/ Restart(q)  PROVE log' = log
  BY <1>7 DEF startElection, ApplyLoop, Restart
<1>8. ASSUME NEW q \in Server, NEW p \in Peers(q), NEW t \in heartbeats[q],
             replicateToPeer(q, p, t)
      PROVE  log' = log
  BY <1>8 DEF replicateToPeer
<1>9. ASSUME CallFails \/ UNCHANGED vars  PROVE log' = log
  BY <1>9 DEF CallFails, vars
<1> QED  BY <1>1, <1>2, <1>3, <1>4, <1>5, <1>6, <1>7, <1>8, <1>9 DEF Next

\* A leader never removes or rewrites an entry of its own log.
THEOREM LeaderOnlyAppends == Spec => LeaderAppendOnly
<1>1. TypeOK /\ [Next]_vars =>
        [\A r \in Server :
          state[r] = Leader /\ state'[r] = Leader =>
             /\ Len(log'[r]) >= Len(log[r])
             /\ SubSeq(log'[r], 1, Len(log[r])) = log[r]]_vars
  <2> SUFFICES ASSUME TypeOK, [Next]_vars, NEW r \in Server, state'[r] = Leader
               PROVE  /\ Len(log'[r]) >= Len(log[r])
                      /\ SubSeq(log'[r], 1, Len(log[r])) = log[r]
    OBVIOUS
  <2>1. log[r] \in Seq(Entry)
    BY DEF TypeOK
  <2>2. CASE log'[r] = log[r]
    BY <2>1, <2>2, SubSeqFull, LenProperties
  <2>3. ASSUME NEW e \in Entry, log'[r] = Append(log[r], e)
        PROVE  /\ Len(log'[r]) >= Len(log[r])
               /\ SubSeq(log'[r], 1, Len(log[r])) = log[r]
    <3>1. /\ Append(log[r], e) \in Seq(Entry)
          /\ Len(Append(log[r], e)) = Len(log[r]) + 1 /\ Len(log[r]) \in Nat
          /\ \A i \in 1..Len(log[r]) : Append(log[r], e)[i] = log[r][i]
      BY <2>1, AppendProperties, LenProperties
    <3> QED  BY <2>1, <2>3, <3>1, SubSeqProperties, SeqEqual
  <2> QED  BY <2>2, <2>3, LeaderLogStep
<1> QED  BY <1>1, TypeCorrect, PTL DEF Spec, LeaderAppendOnly

=============================================================================
