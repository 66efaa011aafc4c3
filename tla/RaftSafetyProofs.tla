-------------------------- MODULE RaftSafetyProofs --------------------------
(***************************************************************************)
(* Every step of a Raft group keeps SafetyInv.  A step that sends no       *)
(* request, elects nobody and writes no log is Quiet and keeps the history *)
(* it found; the others extend it: a vote adds to cast, an election sets   *)
(* won[t] and lead[t], an append of the leader extends lead[t] and a       *)
(* successful AppendEntries adds to ack.  The two steps that carry the     *)
(* argument are the election, whose winner holds all that may have been    *)
(* chosen because two majorities meet, and the advance of a commitIndex,   *)
(* which finds a majority of acknowledgements in the leader's own term.    *)
(***************************************************************************)
EXTENDS RaftSafety, RaftGroupProofs

\* Two majorities have a server in common.
LEMMA MajoritiesMeet ==
    ASSUME NEW Q \in Majority, NEW R \in Majority
    PROVE  \E p \in Q : p \in R
<1>1. IsFiniteSet(Server) /\ Q \subseteq Server /\ R \subseteq Server
  BY ServerAssumption DEF Majority
<1>2. /\ Cardinality(Server) \in Nat
      /\ Cardinality(Q) \in Nat /\ Cardinality(R) \in Nat
  BY <1>1, FS_CardinalityType, FS_Subset
<1>3. Cardinality(Q) + Cardinality(R) > Cardinality(Server)
  BY <1>2 DEF Majority, IsMajority
<1> QED  BY <1>1, <1>3, FS_MajoritiesIntersect

\* What was chosen is not lost.
LEMMA ChosenNotLost ==
    ASSUME NEW ack, NEW t, NEW n, Chosen(ack, t, n)
    PROVE  ~Lost(ack, t, n)
BY MajoritiesMeet DEF Chosen, Lost

\* The entries of a log have terms.
LEMMA EntryHasTerm ==
    ASSUME NEW l \in Seq(Entry), NEW i \in 1..Len(l)
    PROVE  l[i] \in Entry /\ l[i].term \in Nat
<1>1. l[i] \in Entry
  BY ElementOfSeq
<1> QED  BY <1>1 DEF Entry

\* The log of a leader is a log.
LEMMA LogOfLeader ==
    ASSUME NEW lead \in LeaderLogs, NEW t \in Nat
    PROVE  lead[t] \in Seq(Entry) /\ Len(lead[t]) \in Nat
<1>1. lead[t] \in Seq(Entry)
  BY DEF LeaderLogs
<1> QED  BY <1>1, LenProperties

\* Agreement is symmetric, transitive and inherited by shorter prefixes.
LEMMA AgreeFacts ==
    ASSUME NEW l \in Seq(Entry), NEW k \in Seq(Entry), NEW j \in Seq(Entry), NEW n \in Nat
    PROVE  /\ n <= Len(l) => Agree(l, l, n)
           /\ Agree(l, k, n) => Agree(k, l, n)
           /\ Agree(l, k, n) /\ Agree(k, j, n) => Agree(l, j, n)
           /\ \A i \in 0..n : Agree(l, k, n) => Agree(l, k, i)
<1>1. Len(l) \in Nat /\ Len(k) \in Nat /\ Len(j) \in Nat
  BY LenProperties
<1>2. n <= Len(l) => Agree(l, l, n)
  BY <1>1 DEF Agree
<1>3. Agree(l, k, n) => Agree(k, l, n)
  BY <1>1 DEF Agree
<1>4. Agree(l, k, n) /\ Agree(k, j, n) => Agree(l, j, n)
  BY <1>1 DEF Agree
<1>5. \A i \in 0..n : Agree(l, k, n) => Agree(l, k, i)
  BY <1>1 DEF Agree
<1> QED  BY <1>2, <1>3, <1>4, <1>5

\* Two sound logs that have an entry of the same term at an index agree up to
\* it.
LEMMA SoundAgree ==
    ASSUME NEW lead \in LeaderLogs, NEW l \in Seq(Entry), NEW k \in Seq(Entry),
           Sound(lead, l), Sound(lead, k),
           NEW i \in Nat, 0 < i, i <= Len(l), i <= Len(k), l[i].term = k[i].term
    PROVE  Agree(l, k, i)
<1>1. i \in 1..Len(l) /\ i \in 1..Len(k)
  BY LenProperties
<1>2. l[i].term \in Nat
  BY <1>1, EntryHasTerm
<1> DEFINE j == lead[l[i].term]
<1>3. Agree(l, j, i) /\ Agree(k, j, i)
  BY <1>1 DEF Sound
<1>4. j \in Seq(Entry)
  BY <1>2, LogOfLeader
<1> HIDE DEF j
<1>5. Agree(j, k, i)
  BY <1>3, <1>4, AgreeFacts
<1> QED  BY <1>3, <1>4, <1>5, AgreeFacts

\* What a history gains in a step, and what the terms do meanwhile: leaders
\* are elected, their logs grow, votes are cast, and servers acknowledge
\* entries in the term they are in.
HistoryGrows(won, lead, ack, won2, lead2, ack2) ==
    /\ \A t \in Nat : won[t] # Nil => won2[t] = won[t]
    /\ \A t \in Nat : Agree(lead2[t], lead[t], Len(lead[t]))
    /\ ack \subseteq ack2
    /\ \A p \in Server, t, n \in Nat : <<p, t, n>> \in ack2 => <<p, t, n>> \in ack \/ t = term'[p]
    /\ \A p \in Server : term[p] <= term'[p]

\* What cannot be chosen any more never will be.
LEMMA LostStays ==
    ASSUME TypeOK, TypeOK', NEW won, NEW lead, NEW ack, NEW won2, NEW lead2, NEW ack2,
           HistoryGrows(won, lead, ack, won2, lead2, ack2),
           NEW t \in Nat, NEW n \in Nat, Lost(ack, t, n)
    PROVE  Lost(ack2, t, n)'
<1>1. PICK Q \in Majority : \A p \in Q : term[p] > t /\ <<p, t, n>> \notin ack
  BY DEF Lost
<1>2. ASSUME NEW p \in Q  PROVE term'[p] > t /\ <<p, t, n>> \notin ack2
  <2>1. p \in Server /\ term[p] \in Nat /\ term'[p] \in Nat
    BY DEF Majority, TypeOK
  <2> QED  BY <1>1, <2>1 DEF HistoryGrows
<1>3. \E S \in Majority : \A p \in S : term'[p] > t /\ <<p, t, n>> \notin ack2
  BY <1>2
<1> QED  BY <1>3 DEF Lost

-----------------------------------------------------------------------------
(* What a step that leaves a part of the state alone does to the parts of  *)
(* the invariant: nothing.                                                 *)

TermsGrow == \A p \in Server : term[p] <= term'[p]

\* Nobody becomes leader; nobody becomes candidate or leader.
NoNewLeaders ==
    \A p \in Server : state'[p] = Leader => state[p] = Leader /\ term'[p] = term[p]
NoNewRoles ==
    \A p \in Server : state'[p] # Follower => state'[p] = state[p] /\ term'[p] = term[p]

\* Votes stay as they are while the term does.
LEMMA CastFrame ==
    ASSUME TypeOK, TypeOK', NEW cast, CastInv(cast), TermsGrow, NoNewRoles,
           \A p \in Server : term'[p] = term[p] => votedFor'[p] = votedFor[p],
           \A p \in Server : state'[p] # Follower => votes'[p] \subseteq votes[p],
           voteResps' \subseteq voteResps
    PROVE  CastInv(cast)'
<1>1. \A p \in Server : term[p] \in Nat /\ term'[p] \in Nat
  BY DEF TypeOK
<1>2. ASSUME NEW p \in Server, NEW c \in Server, NEW t \in Nat, <<p, c, t>> \in cast
      PROVE  t <= term'[c] /\ t <= term'[p] /\ (t = term'[p] => votedFor'[p] = c)
  <2>1. t <= term[c] /\ t <= term[p] /\ (t = term[p] => votedFor[p] = c)
    BY <1>2 DEF CastInv
  <2> QED  BY <1>1, <2>1 DEF TermsGrow
<1>3. ASSUME NEW c \in Server, state'[c] # Follower, NEW p \in votes'[c]
      PROVE  <<p, c, term'[c]>> \in cast
  BY <1>3 DEF CastInv, NoNewRoles
<1> QED  BY <1>2, <1>3 DEF CastInv

\* No election is won, and no winner stands again in its term.
LEMMA WonFrame ==
    ASSUME TypeOK, TypeOK', NEW won \in [Nat -> Server \cup {Nil}], NEW cast, NEW cast2,
           WonInv(won, cast), cast \subseteq cast2, TermsGrow,
           \A p \in Server : state'[p] = Candidate /\ term'[p] = term[p] => state[p] = Candidate
    PROVE  WonInv(won, cast2)'
<1> SUFFICES ASSUME NEW t \in Nat, won[t] # Nil
             PROVE  /\ \E Q \in Majority : \A p \in Q : <<p, won[t], t>> \in cast2
                    /\ t <= term'[won[t]]
                    /\ t = term'[won[t]] => state'[won[t]] # Candidate
  BY DEF WonInv
<1>1. won[t] \in Server /\ term[won[t]] \in Nat /\ term'[won[t]] \in Nat
  BY DEF TypeOK
<1>2. \E Q \in Majority : \A p \in Q : <<p, won[t], t>> \in cast2
  BY DEF WonInv
<1>3. t <= term[won[t]] /\ (t = term[won[t]] => state[won[t]] # Candidate)
  BY DEF WonInv
<1> QED  BY <1>1, <1>2, <1>3 DEF TermsGrow

\* The logs are what they were.
LEMMA LeadFrame ==
    ASSUME TypeOK, TypeOK', NEW won, NEW lead,
           LeadInv(won, lead), TermsGrow, NoNewLeaders, log' = log
    PROVE  LeadInv(won, lead)'
<1>1. \A r \in Server : state'[r] = Leader => won[term'[r]] = r /\ log'[r] = lead[term'[r]]
  BY DEF LeadInv, NoNewLeaders
<1>2. ASSUME NEW p \in Server, NEW i \in 1..Len(log[p])  PROVE log[p][i].term <= term'[p]
  <2>1. term[p] \in Nat /\ term'[p] \in Nat /\ log[p][i].term \in Nat
    BY EntryHasTerm DEF TypeOK
  <2>2. log[p][i].term <= term[p]
    BY DEF LeadInv
  <2>3. term[p] <= term'[p]
    BY DEF TermsGrow
  <2> QED  BY <2>1, <2>2, <2>3
<1> QED  BY <1>1, <1>2 DEF LeadInv

\* A call is one that was there before, but for the caller that waits for it.
SameVoteReqs ==
    \A m \in voteReqs' : \E n \in voteReqs :
        m.from = n.from /\ m.term = n.term /\ m.lastIndex = n.lastIndex /\ m.lastTerm = n.lastTerm
SameAppendReqs ==
    \A m \in appendReqs' : \E n \in appendReqs :
        /\ m.term = n.term /\ m.prevIndex = n.prevIndex /\ m.prevTerm = n.prevTerm
        /\ m.entries = n.entries /\ m.leaderCommit = n.leaderCommit

\* The logs of candidates are what they were when they sent their calls.
LEMMA VoteReqFrame ==
    ASSUME TypeOK, TypeOK', VoteReqInv, TermsGrow, NoNewRoles, SameVoteReqs,
           \A p \in Server : state'[p] # Follower => log'[p] = log[p]
    PROVE  VoteReqInv'
<1> SUFFICES ASSUME NEW m \in voteReqs'
             PROVE  /\ m.term <= term'[m.from]
                    /\ m.term = term'[m.from] /\ state'[m.from] = Candidate =>
                          /\ m.lastIndex = Len(log'[m.from])
                          /\ m.lastTerm = LastTerm(log'[m.from])
  BY DEF VoteReqInv, LastTerm, TermAt
<1>1. PICK n \in voteReqs :
          m.from = n.from /\ m.term = n.term /\ m.lastIndex = n.lastIndex /\ m.lastTerm = n.lastTerm
  BY DEF SameVoteReqs
<1>2. n.from \in Server /\ n.term \in Nat
  BY DEF TypeOK, VoteReq
<1>3. term[n.from] \in Nat /\ term'[n.from] \in Nat
  BY <1>2 DEF TypeOK
<1>4. /\ n.term <= term[n.from]
      /\ n.term = term[n.from] /\ state[n.from] = Candidate =>
            n.lastIndex = Len(log[n.from]) /\ n.lastTerm = LastTerm(log[n.from])
  BY DEF VoteReqInv
<1>5. state'[n.from] = Candidate => state'[n.from] # Follower
  BY DEF Candidate, Follower
<1> QED  BY <1>1, <1>2, <1>3, <1>4, <1>5 DEF TermsGrow, NoNewRoles

\* Calls for entries say what they said.
LEMMA AppendReqFrame ==
    ASSUME NEW won, NEW lead, NEW ack, AppendReqInv(won, lead, ack), SameAppendReqs
    PROVE  AppendReqInv(won, lead, ack)'
BY SMTT(30) DEF AppendReqInv, SameAppendReqs, TermAt, Committed

\* Leaders know what they knew.
LEMMA AckFrame ==
    ASSUME TypeOK, TypeOK', NEW lead, NEW ack, AckInv(lead, ack),
           TermsGrow, NoNewLeaders,
           \A m \in appendResps' : m.success => m \in appendResps,
           \A r \in Server : state'[r] = Leader => log'[r] = log[r] /\ matchIndex'[r] = matchIndex[r]
    PROVE  AckInv(lead, ack)'
<1>1. ASSUME NEW p \in Server, NEW t \in Nat, NEW n \in Nat, <<p, t, n>> \in ack
      PROVE  t <= term'[p] /\ n \in 1..Len(lead[t])
  <2>1. term[p] \in Nat /\ term'[p] \in Nat
    BY DEF TypeOK
  <2>2. t <= term[p] /\ n \in 1..Len(lead[t])
    BY <1>1 DEF AckInv
  <2>3. term[p] <= term'[p]
    BY DEF TermsGrow
  <2>4. t <= term'[p]
    BY <2>1, <2>2, <2>3
  <2> QED  BY <2>2, <2>4
<1>2. ASSUME NEW r \in Server, state'[r] = Leader
      PROVE  /\ \A n \in 1..Len(log'[r]) : <<r, term'[r], n>> \in ack
             /\ \A p \in Peers(r) : \A n \in 1..matchIndex'[r][p] : <<p, term'[r], n>> \in ack
  BY <1>2 DEF AckInv, NoNewLeaders
<1> QED  BY <1>1, <1>2 DEF AckInv, Peers

\* Safe, in the next state.
SafeNext(lead, ack, l, t, n) == Agree(l, lead[t], n) \/ Lost(ack, t, n)'

\* KeepInv, in the next state.
LEMMA KeepNext ==
    ASSUME NEW won, NEW lead, NEW cast, NEW ack,
           \A t, n \in Nat : Own(lead, t, n) =>
              /\ \A p \in Server : <<p, t, n>> \in ack => SafeNext(lead, ack, log'[p], t, n)
              /\ \A u \in Nat : t < u /\ won[u] # Nil => SafeNext(lead, ack, lead[u], t, n)
              /\ \A p, c \in Server :
                    /\ state'[c] = Candidate /\ t < term'[c]
                    /\ <<p, c, term'[c]>> \in cast /\ <<p, t, n>> \in ack
                    => SafeNext(lead, ack, log'[c], t, n)
    PROVE  KeepInv(won, lead, cast, ack)'
BY DEF KeepInv, Safe, SafeNext, Own, Agree

\* A log that is safe stays so while the history grows.
LEMMA SafeStays ==
    ASSUME TypeOK, TypeOK', NEW won, NEW lead, NEW ack, NEW won2, NEW lead2, NEW ack2,
           HistoryGrows(won, lead, ack, won2, lead2, ack2),
           lead \in LeaderLogs, lead2 \in LeaderLogs,
           NEW t \in Nat, NEW n \in Nat, NEW l \in Seq(Entry), Safe(lead, ack, l, t, n)
    PROVE  SafeNext(lead2, ack2, l, t, n)
<1>1. CASE Lost(ack, t, n)
  BY <1>1, LostStays DEF SafeNext
<1>2. CASE Agree(l, lead[t], n)
  <2>1. lead[t] \in Seq(Entry) /\ lead2[t] \in Seq(Entry) /\ Len(lead[t]) \in Nat
    BY LogOfLeader
  <2>2. n \in 0..Len(lead[t])
    BY <1>2, <2>1 DEF Agree
  <2>3. Agree(lead2[t], lead[t], Len(lead[t]))
    BY DEF HistoryGrows
  <2>4. Agree(lead2[t], lead[t], n)
    BY <2>1, <2>2, <2>3, AgreeFacts
  <2>5. Agree(lead[t], lead2[t], n)
    BY <2>1, <2>4, AgreeFacts
  <2>6. Agree(l, lead2[t], n)
    BY <1>2, <2>1, <2>5, AgreeFacts
  <2> QED  BY <2>6 DEF SafeNext
<1> QED  BY <1>1, <1>2 DEF Safe

\* A history that does not change has grown.
LEMMA SameHistory ==
    ASSUME NEW won, NEW lead, NEW ack, lead \in LeaderLogs, TermsGrow
    PROVE  HistoryGrows(won, lead, ack, won, lead, ack)
<1>1. ASSUME NEW t \in Nat  PROVE Agree(lead[t], lead[t], Len(lead[t]))
  BY AgreeFacts, LogOfLeader
<1> QED  BY <1>1 DEF HistoryGrows, TermsGrow

\* Logs, candidates and winners are what they were.
LEMMA KeepFrame ==
    ASSUME TypeOK, TypeOK', NEW won, NEW lead, NEW cast, NEW ack,
           HistoryType(won, lead, cast, ack),
           KeepInv(won, lead, cast, ack), TermsGrow, NoNewRoles, log' = log
    PROVE  KeepInv(won, lead, cast, ack)'
<1>1. lead \in LeaderLogs
  BY DEF HistoryType
<1>2. HistoryGrows(won, lead, ack, won, lead, ack)
  BY <1>1, SameHistory
<1>3. \A p \in Server : log[p] \in Seq(Entry) /\ log'[p] = log[p]
  BY DEF TypeOK
<1> SUFFICES ASSUME NEW t \in Nat, NEW n \in Nat, Own(lead, t, n)
             PROVE
              /\ \A p \in Server : <<p, t, n>> \in ack => SafeNext(lead, ack, log'[p], t, n)
              /\ \A u \in Nat : t < u /\ won[u] # Nil => SafeNext(lead, ack, lead[u], t, n)
              /\ \A p, c \in Server :
                    /\ state'[c] = Candidate /\ t < term'[c]
                    /\ <<p, c, term'[c]>> \in cast /\ <<p, t, n>> \in ack
                    => SafeNext(lead, ack, log'[c], t, n)
  BY KeepNext
<1>4. ASSUME NEW l \in Seq(Entry), Safe(lead, ack, l, t, n)  PROVE SafeNext(lead, ack, l, t, n)
  BY <1>1, <1>2, <1>4, SafeStays
<1>5. ASSUME NEW p \in Server, <<p, t, n>> \in ack  PROVE SafeNext(lead, ack, log'[p], t, n)
  BY <1>3, <1>4, <1>5 DEF KeepInv
<1>6. ASSUME NEW u \in Nat, t < u, won[u] # Nil  PROVE SafeNext(lead, ack, lead[u], t, n)
  BY <1>1, <1>4, <1>6, LogOfLeader DEF KeepInv
<1>7. ASSUME NEW p \in Server, NEW c \in Server, state'[c] = Candidate, t < term'[c],
             <<p, c, term'[c]>> \in cast, <<p, t, n>> \in ack
      PROVE  SafeNext(lead, ack, log'[c], t, n)
  <2>1. state[c] = Candidate /\ term'[c] = term[c]
    BY <1>7 DEF NoNewRoles, Candidate, Follower
  <2> QED  BY <1>3, <1>4, <1>7, <2>1 DEF KeepInv
<1> QED  BY <1>5, <1>6, <1>7

\* What is committed stays so when the term grows or less is asked for.
LEMMA CommittedLess ==
    ASSUME NEW lead \in LeaderLogs, NEW ack, NEW l \in Seq(Entry),
           NEW t \in Nat, NEW u \in Nat, t <= u, NEW n \in Nat, NEW k \in Nat, k <= n,
           Committed(lead, ack, l, t, n)
    PROVE  Committed(lead, ack, l, u, k)
<1> SUFFICES ASSUME k > 0
             PROVE  \E s \in 0..u : \E j \in Nat :
                       /\ k <= j /\ Own(lead, s, j) /\ Chosen(ack, s, j)
                       /\ Agree(l, lead[s], k)
  BY DEF Committed
<1>1. n > 0
  OBVIOUS
<1>2. PICK s \in 0..t : \E j \in Nat : /\ n <= j /\ Own(lead, s, j) /\ Chosen(ack, s, j)
                                       /\ Agree(l, lead[s], n)
  BY <1>1 DEF Committed
<1>3. PICK j \in Nat : n <= j /\ Own(lead, s, j) /\ Chosen(ack, s, j) /\ Agree(l, lead[s], n)
  BY <1>2
<1>4. s \in Nat /\ s \in 0..u /\ lead[s] \in Seq(Entry)
  BY LogOfLeader
<1>5. Agree(l, lead[s], k)
  <2>1. k \in 0..n
    OBVIOUS
  <2> QED  BY <1>3, <1>4, <2>1, AgreeFacts
<1>6. k <= j
  BY <1>3
<1> QED  BY <1>3, <1>4, <1>5, <1>6

\* Commit indexes do not grow, or belong to a restarted server.
CommitsShrink ==
    \A r \in Server : /\ commitIndex'[r] <= commitIndex[r]
                      /\ Len(wal'[r]) <= lastApplied'[r] /\ lastApplied'[r] <= commitIndex'[r]

\* A step that writes no log and advances no commitIndex keeps what is committed.
LEMMA CommitFrame ==
    ASSUME TypeOK, TypeOK', NEW won, NEW lead, NEW cast, NEW ack,
           HistoryType(won, lead, cast, ack),
           CommitInv(lead, ack), TermsGrow, CommitsShrink, log' = log
    PROVE  CommitInv(lead, ack)'
<1> SUFFICES ASSUME NEW r \in Server
             PROVE  /\ Committed(lead, ack, log'[r], term'[r], commitIndex'[r])
                    /\ Len(wal'[r]) <= lastApplied'[r] /\ lastApplied'[r] <= commitIndex'[r]
  BY DEF CommitInv, Committed, Agree
<1>1. /\ term[r] \in Nat /\ term'[r] \in Nat /\ commitIndex[r] \in Nat /\ commitIndex'[r] \in Nat
      /\ log[r] \in Seq(Entry)
  BY DEF TypeOK
<1>2. lead \in LeaderLogs
  BY DEF HistoryType
<1>3. Committed(lead, ack, log[r], term[r], commitIndex[r])
  BY DEF CommitInv
<1>4. term[r] <= term'[r] /\ commitIndex'[r] <= commitIndex[r]
  BY DEF TermsGrow, CommitsShrink
<1>5. Committed(lead, ack, log[r], term'[r], commitIndex'[r])
  BY <1>1, <1>2, <1>3, <1>4, CommittedLess
<1> QED  BY <1>5 DEF CommitsShrink

\* A step that elects nobody, casts no vote, takes no entries and commits
\* nothing: any history that explained the state before explains it after.
Quiet ==
    /\ TermsGrow /\ NoNewRoles /\ log' = log /\ CommitsShrink
    /\ \A p \in Server : term'[p] = term[p] => votedFor'[p] = votedFor[p]
    /\ \A p \in Server : state'[p] # Follower =>
          votes'[p] = votes[p] /\ matchIndex'[p] = matchIndex[p]
    /\ SameVoteReqs /\ SameAppendReqs
    /\ voteResps' \subseteq voteResps
    /\ \A m \in appendResps' : m.success => m \in appendResps

\* A step that sends no request, elects nobody and writes no log keeps every
\* part of the history.
LEMMA QuietStep ==
    ASSUME TypeOK, TypeOK', FileIsMemory', Quiet, NEW won, NEW lead, NEW cast, NEW ack,
           HistoryType(won, lead, cast, ack), HistoryInv(won, lead, cast, ack)
    PROVE  HistoryInv(won, lead, cast, ack)'
<1>1. /\ FileIsMemory /\ CastInv(cast) /\ WonInv(won, cast) /\ LeadInv(won, lead)
      /\ VoteReqInv /\ AppendReqInv(won, lead, ack) /\ AckInv(lead, ack)
      /\ KeepInv(won, lead, cast, ack) /\ CommitInv(lead, ack)
  BY DEF HistoryInv
<1>2. TermsGrow /\ NoNewRoles /\ log' = log /\ SameVoteReqs /\ SameAppendReqs /\ CommitsShrink
  BY DEF Quiet
<1>3. NoNewLeaders
  BY <1>2 DEF NoNewRoles, NoNewLeaders, Leader, Follower
<1>4. CastInv(cast)'
  <2>1. /\ \A p \in Server : term'[p] = term[p] => votedFor'[p] = votedFor[p]
        /\ \A p \in Server : state'[p] # Follower => votes'[p] \subseteq votes[p]
        /\ voteResps' \subseteq voteResps
    BY DEF Quiet
  <2> QED  BY <1>1, <1>2, <2>1, CastFrame
<1>5. WonInv(won, cast)'
  <2>1. won \in [Nat -> Server \cup {Nil}]
    BY DEF HistoryType
  <2>2. \A p \in Server : state'[p] = Candidate => state[p] = Candidate
    BY <1>2 DEF NoNewRoles, Candidate, Follower
  <2> QED  BY <1>1, <1>2, <2>1, <2>2, WonFrame
<1>6. LeadInv(won, lead)'
  BY <1>1, <1>2, <1>3, LeadFrame
<1>7. VoteReqInv'
  BY <1>1, <1>2, VoteReqFrame
<1>8. AppendReqInv(won, lead, ack)'
  BY <1>1, <1>2, AppendReqFrame
<1>9. AckInv(lead, ack)'
  <2>1. /\ \A m \in appendResps' : m.success => m \in appendResps
        /\ \A r \in Server : state'[r] = Leader => log'[r] = log[r] /\ matchIndex'[r] = matchIndex[r]
    BY DEF Quiet, Leader, Follower
  <2> QED  BY <1>1, <1>2, <1>3, <2>1, AckFrame
<1>10. KeepInv(won, lead, cast, ack)'
  BY <1>1, <1>2, KeepFrame
<1>11. CommitInv(lead, ack)'
  BY <1>1, <1>2, CommitFrame
<1> QED  BY <1>4, <1>5, <1>6, <1>7, <1>8, <1>9, <1>10, <1>11 DEF HistoryInv

-----------------------------------------------------------------------------
(* The steps that are quiet.                                               *)

\* The part of CommitInv that says how far the WAL and lastApplied are.
AppliedInv ==
    \A r \in Server : Len(wal[r]) <= lastApplied[r] /\ lastApplied[r] <= commitIndex[r]

\* Who steps down keeps its vote or moves to a later term.
LEMMA StepDownIsQuiet ==
    ASSUME TypeOK, NEW r \in Server, NEW t \in Nat, becameFollower(r, t)
    PROVE  /\ TermsGrow /\ NoNewRoles
           /\ \A p \in Server : term'[p] = term[p] => votedFor'[p] = votedFor[p]
<1> SUFFICES ASSUME NEW p \in Server
             PROVE  /\ term[p] <= term'[p]
                    /\ state'[p] # Follower => state'[p] = state[p] /\ term'[p] = term[p]
                    /\ term'[p] = term[p] => votedFor'[p] = votedFor[p]
  BY DEF TermsGrow, NoNewRoles
<1>1. term[p] \in Nat
  BY DEF TypeOK
<1>2. CASE p # r
  BY <1>1, <1>2 DEF TypeOK, becameFollower
<1>3. CASE p = r
  <2>1. state'[r] = Follower /\ term'[r] = TermAfter(r, t) /\ votedFor'[r] = VoteAfter(r, t)
    BY DEF TypeOK, becameFollower
  <2> QED  BY <1>1, <1>3, <2>1 DEF TermAfter, VoteAfter
<1> QED  BY <1>2, <1>3

\* Nothing is applied or committed.
LEMMA NothingApplied ==
    ASSUME TypeOK, AppliedInv, UNCHANGED <<commitIndex, applyVars>>
    PROVE  CommitsShrink
<1> SUFFICES ASSUME NEW r \in Server  PROVE commitIndex[r] <= commitIndex[r]
  BY DEF AppliedInv, CommitsShrink, applyVars
<1>1. commitIndex[r] \in Nat
  BY DEF TypeOK
<1> QED  BY <1>1

\* A refusal is not a success.
LEMMA RefusalsOnly ==
    ASSUME NEW m, NEW t, NEW resp \in AppendReply(m, t, FALSE)
    PROVE  ~resp.success
BY DEF AppendReply, Answer

\* Fewer calls are the same calls.
LEMMA FewerCalls ==
    /\ voteReqs' \subseteq voteReqs => SameVoteReqs
    /\ appendReqs' \subseteq appendReqs => SameAppendReqs
BY DEF SameVoteReqs, SameAppendReqs

\* Answers that are ignored or refused, and the ones that end a candidacy or a
\* leadership, are such steps.
LEMMA QuietReplies ==
    ASSUME TypeOK, AppliedInv
    PROVE  /\ \A m \in voteResps : IgnoreVoteReply(m) \/ LoseElection(m) => Quiet
           /\ \A m \in appendReqs : RefuseStaleAppend(m) \/ RefuseMismatch(m) => Quiet
           /\ \A m \in appendResps :
                IgnoreAppendReply(m) \/ StepDownOnReply(m) \/ BackUp(m) => Quiet
<1>0. \A p \in Server : term[p] \in Nat
  BY DEF TypeOK
<1>1. ASSUME UNCHANGED <<state, term, votedFor>>
      PROVE  /\ TermsGrow /\ NoNewRoles
             /\ \A p \in Server : term'[p] = term[p] => votedFor'[p] = votedFor[p]
  BY <1>0, <1>1 DEF TermsGrow, NoNewRoles
<1>2. ASSUME NEW m \in voteResps, IgnoreVoteReply(m)  PROVE Quiet
  <2>1. CommitsShrink
    BY <1>2, NothingApplied DEF IgnoreVoteReply
  <2> QED  BY <1>1, <1>2, <2>1, FewerCalls DEF IgnoreVoteReply, Quiet, leaderVars, appendMsgs
<1>3. ASSUME NEW m \in voteResps, LoseElection(m)  PROVE Quiet
  <2>1. CommitsShrink
    BY <1>3, NothingApplied DEF LoseElection
  <2>2. m.to \in Server /\ m.term \in Nat /\ becameFollower(m.to, m.term)
    BY <1>3 DEF TypeOK, VoteResp, LoseElection
  <2> QED
    BY <1>3, <2>1, <2>2, StepDownIsQuiet, FewerCalls DEF LoseElection, Quiet, leaderVars, appendMsgs
<1>4. ASSUME NEW m \in appendReqs, RefuseStaleAppend(m)  PROVE Quiet
  <2>1. CommitsShrink
    BY <1>4, NothingApplied DEF RefuseStaleAppend
  <2> QED
    BY <1>1, <1>4, <2>1, FewerCalls, RefusalsOnly DEF RefuseStaleAppend, Quiet, leaderVars, voteMsgs
<1>5. ASSUME NEW m \in appendReqs, RefuseMismatch(m)  PROVE Quiet
  <2>1. CommitsShrink
    BY <1>5, NothingApplied DEF RefuseMismatch
  <2>2. m.to \in Server /\ m.term \in Nat /\ becameFollower(m.to, m.term)
    BY <1>5 DEF TypeOK, AppendReq, RefuseMismatch
  <2> QED
    BY <1>5, <2>1, <2>2, StepDownIsQuiet, FewerCalls, RefusalsOnly
    DEF RefuseMismatch, Quiet, leaderVars, voteMsgs
<1>6. ASSUME NEW m \in appendResps, IgnoreAppendReply(m)  PROVE Quiet
  <2>1. CommitsShrink
    BY <1>6, NothingApplied DEF IgnoreAppendReply
  <2> QED  BY <1>1, <1>6, <2>1, FewerCalls DEF IgnoreAppendReply, Quiet, leaderVars, voteMsgs
<1>7. ASSUME NEW m \in appendResps, StepDownOnReply(m)  PROVE Quiet
  <2>1. CommitsShrink
    BY <1>7, NothingApplied DEF StepDownOnReply
  <2>2. m.to \in Server /\ m.term \in Nat /\ becameFollower(m.to, m.term)
    BY <1>7 DEF TypeOK, AppendResp, StepDownOnReply
  <2> QED
    BY <1>7, <2>1, <2>2, StepDownIsQuiet, FewerCalls DEF StepDownOnReply, Quiet, leaderVars, voteMsgs
<1>8. ASSUME NEW m \in appendResps, BackUp(m)  PROVE Quiet
  <2>1. CommitsShrink
    BY <1>8, NothingApplied DEF BackUp
  <2> QED  BY <1>1, <1>8, <2>1, FewerCalls DEF BackUp, Quiet, voteMsgs
<1> QED  BY <1>2, <1>3, <1>4, <1>5, <1>6, <1>7, <1>8

\* ApplyLoop, restarts with the file in step with memory, failing calls and
\* stuttering.
LEMMA QuietServers ==
    ASSUME Reliable, TypeOK, FileIsMemory, AppliedInv
    PROVE  /\ \A r \in Server : ApplyLoop(r) \/ Restart(r) => Quiet
           /\ CallFails \/ UNCHANGED vars => Quiet
<1>0. \A p \in Server : term[p] \in Nat /\ commitIndex[p] \in Nat
  BY DEF TypeOK
<1>1. ASSUME UNCHANGED <<state, term, votedFor>>
      PROVE  /\ TermsGrow /\ NoNewRoles
             /\ \A p \in Server : term'[p] = term[p] => votedFor'[p] = votedFor[p]
  BY <1>0, <1>1 DEF TermsGrow, NoNewRoles
<1>2. ASSUME NEW r \in Server, ApplyLoop(r)  PROVE Quiet
  <2>1. ASSUME NEW p \in Server
        PROVE  /\ commitIndex'[p] <= commitIndex[p]
               /\ Len(wal'[p]) <= lastApplied'[p] /\ lastApplied'[p] <= commitIndex'[p]
    <3>1. commitIndex' = commitIndex /\ commitIndex[p] \in Nat /\ lastApplied[p] \in Nat
          /\ wal[p] \in Seq(Stored) /\ Len(wal[p]) \in Nat
      BY <1>2, LenProperties DEF TypeOK, ApplyLoop
    <3>2. Len(wal[p]) <= lastApplied[p] /\ lastApplied[p] <= commitIndex[p]
      BY DEF AppliedInv
    <3>3. CASE p # r
      <4>1. wal'[p] = wal[p] /\ lastApplied'[p] = lastApplied[p]
        BY <1>2, <3>3 DEF TypeOK, ApplyLoop
      <4> QED  BY <3>1, <3>2, <4>1
    <3>4. CASE p = r
      <4>1. lastApplied'[r] = lastApplied[r] + 1 /\ lastApplied[r] < commitIndex[r]
        BY <1>2 DEF TypeOK, ApplyLoop
      <4> DEFINE c == log[r][lastApplied[r] + 1].cmd
      <4>2. wal'[r] = wal[r] \/ (c \in Stored /\ wal'[r] = Append(wal[r], c))
        <5>1. ASSUME Readable(log[r], lastApplied[r] + 1)  PROVE c \in Stored
          <6>1. lastApplied[r] + 1 \in 1..Len(log[r])
            BY <5>1, <3>1, <3>4 DEF Readable, LastIndex
          <6>2. log[r] \in Seq(Entry)
            BY DEF TypeOK
          <6>3. log[r][lastApplied[r] + 1] \in Entry
            BY <6>1, <6>2, ElementOfSeq
          <6> QED  BY <6>3 DEF Entry, Stored
        <5> QED  BY <1>2, <5>1 DEF TypeOK, ApplyLoop
      <4>3. Len(wal'[r]) <= Len(wal[r]) + 1
        <5> HIDE DEF c
        <5>1. CASE wal'[r] = wal[r]
          BY <5>1, <3>1, <3>4
        <5>2. CASE c \in Stored /\ wal'[r] = Append(wal[r], c)
          BY <5>2, <3>1, <3>4, AppendProperties
        <5> QED  BY <4>2, <5>1, <5>2
      <4>4. Len(wal'[r]) \in Nat
        <5> HIDE DEF c
        <5> QED  BY <3>1, <3>4, <4>2, AppendProperties, LenProperties
      <4> QED  BY <3>1, <3>2, <3>4, <4>1, <4>3, <4>4, SMTT(90)
    <3> QED  BY <3>3, <3>4
  <2>2. CommitsShrink
    BY <2>1 DEF CommitsShrink
  <2> QED  BY <1>1, <1>2, <2>2, FewerCalls DEF ApplyLoop, Quiet, leaderVars, voteMsgs, appendMsgs
<1>3. ASSUME NEW r \in Server, Restart(r)  PROVE Quiet
  <2>1. stateFile[r].term = term[r] /\ stateFile[r].votedFor = votedFor[r]
    <3>1. stateFile[r] = [term |-> term[r], votedFor |-> votedFor[r]]
      BY DEF FileIsMemory, Reliable
    <3> QED  BY <3>1
  <2>2. \A p \in Server : /\ term'[p] = term[p] /\ votedFor'[p] = votedFor[p]
                          /\ p # r => /\ state'[p] = state[p] /\ votes'[p] = votes[p]
                                      /\ matchIndex'[p] = matchIndex[p]
    BY <1>3, <2>1 DEF TypeOK, Restart
  <2>3. state'[r] = Follower
    BY <1>3 DEF TypeOK, Restart
  <2>4. ASSUME NEW p \in Server
        PROVE  /\ commitIndex'[p] <= commitIndex[p]
               /\ Len(wal'[p]) <= lastApplied'[p] /\ lastApplied'[p] <= commitIndex'[p]
    <3>1. PICK k \in 0..Len(wal[r]) : \E holes \in SUBSET (1..k) :
              /\ wal' = [wal EXCEPT ![r] = AfterLoss(@, k, holes)]
              /\ lastApplied' = [lastApplied EXCEPT ![r] = k]
              /\ commitIndex' = [commitIndex EXCEPT ![r] = k]
      BY <1>3 DEF Restart, SetLastApplied
    <3>2. /\ commitIndex[p] \in Nat /\ lastApplied[p] \in Nat /\ wal[p] \in Seq(Stored)
          /\ Len(wal[p]) \in Nat
      BY LenProperties DEF TypeOK
    <3>3. Len(wal[p]) <= lastApplied[p] /\ lastApplied[p] <= commitIndex[p]
      BY DEF AppliedInv
    <3>4. CASE p # r
      <4>1. /\ wal'[p] = wal[p] /\ lastApplied'[p] = lastApplied[p]
            /\ commitIndex'[p] = commitIndex[p]
        BY <3>1, <3>4 DEF TypeOK
      <4> QED  BY <3>2, <3>3, <4>1
    <3>5. CASE p = r
      <4>1. /\ \E holes : wal'[r] = AfterLoss(wal[r], k, holes)
            /\ lastApplied'[r] = k /\ commitIndex'[r] = k
        BY <3>1 DEF TypeOK
      <4>2. Len(wal'[r]) = k
        BY <3>2, <3>5, <4>1, LossProperties
      <4> QED  BY <3>2, <3>3, <3>5, <4>1, <4>2
    <3> QED  BY <3>4, <3>5
  <2>5. CommitsShrink
    BY <2>4 DEF CommitsShrink
  <2>6. SameVoteReqs
    <3> DEFINE after(m) == [m EXCEPT !.alive = @ /\ m.from # r]
    <3>1. voteReqs' = {after(m) : m \in {n \in voteReqs : n.to # r}}
      BY <1>3 DEF Restart, AfterCrash
    <3>2. ASSUME NEW m \in voteReqs
          PROVE  /\ after(m).from = m.from /\ after(m).term = m.term
                 /\ after(m).lastIndex = m.lastIndex /\ after(m).lastTerm = m.lastTerm
      BY DEF TypeOK, VoteReq
    <3>3. ASSUME NEW k \in voteReqs'
          PROVE  \E m \in voteReqs : k = after(m)
      BY <3>1
    <3> HIDE DEF after
    <3> QED  BY <3>2, <3>3 DEF SameVoteReqs
  <2>7. SameAppendReqs
    <3> DEFINE after(m) == [m EXCEPT !.alive = @ /\ m.from # r]
    <3>1. appendReqs' = {after(m) : m \in {n \in appendReqs : n.to # r}}
      BY <1>3 DEF Restart, AfterCrash
    <3>2. ASSUME NEW m \in appendReqs
          PROVE  /\ after(m).term = m.term /\ after(m).prevIndex = m.prevIndex /\ after(m).prevTerm = m.prevTerm
                 /\ after(m).entries = m.entries /\ after(m).leaderCommit = m.leaderCommit
      BY DEF TypeOK, AppendReq
    <3>3. ASSUME NEW k \in appendReqs'
          PROVE  \E m \in appendReqs : k = after(m)
      BY <3>1
    <3> HIDE DEF after
    <3> QED  BY <3>2, <3>3 DEF SameAppendReqs
  <2>8. TermsGrow /\ NoNewRoles
    BY <1>0, <2>2, <2>3 DEF TermsGrow, NoNewRoles
  <2>9. voteResps' \subseteq voteResps /\ appendResps' \subseteq appendResps /\ log' = log
    BY <1>3 DEF Restart
  <2> QED  BY <2>2, <2>3, <2>5, <2>6, <2>7, <2>8, <2>9 DEF Quiet
<1>4. ASSUME CallFails  PROVE Quiet
  <2>1. CommitsShrink
    BY <1>4, NothingApplied DEF CallFails
  <2>2. SameAppendReqs
    <3>1. ASSUME NEW m \in appendReqs
          PROVE  LET k == [m EXCEPT !.alive = FALSE] IN
                 /\ k.term = m.term /\ k.prevIndex = m.prevIndex /\ k.prevTerm = m.prevTerm
                 /\ k.entries = m.entries /\ k.leaderCommit = m.leaderCommit
      BY DEF TypeOK, AppendReq
    <3>2. ASSUME NEW k \in appendReqs'
          PROVE  k \in appendReqs \/ \E m \in appendReqs : k = [m EXCEPT !.alive = FALSE]
      BY <1>4 DEF CallFails
    <3> QED  BY <3>1, <3>2, ZenonT(90) DEF SameAppendReqs
  <2>3. appendResps' \subseteq appendResps
    BY <1>4 DEF CallFails
  <2> QED  BY <1>1, <1>4, <2>1, <2>2, <2>3, FewerCalls DEF CallFails, Quiet, leaderVars, voteMsgs
<1>5. ASSUME UNCHANGED vars  PROVE Quiet
  <2>1. CommitsShrink
    BY <1>5, NothingApplied DEF vars, applyVars
  <2> QED  BY <1>1, <1>5, <2>1, FewerCalls DEF vars, Quiet
<1> QED  BY <1>2, <1>3, <1>4, <1>5

-----------------------------------------------------------------------------
(* Elections.                                                              *)

\* A server that stands for election casts a vote of a new term for itself.
LEMMA StartElectionSafe ==
    ASSUME TypeOK, TypeOK', FileIsMemory', AppliedInv, NEW r \in Server, startElection(r),
           NEW won, NEW lead, NEW cast, NEW ack, NEW cast2,
           HistoryType(won, lead, cast, ack), HistoryInv(won, lead, cast, ack),
           cast2 = cast \cup {<<r, r, term[r] + 1>>}
    PROVE  HistoryType(won, lead, cast2, ack) /\ HistoryInv(won, lead, cast2, ack)'
<1>1. /\ CastInv(cast) /\ WonInv(won, cast) /\ LeadInv(won, lead)
      /\ VoteReqInv /\ AppendReqInv(won, lead, ack) /\ AckInv(lead, ack)
      /\ KeepInv(won, lead, cast, ack) /\ CommitInv(lead, ack)
  BY DEF HistoryInv
<1>2. HistoryType(won, lead, cast2, ack)
  <2>1. <<r, r, term[r] + 1>> \in Server \X Server \X Nat
    <3>1. term[r] + 1 \in Nat
      BY SMTT(30) DEF TypeOK
    <3> QED  BY <3>1
  <2>2. cast2 \subseteq Server \X Server \X Nat
    BY <2>1 DEF HistoryType
  <2> QED  BY <2>2 DEF HistoryType
<1>3. \A p \in Server : term[p] \in Nat /\ term'[p] \in Nat
  BY DEF TypeOK
<1>4. /\ term'[r] = term[r] + 1 /\ votedFor'[r] = r /\ votes'[r] = {r} /\ state'[r] = Candidate
      /\ \A p \in Server \ {r} : /\ term'[p] = term[p] /\ votedFor'[p] = votedFor[p]
                                 /\ votes'[p] = votes[p] /\ state'[p] = state[p]
  BY DEF TypeOK, startElection
<1>5. /\ log' = log /\ voteResps' = voteResps /\ appendReqs' = appendReqs
      /\ appendResps' = appendResps /\ matchIndex' = matchIndex
  BY DEF startElection, leaderVars, appendMsgs
<1>6. TermsGrow /\ NoNewLeaders
  BY <1>3, <1>4 DEF TermsGrow, NoNewLeaders, Candidate, Leader
<1>7. CastInv(cast2)'
  <2>1. ASSUME NEW p \in Server, NEW c \in Server, NEW t \in Nat, <<p, c, t>> \in cast2
        PROVE  t <= term'[c] /\ t <= term'[p] /\ (t = term'[p] => votedFor'[p] = c)
    <3>1. CASE <<p, c, t>> \in cast
      <4>1. t <= term[c] /\ t <= term[p] /\ (t = term[p] => votedFor[p] = c)
        BY <1>1, <3>1 DEF CastInv
      <4> QED  BY <1>3, <1>4, <4>1
    <3>2. CASE <<p, c, t>> = <<r, r, term[r] + 1>>
      BY <1>3, <1>4, <3>2
    <3> QED  BY <2>1, <3>1, <3>2
  <2>2. ASSUME NEW p \in Server, NEW c \in Server, NEW d \in Server, NEW t \in Nat,
               <<p, c, t>> \in cast2, <<p, d, t>> \in cast2
        PROVE  c = d
    <3>1. ASSUME NEW e \in Server, <<r, e, term[r] + 1>> \in cast  PROVE FALSE
      BY <1>1, <1>3, <3>1 DEF CastInv
    <3>2. CASE <<p, c, t>> \in cast /\ <<p, d, t>> \in cast
      BY <1>1, <3>2 DEF CastInv
    <3> QED  BY <2>2, <3>1, <3>2
  <2>3. ASSUME NEW c \in Server, state'[c] # Follower, NEW p \in votes'[c]
        PROVE  <<p, c, term'[c]>> \in cast2
    <3>1. CASE c = r
      BY <1>4, <2>3, <3>1
    <3>2. CASE c # r
      BY <1>1, <1>4, <2>3, <3>2 DEF CastInv
    <3> QED  BY <3>1, <3>2
  <2>4. \A m \in voteResps' : m.granted => <<m.from, m.to, m.savedTerm>> \in cast2
    BY <1>1, <1>5 DEF CastInv
  <2> QED  BY <2>1, <2>2, <2>3, <2>4 DEF CastInv
<1>8. WonInv(won, cast2)'
  <2>1. won \in [Nat -> Server \cup {Nil}]
    BY DEF HistoryType
  <2>2. \A p \in Server : state'[p] = Candidate /\ term'[p] = term[p] => state[p] = Candidate
    BY <1>3, <1>4
  <2> QED  BY <1>1, <1>6, <2>1, <2>2, WonFrame
<1>9. LeadInv(won, lead)'
  BY <1>1, <1>5, <1>6, LeadFrame
<1>10. VoteReqInv'
  <2> SUFFICES ASSUME NEW m \in voteReqs'
               PROVE  /\ m.term <= term'[m.from]
                      /\ m.term = term'[m.from] /\ state'[m.from] = Candidate =>
                            /\ m.lastIndex = Len(log'[m.from])
                            /\ m.lastTerm = LastTerm(log'[m.from])
    BY DEF VoteReqInv, LastTerm, TermAt
  <2>1. m \in voteReqs \/ \E p \in Peers(r) :
            m = [from |-> r, to |-> p, term |-> term[r] + 1,
                 lastIndex |-> LastIndex(log[r]), lastTerm |-> LastTerm(log[r]),
                 alive |-> TRUE]
    BY DEF startElection
  <2>2. CASE m \in voteReqs
    <3>1. m.from \in Server /\ m.term \in Nat
      BY <2>2 DEF TypeOK, VoteReq
    <3>2. /\ m.term <= term[m.from]
          /\ m.term = term[m.from] /\ state[m.from] = Candidate =>
                m.lastIndex = Len(log[m.from]) /\ m.lastTerm = LastTerm(log[m.from])
      BY <1>1, <2>2 DEF VoteReqInv
    <3> QED  BY <1>3, <1>4, <1>5, <3>1, <3>2, SMTT(90)
  <2>3. CASE m \notin voteReqs
    <3>1. /\ m.from = r /\ m.term = term[r] + 1
          /\ m.lastIndex = LastIndex(log[r]) /\ m.lastTerm = LastTerm(log[r])
      BY <2>1, <2>3
    <3> QED  BY <1>3, <1>4, <1>5, <3>1 DEF LastIndex
  <2> QED  BY <2>2, <2>3
<1>11. AppendReqInv(won, lead, ack)'
  BY <1>1, <1>5, FewerCalls, AppendReqFrame
<1>12. AckInv(lead, ack)'
  BY <1>1, <1>5, <1>6, AckFrame
<1>13. KeepInv(won, lead, cast2, ack)'
  <2>1. lead \in LeaderLogs
    BY DEF HistoryType
  <2>2. HistoryGrows(won, lead, ack, won, lead, ack)
    BY <1>6, <2>1, SameHistory
  <2>3. \A p \in Server : log[p] \in Seq(Entry) /\ log'[p] = log[p]
    BY <1>5 DEF TypeOK
  <2> SUFFICES ASSUME NEW t \in Nat, NEW n \in Nat, Own(lead, t, n)
               PROVE
              /\ \A p \in Server : <<p, t, n>> \in ack => SafeNext(lead, ack, log'[p], t, n)
              /\ \A u \in Nat : t < u /\ won[u] # Nil => SafeNext(lead, ack, lead[u], t, n)
              /\ \A p, c \in Server :
                    /\ state'[c] = Candidate /\ t < term'[c]
                    /\ <<p, c, term'[c]>> \in cast2 /\ <<p, t, n>> \in ack
                    => SafeNext(lead, ack, log'[c], t, n)
    BY KeepNext
  <2>4. ASSUME NEW l \in Seq(Entry), Safe(lead, ack, l, t, n)  PROVE SafeNext(lead, ack, l, t, n)
    BY <2>1, <2>2, <2>4, SafeStays
  <2>5. ASSUME NEW p \in Server, <<p, t, n>> \in ack  PROVE SafeNext(lead, ack, log'[p], t, n)
    BY <1>1, <2>3, <2>4, <2>5 DEF KeepInv
  <2>6. ASSUME NEW u \in Nat, t < u, won[u] # Nil  PROVE SafeNext(lead, ack, lead[u], t, n)
    BY <1>1, <2>1, <2>4, <2>6, LogOfLeader DEF KeepInv
  <2>7. ASSUME NEW p \in Server, NEW c \in Server, state'[c] = Candidate, t < term'[c],
               <<p, c, term'[c]>> \in cast2, <<p, t, n>> \in ack
        PROVE  SafeNext(lead, ack, log'[c], t, n)
    <3>1. CASE c # r
      <4>1. state[c] = Candidate /\ term'[c] = term[c] /\ <<p, c, term[c]>> \in cast
        BY <1>4, <2>7, <3>1
      <4> QED  BY <1>1, <2>3, <2>4, <2>7, <4>1 DEF KeepInv
    <3>2. CASE c = r
      <4>1. <<p, r, term[r] + 1>> \notin cast
        <5>1. <<p, r, term[r] + 1>> \in cast => term[r] + 1 <= term[r]
          BY <1>1, <1>3 DEF CastInv
        <5> QED  BY <1>3, <5>1
      <4>2. p = r
        BY <1>4, <2>7, <3>2, <4>1
      <4> QED  BY <2>5, <2>7, <3>2, <4>2
    <3> QED  BY <3>1, <3>2
  <2> QED  BY <2>5, <2>6, <2>7
<1>14. CommitInv(lead, ack)'
  <2>1. CommitsShrink
    BY NothingApplied DEF startElection
  <2> QED  BY <1>1, <1>5, <1>6, <2>1, CommitFrame
<1> QED
  BY <1>2, <1>7, <1>8, <1>9, <1>10, <1>11, <1>12, <1>13, <1>14 DEF HistoryInv

\* A candidate whose log is at least as up to date as the voter's has what the
\* voter has of any term, unless it is lost.
LEMMA UpToDateIsSafe ==
    ASSUME NEW won, NEW lead, NEW cast, NEW ack, HistoryType(won, lead, cast, ack),
           LeadInv(won, lead), KeepInv(won, lead, cast, ack),
           NEW l \in Seq(Entry), NEW k \in Seq(Entry), Sound(lead, l), Sound(lead, k),
           \/ LastTerm(l) > LastTerm(k)
           \/ LastTerm(l) = LastTerm(k) /\ Len(l) >= Len(k),
           NEW t \in Nat, NEW n \in Nat, Own(lead, t, n), Agree(k, lead[t], n)
    PROVE  Safe(lead, ack, l, t, n)
<1> DEFINE u == LastTerm(k)
           v == LastTerm(l)
<1>1. Len(l) \in Nat /\ Len(k) \in Nat /\ u \in Nat /\ v \in Nat
  <2>1. Len(l) \in Nat /\ Len(k) \in Nat
    BY LenProperties
  <2> QED  BY <2>1, TermAtType DEF LastTerm
<1>2. \A s \in Nat : lead[s] \in Seq(Entry) /\ Len(lead[s]) \in Nat
  BY LogOfLeader DEF HistoryType
<1>3. n \in 1..Len(lead[t]) /\ lead[t][n].term = t /\ n <= Len(k) /\ k[n] = lead[t][n]
  BY <1>2 DEF Own, Agree
<1>4. u = k[Len(k)].term /\ Agree(k, lead[u], Len(k))
  <2>1. Len(k) \in 1..Len(k) /\ Len(k) # 0
    BY <1>1, <1>3
  <2>2. u = k[Len(k)].term
    BY <2>1 DEF LastTerm, TermAt
  <2> QED  BY <2>1, <2>2 DEF Sound
<1>5. t <= u
  <2>1. k[n] = lead[u][n] /\ n \in 1..Len(lead[u])
    BY <1>1, <1>2, <1>3, <1>4 DEF Agree
  <2>2. lead[u][n].term <= u
    BY <1>1, <2>1 DEF LeadInv
  <2> QED  BY <1>3, <2>1, <2>2
<1>6. ASSUME Len(l) > 0  PROVE v = l[Len(l)].term /\ Agree(l, lead[v], Len(l))
  <2>1. Len(l) \in 1..Len(l) /\ Len(l) # 0
    BY <1>1, <1>6
  <2>2. v = l[Len(l)].term
    BY <2>1 DEF LastTerm, TermAt
  <2> QED  BY <2>1, <2>2 DEF Sound
<1>7. CASE v = u /\ Len(l) >= Len(k)
  <2>1. Len(l) > 0 /\ n <= Len(l)
    BY <1>1, <1>3, <1>7
  <2>2. Agree(l, lead[u], Len(l))
    BY <1>6, <1>7, <2>1
  <2> HIDE DEF u, v
  <2>3. Agree(l, lead[t], n)
    BY <1>1, <1>2, <1>3, <1>4, <2>1, <2>2, SMTT(90) DEF Agree
  <2> QED  BY <2>3 DEF Safe
<1>8. CASE v > u
  <2>1. Len(l) > 0
    <3>1. Len(l) = 0 => v = 0
      BY DEF LastTerm, TermAt
    <3> QED  BY <1>1, <1>8, <3>1
  <2>2. v = l[Len(l)].term /\ Agree(l, lead[v], Len(l))
    BY <1>6, <2>1
  <2> HIDE DEF u, v
  <2>3. won[v] # Nil
    <3>1. Len(lead[v]) # 0
      BY <1>1, <1>2, <2>1, <2>2 DEF Agree
    <3>2. lead[v] # <<>>
      BY <3>1
    <3> QED  BY <1>1, <3>2 DEF LeadInv
  <2>4. Safe(lead, ack, lead[v], t, n)
    BY <1>1, <1>5, <1>8, <2>3 DEF KeepInv
  <2>5. CASE Agree(lead[v], lead[t], n)
    <3>1. n <= Len(l)
      <4> SUFFICES ASSUME Len(l) < n  PROVE FALSE
        BY <1>1, <1>3
      <4> DEFINE e == Len(l)
      <4>1. e \in 1..Len(lead[t]) /\ e \in 1..n /\ e \in 1..Len(l)
        BY <1>1, <1>2, <1>3, <2>1
      <4>2. lead[t][e].term <= t
        BY <4>1 DEF LeadInv
      <4>3. l[e] = lead[v][e] /\ lead[v][e] = lead[t][e]
        BY <4>1, <2>2, <2>5 DEF Agree
      <4> QED  BY <1>1, <1>5, <1>8, <2>2, <4>2, <4>3
    <3>2. Agree(l, lead[t], n)
      BY <1>1, <1>2, <1>3, <2>2, <2>5, <3>1 DEF Agree
    <3> QED  BY <3>2 DEF Safe
  <2>6. CASE Lost(ack, t, n)
    BY <2>6 DEF Safe
  <2> QED  BY <2>4, <2>5, <2>6 DEF Safe
<1> QED  BY <1>7, <1>8

\* A voter that grants its vote casts it, for a log that has what its own has.
LEMMA RequestVoteSafe ==
    ASSUME Reliable, TypeOK, TypeOK', FileIsMemory', AppliedInv,
           NEW m \in voteReqs, HandleRequestVote(m),
           NEW won, NEW lead, NEW cast, NEW ack, NEW cast2,
           HistoryType(won, lead, cast, ack), HistoryInv(won, lead, cast, ack),
           cast2 = IF MayGrant(m) THEN cast \cup {<<m.to, m.from, m.term>>} ELSE cast
    PROVE  HistoryType(won, lead, cast2, ack) /\ HistoryInv(won, lead, cast2, ack)'
<1> DEFINE r == m.to
           c1 == m.from
<1>1. /\ CastInv(cast) /\ WonInv(won, cast) /\ LeadInv(won, lead)
      /\ VoteReqInv /\ AppendReqInv(won, lead, ack) /\ AckInv(lead, ack)
      /\ KeepInv(won, lead, cast, ack) /\ CommitInv(lead, ack)
  BY DEF HistoryInv
<1>2. r \in Server /\ c1 \in Server /\ m.term \in Nat
  BY DEF TypeOK, VoteReq
<1>3. \A p \in Server : term[p] \in Nat /\ term'[p] \in Nat
  BY DEF TypeOK
<1>4. /\ term'[r] = TermAfter(r, m.term)
      /\ state'[r] = IF m.term > term[r] THEN Follower ELSE state[r]
      /\ votedFor'[r] = IF MayGrant(m) THEN c1 ELSE VoteAfter(r, m.term)
      /\ \A p \in Server \ {r} : /\ term'[p] = term[p] /\ votedFor'[p] = votedFor[p]
                                 /\ state'[p] = state[p]
  BY <1>2, ZenonT(90) DEF TypeOK, HandleRequestVote
<1>5. /\ log' = log /\ votes' = votes /\ voteReqs' \subseteq voteReqs /\ appendReqs' = appendReqs
      /\ appendResps' = appendResps /\ matchIndex' = matchIndex
  BY DEF HandleRequestVote, leaderVars, appendMsgs
<1>6. /\ m.term > term[r] => term'[r] = m.term /\ state'[r] = Follower
      /\ ~(m.term > term[r]) => term'[r] = term[r] /\ state'[r] = state[r]
  BY <1>4 DEF TermAfter
<1>7. MayGrant(m) => /\ term'[r] = m.term /\ votedFor'[r] = c1
                     /\ m.term = term[r] => votedFor[r] \in {Nil, c1}
  BY <1>2, <1>3, <1>4 DEF MayGrant, VoteAfter
<1>8. ~MayGrant(m) => (term'[r] = term[r] => votedFor'[r] = votedFor[r])
  BY <1>2, <1>3, <1>4, <1>6 DEF VoteAfter
<1> HIDE DEF r, c1
<1>9. TermsGrow /\ NoNewRoles /\ NoNewLeaders
  BY <1>2, <1>3, <1>4, <1>6 DEF TermsGrow, NoNewRoles, NoNewLeaders, Leader, Follower
<1>10. cast \subseteq cast2 /\ \A x \in cast2 : x \in cast \/ (MayGrant(m) /\ x = <<r, c1, m.term>>)
  BY DEF r, c1
<1>11. HistoryType(won, lead, cast2, ack)
  <2>1. <<r, c1, m.term>> \in Server \X Server \X Nat
    BY <1>2
  <2>2. cast2 \subseteq Server \X Server \X Nat
    BY <1>10, <2>1 DEF HistoryType
  <2> QED  BY <2>2 DEF HistoryType
<1>12. m.term <= term[c1]
  BY <1>1 DEF VoteReqInv, c1
<1>13. CastInv(cast2)'
  <2>1. ASSUME NEW p \in Server, NEW c \in Server, NEW t \in Nat, <<p, c, t>> \in cast2
        PROVE  t <= term'[c] /\ t <= term'[p] /\ (t = term'[p] => votedFor'[p] = c)
    <3>1. CASE <<p, c, t>> \in cast
      <4>1. t <= term[c] /\ t <= term[p] /\ (t = term[p] => votedFor[p] = c)
        BY <1>1, <3>1 DEF CastInv
      <4>2. c # Nil
        BY ServerAssumption
      <4>3. t <= term'[c] /\ t <= term'[p]
        BY <1>3, <1>9, <4>1 DEF TermsGrow
      <4>4. ASSUME t = term'[p]  PROVE votedFor'[p] = c
        <5>1. term[p] = t /\ votedFor[p] = c
          BY <1>3, <1>9, <4>1, <4>4 DEF TermsGrow
        <5>2. CASE p = r
          BY <1>2, <1>7, <1>8, <4>2, <4>4, <5>1, <5>2
        <5>3. CASE p # r
          BY <1>4, <5>1, <5>3
        <5> QED  BY <5>2, <5>3
      <4> QED  BY <4>3, <4>4
    <3>2. CASE MayGrant(m) /\ <<p, c, t>> = <<r, c1, m.term>>
      <4>1. p = r /\ c = c1 /\ t = m.term
        BY <3>2
      <4>2. term[c1] <= term'[c1]
        BY <1>2, <1>9 DEF TermsGrow
      <4> QED  BY <1>2, <1>3, <1>7, <1>12, <3>2, <4>1, <4>2
    <3> QED  BY <1>10, <2>1, <3>1, <3>2
  <2>2. ASSUME NEW p \in Server, NEW c \in Server, NEW d \in Server, NEW t \in Nat,
               <<p, c, t>> \in cast2, <<p, d, t>> \in cast2
        PROVE  c = d
    <3>1. CASE <<p, c, t>> \in cast /\ <<p, d, t>> \in cast
      BY <1>1, <3>1 DEF CastInv
    <3>2. CASE MayGrant(m) /\ p = r /\ t = m.term
      <4>1. t = term'[p]
        BY <1>7, <3>2
      <4>2. votedFor'[p] = c /\ votedFor'[p] = d
        BY <2>1, <2>2, <4>1
      <4> QED  BY <4>2
    <3> QED  BY <1>10, <2>2, <3>1, <3>2
  <2>3. ASSUME NEW c \in Server, state'[c] # Follower, NEW p \in votes'[c]
        PROVE  <<p, c, term'[c]>> \in cast2
    BY <1>1, <1>5, <1>9, <1>10, <2>3 DEF CastInv, NoNewRoles
  <2>4. ASSUME NEW k \in voteResps', k.granted
        PROVE  <<k.from, k.to, k.savedTerm>> \in cast2
    <3>1. CASE k \in voteResps
      BY <1>1, <1>10, <2>4, <3>1 DEF CastInv
    <3>2. CASE k \notin voteResps
      <4>1. MayGrant(m) /\ k.from = r /\ k.to = c1 /\ k.savedTerm = m.term
        <5>1. PICK ok \in BOOLEAN :
                voteResps' = voteResps \cup
                    Answer(m, [from |-> m.to, to |-> m.from, savedTerm |-> m.term,
                               term |-> TermAfter(m.to, m.term),
                               granted |-> MayGrant(m) /\ ok])
          BY DEF HandleRequestVote, PersistOutcomes
        <5>2. k = [from |-> m.to, to |-> m.from, savedTerm |-> m.term,
                   term |-> TermAfter(m.to, m.term), granted |-> MayGrant(m) /\ ok]
          BY <2>4, <3>2, <5>1 DEF Answer
        <5>3. k.granted = (MayGrant(m) /\ ok)
          BY <5>2
        <5> QED  BY <2>4, <5>2, <5>3 DEF r, c1
      <4> QED  BY <4>1 DEF r, c1
    <3> QED  BY <3>1, <3>2
  <2> QED  BY <2>1, <2>2, <2>3, <2>4 DEF CastInv
<1>14. WonInv(won, cast2)'
  <2>1. won \in [Nat -> Server \cup {Nil}]
    BY DEF HistoryType
  <2>2. \A p \in Server : state'[p] = Candidate /\ term'[p] = term[p] => state[p] = Candidate
    BY <1>9 DEF NoNewRoles, Candidate, Follower
  <2> QED  BY <1>1, <1>9, <1>10, <2>1, <2>2, WonFrame
<1>15. LeadInv(won, lead)'
  BY <1>1, <1>5, <1>9, LeadFrame
<1>16. VoteReqInv'
  BY <1>1, <1>5, <1>9, FewerCalls, VoteReqFrame
<1>17. AppendReqInv(won, lead, ack)'
  BY <1>1, <1>5, FewerCalls, AppendReqFrame
<1>18. AckInv(lead, ack)'
  BY <1>1, <1>5, <1>9, AckFrame
<1>19. KeepInv(won, lead, cast2, ack)'
  <2>1. lead \in LeaderLogs
    BY DEF HistoryType
  <2>2. HistoryGrows(won, lead, ack, won, lead, ack)
    BY <1>9, <2>1, SameHistory
  <2>3. \A p \in Server : log[p] \in Seq(Entry) /\ log'[p] = log[p]
    BY <1>5 DEF TypeOK
  <2> SUFFICES ASSUME NEW t \in Nat, NEW n \in Nat, Own(lead, t, n)
               PROVE
              /\ \A p \in Server : <<p, t, n>> \in ack => SafeNext(lead, ack, log'[p], t, n)
              /\ \A u \in Nat : t < u /\ won[u] # Nil => SafeNext(lead, ack, lead[u], t, n)
              /\ \A p, c \in Server :
                    /\ state'[c] = Candidate /\ t < term'[c]
                    /\ <<p, c, term'[c]>> \in cast2 /\ <<p, t, n>> \in ack
                    => SafeNext(lead, ack, log'[c], t, n)
    BY KeepNext
  <2>4. ASSUME NEW l \in Seq(Entry), Safe(lead, ack, l, t, n)  PROVE SafeNext(lead, ack, l, t, n)
    BY <2>1, <2>2, <2>4, SafeStays
  <2>5. ASSUME NEW p \in Server, <<p, t, n>> \in ack  PROVE SafeNext(lead, ack, log'[p], t, n)
    BY <1>1, <2>3, <2>4, <2>5 DEF KeepInv
  <2>6. ASSUME NEW u \in Nat, t < u, won[u] # Nil  PROVE SafeNext(lead, ack, lead[u], t, n)
    BY <1>1, <2>1, <2>4, <2>6, LogOfLeader DEF KeepInv
  <2>7. ASSUME NEW p \in Server, NEW c \in Server, state'[c] = Candidate, t < term'[c],
               <<p, c, term'[c]>> \in cast2, <<p, t, n>> \in ack
        PROVE  SafeNext(lead, ack, log'[c], t, n)
    <3>1. state[c] = Candidate /\ term'[c] = term[c]
      BY <1>9, <2>7 DEF NoNewRoles, Candidate, Follower
    <3>2. Safe(lead, ack, log[c], t, n)
      <4>1. CASE <<p, c, term[c]>> \in cast
        BY <1>1, <2>7, <3>1, <4>1 DEF KeepInv
      <4>2. CASE MayGrant(m) /\ p = r /\ c = c1 /\ term[c] = m.term
        <5>1. Safe(lead, ack, log[r], t, n)
          BY <1>1, <1>2, <2>7, <4>2 DEF KeepInv
        <5>2. CASE Lost(ack, t, n)
          BY <5>2 DEF Safe
        <5>3. CASE Agree(log[r], lead[t], n)
          <6>1. m.lastIndex = Len(log[c1]) /\ m.lastTerm = LastTerm(log[c1])
            BY <1>1, <3>1, <4>2 DEF VoteReqInv, c1
          <6>2. \/ LastTerm(log[c1]) > LastTerm(log[r])
                \/ LastTerm(log[c1]) = LastTerm(log[r]) /\ Len(log[c1]) >= Len(log[r])
            BY <4>2, <6>1 DEF MayGrant, isCandidateUpToDate, LastIndex, r
          <6>3. Sound(lead, log[c1]) /\ Sound(lead, log[r])
            BY <1>1, <1>2 DEF LeadInv
          <6> QED  BY <1>1, <1>2, <2>3, <4>2, <5>3, <6>2, <6>3, UpToDateIsSafe
        <5> QED  BY <5>1, <5>2, <5>3 DEF Safe
      <4> QED  BY <1>10, <2>7, <3>1, <4>1, <4>2
    <3> QED  BY <2>3, <2>4, <3>2
  <2> QED  BY <2>5, <2>6, <2>7
<1>20. CommitInv(lead, ack)'
  <2>1. CommitsShrink
    BY NothingApplied DEF HandleRequestVote
  <2> QED  BY <1>1, <1>5, <1>9, <2>1, CommitFrame
<1> QED
  BY <1>11, <1>13, <1>14, <1>15, <1>16, <1>17, <1>18, <1>19, <1>20 DEF HistoryInv

-----------------------------------------------------------------------------
(* What a growing history does to what was said of it before: nothing.     *)

\* A log that came from leaders still does.
LEMMA SoundStays ==
    ASSUME NEW won, NEW lead, NEW ack, NEW won2, NEW lead2, NEW ack2,
           HistoryGrows(won, lead, ack, won2, lead2, ack2),
           lead \in LeaderLogs, lead2 \in LeaderLogs,
           NEW l \in Seq(Entry), Sound(lead, l)
    PROVE  Sound(lead2, l)
<1> SUFFICES ASSUME NEW i \in 1..Len(l)  PROVE Agree(l, lead2[l[i].term], i)
  BY DEF Sound
<1> DEFINE t == l[i].term
<1>1. t \in Nat
  BY EntryHasTerm
<1>2. Agree(l, lead[t], i)
  BY DEF Sound
<1> HIDE DEF t
<1>3. lead[t] \in Seq(Entry) /\ lead2[t] \in Seq(Entry) /\ Len(lead[t]) \in Nat
      /\ Len(lead2[t]) \in Nat
  BY <1>1, LogOfLeader
<1>4. Agree(lead2[t], lead[t], Len(lead[t]))
  BY <1>1 DEF HistoryGrows
<1>5. /\ i <= Len(l) /\ i <= Len(lead[t]) /\ \A k \in 1..i : l[k] = lead[t][k]
      /\ Len(lead[t]) <= Len(lead2[t])
      /\ \A k \in 1..Len(lead[t]) : lead2[t][k] = lead[t][k]
  BY <1>2, <1>4 DEF Agree
<1>6. i \in Nat /\ i <= Len(lead2[t]) /\ \A k \in 1..i : k \in 1..Len(lead[t])
  BY <1>3, <1>5, LenProperties
<1>7. \A k \in 1..i : l[k] = lead2[t][k]
  BY <1>5, <1>6, Zenon
<1>8. Agree(l, lead2[t], i)
  BY <1>5, <1>6, <1>7 DEF Agree
<1> QED  BY <1>8 DEF t

\* What was committed still is.
LEMMA CommittedStays ==
    ASSUME NEW won, NEW lead, NEW ack, NEW won2, NEW lead2, NEW ack2,
           HistoryGrows(won, lead, ack, won2, lead2, ack2),
           lead \in LeaderLogs, lead2 \in LeaderLogs,
           NEW l \in Seq(Entry), NEW t \in Nat, NEW n \in Nat, Committed(lead, ack, l, t, n)
    PROVE  Committed(lead2, ack2, l, t, n)
<1> SUFFICES ASSUME n > 0
             PROVE  \E s \in 0..t : \E k \in Nat :
                       /\ n <= k /\ Own(lead2, s, k) /\ Chosen(ack2, s, k)
                       /\ Agree(l, lead2[s], n)
  BY DEF Committed
<1>1. PICK s \in 0..t : \E k \in Nat : /\ n <= k /\ Own(lead, s, k) /\ Chosen(ack, s, k)
                                       /\ Agree(l, lead[s], n)
  BY DEF Committed
<1>2. PICK k \in Nat : n <= k /\ Own(lead, s, k) /\ Chosen(ack, s, k) /\ Agree(l, lead[s], n)
  BY <1>1
<1>3. lead[s] \in Seq(Entry) /\ lead2[s] \in Seq(Entry) /\ Len(lead[s]) \in Nat
      /\ Len(lead2[s]) \in Nat
  BY LogOfLeader
<1>4. Agree(lead2[s], lead[s], Len(lead[s]))
  BY DEF HistoryGrows
<1>5. Own(lead2, s, k)
  BY <1>2, <1>3, <1>4 DEF Own, Agree
<1>6. Chosen(ack2, s, k)
  BY <1>2 DEF Chosen, HistoryGrows
<1>7. Agree(l, lead2[s], n)
  BY <1>2, <1>3, <1>4, SMTT(90) DEF Agree
<1> QED  BY <1>2, <1>5, <1>6, <1>7

\* A log that agrees with a committed one is committed.
LEMMA CommittedMoves ==
    ASSUME NEW lead, NEW ack, lead \in LeaderLogs, NEW l \in Seq(Entry), NEW k \in Seq(Entry),
           NEW t \in Nat, NEW n \in Nat, Committed(lead, ack, l, t, n), Agree(k, l, n)
    PROVE  Committed(lead, ack, k, t, n)
<1>1. \A s \in 0..t : lead[s] \in Seq(Entry)
  BY LogOfLeader
<1>2. \A s \in 0..t : Agree(l, lead[s], n) => Agree(k, lead[s], n)
  BY <1>1, AgreeFacts
<1> QED  BY <1>2 DEF Committed

\* Calls for entries still say the truth.
LEMMA AppendReqStays ==
    ASSUME TypeOK, NEW won, NEW lead, NEW cast, NEW ack, NEW won2, NEW lead2, NEW cast2, NEW ack2,
           HistoryType(won, lead, cast, ack), HistoryType(won2, lead2, cast2, ack2),
           HistoryGrows(won, lead, ack, won2, lead2, ack2),
           AppendReqInv(won, lead, ack), SameAppendReqs
    PROVE  AppendReqInv(won2, lead2, ack2)'
<1>1. ASSUME NEW m \in appendReqs
      PROVE  LET sent == m.prevIndex + Len(m.entries) IN
             /\ won2[m.term] # Nil
             /\ sent <= Len(lead2[m.term])
             /\ m.prevTerm = TermAt(lead2[m.term], m.prevIndex)
             /\ \A k \in 1..Len(m.entries) : m.entries[k] = lead2[m.term][m.prevIndex + k]
             /\ m.leaderCommit <= sent
             /\ Committed(lead2, ack2, lead2[m.term], m.term, m.leaderCommit)
  <2> DEFINE t == m.term
             sent == m.prevIndex + Len(m.entries)
             j == m.prevIndex
             len == Len(m.entries)
  <2>1. /\ t \in Nat /\ j \in Nat /\ len \in Nat /\ sent \in Nat
        /\ m.leaderCommit \in Nat
    <3>1. m \in AppendReq
      BY DEF TypeOK
    <3>2. t \in Nat /\ j \in Nat /\ m.entries \in Seq(Entry) /\ m.leaderCommit \in Nat
      BY <3>1 DEF AppendReq
    <3>3. len \in Nat
      BY <3>2, LenProperties
    <3> QED  BY <3>2, <3>3
  <2>2. /\ won[t] # Nil /\ sent <= Len(lead[t]) /\ m.prevTerm = TermAt(lead[t], j)
        /\ \A k \in 1..len : m.entries[k] = lead[t][j + k]
        /\ m.leaderCommit <= sent /\ Committed(lead, ack, lead[t], t, m.leaderCommit)
    BY DEF AppendReqInv
  <2>3. sent = j + len
    OBVIOUS
  <2> HIDE DEF t, sent, j, len
  <2>4. lead \in LeaderLogs /\ lead2 \in LeaderLogs
    BY DEF HistoryType
  <2>5. lead[t] \in Seq(Entry) /\ lead2[t] \in Seq(Entry)
    BY <2>1, <2>4, LogOfLeader
  <2>6. Len(lead[t]) \in Nat /\ Len(lead2[t]) \in Nat
    BY <2>5, LenProperties
  <2>7. Agree(lead2[t], lead[t], Len(lead[t])) /\ won2[t] # Nil
    BY <2>1, <2>2 DEF HistoryGrows
  <2>8. /\ Len(lead[t]) <= Len(lead2[t])
        /\ \A i \in 1..Len(lead[t]) : lead2[t][i] = lead[t][i]
    BY <2>7 DEF Agree
  <2>9. sent <= Len(lead2[t])
    BY <2>1, <2>2, <2>6, <2>8
  <2>10. m.prevTerm = TermAt(lead2[t], j)
    <3>1. j <= Len(lead[t])
      BY <2>1, <2>2, <2>3, <2>6
    <3> QED  BY <2>1, <2>2, <2>6, <2>8, <3>1 DEF TermAt
  <2>11. \A k \in 1..len : m.entries[k] = lead2[t][j + k]
    <3>1. \A k \in 1..len : j + k \in 1..Len(lead[t])
      BY <2>1, <2>2, <2>3, <2>6, SMTT(90)
    <3> QED  BY <2>2, <2>8, <3>1
  <2>12. Committed(lead2, ack2, lead2[t], t, m.leaderCommit)
    <3>1. Committed(lead2, ack2, lead[t], t, m.leaderCommit)
      BY <2>1, <2>2, <2>4, <2>5, CommittedStays
    <3>2. m.leaderCommit \in 0..Len(lead[t])
      BY <2>1, <2>2, <2>6
    <3>3. Agree(lead2[t], lead[t], m.leaderCommit)
      BY <2>5, <2>6, <2>7, <3>2, AgreeFacts
    <3> QED  BY <2>1, <2>4, <2>5, <3>1, <3>3, CommittedMoves
  <2>13. m.leaderCommit <= sent
    BY <2>2
  <2> QED  BY <2>7, <2>9, <2>10, <2>11, <2>12, <2>13 DEF t, sent, j, len
<1>2. AppendReqInv(won2, lead2, ack2)
  BY <1>1 DEF AppendReqInv
<1> QED  BY <1>2, AppendReqFrame

\* Commit indexes do not grow, and logs keep what is below them.
LEMMA CommitStays ==
    ASSUME TypeOK, TypeOK', NEW won, NEW lead, NEW cast, NEW ack, NEW won2, NEW lead2, NEW cast2, NEW ack2,
           HistoryType(won, lead, cast, ack), HistoryType(won2, lead2, cast2, ack2),
           HistoryGrows(won, lead, ack, won2, lead2, ack2),
           CommitInv(lead, ack), CommitsShrink, NEW r \in Server,
           Agree(log'[r], log[r], commitIndex[r])
    PROVE  /\ Committed(lead2, ack2, log'[r], term'[r], commitIndex'[r])
           /\ Len(wal'[r]) <= lastApplied'[r] /\ lastApplied'[r] <= commitIndex'[r]
<1>1. /\ term[r] \in Nat /\ term'[r] \in Nat /\ commitIndex[r] \in Nat /\ commitIndex'[r] \in Nat
      /\ log[r] \in Seq(Entry) /\ log'[r] \in Seq(Entry)
  BY DEF TypeOK
<1>2. lead \in LeaderLogs /\ lead2 \in LeaderLogs
  BY DEF HistoryType
<1>3. Committed(lead, ack, log[r], term[r], commitIndex[r])
  BY DEF CommitInv
<1>4. Committed(lead2, ack2, log[r], term[r], commitIndex[r])
  BY <1>1, <1>2, <1>3, CommittedStays
<1>5. Committed(lead2, ack2, log'[r], term[r], commitIndex[r])
  BY <1>1, <1>2, <1>4, CommittedMoves
<1>6. term[r] <= term'[r] /\ commitIndex'[r] <= commitIndex[r]
  BY DEF HistoryGrows, CommitsShrink
<1>7. Committed(lead2, ack2, log'[r], term'[r], commitIndex'[r])
  BY <1>1, <1>2, <1>5, <1>6, CommittedLess
<1> QED  BY <1>7 DEF CommitsShrink

\* The commit index of a server is within its log.
LEMMA CommitWithin ==
    ASSUME TypeOK, NEW won, NEW lead, NEW cast, NEW ack, HistoryType(won, lead, cast, ack),
           CommitInv(lead, ack), NEW r \in Server
    PROVE  commitIndex[r] \in Nat /\ Len(log[r]) \in Nat /\ commitIndex[r] <= Len(log[r])
<1>1. commitIndex[r] \in Nat /\ Len(log[r]) \in Nat
  BY LenProperties DEF TypeOK
<1>2. Committed(lead, ack, log[r], term[r], commitIndex[r])
  BY DEF CommitInv
<1> QED  BY <1>1, <1>2 DEF Committed, Agree

-----------------------------------------------------------------------------
(* Counting votes.                                                         *)

\* Every vote a candidate counts was cast for it in its term, and the count
\* leaves CastInv alone, elected or not.
LEMMA CountedWereCast ==
    ASSUME TypeOK, TypeOK', NEW m \in voteResps, CountVote(m), NEW cast, CastInv(cast)
    PROVE  /\ CastInv(cast)'
           /\ \A p \in votes'[m.to] : <<p, m.to, term[m.to]>> \in cast
<1> DEFINE r == m.to
<1>1. r \in Server
  BY DEF TypeOK, VoteResp
<1>2. /\ state[r] = Candidate /\ term[r] = m.savedTerm
      /\ term' = term /\ votedFor' = votedFor /\ voteResps' \subseteq voteResps
      /\ \A p \in votes'[r] : p \in votes[r] \/ (m.granted /\ p = m.from)
      /\ \A c \in Server \ {r} : votes'[c] = votes[c] /\ state'[c] = state[c]
  <2>1. /\ state[r] = Candidate /\ term[r] = m.savedTerm
        /\ term' = term /\ votedFor' = votedFor /\ voteResps' \subseteq voteResps
    BY DEF CountVote
  <2>2. votes' = [votes EXCEPT ![r] = IF m.term = m.savedTerm /\ m.granted
                                      THEN votes[r] \cup {m.from} ELSE votes[r]]
    BY DEF CountVote
  <2>3. state' = [state EXCEPT ![r] = Leader] \/ state' = state
    BY DEF CountVote, becameLeader
  <2>4. \A p \in votes'[r] : p \in votes[r] \/ (m.granted /\ p = m.from)
    <3>1. votes'[r] = IF m.term = m.savedTerm /\ m.granted
                      THEN votes[r] \cup {m.from} ELSE votes[r]
      BY <1>1, <2>2 DEF TypeOK
    <3>2. CASE m.granted
      BY <3>1, <3>2
    <3>3. CASE ~m.granted
      BY <3>1, <3>3
    <3> QED  BY <3>2, <3>3
  <2>5. \A c \in Server \ {r} : votes'[c] = votes[c] /\ state'[c] = state[c]
    <3>1. \E x : votes' = [votes EXCEPT ![r] = x]
      BY <2>2
    <3>2. \A c \in Server \ {r} : votes'[c] = votes[c]
      BY <3>1 DEF TypeOK
    <3>3. \A c \in Server \ {r} : state'[c] = state[c]
      BY <2>3 DEF TypeOK
    <3> QED  BY <3>2, <3>3
  <2> QED  BY <2>1, <2>4, <2>5
<1>3. ASSUME NEW p \in votes'[r]  PROVE <<p, r, term[r]>> \in cast
  <2>1. state[r] # Follower
    BY <1>2 DEF Candidate, Follower
  <2>2. CASE p \in votes[r]
    BY <1>1, <2>1, <2>2 DEF CastInv
  <2>3. CASE m.granted /\ p = m.from
    BY <1>2, <2>3 DEF CastInv
  <2> QED  BY <1>2, <2>2, <2>3
<1> HIDE DEF r
<1>4. ASSUME NEW c \in Server, state'[c] # Follower, NEW p \in votes'[c]
      PROVE  <<p, c, term'[c]>> \in cast
  <2>1. CASE c = r
    BY <1>2, <1>3, <1>4, <2>1
  <2>2. CASE c # r
    BY <1>2, <1>4, <2>2 DEF CastInv
  <2> QED  BY <2>1, <2>2
<1>5. CastInv(cast)'
  BY <1>2, <1>4 DEF CastInv
<1> QED  BY <1>3, <1>5 DEF r

\* A count that elects nobody changes nothing.
LEMMA CountedSafe ==
    ASSUME TypeOK, TypeOK', FileIsMemory', AppliedInv, NEW m \in voteResps, CountVote(m),
           UNCHANGED <<state, leaderVars>>,
           NEW won, NEW lead, NEW cast, NEW ack,
           HistoryType(won, lead, cast, ack), HistoryInv(won, lead, cast, ack)
    PROVE  HistoryInv(won, lead, cast, ack)'
<1>1. /\ CastInv(cast) /\ WonInv(won, cast) /\ LeadInv(won, lead)
      /\ VoteReqInv /\ AppendReqInv(won, lead, ack) /\ AckInv(lead, ack)
      /\ KeepInv(won, lead, cast, ack) /\ CommitInv(lead, ack)
  BY DEF HistoryInv
<1>2. /\ term' = term /\ log' = log /\ voteReqs' = voteReqs /\ appendReqs' = appendReqs
      /\ appendResps' = appendResps
      /\ state' = state /\ matchIndex' = matchIndex
  BY DEF CountVote, leaderVars
<1>3. \A p \in Server : term[p] \in Nat
  BY DEF TypeOK
<1>4. TermsGrow /\ NoNewRoles /\ NoNewLeaders
  BY <1>2, <1>3 DEF TermsGrow, NoNewRoles, NoNewLeaders
<1>5. CastInv(cast)'
  BY <1>1, CountedWereCast
<1>6. WonInv(won, cast)'
  <2>1. won \in [Nat -> Server \cup {Nil}]
    BY DEF HistoryType
  <2> QED  BY <1>1, <1>2, <1>4, <2>1, WonFrame
<1>7. LeadInv(won, lead)'
  BY <1>1, <1>2, <1>4, LeadFrame
<1>8. VoteReqInv'
  BY <1>1, <1>2, <1>4, FewerCalls, VoteReqFrame
<1>9. AppendReqInv(won, lead, ack)'
  BY <1>1, <1>2, FewerCalls, AppendReqFrame
<1>10. AckInv(lead, ack)'
  BY <1>1, <1>2, <1>4, AckFrame
<1>11. KeepInv(won, lead, cast, ack)'
  BY <1>1, <1>2, <1>4, KeepFrame
<1>12. CommitInv(lead, ack)'
  <2>1. CommitsShrink
    BY NothingApplied DEF CountVote
  <2> QED  BY <1>1, <1>2, <1>4, <2>1, CommitFrame
<1> QED
  BY <1>5, <1>6, <1>7, <1>8, <1>9, <1>10, <1>11, <1>12 DEF HistoryInv

\* A majority of the votes of a term is cast for one server: nobody has won
\* the term of a candidate that gets one.
LEMMA TermIsOpen ==
    ASSUME TypeOK, NEW won, NEW cast, won \in [Nat -> Server \cup {Nil}],
           CastInv(cast), WonInv(won, cast),
           NEW r \in Server, state[r] = Candidate,
           NEW Q \in Majority, \A p \in Q : <<p, r, term[r]>> \in cast
    PROVE  won[term[r]] = Nil
<1> SUFFICES ASSUME won[term[r]] # Nil  PROVE FALSE
  OBVIOUS
<1> DEFINE t == term[r]
           w == won[t]
<1>1. t \in Nat /\ w \in Server
  <2>1. t \in Nat
    BY DEF TypeOK
  <2> QED  BY <2>1
<1>2. /\ \E R \in Majority : \A p \in R : <<p, w, t>> \in cast
      /\ t = term[w] => state[w] # Candidate
  BY <1>1 DEF WonInv
<1>3. PICK R \in Majority : \A p \in R : <<p, w, t>> \in cast
  BY <1>2
<1>4. PICK p \in Q : p \in R
  BY MajoritiesMeet
<1>5. p \in Server /\ <<p, w, t>> \in cast /\ <<p, r, t>> \in cast
  BY <1>3, <1>4 DEF Majority
<1> HIDE DEF w
<1>6. w = r
  BY <1>1, <1>5 DEF CastInv
<1> QED  BY <1>2, <1>6

\* A candidate that wins has everything that can still be chosen in an earlier
\* term: one of its voters had it, or a majority has left that term without.
LEMMA WinnerIsSafe ==
    ASSUME TypeOK, NEW won, NEW lead, NEW cast, NEW ack,
           CastInv(cast), KeepInv(won, lead, cast, ack),
           NEW r \in Server, state[r] = Candidate,
           NEW Q \in Majority, \A p \in Q : <<p, r, term[r]>> \in cast,
           NEW t \in Nat, NEW n \in Nat, Own(lead, t, n), t < term[r]
    PROVE  Safe(lead, ack, log[r], t, n)
<1>1. CASE \E p \in Q : <<p, t, n>> \in ack
  <2>1. PICK p \in Q : <<p, t, n>> \in ack
    BY <1>1
  <2>2. p \in Server /\ <<p, r, term[r]>> \in cast
    BY DEF Majority
  <2> QED  BY <2>1, <2>2 DEF KeepInv
<1>2. CASE \A p \in Q : <<p, t, n>> \notin ack
  <2>1. ASSUME NEW p \in Q  PROVE term[p] > t
    <3>1. p \in Server /\ term[p] \in Nat /\ term[r] \in Nat
      BY DEF Majority, TypeOK
    <3>2. term[r] <= term[p]
      BY <3>1 DEF CastInv
    <3> QED  BY <3>1, <3>2
  <2> QED  BY <1>2, <2>1 DEF Safe, Lost
<1> QED  BY <1>1, <1>2

\* The candidate that wins becomes the leader of its term, with its log.
LEMMA ElectedSafe ==
    ASSUME TypeOK, TypeOK', FileIsMemory', AppliedInv, NEW m \in voteResps, CountVote(m),
           NEW r, r = m.to, NEW T, T = term[r],
           becameLeader(r), IsMajority(Cardinality(votes'[r])),
           NEW won, NEW lead, NEW cast, NEW ack,
           HistoryType(won, lead, cast, ack), HistoryInv(won, lead, cast, ack)
    PROVE  \E won2, lead2, ack2 :
              HistoryType(won2, lead2, cast, ack2) /\ HistoryInv(won2, lead2, cast, ack2)'
<1>0. PICK won2, lead2, ack2 :
          /\ won2 = [won EXCEPT ![T] = r]
          /\ lead2 = [lead EXCEPT ![T] = log[r]]
          /\ ack2 = ack \cup {<<r, T, k>> : k \in 1..Len(log[r])}
  OBVIOUS
<1>1. /\ CastInv(cast) /\ WonInv(won, cast) /\ LeadInv(won, lead)
      /\ VoteReqInv /\ AppendReqInv(won, lead, ack) /\ AckInv(lead, ack)
      /\ KeepInv(won, lead, cast, ack) /\ CommitInv(lead, ack)
  BY DEF HistoryInv
<1>2. r \in Server /\ T \in Nat /\ r # Nil
  <2>1. r \in Server
    BY DEF TypeOK, VoteResp
  <2> QED  BY <2>1, ServerAssumption DEF TypeOK
<1>3. \A p \in Server : term[p] \in Nat /\ log[p] \in Seq(Entry) /\ Len(log[p]) \in Nat
  BY LenProperties DEF TypeOK
<1>4. /\ term' = term /\ votedFor' = votedFor /\ log' = log /\ voteReqs' = voteReqs
      /\ appendReqs' = appendReqs /\ appendResps' = appendResps
      /\ state[r] = Candidate
  BY DEF CountVote
<1>5. /\ state'[r] = Leader
      /\ \A p \in Peers(r) : matchIndex'[r][p] = 0
      /\ \A p \in Server \ {r} : state'[p] = state[p] /\ matchIndex'[p] = matchIndex[p]
  BY <1>2, SMTT(30) DEF TypeOK, becameLeader, Peers
<1> DEFINE Q == votes'[r]
<1>6. Q \in Majority /\ \A p \in Q : <<p, r, T>> \in cast
  <2>1. Q \subseteq Server
    BY <1>2 DEF TypeOK
  <2>2. \A p \in Q : <<p, r, T>> \in cast
    BY <1>1, CountedWereCast
  <2> QED  BY <2>1, <2>2 DEF Majority
<1> HIDE DEF Q
<1>7. won[T] = Nil /\ lead[T] = <<>>
  <2>1. won[T] = Nil
    <3>1. won \in [Nat -> Server \cup {Nil}]
      BY DEF HistoryType
    <3> QED  BY <1>1, <1>2, <1>4, <1>6, <3>1, TermIsOpen
  <2> QED  BY <1>1, <1>2, <2>1 DEF LeadInv
<1>8. /\ lead \in LeaderLogs /\ lead2 \in LeaderLogs
      /\ lead2[T] = log[r] /\ \A t \in Nat \ {T} : lead2[t] = lead[t]
  BY <1>0, <1>2, <1>3 DEF HistoryType, LeaderLogs
<1>9. /\ won2 \in [Nat -> Server \cup {Nil}]
      /\ won2[T] = r /\ \A t \in Nat \ {T} : won2[t] = won[t]
  BY <1>0, <1>2 DEF HistoryType
<1>10. /\ ack \subseteq ack2
       /\ \A p \in Server, t, n \in Nat : <<p, t, n>> \in ack2 =>
             \/ <<p, t, n>> \in ack
             \/ p = r /\ t = T /\ n \in 1..Len(log[r])
       /\ \A n \in 1..Len(log[r]) : <<r, T, n>> \in ack2
  BY <1>0
<1>11. HistoryType(won2, lead2, cast, ack2)
  <2>1. ack2 \subseteq Server \X Nat \X Nat
    <3>1. \A k \in 1..Len(log[r]) : <<r, T, k>> \in Server \X Nat \X Nat
      BY <1>2, <1>3
    <3> QED  BY <1>0, <3>1 DEF HistoryType
  <2>2. cast \subseteq Server \X Server \X Nat
    BY DEF HistoryType
  <2> QED  BY <1>8, <1>9, <2>1, <2>2 DEF HistoryType
<1>12. HistoryGrows(won, lead, ack, won2, lead2, ack2)
  <2>1. ASSUME NEW t \in Nat  PROVE Agree(lead2[t], lead[t], Len(lead[t]))
    <3>1. CASE t = T
      <4>1. Len(lead[t]) = 0
        BY <1>7, <3>1
      <4>2. 0 <= Len(lead2[t])
        BY <1>2, <1>3, <1>8, <3>1
      <4> QED  BY <4>1, <4>2 DEF Agree
    <3>2. CASE t # T
      BY <1>8, <3>2, LogOfLeader, AgreeFacts
    <3> QED  BY <3>1, <3>2
  <2>2. \A t \in Nat : won[t] # Nil => won2[t] = won[t]
    BY <1>7, <1>9
  <2>3. \A p \in Server : term[p] <= term'[p]
    BY <1>3, <1>4
  <2>4. \A p \in Server, t, n \in Nat : <<p, t, n>> \in ack2 => <<p, t, n>> \in ack \/ t = term'[p]
    BY <1>4, <1>10
  <2> QED  BY <1>10, <2>1, <2>2, <2>3, <2>4 DEF HistoryGrows
<1>13. TermsGrow
  BY <1>12 DEF HistoryGrows, TermsGrow
<1>14. CastInv(cast)'
  BY <1>1, CountedWereCast
<1>15. WonInv(won2, cast)'
  <2> SUFFICES ASSUME NEW t \in Nat, won2[t] # Nil
               PROVE  /\ \E R \in Majority : \A p \in R : <<p, won2[t], t>> \in cast
                      /\ t <= term'[won2[t]]
                      /\ t = term'[won2[t]] => state'[won2[t]] # Candidate
    BY DEF WonInv
  <2>1. CASE t = T
    BY <1>2, <1>3, <1>4, <1>5, <1>6, <1>9, <2>1 DEF Candidate, Leader
  <2>2. CASE t # T
    <3>1. won2[t] = won[t] /\ won[t] # Nil /\ won[t] \in Server
      BY <1>9, <2>2
    <3>2. /\ \E R \in Majority : \A p \in R : <<p, won[t], t>> \in cast
          /\ t <= term[won[t]]
          /\ t = term[won[t]] => state[won[t]] # Candidate
      BY <1>1, <3>1 DEF WonInv
    <3>3. state'[won[t]] = Candidate => state[won[t]] = Candidate
      BY <1>4, <1>5, <3>1
    <3> QED  BY <1>4, <3>1, <3>2, <3>3
  <2> QED  BY <2>1, <2>2
<1>16. LeadInv(won2, lead2)'
  <2>1. ASSUME NEW q \in Server, state'[q] = Leader
        PROVE  won2[term'[q]] = q /\ log'[q] = lead2[term'[q]]
    <3>1. CASE q = r
      BY <1>4, <1>8, <1>9, <3>1
    <3>2. CASE q # r
      <4>1. state[q] = Leader
        BY <1>5, <2>1, <3>2
      <4>2. won[term[q]] = q /\ log[q] = lead[term[q]]
        BY <1>1, <4>1 DEF LeadInv
      <4>3. q # Nil
        BY ServerAssumption
      <4>4. term[q] # T
        BY <1>7, <4>2, <4>3
      <4> QED  BY <1>3, <1>4, <1>8, <1>9, <4>2, <4>4
    <3> QED  BY <3>1, <3>2
  <2>2. ASSUME NEW t \in Nat
        PROVE  /\ won2[t] = Nil => lead2[t] = <<>>
               /\ Sound(lead2, lead2[t])
               /\ \A i \in 1..Len(lead2[t]) : lead2[t][i].term <= t
    <3>1. CASE t = T
      <4>1. Sound(lead, log[r]) /\ \A i \in 1..Len(log[r]) : log[r][i].term <= T
        BY <1>1, <1>2 DEF LeadInv
      <4>2. Sound(lead2, log[r])
        BY <1>2, <1>3, <1>8, <1>12, <4>1, SoundStays
      <4> QED  BY <1>2, <1>8, <1>9, <3>1, <4>1, <4>2
    <3>2. CASE t # T
      <4>1. /\ won[t] = Nil => lead[t] = <<>>
            /\ Sound(lead, lead[t])
            /\ \A i \in 1..Len(lead[t]) : lead[t][i].term <= t
        BY <1>1 DEF LeadInv
      <4>2. Sound(lead2, lead[t])
        BY <1>8, <1>12, <4>1, LogOfLeader, SoundStays
      <4> QED  BY <1>8, <1>9, <3>2, <4>1, <4>2
    <3> QED  BY <3>1, <3>2
  <2>3. ASSUME NEW p \in Server
        PROVE  /\ Sound(lead2, log'[p])
               /\ \A i \in 1..Len(log'[p]) : log'[p][i].term <= term'[p]
    <3>1. Sound(lead, log[p]) /\ \A i \in 1..Len(log[p]) : log[p][i].term <= term[p]
      BY <1>1 DEF LeadInv
    <3>2. Sound(lead2, log[p])
      BY <1>3, <1>8, <1>12, <3>1, SoundStays
    <3> QED  BY <1>4, <3>1, <3>2
  <2> QED  BY <2>1, <2>2, <2>3 DEF LeadInv, Sound, Agree
<1>17. VoteReqInv'
  <2> SUFFICES ASSUME NEW k \in voteReqs
               PROVE  /\ k.term <= term[k.from]
                      /\ k.term = term[k.from] /\ state'[k.from] = Candidate =>
                            /\ k.lastIndex = Len(log[k.from])
                            /\ k.lastTerm = LastTerm(log[k.from])
    BY <1>4 DEF VoteReqInv, LastTerm, TermAt
  <2>1. k.from \in Server
    BY DEF TypeOK, VoteReq
  <2>2. state'[k.from] = Candidate => state[k.from] = Candidate
    BY <1>4, <1>5, <2>1
  <2> QED  BY <1>1, <2>2 DEF VoteReqInv
<1>18. AppendReqInv(won2, lead2, ack2)'
  BY <1>1, <1>4, <1>11, <1>12, FewerCalls, AppendReqStays
<1>19. AckInv(lead2, ack2)'
  <2>1. ASSUME NEW p \in Server, NEW t \in Nat, NEW n \in Nat, <<p, t, n>> \in ack2
        PROVE  t <= term'[p] /\ n \in 1..Len(lead2[t])
    <3>1. CASE <<p, t, n>> \in ack
      <4>1. t <= term[p] /\ n \in 1..Len(lead[t])
        BY <1>1, <3>1 DEF AckInv
      <4>2. t # T
        BY <1>7, <4>1
      <4> QED  BY <1>4, <1>8, <4>1, <4>2
    <3>2. CASE p = r /\ t = T /\ n \in 1..Len(log[r])
      BY <1>3, <1>4, <1>8, <3>2
    <3> QED  BY <1>10, <2>1, <3>1, <3>2
  <2>2. \A k \in appendResps' : k.success =>
            \A n \in 1..k.last : <<k.from, k.savedTerm, n>> \in ack2
    BY <1>1, <1>4, <1>10 DEF AckInv
  <2>3. ASSUME NEW q \in Server, state'[q] = Leader
        PROVE  /\ \A n \in 1..Len(log'[q]) : <<q, term'[q], n>> \in ack2
               /\ \A p \in Peers(q) : \A n \in 1..matchIndex'[q][p] : <<p, term'[q], n>> \in ack2
    <3>1. CASE q = r
      BY <1>4, <1>5, <1>10, <3>1
    <3>2. CASE q # r
      BY <1>1, <1>4, <1>5, <1>10, <2>3, <3>2 DEF AckInv
    <3> QED  BY <3>1, <3>2
  <2> QED  BY <2>1, <2>2, <2>3 DEF AckInv, Peers
<1>20. KeepInv(won2, lead2, cast, ack2)'
  <2> SUFFICES ASSUME NEW t \in Nat, NEW n \in Nat, Own(lead2, t, n)
               PROVE
              /\ \A p \in Server : <<p, t, n>> \in ack2 => SafeNext(lead2, ack2, log'[p], t, n)
              /\ \A u \in Nat : t < u /\ won2[u] # Nil => SafeNext(lead2, ack2, lead2[u], t, n)
              /\ \A p, c \in Server :
                    /\ state'[c] = Candidate /\ t < term'[c]
                    /\ <<p, c, term'[c]>> \in cast /\ <<p, t, n>> \in ack2
                    => SafeNext(lead2, ack2, log'[c], t, n)
    BY KeepNext
  <2>1. t # T
    <3> SUFFICES ASSUME t = T  PROVE FALSE
      OBVIOUS
    <3>1. n \in 1..Len(log[r]) /\ log[r][n].term = T
      BY <1>8 DEF Own
    <3>2. Agree(log[r], lead[T], n)
      BY <1>1, <1>2, <3>1 DEF LeadInv, Sound
    <3> QED  BY <1>7, <3>1, <3>2 DEF Agree
  <2>2. Own(lead, t, n)
    BY <1>8, <2>1 DEF Own
  <2>3. ASSUME NEW l \in Seq(Entry), Safe(lead, ack, l, t, n)  PROVE SafeNext(lead2, ack2, l, t, n)
    BY <1>8, <1>12, <2>3, SafeStays
  <2>4. ASSUME NEW p \in Server, <<p, t, n>> \in ack2  PROVE <<p, t, n>> \in ack
    BY <1>10, <2>1, <2>4
  <2>5. ASSUME NEW p \in Server, <<p, t, n>> \in ack2
        PROVE  SafeNext(lead2, ack2, log'[p], t, n)
    BY <1>1, <1>3, <1>4, <2>2, <2>3, <2>4, <2>5 DEF KeepInv
  <2>6. ASSUME NEW u \in Nat, t < u, won2[u] # Nil  PROVE SafeNext(lead2, ack2, lead2[u], t, n)
    <3>1. CASE u = T
      <4>1. Safe(lead, ack, log[r], t, n)
        BY <1>1, <1>2, <1>4, <1>6, <2>2, <2>6, <3>1, WinnerIsSafe
      <4> QED  BY <1>2, <1>3, <1>8, <2>3, <3>1, <4>1
    <3>2. CASE u # T
      <4>1. won[u] # Nil /\ lead2[u] = lead[u]
        BY <1>8, <1>9, <2>6, <3>2
      <4>2. Safe(lead, ack, lead[u], t, n)
        BY <1>1, <2>2, <2>6, <4>1 DEF KeepInv
      <4> QED  BY <1>8, <2>3, <4>1, <4>2, LogOfLeader
    <3> QED  BY <3>1, <3>2
  <2>7. ASSUME NEW p \in Server, NEW c \in Server, state'[c] = Candidate, t < term'[c],
               <<p, c, term'[c]>> \in cast, <<p, t, n>> \in ack2
        PROVE  SafeNext(lead2, ack2, log'[c], t, n)
    <3>1. state[c] = Candidate
      BY <1>4, <1>5, <2>7
    <3>2. Safe(lead, ack, log[c], t, n)
      BY <1>1, <1>4, <2>2, <2>4, <2>7, <3>1 DEF KeepInv
    <3> QED  BY <1>3, <1>4, <2>3, <3>2
  <2> QED  BY <2>5, <2>6, <2>7
<1>21. CommitInv(lead2, ack2)'
  <2>1. CommitsShrink
    BY NothingApplied DEF CountVote
  <2>2. ASSUME NEW q \in Server  PROVE Agree(log'[q], log[q], commitIndex[q])
    BY <1>1, <1>3, <1>4, CommitWithin, AgreeFacts
  <2>3. ASSUME NEW q \in Server
        PROVE  /\ Committed(lead2, ack2, log'[q], term'[q], commitIndex'[q])
               /\ Len(wal'[q]) <= lastApplied'[q] /\ lastApplied'[q] <= commitIndex'[q]
    BY <1>1, <1>11, <1>12, <2>1, <2>2, CommitStays
  <2> QED  BY <2>3 DEF CommitInv, Committed, Agree
<1> SUFFICES HistoryType(won2, lead2, cast, ack2) /\ HistoryInv(won2, lead2, cast, ack2)'
  OBVIOUS
<1> QED
  BY <1>11, <1>14, <1>15, <1>16, <1>17, <1>18, <1>19, <1>20, <1>21 DEF HistoryInv

-----------------------------------------------------------------------------
(* Replication.                                                            *)

\* A leader sends a piece of its log up to the end, and its commit index.
LEMMA ReplicateSafe ==
    ASSUME Reliable, TypeOK, TypeOK', FileIsMemory', AppliedInv,
           NEW r \in Server, NEW p \in Peers(r), NEW t \in heartbeats[r],
           replicateToPeer(r, p, t),
           NEW won, NEW lead, NEW cast, NEW ack,
           HistoryType(won, lead, cast, ack), HistoryInv(won, lead, cast, ack)
    PROVE  HistoryInv(won, lead, cast, ack)'
<1>1. /\ CastInv(cast) /\ WonInv(won, cast) /\ LeadInv(won, lead)
      /\ VoteReqInv /\ AppendReqInv(won, lead, ack) /\ AckInv(lead, ack)
      /\ KeepInv(won, lead, cast, ack) /\ CommitInv(lead, ack)
  BY DEF HistoryInv
<1>2. /\ state' = state /\ term' = term /\ votedFor' = votedFor /\ log' = log /\ votes' = votes
      /\ voteReqs' = voteReqs /\ voteResps' = voteResps
      /\ appendResps' = appendResps /\ matchIndex' = matchIndex
  BY DEF replicateToPeer, voteMsgs, leaderVars
<1>3. \A q \in Server : term[q] \in Nat
  BY DEF TypeOK
<1>4. TermsGrow /\ NoNewRoles /\ NoNewLeaders
  BY <1>2, <1>3 DEF TermsGrow, NoNewRoles, NoNewLeaders
<1>5. CastInv(cast)'
  BY <1>1, <1>2, <1>4, CastFrame
<1>6. WonInv(won, cast)'
  <2>1. won \in [Nat -> Server \cup {Nil}]
    BY DEF HistoryType
  <2> QED  BY <1>1, <1>2, <1>4, <2>1, WonFrame
<1>7. LeadInv(won, lead)'
  BY <1>1, <1>2, <1>4, LeadFrame
<1>8. VoteReqInv'
  BY <1>1, <1>2, <1>4, FewerCalls, VoteReqFrame
<1>9. AppendReqInv(won, lead, ack)'
  <2> DEFINE next == nextIndex[r][p]
             prev == next - 1
             ents == SubSeq(log[r], next, Len(log[r]))
             last == Len(log[r])
  <2>1. /\ log[r] \in Seq(Entry) /\ last \in Nat /\ next \in Nat /\ r # Nil
        /\ commitIndex[r] \in Nat /\ commitIndex[r] <= last
    <3>1. p \in Server /\ r # Nil
      BY ServerAssumption DEF Peers
    <3>2. log[r] \in Seq(Entry) /\ next \in Nat
      BY <3>1 DEF TypeOK
    <3>3. commitIndex[r] \in Nat /\ Len(log[r]) \in Nat /\ commitIndex[r] <= Len(log[r])
      BY <1>1, CommitWithin
    <3> QED  BY <3>1, <3>2, <3>3
  <2>2. state[r] = Leader /\ t = term[r] /\ prev \in 0..last
    BY DEF replicateToPeer, InItsTerm, Reliable, Readable, LastIndex
  <2>3. won[t] = r /\ lead[t] = log[r]
    BY <1>1, <2>2 DEF LeadInv
  <2>4. ASSUME NEW k \in appendReqs', k \notin appendReqs
        PROVE  /\ k.term = t /\ k.prevIndex = prev /\ k.prevTerm = TermAt(log[r], prev)
               /\ k.entries = ents /\ k.leaderCommit = commitIndex[r]
    BY <2>4 DEF replicateToPeer, LastIndex
  <2> HIDE DEF next
  <2>5. /\ Len(ents) = last - prev
        /\ \A i \in 1..Len(ents) : ents[i] = log[r][prev + i]
    <3>1. next \in 1..(last + 1)
      BY <2>1, <2>2
    <3>2. /\ Len(ents) = IF next <= last THEN last - next + 1 ELSE 0
          /\ \A i \in 1..(last - next + 1) : ents[i] = log[r][next + i - 1]
      BY <2>1, <3>1, SubSeqProperties
    <3>3. Len(ents) = last - prev
      BY <2>1, <3>1, <3>2
    <3>4. last - next + 1 = last - prev
      BY <2>1
    <3>5. \A i \in 1..(last - prev) : next + i - 1 = prev + i
      BY <2>1
    <3> HIDE DEF prev, last, ents
    <3>6. \A i \in 1..(last - prev) : ents[i] = log[r][prev + i]
      BY <3>2, <3>4, <3>5
    <3> QED  BY <3>3, <3>6
  <2>6. prev + Len(ents) = last
    BY <2>1, <2>5
  <2>7. Committed(lead, ack, log[r], t, commitIndex[r])
    BY <1>1, <2>2 DEF CommitInv
  <2>8. ASSUME NEW k \in appendReqs'
        PROVE  LET sent == k.prevIndex + Len(k.entries) IN
               /\ won[k.term] # Nil
               /\ sent <= Len(lead[k.term])
               /\ k.prevTerm = TermAt(lead[k.term], k.prevIndex)
               /\ \A i \in 1..Len(k.entries) : k.entries[i] = lead[k.term][k.prevIndex + i]
               /\ k.leaderCommit <= sent
               /\ Committed(lead, ack, lead[k.term], k.term, k.leaderCommit)
    <3>1. CASE k \in appendReqs
      BY <1>1, <3>1 DEF AppendReqInv
    <3>2. CASE k \notin appendReqs
      <4> HIDE DEF ents, prev
      <4>1. k.prevIndex + Len(k.entries) = last
        BY <2>4, <2>6, <3>2
      <4>2. /\ k.term = t /\ k.prevIndex = prev /\ k.prevTerm = TermAt(log[r], prev)
            /\ k.entries = ents /\ k.leaderCommit = commitIndex[r]
        BY <2>4, <3>2
      <4>3. won[t] # Nil /\ last = Len(lead[t]) /\ TermAt(lead[t], prev) = TermAt(log[r], prev)
        BY <2>1, <2>3
      <4>4. Committed(lead, ack, lead[t], t, commitIndex[r])
        BY <2>3, <2>7
      <4>5. \A i \in 1..Len(ents) : ents[i] = lead[t][prev + i]
        BY <2>3, <2>5
      <4>6. last <= last
        BY <2>1
      <4> HIDE DEF last
      <4> QED  BY <2>1, <4>1, <4>2, <4>3, <4>4, <4>5, <4>6
    <3> QED  BY <3>1, <3>2
  <2> QED  BY <2>8 DEF AppendReqInv, Committed, TermAt
<1>10. AckInv(lead, ack)'
  BY <1>1, <1>2, <1>4, AckFrame
<1>11. KeepInv(won, lead, cast, ack)'
  BY <1>1, <1>2, <1>4, KeepFrame
<1>12. CommitInv(lead, ack)'
  <2>1. CommitsShrink
    BY NothingApplied DEF replicateToPeer
  <2> QED  BY <1>1, <1>2, <1>4, <2>1, CommitFrame
<1> QED
  BY <1>5, <1>6, <1>7, <1>8, <1>9, <1>10, <1>11, <1>12 DEF HistoryInv

\* What the append loop does to a log l, given a call m that carries a piece of
\* the leader's log k and builds on an entry that both have: entries that
\* agree with k stay, and either nothing changes or l becomes a prefix of k.
LEMMA MergedLog ==
    ASSUME NEW lead \in LeaderLogs, NEW l \in Seq(Entry), NEW k \in Seq(Entry),
           Sound(lead, l), Sound(lead, k), NEW m \in AppendReq,
           m.prevIndex <= Len(l), m.prevIndex + Len(m.entries) <= Len(k),
           TermAt(l, m.prevIndex) = TermAt(k, m.prevIndex),
           \A i \in 1..Len(m.entries) : m.entries[i] = k[m.prevIndex + i]
    PROVE  LET sent == m.prevIndex + Len(m.entries)
               new == Merged(l, m)
           IN  /\ Agree(new, k, sent)
               /\ \/ new = l /\ \A i \in 1..Len(l) : Keeps(l, m, i)
                  \/ Len(new) = sent /\ \A i \in Nat : Agree(l, k, i) => i <= sent
               /\ \A i \in Nat : Agree(l, k, i) => Keeps(l, m, i)
<1> DEFINE j == m.prevIndex
           len == Len(m.entries)
           sent == m.prevIndex + Len(m.entries)
           new == Merged(l, m)
<1>1. j \in Nat /\ len \in Nat /\ sent \in Nat /\ Len(l) \in Nat /\ Len(k) \in Nat
  <2>1. j \in Nat /\ m.entries \in Seq(Entry)
    BY DEF AppendReq
  <2> QED  BY <2>1, LenProperties
<1>2. sent = j + len /\ j <= Len(l) /\ sent <= Len(k) /\ TermAt(l, j) = TermAt(k, j)
  OBVIOUS
<1>3. \A i \in 1..len : m.entries[i] = k[j + i]
  OBVIOUS
<1>4. \A i : Keeps(l, m, i) <=>
            i <= Len(l) /\ \A a \in 1..len : j + a <= i => l[j + a].term = m.entries[a].term
  BY DEF Keeps, LastIndex
<1>5. /\ new = [i \in 1..MergedLen(l, m) |-> IF Keeps(l, m, i) THEN l[i] ELSE m.entries[i - j]]
      /\ MergedLen(l, m) = IF sent < Len(l) /\ Keeps(l, m, sent) THEN Len(l) ELSE sent
  BY DEF Merged, MergedLen, LastIndex
<1>6. new \in Seq(Entry)
  BY MergedType
<1> HIDE DEF j, len, sent, new
<1>7. Agree(l, k, j)
  <2>1. CASE j = 0
    BY <1>1, <2>1 DEF Agree
  <2>2. CASE j # 0
    <3>1. l[j].term = k[j].term
      BY <1>2, <2>2 DEF TermAt
    <3>2. 0 < j /\ j <= Len(l) /\ j <= Len(k)
      BY <1>1, <1>2, <2>2
    <3> QED  BY <1>1, <3>1, <3>2, SoundAgree
  <2> QED  BY <2>1, <2>2
<1>8. ASSUME NEW i \in 0..sent, Keeps(l, m, i)  PROVE Agree(l, k, i)
  <2>1. i \in Nat /\ i <= Len(l) /\ i <= Len(k)
    BY <1>1, <1>2, <1>4, <1>8
  <2>2. CASE i <= j
    BY <1>1, <1>7, <2>1, <2>2, AgreeFacts
  <2>3. CASE i > j
    <3>1. i - j \in 1..len /\ j + (i - j) = i
      BY <1>1, <1>2, <2>1, <2>3
    <3>2. l[j + (i - j)].term = m.entries[i - j].term
      BY <1>4, <1>8, <2>1, <3>1
    <3>3. m.entries[i - j] = k[j + (i - j)]
      BY <1>3, <3>1
    <3>4. l[i].term = k[i].term
      BY <3>1, <3>2, <3>3
    <3>5. 0 < i
      BY <1>1, <2>1, <2>3
    <3> QED  BY <2>1, <3>4, <3>5, SoundAgree
  <2> QED  BY <1>1, <2>1, <2>2, <2>3
<1>9. ASSUME NEW i \in Nat, Agree(l, k, i)  PROVE Keeps(l, m, i)
  <2>1. i <= Len(l) /\ \A a \in 1..i : l[a] = k[a]
    BY <1>9 DEF Agree
  <2>2. ASSUME NEW a \in 1..len, j + a <= i  PROVE l[j + a].term = m.entries[a].term
    <3>1. j + a \in 1..i
      BY <1>1, <2>2
    <3> QED  BY <1>3, <2>1, <3>1
  <2> QED  BY <1>4, <2>1, <2>2
<1>10. CASE sent < Len(l) /\ Keeps(l, m, sent)
  <2>1. ASSUME NEW i \in 1..Len(l)  PROVE Keeps(l, m, i)
    <3>1. \A a \in 1..len : l[j + a].term = m.entries[a].term
      <4>1. \A a \in 1..len : j + a <= sent
        BY <1>1, <1>2
      <4> QED  BY <1>4, <1>10, <4>1
    <3> QED  BY <1>1, <1>4, <3>1
  <2>2. new = [i \in 1..Len(l) |-> IF Keeps(l, m, i) THEN l[i] ELSE m.entries[i - j]]
    BY <1>5, <1>10
  <2>3. Len(new) = Len(l) /\ \A i \in 1..Len(l) : new[i] = l[i]
    <3>1. \A i \in 1..Len(l) : new[i] = l[i]
      BY <2>1, <2>2
    <3>2. DOMAIN new = 1..Len(l)
      BY <2>2
    <3>3. Len(new) = Len(l)
      BY <1>1, <1>6, <3>2, LenProperties
    <3> QED  BY <3>1, <3>3
  <2>4. new = l
    BY <1>6, <2>3, SeqEqual
  <2>5. Agree(l, k, sent)
    BY <1>1, <1>8, <1>10
  <2> QED  BY <1>9, <2>1, <2>4, <2>5 DEF sent, new, j
<1>11. CASE ~(sent < Len(l) /\ Keeps(l, m, sent))
  <2>1. new = [i \in 1..sent |-> IF Keeps(l, m, i) THEN l[i] ELSE m.entries[i - j]]
    BY <1>5, <1>11
  <2>2. Len(new) = sent
    <3>1. DOMAIN new = 1..sent
      BY <2>1
    <3> QED  BY <1>1, <1>6, <3>1, LenProperties
  <2>3. ASSUME NEW i \in 1..sent  PROVE new[i] = k[i]
    <3>1. CASE Keeps(l, m, i)
      <4>1. Agree(l, k, i) /\ i \in 1..i
        BY <1>1, <1>8, <3>1
      <4>2. l[i] = k[i]
        BY <4>1 DEF Agree
      <4> QED  BY <2>1, <3>1, <4>2
    <3>2. CASE ~Keeps(l, m, i)
      <4>1. i > j
        BY <1>1, <1>2, <1>4, <3>2
      <4>2. i - j \in 1..len /\ j + (i - j) = i
        BY <1>1, <1>2, <4>1
      <4>3. m.entries[i - j] = k[j + (i - j)]
        BY <1>3, <4>2
      <4> QED  BY <2>1, <3>2, <4>2, <4>3
    <3> QED  BY <3>1, <3>2
  <2>4. Agree(new, k, sent)
    BY <1>1, <1>2, <2>2, <2>3 DEF Agree
  <2>5. ASSUME NEW i \in Nat, Agree(l, k, i)  PROVE i <= sent
    <3> SUFFICES ASSUME i > sent  PROVE FALSE
      BY <1>1
    <3>1. i <= Len(l)
      BY <2>5 DEF Agree
    <3>2. sent \in 0..i
      BY <1>1
    <3>3. Agree(l, k, sent)
      BY <2>5, <3>2, AgreeFacts
    <3>4. Keeps(l, m, sent)
      BY <1>1, <1>9, <3>3
    <3> QED  BY <1>1, <1>11, <3>1, <3>4
  <2> QED  BY <1>9, <2>2, <2>4, <2>5 DEF sent, new, j
<1> QED  BY <1>10, <1>11

\* A follower that takes entries of the leader of term T keeps what it has
\* committed.
LEMMA TakingKeepsCommitted ==
    ASSUME TypeOK, NEW won, NEW lead, NEW cast, NEW ack, HistoryType(won, lead, cast, ack),
           KeepInv(won, lead, cast, ack), CommitInv(lead, ack),
           NEW r \in Server, NEW T \in Nat, term[r] <= T, won[T] # Nil
    PROVE  Agree(log[r], lead[T], commitIndex[r])
<1> DEFINE n == commitIndex[r]
<1>1. lead \in LeaderLogs /\ lead[T] \in Seq(Entry) /\ Len(lead[T]) \in Nat
  BY LogOfLeader DEF HistoryType
<1>2. log[r] \in Seq(Entry) /\ Len(log[r]) \in Nat /\ n \in Nat /\ term[r] \in Nat
  BY LenProperties DEF TypeOK
<1>3. Committed(lead, ack, log[r], term[r], n)
  BY DEF CommitInv
<1> HIDE DEF n
<1>4. CASE n = 0
  BY <1>1, <1>2, <1>4 DEF Agree, n
<1>5. CASE n > 0
  <2>1. PICK s \in 0..term[r] : \E k \in Nat : /\ n <= k /\ Own(lead, s, k) /\ Chosen(ack, s, k)
                                               /\ Agree(log[r], lead[s], n)
    BY <1>3, <1>5 DEF Committed
  <2>2. PICK k \in Nat : n <= k /\ Own(lead, s, k) /\ Chosen(ack, s, k) /\ Agree(log[r], lead[s], n)
    BY <2>1
  <2>3. s \in Nat /\ lead[s] \in Seq(Entry)
    BY <1>1, LogOfLeader
  <2>4. CASE s = T
    BY <2>2, <2>4 DEF n
  <2>5. CASE s # T
    <3>1. s < T
      BY <1>2, <2>5
    <3>2. Safe(lead, ack, lead[T], s, k)
      BY <2>2, <2>3, <3>1 DEF KeepInv
    <3>3. Agree(lead[T], lead[s], k)
      BY <2>2, <3>2, ChosenNotLost DEF Safe
    <3>4. n \in 0..k
      BY <1>2, <2>2
    <3>5. Agree(lead[T], lead[s], n)
      BY <1>1, <2>3, <3>3, <3>4, AgreeFacts
    <3>6. Agree(lead[s], lead[T], n)
      BY <1>1, <1>2, <2>3, <3>5, AgreeFacts
    <3>7. Agree(log[r], lead[T], n)
      BY <1>1, <1>2, <2>2, <2>3, <3>6, AgreeFacts
    <3> QED  BY <3>7 DEF n
  <2> QED  BY <2>4, <2>5
<1> QED  BY <1>2, <1>4, <1>5

\* A server that takes entries of the leader of term T, all of them or the
\* first ones, and perhaps its commit index.
LEMMA TakingIsSafe ==
    ASSUME TypeOK, TypeOK', FileIsMemory', AppliedInv,
           NEW won, NEW lead, NEW cast, NEW ack,
           HistoryType(won, lead, cast, ack), HistoryInv(won, lead, cast, ack),
           NEW r \in Server, NEW T \in Nat, term[r] <= T, won[T] # Nil, becameFollower(r, T),
           NEW new \in Seq(Entry), log' = [log EXCEPT ![r] = new],
           new = log[r] \/ Agree(new, lead[T], Len(new)),
           \A i \in Nat : Agree(log[r], lead[T], i) => Agree(new, lead[T], i),
           UNCHANGED <<leaderVars, votes, voteMsgs, applyVars>>,
           appendReqs' \subseteq appendReqs,
           NEW ack2, ack \subseteq ack2, ack2 \subseteq Server \X Nat \X Nat,
           \A x \in ack2 \ ack : \E n \in Nat :
               x = <<r, T, n>> /\ n > 0 /\ Agree(new, lead[T], n),
           \A m \in appendResps' \ appendResps : m.success =>
               \A n \in 1..m.last : <<m.from, m.savedTerm, n>> \in ack2,
           \A p \in Server \ {r} : commitIndex'[p] = commitIndex[p],
           \/ commitIndex'[r] = commitIndex[r]
           \/ /\ commitIndex'[r] > commitIndex[r]
              /\ Agree(new, lead[T], commitIndex'[r])
              /\ Committed(lead, ack, lead[T], T, commitIndex'[r])
    PROVE  HistoryType(won, lead, cast, ack2) /\ HistoryInv(won, lead, cast, ack2)'
<1>1. /\ CastInv(cast) /\ WonInv(won, cast) /\ LeadInv(won, lead)
      /\ VoteReqInv /\ AppendReqInv(won, lead, ack) /\ AckInv(lead, ack)
      /\ KeepInv(won, lead, cast, ack) /\ CommitInv(lead, ack)
  BY DEF HistoryInv
<1>2. HistoryType(won, lead, cast, ack2)
  BY DEF HistoryType
<1>3. lead \in LeaderLogs /\ lead[T] \in Seq(Entry) /\ Len(lead[T]) \in Nat
  BY LogOfLeader DEF HistoryType
<1>4. \A p \in Server : /\ term[p] \in Nat /\ term'[p] \in Nat
                        /\ log[p] \in Seq(Entry) /\ log'[p] \in Seq(Entry) /\ Len(log[p]) \in Nat
                        /\ commitIndex[p] \in Nat /\ commitIndex'[p] \in Nat
  BY LenProperties DEF TypeOK
<1>5. /\ TermsGrow /\ NoNewRoles
      /\ \A p \in Server : term'[p] = term[p] => votedFor'[p] = votedFor[p]
  BY StepDownIsQuiet
<1>6. /\ term'[r] = T /\ state'[r] = Follower /\ log'[r] = new
      /\ \A p \in Server \ {r} : log'[p] = log[p]
  <2>1. term'[r] = TermAfter(r, T) /\ state'[r] = Follower
    BY DEF TypeOK, becameFollower
  <2>2. term'[r] = T
    BY <1>4, <2>1 DEF TermAfter
  <2> QED  BY <2>1, <2>2 DEF TypeOK
<1>7. /\ votes' = votes /\ matchIndex' = matchIndex /\ voteReqs' = voteReqs /\ voteResps' = voteResps
      /\ lastApplied' = lastApplied /\ wal' = wal
  BY DEF leaderVars, voteMsgs, applyVars
<1>8. NoNewLeaders
  BY <1>5 DEF NoNewRoles, NoNewLeaders, Leader, Follower
<1>9. \A p \in Server : state'[p] # Follower => log'[p] = log[p]
  BY <1>6
<1>10. ASSUME NEW p \in Server, NEW t \in Nat, NEW n \in Nat, <<p, t, n>> \in ack2, <<p, t, n>> \notin ack
       PROVE  p = r /\ t = T /\ n > 0 /\ Agree(new, lead[T], n)
  BY <1>10
<1>11. HistoryGrows(won, lead, ack, won, lead, ack2)
  <2>1. ASSUME NEW t \in Nat  PROVE Agree(lead[t], lead[t], Len(lead[t]))
    <3>1. lead[t] \in Seq(Entry) /\ Len(lead[t]) \in Nat
      BY <1>3, LogOfLeader
    <3> QED  BY <3>1 DEF Agree
  <2>2. \A p \in Server, t, n \in Nat : <<p, t, n>> \in ack2 => <<p, t, n>> \in ack \/ t = term'[p]
    BY <1>6, <1>10
  <2> QED  BY <1>5, <2>1, <2>2 DEF HistoryGrows, TermsGrow
<1>12. CastInv(cast)'
  BY <1>1, <1>5, <1>7, CastFrame
<1>13. WonInv(won, cast)'
  <2>1. won \in [Nat -> Server \cup {Nil}]
    BY DEF HistoryType
  <2>2. \A p \in Server : state'[p] = Candidate => state[p] = Candidate
    BY <1>5 DEF NoNewRoles, Candidate, Follower
  <2> QED  BY <1>1, <1>5, <2>1, <2>2, WonFrame
<1>14. LeadInv(won, lead)'
  <2>1. \A p \in Server : state'[p] = Leader => won[term'[p]] = p /\ log'[p] = lead[term'[p]]
    BY <1>1, <1>8, <1>9 DEF LeadInv, NoNewLeaders, Leader, Follower
  <2>2. ASSUME NEW p \in Server
        PROVE  /\ Sound(lead, log'[p])
               /\ \A i \in 1..Len(log'[p]) : log'[p][i].term <= term'[p]
    <3>1. CASE log'[p] = log[p]
      <4>1. Sound(lead, log[p])
        BY <1>1 DEF LeadInv
      <4>2. ASSUME NEW i \in 1..Len(log[p])  PROVE log[p][i].term <= term'[p]
        <5>1. log[p][i].term <= term[p] /\ term[p] <= term'[p]
          BY <1>1, <1>5 DEF LeadInv, TermsGrow
        <5>2. log[p][i].term \in Nat
          BY <1>4, EntryHasTerm
        <5> QED  BY <1>4, <5>1, <5>2, SMTT(90)
      <4> QED  BY <3>1, <4>1, <4>2
    <3>2. CASE log'[p] # log[p]
      <4>1. p = r /\ log'[p] = new /\ term'[p] = T /\ Agree(new, lead[T], Len(new))
        BY <1>6, <3>2
      <4>2. Len(new) \in Nat
        BY LenProperties
      <4>3. Sound(lead, lead[T]) /\ \A i \in 1..Len(lead[T]) : lead[T][i].term <= T
        BY <1>1 DEF LeadInv
      <4>4. ASSUME NEW i \in 1..Len(new)
            PROVE  new[i].term <= T /\ Agree(new, lead[new[i].term], i)
        <5>1. i \in Nat /\ i \in 1..Len(lead[T]) /\ new[i] = lead[T][i]
          BY <1>3, <4>1, <4>2 DEF Agree
        <5>2. lead[T][i].term <= T /\ Agree(lead[T], lead[lead[T][i].term], i)
          BY <4>3, <5>1 DEF Sound
        <5>3. lead[T][i].term \in Nat
          BY <1>3, <5>1, EntryHasTerm
        <5> DEFINE k == lead[lead[T][i].term]
        <5>4. k \in Seq(Entry)
          BY <1>3, <5>3, LogOfLeader
        <5>5. Agree(new, lead[T], i)
          BY <1>3, <4>1, <4>2, AgreeFacts
        <5>6. Agree(lead[T], k, i)
          BY <5>2
        <5> HIDE DEF k
        <5>7. Agree(new, k, i)
          BY <1>3, <5>1, <5>4, <5>5, <5>6, AgreeFacts
        <5> QED  BY <5>1, <5>2, <5>7 DEF k
      <4> QED  BY <4>1, <4>4 DEF Sound
    <3> QED  BY <3>1, <3>2
  <2> QED  BY <1>1, <2>1, <2>2, ZenonT(60) DEF LeadInv, Sound, Agree
<1>15. VoteReqInv'
  BY <1>1, <1>5, <1>7, <1>9, FewerCalls, VoteReqFrame
<1>16. AppendReqInv(won, lead, ack2)'
  BY <1>1, <1>2, <1>11, FewerCalls, AppendReqStays
<1>17. AckInv(lead, ack2)'
  <2>1. ASSUME NEW p \in Server, NEW t \in Nat, NEW n \in Nat, <<p, t, n>> \in ack2
        PROVE  t <= term'[p] /\ n \in 1..Len(lead[t])
    <3>1. CASE <<p, t, n>> \in ack
      <4>1. t <= term[p] /\ n \in 1..Len(lead[t])
        BY <1>1, <3>1 DEF AckInv
      <4>2. t <= term'[p]
        BY <1>4, <1>5, <4>1 DEF TermsGrow
      <4> QED  BY <4>1, <4>2
    <3>2. CASE <<p, t, n>> \notin ack
      <4>1. p = r /\ t = T /\ n > 0 /\ n <= Len(lead[T])
        BY <1>10, <2>1, <3>2 DEF Agree
      <4> QED  BY <1>3, <1>6, <4>1
    <3> QED  BY <3>1, <3>2
  <2>2. ASSUME NEW k \in appendResps', k.success
        PROVE  \A n \in 1..k.last : <<k.from, k.savedTerm, n>> \in ack2
    BY <1>1, <2>2 DEF AckInv
  <2>3. ASSUME NEW q \in Server, state'[q] = Leader
        PROVE  /\ \A n \in 1..Len(log'[q]) : <<q, term'[q], n>> \in ack2
               /\ \A p \in Peers(q) : \A n \in 1..matchIndex'[q][p] : <<p, term'[q], n>> \in ack2
    <3>1. state[q] = Leader /\ term'[q] = term[q] /\ log'[q] = log[q]
      BY <1>8, <1>9, <2>3 DEF NoNewLeaders, Leader, Follower
    <3> QED  BY <1>1, <1>7, <3>1 DEF AckInv
  <2> QED  BY <2>1, <2>2, <2>3 DEF AckInv, Peers
<1>18. KeepInv(won, lead, cast, ack2)'
  <2> SUFFICES ASSUME NEW t \in Nat, NEW n \in Nat, Own(lead, t, n)
               PROVE
              /\ \A p \in Server : <<p, t, n>> \in ack2 => SafeNext(lead, ack2, log'[p], t, n)
              /\ \A u \in Nat : t < u /\ won[u] # Nil => SafeNext(lead, ack2, lead[u], t, n)
              /\ \A p, c \in Server :
                    /\ state'[c] = Candidate /\ t < term'[c]
                    /\ <<p, c, term'[c]>> \in cast /\ <<p, t, n>> \in ack2
                    => SafeNext(lead, ack2, log'[c], t, n)
    BY KeepNext
  <2>1. ASSUME NEW l \in Seq(Entry), Safe(lead, ack, l, t, n)  PROVE SafeNext(lead, ack2, l, t, n)
    BY <1>3, <1>11, <2>1, SafeStays
  <2>2. ASSUME NEW p \in Server, <<p, t, n>> \in ack2  PROVE SafeNext(lead, ack2, log'[p], t, n)
    <3>1. CASE <<p, t, n>> \notin ack
      <4>1. Agree(new, lead[t], n) /\ p = r
        BY <1>10, <2>2, <3>1
      <4> QED  BY <1>6, <4>1 DEF SafeNext
    <3>2. CASE <<p, t, n>> \in ack /\ p # r
      BY <1>1, <1>4, <1>6, <2>1, <3>2, SMTT(90) DEF KeepInv
    <3>3. CASE <<p, t, n>> \in ack /\ p = r
      <4>1. Safe(lead, ack, log[r], t, n) /\ t <= term[r]
        BY <1>1, <3>3 DEF KeepInv, AckInv
      <4>2. lead[t] \in Seq(Entry)
        BY <1>3, LogOfLeader
      <4>3. Safe(lead, ack, new, t, n)
        <5>1. CASE Lost(ack, t, n)
          BY <5>1 DEF Safe
        <5>2. CASE Agree(log[r], lead[t], n) /\ t = T
          BY <5>2 DEF Safe
        <5>3. CASE Agree(log[r], lead[t], n) /\ t # T /\ ~Lost(ack, t, n)
          <6>1. t < T
            BY <1>4, <4>1, <5>3
          <6>2. Safe(lead, ack, lead[T], t, n)
            BY <1>1, <6>1 DEF KeepInv
          <6>3. Agree(lead[T], lead[t], n)
            BY <5>3, <6>2 DEF Safe
          <6>4. Agree(lead[t], lead[T], n)
            BY <1>3, <4>2, <6>3, AgreeFacts
          <6>5. Agree(log[r], lead[T], n)
            BY <1>3, <1>4, <4>2, <5>3, <6>4, AgreeFacts
          <6>6. Agree(new, lead[T], n)
            BY <6>5
          <6>7. Agree(new, lead[t], n)
            BY <1>3, <4>2, <6>3, <6>6, AgreeFacts
          <6> QED  BY <6>7 DEF Safe
        <5> QED  BY <4>1, <5>1, <5>2, <5>3 DEF Safe
      <4> QED  BY <1>6, <2>1, <3>3, <4>3
    <3> QED  BY <2>2, <3>1, <3>2, <3>3
  <2>3. ASSUME NEW u \in Nat, t < u, won[u] # Nil  PROVE SafeNext(lead, ack2, lead[u], t, n)
    BY <1>1, <1>3, <2>1, <2>3, LogOfLeader DEF KeepInv
  <2>4. ASSUME NEW p \in Server, NEW c \in Server, state'[c] = Candidate, t < term'[c],
               <<p, c, term'[c]>> \in cast, <<p, t, n>> \in ack2
        PROVE  SafeNext(lead, ack2, log'[c], t, n)
    <3>1. state[c] = Candidate /\ term'[c] = term[c] /\ log'[c] = log[c]
      BY <1>5, <1>9, <2>4 DEF NoNewRoles, Candidate, Follower
    <3>2. <<p, t, n>> \in ack
      <4> SUFFICES ASSUME <<p, t, n>> \notin ack  PROVE FALSE
        OBVIOUS
      <4>1. p = r /\ t = T
        BY <1>10, <2>4
      <4>2. term'[c] <= term'[p]
        BY <1>4, <1>12, <2>4 DEF CastInv
      <4> QED  BY <1>4, <1>6, <2>4, <4>1, <4>2
    <3>3. Safe(lead, ack, log[c], t, n)
      BY <1>1, <2>4, <3>1, <3>2 DEF KeepInv
    <3> QED  BY <1>4, <2>1, <3>1, <3>3
  <2> QED  BY <2>2, <2>3, <2>4
<1>19. CommitInv(lead, ack2)'
  <2>1. ASSUME NEW p \in Server
        PROVE  Committed(lead, ack2, log'[p], term'[p], commitIndex'[p])
    <3>1. CASE commitIndex'[p] = commitIndex[p]
      <4>1. Agree(log'[p], log[p], commitIndex[p])
        <5>1. CASE p # r
          BY <1>1, <1>4, <1>6, <5>1, CommitWithin, AgreeFacts
        <5>2. CASE p = r
          <6>1. Agree(log[r], lead[T], commitIndex[r])
            BY <1>1, TakingKeepsCommitted
          <6>2. Agree(new, lead[T], commitIndex[r])
            BY <1>4, <6>1
          <6>3. Agree(lead[T], log[r], commitIndex[r])
            BY <1>3, <1>4, <6>1, AgreeFacts
          <6>4. Agree(new, log[r], commitIndex[r])
            BY <1>3, <1>4, <6>2, <6>3, AgreeFacts
          <6> QED  BY <1>6, <5>2, <6>4
        <5> QED  BY <5>1, <5>2
      <4>2. Committed(lead, ack, log[p], term[p], commitIndex[p])
        BY <1>1 DEF CommitInv
      <4>3. Committed(lead, ack2, log[p], term[p], commitIndex[p])
        BY <1>3, <1>4, <1>11, <4>2, CommittedStays
      <4>4. Committed(lead, ack2, log'[p], term[p], commitIndex[p])
        BY <1>3, <1>4, <4>1, <4>3, CommittedMoves
      <4>5. term[p] <= term'[p] /\ commitIndex'[p] <= commitIndex[p]
        BY <1>4, <1>5, <3>1 DEF TermsGrow
      <4> QED  BY <1>3, <1>4, <4>4, <4>5, CommittedLess
    <3>2. CASE commitIndex'[p] # commitIndex[p]
      <4>1. p = r
        BY <3>2
      <4>2. Agree(new, lead[T], commitIndex'[r]) /\ Committed(lead, ack, lead[T], T, commitIndex'[r])
        BY <3>2, <4>1
      <4>3. Committed(lead, ack2, lead[T], T, commitIndex'[r])
        BY <1>3, <1>4, <1>11, <4>2, CommittedStays
      <4>4. Committed(lead, ack2, new, T, commitIndex'[r])
        BY <1>3, <1>4, <4>2, <4>3, CommittedMoves
      <4> QED  BY <1>6, <4>1, <4>4
    <3> QED  BY <3>1, <3>2
  <2>2. ASSUME NEW p \in Server
        PROVE  Len(wal'[p]) <= lastApplied'[p] /\ lastApplied'[p] <= commitIndex'[p]
    <3>1. Len(wal[p]) <= lastApplied[p] /\ lastApplied[p] <= commitIndex[p] /\ lastApplied[p] \in Nat
      BY DEF AppliedInv, TypeOK
    <3>2. commitIndex[p] <= commitIndex'[p]
      BY <1>4
    <3> QED  BY <1>4, <1>7, <3>1, <3>2
  <2> QED  BY <2>1, <2>2 DEF CommitInv, Committed, Agree
<1> QED
  BY <1>2, <1>12, <1>13, <1>14, <1>15, <1>16, <1>17, <1>18, <1>19 DEF HistoryInv

\* What a call for entries that builds on an entry of the follower does to the
\* follower's log.
LEMMA MergedWithLeader ==
    ASSUME TypeOK, NEW won, NEW lead, NEW cast, NEW ack, HistoryType(won, lead, cast, ack),
           LeadInv(won, lead), AppendReqInv(won, lead, ack),
           NEW m \in appendReqs, PrevMatches(m)
    PROVE  LET sent == m.prevIndex + Len(m.entries)
               l == log[m.to]
               new == Merged(l, m)
               k == lead[m.term]
           IN  /\ sent \in Nat /\ new \in Seq(Entry) /\ Agree(new, k, sent)
               /\ \/ new = l /\ \A i \in 1..Len(l) : Keeps(l, m, i)
                  \/ Len(new) = sent /\ \A i \in Nat : Agree(l, k, i) => i <= sent
               /\ \A i \in Nat : Agree(l, k, i) => Keeps(l, m, i)
               /\ won[m.term] # Nil
               /\ m.leaderCommit <= sent /\ Committed(lead, ack, k, m.term, m.leaderCommit)
<1> DEFINE sent == m.prevIndex + Len(m.entries)
           l == log[m.to]
           k == lead[m.term]
<1>1. m \in AppendReq /\ m.to \in Server /\ m.term \in Nat /\ m.entries \in Seq(Entry)
      /\ m.prevIndex \in Nat
  <2>1. m \in AppendReq
    BY DEF TypeOK
  <2> QED  BY <2>1 DEF AppendReq
<1>2. l \in Seq(Entry) /\ lead \in LeaderLogs /\ k \in Seq(Entry)
  BY <1>1, LogOfLeader DEF TypeOK, HistoryType
<1>3. Sound(lead, l) /\ Sound(lead, k)
  BY <1>1 DEF LeadInv
<1>4. /\ won[m.term] # Nil /\ sent <= Len(k) /\ m.prevTerm = TermAt(k, m.prevIndex)
      /\ \A i \in 1..Len(m.entries) : m.entries[i] = k[m.prevIndex + i]
      /\ m.leaderCommit <= sent /\ Committed(lead, ack, k, m.term, m.leaderCommit)
  BY DEF AppendReqInv
<1>5. m.prevIndex <= Len(l) /\ TermAt(l, m.prevIndex) = TermAt(k, m.prevIndex)
  BY <1>4 DEF PrevMatches, LastIndex
<1>6. Merged(l, m) \in Seq(Entry)
  BY <1>1, <1>2, <1>5, MergedType
<1>7. sent \in Nat
  BY <1>1, LenProperties
<1> HIDE DEF l, k
<1>8. /\ Agree(Merged(l, m), k, sent)
      /\ \/ Merged(l, m) = l /\ \A i \in 1..Len(l) : Keeps(l, m, i)
         \/ Len(Merged(l, m)) = sent /\ \A i \in Nat : Agree(l, k, i) => i <= sent
      /\ \A i \in Nat : Agree(l, k, i) => Keeps(l, m, i)
  BY <1>1, <1>2, <1>3, <1>4, <1>5, MergedLog
<1> QED  BY <1>4, <1>6, <1>7, <1>8 DEF l, k

\* Accepting the entries of a call leaves a log that agrees with the leader's
\* up to the last of them, and wherever the old one did.
LEMMA AcceptedLog ==
    ASSUME TypeOK, NEW won, NEW lead, NEW cast, NEW ack, HistoryType(won, lead, cast, ack),
           LeadInv(won, lead), AppendReqInv(won, lead, ack),
           NEW m \in appendReqs, AcceptEntries(m)
    PROVE  \E new \in Seq(Entry) :
             /\ log' = [log EXCEPT ![m.to] = new] /\ new = Merged(log[m.to], m)
             /\ new = log[m.to] \/ Agree(new, lead[m.term], Len(new))
             /\ Agree(new, lead[m.term], m.prevIndex + Len(m.entries))
             /\ \A i \in Nat : Agree(log[m.to], lead[m.term], i) => Agree(new, lead[m.term], i)
<1> DEFINE r == m.to
           T == m.term
           sent == m.prevIndex + Len(m.entries)
           new == Merged(log[r], m)
<1>1. PrevMatches(m) /\ log' = [log EXCEPT ![r] = new]
  BY DEF AcceptEntries
<1>2. /\ sent \in Nat /\ new \in Seq(Entry) /\ Agree(new, lead[T], sent)
      /\ \/ new = log[r]
         \/ Len(new) = sent /\ \A i \in Nat : Agree(log[r], lead[T], i) => i <= sent
  BY <1>1, MergedWithLeader
<1>3. lead[T] \in Seq(Entry)
  <2>1. T \in Nat
    BY DEF TypeOK, AppendReq
  <2> QED  BY <2>1, LogOfLeader DEF HistoryType
<1> HIDE DEF r, T, sent, new
<1>4. new = log[r] \/ Agree(new, lead[T], Len(new))
  BY <1>2
<1>5. ASSUME NEW i \in Nat, Agree(log[r], lead[T], i)  PROVE Agree(new, lead[T], i)
  <2>1. CASE new = log[r]
    BY <1>5, <2>1
  <2>2. CASE i <= sent
    <3>1. i \in 0..sent
      BY <1>2, <2>2
    <3> QED  BY <1>2, <1>3, <3>1, AgreeFacts
  <2> QED  BY <1>2, <1>5, <2>1, <2>2
<1> QED  BY <1>1, <1>2, <1>4, <1>5 DEF r, T, sent, new

\* An interrupted append loop leaves a prefix of the leader's log, which agrees
\* with it wherever the old one did: only what disagreed is cut.
LEMMA InterruptedLog ==
    ASSUME TypeOK, NEW won, NEW lead, NEW cast, NEW ack, HistoryType(won, lead, cast, ack),
           LeadInv(won, lead), AppendReqInv(won, lead, ack),
           NEW m \in appendReqs, InterruptedAppend(m)
    PROVE  \E new \in Seq(Entry) :
             /\ log' = [log EXCEPT ![m.to] = new]
             /\ Agree(new, lead[m.term], Len(new))
             /\ \A i \in Nat : Agree(log[m.to], lead[m.term], i) => Agree(new, lead[m.term], i)
<1> DEFINE r == m.to
           T == m.term
           sent == m.prevIndex + Len(m.entries)
           full == Merged(log[r], m)
<1>1. PrevMatches(m)
  BY DEF InterruptedAppend
<1>2. PICK n \in 0..(Len(full) - 1) :
          ~Keeps(log[r], m, n + 1) /\ log' = [log EXCEPT ![r] = SubSeq(full, 1, n)]
  BY DEF InterruptedAppend, LastIndex
<1>3. /\ sent \in Nat /\ full \in Seq(Entry) /\ Agree(full, lead[T], sent)
      /\ \/ full = log[r] /\ \A i \in 1..Len(log[r]) : Keeps(log[r], m, i)
         \/ Len(full) = sent
      /\ \A i \in Nat : Agree(log[r], lead[T], i) => Keeps(log[r], m, i)
  BY <1>1, MergedWithLeader
<1>4. lead[T] \in Seq(Entry) /\ log[r] \in Seq(Entry)
  <2>1. T \in Nat /\ r \in Server
    BY DEF TypeOK, AppendReq
  <2> QED  BY <2>1, LogOfLeader DEF HistoryType, TypeOK
<1> DEFINE new == SubSeq(full, 1, n)
<1> HIDE DEF r, T, sent, full
<1>5. Len(full) \in Nat /\ n \in Nat /\ n + 1 <= Len(full)
  BY <1>3, LenProperties
<1>6. Len(full) = sent
  BY <1>2, <1>3, <1>5
<1>7. /\ new \in Seq(Entry) /\ Len(new) = n
      /\ \A i \in 1..n : new[i] = full[i]
  <2>1. \A i \in 1..n : full[i] \in Entry
    BY <1>3, <1>5, ElementOfSeq
  <2>2. /\ SubSeq(full, 1, n) \in Seq(Entry)
        /\ Len(SubSeq(full, 1, n)) = IF 1 <= n THEN n - 1 + 1 ELSE 0
        /\ \A i \in 1..(n - 1 + 1) : SubSeq(full, 1, n)[i] = full[1 + i - 1]
    BY <1>5, <2>1, SubSeqProperties
  <2> QED  BY <1>5, <2>2
<1>8. log' = [log EXCEPT ![r] = new]
  BY <1>2
<1> HIDE DEF new
<1>9. Agree(new, lead[T], n)
  BY <1>3, <1>4, <1>5, <1>6, <1>7, LenProperties DEF Agree
<1>10. ASSUME NEW i \in Nat, Agree(log[r], lead[T], i)  PROVE Agree(new, lead[T], i)
  <2>1. i <= n
    <3> SUFFICES ASSUME n + 1 <= i  PROVE FALSE
      BY <1>5
    <3>1. n + 1 \in 0..i /\ n + 1 \in Nat
      BY <1>5
    <3>2. Agree(log[r], lead[T], n + 1)
      BY <1>4, <1>10, <3>1, AgreeFacts
    <3> QED  BY <1>2, <1>3, <3>1, <3>2
  <2>2. i \in 0..n
    BY <1>5, <2>1
  <2> QED  BY <1>4, <1>5, <1>7, <1>9, <2>2, AgreeFacts
<1>11. Agree(new, lead[T], Len(new))
  BY <1>7, <1>9
<1> QED  BY <1>7, <1>8, <1>10, <1>11 DEF r, T

\* A follower that takes the entries of a call acknowledges everything up to
\* the last of them.
LEMMA AcceptSafe ==
    ASSUME TypeOK, TypeOK', FileIsMemory', AppliedInv, NEW m \in appendReqs, AcceptEntries(m),
           NEW won, NEW lead, NEW cast, NEW ack,
           HistoryType(won, lead, cast, ack), HistoryInv(won, lead, cast, ack)
    PROVE  \E ack2 : HistoryType(won, lead, cast, ack2) /\ HistoryInv(won, lead, cast, ack2)'
<1> DEFINE r == m.to
           T == m.term
           sent == m.prevIndex + Len(m.entries)
           ack2 == ack \cup {<<m.to, m.term, k>> : k \in 1..(m.prevIndex + Len(m.entries))}
<1>1. LeadInv(won, lead) /\ AppendReqInv(won, lead, ack)
  BY DEF HistoryInv
<1>2. m \in AppendReq /\ r \in Server /\ T \in Nat /\ m.leaderCommit \in Nat
  <2>1. m \in AppendReq
    BY DEF TypeOK
  <2> QED  BY <2>1 DEF AppendReq
<1>3. /\ T >= term[r] /\ PrevMatches(m) /\ becameFollower(r, T)
      /\ commitIndex' = [commitIndex EXCEPT ![r] =
                             IF m.leaderCommit > @
                             THEN Min2(m.leaderCommit, LastIndex(Merged(log[r], m))) ELSE @]
      /\ appendReqs' \subseteq appendReqs
      /\ appendResps' = appendResps \cup AppendReply(m, T, TRUE)
      /\ UNCHANGED <<leaderVars, votes, voteMsgs, applyVars>>
  BY DEF AcceptEntries
<1>4. PICK new \in Seq(Entry) :
        /\ log' = [log EXCEPT ![r] = new] /\ new = Merged(log[r], m)
        /\ new = log[r] \/ Agree(new, lead[T], Len(new))
        /\ Agree(new, lead[T], sent)
        /\ \A i \in Nat : Agree(log[r], lead[T], i) => Agree(new, lead[T], i)
  BY <1>1, AcceptedLog
<1>5. /\ sent \in Nat /\ won[T] # Nil
      /\ m.leaderCommit <= sent /\ Committed(lead, ack, lead[T], T, m.leaderCommit)
  BY <1>1, <1>3, MergedWithLeader
<1>6. lead[T] \in Seq(Entry)
  BY <1>2, LogOfLeader DEF HistoryType
<1>7. /\ ack \subseteq ack2
      /\ \A x \in ack2 \ ack : \E n \in 1..sent : x = <<r, T, n>>
      /\ \A n \in 1..sent : <<r, T, n>> \in ack2
  OBVIOUS
<1>8. \A k \in appendResps' \ appendResps : k.from = r /\ k.savedTerm = T /\ k.last = sent
  BY <1>3 DEF AppendReply, Answer
<1> HIDE DEF r, T, sent, ack2
<1>9. Len(new) \in Nat /\ sent <= Len(new)
  BY <1>4, LenProperties DEF Agree
<1>10. ack2 \subseteq Server \X Nat \X Nat
  <2>1. \A n \in 1..sent : <<r, T, n>> \in Server \X Nat \X Nat
    BY <1>2, <1>5
  <2>2. ack \subseteq Server \X Nat \X Nat
    BY DEF HistoryType
  <2> QED  BY <1>7, <2>1, <2>2
<1>11. ASSUME NEW x \in ack2 \ ack
       PROVE  \E n \in Nat : x = <<r, T, n>> /\ n > 0 /\ Agree(new, lead[T], n)
  <2>1. PICK n \in 1..sent : x = <<r, T, n>>
    BY <1>7
  <2>2. n \in Nat /\ n > 0 /\ n \in 0..sent
    BY <1>5
  <2>3. Agree(new, lead[T], n)
    BY <1>4, <1>5, <1>6, <2>2, AgreeFacts
  <2> QED  BY <2>1, <2>2, <2>3
<1>12. \A k \in appendResps' \ appendResps : k.success =>
           \A n \in 1..k.last : <<k.from, k.savedTerm, n>> \in ack2
  BY <1>7, <1>8
<1>13. \A p \in Server \ {r} : commitIndex'[p] = commitIndex[p]
  BY <1>3 DEF TypeOK
<1>14. \/ commitIndex'[r] = commitIndex[r]
       \/ /\ commitIndex'[r] > commitIndex[r]
          /\ Agree(new, lead[T], commitIndex'[r])
          /\ Committed(lead, ack, lead[T], T, commitIndex'[r])
  <2>1. commitIndex'[r] = IF m.leaderCommit > commitIndex[r]
                          THEN Min2(m.leaderCommit, Len(new)) ELSE commitIndex[r]
    BY <1>2, <1>3, <1>4 DEF TypeOK, LastIndex
  <2>2. Min2(m.leaderCommit, Len(new)) = m.leaderCommit
    BY <1>2, <1>5, <1>9 DEF Min2
  <2>3. m.leaderCommit \in 0..sent
    BY <1>2, <1>5
  <2>4. Agree(new, lead[T], m.leaderCommit)
    BY <1>4, <1>5, <1>6, <2>3, AgreeFacts
  <2> QED  BY <1>5, <2>1, <2>2, <2>4
<1>15. term[r] \in Nat /\ term[r] <= T
  BY <1>2, <1>3 DEF TypeOK
<1>16. /\ becameFollower(r, T) /\ log' = [log EXCEPT ![r] = new]
       /\ UNCHANGED <<leaderVars, votes, voteMsgs, applyVars>> /\ appendReqs' \subseteq appendReqs
  BY <1>3, <1>4
<1>17. /\ r \in Server /\ T \in Nat /\ won[T] # Nil /\ ack \subseteq ack2
       /\ new = log[r] \/ Agree(new, lead[T], Len(new))
       /\ \A i \in Nat : Agree(log[r], lead[T], i) => Agree(new, lead[T], i)
  BY <1>2, <1>4, <1>5, <1>7
<1> SUFFICES HistoryType(won, lead, cast, ack2) /\ HistoryInv(won, lead, cast, ack2)'
  OBVIOUS
<1> QED
  BY <1>10, <1>11, <1>12, <1>13, <1>14, <1>15, <1>16, <1>17, TakingIsSafe

\* A follower whose append loop is interrupted acknowledges nothing.
LEMMA InterruptedSafe ==
    ASSUME TypeOK, TypeOK', FileIsMemory', AppliedInv, NEW m \in appendReqs, InterruptedAppend(m),
           NEW won, NEW lead, NEW cast, NEW ack,
           HistoryType(won, lead, cast, ack), HistoryInv(won, lead, cast, ack)
    PROVE  HistoryInv(won, lead, cast, ack)'
<1> DEFINE r == m.to
           T == m.term
<1>1. LeadInv(won, lead) /\ AppendReqInv(won, lead, ack)
  BY DEF HistoryInv
<1>2. r \in Server /\ T \in Nat
  BY DEF TypeOK, AppendReq
<1>3. /\ T >= term[r] /\ becameFollower(r, T)
      /\ commitIndex' = commitIndex /\ appendReqs' \subseteq appendReqs /\ appendResps' = appendResps
      /\ UNCHANGED <<leaderVars, votes, voteMsgs, applyVars>>
  BY DEF InterruptedAppend
<1>4. PICK new \in Seq(Entry) :
        /\ log' = [log EXCEPT ![r] = new]
        /\ Agree(new, lead[T], Len(new))
        /\ \A i \in Nat : Agree(log[r], lead[T], i) => Agree(new, lead[T], i)
  BY <1>1, InterruptedLog
<1>5. won[T] # Nil
  BY <1>1 DEF AppendReqInv
<1> HIDE DEF r, T
<1>6. term[r] \in Nat /\ term[r] <= T
  BY <1>2, <1>3 DEF TypeOK
<1>7. ack \subseteq Server \X Nat \X Nat
  BY DEF HistoryType
<1>8. /\ \A x \in ack \ ack : \E i \in Nat : x = <<r, T, i>> /\ i > 0 /\ Agree(new, lead[T], i)
      /\ \A k \in appendResps' \ appendResps : k.success =>
            \A i \in 1..k.last : <<k.from, k.savedTerm, i>> \in ack
      /\ \A p \in Server \ {r} : commitIndex'[p] = commitIndex[p]
      /\ commitIndex'[r] = commitIndex[r]
  BY <1>3
<1> QED
  BY <1>2, <1>3, <1>4, <1>5, <1>6, <1>7, <1>8, TakingIsSafe

\* What a leader commits by counting was chosen in its term.
LEMMA CommittableIsChosen ==
    ASSUME TypeOK, NEW won, NEW lead, NEW cast, NEW ack, HistoryType(won, lead, cast, ack),
           LeadInv(won, lead), AckInv(lead, ack), NEW r \in Server, state[r] = Leader, NEW mi,
           \A p \in Peers(r) : mi[p] \in Nat /\ \A n \in 1..mi[p] : <<p, term[r], n>> \in ack,
           NEW n \in Committable(r, mi)
    PROVE  n > commitIndex[r] /\ Committed(lead, ack, log[r], term[r], n)
<1>1. /\ term[r] \in Nat /\ log[r] \in Seq(Entry) /\ Len(log[r]) \in Nat /\ commitIndex[r] \in Nat
  BY LenProperties DEF TypeOK
<1>2. /\ n \in (commitIndex[r] + 1)..Len(log[r])
      /\ IsMajority(Cardinality({r} \cup {p \in Peers(r) : mi[p] >= n}))
      /\ log[r][n].term = term[r]
  BY DEF Committable, LastIndex
<1>3. n \in Nat /\ n > commitIndex[r] /\ n \in 1..Len(log[r])
  BY <1>1, <1>2
<1>4. lead[term[r]] = log[r]
  BY DEF LeadInv
<1>5. Own(lead, term[r], n)
  BY <1>2, <1>3, <1>4 DEF Own
<1>6. Chosen(ack, term[r], n)
  <2> DEFINE Q == {r} \cup {p \in Peers(r) : mi[p] >= n}
  <2>1. Q \in Majority
    BY <1>2 DEF Majority, Peers
  <2>2. ASSUME NEW p \in Q  PROVE <<p, term[r], n>> \in ack
    <3>1. CASE p = r
      BY <1>3, <3>1 DEF AckInv
    <3>2. CASE p # r
      <4>1. p \in Peers(r) /\ mi[p] >= n
        BY <2>2, <3>2
      <4>2. mi[p] \in Nat /\ \A k \in 1..mi[p] : <<p, term[r], k>> \in ack
        BY <4>1
      <4>3. n \in 1..mi[p]
        BY <1>3, <4>1, <4>2
      <4> QED  BY <4>2, <4>3
    <3> QED  BY <3>1, <3>2
  <2> HIDE DEF Q
  <2> QED  BY <2>1, <2>2 DEF Chosen
<1>7. Agree(log[r], lead[term[r]], n)
  BY <1>1, <1>3, <1>4, AgreeFacts
<1>8. term[r] \in 0..term[r] /\ n <= n
  BY <1>1, <1>3
<1> QED  BY <1>3, <1>5, <1>6, <1>7, <1>8 DEF Committed

\* A leader that records a match, and perhaps commits.
LEMMA RecordMatchSafe ==
    ASSUME Reliable, TypeOK, TypeOK', FileIsMemory', AppliedInv, NEW m \in appendResps, RecordMatch(m),
           NEW won, NEW lead, NEW cast, NEW ack,
           HistoryType(won, lead, cast, ack), HistoryInv(won, lead, cast, ack)
    PROVE  HistoryInv(won, lead, cast, ack)'
<1> DEFINE r == m.to
           mi == [matchIndex[r] EXCEPT ![m.from] = m.last]
<1>1. /\ CastInv(cast) /\ WonInv(won, cast) /\ LeadInv(won, lead)
      /\ VoteReqInv /\ AppendReqInv(won, lead, ack) /\ AckInv(lead, ack)
      /\ KeepInv(won, lead, cast, ack) /\ CommitInv(lead, ack)
  BY DEF HistoryInv
<1>2. r \in Server /\ m.from \in Server /\ m.last \in Nat
  BY DEF TypeOK, AppendResp
<1>3. /\ state' = state /\ term' = term /\ votedFor' = votedFor /\ log' = log /\ votes' = votes
      /\ voteReqs' = voteReqs /\ voteResps' = voteResps /\ appendReqs' = appendReqs
      /\ appendResps' \subseteq appendResps /\ lastApplied' = lastApplied /\ wal' = wal
  BY DEF RecordMatch, voteMsgs, applyVars
<1>4. /\ state[r] = Leader /\ m.savedTerm = term[r] /\ m.success
      /\ matchIndex' = [matchIndex EXCEPT ![r][m.from] = m.last]
  BY DEF RecordMatch, InItsTerm, Reliable
<1>5. PICK n \in advanceLeaderCommit(r, mi) : commitIndex' = [commitIndex EXCEPT ![r] = n]
  BY DEF RecordMatch
<1>6. /\ matchIndex'[r] = mi
      /\ \A p \in Server \ {r} : matchIndex'[p] = matchIndex[p]
      /\ \A p \in Server : mi[p] \in Nat /\ mi[p] = IF p = m.from THEN m.last ELSE matchIndex[r][p]
  <2>1. matchIndex[r] \in [Server -> Nat] /\ matchIndex \in [Server -> [Server -> Nat]]
    BY <1>2 DEF TypeOK
  <2>2. matchIndex' = [matchIndex EXCEPT ![r] = mi]
    BY <1>4
  <2>3. \A p \in Server : mi[p] \in Nat /\ mi[p] = IF p = m.from THEN m.last ELSE matchIndex[r][p]
    BY <1>2, <2>1
  <2> HIDE DEF r, mi
  <2> QED  BY <1>2, <2>1, <2>2, <2>3
<1> HIDE DEF r, mi
<1>7. \A q \in Server : /\ term[q] \in Nat /\ commitIndex[q] \in Nat
                        /\ log[q] \in Seq(Entry) /\ lastApplied[q] \in Nat
  BY DEF TypeOK
<1>8. TermsGrow /\ NoNewRoles /\ NoNewLeaders
  BY <1>3, <1>7 DEF TermsGrow, NoNewRoles, NoNewLeaders
<1>9. ASSUME NEW p \in Peers(r)
      PROVE  mi[p] \in Nat /\ \A k \in 1..mi[p] : <<p, term[r], k>> \in ack
  <2>1. p \in Server
    BY DEF Peers
  <2>2. CASE p = m.from
    BY <1>1, <1>4, <1>6, <2>1, <2>2 DEF AckInv
  <2>3. CASE p # m.from
    BY <1>1, <1>2, <1>4, <1>6, <2>1, <2>3 DEF AckInv
  <2> QED  BY <2>2, <2>3
<1>10. CastInv(cast)'
  BY <1>1, <1>3, <1>8, CastFrame
<1>11. WonInv(won, cast)'
  <2>1. won \in [Nat -> Server \cup {Nil}]
    BY DEF HistoryType
  <2> QED  BY <1>1, <1>3, <1>8, <2>1, WonFrame
<1>12. LeadInv(won, lead)'
  BY <1>1, <1>3, <1>8, LeadFrame
<1>13. VoteReqInv'
  BY <1>1, <1>3, <1>8, FewerCalls, VoteReqFrame
<1>14. AppendReqInv(won, lead, ack)'
  BY <1>1, <1>3, FewerCalls, AppendReqFrame
<1>15. AckInv(lead, ack)'
  <2>1. ASSUME NEW q \in Server, state'[q] = Leader
        PROVE  /\ \A k \in 1..Len(log'[q]) : <<q, term'[q], k>> \in ack
               /\ \A p \in Peers(q) : \A k \in 1..matchIndex'[q][p] : <<p, term'[q], k>> \in ack
    <3>1. state[q] = Leader
      BY <1>3, <2>1
    <3>2. \A k \in 1..Len(log'[q]) : <<q, term'[q], k>> \in ack
      BY <1>1, <1>3, <3>1 DEF AckInv
    <3>3. \A p \in Peers(q) : \A k \in 1..matchIndex'[q][p] : <<p, term'[q], k>> \in ack
      <4>1. CASE q = r
        BY <1>3, <1>6, <1>9, <4>1
      <4>2. CASE q # r
        BY <1>1, <1>3, <1>6, <3>1, <4>2 DEF AckInv
      <4> QED  BY <4>1, <4>2
    <3> QED  BY <3>2, <3>3
  <2>2. \A p \in Server, t, k \in Nat : <<p, t, k>> \in ack => t <= term'[p] /\ k \in 1..Len(lead[t])
    BY <1>1, <1>3 DEF AckInv
  <2>3. \A k \in appendResps' : k.success => \A i \in 1..k.last : <<k.from, k.savedTerm, i>> \in ack
    BY <1>1, <1>3 DEF AckInv
  <2> QED  BY <2>1, <2>2, <2>3 DEF AckInv, Peers
<1>16. KeepInv(won, lead, cast, ack)'
  BY <1>1, <1>3, <1>8, KeepFrame
<1>17. CommitInv(lead, ack)'
  <2>1. ASSUME NEW q \in Server
        PROVE  /\ Committed(lead, ack, log[q], term[q], commitIndex'[q])
               /\ commitIndex[q] <= commitIndex'[q] /\ commitIndex'[q] \in Nat
    <3>1. commitIndex'[q] \in Nat
      BY DEF TypeOK
    <3>2. CASE commitIndex'[q] = commitIndex[q]
      BY <1>1, <1>7, <3>1, <3>2 DEF CommitInv
    <3>3. CASE commitIndex'[q] # commitIndex[q]
      <4>1. q = r /\ commitIndex'[r] = n
        BY <1>2, <1>5, <3>3 DEF TypeOK
      <4>2. n \in Committable(r, mi)
        BY <1>5, <3>3, <4>1 DEF advanceLeaderCommit
      <4>3. n > commitIndex[r] /\ Committed(lead, ack, log[r], term[r], n)
        BY <1>1, <1>2, <1>4, <1>9, <4>1, <4>2, CommittableIsChosen
      <4> QED  BY <1>7, <3>1, <4>1, <4>3
    <3> QED  BY <3>2, <3>3
  <2>2. ASSUME NEW q \in Server
        PROVE  Len(wal'[q]) <= lastApplied'[q] /\ lastApplied'[q] <= commitIndex'[q]
    <3>1. Len(wal[q]) <= lastApplied[q] /\ lastApplied[q] <= commitIndex[q]
      BY DEF AppliedInv
    <3> QED  BY <1>3, <1>7, <2>1, <3>1
  <2> QED  BY <1>3, <2>1, <2>2 DEF CommitInv, Committed, Agree
<1> QED
  BY <1>10, <1>11, <1>12, <1>13, <1>14, <1>15, <1>16, <1>17 DEF HistoryInv

\* A leader appends an entry of its own, which nobody else has and which no
\* later leader can be asked to have: a majority has left the term before.
LEMMA SubmitSafe ==
    ASSUME TypeOK, TypeOK', FileIsMemory', AppliedInv, NEW r \in Server, NEW c \in Command, Submit(r, c),
           NEW won, NEW lead, NEW cast, NEW ack,
           HistoryType(won, lead, cast, ack), HistoryInv(won, lead, cast, ack),
           NEW T, T = term[r], NEW new, new = Append(log[r], [term |-> term[r], cmd |-> c]),
           NEW lead2, lead2 = [lead EXCEPT ![T] = new],
           NEW ack2, ack2 = ack \cup {<<r, T, Len(new)>>}
    PROVE  HistoryType(won, lead2, cast, ack2) /\ HistoryInv(won, lead2, cast, ack2)'
<1> DEFINE last == Len(new)
<1>1. /\ CastInv(cast) /\ WonInv(won, cast) /\ LeadInv(won, lead)
      /\ VoteReqInv /\ AppendReqInv(won, lead, ack) /\ AckInv(lead, ack)
      /\ KeepInv(won, lead, cast, ack) /\ CommitInv(lead, ack)
  BY DEF HistoryInv
<1>2. \A q \in Server : /\ term[q] \in Nat /\ log[q] \in Seq(Entry) /\ Len(log[q]) \in Nat
                        /\ commitIndex[q] \in Nat
  BY LenProperties DEF TypeOK
<1>3. T \in Nat /\ r # Nil
  BY <1>2, ServerAssumption
<1>4. /\ new \in Seq(Entry) /\ last \in Nat /\ last = Len(log[r]) + 1
      /\ \A i \in 1..Len(log[r]) : new[i] = log[r][i]
      /\ new[last].term = T
  <2> DEFINE e == [term |-> term[r], cmd |-> c]
  <2>1. e \in Entry /\ e.term = T
    BY <1>2 DEF Entry
  <2>2. new = Append(log[r], e)
    OBVIOUS
  <2> HIDE DEF e
  <2>3. /\ Append(log[r], e) \in Seq(Entry) /\ Len(Append(log[r], e)) = Len(log[r]) + 1
        /\ \A i \in 1..Len(log[r]) : Append(log[r], e)[i] = log[r][i]
        /\ Append(log[r], e)[Len(log[r]) + 1] = e
    BY <1>2, <2>1, AppendProperties
  <2> QED  BY <1>2, <2>1, <2>2, <2>3
<1>5. /\ state' = state /\ term' = term /\ votedFor' = votedFor /\ votes' = votes
      /\ voteReqs' = voteReqs /\ voteResps' = voteResps /\ appendReqs' = appendReqs
      /\ appendResps' = appendResps /\ matchIndex' = matchIndex /\ state[r] = Leader
      /\ commitIndex' = commitIndex /\ lastApplied' = lastApplied /\ wal' = wal
  BY DEF Submit, leaderVars, voteMsgs, appendMsgs, applyVars
<1>6. log'[r] = new /\ \A q \in Server \ {r} : log'[q] = log[q]
  BY DEF Submit, TypeOK
<1>7. won[T] = r /\ lead[T] = log[r]
  BY <1>1, <1>5 DEF LeadInv
<1>8. /\ lead \in LeaderLogs /\ lead2 \in LeaderLogs
      /\ lead2[T] = new /\ \A t \in Nat \ {T} : lead2[t] = lead[t]
  BY <1>3, <1>4 DEF HistoryType, LeaderLogs
<1>9. /\ ack \subseteq ack2 /\ <<r, T, last>> \in ack2
      /\ \A p \in Server, t, n \in Nat : <<p, t, n>> \in ack2 =>
             <<p, t, n>> \in ack \/ (p = r /\ t = T /\ n = last)
  OBVIOUS
<1>10. HistoryType(won, lead2, cast, ack2)
  <2>1. <<r, T, last>> \in Server \X Nat \X Nat
    BY <1>3, <1>4
  <2>2. ack2 \subseteq Server \X Nat \X Nat
    BY <2>1 DEF HistoryType
  <2> QED  BY <1>8, <2>2 DEF HistoryType
<1>11. Agree(new, log[r], Len(log[r]))
  BY <1>2, <1>4 DEF Agree
<1> HIDE DEF last
<1>12. ASSUME NEW k \in Seq(Entry), NEW n \in Nat, Agree(log[r], k, n)  PROVE Agree(new, k, n)
  <2>1. n \in 0..Len(log[r])
    BY <1>2, <1>12 DEF Agree
  <2>2. Agree(new, log[r], n)
    BY <1>2, <1>4, <1>11, <2>1, AgreeFacts, ZenonT(40)
  <2> QED  BY <1>2, <1>4, <1>12, <2>2, AgreeFacts
<1>13. HistoryGrows(won, lead, ack, won, lead2, ack2)
  <2>1. ASSUME NEW t \in Nat  PROVE Agree(lead2[t], lead[t], Len(lead[t]))
    <3>1. CASE t = T
      BY <1>7, <1>8, <1>11, <3>1
    <3>2. CASE t # T
      <4>1. lead2[t] = lead[t] /\ lead[t] \in Seq(Entry) /\ Len(lead[t]) \in Nat
        BY <1>8, <3>2, LogOfLeader
      <4>2. Agree(lead[t], lead[t], Len(lead[t]))
        BY <4>1 DEF Agree
      <4> QED  BY <4>1, <4>2
    <3> QED  BY <3>1, <3>2
  <2>2. \A p \in Server : term[p] <= term'[p]
    BY <1>2, <1>5
  <2>3. \A p \in Server, t, n \in Nat : <<p, t, n>> \in ack2 => <<p, t, n>> \in ack \/ t = term'[p]
    BY <1>5, <1>9
  <2> QED  BY <1>9, <2>1, <2>2, <2>3 DEF HistoryGrows
<1>14. TermsGrow /\ NoNewRoles /\ NoNewLeaders
  BY <1>2, <1>5 DEF TermsGrow, NoNewRoles, NoNewLeaders
<1>15. CastInv(cast)'
  BY <1>1, <1>5, <1>14, CastFrame
<1>16. WonInv(won, cast)'
  <2>1. won \in [Nat -> Server \cup {Nil}]
    BY DEF HistoryType
  <2> QED  BY <1>1, <1>5, <1>14, <2>1, WonFrame
<1>17. Sound(lead2, new) /\ \A i \in 1..last : new[i].term <= T
  <2>1. Sound(lead, log[r]) /\ \A i \in 1..Len(log[r]) : log[r][i].term <= T
    BY <1>1 DEF LeadInv
  <2>2. Sound(lead2, log[r])
    BY <1>2, <1>8, <1>13, <2>1, SoundStays
  <2>3. ASSUME NEW i \in 1..last  PROVE new[i].term <= T /\ Agree(new, lead2[new[i].term], i)
    <3>1. CASE i = last
      <4>1. new[i].term = T /\ T <= T /\ i \in Nat /\ i <= Len(new)
        BY <1>3, <1>4, <3>1 DEF last
      <4>2. Agree(new, new, i)
        BY <1>4, <4>1 DEF Agree
      <4> QED  BY <1>8, <4>1, <4>2
    <3>2. CASE i # last
      <4>1. i \in 1..Len(log[r]) /\ i \in Nat
        BY <1>2, <1>4, <3>2
      <4>2. new[i] = log[r][i] /\ log[r][i].term <= T /\ log[r][i].term \in Nat
        BY <1>2, <1>4, <2>1, <4>1, EntryHasTerm
      <4>3. Agree(log[r], lead2[log[r][i].term], i)
        BY <2>2, <4>1 DEF Sound
      <4>4. lead2[log[r][i].term] \in Seq(Entry)
        BY <1>8, <4>2, LogOfLeader
      <4>5. Agree(new, lead2[log[r][i].term], i)
        BY <1>12, <4>1, <4>3, <4>4
      <4> QED  BY <4>2, <4>5
    <3> QED  BY <3>1, <3>2
  <2> QED  BY <2>3 DEF Sound, last
<1>18. LeadInv(won, lead2)'
  <2>1. ASSUME NEW q \in Server, state'[q] = Leader
        PROVE  won[term'[q]] = q /\ log'[q] = lead2[term'[q]]
    <3>1. CASE q = r
      BY <1>5, <1>6, <1>7, <1>8, <3>1
    <3>2. CASE q # r
      <4>1. won[term[q]] = q /\ log[q] = lead[term[q]]
        BY <1>1, <1>5, <2>1 DEF LeadInv
      <4>2. term[q] # T
        BY <1>7, <3>2, <4>1
      <4> QED  BY <1>2, <1>5, <1>6, <1>8, <3>2, <4>1, <4>2
    <3> QED  BY <3>1, <3>2
  <2>2. ASSUME NEW t \in Nat
        PROVE  /\ won[t] = Nil => lead2[t] = <<>>
               /\ Sound(lead2, lead2[t])
               /\ \A i \in 1..Len(lead2[t]) : lead2[t][i].term <= t
    <3>1. CASE t = T
      BY <1>3, <1>7, <1>8, <1>17, <3>1 DEF last
    <3>2. CASE t # T
      <4>1. /\ won[t] = Nil => lead[t] = <<>>
            /\ Sound(lead, lead[t])
            /\ \A i \in 1..Len(lead[t]) : lead[t][i].term <= t
        BY <1>1 DEF LeadInv
      <4>2. Sound(lead2, lead[t])
        BY <1>8, <1>13, <4>1, LogOfLeader, SoundStays
      <4> QED  BY <1>8, <3>2, <4>1, <4>2
    <3> QED  BY <3>1, <3>2
  <2>3. ASSUME NEW p \in Server
        PROVE  /\ Sound(lead2, log'[p])
               /\ \A i \in 1..Len(log'[p]) : log'[p][i].term <= term'[p]
    <3>1. CASE p = r
      BY <1>5, <1>6, <1>17, <3>1 DEF last
    <3>2. CASE p # r
      <4>1. Sound(lead, log[p]) /\ \A i \in 1..Len(log[p]) : log[p][i].term <= term[p]
        BY <1>1 DEF LeadInv
      <4>2. Sound(lead2, log[p])
        BY <1>2, <1>8, <1>13, <4>1, SoundStays
      <4> QED  BY <1>5, <1>6, <3>2, <4>1, <4>2
    <3> QED  BY <3>1, <3>2
  <2> QED  BY <2>1, <2>2, <2>3, ZenonT(60) DEF LeadInv, Sound, Agree
<1>19. VoteReqInv'
  <2> SUFFICES ASSUME NEW k \in voteReqs
               PROVE  /\ k.term <= term[k.from]
                      /\ k.term = term[k.from] /\ state[k.from] = Candidate =>
                            /\ k.lastIndex = Len(log'[k.from])
                            /\ k.lastTerm = LastTerm(log'[k.from])
    BY <1>5 DEF VoteReqInv, LastTerm, TermAt
  <2>1. k.from \in Server
    BY DEF TypeOK, VoteReq
  <2>2. state[k.from] = Candidate => log'[k.from] = log[k.from]
    BY <1>5, <1>6, <2>1 DEF Candidate, Leader
  <2> QED  BY <1>1, <2>2 DEF VoteReqInv
<1>20. AppendReqInv(won, lead2, ack2)'
  BY <1>1, <1>5, <1>10, <1>13, FewerCalls, AppendReqStays
<1>21. AckInv(lead2, ack2)'
  <2>1. ASSUME NEW p \in Server, NEW t \in Nat, NEW n \in Nat, <<p, t, n>> \in ack2
        PROVE  t <= term'[p] /\ n \in 1..Len(lead2[t])
    <3>1. CASE <<p, t, n>> \in ack
      <4>1. t <= term[p] /\ n \in 1..Len(lead[t])
        BY <1>1, <3>1 DEF AckInv
      <4>2. Len(lead[t]) <= Len(lead2[t])
        BY <1>13 DEF HistoryGrows, Agree
      <4>3. Len(lead[t]) \in Nat /\ Len(lead2[t]) \in Nat
        BY <1>8, LogOfLeader
      <4> QED  BY <1>5, <4>1, <4>2, <4>3
    <3>2. CASE p = r /\ t = T /\ n = last
      BY <1>2, <1>4, <1>5, <1>8, <3>2 DEF last
    <3> QED  BY <1>9, <2>1, <3>1, <3>2
  <2>2. \A k \in appendResps' : k.success =>
            \A n \in 1..k.last : <<k.from, k.savedTerm, n>> \in ack2
    BY <1>1, <1>5, <1>9 DEF AckInv
  <2>3. ASSUME NEW q \in Server, state'[q] = Leader
        PROVE  /\ \A n \in 1..Len(log'[q]) : <<q, term'[q], n>> \in ack2
               /\ \A p \in Peers(q) : \A n \in 1..matchIndex'[q][p] : <<p, term'[q], n>> \in ack2
    <3>1. /\ \A n \in 1..Len(log[q]) : <<q, term[q], n>> \in ack2
          /\ \A p \in Peers(q) : \A n \in 1..matchIndex[q][p] : <<p, term[q], n>> \in ack2
      BY <1>1, <1>5, <1>9, <2>3 DEF AckInv
    <3>2. CASE q = r
      <4>1. ASSUME NEW n \in 1..last  PROVE <<r, T, n>> \in ack2
        <5>1. n = last \/ n \in 1..Len(log[r])
          BY <1>2, <1>4
        <5> QED  BY <1>9, <3>1, <3>2, <5>1
      <4> QED  BY <1>5, <1>6, <3>1, <3>2, <4>1 DEF last
    <3>3. CASE q # r
      BY <1>5, <1>6, <3>1, <3>3, SMTT(90)
    <3> QED  BY <3>2, <3>3
  <2> QED  BY <2>1, <2>2, <2>3 DEF AckInv, Peers
<1>22. KeepInv(won, lead2, cast, ack2)'
  <2> SUFFICES ASSUME NEW t \in Nat, NEW n \in Nat, Own(lead2, t, n)
               PROVE
              /\ \A p \in Server : <<p, t, n>> \in ack2 => SafeNext(lead2, ack2, log'[p], t, n)
              /\ \A u \in Nat : t < u /\ won[u] # Nil => SafeNext(lead2, ack2, lead2[u], t, n)
              /\ \A p, d \in Server :
                    /\ state'[d] = Candidate /\ t < term'[d]
                    /\ <<p, d, term'[d]>> \in cast /\ <<p, t, n>> \in ack2
                    => SafeNext(lead2, ack2, log'[d], t, n)
    BY KeepNext, ZenonT(40)
  <2>1. ASSUME NEW l \in Seq(Entry), Safe(lead, ack, l, t, n)  PROVE SafeNext(lead2, ack2, l, t, n)
    BY <1>8, <1>13, <2>1, SafeStays
  <2>2. ASSUME SafeNext(lead2, ack2, log[r], t, n)  PROVE SafeNext(lead2, ack2, new, t, n)
    BY <1>8, <1>12, <2>2, LogOfLeader DEF SafeNext
  <2>3. CASE ~(t = T /\ n = last)
    <3>1. Own(lead, t, n)
      <4>1. CASE t # T
        BY <1>8, <2>3, <4>1 DEF Own
      <4>2. CASE t = T
        <5>1. n \in 1..last /\ new[n].term = T
          BY <1>8, <4>2 DEF Own, last
        <5>2. n \in 1..Len(log[r])
          BY <1>2, <1>4, <2>3, <4>2, <5>1
        <5> QED  BY <1>4, <1>7, <4>2, <5>1, <5>2 DEF Own
      <4> QED  BY <4>1, <4>2
    <3>2. ASSUME NEW p \in Server, <<p, t, n>> \in ack2  PROVE <<p, t, n>> \in ack
      BY <1>9, <2>3, <3>2
    <3>3. ASSUME NEW p \in Server, <<p, t, n>> \in ack2  PROVE SafeNext(lead2, ack2, log'[p], t, n)
      <4>1. Safe(lead, ack, log[p], t, n)
        BY <1>1, <3>1, <3>2, <3>3 DEF KeepInv
      <4>2. SafeNext(lead2, ack2, log[p], t, n)
        BY <1>2, <2>1, <4>1
      <4> QED  BY <1>6, <2>2, <4>2
    <3>4. ASSUME NEW u \in Nat, t < u, won[u] # Nil  PROVE SafeNext(lead2, ack2, lead2[u], t, n)
      <4>1. Safe(lead, ack, lead[u], t, n)
        BY <1>1, <3>1, <3>4 DEF KeepInv
      <4>2. SafeNext(lead2, ack2, lead[u], t, n)
        BY <1>8, <2>1, <4>1, LogOfLeader
      <4> QED  BY <1>7, <1>8, <2>2, <4>2
    <3>5. ASSUME NEW p \in Server, NEW d \in Server, state'[d] = Candidate, t < term'[d],
                 <<p, d, term'[d]>> \in cast, <<p, t, n>> \in ack2
          PROVE  SafeNext(lead2, ack2, log'[d], t, n)
      <4>1. d # r /\ log'[d] = log[d]
        BY <1>5, <1>6, <3>5 DEF Candidate, Leader
      <4>2. Safe(lead, ack, log[d], t, n)
        BY <1>1, <1>5, <3>1, <3>2, <3>5 DEF KeepInv
      <4> QED  BY <1>2, <2>1, <4>1, <4>2
    <3> QED  BY <3>3, <3>4, <3>5
  <2>4. CASE t = T /\ n = last
    <3>1. ASSUME NEW p \in Server, <<p, t, n>> \in ack2  PROVE p = r
      <4> SUFFICES ASSUME <<p, t, n>> \in ack  PROVE FALSE
        BY <1>9, <3>1
      <4>1. n \in 1..Len(lead[t])
        BY <1>1 DEF AckInv
      <4> QED  BY <1>2, <1>4, <1>7, <2>4, <4>1
    <3>2. ASSUME NEW p \in Server, <<p, t, n>> \in ack2  PROVE SafeNext(lead2, ack2, log'[p], t, n)
      <4>1. Agree(new, lead2[t], n)
        <5>1. n <= Len(new)
          BY <1>4, <2>4 DEF last
        <5> QED  BY <1>4, <1>8, <2>4, <5>1, AgreeFacts, ZenonT(40)
      <4>2. log'[p] = new
        BY <1>6, <3>1, <3>2
      <4> QED  BY <4>1, <4>2 DEF SafeNext
    <3>3. ASSUME NEW u \in Nat, t < u, won[u] # Nil  PROVE SafeNext(lead2, ack2, lead2[u], t, n)
      <4>1. PICK Q \in Majority : \A p \in Q : <<p, won[u], u>> \in cast
        BY <1>1, <3>3 DEF WonInv
      <4>2. won[u] \in Server
        BY <3>3 DEF HistoryType
      <4>3. ASSUME NEW p \in Q  PROVE term'[p] > t /\ <<p, t, n>> \notin ack2
        <5>1. p \in Server /\ term[p] \in Nat
          BY <1>2 DEF Majority
        <5>2. u <= term[p]
          BY <1>1, <4>1, <4>2, <5>1 DEF CastInv
        <5>3. term[p] > t
          BY <3>3, <5>1, <5>2
        <5>4. p # r
          BY <1>3, <2>4, <5>3
        <5> QED  BY <1>5, <3>1, <5>1, <5>3, <5>4
      <4>4. \E R \in Majority : \A p \in R : term'[p] > t /\ <<p, t, n>> \notin ack2
        BY <4>3
      <4> QED  BY <4>4 DEF SafeNext, Lost
    <3>4. ASSUME NEW p \in Server, NEW d \in Server, state'[d] = Candidate, t < term'[d],
                 <<p, d, term'[d]>> \in cast, <<p, t, n>> \in ack2
          PROVE  SafeNext(lead2, ack2, log'[d], t, n)
      <4>1. p = r
        BY <3>1, <3>4
      <4>2. term[d] <= term[p]
        BY <1>1, <1>2, <1>5, <3>4 DEF CastInv
      <4> QED  BY <1>2, <1>5, <2>4, <3>4, <4>1, <4>2
    <3> QED  BY <3>2, <3>3, <3>4
  <2> QED  BY <2>3, <2>4
<1>23. CommitInv(lead2, ack2)'
  <2>1. CommitsShrink
    BY NothingApplied DEF Submit
  <2>2. ASSUME NEW q \in Server  PROVE Agree(log'[q], log[q], commitIndex[q])
    <3>1. commitIndex[q] <= Len(log[q])
      BY <1>1, CommitWithin
    <3>2. Agree(log[q], log[q], commitIndex[q])
      BY <1>2, <3>1, AgreeFacts
    <3> QED  BY <1>2, <1>6, <1>12, <3>2
  <2>3. ASSUME NEW q \in Server
        PROVE  /\ Committed(lead2, ack2, log'[q], term'[q], commitIndex'[q])
               /\ Len(wal'[q]) <= lastApplied'[q] /\ lastApplied'[q] <= commitIndex'[q]
    BY <1>1, <1>10, <1>13, <2>1, <2>2, CommitStays
  <2> QED  BY <2>3 DEF CommitInv, Committed, Agree
<1> QED
  BY <1>10, <1>15, <1>16, <1>18, <1>19, <1>20, <1>21, <1>22, <1>23 DEF HistoryInv

-----------------------------------------------------------------------------
(* The invariant.                                                          *)

\* The empty history explains a group that has just started.
LEMMA SafetyInit == Init => SafetyInv
<1> SUFFICES ASSUME Init  PROVE SafetyInv
  OBVIOUS
<1> DEFINE won == [t \in Nat |-> Nil]
           lead == [t \in Nat |-> <<>>]
           none == {}
<1>1. TypeOK
  BY InitTypes
<1>2. /\ \A p \in Server : /\ state[p] = Follower /\ term[p] = 0 /\ commitIndex[p] = 0
                           /\ lastApplied[p] = 0 /\ log[p] = <<>> /\ wal[p] = <<>>
                           /\ votedFor[p] = Nil /\ stateFile[p] = [term |-> 0, votedFor |-> Nil]
      /\ voteReqs = {} /\ voteResps = {} /\ appendReqs = {} /\ appendResps = {}
  BY DEF Init
<1>3. /\ won \in [Nat -> Server \cup {Nil}] /\ lead \in LeaderLogs
      /\ \A t \in Nat : won[t] = Nil /\ lead[t] = <<>>
  <2>1. <<>> \in Seq(Entry)
    OBVIOUS
  <2> QED  BY <2>1 DEF LeaderLogs
<1>4. HistoryType(won, lead, none, none)
  BY <1>3 DEF HistoryType
<1> HIDE DEF won, lead
<1>5. FileIsMemory
  BY <1>2 DEF FileIsMemory
<1>6. CastInv(none)
  BY <1>2 DEF CastInv
<1>7. WonInv(won, none)
  BY <1>3 DEF WonInv
<1>8. LeadInv(won, lead)
  <2>1. Sound(lead, <<>>) /\ \A t \in Nat : \A i \in 1..Len(<<>>) : <<>>[i].term <= t
    BY DEF Sound
  <2>2. \A r \in Server : state[r] # Leader
    BY <1>2 DEF Leader, Follower
  <2>3. \A r \in Server : log[r] = <<>> /\ term[r] \in Nat
    BY <1>2
  <2> QED  BY <1>3, <2>1, <2>2, <2>3 DEF LeadInv
<1>9. VoteReqInv /\ AppendReqInv(won, lead, none)
  BY <1>2 DEF VoteReqInv, AppendReqInv
<1>10. AckInv(lead, none)
  BY <1>2 DEF AckInv, Leader, Follower
<1>11. KeepInv(won, lead, none, none)
  BY <1>3 DEF KeepInv, Own
<1>12. CommitInv(lead, none)
  <2>1. Len(<<>>) <= 0 /\ 0 <= 0 /\ ~(0 > 0)
    OBVIOUS
  <2> QED  BY <1>2, <2>1 DEF CommitInv, Committed
<1>13. HistoryInv(won, lead, none, none)
  BY <1>5, <1>6, <1>7, <1>8, <1>9, <1>10, <1>11, <1>12 DEF HistoryInv
<1> HIDE DEF none
<1> QED  BY <1>1, <1>4, <1>13 DEF SafetyInv

\* Every step of a group whose disks persist raft.state, and whose calls end
\* with their term, leaves a state that some history explains.
LEMMA SafetyStep ==
    ASSUME Reliable, SafetyInv, [Next]_vars
    PROVE  SafetyInv'
<1>1. TypeOK
  BY DEF SafetyInv
<1>2. TypeOK'
  BY <1>1, TypeStep
<1>3. PICK won, lead, cast, ack :
          HistoryType(won, lead, cast, ack) /\ HistoryInv(won, lead, cast, ack)
  BY DEF SafetyInv
<1>4. FileIsMemory /\ AppliedInv
  BY <1>3 DEF HistoryInv, CommitInv, AppliedInv
<1>5. FileIsMemory'
  BY <1>1, <1>4, FileStep DEF FileIsMemory
<1>6. ASSUME NEW won2, NEW lead2, NEW cast2, NEW ack2,
             HistoryType(won2, lead2, cast2, ack2), HistoryInv(won2, lead2, cast2, ack2)'
      PROVE  SafetyInv'
  <2>1. \E a, b, c, d : HistoryType(a, b, c, d) /\ HistoryInv(a, b, c, d)'
    BY <1>6
  <2> QED  BY <1>2, <2>1 DEF SafetyInv, HistoryType
<1>7. ASSUME Quiet  PROVE SafetyInv'
  BY <1>1, <1>2, <1>3, <1>5, <1>6, <1>7, QuietStep
<1>8. ASSUME NEW r \in Server, startElection(r)  PROVE SafetyInv'
  <2>1. PICK cast2 : cast2 = cast \cup {<<r, r, term[r] + 1>>}
    OBVIOUS
  <2>2. HistoryType(won, lead, cast2, ack) /\ HistoryInv(won, lead, cast2, ack)'
    BY <1>1, <1>2, <1>3, <1>4, <1>5, <1>8, <2>1, StartElectionSafe
  <2> QED  BY <1>6, <2>2
<1>9. ASSUME NEW m \in voteReqs, HandleRequestVote(m)  PROVE SafetyInv'
  <2>1. PICK cast2 : cast2 = IF MayGrant(m) THEN cast \cup {<<m.to, m.from, m.term>>} ELSE cast
    OBVIOUS
  <2> QED  BY <1>1, <1>2, <1>3, <1>4, <1>5, <1>6, <1>9, <2>1, RequestVoteSafe
<1>10. ASSUME NEW m \in voteResps, IgnoreVoteReply(m) \/ LoseElection(m)  PROVE SafetyInv'
  BY <1>1, <1>4, <1>7, <1>10, QuietReplies
<1>11. ASSUME NEW m \in voteResps, CountVote(m)  PROVE SafetyInv'
  <2>1. CASE UNCHANGED <<state, leaderVars>>
    BY <1>1, <1>2, <1>3, <1>4, <1>5, <1>6, <1>11, <2>1, CountedSafe
  <2>2. CASE becameLeader(m.to) /\ IsMajority(Cardinality(votes'[m.to]))
    <3>1. PICK r, T : r = m.to /\ T = term[r]
      OBVIOUS
    <3>2. becameLeader(r) /\ IsMajority(Cardinality(votes'[r]))
      BY <2>2, <3>1
    <3>3. \E won2, lead2, ack2 :
              HistoryType(won2, lead2, cast, ack2) /\ HistoryInv(won2, lead2, cast, ack2)'
      BY <1>1, <1>2, <1>3, <1>4, <1>5, <1>11, <3>1, <3>2, ElectedSafe
    <3> QED  BY <1>6, <3>3
  <2>3. m.to \in Server
    BY <1>1 DEF TypeOK, VoteResp
  <2>4. \/ UNCHANGED <<state, leaderVars>>
        \/ becameLeader(m.to) /\ IsMajority(Cardinality(votes'[m.to]))
    <3> DEFINE counted == IF m.term = m.savedTerm /\ m.granted
                          THEN votes[m.to] \cup {m.from} ELSE votes[m.to]
    <3>1. /\ votes' = [votes EXCEPT ![m.to] = counted]
          /\ \/ IsMajority(Cardinality(counted)) /\ becameLeader(m.to)
             \/ UNCHANGED <<state, leaderVars>>
      BY <1>11 DEF CountVote
    <3> HIDE DEF counted
    <3>2. votes'[m.to] = counted
      BY <1>1, <2>3, <3>1 DEF TypeOK
    <3> QED  BY <3>1, <3>2
  <2> QED  BY <2>1, <2>2, <2>4
<1>12. ASSUME NEW m \in appendReqs, HandleAppendEntries(m)  PROVE SafetyInv'
  <2>1. CASE RefuseStaleAppend(m) \/ RefuseMismatch(m)
    BY <1>1, <1>4, <1>7, <2>1, QuietReplies
  <2>2. CASE AcceptEntries(m)
    <3>1. \E ack2 : HistoryType(won, lead, cast, ack2) /\ HistoryInv(won, lead, cast, ack2)'
      BY <1>1, <1>2, <1>3, <1>4, <1>5, <2>2, AcceptSafe
    <3> QED  BY <1>6, <3>1
  <2>3. CASE InterruptedAppend(m)
    BY <1>1, <1>2, <1>3, <1>4, <1>5, <1>6, <2>3, InterruptedSafe
  <2> QED  BY <1>12, <2>1, <2>2, <2>3 DEF HandleAppendEntries
<1>13. ASSUME NEW m \in appendResps, HandleAppendReply(m)  PROVE SafetyInv'
  <2>1. CASE IgnoreAppendReply(m) \/ StepDownOnReply(m) \/ BackUp(m)
    BY <1>1, <1>4, <1>7, <2>1, QuietReplies
  <2>2. CASE RecordMatch(m)
    BY <1>1, <1>2, <1>3, <1>4, <1>5, <1>6, <2>2, RecordMatchSafe
  <2> QED  BY <1>13, <2>1, <2>2 DEF HandleAppendReply
<1>14. ASSUME NEW r \in Server, NEW p \in Peers(r), NEW t \in heartbeats[r], replicateToPeer(r, p, t)
       PROVE  SafetyInv'
  BY <1>1, <1>2, <1>3, <1>4, <1>5, <1>6, <1>14, ReplicateSafe
<1>15. ASSUME NEW r \in Server, NEW c \in Command, Submit(r, c)  PROVE SafetyInv'
  <2>1. PICK T, new : T = term[r] /\ new = Append(log[r], [term |-> term[r], cmd |-> c])
    OBVIOUS
  <2>2. PICK lead2, ack2 : /\ lead2 = [lead EXCEPT ![T] = new]
                           /\ ack2 = ack \cup {<<r, T, Len(new)>>}
    OBVIOUS
  <2>3. HistoryType(won, lead2, cast, ack2) /\ HistoryInv(won, lead2, cast, ack2)'
    BY <1>1, <1>2, <1>3, <1>4, <1>5, <1>15, <2>1, <2>2, SubmitSafe
  <2> QED  BY <1>6, <2>3
<1>16. ASSUME NEW r \in Server, ApplyLoop(r) \/ Restart(r)  PROVE SafetyInv'
  BY <1>1, <1>4, <1>7, <1>16, QuietServers
<1>17. ASSUME CallFails \/ UNCHANGED vars  PROVE SafetyInv'
  BY <1>1, <1>4, <1>7, <1>17, QuietServers
<1> QED
  BY <1>8, <1>9, <1>10, <1>11, <1>12, <1>13, <1>14, <1>15, <1>16, <1>17 DEF Next

\* At every moment there is a history of elections, votes and acknowledged
\* entries that explains the logs, the calls on their way and what is committed.
THEOREM SafetyInvariant ==
    ASSUME Reliable
    PROVE  Spec => []SafetyInv
<1>1. SafetyInv /\ [Next]_vars => SafetyInv'
  BY SafetyStep
<1> QED  BY <1>1, SafetyInit, PTL DEF Spec
=============================================================================
