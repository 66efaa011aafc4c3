----------------------------- MODULE RaftSafety -----------------------------
(***************************************************************************)
(* Why the log of a Raft group is safe: the invariant from which           *)
(* LogMatching, LeaderCompleteness, StateMachineSafety and                 *)
(* CommitHeldByMajority follow, for groups whose disks persist raft.state  *)
(* (FailingDisk = {}) and in which no reply outlives its term              *)
(* (RepliesMayOutliveTerm = FALSE).                                        *)
(*                                                                         *)
(* A leader that is gone leaves no trace in the state, so the invariant    *)
(* speaks of a history of the group:                                       *)
(*   won[t]      the server that was elected in term t, or Nil             *)
(*   lead[t]     the log of that server while it led, as long as it got    *)
(*   cast        <<p, c, t>>: p has voted for c in term t                  *)
(*   ack         <<p, t, n>>: in term t the log of p has agreed with       *)
(*               lead[t] up to n                                           *)
(* The history is not a variable: SafetyInv says that there is one.        *)
(***************************************************************************)
EXTENDS RaftGroup

\* Disks that persist raft.state, and calls that end with their term.
Reliable == FailingDisk = {} /\ RepliesMayOutliveTerm = FALSE

Majority == {Q \in SUBSET Server : IsMajority(Cardinality(Q))}

\* Two logs hold the same entries up to n.
Agree(l, k, n) == n <= Len(l) /\ n <= Len(k) /\ \A i \in 1..n : l[i] = k[i]

\* Each entry of l, with everything before it, comes from the leader of its
\* term.
Sound(lead, l) == \A i \in 1..Len(l) : Agree(l, lead[l[i].term], i)

\* The leader of term t appended entry n itself.
Own(lead, t, n) == n \in 1..Len(lead[t]) /\ lead[t][n].term = t

\* A majority has had the first n entries of lead[t] in term t.
Chosen(ack, t, n) == \E Q \in Majority : \A p \in Q : <<p, t, n>> \in ack

\* They never will be chosen: a majority has left term t without them.
Lost(ack, t, n) == \E Q \in Majority : \A p \in Q : term[p] > t /\ <<p, t, n>> \notin ack

\* A log that cannot contradict what is, or will be, chosen at t and n.
Safe(lead, ack, l, t, n) == Agree(l, lead[t], n) \/ Lost(ack, t, n)

\* The first n entries of l are within what was chosen in a term up to t.
Committed(lead, ack, l, t, n) ==
    n > 0 => \E s \in 0..t : \E k \in Nat :
                /\ n <= k /\ Own(lead, s, k) /\ Chosen(ack, s, k)
                /\ Agree(l, lead[s], n)

-----------------------------------------------------------------------------
\* Nobody votes twice in a term, restarts included, and every vote counted or
\* on its way was cast.
CastInv(cast) ==
    /\ \A p, c \in Server, t \in Nat : <<p, c, t>> \in cast =>
          t <= term[c] /\ t <= term[p] /\ (t = term[p] => votedFor[p] = c)
    /\ \A p, c, d \in Server, t \in Nat :
          <<p, c, t>> \in cast /\ <<p, d, t>> \in cast => c = d
    /\ \A c \in Server : state[c] # Follower => \A p \in votes[c] : <<p, c, term[c]>> \in cast
    /\ \A m \in voteResps : m.granted => <<m.from, m.to, m.savedTerm>> \in cast

\* A term is won by a majority of its votes, and once.
WonInv(won, cast) ==
    \A t \in Nat : won[t] # Nil =>
        /\ \E Q \in Majority : \A p \in Q : <<p, won[t], t>> \in cast
        /\ t <= term[won[t]]
        /\ t = term[won[t]] => state[won[t]] # Candidate

\* The logs of leaders, and the logs that come from them.
LeadInv(won, lead) ==
    /\ \A r \in Server : state[r] = Leader => won[term[r]] = r /\ log[r] = lead[term[r]]
    /\ \A t \in Nat : /\ won[t] = Nil => lead[t] = <<>>
                      /\ Sound(lead, lead[t])
                      /\ \A i \in 1..Len(lead[t]) : lead[t][i].term <= t
    /\ \A p \in Server : /\ Sound(lead, log[p])
                         /\ \A i \in 1..Len(log[p]) : log[p][i].term <= term[p]

\* A call for a vote tells the truth about the log of a candidate.
VoteReqInv ==
    \A m \in voteReqs :
        /\ m.term <= term[m.from]
        /\ m.term = term[m.from] /\ state[m.from] = Candidate =>
              m.lastIndex = Len(log[m.from]) /\ m.lastTerm = LastTerm(log[m.from])

\* A call for entries carries a piece of the log of the leader of its term,
\* and no commit index beyond it.
AppendReqInv(won, lead, ack) ==
    \A m \in appendReqs :
        LET sent == m.prevIndex + Len(m.entries) IN
        /\ won[m.term] # Nil
        /\ sent <= Len(lead[m.term])
        /\ m.prevTerm = TermAt(lead[m.term], m.prevIndex)
        /\ \A k \in 1..Len(m.entries) : m.entries[k] = lead[m.term][m.prevIndex + k]
        /\ m.leaderCommit <= sent
        /\ Committed(lead, ack, lead[m.term], m.term, m.leaderCommit)

\* What leaders believe of their peers was true in their term.
AckInv(lead, ack) ==
    /\ \A p \in Server, t, n \in Nat : <<p, t, n>> \in ack =>
          t <= term[p] /\ n \in 1..Len(lead[t])
    /\ \A m \in appendResps : m.success =>
          \A n \in 1..m.last : <<m.from, m.savedTerm, n>> \in ack
    /\ \A r \in Server : state[r] = Leader =>
          /\ \A n \in 1..Len(log[r]) : <<r, term[r], n>> \in ack
          /\ \A p \in Peers(r) : \A n \in 1..matchIndex[r][p] : <<p, term[r], n>> \in ack

\* The heart of the matter: whoever had entry n of term t still has it, every
\* later leader has it, and every candidate that such a server voted for has
\* it, unless it can no longer be chosen.
KeepInv(won, lead, cast, ack) ==
    \A t, n \in Nat : Own(lead, t, n) =>
        /\ \A p \in Server : <<p, t, n>> \in ack => Safe(lead, ack, log[p], t, n)
        /\ \A u \in Nat : t < u /\ won[u] # Nil => Safe(lead, ack, lead[u], t, n)
        /\ \A p, c \in Server :
              /\ state[c] = Candidate /\ t < term[c]
              /\ <<p, c, term[c]>> \in cast /\ <<p, t, n>> \in ack
              => Safe(lead, ack, log[c], t, n)

\* What is committed was chosen; what is in the WAL was committed.
CommitInv(lead, ack) ==
    \A r \in Server :
        /\ Committed(lead, ack, log[r], term[r], commitIndex[r])
        /\ Len(wal[r]) <= lastApplied[r] /\ lastApplied[r] <= commitIndex[r]

\* What histories are made of.
LeaderLogs == [Nat -> Seq(Entry)]

HistoryType(won, lead, cast, ack) ==
    /\ won \in [Nat -> Server \cup {Nil}]
    /\ lead \in LeaderLogs
    /\ cast \subseteq Server \X Server \X Nat
    /\ ack \subseteq Server \X Nat \X Nat

HistoryInv(won, lead, cast, ack) ==
    /\ FileIsMemory
    /\ CastInv(cast)
    /\ WonInv(won, cast)
    /\ LeadInv(won, lead)
    /\ VoteReqInv
    /\ AppendReqInv(won, lead, ack)
    /\ AckInv(lead, ack)
    /\ KeepInv(won, lead, cast, ack)
    /\ CommitInv(lead, ack)

\* There is a history that explains the state.
SafetyInv ==
    /\ TypeOK
    /\ \E won, lead, cast, ack :
          HistoryType(won, lead, cast, ack) /\ HistoryInv(won, lead, cast, ack)
=============================================================================
