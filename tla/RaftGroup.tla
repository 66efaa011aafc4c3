----------------------------- MODULE RaftGroup -----------------------------
(***************************************************************************)
(* One Raft group of miniKafka: the replicas of one topic partition, one   *)
(* per broker, as raft/raft.go, raft/state.go and raft/server.go implement *)
(* them, together with the write-ahead log each replica applies committed  *)
(* entries to (wal/log/partition.go).                                      *)
(*                                                                         *)
(* Every critical section of Raft.mu is one action.  What the code does    *)
(* between two critical sections (a goroutine that was spawned, a call on  *)
(* the wire) is state of its own, so that anything can happen in between.  *)
(*                                                                         *)
(* The Raft log is a sequence of entries; the dummy entry which            *)
(* newRaftLog writes at index 0, with term 0, is left implicit, so that    *)
(* LastIndex() is the length of the sequence.  RaftLog.tla models the      *)
(* files underneath.  Time is abstracted: a deadline may have passed       *)
(* whenever it is looked at.                                               *)
(***************************************************************************)
EXTENDS Integers, Sequences, FiniteSets

CONSTANTS
    Server,        \* the brokers: r.server.id and the keys of peerRPCs
    Command,       \* the gob-encoded records handed to Submit
    Oversize,      \* the commands wal.append refuses (log_store.go: > 1,000,000 bytes)
    Gone,          \* in the place of a WAL record that a crash took
    Nil,           \* votedFor of a server that has not voted, "-1" in the code
    FailingDisk,   \* the servers whose persistStateLocked may return an error
    RepliesMayOutliveTerm,  \* may an AppendEntries goroutine still run when its
                            \* server has been elected again in a later term?
    Campaigner,    \* bound: the servers whose election deadline may pass
    MaxTerm,       \* bound: no election is started beyond this term
    MaxLog,        \* bound: Submit is not called on a log of this length
    MaxInflight,   \* bound: AppendEntries goroutines a leader has per peer
    MaxFaults      \* bound: restarts, failed calls and interrupted appends

ASSUME ServerAssumption == IsFiniteSet(Server) /\ Nil \notin Server
ASSUME SwitchAssumption == RepliesMayOutliveTerm \in BOOLEAN
ASSUME OversizeAssumption == Oversize \subseteq Command
ASSUME GoneAssumption == Gone \notin Command
ASSUME BoundAssumption ==
    /\ Campaigner \subseteq Server /\ FailingDisk \subseteq Server
    /\ MaxTerm \in Nat /\ MaxLog \in Nat /\ MaxInflight \in Nat /\ MaxFaults \in Nat

Follower == "Follower"
Candidate == "Candidate"
Leader == "Leader"

VARIABLES
    \* The volatile fields of type Raft.
    state,         \* [Server -> {Follower, Candidate, Leader}]
    term,          \* [Server -> Nat]
    votedFor,      \* [Server -> Server or Nil]
    commitIndex,   \* [Server -> Nat]
    lastApplied,   \* [Server -> Nat]
    nextIndex,     \* [Server -> [Server -> Nat]], used by leaders
    matchIndex,    \* [Server -> [Server -> Nat]], used by leaders
    votes,         \* [Server -> SUBSET Server], who is in totalVotesReceived
    \* What survives a crash.
    log,           \* [Server -> Seq(Entry)], the RaftLog
    stateFile,     \* [Server -> [term, votedFor]], the file raft.state
    wal,           \* [Server -> Seq(Stored)], the partition's WAL
    \* Goroutines and calls.
    voteReqs,      \* RequestVote calls the peer has not handled
    voteResps,     \* RequestVote replies the candidate has not handled
    heartbeats,    \* [Server -> SUBSET Nat], terms whose sendHeartBeats may have
                   \* left a replicateToPeer goroutine waiting for the lock
    appendReqs,    \* AppendEntries calls the peer has not handled
    appendResps,   \* AppendEntries replies the caller has not handled
    faults         \* how many of the MaxFaults faults have happened

leaderVars == <<nextIndex, matchIndex>>
applyVars == <<lastApplied, wal>>
voteMsgs == <<voteReqs, voteResps>>
appendMsgs == <<heartbeats, appendReqs, appendResps>>
vars == <<state, term, votedFor, commitIndex, lastApplied, nextIndex,
          matchIndex, votes, log, stateFile, wal, voteReqs,
          voteResps, heartbeats, appendReqs, appendResps, faults>>

-----------------------------------------------------------------------------
(* Messages and types.                                                     *)

Entry == [term : Nat, cmd : Command]

\* What is at an offset of a WAL.
Stored == Command \cup {Gone}

\* A request is alive while the goroutine that made the call waits for it.
\* When the caller crashes, or its connection breaks, the peer may still
\* handle what it has received, but nobody reads the answer.
VoteReq == [from : Server, to : Server, term : Nat, lastIndex : Nat,
            lastTerm : Nat, alive : BOOLEAN]
VoteResp == [from : Server, to : Server, savedTerm : Nat, term : Nat,
             granted : BOOLEAN]

AppendReq == [from : Server, to : Server, id : Nat, term : Nat,
              prevIndex : Nat, prevTerm : Nat, entries : Seq(Entry),
              leaderCommit : Nat, alive : BOOLEAN]
AppendResp == [from : Server, to : Server, id : Nat, savedTerm : Nat,
               term : Nat, success : BOOLEAN, last : Nat]

\* Every field keeps the type its Go declaration gives it.
TypeOK ==
    /\ state \in [Server -> {Follower, Candidate, Leader}]
    /\ term \in [Server -> Nat]
    /\ votedFor \in [Server -> Server \cup {Nil}]
    /\ commitIndex \in [Server -> Nat]
    /\ lastApplied \in [Server -> Nat]
    /\ nextIndex \in [Server -> [Server -> Nat]]
    /\ matchIndex \in [Server -> [Server -> Nat]]
    /\ votes \in [Server -> SUBSET Server]
    /\ log \in [Server -> Seq(Entry)]
    /\ stateFile \in [Server -> [term : Nat, votedFor : Server \cup {Nil}]]
    /\ wal \in [Server -> Seq(Stored)]
    /\ voteReqs \in SUBSET VoteReq
    /\ voteResps \in SUBSET VoteResp
    /\ heartbeats \in [Server -> SUBSET Nat]
    /\ appendReqs \in SUBSET AppendReq
    /\ appendResps \in SUBSET AppendResp
    /\ faults \in Nat

-----------------------------------------------------------------------------
(* Helpers.                                                                *)

Peers(r) == Server \ {r}
IsMajority(n) == n > Cardinality(Server) \div 2

LastIndex(l) == Len(l)
TermAt(l, i) == IF i = 0 THEN 0 ELSE l[i].term
LastTerm(l) == TermAt(l, Len(l))

\* log.Get(i) returns an entry rather than an error.
Readable(l, i) == i \in 0..LastIndex(l)

\* The reply, when there is still a caller to read it.
Answer(m, resp) == IF m.alive THEN {resp} ELSE {}

PersistOutcomes(r) == IF r \in FailingDisk THEN BOOLEAN ELSE {TRUE}

\* Mutant of VoteAfter: a message of the current term clears the vote as well.
VoteAfterAnyMessage(r, t) == IF t >= term[r] THEN Nil ELSE votedFor[r]

\* becameFollower(t) first adopts t when it is newer; a vote of an older
\* term is forgotten.
TermAfter(r, t) == IF t > term[r] THEN t ELSE term[r]
VoteAfter(r, t) == IF t > term[r] THEN Nil ELSE votedFor[r]

\* Mutant of FileAfter: the file is written before the vote is taken down.
FileWithoutVote(r, t, v, ok) ==
    IF ok THEN [term |-> t, votedFor |-> votedFor[r]] ELSE stateFile[r]

\* persistStateLocked: the new file replaces the old one, or an error leaves
\* the old one in place.
FileAfter(r, t, v, ok) ==
    IF ok THEN [term |-> t, votedFor |-> v] ELSE stateFile[r]

\* becameFollower persists only what changed, and only logs a failure.
FileAfterAdopting(r, t, ok) ==
    IF t > term[r] THEN FileAfter(r, t, Nil, ok) ELSE stateFile[r]

\* Mutant of becameFollower: a leader that hears of a newer term goes on leading.
KeepsItsRole(r, t) ==
    /\ UNCHANGED state
    /\ term' = [term EXCEPT ![r] = TermAfter(r, t)]
    /\ votedFor' = [votedFor EXCEPT ![r] = VoteAfter(r, t)]
    /\ stateFile' = [stateFile EXCEPT ![r] = FileAfterAdopting(r, t, TRUE)]

\* becameFollower(t) as the whole effect of a step.
becameFollower(r, t) ==
    /\ state' = [state EXCEPT ![r] = Follower]
    /\ term' = [term EXCEPT ![r] = TermAfter(r, t)]
    /\ votedFor' = [votedFor EXCEPT ![r] = VoteAfter(r, t)]
    /\ \E ok \in PersistOutcomes(r) :
          stateFile' = [stateFile EXCEPT ![r] = FileAfterAdopting(r, t, ok)]

\* The slots r has left for calls to p under term t.
FreeIds(r, p, t) ==
    (1..MaxInflight) \ ({m.id : m \in {n \in appendReqs :
                              n.alive /\ n.from = r /\ n.to = p /\ n.term = t}}
                        \cup {m.id : m \in {n \in appendResps :
                              n.to = r /\ n.from = p /\ n.savedTerm = t}})

\* The assumption RepliesMayOutliveTerm = FALSE: when a server leads a new
\* term, no goroutine of its earlier leadership is left to run.
InItsTerm(r, savedTerm) ==
    RepliesMayOutliveTerm \/ state[r] # Leader \/ savedTerm = term[r]

-----------------------------------------------------------------------------
(* NewRaft on empty storage: term 0, no vote, a log with only the dummy.   *)

Init ==
    /\ state = [r \in Server |-> Follower]
    /\ term = [r \in Server |-> 0]
    /\ votedFor = [r \in Server |-> Nil]
    /\ commitIndex = [r \in Server |-> 0]
    /\ lastApplied = [r \in Server |-> 0]
    /\ nextIndex = [r \in Server |-> [p \in Server |-> 0]]
    /\ matchIndex = [r \in Server |-> [p \in Server |-> 0]]
    /\ votes = [r \in Server |-> {}]
    /\ log = [r \in Server |-> <<>>]
    /\ stateFile = [r \in Server |-> [term |-> 0, votedFor |-> Nil]]
    /\ wal = [r \in Server |-> <<>>]
    /\ voteReqs = {}
    /\ voteResps = {}
    /\ heartbeats = [r \in Server |-> {}]
    /\ appendReqs = {}
    /\ appendResps = {}
    /\ faults = 0

-----------------------------------------------------------------------------
(* Elections.                                                              *)

\* A new term, a vote for oneself, and one RequestVote call per peer.
\* StartElectionLoop checks that its server is not a leader and that the
\* deadline has passed, but releases the lock before startElection takes it
\* again: by then a candidate may have become leader, so that no state
\* excludes the step.
startElection(r) ==
    /\ r \in Campaigner
    /\ term[r] < MaxTerm
    /\ state' = [state EXCEPT ![r] = Candidate]
    /\ term' = [term EXCEPT ![r] = @ + 1]
    /\ votedFor' = [votedFor EXCEPT ![r] = r]
    /\ \E ok \in PersistOutcomes(r) :
          stateFile' = [stateFile EXCEPT ![r] = FileAfter(r, term[r] + 1, r, ok)]
    /\ votes' = [votes EXCEPT ![r] = {r}]
    /\ voteReqs' = voteReqs \cup
          {[from |-> r, to |-> p, term |-> term[r] + 1,
            lastIndex |-> LastIndex(log[r]), lastTerm |-> LastTerm(log[r]),
            alive |-> TRUE] : p \in Peers(r)}
    /\ UNCHANGED <<commitIndex, leaderVars, log, applyVars, voteResps,
                   appendMsgs, faults>>

\* Mutant of isCandidateUpToDate: any candidate will do.
AnyCandidateWillDo(m) == TRUE

\* The candidate's log is at least as up to date as the voter's.
isCandidateUpToDate(m) ==
    LET l == log[m.to] IN
    \/ m.lastTerm > LastTerm(l)
    \/ m.lastTerm = LastTerm(l) /\ m.lastIndex >= LastIndex(l)

\* Mutant of MayGrant: the vote given before is not looked at.
GrantsTwice(m) == TermAfter(m.to, m.term) = m.term /\ isCandidateUpToDate(m)

MayGrant(m) ==
    /\ TermAfter(m.to, m.term) = m.term
    /\ VoteAfter(m.to, m.term) \in {Nil, m.from}
    /\ isCandidateUpToDate(m)

\* A newer term is adopted (and persisted) first; then a grant is persisted
\* again before it is answered.  When the second write fails the vote stays
\* in memory and is answered with a refusal.
HandleRequestVote(m) ==
    LET r == m.to
        newTerm == TermAfter(r, m.term)
    IN  /\ m \in voteReqs
        /\ voteReqs' = voteReqs \ {m}
        /\ state' = [state EXCEPT ![r] = IF m.term > term[r] THEN Follower ELSE @]
        /\ term' = [term EXCEPT ![r] = newTerm]
        /\ votedFor' = [votedFor EXCEPT ![r] =
                           IF MayGrant(m) THEN m.from ELSE VoteAfter(r, m.term)]
        /\ \E adopted, saved \in PersistOutcomes(r) :
              /\ stateFile' = [stateFile EXCEPT ![r] =
                    IF MayGrant(m) /\ saved
                    THEN FileAfter(r, newTerm, m.from, saved)
                    ELSE FileAfterAdopting(r, m.term, adopted)]
              /\ voteResps' = voteResps \cup
                    Answer(m, [from |-> r, to |-> m.from, savedTerm |-> m.term,
                               term |-> newTerm,
                               granted |-> MayGrant(m) /\ saved])
        /\ UNCHANGED <<commitIndex, leaderVars, votes, log,
                       applyVars, appendMsgs, faults>>

\* The goroutine of startElection reads the reply when its server has left
\* the election: it does nothing.
IgnoreVoteReply(m) ==
    /\ m \in voteResps
    /\ state[m.to] # Candidate \/ term[m.to] # m.savedTerm
    /\ voteResps' = voteResps \ {m}
    /\ UNCHANGED <<state, term, votedFor, commitIndex, leaderVars, votes,
                   log, stateFile, applyVars, voteReqs,
                   appendMsgs, faults>>

\* The reply carries a newer term: step down.
LoseElection(m) ==
    /\ m \in voteResps
    /\ state[m.to] = Candidate /\ term[m.to] = m.savedTerm
    /\ m.term > m.savedTerm
    /\ becameFollower(m.to, m.term)
    /\ voteResps' = voteResps \ {m}
    /\ UNCHANGED <<commitIndex, leaderVars, votes, log, applyVars,
                   voteReqs, appendMsgs, faults>>

\* becameLeader: every peer is assumed to have the leader's log.  The loop it
\* starts runs sendHeartBeats at once and then every 50 ms.
becameLeader(r) ==
    /\ state' = [state EXCEPT ![r] = Leader]
    /\ nextIndex' = [nextIndex EXCEPT ![r] =
                       [p \in Server |-> IF p = r THEN @[p]
                                         ELSE LastIndex(log[r]) + 1]]
    /\ matchIndex' = [matchIndex EXCEPT ![r] =
                        [p \in Server |-> IF p = r THEN @[p] ELSE 0]]
    /\ heartbeats' = [heartbeats EXCEPT ![r] = @ \cup {term[r]}]

\* The reply answers the current election: a granted vote is counted and
\* may be the one that wins.
CountVote(m) ==
    LET r == m.to
        counted == IF m.term = m.savedTerm /\ m.granted
                   THEN votes[r] \cup {m.from} ELSE votes[r]
    IN  /\ m \in voteResps
        /\ state[r] = Candidate /\ term[r] = m.savedTerm
        /\ m.term <= m.savedTerm
        /\ voteResps' = voteResps \ {m}
        /\ votes' = [votes EXCEPT ![r] = counted]
        /\ IF counted # votes[r] /\ IsMajority(Cardinality(counted))
           THEN becameLeader(r)
           ELSE UNCHANGED <<state, leaderVars, heartbeats>>
        /\ UNCHANGED <<term, votedFor, commitIndex, log, stateFile, applyVars,
                       voteReqs, appendReqs, appendResps, faults>>

-----------------------------------------------------------------------------
(* Replication.                                                            *)

\* A goroutine that sendHeartBeats spawned under term t takes the lock.  Its
\* server being a leader, whatever the term, it sends everything from
\* nextIndex on under term t.  It ends without a call when its server is no
\* leader or the previous entry cannot be read.  Bound: a free slot.
replicateToPeer(r, p, t) ==
    LET next == nextIndex[r][p]
        prev == next - 1
    IN  /\ t \in heartbeats[r]
        /\ state[r] = Leader
        /\ InItsTerm(r, t)
        /\ FreeIds(r, p, t) # {}
        /\ Readable(log[r], prev)
        /\ appendReqs' = appendReqs \cup
              {[from |-> r, to |-> p, id |-> CHOOSE i \in FreeIds(r, p, t) : TRUE,
                term |-> t, prevIndex |-> prev, prevTerm |-> TermAt(log[r], prev),
                entries |-> SubSeq(log[r], next, LastIndex(log[r])),
                leaderCommit |-> commitIndex[r], alive |-> TRUE]}
        /\ UNCHANGED <<state, term, votedFor, commitIndex, leaderVars, votes, log,
                       stateFile, applyVars, voteMsgs, heartbeats, appendResps,
                       faults>>

\* The append loop leaves index i of the log l alone: i is in the log, and up
\* to i every entry sent meets one of its own term.
Keeps(l, m, i) ==
    /\ i <= LastIndex(l)
    /\ \A k \in 1..Len(m.entries) :
          m.prevIndex + k <= i => l[m.prevIndex + k].term = m.entries[k].term

\* Mutant of MergedLen: whatever lies past the entries sent is cut.
CutsPastEntries(l, m) == m.prevIndex + Len(m.entries)

\* At the first conflict the log is cut and the rest of m.entries appended;
\* without one, only what lies past the end is appended.
MergedLen(l, m) ==
    LET sent == m.prevIndex + Len(m.entries) IN
    IF sent < LastIndex(l) /\ Keeps(l, m, sent) THEN LastIndex(l) ELSE sent

\* The log the append loop leaves.
Merged(l, m) ==
    [i \in 1..MergedLen(l, m) |->
        IF Keeps(l, m, i) THEN l[i] ELSE m.entries[i - m.prevIndex]]

Min2(a, b) == IF a < b THEN a ELSE b

\* Mutant of AppendReply: one more than the last entry sent.
AppendReplyOffByOne(m, t, ok) ==
    Answer(m, [from |-> m.to, to |-> m.from, id |-> m.id, savedTerm |-> m.term,
               term |-> t, success |-> ok,
               last |-> m.prevIndex + Len(m.entries) + 1])

AppendReply(m, t, ok) ==
    Answer(m, [from |-> m.to, to |-> m.from, id |-> m.id, savedTerm |-> m.term,
               term |-> t, success |-> ok,
               last |-> m.prevIndex + Len(m.entries)])

\* Mutant of PrevMatches: the term of the previous entry is not compared.
PrevIsThere(m) == m.prevIndex <= LastIndex(log[m.to])

\* The follower has the entry the request builds on.
PrevMatches(m) ==
    /\ m.prevIndex <= LastIndex(log[m.to])
    /\ m.prevTerm = TermAt(log[m.to], m.prevIndex)

\* A request of an older term is refused.
RefuseStaleAppend(m) ==
    /\ m \in appendReqs
    /\ m.term < term[m.to]
    /\ appendReqs' = appendReqs \ {m}
    /\ appendResps' = appendResps \cup AppendReply(m, term[m.to], FALSE)
    /\ UNCHANGED <<state, term, votedFor, commitIndex, leaderVars, votes,
                   log, stateFile, applyVars, voteMsgs, heartbeats,
                   faults>>

\* A request of the current or a newer term makes a follower.  The entry it
\* builds on is missing: the refusal still carries the term from before.
RefuseMismatch(m) ==
    /\ m \in appendReqs
    /\ m.term >= term[m.to]
    /\ ~PrevMatches(m)
    /\ becameFollower(m.to, m.term)
    /\ appendReqs' = appendReqs \ {m}
    /\ appendResps' = appendResps \cup AppendReply(m, term[m.to], FALSE)
    /\ UNCHANGED <<commitIndex, leaderVars, votes, log, applyVars,
                   voteMsgs, heartbeats, faults>>

\* The entry it builds on is there: the log is brought in line and the
\* leader's commit index taken over.
AcceptEntries(m) ==
    LET r == m.to
        newLog == Merged(log[r], m)
    IN  /\ m \in appendReqs
        /\ m.term >= term[r]
        /\ PrevMatches(m)
        /\ becameFollower(r, m.term)
        /\ log' = [log EXCEPT ![r] = newLog]
        /\ commitIndex' = [commitIndex EXCEPT ![r] =
                             IF m.leaderCommit > @
                             THEN Min2(m.leaderCommit, LastIndex(newLog)) ELSE @]
        /\ appendReqs' = appendReqs \ {m}
        /\ appendResps' = appendResps \cup AppendReply(m, m.term, TRUE)
        /\ UNCHANGED <<leaderVars, votes, applyVars, voteMsgs,
                       heartbeats, faults>>

\* A storage error, or a crash, in the middle of the append loop: the old
\* suffix is cut and some of the new one may be written, the commit index is
\* left alone, and the call fails at the caller.
InterruptedAppend(m) ==
    LET r == m.to
        newLog == Merged(log[r], m)
    IN  /\ m \in appendReqs
        /\ faults < MaxFaults
        /\ m.term >= term[r]
        /\ PrevMatches(m)
        /\ becameFollower(r, m.term)
        /\ \E n \in 0..(LastIndex(newLog) - 1) :
              /\ ~Keeps(log[r], m, n + 1)
              /\ log' = [log EXCEPT ![r] = SubSeq(newLog, 1, n)]
        /\ appendReqs' = appendReqs \ {m}
        /\ faults' = faults + 1
        /\ UNCHANGED <<commitIndex, leaderVars, votes, applyVars,
                       voteMsgs, heartbeats, appendResps>>

HandleAppendEntries(m) ==
    \/ RefuseStaleAppend(m)
    \/ RefuseMismatch(m)
    \/ AcceptEntries(m)
    \/ InterruptedAppend(m)

\* Mutants of Committable: a peer that is one entry behind is counted; entries
\* of earlier terms are committed by counting copies.
CommittableOneBehind(r, mi) ==
    {n \in (commitIndex[r] + 1)..LastIndex(log[r]) :
        /\ IsMajority(Cardinality({r} \cup {p \in Peers(r) : mi[p] + 1 >= n}))
        /\ log[r][n].term = term[r]}
CommittableOfAnyTerm(r, mi) ==
    {n \in (commitIndex[r] + 1)..LastIndex(log[r]) :
        IsMajority(Cardinality({r} \cup {p \in Peers(r) : mi[p] >= n}))}

\* Indexes above the commit index that a majority has, by the leader's
\* count mi, and whose entry is of the leader's term.
Committable(r, mi) ==
    {n \in (commitIndex[r] + 1)..LastIndex(log[r]) :
        /\ IsMajority(Cardinality({r} \cup {p \in Peers(r) : mi[p] >= n}))
        /\ log[r][n].term = term[r]}

\* The loop runs downwards from the last index and stops at the first hit:
\* the set of the highest committable index, or of the commit index as it is.
advanceLeaderCommit(r, mi) ==
    {n \in {commitIndex[r]} \cup Committable(r, mi) :
        \A k \in Committable(r, mi) : k <= n}

\* The caller is no longer leader.
IgnoreAppendReply(m) ==
    /\ m \in appendResps
    /\ state[m.to] # Leader
    /\ appendResps' = appendResps \ {m}
    /\ UNCHANGED <<state, term, votedFor, commitIndex, leaderVars, votes,
                   log, stateFile, applyVars, voteMsgs, heartbeats,
                   appendReqs, faults>>

\* The reply carries a newer term than the request did.
StepDownOnReply(m) ==
    /\ m \in appendResps
    /\ state[m.to] = Leader
    /\ InItsTerm(m.to, m.savedTerm)
    /\ m.term > m.savedTerm
    /\ becameFollower(m.to, m.term)
    /\ appendResps' = appendResps \ {m}
    /\ UNCHANGED <<commitIndex, leaderVars, votes, log, applyVars,
                   voteMsgs, heartbeats, appendReqs, faults>>

\* Mutant of OneEarlier: a refusal leaves nextIndex alone.
SameAgain(next) == next

OneEarlier(next) == IF next > 1 THEN next - 1 ELSE next

\* The peer refused: try one entry earlier the next time.
BackUp(m) ==
    /\ m \in appendResps
    /\ state[m.to] = Leader
    /\ InItsTerm(m.to, m.savedTerm)
    /\ m.term <= m.savedTerm
    /\ ~m.success
    /\ nextIndex' = [nextIndex EXCEPT ![m.to][m.from] = OneEarlier(@)]
    /\ appendResps' = appendResps \ {m}
    /\ UNCHANGED <<state, term, votedFor, commitIndex, matchIndex, votes,
                   log, stateFile, applyVars, voteMsgs, heartbeats,
                   appendReqs, faults>>

\* The peer has everything that was sent; this may commit.  The code checks
\* that its server is a leader, not that it still leads the term of the call.
RecordMatch(m) ==
    LET r == m.to IN
    /\ m \in appendResps
    /\ state[r] = Leader
    /\ InItsTerm(r, m.savedTerm)
    /\ m.term <= m.savedTerm
    /\ m.success
    /\ nextIndex' = [nextIndex EXCEPT ![r][m.from] = m.last + 1]
    /\ matchIndex' = [matchIndex EXCEPT ![r][m.from] = m.last]
    /\ \E n \in advanceLeaderCommit(r, [matchIndex[r] EXCEPT ![m.from] = m.last]) :
          commitIndex' = [commitIndex EXCEPT ![r] = n]
    /\ appendResps' = appendResps \ {m}
    /\ UNCHANGED <<state, term, votedFor, votes, log, stateFile,
                   applyVars, voteMsgs, heartbeats, appendReqs, faults>>

HandleAppendReply(m) ==
    \/ IgnoreAppendReply(m)
    \/ StepDownOnReply(m)
    \/ BackUp(m)
    \/ RecordMatch(m)

-----------------------------------------------------------------------------
(* Clients, the state machine, and faults.                                 *)

\* Submit answers true as soon as the leader has the entry in its own log.
Submit(r, c) ==
    /\ state[r] = Leader
    /\ LastIndex(log[r]) < MaxLog
    /\ log' = [log EXCEPT ![r] = Append(@, [term |-> term[r], cmd |-> c])]
    /\ UNCHANGED <<state, term, votedFor, commitIndex, leaderVars, votes,
                   stateFile, applyVars, voteMsgs, appendMsgs, faults>>

\* ApplyLoop hands the next committed entry to partition.applyLoop, which
\* appends it to the WAL.  lastApplied moves first: an entry that cannot be
\* read, or that the WAL refuses, is passed over.
ApplyLoop(r) ==
    LET i == lastApplied[r] + 1 IN
    /\ lastApplied[r] < commitIndex[r]
    /\ lastApplied' = [lastApplied EXCEPT ![r] = i]
    /\ wal' = [wal EXCEPT ![r] =
                 IF Readable(log[r], i) /\ log[r][i].cmd \notin Oversize
                 THEN Append(@, log[r][i].cmd) ELSE @]
    /\ UNCHANGED <<state, term, votedFor, commitIndex, leaderVars, votes,
                   log, stateFile, voteMsgs, appendMsgs, faults>>

\* The calls r made lose their caller, those made to r fail.
AfterCrash(reqs, r) ==
    {[m EXCEPT !.alive = @ /\ m.from # r] : m \in {n \in reqs : n.to # r}}

\* Mutant of SetLastApplied: a restart applies from the beginning again.
AppliesAgain(r, n) ==
    /\ lastApplied' = [lastApplied EXCEPT ![r] = 0]
    /\ commitIndex' = [commitIndex EXCEPT ![r] = 0]

SetLastApplied(r, n) ==
    /\ lastApplied' = [lastApplied EXCEPT ![r] = n]
    /\ commitIndex' = [commitIndex EXCEPT ![r] = n]

\* What a crash leaves of a WAL: it ends at offset k, and the records at some
\* offsets before that, which an earlier segment still had in its buffer, are
\* gone.  Wal.tla is about which of them can be.
AfterLoss(w, k, holes) == [i \in 1..k |-> IF i \in holes THEN Gone ELSE w[i]]

\* The process dies and comes back: term and vote come from raft.state, the
\* WAL has lost some of what was still buffered, and SetLastApplied makes the
\* WAL's NextOffset both lastApplied and commitIndex.
Restart(r) ==
    /\ faults < MaxFaults
    /\ faults' = faults + 1
    /\ state' = [state EXCEPT ![r] = Follower]
    /\ term' = [term EXCEPT ![r] = stateFile[r].term]
    /\ votedFor' = [votedFor EXCEPT ![r] = stateFile[r].votedFor]
    /\ \E k \in 0..Len(wal[r]) : \E holes \in SUBSET (1..k) :
          /\ wal' = [wal EXCEPT ![r] = AfterLoss(@, k, holes)]
          /\ SetLastApplied(r, k)
    /\ nextIndex' = [nextIndex EXCEPT ![r] = [p \in Server |-> 0]]
    /\ matchIndex' = [matchIndex EXCEPT ![r] = [p \in Server |-> 0]]
    /\ votes' = [votes EXCEPT ![r] = {}]
    /\ voteReqs' = AfterCrash(voteReqs, r)
    /\ voteResps' = {m \in voteResps : m.to # r}
    /\ heartbeats' = [heartbeats EXCEPT ![r] = {}]
    /\ appendReqs' = AfterCrash(appendReqs, r)
    /\ appendResps' = {m \in appendResps : m.to # r}
    /\ UNCHANGED <<log, stateFile>>

\* An AppendEntries call fails at its caller, before the peer has handled it
\* (which it may still do) or after.  The next heartbeat is the retry.
CallFails ==
    /\ faults < MaxFaults
    /\ faults' = faults + 1
    /\ \/ \E m \in {n \in appendReqs : n.alive} :
             /\ appendReqs' = (appendReqs \ {m}) \cup {[m EXCEPT !.alive = FALSE]}
             /\ UNCHANGED appendResps
       \/ \E m \in appendResps :
             /\ appendResps' = appendResps \ {m}
             /\ UNCHANGED appendReqs
    /\ UNCHANGED <<state, term, votedFor, commitIndex, leaderVars, votes,
                   log, stateFile, applyVars, voteMsgs, heartbeats>>

-----------------------------------------------------------------------------
Next ==
    \/ \E r \in Server :
          \/ startElection(r)
          \/ \E p \in Peers(r), t \in heartbeats[r] : replicateToPeer(r, p, t)
          \/ \E c \in Command : Submit(r, c)
          \/ ApplyLoop(r)
          \/ Restart(r)
    \/ \E m \in voteReqs : HandleRequestVote(m)
    \/ \E m \in voteResps : IgnoreVoteReply(m) \/ LoseElection(m) \/ CountVote(m)
    \/ \E m \in appendReqs : HandleAppendEntries(m)
    \/ \E m \in appendResps : HandleAppendReply(m)
    \/ CallFails

Spec == Init /\ [][Next]_vars

-----------------------------------------------------------------------------
(* Safety.                                                                 *)

\* At most one server leads a term: two leaders of one term would both
\* accept records for the same partition.
ElectionSafety ==
    \A a, b \in Server :
        state[a] = Leader /\ state[b] = Leader /\ term[a] = term[b] => a = b

\* p will never give its vote of term t to anyone but c, crash or not.
Promised(p, c, t) ==
    /\ stateFile[p].term >= t
    /\ stateFile[p].term = t => stateFile[p].votedFor = c

\* The votes that candidates and leaders have from their peers, and those on
\* the way to them.
Ballots ==
    (UNION {{[voter |-> p, candidate |-> c, term |-> term[c]] : p \in votes[c] \ {c}} :
               c \in {r \in Server : state[r] # Follower}})
    \cup {[voter |-> m.from, candidate |-> m.to, term |-> m.savedTerm] :
              m \in {n \in voteResps : n.granted}}

\* Every ballot is in its voter's raft.state.  (A candidate's own vote may not
\* be: startElection goes on when persisting fails.)
VotesOnDisk == \A x \in Ballots : Promised(x.voter, x.candidate, x.term)

\* Nobody casts two ballots in one term.
OneBallotPerTerm ==
    \A x, y \in Ballots :
        x.voter = y.voter /\ x.term = y.term => x.candidate = y.candidate

\* The file is never ahead of memory, and never holds another vote of the
\* same term.
FileBehindMemory ==
    \A p \in Server :
        /\ stateFile[p].term <= term[p]
        /\ stateFile[p].term = term[p] /\ stateFile[p].votedFor # Nil =>
              votedFor[p] = stateFile[p].votedFor

\* Where raft.state can be written it holds what memory holds.
FileIsMemory ==
    \A p \in Server \ FailingDisk :
        stateFile[p] = [term |-> term[p], votedFor |-> votedFor[p]]

VotesForItself == \A r \in Server : state[r] # Follower => votedFor[r] = r

LeaderHasMajority ==
    \A r \in Server : state[r] = Leader => IsMajority(Cardinality(votes[r]))

\* The inductive invariant from which ElectionSafety follows.
ElectionInv ==
    /\ TypeOK
    /\ VotesOnDisk
    /\ OneBallotPerTerm
    /\ FileBehindMemory
    /\ VotesForItself
    /\ LeaderHasMajority

\* Two logs that agree on the term at an index agree on everything up to it.
LogMatching ==
    \A a, b \in Server :
        \A i \in 1..Min2(Len(log[a]), Len(log[b])) :
            log[a][i].term = log[b][i].term =>
                SubSeq(log[a], 1, i) = SubSeq(log[b], 1, i)

\* What a leader has committed is in the log of a majority: the guarantee
\* advanceLeaderCommit counts matchIndex for.
CommitHeldByMajority ==
    \A r \in Server :
        state[r] = Leader =>
            IsMajority(Cardinality({p \in Server :
                /\ commitIndex[r] <= Len(log[p])
                /\ SubSeq(log[p], 1, commitIndex[r]) =
                   SubSeq(log[r], 1, commitIndex[r])}))

\* A leader has every entry that a server of no later term has committed, so
\* that no replication of its log can cut a committed entry off.
LeaderCompleteness ==
    \A l, r \in Server :
        state[l] = Leader /\ term[l] >= term[r] =>
            /\ commitIndex[r] <= Len(log[l])
            /\ SubSeq(log[r], 1, commitIndex[r]) = SubSeq(log[l], 1, commitIndex[r])

\* Whatever two replicas consider committed, and so apply, is the same entry
\* at every index.
StateMachineSafety ==
    \A a, b \in Server :
        \A i \in 1..Min2(commitIndex[a], commitIndex[b]) :
            /\ i <= Len(log[a]) /\ i <= Len(log[b])
            /\ log[a][i] = log[b][i]

\* Offset i of the WAL belongs to entry i of the log: the records of applied
\* entries were appended in the order of the log, none twice and none passed
\* over, also after a crash that took some of them and a restart that set
\* lastApplied to wal.NextOffset().
WalFollowsLog ==
    \A r \in Server :
        /\ Len(wal[r]) = lastApplied[r] /\ lastApplied[r] <= Len(log[r])
        /\ \A i \in 1..lastApplied[r] : wal[r][i] \in {log[r][i].cmd, Gone}

\* A leader can always read the entry its next call to a peer builds on.
\* Where it cannot, replicateToPeer gives up before the call, every time, and
\* the peer hears nothing from its leader again.
NextIndexReadable ==
    \A r \in Server : state[r] = Leader =>
        \A p \in Peers(r) : Readable(log[r], nextIndex[r][p] - 1)

\* A server whose raft.state can be written never goes back to an earlier term,
\* and never changes a vote it has given in a term, restarts included.
VoteOncePerTerm ==
    [][\A r \in Server \ FailingDisk :
          /\ term'[r] >= term[r]
          /\ (term'[r] = term[r] /\ votedFor[r] # Nil) => votedFor'[r] = votedFor[r]]_vars

\* A leader only ever appends to its own log.
LeaderAppendOnly ==
    [][\A r \in Server :
          state[r] = Leader /\ state'[r] = Leader =>
             /\ Len(log'[r]) >= Len(log[r])
             /\ SubSeq(log'[r], 1, Len(log[r])) = log[r]]_vars

\* No step, whoever takes it, removes or rewrites an entry that the server
\* holding it knows to be committed.
CommittedIsStable ==
    [][\A r \in Server :
          /\ Len(log'[r]) >= commitIndex[r]
          /\ SubSeq(log'[r], 1, commitIndex[r]) = SubSeq(log[r], 1, commitIndex[r])]_vars

-----------------------------------------------------------------------------
(* Liveness.  The scheduler runs every goroutine that is not blocked, the  *)
(* heartbeat ticker keeps firing, and gRPC delivers a call or fails it;    *)
(* failures are the faults, of which there are finitely many.  No fairness *)
(* is assumed of elections, which depend on random timeouts, nor of        *)
(* clients.                                                                *)

Fairness ==
    /\ \A r \in Server :
          /\ WF_vars(ApplyLoop(r))
          /\ \A p \in Peers(r) :
                WF_vars(\E t \in heartbeats[r] : t = term[r] /\ replicateToPeer(r, p, t))
    /\ \A r, p \in Server :
          /\ WF_vars(\E m \in appendReqs : m.from = r /\ m.to = p /\
                 (RefuseStaleAppend(m) \/ RefuseMismatch(m) \/ AcceptEntries(m)))
          /\ WF_vars(\E m \in appendResps :
                 m.from = p /\ m.to = r /\ HandleAppendReply(m))

FairSpec == Spec /\ Fairness

\* Under a leader that stays, the backing up of nextIndex ends: every log
\* becomes the leader's, and once the leader has an entry of its own term
\* all of it is committed and applied everywhere.
Converges ==
    \A l \in Server :
        <>[](state[l] = Leader) =>
            <>[](\A p \in Server :
                   /\ log[p] = log[l]
                   /\ LastTerm(log[l]) = term[l] => lastApplied[p] = LastIndex(log[l]))

=============================================================================
