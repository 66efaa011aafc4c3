# A TLA+ model of miniKafka

miniKafka is a small message broker in Go. A topic has partitions; every
partition is replicated over the brokers of a static cluster by a Raft group of
its own, and every replica writes the records its group has committed to a
segmented write-ahead log (WAL), from which consumers read. This directory holds
TLA+ specifications of the parts that carry this, the TLC runs that check them
on small instances, and TLAPS proofs for any instance.

Paths below are relative to the repository's root (`src/` here).

## 1. The system

| Component | State it keeps | Operations |
|---|---|---|
| Raft group (`raft/raft.go`, `raft/state.go`) | role, term, vote, commit and apply index, `nextIndex`/`matchIndex`; the file `raft.state` | `StartElectionLoop`, `startElection`, `HandleRequestVote`, `becameLeader`, `becameFollower`, `sendHeartBeats`, `replicateToPeer`, `HandleAppendEntries`, `advanceLeaderCommit`, `Submit`, `ApplyLoop`, `SetLastApplied` |
| Raft log (`raft/storage.go`) | `log.store`, `log.index`, `sSize`, `count`, the two file offsets | `openRaftLog`/`recover`, `Append`, `Get`, `GetRange`, `TruncateFrom`, `LastTerm` |
| Raft server (`raft/server.go`) | the groups of this broker, the clients of its peers | dispatch of `RequestVote`, `AppendEntries`, `SubmitCommand`; `ConnectToAllPeers` |
| WAL (`wal/log/wal.go`, `segment.go`, `index.go`, `log_store.go`) | segments of a store, an index and a meta file, each store and index behind a `bufio.Writer` | `newWAL`, `append`, `rotate`, `read`, `flush`, `close`, `deleteExpiredSegments` |
| Partition (`wal/log/partition.go`) | one WAL and one Raft instance | `Append` (= `Submit`), `Read`, `applyLoop`, start-up |
| Topic (`wal/log/topic.go`) | partitions by number | routing by a hash of the key, `Close` |
| Broker (`broker/broker.go`) | a `sync.Map` of topics | `Produce`, `Consume` (polling), `CreateTopic`, the retention ticker, `Shutdown` |
| TCP server (`broker/tcp.go`) | open connections, a wait group | accept, one goroutine per connection, `close` |
| Start-up (`miniKafka.go`, `utils/cluster.go`) | – | serve, connect to every peer, open the topics found on disk |
| Client (`client/client.go`) | two connections | one request, one answer; no retries |

**How they interact.** A client's `produce` goes through TCP server, broker,
topic and partition to `Raft.Submit`, which answers as soon as the leader has the
entry in its *own* log. Goroutines started by a 50 ms ticker call the peers over
gRPC. When an entry is committed, `ApplyLoop` hands it over an unbuffered channel
to `partition.applyLoop`, which appends it to the WAL. `consume` polls the WAL.
After a restart the partition tells Raft how far it had got by the *length of the
WAL*: `SetLastApplied(wal.NextOffset())`.

**What is hard about it.**

* `Raft.mu` is given up between the check of the election deadline and
  `startElection`, around every call, and between a heartbeat tick and the
  goroutines it spawned: each continues with state that may have moved on.
* A broker may die at any point; `raft.state`, the Raft log, the two files of
  every WAL segment and the buffers in front of them then disagree.
* AppendEntries calls to one follower overlap, so requests and replies overtake
  each other, and a call that failed at the leader may have been carried out.
* Two sizes of the same thing (Raft log and WAL, index and store) are kept equal
  only by convention, and recovery trusts one of them.
* WAL reads flush shared buffers while holding only a read lock.
* A topic is looked up, built and put into the map in three steps, by every
  connection's goroutine for itself, and building it starts Raft instances that
  other brokers call at once.
* `Shutdown` runs beside the goroutine that accepts, handlers that poll for records
  that may never come, and apply loops that nothing stops.
* A broker waits for every peer before it serves, and a topic exists only on the
  brokers that were asked for it.

`PROJECT.json` lists each hazard with its line and the properties that would
catch it going wrong.

**What makes the components correct.** Raft group: one leader per term, votes
never taken back, logs agree, what is committed stays and is applied once and in
order everywhere, and a stable leader brings every log in line. Raft log: the two
files behave as one durable sequence. WAL: every offset reads back its record, and
a crash costs no more than what had not reached the files. Broker: one Topic per
name, with the partitions its creator was told of, after any restart. TCP server:
`Shutdown` waits for the handlers before it closes topics, and returns. Start-up:
brokers never wait for each other for ever, and topics come back.

## 2. The modules

| Module | Models | Used by |
|---|---|---|
| `RaftGroup` | `raft/raft.go`, `raft/state.go`, dispatch in `raft/server.go`, and the partition's apply loop | `MCRaftGroup`, `RaftGroupProofs` |
| `RaftGroupProofs` | proofs about `RaftGroup`: types, elections, votes, leaders only append | `RaftSafetyProofs` |
| `RaftSafety` | the inductive invariant of replication, over a history of the group | `RaftSafetyProofs` |
| `RaftSafetyProofs` | proof of that invariant | `RaftGuarantees` |
| `RaftGuarantees` | what a group promises to partitions, proved from it | – |
| `DurableLog` | abstract: what the Raft log promises to `raft.go` | `RaftLog` (as a refinement) |
| `RaftLog` | `raft/storage.go`, word by word | `MCRaftLog`, `RaftLogProofs` |
| `RaftLogProofs` | proofs about `RaftLog`, the refinement of `DurableLog` included | – |
| `Wal` | `wal/log`: segments, buffers, files | `WalInvariants` |
| `WalInvariants` | the inductive invariants of `Wal` | `MCWal`, `WalProofs` |
| `WalProofs` | proofs about `Wal`: files, counts, restarts | `WalReadProofs` |
| `WalReadProofs` | proofs about what `wal.read` returns: the search, the contents | – |
| `TcpServer` | `broker/tcp.go` and the client's end of a connection, `client/client.go` | `Broker` (extends it) |
| `Broker` | `broker/broker.go`, `wal/log/topic.go`, the building of partitions in `wal/log/partition.go`, shutdown in `miniKafka.go` | `MCBroker`, `BrokerProofs` |
| `BrokerProofs` | proofs about `Broker` and `TcpServer` | – |
| `Cluster` | start-up: `miniKafka.go`, `raft/server.go`, and which brokers have a topic | `MCCluster`, `ClusterProofs` |
| `ClusterProofs` | proofs about `Cluster` | – |

`Broker` composes the TCP server with the topics; `RaftGroup` is one group among the
brokers that `Cluster` brings up; `RaftLog` and `Wal` are the files below one replica
of it. The levels are not one state machine: their product is out of TLC's reach, and
each lower one states (as invariants, or as `DurableLog`) what the upper one uses.

The map in `PROJECT.json` gives the source lines of every definition.

### RaftGroup

Every critical section of `Raft.mu` is one action, and keeps the name of its
function: `startElection`, `HandleRequestVote`, `replicateToPeer`,
`HandleAppendEntries` (split by outcome into `RefuseStaleAppend`,
`RefuseMismatch`, `AcceptEntries`, `InterruptedAppend`), the code after the two
calls return (`IgnoreVoteReply`, `LoseElection`, `CountVote`;
`IgnoreAppendReply`, `StepDownOnReply`, `BackUp`, `RecordMatch`), `Submit`,
`ApplyLoop`, `Restart`, `CallFails`.

* A call on the wire is a record in `voteReqs`, `voteResps`, `appendReqs` or
  `appendResps`. Sets, not queues: gRPC calls of different goroutines are not
  ordered. `alive` says whether somebody still waits for the answer. A RequestVote
  call that fails is one that nobody ever handles.
* `heartbeats[r]` holds the terms for which `sendHeartBeats` has spawned
  `replicateToPeer` goroutines that may not have taken the lock yet.
* `votes[r]` is the *set* of peers counted in `totalVotesReceived`; the code
  counts replies, and each peer is asked once per election.
* `raft.state` is `stateFile`; `persistStateLocked` writes a temporary file and
  renames it, hence replaces it or leaves it alone. It may fail on the servers in
  `FailingDisk`, and the code then goes on as it does (a grant is refused, an
  election or a new term is only logged).
* The dummy entry at index 0 is left implicit. Deadlines are abstracted: one may
  have passed whenever it is looked at.
* `InterruptedAppend` is a storage error, or the death of the process, in the
  middle of the append loop of `HandleAppendEntries`: the suffix is cut and any
  part of the new one is there.
* `Restart` keeps the log and `raft.state`. The WAL comes back with any length up to the
  one it had, and any of its records may be lost (`Gone`), in the middle too, as a crash
  behind a rotation makes it (finding 3). `SetLastApplied` goes by the length alone, so a
  lost record keeps its place and is not applied again.

Two constants are assumptions rather than bounds. `Oversize` is the set of
commands the WAL refuses. `RepliesMayOutliveTerm = FALSE` assumes that, when a
server leads again, no AppendEntries goroutine of an earlier leadership of the same
server is left; the code does not ensure this, and the run `stale_reply` shows
what depends on it.

### RaftLog and DurableLog

A file is a sequence of words as wide as the length field. A record is a length
word and its payload, an index entry the high and low word of a position, so that
a write cut short leaves half a record or half an index entry. Each of the two
writes of `Append`, and each truncation of `TruncateFrom` and `recover`, is a step;
the process may die between any two or within one; a call may also be refused
(`AppendStoreFails`, `AppendIndexFails`). With `TornErrors = TRUE` a failing call
may have done a part, as a full disk makes it. `DurableLog` is one sequence which
opening, appending and truncating change and dying does not.

### Wal

`disk` maps the base offset of a segment to its files, `segs` is `wal.segments`.
`BufWrite` is `bufio.Writer.Write` with a capacity in words: what does not fit
spills, so that an index entry can be cut in two. `append` is one action (it holds
the lock) that rotates first when the active segment is full. Flushes are steps of
their own, index before store as in `wal.flush`, `close` and the reads; a reader's
flush is split into the write and the emptying of the buffer, because other readers
run under the same read lock. Records are the numbers `0, 1, ...`: record `n` is the
one whose Raft index is `n + 1`, so it should be found at offset `n`. `unclean` and
`deleted` are history. Records overlaid by the bytes of others are counted as
undecodable.

Two things happen only with `Unclean = TRUE`, besides a plain `Crash`. The process may
die inside `newSegment` (`CrashOpening`), called by `newWAL` or by `rotate`: store and
index file exist, the meta file does not, or is empty; an empty one makes the next
`newWAL` fail (`newWALFails`). And since `Shutdown` does not stop the apply loop,
records may be appended behind `close`: to the closed active segment, where the store
loses them silently and the index has only its buffer (`appendClosed`), or to a segment
that `rotate` opens for them and nobody closes (`append` with `pc = "late"`).

### TcpServer and Broker

`stage[c]` is where the server is with connection `c`: in the kernel's backlog,
accepted, listed in `conns`, counted in the wait group and reading, handling (`work`),
writing, done. The three statements of `StartServer` are three steps, since `close` may
come between any two. `close` closes the listener, takes the mutex (`lockConns`) and
then, one step for each connection, writes its notice and closes it (`closeConn`);
meanwhile nobody is listed, and no handler gets past the `delete` of its deferred
function (`Locked`). Clients dial, send one request, take an answer or an error, and hang
up whenever they like.

No write has a deadline. `full` holds the connections whose socket buffers take no more:
an answer may fill them (`Fill`), and then `WriteFull` in the handler and the notice of
`close` wait until the client reads (`Drain`, `ReceiveAnswer`) or leaves. The *content* of
the notice is left out: it has no length, so that it never decodes as an answer.

In `Broker`, `at[c]` is where the handler is in `handleRequest`. Looking a topic up
(`LoadFinds`, `LoadMisses`), building each partition (`newPartition`, with its directory
and its registration with the Raft server) and `LoadOrStore` or `Store` are separate
steps. A Topic object is named by its builder: a connection, or `Loaded` for the ones
`New` finds on disk; `topics` is the map, `built` the partitions of every Topic that
runs, in the map or not, `rafts` who registered a group last. Whether `Submit` accepts
and whether an offset is there are free choices: `RaftGroup` and `Wal` are about them. A
consume of a partition that does not exist panics on a nil record (`UseFails`), which
ends the process. `told` is history: what clients learnt of creations.

### Cluster

A broker is down, connecting or up; `serving` is its Raft server, a goroutine of its
own; `dialing` the peer `connectToPeer` spins on, and `channel` the state it reads there.
`Connect` is called once, by `ConnectToAllPeers`' step; gRPC then gets through to a peer
that listens (`Connects`), or lets the channel fall idle (`FallsIdle`: a ready connection
broke, or there was no call for the idle timeout), from where only a call would wake it.
These two are the documented behaviour of grpc-go, which is not part of the repository.
A topic is on a broker's disk, being made, or registered (`rafts`). One topic of one
partition stands for all of them, since groups do not touch each other.

## 3. The runs

TLC with two workers; all passing runs are exhaustive for their bounds. (Under
symmetry together with a view the number of states varies slightly from run to run;
without symmetry it does not.)

| Run | Result | Question |
|---|---|---|
| `restarts` | pass, 0.97M states | When one replica restarts, loses a call or is interrupted at any point of two elections and a commit, and another one's `raft.state` writes may fail: does no term have two leaders (and does the inductive invariant of its proof hold), do replicas agree on what is committed (`StateMachineSafety`), is a vote that could be written ever taken back (`VoteOncePerTerm`)? |
| `diverged` | pass, 370k | From three logs that diverged in terms 1 and 2, is a committed entry ever lost in the contests for terms 3 and 4? |
| `pipelined` | pass, 392k | Can overlapping calls to one peer, answered in any order or failing, undo a commit or leave `nextIndex` unreadable, also when the leader never got its term to disk? |
| `converges` | pass, 280k | With two different commands and one fault (a failed call, an interrupted append, a restart that may lose any of its WAL): does every diverged log become that of a leader that stays, and is everything applied everywhere (`Converges`)? Has each WAL one place for each applied entry, in order, with that entry or a lost record in it (`WalFollowsLog`)? |
| `raft_log` | pass, 2k | Do the two files implement `DurableLog`, with the process dying anywhere, do offsets, sizes and counts in memory agree with them after every call, refused ones included (`FilesAgree`), and does the inductive invariant of the proofs (`LogInv`) hold? |
| `wal` | pass, 1.13M | Does every offset read back its record as long as shutdowns are orderly? Does what reached both files survive crashes and late appends and stay served, is the binary search right on every list of segments that arises, does a restart never claim too much, is a segment that cannot be opened one without records, and do the inductive invariants `CountInv` and `HoldInv` hold? |
| `broker` | pass, 462k | With two connections, a shutdown or crash at any point and a second start: is a topic found on disk never built a second time, has it all partitions a client was told of (`LoadedTopicIsTheOne`), is no topic closed under a handler (`HandledBeforeClose`), does `Shutdown` return, but for a late connection and for a client that does not read (`ShutdownReturns`)? |
| `cluster` | pass, 300k | Unless a channel falls idle while it is watched: do three brokers, started in any order and dying twice anywhere, all come up (`StartupCompletes`), and can a topic that a majority has on disk have a leader again (`TopicsComeBack`)? |
| `topic_race` | violation | Do clients and peers reach the same instance of a topic that two requests made at once? |
| `stale_reply` | violation | Is what a leader commits held by a majority when replies outlive a term? |
| `wal_rotation` | violation | Can a crash leave a gap in the middle of the WAL? |
| `wal_readers` | violation | Do offsets read back their records with two concurrent readers? |

**Bounds.** `MaxTerm`, `MaxLog`, `MaxInflight`, `MaxFaults` and `Campaigner` only
disable `startElection`, `Submit`, `replicateToPeer` and the fault actions; a
restricted model is a subset of the behaviours, never a different one. Three
servers are the least with a proper majority. Two contenders for a term and one
entry are what double votes and lost commits need; the Raft scenario in which an
entry of an old term is replicated and then overwritten (the reason for the term
test in `advanceLeaderCommit`) needs four terms and diverged logs, which is why
`diverged` starts from the state two failed leaderships leave (`Diverged`, reachable
as its comment says) rather than from `Init`. Two slots per peer are what overtaking
needs, and two servers suffice for it. `converges` starts from the same diverged logs,
with the command `c` in the entry of term 1 and `d` in those of later terms, so that a
record in a wrong place is a wrong record, and leaves both replication and one fault to
come. The Raft-group runs set
`CHECK_DEADLOCK FALSE`: with the bounds used up the model stops, the system would
not; likewise `broker` and `cluster`, where starts and deaths are bounded and clients
may all have left. `raft_log` and `wal` do check deadlock. In `raft_log` the store has room for the
dummy and several entries of two sizes; in `wal` five records of one and two words
make three segments of two records, the store buffer holds two words and the index
buffer four, so that both spill in the middle of an entry. In `broker` two connections
with one request each are what a race for a topic needs, and one of them can be stuck
in a consume, or come in while the server closes; one name and up to two partitions,
because names share nothing but the map, and a topic half made needs a second
partition; two starts, so that what the first life left on disk is opened. Three
brokers and two deaths let two of them be away while the third one starts.

**Views and symmetry.** `ServerSymmetry` permutes servers with the same part in
`Campaigner` and `FailingDisk`, and is used with safety properties only.
`ConsensusView` (in `diverged` and `pipelined`) drops what no later step and none of the
run's properties looks at: messages every receiver will ignore, vote counts and peer
indexes of followers (both are overwritten before they are read), and, once no fault is
left, the WAL, which only a restart reads. `BallotView` (in `restarts`) keeps besides
every granted vote on the wire, since `ElectionInv` counts late ones as well.
`converges`, which looks at the WAL, has no view.

**Fairness.** Always weak, and only of goroutines, which the Go scheduler runs unless
they are blocked. In `converges`: `ApplyLoop`, the heartbeat of the current term to each
peer, the handling of a request and of a reply; the ticker keeps firing, and gRPC
delivers a call or fails it. Failing is a fault, of which there are finitely many.
Nothing is assumed of elections, whose timeouts are random, nor of clients: `Converges`
is conditional on a leader that stays. In `broker`: the accepting goroutine and the
handler of each connection, and `Shutdown`, where a write to a full connection is a step
that is not enabled; nothing of clients, who may never send, read or hang up, nor of
whoever starts and stops the broker. Hence the exception in `ShutdownReturns` for a client
that for ever neither reads nor leaves while `close` waits for it (`Stuck`); without
it the property is violated. In `cluster`: `Serve`, the loop over the peers, that a
channel which is connecting gets through to a peer that listens, that the loop sees a
channel that is ready and stays so, and the opening of topics; nothing of whoever starts
brokers, and not that a channel stays ready or goes on connecting. So both properties are
conditional on all brokers being started for good from some time on, and except a broker
that for ever watches an idle channel (`WatchesIdle`); without that they are violated.

**Mutants.** For each property `PROJECT.json` names a plausible slip in the code
(a dropped comparison, an off-by-one, a missing rollback, truncating on open), kept
as an operator beside the definition it replaces, under which TLC finds the property
violated.

## 4. The proofs

The theorems hold for every value of the constants: any number of
servers, brokers, connections, partitions, terms and entries, any sizes of records and
buffers, and any number of faults. Assumed are the named assumptions of the modules
(finitely many servers, bounds that are naturals, ...), which TLC evaluates in every
run, and, where a theorem says so, one of four hypotheses:

| Hypothesis | Means | Why it is needed |
|---|---|---|
| `Reliable` | `FailingDisk = {}` and `RepliesMayOutliveTerm = FALSE`: `raft.state` can be written, and no AppendEntries goroutine survives into a later leadership of its server | with a failing candidate `StateMachineSafety` is false (section 5), and with replies that outlive their term `CommitHeldByMajority` is (run `stale_reply`) |
| `Oversize = {}` | the WAL refuses no committed command | otherwise `WalFollowsLog` is false (section 5) |
| `TornErrors = FALSE` | a call that returns an error has done nothing: no write fails half-way, and the second truncation of `TruncateFrom` does not fail behind the first; an operation that the process *dies* in may have done any part | otherwise `FilesAgree` is false (section 5) |
| `OneReader` | one goroutine at a time is in `wal.read` of a partition | two flush the same index buffer twice (run `wal_readers`) |

### RaftGroup

With failing disks and stale replies (no hypothesis):

* `TypeCorrect` (`TypeOK`), `ElectionInvariant` (`ElectionInv`),
  `AtMostOneLeaderPerTerm` (`ElectionSafety`);
* `VotesOnce` (`VoteOncePerTerm`): from `TypeOK` and `FileIsMemory`, which says that a
  server with a good disk has in `raft.state` what it has in memory;
* `LeaderOnlyAppends` (`LeaderAppendOnly`).

`ElectionSafety` is not inductive: that two leaders of a term cannot arise depends
on who has voted, on votes still travelling, and on what a voter will remember after
a crash. `ElectionInv` adds

* `VotesOnDisk`: every ballot a peer has cast, counted or on the way, is in its
  voter's `raft.state`, or the file is in a later term. This holds because
  `HandleRequestVote` persists a grant before it answers, and refuses when that
  fails. A candidate's *own* vote is excepted: `startElection` goes on when it could
  not be persisted. So after a crash such a server may vote for another in the term
  it campaigned in, and the argument must not rely on its vote;
* `OneBallotPerTerm`, `FileBehindMemory`: nobody has cast two ballots in a term, and
  the file is never ahead of memory nor contradicts it;
* `VotesForItself`, `LeaderHasMajority`.

The argument: two leaders of one term each have a majority of counted votes, and two
majorities of a finite set meet (lemma `VotesElect`). A shared voter that is neither
leader cast two ballots, against `OneBallotPerTerm`. If it is one of the two leaders,
it voted for the other by a ballot that is on its own disk, so its file is at least
in that term, hence by `FileBehindMemory` its memory holds the vote for the other,
against `VotesForItself`. The proof has one lemma per action.

### RaftSafety, RaftSafetyProofs, RaftGuarantees

Under `Reliable`: `SafetyInvariant` (`SafetyInv`), and from it `LogsMatch`
(`LogMatching`), `ReplicasAgree` (`StateMachineSafety`), `LeadersAreComplete`
(`LeaderCompleteness`), `CommitsAreHeld` (`CommitHeldByMajority`), `CommitsAreStable`
(`CommittedIsStable`), `NextIndexStaysReadable` (`NextIndexReadable`); with
`Oversize = {}` also `WalMirrorsLog` (`WalFollowsLog`) and `OffsetsMeanTheSame`: whatever
two replicas still hold at an offset is the same record, so that it does not matter which
broker a consumer asks. Both hold whatever restarts lose from a WAL, its middle included;
that nothing is lost there is not claimed (finding 3).

None of these is inductive, and no strengthening over the variables alone is enough: a
leader that was deposed has left its log nowhere, yet what it committed must bind all
later leaders. `SafetyInv` therefore says that *there is* a history, of `won` (who was
elected in a term), `lead` (the log that server had got to while it led), `cast` (votes)
and `ack` (which server's log agreed with the leader's, and how far, while it was in
that term), such that

* nobody votes twice in a term, and who was elected got a majority of the votes in `cast`
  (`CastInv`, `WonInv`);
* every entry in a log comes, with all before it, from the leader of its term (`Sound` in
  `LeadInv`), and a call for entries carries a piece of that leader's log
  (`AppendReqInv`);
* a successful answer, and what `matchIndex` counts, stands in `ack` (`AckInv`);
* an entry of a leader's own term is either *lost* (a majority has gone on to later terms
  without acknowledging it, so that it can no longer be chosen) or still held by those
  who acknowledged it, by every later leader, and by every candidate one of them voted
  for (`KeepInv`);
* what a server takes for committed lies within what a majority acknowledged in a term
  not above its own (`CommitInv`).

Steps that send no request, elect nobody and write no log keep the history (`Quiet`);
each of the others extends it. The election step is where majorities meet: a position
that is not lost was acknowledged by one of the new leader's voters before it voted, so
that the up-to-date test gave the leader that position. The history exists only in the
invariant, not in the model; before the proof it was tried with explicit history
variables under TLC, on instances of 369,782 and 847,613 states.

### RaftLogProofs

Under `TornErrors = FALSE`: `LogInvariant` (`LogInv`), `LogTypeCorrect` (`TypeOK`),
`FilesAlwaysAgree` (`FilesAgree`), `LogIsDurable` (`ImplementsDurableLog`).

`FilesAgree` speaks of idle states only. `LogInv` says for every step inside an operation
what the files are: the first `n` records lie end to end in the store and the index has
their positions (`Laid`), where `n` is what `recover` would find (`Recovers`) and, while
the process lives, what memory counts (`Counted`) but for the entry under way. A half
written record lies behind the last one that counts; a half written index entry is
rounded away. The refinement then takes the abstract sequence to be what `recover` would
find: `Append` maps to the abstract append at the step that completes the index entry,
`TruncateFrom` to the abstract truncation already when the store is cut, a death of the
process to the abstract one, and everything else to stuttering.

### BrokerProofs

`BrokerInvariant` (`BrokerInv`), `BrokerTypeCorrect` (`TypeOK`), `LoadedTopicStaysTheOne`
(`LoadedTopicIsTheOne`) and `HandlersEndBeforeClose` (`HandledBeforeClose`), for any
number of connections, topics, partitions and starts. `BrokerInv` adds: a handler works
on the one request its client sent, is in `conns` (`Listed`) and starts at the beginning
of `handleRequest`; the partitions that run, that a Topic reports or that a client was
told of have directories; a Topic opened by `New` has built exactly the directories of
its name and is the one registered for them, and no handler is building that name, since
every lookup finds it.

### ClusterProofs

`StartInvariant` (`StartInv`), `ClusterTypeCorrect` (`TypeOK`), and two facts that the
liveness properties need of every state: `StartIsNeverStuck`, brokers never wait for
each other in a circle (while not all are up, one of them can go on, or watches a channel
that gets through or has fallen idle), and `HoldersAlwaysCanWin`, once all are up every holder of a
topic that a majority has on disk can win its election.

### WalInvariants, WalProofs, WalReadProofs

Without a hypothesis, for any number of readers: `FilesInvariant` (`FilesInv`),
`FlushedStaysOnDisk` (`FlushedIsKept`), `EmptyMetaIsNewest` (`EmptyMetaHoldsNothing`).
Each step lemma shows `FilesInv'` together with `Kept`: files whose retention time has
not ended are still linked, with something added at their end at most (`Extended`), and
what `RecordFound` finds in a file it also finds in a longer one. A meta file can only
be missing, or empty, when the process died in `newSegment`, and that is called for an
offset not below any base.

Under `OneReader`: `CountInvariant` (`CountInv`), `WalTypeCorrect` (`TypeOK`),
`RestartsNeverSkip` (`RestartNeverSkips`). `RestartNeverSkips` looks at the files as they
are; whether they count too much is decided by what is still in the buffers. `CountInv`
says that segments follow each other without overlap (`Follow`), that for the segment
that writes to a pair of files (`Owner`; a full segment whose index was lost is opened
again by `rotate`, and then the later one writes) the index file with its buffer counts
no more than the segment, where a buffer that a reader has written and not yet emptied
counts once (`Sent`), and that a segment without records has an empty index buffer. The
lemmas about `BufWrite` say that a write moves every word to file or buffer exactly
once and in order, wherever it spills.

`WalReadProofs`, under `OneReader`, is about what a reader gets:

* `SearchIsRight` (`FindsTheSegment`). `findSegment` is a recursive function over the
  spans `low..high`. That such a function exists, and what it returns, is an induction
  over the width of a span; as the provers cannot instantiate the library's induction
  theorems, each is shown by a least counterexample (lemmas `Smallest`, `NoFirst`, from
  the well-foundedness of the naturals): in the narrowest span for which it fails, the
  next round goes on with a narrower one, for which it holds. That the search never
  leaves out a segment with the offset needs the segments sorted, which is `Follow`.
* `FlushedComesBack` (`FlushedIsServed`): what is in both files lies, by `CountInv`, in
  the segment the search finds, and a record stays found behind what the buffers add.
* `HoldInvariant` (`HoldInv`). `EveryOffsetReadsBack` is not inductive: a read looks at
  files and buffers at one time, but a flush that skips a segment, or a reopening that
  takes the wrong position for the next record, only shows many steps later. `HoldInv`
  says, as long as shutdowns were orderly, that store file and buffer together, and index
  file and buffer together, are exactly the records of the segment's offsets, each where
  its entry says (`Holds`), that `size` is where the next one goes, that only the active
  segment may be empty, so that no two have the same base, and that every offset that
  retention has not removed is in a segment (`Covers`). During a shutdown whatever is
  still in a buffer has a flush to come (`Flushing`), so that the files alone hold it all
  when the process ends (`ShutHolds`), which is what `newWAL` starts from. Most steps only
  move words from a buffer to the file behind it (`Alike`, `Moved`); `append` adds one
  record (`AppendedIsFound`); retention takes whole segments.
* `OffsetsReadBack` (`EveryOffsetReadsBack`), from all of these: `Covers` gives a segment,
  the search finds that one, and `Holds` gives the record.

### Only model-checked

* Liveness under fairness is out of this prover's reach: `Converges`, `ShutdownReturns`,
  `StartupCompletes`, `TopicsComeBack`. Of the last two, `ClusterProofs` has the part that
  is about single states.
* What the violation runs refute.

Every invariant and action property that a passing run checks, and the refinement of
`DurableLog`, is proved, under the hypotheses of the table above.

## 5. Findings

Each is a violation run, with the line of the repository it disagrees with:

1. `stale_reply`: `replicateToPeer` applies a reply if its server is *a* leader, not
   if it still leads the term of the call. A success from an earlier leadership then
   counts in a later one, and an entry only the leader has is committed.
2. `topic_race`: `Produce`, `Consume` and `CreateTopic` look a topic up, build it and put
   it into the map, with no lock around the three. Two requests at once build two
   instances on the same files, both with running Raft goroutines; the map keeps one,
   `Server.rafts` may keep the other, so that clients submit to and read from one and
   peers talk to the other. After the next restart there is one again
   (`LoadedTopicIsTheOne`).
3. `wal_rotation`: `rotate` does not flush the full segment, and the periodic flush
   looks at the active one only. A crash loses the tail of the old segment while
   `NextOffset`, taken from the new one, says it was applied.
4. `wal_readers`: two readers under the read lock flush one `bufio.Writer`; index
   entries are written twice and later offsets read the wrong record.

Three constants stand for assumptions under which the other runs pass, and which the
code does not ensure. Setting them otherwise gives a counterexample:

* `Oversize = {}` (`converges`): `logStore.Append` refuses records above 1,000,000 bytes
  after Raft has committed them. `lastApplied` moves, the WAL does not, and the next
  restart derives a `lastApplied` that is too small: with an oversized command
  `WalFollowsLog` fails, and a record may be applied twice.
* `TornErrors = FALSE` (`raft_log`): after a store write that failed half-way, `Append`
  puts nothing back; with `TRUE`, `FilesAgree` fails: the file offset has passed `sSize`,
  the position that the next `Append` writes to the index, so that the index it returns
  names half a record.
* `FailingDisk` without the servers of `Campaigner` (`restarts`): `startElection` goes
  on when it could not write `raft.state`. With a failing candidate `ElectionSafety`
  still holds (that is proved), but `StateMachineSafety` fails: a leader whose term never
  reached its disk restarts in an older term and helps an older leader to commit an
  entry, which a late AppendEntries call of its own lost term then removes.

Consequences for the other modules: what finding 3 does to the WAL is part of `Restart` in
`RaftGroup`; after 4 a WAL may come back with wrong records, which it is not; with a torn
write the Raft log is not the sequence `RaftGroup` takes it for; with 2 a server of
`RaftGroup` is two instances writing the same files. The passing runs of `RaftGroup`
hold where these do not occur.

Also seen while modelling, without a run of their own:

* `becameFollower` only logs that it could not write `raft.state`; `Append` of the Raft
  log never syncs; `wal.flush` sends the index before the store, so that a crash in
  between leaves an index entry without a record; a full segment whose index was lost is
  opened a second time by `rotate`.
* Two records applied behind a shutdown's `close`, the first to the closed segment and
  the second to a new one, leave a gap although the shutdown was orderly.
* A crash between making and writing a meta file keeps the broker from starting until
  somebody removes the file; `EmptyMetaHoldsNothing` says that this costs nothing.
* A consume of an unknown partition, or of a topic that does not exist (it is made with
  partition 0, and partition 1 is read), panics and takes the broker down.
* A crash in the middle of `CreateTopic` leaves a topic with fewer partitions than asked
  for, and a retry is answered that the topic exists.
* A connection accepted while `close` walks over `conns` is not closed: if its client
  stays, `wg.Wait` may never return; if `wg.Add` comes behind the wait, it is not waited
  for. Both are excepted by name (`Late`) in `HandledBeforeClose` and `ShutdownReturns`.
* A client that does not read what it is sent can hold up `Shutdown` for ever: `close` has
  no deadline for its notice and keeps `TCPServer.mu`, which every handler needs to leave.
  `Stuck` in `ShutdownReturns` excepts it by name.
* `connectToPeer` calls `Connect` once and then only looks. When the connection breaks
  between becoming ready and being looked at, or the peer stays away for gRPC's idle
  timeout, the broker spins for ever. `WatchesIdle` excepts it by name.
* When `segment.delete` fails, `deleteExpiredSegments` returns at once: segments that it
  has closed and removed stay in `wal.segments`, reads of them fail on closed files, and
  the next round fails at the first of them again.
* A full segment that `rotate` has opened a second time (above) has one set of files for
  two entries of the list. If the first entry is removed by retention and the process dies
  between the removal of the store file and that of the index file, `newWAL` does not see
  the base, and a later `rotate` to it takes the entries of the index file that is left for
  those of an empty store.
* One peer that stays down keeps a restarting broker from serving at all, and a topic made
  through one broker only has no majority until it was made on others.

## 6. Not modelled

* Power loss (only the death of the process), and file-system errors in the WAL, among
  them a removal by retention that fails.
* A death inside `deleteExpiredSegments`, which is one step of `Wal`. Between two segments
  it leaves what retention leaves when only the first ones have expired yet and the process
  dies then, which is in the model. Between two files of a segment the store file is the
  first to go, and `newWAL` finds segments by that; what is left is opened again only for
  a segment that is in the list twice (section 5).
* Several requests on one connection, requests for more than one topic name, negative
  numbers of partitions, and the hash that selects a partition (any may be taken).
* The offset in the answer to a produce, which is always 0.
* `AppendBatch` of the Raft log and `SubmitCommand` of the Raft server, which nothing
  calls; the `-truncate` flags; configuration, logging and the command-line tools; the
  generated gRPC code; encodings (gob, JSON), of which only success matters here.

## 7. Plan

Everything that changes state is modelled, and every safety property that a passing run
checks is proved. What could follow:

1. `RaftGroup`: which of the guarantees survive disks that fail on servers that never
   stand for election, as in the run `restarts`. `CommitHeldByMajority` should not (such a
   server may go back to an older term and drop what it acknowledged); what is to be
   shown is that it never grants a vote either, so that every majority of voters still
   meets every majority of acknowledgements in a server with a good disk.
2. `Broker`: a refinement of an abstract map from names to topics, with the race of
   `topic_race` as the step that it does not allow.
