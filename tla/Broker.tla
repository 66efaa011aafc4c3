-------------------------------- MODULE Broker --------------------------------
(***************************************************************************)
(* The broker, broker/broker.go, with the topics it builds, wal/log/       *)
(* topic.go and partition.go, over the TCP server.  Handlers of different  *)
(* connections look a topic up, build one when there is none, and put it   *)
(* into the map, without a lock around the three: every one of these is a  *)
(* step here, and building is a step per partition.                        *)
(*                                                                         *)
(* A Topic object is named by who built it: the connection whose request   *)
(* did, or Loaded for New.  Its WALs and Raft instances are running as     *)
(* soon as its partitions are built, whether it gets into the map or not.  *)
(* What Raft does with a record and whether an offset can be read yet, or  *)
(* no more, are left open: RaftGroup and Wal are about that.               *)
(***************************************************************************)
EXTENDS TcpServer, Integers

CONSTANTS Topic,        \* names of topics
          MaxParts,     \* bound on the partitions of a topic
          MaxStarts,    \* bound on the times the broker is started
          Loaded, Nobody

Parts == 0..(MaxParts - 1)
Builder == Conn \cup {Loaded}

ASSUME TopicAssumption == IsFiniteSet(Topic)
ASSUME BoundAssumption == MaxParts \in Nat \ {0} /\ MaxStarts \in Nat
ASSUME BuilderAssumption == Loaded \notin Conn /\ Nobody \notin Builder

\* What handleRequest gives back.
Response == [success : BOOLEAN, topic : Topic, created : 0..MaxParts]

ASSUME RequestAssumption ==
    \A r \in Request :
        /\ r.type \in {"produce", "consume", "create_topic", "other"}
        /\ r.topic \in Topic
        /\ r.type = "create_topic" => r.total \in 0..MaxParts
ASSUME AnswerAssumption == Response \subseteq Answer

VARIABLES pc,         \* where main and Shutdown are
          dirs,       \* on disk: topic -> its partition directories, Absent if
                      \* it has no directory of its own
          topics,     \* Broker.topics
          built,      \* topic -> builder -> partitions of its Topic that run
          rafts,      \* Server.rafts: topic -> partition -> who registered it
          at,         \* connection -> where its handler is in handleRequest
          using,      \* connection -> the Topic it works with
          told,       \* history: the creations clients were told of
          starts      \* how often the broker was started

brokerVars == <<pc, dirs, topics, built, rafts, at, using, told, starts>>
vars == <<tcpVars, brokerVars>>

Absent == -1

Ask(c) == request[c]
Name(c) == Ask(c).topic

\* NewTopic: 0 partitions are made 1; Produce and Consume ask for one.
Wanted(n) == IF n = 0 THEN 1 ELSE n
Target(c) == IF Ask(c).type = "create_topic" THEN Wanted(Ask(c).total) ELSE 1

Cancelled == pc \notin {"down", "up"}

-----------------------------------------------------------------------------
Init ==
    /\ TcpInit
    /\ pc = "down"
    /\ dirs = [t \in Topic |-> Absent]
    /\ topics = [t \in Topic |-> Nobody]
    /\ built = [t \in Topic |-> [b \in Builder |-> 0]]
    /\ rafts = [t \in Topic |-> [p \in Parts |-> Nobody]]
    /\ at = [c \in Conn |-> "load"]
    /\ using = [c \in Conn |-> Nobody]
    /\ told = {}
    /\ starts = 0

\* Mutant of LoadedParts: existing topics are opened as Produce makes new ones.
LoadedOnePart(t) == IF dirs[t] = Absent THEN 0 ELSE 1

\* New: a topic for every directory, with as many partitions as it has.
LoadedParts(t) == IF dirs[t] = Absent THEN 0 ELSE Wanted(dirs[t])

\* Mutant of Grow: directories are numbered from 1.
GrowFromOne(n, p) == IF n < p + 2 THEN p + 2 ELSE n

\* newPartition makes the directory of a partition that has none.
Grow(n, p) == IF n < p + 1 THEN p + 1 ELSE n

New ==
    /\ pc = "down"
    /\ starts < MaxStarts
    /\ built' = [t \in Topic |-> [b \in Builder |->
                    IF b = Loaded THEN LoadedParts(t) ELSE 0]]
    /\ dirs' = [t \in Topic |-> IF dirs[t] = Absent THEN Absent ELSE Wanted(dirs[t])]
    /\ rafts' = [t \in Topic |-> [p \in Parts |->
                    IF p < LoadedParts(t) THEN Loaded ELSE Nobody]]
    /\ topics' = [t \in Topic |-> IF dirs[t] = Absent THEN Nobody ELSE Loaded]
    /\ listening' = TRUE
    /\ pc' = "up"
    /\ starts' = starts + 1
    /\ UNCHANGED <<at, using, told>>
    /\ UNCHANGED <<conns, stage, open, client, request, unread, answer, full, toClose>>

-----------------------------------------------------------------------------
(***************************************************************************)
(* handleRequest, for a connection whose handler is at "work".             *)
(***************************************************************************)
Handling(c, where) == stage[c] = "work" /\ at[c] = where

Goto(c, where) == at' = [at EXCEPT ![c] = where]

\* The handler returns its response; created is the number of partitions that
\* CreateTopic made.
Respond(c, success, created) ==
    /\ Answers(c, [success |-> success, topic |-> Name(c), created |-> created])
    /\ Goto(c, "load")
    /\ using' = [using EXCEPT ![c] = Nobody]

\* A request that does not decode, or of a type there is not.
Refuse(c) ==
    /\ Handling(c, "load")
    /\ Ask(c).type = "other"
    /\ Respond(c, FALSE, 0)
    /\ UNCHANGED <<pc, dirs, topics, built, rafts, told, starts>>

\* Mutant of ShuttingDown: the consume loop does not look at the context.
NeverShuttingDown(c) == FALSE

\* The context is looked at before every attempt to consume.
ShuttingDown(c) == Ask(c).type = "consume" /\ Cancelled

StopConsuming(c) ==
    /\ Handling(c, "load")
    /\ ShuttingDown(c)
    /\ Respond(c, FALSE, 0)
    /\ UNCHANGED <<pc, dirs, topics, built, rafts, told, starts>>

\* topics.Load finds a topic: CreateTopic refuses, Produce and Consume use it.
LoadFinds(c) ==
    /\ Handling(c, "load")
    /\ Ask(c).type # "other" /\ ~ShuttingDown(c)
    /\ topics[Name(c)] # Nobody
    /\ IF Ask(c).type = "create_topic" THEN Respond(c, FALSE, 0)
       ELSE /\ Goto(c, "use")
            /\ using' = [using EXCEPT ![c] = topics[Name(c)]]
            /\ UNCHANGED tcpVars
    /\ UNCHANGED <<pc, dirs, topics, built, rafts, told, starts>>

\* It finds none.  NewTopic begins; MkdirAll makes the topic's directory first.
LoadMisses(c) ==
    /\ Handling(c, "load")
    /\ Ask(c).type # "other" /\ ~ShuttingDown(c)
    /\ topics[Name(c)] = Nobody
    /\ Goto(c, "build")
    /\ dirs' = [dirs EXCEPT ![Name(c)] = IF @ = Absent THEN 0 ELSE @]
    /\ UNCHANGED <<pc, topics, built, rafts, using, told, starts, tcpVars>>

\* newPartition: its directory, its WAL, a Raft instance registered with the
\* server in place of whatever was there, and the three goroutines.
newPartition(c) ==
    LET t == Name(c)
        p == built[t][c]
    IN  /\ Handling(c, "build")
        /\ p < Target(c)
        /\ dirs' = [dirs EXCEPT ![t] = Grow(@, p)]
        /\ rafts' = [rafts EXCEPT ![t][p] = c]
        /\ built' = [built EXCEPT ![t][c] = p + 1]
        /\ UNCHANGED <<pc, topics, at, using, told, starts, tcpVars>>

\* newPartition returns an error: the partitions before it stay as they are.
\* Consume has no record then, and its handler panics (see UseFails).
newPartitionFails(c) ==
    /\ Handling(c, "build")
    /\ built[Name(c)][c] < Target(c)
    /\ Ask(c).type # "consume"
    /\ Respond(c, FALSE, 0)
    /\ UNCHANGED <<pc, dirs, topics, built, rafts, told, starts>>

\* LoadOrStore in Produce and Consume: the Topic that is there first stays.
LoadOrStore(c) ==
    LET t == Name(c)
    IN  /\ Handling(c, "build")
        /\ Ask(c).type # "create_topic"
        /\ built[t][c] = Target(c)
        /\ topics' = [topics EXCEPT ![t] = IF @ = Nobody THEN c ELSE @]
        /\ using' = [using EXCEPT ![c] = topics'[t]]
        /\ Goto(c, "useNew")
        /\ UNCHANGED <<pc, dirs, built, rafts, told, starts, tcpVars>>

\* Store in CreateTopic replaces what is there.
Store(c) ==
    LET t == Name(c)
    IN  /\ Handling(c, "build")
        /\ Ask(c).type = "create_topic"
        /\ built[t][c] = Target(c)
        /\ topics' = [topics EXCEPT ![t] = c]
        /\ Respond(c, TRUE, Target(c))
        /\ UNCHANGED <<pc, dirs, built, rafts, told, starts>>

\* Append: selectPartition takes one of the partitions that are there, and its
\* Submit refuses unless this broker leads the group.
AppendRecord(c, accepted) ==
    /\ at[c] \in {"use", "useNew"} /\ stage[c] = "work"
    /\ Ask(c).type = "produce"
    /\ Respond(c, accepted, 0)
    /\ UNCHANGED <<pc, dirs, topics, built, rafts, told, starts>>

\* Consume reads the partition it was asked for, but 1 when it made the topic.
PartitionRead(c) == IF at[c] = "use" THEN Ask(c).partition ELSE 1

Reads(c) ==
    /\ stage[c] = "work" /\ at[c] \in {"use", "useNew"}
    /\ Ask(c).type = "consume"

ConsumeFinds(c) ==
    /\ Reads(c)
    /\ PartitionRead(c) < built[Name(c)][using[c]]
    /\ Respond(c, TRUE, 0)
    /\ UNCHANGED <<pc, dirs, topics, built, rafts, told, starts>>

\* ErrOffsetNotFound: sleep, and try again.
ConsumeAgain(c) ==
    /\ Reads(c)
    /\ PartitionRead(c) < built[Name(c)][using[c]]
    /\ Goto(c, "load")
    /\ using' = [using EXCEPT ![c] = Nobody]
    /\ UNCHANGED <<pc, dirs, topics, built, rafts, told, starts, tcpVars>>

-----------------------------------------------------------------------------
(***************************************************************************)
(* What a client learns, and the end of the process.                       *)
(***************************************************************************)
\* The client of a CreateTopic call learns that it has succeeded.
Told(c) ==
    /\ ReceiveAnswer(c)
    /\ told' = IF answer[c].created = 0 THEN told
               ELSE told \cup {<<answer[c].topic, answer[c].created>>}
    /\ UNCHANGED <<pc, dirs, topics, built, rafts, at, using, starts>>

\* The process ends: the directories stay.
Gone ==
    /\ pc' = "down"
    /\ topics' = [t \in Topic |-> Nobody]
    /\ built' = [t \in Topic |-> [b \in Builder |-> 0]]
    /\ rafts' = [t \in Topic |-> [p \in Parts |-> Nobody]]
    /\ at' = [c \in Conn |-> "load"]
    /\ using' = [c \in Conn |-> Nobody]
    /\ TcpGone
    /\ UNCHANGED <<dirs, told, starts>>

\* The process is killed.
Crash == pc # "down" /\ Gone

\* Consume returned an error that is not ErrOffsetNotFound (a partition the
\* topic does not have, a topic that could not be built): record is nil, and
\* using it ends the process.
UseFails(c) ==
    /\ \/ Reads(c) /\ PartitionRead(c) >= built[Name(c)][using[c]]
       \/ Handling(c, "build") /\ Ask(c).type = "consume" /\ built[Name(c)][c] < Target(c)
    /\ Gone

-----------------------------------------------------------------------------
(***************************************************************************)
(* Shutdown, after main has received a signal.                             *)
(***************************************************************************)
\* cancel().
Cancel == pc = "up" /\ pc' = "cancelled"
          /\ UNCHANGED <<dirs, topics, built, rafts, at, using, told, starts, tcpVars>>

CloseListener ==
    /\ pc = "cancelled"
    /\ closeListener
    /\ pc' = "unlistened"
    /\ UNCHANGED <<dirs, topics, built, rafts, at, using, told, starts>>

LockConns ==
    /\ pc = "unlistened"
    /\ lockConns
    /\ pc' = "waiting"
    /\ UNCHANGED <<dirs, topics, built, rafts, at, using, told, starts>>

CloseConn(c) ==
    /\ pc = "waiting"
    /\ closeConn(c)
    /\ UNCHANGED brokerVars

\* Mutant of WaitReturns: Shutdown does not wait for the handlers.
GoesOn == pc = "waiting" /\ pc' = "closing"
          /\ UNCHANGED <<dirs, topics, built, rafts, at, using, told, starts, tcpVars>>

\* close has returned, and wg.Wait does; the topics of the map are closed next.
WaitReturns ==
    /\ pc = "waiting"
    /\ ~Locked /\ Waited = {}
    /\ pc' = "closing"
    /\ UNCHANGED <<dirs, topics, built, rafts, at, using, told, starts, tcpVars>>

\* The topics are closed, Shutdown and main return.
Exit == pc = "closing" /\ Gone

-----------------------------------------------------------------------------
\* The steps of handleRequest for one connection.
HandleStep(c) ==
    \/ Refuse(c)
    \/ StopConsuming(c)
    \/ LoadFinds(c)
    \/ LoadMisses(c)
    \/ newPartition(c)
    \/ newPartitionFails(c)
    \/ LoadOrStore(c)
    \/ Store(c)
    \/ \E accepted \in BOOLEAN : AppendRecord(c, accepted)
    \/ ConsumeFinds(c)
    \/ ConsumeAgain(c)
    \/ UseFails(c)

ShutdownStep ==
    \/ CloseListener
    \/ LockConns
    \/ \E c \in Conn : CloseConn(c)
    \/ WaitReturns
    \/ Exit

Next ==
    \/ New
    \/ \E c \in Conn : ServerStep(c) /\ UNCHANGED brokerVars
    \/ \E c \in Conn : ClientStep(c) /\ UNCHANGED brokerVars
    \/ \E c \in Conn : Told(c)
    \/ \E c \in Conn : HandleStep(c)
    \/ Cancel
    \/ ShutdownStep
    \/ Crash

\* The Go scheduler runs every goroutine that is not blocked.  Nothing is
\* assumed of clients, nor of whoever starts and stops the broker.
Fairness ==
    /\ \A c \in Conn : /\ WF_vars(ServerStep(c) /\ UNCHANGED brokerVars)
                       /\ WF_vars(HandleStep(c))
    /\ WF_vars(ShutdownStep)

Spec == Init /\ [][Next]_vars
FairSpec == Spec /\ Fairness

-----------------------------------------------------------------------------
(***************************************************************************)
(* Correctness.                                                            *)
(***************************************************************************)
\* Every variable has the type of the field it stands for.
TypeOK ==
    /\ TcpTypeOK
    /\ pc \in {"down", "up", "cancelled", "unlistened", "waiting", "closing"}
    /\ dirs \in [Topic -> Absent..MaxParts]
    /\ topics \in [Topic -> Builder \cup {Nobody}]
    /\ built \in [Topic -> [Builder -> 0..MaxParts]]
    /\ rafts \in [Topic -> [Parts -> Builder \cup {Nobody}]]
    /\ at \in [Conn -> {"load", "build", "use", "useNew"}]
    /\ using \in [Conn -> Builder \cup {Nobody}]
    /\ told \subseteq Topic \X (1..MaxParts)
    /\ starts \in 0..MaxStarts

\* A Topic that was opened when the broker started is the only one of its name
\* as long as the process lives: no request builds another on its directories,
\* the Raft server dispatches every one of its groups to it, and it has all
\* the partitions any client was ever told of, through crashes in the middle
\* of creating it and creations that raced in an earlier life
\* (broker.go:55-78, 95-129, 146-159).
LoadedTopicIsTheOne ==
    \A t \in Topic : topics[t] = Loaded =>
        /\ \A b \in Conn : built[t][b] = 0
        /\ \A p \in Parts : rafts[t][p] = (IF p < built[t][Loaded] THEN Loaded ELSE Nobody)
        /\ \A n \in 1..MaxParts : <<t, n>> \in told => n <= built[t][Loaded]

\* Concurrent requests for a topic that does not exist leave one Topic behind:
\* when nothing is being handled, the Topic clients reach through the map is
\* the one the Raft server hands the calls of the peers to, for each of its
\* partitions (broker.go:95-110, 146-159; "Every topic owns a Write-Ahead
\* Log", README.md:75).
OneTopicPerName ==
    (\A c \in Conn : stage[c] # "work") =>
        \A t \in Topic : topics[t] # Nobody =>
            \A p \in Parts : p < built[t][topics[t]] => rafts[t][p] = topics[t]

\* A connection that was not in conns when close walked over them.
Late(c) == pc \in {"waiting", "closing"} /\ c \in conns \ toClose /\ c \in open

\* When the topics are closed, no request is being handled on a connection
\* that was listed when the server closed its connections (broker.go:131-135,
\* tcp.go:109-119).
HandledBeforeClose ==
    pc = "closing" => \A c \in Conn : stage[c] = "work" => Late(c)

\* The client neither reads nor leaves, and there is no room for the notice.
Stuck(c) == c \in toClose /\ c \in full

\* Shutdown returns, whatever clients wait for, with two exceptions: a client
\* that was accepted while the server closed its connections stays for ever;
\* or one that the server has answered neither reads nor leaves, and close
\* waits for it holding the mutex (broker.go:131-144, 192-215; tcp.go:42-119).
ShutdownReturns ==
    \/ pc = "cancelled" ~> pc = "down"
    \/ <>[](\E c \in Conn : Late(c))
    \/ <>[](\E c \in Conn : Stuck(c))
=============================================================================
