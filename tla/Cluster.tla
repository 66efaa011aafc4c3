------------------------------- MODULE Cluster -------------------------------
(***************************************************************************)
(* How the brokers of a cluster start and find each other: main in         *)
(* miniKafka.go, and Serve, ConnectToAllPeers, connectToPeer and AddRaft   *)
(* of raft/server.go.  A broker accepts Raft calls in a goroutine of its   *)
(* own, connects to one peer after the other, waiting for each without a   *)
(* limit, and only then opens the topics on its disk and serves clients.   *)
(*                                                                         *)
(* A gRPC channel is told to connect once and is then watched.  It tries   *)
(* again while its peer cannot be reached, but a channel that has fallen   *)
(* idle dials again for a call alone, and there are no calls before the    *)
(* broker is up.                                                           *)
(*                                                                         *)
(* A topic is made by the one broker a client asks.  Only the brokers that *)
(* have it answer calls for its Raft group; RaftGroup is about what they   *)
(* then do.  One topic of one partition stands for all: groups do not      *)
(* touch each other.                                                       *)
(***************************************************************************)
EXTENDS Naturals, FiniteSets

CONSTANTS Brokers,      \* cluster.json
          NoPeer,
          MaxEnds       \* bound on the times a broker dies or is stopped

ASSUME BrokersAssumption == IsFiniteSet(Brokers) /\ NoPeer \notin Brokers
ASSUME EndsAssumption == MaxEnds \in Nat

VARIABLES node,       \* broker -> "down", "connecting" or "up"
          serving,    \* the brokers whose Raft server listens
          peerRPCs,   \* broker -> Server.peerRPCs
          dialing,    \* broker -> the peer connectToPeer waits for
          channel,    \* broker -> what GetState says of that connection
          onDisk,     \* the brokers with a directory for the topic
          making,     \* the brokers where NewTopic has made it, up to AddRaft
          rafts,      \* the brokers whose Server.rafts has its group
          ends        \* how often brokers have died

vars == <<node, serving, peerRPCs, dialing, channel, onDisk, making, rafts, ends>>

Peers(b) == Brokers \ {b}

Init ==
    /\ node = [b \in Brokers |-> "down"]
    /\ serving = {}
    /\ peerRPCs = [b \in Brokers |-> {}]
    /\ dialing = [b \in Brokers |-> NoPeer]
    /\ channel = [b \in Brokers |-> "none"]
    /\ onDisk = {}
    /\ making = {}
    /\ rafts = {}
    /\ ends = 0

\* Somebody starts the process: main gets to "go raftServer.Serve()" and goes
\* on to ConnectToAllPeers.
Launch(b) ==
    /\ node[b] = "down"
    /\ node' = [node EXCEPT ![b] = "connecting"]
    /\ UNCHANGED <<serving, peerRPCs, dialing, channel, onDisk, making, rafts, ends>>

\* Mutant of Serve: the Raft server is started behind ConnectToAllPeers.
ServeConnected(b) ==
    /\ node[b] = "up" /\ b \notin serving
    /\ serving' = serving \cup {b}
    /\ UNCHANGED <<node, peerRPCs, dialing, channel, onDisk, making, rafts, ends>>

\* Serve, in its goroutine: the port is open.
Serve(b) ==
    /\ node[b] # "down" /\ b \notin serving
    /\ serving' = serving \cup {b}
    /\ UNCHANGED <<node, peerRPCs, dialing, channel, onDisk, making, rafts, ends>>

\* ConnectToAllPeers takes the next peer, in the order of a Go map, and
\* connectToPeer makes a channel and has it connect.
ConnectToAllPeers(b, p) ==
    /\ node[b] = "connecting" /\ dialing[b] = NoPeer
    /\ p \in Peers(b) \ peerRPCs[b]
    /\ dialing' = [dialing EXCEPT ![b] = p]
    /\ channel' = [channel EXCEPT ![b] = "connecting"]
    /\ UNCHANGED <<node, serving, peerRPCs, onDisk, making, rafts, ends>>

\* gRPC reaches a peer that listens.
Connects(b) ==
    /\ channel[b] = "connecting" /\ dialing[b] \in serving
    /\ channel' = [channel EXCEPT ![b] = "ready"]
    /\ UNCHANGED <<node, serving, peerRPCs, dialing, onDisk, making, rafts, ends>>

\* gRPC gives the channel up: it has had no call for its idle timeout, or its
\* connection was ready and broke.
FallsIdle(b) ==
    /\ channel[b] \in {"connecting", "ready"}
    /\ channel' = [channel EXCEPT ![b] = "idle"]
    /\ UNCHANGED <<node, serving, peerRPCs, dialing, onDisk, making, rafts, ends>>

\* connectToPeer sees that the channel is ready and leaves its loop.  Calls
\* mend the connection when it breaks later.
connectToPeer(b) ==
    /\ channel[b] = "ready"
    /\ peerRPCs' = [peerRPCs EXCEPT ![b] = @ \cup {dialing[b]}]
    /\ dialing' = [dialing EXCEPT ![b] = NoPeer]
    /\ channel' = [channel EXCEPT ![b] = "none"]
    /\ UNCHANGED <<node, serving, onDisk, making, rafts, ends>>

\* Mutant of Opens: the topics on disk wait for the first request.
OpensNothing(b) == rafts

\* broker.New: the topics on disk are opened and their groups registered.
Opens(b) == IF b \in onDisk THEN rafts \cup {b} ELSE rafts

Boot(b) ==
    /\ node[b] = "connecting"
    /\ peerRPCs[b] = Peers(b)
    /\ node' = [node EXCEPT ![b] = "up"]
    /\ rafts' = Opens(b)
    /\ UNCHANGED <<serving, peerRPCs, dialing, channel, onDisk, making, ends>>

\* Mutant of MakeDir: the group is registered before its files are there.
RegistersFirst(b) ==
    /\ node[b] = "up" /\ b \notin onDisk
    /\ rafts' = rafts \cup {b}
    /\ UNCHANGED <<node, serving, peerRPCs, dialing, channel, onDisk, making, ends>>

\* A client has broker b make the topic.  The process may die between the
\* making of the directory and AddRaft.
MakeDir(b) ==
    /\ node[b] = "up" /\ b \notin onDisk
    /\ onDisk' = onDisk \cup {b}
    /\ making' = making \cup {b}
    /\ UNCHANGED <<node, serving, peerRPCs, dialing, channel, rafts, ends>>

AddRaft(b) ==
    /\ b \in making
    /\ making' = making \ {b}
    /\ rafts' = rafts \cup {b}
    /\ UNCHANGED <<node, serving, peerRPCs, dialing, channel, onDisk, ends>>

\* The process of b ends, at any point.
End(b) ==
    /\ node[b] # "down"
    /\ ends < MaxEnds
    /\ ends' = ends + 1
    /\ node' = [node EXCEPT ![b] = "down"]
    /\ serving' = serving \ {b}
    /\ peerRPCs' = [peerRPCs EXCEPT ![b] = {}]
    /\ dialing' = [dialing EXCEPT ![b] = NoPeer]
    /\ channel' = [channel EXCEPT ![b] = "none"]
    /\ making' = making \ {b}
    /\ rafts' = rafts \ {b}
    /\ UNCHANGED onDisk

Next ==
    \/ \E b \in Brokers : Launch(b)
    \/ \E b \in Brokers : Serve(b)
    \/ \E b \in Brokers, p \in Brokers : ConnectToAllPeers(b, p)
    \/ \E b \in Brokers : Connects(b)
    \/ \E b \in Brokers : FallsIdle(b)
    \/ \E b \in Brokers : connectToPeer(b)
    \/ \E b \in Brokers : Boot(b)
    \/ \E b \in Brokers : MakeDir(b)
    \/ \E b \in Brokers : AddRaft(b)
    \/ \E b \in Brokers : End(b)

\* Goroutines that are not blocked run; a gRPC channel that is connecting gets
\* through to a peer that listens.  Nothing is assumed of whoever starts brokers
\* and asks for topics, nor that a channel stays as it is.
Fairness ==
    \A b \in Brokers :
        /\ WF_vars(Serve(b))
        /\ WF_vars(\E p \in Brokers : ConnectToAllPeers(b, p))
        /\ WF_vars(Connects(b))
        /\ WF_vars(connectToPeer(b))
        /\ WF_vars(Boot(b))
        /\ WF_vars(AddRaft(b))

Spec == Init /\ [][Next]_vars /\ Fairness

-----------------------------------------------------------------------------
(***************************************************************************)
(* Correctness.                                                            *)
(***************************************************************************)
\* Every variable has the type of the field it stands for; a group that is
\* registered, or about to be, has its files.
TypeOK ==
    /\ node \in [Brokers -> {"down", "connecting", "up"}]
    /\ serving \subseteq Brokers
    /\ peerRPCs \in [Brokers -> SUBSET Brokers]
    /\ dialing \in [Brokers -> Brokers \cup {NoPeer}]
    /\ channel \in [Brokers -> {"none", "connecting", "ready", "idle"}]
    /\ onDisk \subseteq Brokers
    /\ making \subseteq onDisk
    /\ rafts \subseteq onDisk
    /\ ends \in 0..MaxEnds

AllStarted == \A b \in Brokers : node[b] # "down"
IsMajority(S) == Cardinality(S) > Cardinality(Brokers) \div 2

\* Broker b can win an election of the topic's group: it runs an instance and
\* a majority, itself included, answers its calls (server.go:46-68).
CanWin(b) == b \in rafts /\ IsMajority({p \in rafts \cap serving : p = b \/ p \in peerRPCs[b]})

\* A broker watches a channel that does not dial any more.
WatchesIdle == \E b \in Brokers : channel[b] = "idle"

\* Brokers that wait for each other while they start all come up, in whatever
\* order they were started and after whatever crashes on the way, once all of
\* them have been started and none goes away any more; unless the channel that
\* one of them watches has fallen idle, for nothing in the loop wakes it
\* (server.go:98-138).
StartupCompletes ==
    <>[]AllStarted => <>[](\A b \in Brokers : node[b] = "up") \/ <>[]WatchesIdle

\* A topic that a majority of the brokers has on disk can have a leader again
\* once all brokers are back, whoever crashed and in the middle of what, unless
\* one of them watches an idle channel (broker.go:55-78, server.go:40-68): "The
\* broker rebuilds in-memory state from disk and resumes operation"
\* (README.md:194).
TopicsComeBack ==
    <>[]AllStarted =>
        \/ <>[](IsMajority(onDisk) => \E b \in Brokers : CanWin(b))
        \/ <>[]WatchesIdle
=============================================================================
