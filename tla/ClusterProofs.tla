----------------------------- MODULE ClusterProofs -----------------------------
(***************************************************************************)
(* Proofs about Cluster.  That start-up completes is a liveness property   *)
(* and left to TLC; what it needs of every state is proved here.           *)
(***************************************************************************)
EXTENDS Cluster, TLAPS, FiniteSetTheorems

\* What a process that is down has, nothing; and what a broker that is up has:
\* a connection to every peer, and an instance of the topic's Raft group if its
\* disk has the topic, or is about to register one.  connectToPeer runs for a
\* peer the broker has no connection to, and has a channel to watch.
StartInv ==
    \A b \in Brokers :
        /\ node[b] = "down" => /\ b \notin serving /\ b \notin rafts /\ b \notin making
                               /\ peerRPCs[b] = {}
        /\ node[b] # "connecting" => dialing[b] = NoPeer
        /\ node[b] = "connecting" => b \notin rafts /\ b \notin making
        /\ node[b] = "up" => /\ peerRPCs[b] = Peers(b)
                             /\ b \in onDisk => b \in rafts \/ b \in making
        /\ dialing[b] # NoPeer => dialing[b] \in Peers(b) \ peerRPCs[b]
        /\ dialing[b] # NoPeer <=> channel[b] # "none"
        /\ peerRPCs[b] \subseteq Peers(b)

\* Nobody waits for somebody who waits: while all processes run and not all of
\* them are up, some broker has yet to listen, to take its next peer, to see a
\* connection become ready, or to open its topics, or it is the channel that
\* holds a broker up, which has fallen idle (server.go:98-138).
SomeoneProceeds ==
    AllStarted =>
        \/ \A b \in Brokers : node[b] = "up"
        \/ \E b \in Brokers :
              \/ b \notin serving
              \/ node[b] = "connecting" /\
                    \/ channel[b] = "connecting" /\ dialing[b] \in serving
                    \/ channel[b] \in {"ready", "idle"}
                    \/ dialing[b] = NoPeer /\ Peers(b) \ peerRPCs[b] # {}
                    \/ peerRPCs[b] = Peers(b)

\* Once all brokers are up and listen, and no creation is under way, every
\* broker that has the topic can win an election of its group if a majority of
\* the brokers has the topic (broker.go:55-78, server.go:40-68).
HoldersCanWin ==
    (\A b \in Brokers : node[b] = "up") /\ serving = Brokers /\ making = {} =>
        (IsMajority(onDisk) => onDisk # {} /\ \A b \in onDisk : CanWin(b))

-----------------------------------------------------------------------------
\* Before any process runs there is nothing.
LEMMA ClusterStart ==
    ASSUME Init
    PROVE  TypeOK /\ StartInv
  BY EndsAssumption DEF Init, TypeOK, StartInv

\* Every step keeps the types, one proof per operation.
LEMMA ClusterTypes ==
    ASSUME TypeOK, StartInv, [Next]_vars
    PROVE  TypeOK'
  <1> USE EndsAssumption DEF TypeOK
  <1>1. CASE \E b \in Brokers : Launch(b)
    BY <1>1 DEF Launch
  <1>2. CASE \E b \in Brokers : Serve(b)
    BY <1>2 DEF Serve
  <1>3. CASE \E b \in Brokers, p \in Brokers : ConnectToAllPeers(b, p)
    BY <1>3 DEF ConnectToAllPeers
  <1>4. CASE \E b \in Brokers : connectToPeer(b)
    <2>1. PICK b \in Brokers : connectToPeer(b)
      BY <1>4
    <2>2. dialing[b] \in Brokers
      BY <2>1 DEF connectToPeer, StartInv, Peers
    <2> QED BY <2>1, <2>2 DEF connectToPeer
  <1>5. CASE \E b \in Brokers : Boot(b)
    BY <1>5 DEF Boot, Opens
  <1>6. CASE \E b \in Brokers : MakeDir(b)
    BY <1>6 DEF MakeDir
  <1>7. CASE \E b \in Brokers : AddRaft(b)
    BY <1>7 DEF AddRaft
  <1>8. CASE \E b \in Brokers : End(b)
    BY <1>8 DEF End
  <1>9. CASE \E b \in Brokers : Connects(b) \/ FallsIdle(b)
    BY <1>9 DEF Connects, FallsIdle
  <1>10. CASE UNCHANGED vars
    BY <1>10 DEF vars
  <1> QED BY <1>1, <1>2, <1>3, <1>4, <1>5, <1>6, <1>7, <1>8, <1>9, <1>10 DEF Next

\* Every step keeps what a broker has at each stage of its start.
LEMMA ClusterStages ==
    ASSUME TypeOK, StartInv, [Next]_vars
    PROVE  StartInv'
  <1> USE BrokersAssumption DEF TypeOK, StartInv, Peers
  <1>1. CASE \E b \in Brokers : Launch(b)
    BY <1>1 DEF Launch
  <1>2. CASE \E b \in Brokers : Serve(b)
    BY <1>2 DEF Serve
  <1>3. CASE \E b \in Brokers, p \in Brokers : ConnectToAllPeers(b, p)
    BY <1>3 DEF ConnectToAllPeers
  <1>4. CASE \E b \in Brokers : connectToPeer(b)
    BY <1>4 DEF connectToPeer
  <1>5. CASE \E b \in Brokers : Boot(b)
    BY <1>5 DEF Boot, Opens
  <1>6. CASE \E b \in Brokers : MakeDir(b)
    BY <1>6 DEF MakeDir
  <1>7. CASE \E b \in Brokers : AddRaft(b)
    BY <1>7 DEF AddRaft
  <1>8. CASE \E b \in Brokers : End(b)
    BY <1>8 DEF End
  <1>9. CASE \E b \in Brokers : Connects(b) \/ FallsIdle(b)
    BY <1>9 DEF Connects, FallsIdle
  <1>10. CASE UNCHANGED vars
    BY <1>10 DEF vars
  <1> QED BY <1>1, <1>2, <1>3, <1>4, <1>5, <1>6, <1>7, <1>8, <1>9, <1>10 DEF Next

-----------------------------------------------------------------------------
\* The inductive invariant of start-up, for any number of brokers and deaths.
THEOREM StartInvariant == Spec => [](TypeOK /\ StartInv)
  <1>1. Init => TypeOK /\ StartInv
    BY ClusterStart
  <1>2. (TypeOK /\ StartInv) /\ [Next]_vars => (TypeOK /\ StartInv)'
    BY ClusterTypes, ClusterStages
  <1> QED BY <1>1, <1>2, PTL DEF Spec

\* Every variable has the type of the field it stands for, and a group that is
\* registered, or about to be, has its files (broker.go:95-129).
THEOREM ClusterTypeCorrect == Spec => []TypeOK
  BY StartInvariant, PTL

\* Brokers that start never wait for each other in a circle
\* (server.go:98-138).
THEOREM StartIsNeverStuck == Spec => []SomeoneProceeds
  <1>1. TypeOK /\ StartInv => SomeoneProceeds
    <2> SUFFICES ASSUME TypeOK, StartInv, AllStarted,
                        \A b \in Brokers : b \in serving,
                        NEW b \in Brokers, node[b] # "up"
                 PROVE  /\ node[b] = "connecting"
                        /\ \/ channel[b] = "connecting" /\ dialing[b] \in serving
                           \/ channel[b] \in {"ready", "idle"}
                           \/ dialing[b] = NoPeer /\ Peers(b) \ peerRPCs[b] # {}
                           \/ peerRPCs[b] = Peers(b)
      BY DEF SomeoneProceeds
    <2>1. node[b] = "connecting"
      BY DEF AllStarted, TypeOK
    <2>2. CASE dialing[b] # NoPeer
      BY <2>1, <2>2 DEF TypeOK, StartInv, Peers
    <2>3. CASE dialing[b] = NoPeer
      BY <2>1, <2>3 DEF StartInv
    <2> QED BY <2>1, <2>2, <2>3
  <1> QED BY <1>1, StartInvariant, PTL

\* A topic that a majority has on disk can have a leader when all brokers are
\* up, whatever deaths and half-made topics came before: the part of
\* TopicsComeBack that is not liveness (broker.go:55-78, server.go:40-68).
THEOREM HoldersAlwaysCanWin == Spec => []HoldersCanWin
  <1>1. TypeOK /\ StartInv => HoldersCanWin
    <2> SUFFICES ASSUME TypeOK, StartInv,
                        \A b \in Brokers : node[b] = "up", serving = Brokers, making = {},
                        IsMajority(onDisk)
                 PROVE  onDisk # {} /\ \A b \in onDisk : CanWin(b)
      BY DEF HoldersCanWin
    <2>1. rafts = onDisk
      BY DEF TypeOK, StartInv
    <2>2. onDisk # {}
      <3>1. Cardinality(Brokers) \in Nat
        BY BrokersAssumption, FS_CardinalityType
      <3>2. ~IsMajority({})
        BY <3>1, FS_EmptySet DEF IsMajority
      <3> QED BY <3>2
    <2>3. ASSUME NEW b \in onDisk
          PROVE  CanWin(b)
      <3>1. peerRPCs[b] = Brokers \ {b}
        BY DEF TypeOK, StartInv, Peers
      <3>2. {p \in rafts \cap serving : p = b \/ p \in peerRPCs[b]} = onDisk
        BY <2>1, <3>1 DEF TypeOK
      <3> QED BY <2>1, <3>2 DEF CanWin
    <2> QED BY <2>2, <2>3
  <1> QED BY <1>1, StartInvariant, PTL
=============================================================================
