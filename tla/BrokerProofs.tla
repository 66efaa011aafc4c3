----------------------------- MODULE BrokerProofs -----------------------------
(***************************************************************************)
(* Proofs about Broker and the TCP server below it.  The properties to     *)
(* prove speak of a Topic that New has opened and of a request that is     *)
(* handled while the topics are closed; neither is inductive.  BrokerInv   *)
(* adds what they rest on: a handler works on the one request its client   *)
(* sent, is listed in conns and starts at the beginning of handleRequest;  *)
(* and whatever partitions run, are reported or were reported have their   *)
(* directories, which is all that survives a crash.                        *)
(***************************************************************************)
EXTENDS Broker, TLAPS

\* The listener is open from New to close.
Listens == listening => pc \in {"up", "cancelled"}

\* A connection with a handler, or about to get one, is in conns.
Listed == \A c \in Conn : stage[c] \in {"listed", "read", "work", "write"} => c \in conns

\* A handler works on the one request its client has sent.
Asked ==
    \A c \in Conn :
        /\ stage[c] = "none" => client[c] = "none"
        /\ client[c] \in {"none", "idle"} => c \notin unread /\ stage[c] # "work"
        /\ stage[c] = "work" => c \notin unread
        /\ c \in unread \/ stage[c] = "work" => request[c] \in Request

\* handleRequest is entered at its beginning, and has a Topic when it uses one.
Handlers ==
    \A c \in Conn :
        /\ at[c] # "load" => stage[c] = "work"
        /\ at[c] \in {"use", "useNew"} => using[c] \in Builder

\* Nothing is handled while there is no process; close holds the mutex only
\* while it walks over conns; and what is handled while the topics are closed
\* came in on a connection that close has not closed.
Stopped ==
    /\ toClose # {} => pc = "waiting"
    /\ \A c \in Conn :
          /\ pc = "down" => stage[c] \in {"none", "done"}
          /\ pc = "closing" /\ stage[c] = "work" => c \in open

\* Partitions that run, that an answer on its way reports, or that a client
\* was told of, have their directories.
OnDisk ==
    /\ \A t \in Topic, b \in Builder : built[t][b] # 0 => built[t][b] <= dirs[t]
    /\ \A x \in told : x[2] <= dirs[x[1]]
    /\ \A c \in Conn : answer[c] # None =>
           /\ answer[c] \in Response
           /\ answer[c].created # 0 => answer[c].created <= dirs[answer[c].topic]

\* The Topic that New has opened is complete, and no request builds another.
LoadedAlone ==
    \A t \in Topic : topics[t] = Loaded =>
        /\ built[t][Loaded] = dirs[t]
        /\ \A b \in Conn : built[t][b] = 0
        /\ \A p \in Parts : rafts[t][p] = (IF p < built[t][Loaded] THEN Loaded ELSE Nobody)
        /\ \A c \in Conn : at[c] = "build" => Name(c) # t

\* The inductive invariant.
BrokerInv ==
    /\ TypeOK
    /\ Listens
    /\ Listed
    /\ Asked
    /\ Handlers
    /\ Stopped
    /\ OnDisk
    /\ LoadedAlone

-----------------------------------------------------------------------------
\* What a handler works on is a request with a topic, and builds at least one
\* partition and no more than the bound.
LEMMA AskTypes ==
    ASSUME TypeOK, Asked, NEW c \in Conn, stage[c] = "work"
    PROVE  /\ request[c] \in Request
           /\ Name(c) \in Topic
           /\ Target(c) \in 1..MaxParts
           /\ dirs[Name(c)] \in Absent..MaxParts
  <1>1. request[c] \in Request
    BY DEF Asked
  <1>2. Name(c) \in Topic
    BY <1>1, RequestAssumption DEF Name, Ask
  <1>3. Target(c) \in 1..MaxParts
    BY <1>1, RequestAssumption, BoundAssumption DEF Target, Ask, Wanted
  <1> QED BY <1>1, <1>2, <1>3 DEF TypeOK

\* The broker starts with nothing.
LEMMA BrokerInit ==
    ASSUME Init
    PROVE  BrokerInv
  <1> USE BuilderAssumption, BoundAssumption DEF Init, TcpInit
  <1>1. TypeOK
    <2>1. TcpTypeOK
      BY DEF TcpTypeOK
    <2>2. dirs \in [Topic -> Absent..MaxParts] /\ starts \in 0..MaxStarts
      BY DEF Absent
    <2>3. /\ topics \in [Topic -> Builder \cup {Nobody}]
          /\ built \in [Topic -> [Builder -> 0..MaxParts]]
          /\ rafts \in [Topic -> [Parts -> Builder \cup {Nobody}]]
      OBVIOUS
    <2> QED BY <2>1, <2>2, <2>3 DEF TypeOK
  <1>2. Listens /\ Listed /\ Asked /\ Handlers /\ Stopped
    BY DEF Listens, Listed, Asked, Handlers, Stopped
  <1>3. OnDisk /\ LoadedAlone
    BY DEF OnDisk, LoadedAlone, Builder
  <1> QED BY <1>1, <1>2, <1>3 DEF BrokerInv

\* Nothing happens.
LEMMA BrokerStutter ==
    ASSUME BrokerInv, UNCHANGED vars
    PROVE  BrokerInv'
  BY DEF BrokerInv, TypeOK, TcpTypeOK, Listens, Listed, Asked, Handlers, Stopped, OnDisk,
         LoadedAlone, vars, tcpVars, brokerVars, Name, Ask

\* A step of the TCP server's goroutines or of a client, outside handleRequest.
LEMMA TcpKeeps ==
    ASSUME BrokerInv, UNCHANGED brokerVars, NEW c \in Conn, ServerStep(c) \/ ClientStep(c)
    PROVE  BrokerInv'
  <1> DEFINE Rest == /\ Listens' /\ Listed' /\ Asked' /\ Handlers' /\ Stopped'
  <1> USE DEF BrokerInv, brokerVars
  <1>0. /\ TypeOK'
        /\ Rest
        /\ \A d \in Conn : answer'[d] # None => answer'[d] = answer[d]
        /\ \A d \in Conn : stage[d] = "work" => request'[d] = request[d]
    <2> USE NoneAssumption DEF TypeOK, TcpTypeOK, Listens, Listed, Asked, Handlers, Stopped
    <2>1. CASE Accept(c)
      BY <2>1 DEF Accept
    <2>2. CASE List(c)
      BY <2>2 DEF List
    <2>3. CASE Serve(c)
      BY <2>3 DEF Serve
    <2>4. CASE ReadRequest(c)
      BY <2>4 DEF ReadRequest
    <2>5. CASE WriteAnswer(c)
      BY <2>5 DEF WriteAnswer
    <2>6. CASE Leave(c)
      BY <2>6 DEF Leave
    <2>7. CASE Dial(c)
      BY <2>7 DEF Dial
    <2>8. CASE \E r \in Request : Send(c, r)
      BY <2>8 DEF Send
    <2>9. CASE ReceiveError(c)
      BY <2>9 DEF ReceiveError
    <2>10. CASE HangUp(c)
      BY <2>10 DEF HangUp
    <2>11. CASE Fill(c)
      BY <2>11 DEF Fill
    <2>12. CASE Drain(c)
      BY <2>12 DEF Drain
    <2> QED BY <2>1, <2>2, <2>3, <2>4, <2>5, <2>6, <2>7, <2>8, <2>9, <2>10, <2>11, <2>12,
               Zenon DEF ServerStep, ClientStep
  <1>1. OnDisk'
    BY <1>0 DEF OnDisk
  <1>2. LoadedAlone'
    BY <1>0 DEF LoadedAlone, Handlers, Name, Ask
  <1> QED BY <1>0, <1>1, <1>2, SMTT(40)

\* The handler of c returns a response that reports partitions there are.
LEMMA RespondKeeps ==
    ASSUME BrokerInv, UNCHANGED <<pc, dirs, topics, built, rafts, told, starts>>,
           NEW c \in Conn, NEW success \in BOOLEAN, NEW created \in 0..MaxParts,
           created # 0 => created <= dirs[Name(c)],
           Respond(c, success, created)
    PROVE  BrokerInv'
  <1> DEFINE a == [success |-> success, topic |-> Name(c), created |-> created]
  <1> USE DEF BrokerInv
  <1>1. /\ stage[c] = "work"
        /\ stage' = [stage EXCEPT ![c] = "write"]
        /\ answer' = [answer EXCEPT ![c] = a]
        /\ request' = [request EXCEPT ![c] = None]
        /\ at' = [at EXCEPT ![c] = "load"]
        /\ using' = [using EXCEPT ![c] = Nobody]
        /\ UNCHANGED <<listening, conns, open, client, unread, full, toClose>>
    BY DEF Respond, Answers, Goto
  <1>2. a \in Response /\ a \in Answer /\ a.topic = Name(c) /\ a.created = created
    BY <1>1, AskTypes, AnswerAssumption DEF Response
  <1> HIDE DEF a
  <1>3. TypeOK'
    <2>1. TcpTypeOK'
      BY <1>1, <1>2 DEF TypeOK, TcpTypeOK
    <2>2. at' \in [Conn -> {"load", "build", "use", "useNew"}]
      BY <1>1 DEF TypeOK
    <2>3. using' \in [Conn -> Builder \cup {Nobody}]
      BY <1>1 DEF TypeOK
    <2> QED BY <2>1, <2>2, <2>3 DEF TypeOK
  <1>4. Listens' /\ Listed' /\ Asked' /\ Handlers' /\ Stopped'
    <2>1. Listens' /\ Listed' /\ Stopped'
      BY <1>1 DEF Listens, Listed, Stopped, TypeOK, TcpTypeOK
    <2>2. Asked'
      BY <1>1 DEF Asked, TypeOK, TcpTypeOK
    <2>3. Handlers'
      BY <1>1 DEF Handlers, TypeOK, TcpTypeOK
    <2> QED BY <2>1, <2>2, <2>3
  <1>5. OnDisk'
    BY <1>1, <1>2 DEF OnDisk, TypeOK, TcpTypeOK
  <1>6. LoadedAlone'
    BY <1>1 DEF LoadedAlone, TypeOK, TcpTypeOK, Name, Ask
  <1> QED BY <1>3, <1>4, <1>5, <1>6

\* The handler of c goes on without touching the topics.
LEMMA GotoKeeps ==
    ASSUME BrokerInv, UNCHANGED <<pc, dirs, topics, built, rafts, told, starts, tcpVars>>,
           NEW c \in Conn, stage[c] = "work",
           NEW where \in {"load", "use", "useNew"}, Goto(c, where),
           NEW b \in Builder \cup {Nobody}, using' = [using EXCEPT ![c] = b],
           where # "load" => b \in Builder
    PROVE  BrokerInv'
  <1> USE DEF BrokerInv, Goto, tcpVars
  <1>1. TypeOK'
    BY DEF TypeOK, TcpTypeOK
  <1>2. Listens' /\ Listed' /\ Asked' /\ Handlers' /\ Stopped'
    BY DEF Listens, Listed, Asked, Handlers, Stopped, TypeOK, TcpTypeOK
  <1>3. OnDisk' /\ LoadedAlone'
    BY DEF OnDisk, LoadedAlone, Name, Ask, TypeOK
  <1> QED BY <1>1, <1>2, <1>3

\* The process ends.
LEMMA GoneKeeps ==
    ASSUME BrokerInv, Gone
    PROVE  BrokerInv'
  <1> USE BuilderAssumption, BoundAssumption, NoneAssumption DEF BrokerInv, Gone, TcpGone, Closed
  <1>1. TypeOK'
    <2>1. TcpTypeOK'
      BY DEF TypeOK, TcpTypeOK
    <2>2. /\ topics' \in [Topic -> Builder \cup {Nobody}]
          /\ built' \in [Topic -> [Builder -> 0..MaxParts]]
          /\ rafts' \in [Topic -> [Parts -> Builder \cup {Nobody}]]
      OBVIOUS
    <2> QED BY <2>1, <2>2 DEF TypeOK
  <1>2. Listens' /\ Listed' /\ Handlers' /\ Stopped'
    BY DEF Listens, Listed, Handlers, Stopped, TypeOK, TcpTypeOK
  <1>3. Asked'
    BY DEF Asked, TypeOK, TcpTypeOK
  <1>4. OnDisk'
    BY DEF OnDisk, TypeOK, TcpTypeOK
  <1>5. LoadedAlone'
    BY DEF LoadedAlone, Builder
  <1> QED BY <1>1, <1>2, <1>3, <1>4, <1>5

\* New opens what the directories say.
LEMMA NewKeeps ==
    ASSUME BrokerInv, New
    PROVE  BrokerInv'
  <1> USE DEF BrokerInv
  <1>1. \A t \in Topic :
            /\ dirs[t] \in Absent..MaxParts
            /\ LoadedParts(t) \in 0..MaxParts
            /\ dirs'[t] \in Absent..MaxParts
            /\ dirs'[t] >= dirs[t]
            /\ dirs[t] = Absent => dirs'[t] = Absent /\ LoadedParts(t) = 0 /\ topics'[t] = Nobody
            /\ dirs[t] # Absent => LoadedParts(t) = dirs'[t]
    BY BoundAssumption DEF New, LoadedParts, Wanted, Absent, TypeOK
  <1>2. \A t \in Topic, b \in Builder :
            built'[t][b] = IF b = Loaded THEN LoadedParts(t) ELSE 0
    BY DEF New
  <1>3. \A t \in Topic, p \in Parts :
            rafts'[t][p] = IF p < LoadedParts(t) THEN Loaded ELSE Nobody
    BY DEF New
  <1>4. \A c \in Conn : stage[c] # "work" /\ at[c] = "load"
    BY DEF New, Stopped, Handlers
  <1>5. TypeOK'
    <2>1. TcpTypeOK'
      BY DEF New, TypeOK, TcpTypeOK
    <2>2. dirs' \in [Topic -> Absent..MaxParts] /\ starts' \in 0..MaxStarts
      <3>1. dirs' = [t \in Topic |-> dirs'[t]]
        BY DEF New
      <3>2. starts' \in 0..MaxStarts
        BY BoundAssumption DEF New, TypeOK
      <3> QED BY <1>1, <3>1, <3>2
    <2>3. topics' \in [Topic -> Builder \cup {Nobody}]
      BY DEF New, Builder
    <2>4. built' \in [Topic -> [Builder -> 0..MaxParts]]
      BY <1>1, BoundAssumption DEF New
    <2>5. rafts' \in [Topic -> [Parts -> Builder \cup {Nobody}]]
      BY DEF New, Builder
    <2> QED BY <2>1, <2>2, <2>3, <2>4, <2>5 DEF TypeOK, New
  <1>6. Listens' /\ Listed' /\ Asked' /\ Handlers' /\ Stopped'
    BY <1>4 DEF New, Listens, Listed, Asked, Handlers, Stopped
  <1>7. OnDisk'
    <2>1. \A t \in Topic, b \in Builder : built'[t][b] # 0 => built'[t][b] <= dirs'[t]
      BY <1>1, <1>2 DEF Absent
    <2>2. \A x \in told : x[2] <= dirs'[x[1]]
      <3> SUFFICES ASSUME NEW x \in told
                   PROVE  x[2] <= dirs'[x[1]]
        OBVIOUS
      <3>1. x[1] \in Topic /\ x[2] \in 1..MaxParts /\ x[2] <= dirs[x[1]]
        BY DEF TypeOK, OnDisk
      <3> QED BY <1>1, <3>1, BoundAssumption DEF Absent
    <2>3. \A c \in Conn : answer[c] # None /\ answer[c].created # 0 =>
              answer[c].created <= dirs'[answer[c].topic]
      <3> SUFFICES ASSUME NEW c \in Conn, answer[c] # None, answer[c].created # 0
                   PROVE  answer[c].created <= dirs'[answer[c].topic]
        OBVIOUS
      <3>1. /\ answer[c].topic \in Topic
            /\ answer[c].created \in 0..MaxParts
            /\ answer[c].created <= dirs[answer[c].topic]
        BY DEF OnDisk, Response
      <3> QED BY <1>1, <3>1, BoundAssumption DEF Absent
    <2> QED BY <2>1, <2>2, <2>3 DEF OnDisk, New
  <1>8. LoadedAlone'
    <2> SUFFICES ASSUME NEW t \in Topic, topics'[t] = Loaded
                 PROVE  /\ built'[t][Loaded] = dirs'[t]
                        /\ \A b \in Conn : built'[t][b] = 0
                        /\ \A p \in Parts : rafts'[t][p] =
                               (IF p < built'[t][Loaded] THEN Loaded ELSE Nobody)
                        /\ \A c \in Conn : at'[c] = "build" => Name(c)' # t
      BY DEF LoadedAlone
    <2>1. dirs[t] # Absent
      BY <1>1, BuilderAssumption DEF Builder
    <2>2. built'[t][Loaded] = LoadedParts(t) /\ \A b \in Conn : built'[t][b] = 0
      BY <1>2, BuilderAssumption DEF Builder
    <2> QED BY <1>1, <1>3, <1>4, <2>1, <2>2 DEF New
  <1> QED BY <1>5, <1>6, <1>7, <1>8

\* A client is told of a creation whose directories are there.
LEMMA ToldKeeps ==
    ASSUME BrokerInv, NEW c \in Conn, Told(c)
    PROVE  BrokerInv'
  <1> USE DEF BrokerInv
  <1>1. /\ answer[c] # None
        /\ answer[c] \in Response
        /\ answer[c].topic \in Topic
        /\ answer[c].created \in 0..MaxParts
        /\ answer[c].created # 0 => answer[c].created <= dirs[answer[c].topic]
    BY DEF Told, ReceiveAnswer, OnDisk, Response
  <1>2. told' \subseteq told \cup {<<answer[c].topic, answer[c].created>>}
        /\ (answer[c].created = 0 => told' = told)
    BY DEF Told
  <1>3. TypeOK'
    <2>1. TcpTypeOK'
      BY DEF Told, ReceiveAnswer, TypeOK, TcpTypeOK
    <2>2. told' \subseteq Topic \X (1..MaxParts)
      BY <1>1, <1>2, BoundAssumption DEF TypeOK
    <2> QED BY <2>1, <2>2 DEF Told, TypeOK
  <1>4. Listens' /\ Listed' /\ Asked' /\ Handlers' /\ Stopped'
    BY DEF Told, ReceiveAnswer, Listens, Listed, Asked, Handlers, Stopped, TypeOK, TcpTypeOK
  <1>5. OnDisk'
    <2>1. \A x \in told' : x[2] <= dirs[x[1]]
      BY <1>1, <1>2 DEF OnDisk
    <2>2. \A d \in Conn : answer'[d] # None => answer'[d] = answer[d]
      BY DEF Told, ReceiveAnswer, TypeOK, TcpTypeOK
    <2> QED BY <2>1, <2>2 DEF OnDisk, Told
  <1>6. LoadedAlone'
    BY DEF Told, ReceiveAnswer, LoadedAlone, Name, Ask
  <1> QED BY <1>3, <1>4, <1>5, <1>6

\* NewTopic begins: there is no topic of that name.
LEMMA LoadMissesKeeps ==
    ASSUME BrokerInv, NEW c \in Conn, LoadMisses(c)
    PROVE  BrokerInv'
  <1> DEFINE t == Name(c)
  <1> USE DEF BrokerInv
  <1>1. /\ stage[c] = "work"
        /\ topics[t] = Nobody
        /\ at' = [at EXCEPT ![c] = "build"]
        /\ dirs' = [dirs EXCEPT ![t] = IF @ = Absent THEN 0 ELSE @]
        /\ UNCHANGED <<pc, topics, built, rafts, using, told, starts>>
        /\ UNCHANGED <<listening, conns, stage, open, client, request, unread, answer, full, toClose>>
    BY DEF LoadMisses, Handling, Goto, tcpVars
  <1>2. t \in Topic
    BY <1>1, AskTypes
  <1>3. \A u \in Topic : /\ dirs[u] \in Absent..MaxParts
                         /\ dirs'[u] \in Absent..MaxParts
                         /\ dirs'[u] >= dirs[u]
                         /\ u # t => dirs'[u] = dirs[u]
    BY <1>1, <1>2, BoundAssumption DEF TypeOK, Absent
  <1>4. \A d \in Conn : Name(d)' = Name(d)
    BY <1>1 DEF Name, Ask
  <1>5. TypeOK'
    <2>1. TcpTypeOK'
      BY <1>1 DEF TypeOK, TcpTypeOK
    <2>2. dirs' \in [Topic -> Absent..MaxParts]
      BY <1>1, <1>2, <1>3, BoundAssumption DEF TypeOK
    <2>3. at' \in [Conn -> {"load", "build", "use", "useNew"}]
      BY <1>1 DEF TypeOK
    <2> QED BY <1>1, <2>1, <2>2, <2>3 DEF TypeOK
  <1>6. Listens' /\ Listed' /\ Asked' /\ Handlers' /\ Stopped'
    BY <1>1 DEF Listens, Listed, Asked, Handlers, Stopped, TypeOK
  <1>7. OnDisk'
    <2>1. \A u \in Topic, b \in Builder : built[u][b] # 0 => built[u][b] <= dirs'[u]
      BY <1>3, BoundAssumption DEF OnDisk, TypeOK, Absent
    <2>2. \A x \in told : x[2] <= dirs'[x[1]]
      BY <1>3, BoundAssumption DEF OnDisk, TypeOK, Absent
    <2>3. \A d \in Conn : answer[d] # None /\ answer[d].created # 0 =>
              answer[d].created <= dirs'[answer[d].topic]
      BY <1>3, BoundAssumption DEF OnDisk, Response, Absent
    <2> QED BY <1>1, <2>1, <2>2, <2>3 DEF OnDisk
  <1>8. LoadedAlone'
    <2> SUFFICES ASSUME NEW u \in Topic, topics[u] = Loaded
                 PROVE  /\ built[u][Loaded] = dirs'[u]
                        /\ \A d \in Conn : at'[d] = "build" => Name(d) # u
      BY <1>1, <1>4 DEF LoadedAlone
    <2>1. u # t
      BY <1>1, BuilderAssumption DEF Builder
    <2> QED BY <1>1, <1>3, <2>1 DEF LoadedAlone, TypeOK
  <1> QED BY <1>5, <1>6, <1>7, <1>8

\* One more partition of a Topic that a request builds.
LEMMA PartitionKeeps ==
    ASSUME BrokerInv, NEW c \in Conn, newPartition(c)
    PROVE  BrokerInv'
  <1> DEFINE t == Name(c)
             p == built[t][c]
  <1> USE DEF BrokerInv
  <1>1. /\ stage[c] = "work" /\ at[c] = "build"
        /\ p < Target(c)
        /\ dirs' = [dirs EXCEPT ![t] = Grow(@, p)]
        /\ rafts' = [rafts EXCEPT ![t][p] = c]
        /\ built' = [built EXCEPT ![t][c] = p + 1]
        /\ UNCHANGED <<pc, topics, at, using, told, starts>>
        /\ UNCHANGED <<listening, conns, stage, open, client, request, unread, answer, full, toClose>>
    BY DEF newPartition, Handling, tcpVars
  <1>2. t \in Topic /\ Target(c) \in 1..MaxParts /\ c \in Builder
    BY <1>1, AskTypes DEF Builder
  <1>3. p \in Nat /\ p \in Parts /\ p + 1 \in 1..MaxParts
    BY <1>1, <1>2, BoundAssumption DEF TypeOK, Parts
  <1>4. \A u \in Topic : /\ dirs[u] \in Absent..MaxParts
                         /\ dirs'[u] \in Absent..MaxParts
                         /\ dirs'[u] >= dirs[u]
                         /\ u # t => dirs'[u] = dirs[u]
    BY <1>1, <1>2, <1>3, BoundAssumption DEF TypeOK, Absent, Grow
  <1>5. dirs'[t] >= p + 1
    BY <1>1, <1>2, <1>3, BoundAssumption DEF TypeOK, Absent, Grow
  <1>6. \A u \in Topic, b \in Builder :
            built'[u][b] = IF u = t /\ b = c THEN p + 1 ELSE built[u][b]
    BY <1>1, <1>2 DEF TypeOK
  <1>7. \A d \in Conn : Name(d)' = Name(d)
    BY <1>1 DEF Name, Ask
  <1>8. TypeOK'
    <2>1. TcpTypeOK'
      BY <1>1 DEF TypeOK, TcpTypeOK
    <2>2. dirs' \in [Topic -> Absent..MaxParts]
      BY <1>1, <1>2, <1>4, BoundAssumption DEF TypeOK
    <2>3. built' \in [Topic -> [Builder -> 0..MaxParts]]
      <3>1. \A x \in 0..MaxParts : [built[t] EXCEPT ![c] = x] \in [Builder -> 0..MaxParts]
        BY <1>2 DEF TypeOK
      <3>2. [built[t] EXCEPT ![c] = p + 1] \in [Builder -> 0..MaxParts]
        BY <1>3, <3>1, BoundAssumption
      <3> QED BY <1>1, <1>2, <3>2 DEF TypeOK
    <2>4. rafts' \in [Topic -> [Parts -> Builder \cup {Nobody}]]
      <3>1. [rafts[t] EXCEPT ![p] = c] \in [Parts -> Builder \cup {Nobody}]
        BY <1>2, <1>3 DEF TypeOK
      <3> QED BY <1>1, <1>2, <3>1 DEF TypeOK
    <2> QED BY <1>1, <2>1, <2>2, <2>3, <2>4 DEF TypeOK
  <1>9. Listens' /\ Listed' /\ Asked' /\ Handlers' /\ Stopped'
    BY <1>1 DEF Listens, Listed, Asked, Handlers, Stopped
  <1>10. OnDisk'
    <2>1. \A u \in Topic, b \in Builder : built'[u][b] # 0 => built'[u][b] <= dirs'[u]
      <3> HIDE DEF p
      <3> QED BY <1>3, <1>4, <1>5, <1>6, BoundAssumption, SMTT(40) DEF OnDisk, TypeOK, Absent
    <2>2. \A x \in told : x[2] <= dirs'[x[1]]
      BY <1>4, BoundAssumption DEF OnDisk, TypeOK, Absent
    <2>3. \A d \in Conn : answer[d] # None /\ answer[d].created # 0 =>
              answer[d].created <= dirs'[answer[d].topic]
      BY <1>4, BoundAssumption DEF OnDisk, Response, Absent
    <2> QED BY <1>1, <2>1, <2>2, <2>3 DEF OnDisk
  <1>11. LoadedAlone'
    <2> SUFFICES ASSUME NEW u \in Topic, topics[u] = Loaded
                 PROVE  /\ built'[u][Loaded] = dirs'[u]
                        /\ \A b \in Conn : built'[u][b] = 0
                        /\ \A q \in Parts : rafts'[u][q] =
                               (IF q < built'[u][Loaded] THEN Loaded ELSE Nobody)
                        /\ \A d \in Conn : at[d] = "build" => Name(d) # u
      BY <1>1, <1>7 DEF LoadedAlone
    <2>1. u # t
      BY <1>1 DEF LoadedAlone
    <2>2. built'[u] = built[u] /\ rafts'[u] = rafts[u] /\ dirs'[u] = dirs[u]
      BY <1>1, <1>2, <2>1 DEF TypeOK
    <2> QED BY <2>2 DEF LoadedAlone
  <1> QED BY <1>8, <1>9, <1>10, <1>11

\* A Topic that a request has built gets into the map, or finds another there.
LEMMA LoadOrStoreKeeps ==
    ASSUME BrokerInv, NEW c \in Conn, LoadOrStore(c)
    PROVE  BrokerInv'
  <1> DEFINE t == Name(c)
  <1> USE DEF BrokerInv
  <1>1. /\ stage[c] = "work" /\ at[c] = "build"
        /\ topics' = [topics EXCEPT ![t] = IF @ = Nobody THEN c ELSE @]
        /\ using' = [using EXCEPT ![c] = topics'[t]]
        /\ at' = [at EXCEPT ![c] = "useNew"]
        /\ UNCHANGED <<pc, dirs, built, rafts, told, starts>>
        /\ UNCHANGED <<listening, conns, stage, open, client, request, unread, answer, full, toClose>>
    BY DEF LoadOrStore, Handling, Goto, tcpVars
  <1>2. t \in Topic
    BY <1>1, AskTypes
  <1>3. /\ topics' \in [Topic -> Builder \cup {Nobody}]
        /\ topics'[t] \in Builder
        /\ \A u \in Topic : topics'[u] = Loaded => topics[u] = Loaded
    BY <1>1, <1>2, BuilderAssumption DEF TypeOK, Builder
  <1>4. TypeOK'
    <2>1. TcpTypeOK'
      BY <1>1 DEF TypeOK, TcpTypeOK
    <2>2. at' \in [Conn -> {"load", "build", "use", "useNew"}]
      BY <1>1 DEF TypeOK
    <2>3. using' \in [Conn -> Builder \cup {Nobody}]
      BY <1>1, <1>3 DEF TypeOK
    <2> QED BY <1>1, <1>3, <2>1, <2>2, <2>3 DEF TypeOK
  <1>5. Listens' /\ Listed' /\ Asked' /\ Handlers' /\ Stopped'
    BY <1>1, <1>3 DEF Listens, Listed, Asked, Handlers, Stopped, TypeOK
  <1>6. OnDisk'
    BY <1>1 DEF OnDisk
  <1>7. LoadedAlone'
    <2>1. \A d \in Conn : at'[d] = "build" => at[d] = "build"
      BY <1>1 DEF TypeOK
    <2>2. \A d \in Conn : Name(d)' = Name(d)
      BY <1>1 DEF Name, Ask
    <2> QED BY <1>1, <1>3, <2>1, <2>2 DEF LoadedAlone
  <1> QED BY <1>4, <1>5, <1>6, <1>7

\* CreateTopic puts its Topic into the map and reports its partitions.
LEMMA StoreKeeps ==
    ASSUME BrokerInv, NEW c \in Conn, Store(c)
    PROVE  BrokerInv'
  <1> DEFINE t == Name(c)
             a == [success |-> TRUE, topic |-> t, created |-> Target(c)]
  <1> USE DEF BrokerInv
  <1>1. /\ stage[c] = "work" /\ at[c] = "build"
        /\ built[t][c] = Target(c)
        /\ topics' = [topics EXCEPT ![t] = c]
        /\ stage' = [stage EXCEPT ![c] = "write"]
        /\ answer' = [answer EXCEPT ![c] = a]
        /\ request' = [request EXCEPT ![c] = None]
        /\ at' = [at EXCEPT ![c] = "load"]
        /\ using' = [using EXCEPT ![c] = Nobody]
        /\ UNCHANGED <<listening, conns, open, client, unread, full, toClose>>
        /\ UNCHANGED <<pc, dirs, built, rafts, told, starts>>
    BY DEF Store, Handling, Respond, Answers, Goto
  <1>2. t \in Topic /\ Target(c) \in 1..MaxParts /\ c \in Builder /\ c # Loaded
    BY <1>1, AskTypes, BuilderAssumption DEF Builder
  <1>3. Target(c) <= dirs[t]
    BY <1>1, <1>2, BoundAssumption DEF OnDisk
  <1>4. a \in Response /\ a \in Answer /\ a.topic = t /\ a.created = Target(c)
    <2>1. Target(c) \in 0..MaxParts
      BY <1>2, BoundAssumption
    <2>2. a \in Response
      BY <1>2, <2>1 DEF Response
    <2> QED BY <2>2, AnswerAssumption
  <1> HIDE DEF a
  <1>5. /\ topics' \in [Topic -> Builder \cup {Nobody}]
        /\ \A u \in Topic : topics'[u] = Loaded => topics[u] = Loaded
    BY <1>1, <1>2 DEF TypeOK
  <1>6. TypeOK'
    <2>1. TcpTypeOK'
      BY <1>1, <1>4 DEF TypeOK, TcpTypeOK
    <2>2. at' \in [Conn -> {"load", "build", "use", "useNew"}]
      BY <1>1 DEF TypeOK
    <2>3. using' \in [Conn -> Builder \cup {Nobody}]
      BY <1>1 DEF TypeOK
    <2> QED BY <1>1, <1>5, <2>1, <2>2, <2>3 DEF TypeOK
  <1>7. Listens' /\ Listed' /\ Asked' /\ Handlers' /\ Stopped'
    <2>1. Listens' /\ Listed' /\ Stopped'
      BY <1>1 DEF Listens, Listed, Stopped, TypeOK, TcpTypeOK
    <2>2. Asked'
      BY <1>1 DEF Asked, TypeOK, TcpTypeOK
    <2>3. Handlers'
      BY <1>1 DEF Handlers, TypeOK, TcpTypeOK
    <2> QED BY <2>1, <2>2, <2>3
  <1>8. OnDisk'
    BY <1>1, <1>3, <1>4 DEF OnDisk, TypeOK, TcpTypeOK
  <1>9. LoadedAlone'
    BY <1>1, <1>5 DEF LoadedAlone, Name, Ask, TypeOK, TcpTypeOK
  <1> QED BY <1>6, <1>7, <1>8, <1>9

\* A step of handleRequest.
LEMMA HandleKeeps ==
    ASSUME BrokerInv, NEW c \in Conn, HandleStep(c)
    PROVE  BrokerInv'
  <1> USE BoundAssumption
  <1>0. 0 \in 0..MaxParts
    OBVIOUS
  <1>1. CASE Refuse(c)
    BY <1>0, <1>1, RespondKeeps DEF Refuse
  <1>2. CASE StopConsuming(c)
    BY <1>0, <1>2, RespondKeeps DEF StopConsuming
  <1>3. CASE LoadFinds(c)
    <2>1. CASE Respond(c, FALSE, 0)
      BY <1>0, <1>3, <2>1, RespondKeeps DEF LoadFinds
    <2>2. CASE Goto(c, "use") /\ using' = [using EXCEPT ![c] = topics[Name(c)]] /\ UNCHANGED tcpVars
      <3>1. stage[c] = "work" /\ UNCHANGED <<pc, dirs, topics, built, rafts, told, starts, tcpVars>>
        BY <1>3, <2>2 DEF LoadFinds, Handling
      <3>2. Name(c) \in Topic
        BY <3>1, AskTypes DEF BrokerInv
      <3>3. topics[Name(c)] \in Builder
        BY <1>3, <3>2 DEF BrokerInv, TypeOK, LoadFinds
      <3> QED BY <2>2, <3>1, <3>3, GotoKeeps
    <2> QED BY <1>3, <2>1, <2>2 DEF LoadFinds
  <1>4. CASE LoadMisses(c)
    BY <1>4, LoadMissesKeeps
  <1>5. CASE newPartition(c)
    BY <1>5, PartitionKeeps
  <1>6. CASE newPartitionFails(c)
    BY <1>0, <1>6, RespondKeeps DEF newPartitionFails
  <1>7. CASE LoadOrStore(c)
    BY <1>7, LoadOrStoreKeeps
  <1>8. CASE Store(c)
    BY <1>8, StoreKeeps
  <1>9. CASE \E accepted \in BOOLEAN : AppendRecord(c, accepted)
    BY <1>0, <1>9, RespondKeeps DEF AppendRecord
  <1>10. CASE ConsumeFinds(c)
    BY <1>0, <1>10, RespondKeeps DEF ConsumeFinds
  <1>11. CASE ConsumeAgain(c)
    <2>1. /\ stage[c] = "work" /\ Goto(c, "load")
          /\ using' = [using EXCEPT ![c] = Nobody]
          /\ UNCHANGED <<pc, dirs, topics, built, rafts, told, starts, tcpVars>>
      BY <1>11 DEF ConsumeAgain, Reads
    <2> QED BY <2>1, GotoKeeps
  <1>12. CASE UseFails(c)
    BY <1>12, GoneKeeps DEF UseFails
  <1> QED BY <1>1, <1>2, <1>3, <1>4, <1>5, <1>6, <1>7, <1>8, <1>9, <1>10, <1>11, <1>12
          DEF HandleStep

\* A step of main and Shutdown before the process ends.
LEMMA ShutdownKeeps ==
    ASSUME BrokerInv,
           Cancel \/ CloseListener \/ LockConns \/ (\E c \in Conn : CloseConn(c)) \/ WaitReturns
    PROVE  BrokerInv'
  <1> USE DEF BrokerInv
  <1>0. UNCHANGED <<dirs, topics, built, rafts, at, using, told, starts>>
    BY DEF Cancel, CloseListener, LockConns, CloseConn, WaitReturns, brokerVars
  <1>1. /\ TypeOK'
        /\ Listens' /\ Listed' /\ Asked' /\ Handlers' /\ Stopped'
        /\ answer' = answer
        /\ \A c \in Conn : stage[c] = "work" => request'[c] = request[c]
    <2> USE <1>0 DEF TypeOK, TcpTypeOK, Listens, Listed, Asked, Handlers, Stopped
    <2>1. CASE Cancel
      BY <2>1 DEF Cancel, tcpVars
    <2>2. CASE CloseListener
      BY <2>2 DEF CloseListener, closeListener, Closed
    <2>3. CASE LockConns
      BY <2>3 DEF LockConns, lockConns
    <2>4. ASSUME NEW c \in Conn, CloseConn(c)
          PROVE  /\ TypeOK'
                 /\ Listens' /\ Listed' /\ Asked' /\ Handlers' /\ Stopped'
                 /\ answer' = answer /\ request' = request
      BY <2>4 DEF CloseConn, closeConn, Closed, brokerVars
    <2>5. CASE WaitReturns
      BY <2>5 DEF WaitReturns, Waited, Locked, tcpVars
    <2> QED BY <2>1, <2>2, <2>3, <2>4, <2>5
  <1>2. OnDisk'
    BY <1>0, <1>1 DEF OnDisk
  <1>3. LoadedAlone'
    BY <1>0, <1>1 DEF LoadedAlone, Handlers, Name, Ask
  <1> QED BY <1>1, <1>2, <1>3

-----------------------------------------------------------------------------
\* Every step of the broker keeps the invariant.
LEMMA BrokerStep ==
    ASSUME BrokerInv, [Next]_vars
    PROVE  BrokerInv'
  <1>1. CASE New
    BY <1>1, NewKeeps
  <1>2. CASE \E c \in Conn : ServerStep(c) /\ UNCHANGED brokerVars
    BY <1>2, TcpKeeps
  <1>3. CASE \E c \in Conn : ClientStep(c) /\ UNCHANGED brokerVars
    BY <1>3, TcpKeeps
  <1>4. CASE \E c \in Conn : Told(c)
    BY <1>4, ToldKeeps
  <1>5. CASE \E c \in Conn : HandleStep(c)
    BY <1>5, HandleKeeps
  <1>6. CASE Cancel
    BY <1>6, ShutdownKeeps
  <1>7. CASE ShutdownStep
    BY <1>7, ShutdownKeeps, GoneKeeps DEF ShutdownStep, Exit
  <1>8. CASE Crash
    BY <1>8, GoneKeeps DEF Crash
  <1>9. CASE UNCHANGED vars
    BY <1>9, BrokerStutter
  <1> QED BY <1>1, <1>2, <1>3, <1>4, <1>5, <1>6, <1>7, <1>8, <1>9 DEF Next

\* The inductive invariant of the broker and its TCP server, for every number
\* of connections, topics, partitions and restarts.
THEOREM BrokerInvariant == Spec => []BrokerInv
  <1>1. Init => BrokerInv
    BY BrokerInit
  <1>2. BrokerInv /\ [Next]_vars => BrokerInv'
    BY BrokerStep
  <1> QED BY <1>1, <1>2, PTL DEF Spec

\* Every variable has the type of the field it stands for: no interleaving of
\* handlers, clients, Shutdown and crashes builds more partitions than were
\* asked for or registers one the topic does not have.
THEOREM BrokerTypeCorrect == Spec => []TypeOK
  <1>1. BrokerInv => TypeOK
    BY DEF BrokerInv
  <1> QED BY <1>1, BrokerInvariant, PTL

\* The Topic that New opens stays the only one of its name, registered for all
\* of its partitions and with all partitions clients were told of
\* (broker.go:55-78, 95-129, 146-159).
THEOREM LoadedTopicStaysTheOne == Spec => []LoadedTopicIsTheOne
  <1>1. BrokerInv => LoadedTopicIsTheOne
    <2> SUFFICES ASSUME BrokerInv, NEW t \in Topic, topics[t] = Loaded,
                        NEW n \in 1..MaxParts, <<t, n>> \in told
                 PROVE  n <= built[t][Loaded]
      BY DEF BrokerInv, LoadedAlone, LoadedTopicIsTheOne
    <2> DEFINE x == <<t, n>>
    <2>1. x \in told /\ x[1] = t /\ x[2] = n
      OBVIOUS
    <2>2. x[2] <= dirs[x[1]]
      BY <2>1 DEF BrokerInv, OnDisk
    <2>3. built[t][Loaded] = dirs[t]
      BY DEF BrokerInv, LoadedAlone
    <2> QED BY <2>1, <2>2, <2>3
  <1> QED BY <1>1, BrokerInvariant, PTL

\* Shutdown closes the topics only when no request is being handled on a
\* connection that was listed when the server closed its connections
\* (broker.go:131-135, tcp.go:109-119).
THEOREM HandlersEndBeforeClose == Spec => []HandledBeforeClose
  <1>1. BrokerInv => HandledBeforeClose
    BY DEF BrokerInv, Stopped, Listed, HandledBeforeClose, Late
  <1> QED BY <1>1, BrokerInvariant, PTL
=============================================================================
