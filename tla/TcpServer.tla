------------------------------ MODULE TcpServer ------------------------------
(***************************************************************************)
(* The broker's TCP server, broker/tcp.go, and the client's end of its     *)
(* connections, client/client.go.  One goroutine accepts, and one per      *)
(* connection reads a request, has it handled and writes the answer.       *)
(* TCPServer.close runs beside them: it closes the listener, and then,     *)
(* holding the mutex, writes a notice to every connection in conns and     *)
(* closes it.                                                              *)
(*                                                                         *)
(* No write has a deadline.  Once the socket buffers of a connection are   *)
(* full, the handler's write and the notice of close wait for the client   *)
(* to read or to leave, and close keeps the mutex while it waits.          *)
(*                                                                         *)
(* What a request does is not said here: the handler is the state "work",  *)
(* which a module that extends this one leaves with an answer.  Length and *)
(* body of a message are one write: the notice, which has no length, never *)
(* decodes as an answer, whether it comes before, between or behind them.  *)
(* A connection is dialled once and carries one request.                   *)
(***************************************************************************)
EXTENDS Naturals, FiniteSets

CONSTANTS Conn,       \* connections
          Request,    \* what a client may ask
          Answer,     \* what a handler may answer
          None        \* no request, no answer

ASSUME ConnAssumption == IsFiniteSet(Conn)
ASSUME NoneAssumption == None \notin Request \cup Answer

VARIABLES listening,  \* ln accepts connections
          conns,      \* TCPServer.conns
          stage,      \* connection -> where StartServer or its handler is
          open,       \* the connections the server has not closed
          client,     \* connection -> where TCPClient is with it
          request,    \* connection -> what its client asks, until it is answered
          unread,     \* the connections whose request the handler has not read
          answer,     \* connection -> what the handler has answered
          full,       \* the connections that take no more until the client reads
          toClose     \* what close has yet to walk over; it holds mu until then

tcpVars == <<listening, conns, stage, open, client, request, unread, answer, full, toClose>>

\* mu is held across steps by close alone.
Locked == toClose # {}

\* The handlers counted in TCPServer.wg.
Waited == {c \in Conn : stage[c] \in {"read", "work", "write"}}

TcpInit ==
    /\ listening = FALSE
    /\ conns = {}
    /\ stage = [c \in Conn |-> "none"]
    /\ open = {}
    /\ client = [c \in Conn |-> "none"]
    /\ request = [c \in Conn |-> None]
    /\ unread = {}
    /\ answer = [c \in Conn |-> None]
    /\ full = {}
    /\ toClose = {}

-----------------------------------------------------------------------------
(***************************************************************************)
(* The client: NewTCPClient, send, and hanging up; and how much of the     *)
(* answer fits in between.                                                 *)
(***************************************************************************)
\* net.Dial: the kernel completes the connection, Accept has yet to return it.
Dial(c) ==
    /\ listening
    /\ stage[c] = "none"
    /\ stage' = [stage EXCEPT ![c] = "backlog"]
    /\ open' = open \cup {c}
    /\ client' = [client EXCEPT ![c] = "idle"]
    /\ UNCHANGED <<listening, conns, request, unread, answer, full, toClose>>

\* send, up to the first read of the answer.
Send(c, r) ==
    /\ client[c] = "idle"
    /\ c \in open
    /\ client' = [client EXCEPT ![c] = "waiting"]
    /\ request' = [request EXCEPT ![c] = r]
    /\ unread' = unread \cup {c}
    /\ UNCHANGED <<listening, conns, stage, open, answer, full, toClose>>

\* The rest of send: the whole answer has been written, and is read.
ReceiveAnswer(c) ==
    /\ client[c] = "waiting"
    /\ stage[c] # "write" /\ answer[c] # None
    /\ client' = [client EXCEPT ![c] = "served"]
    /\ answer' = [answer EXCEPT ![c] = None]
    /\ full' = full \ {c}
    /\ UNCHANGED <<listening, conns, stage, open, request, unread, toClose>>

\* The server has closed the connection: a write, ReadFull or Unmarshal
\* returns an error.  An answer that was on the way may be lost.
ReceiveError(c) ==
    /\ client[c] \in {"idle", "waiting"}
    /\ c \notin open
    /\ client' = [client EXCEPT ![c] = "served"]
    /\ answer' = [answer EXCEPT ![c] = IF stage[c] = "write" THEN @ ELSE None]
    /\ UNCHANGED <<listening, conns, stage, open, request, unread, full, toClose>>

\* The client's process ends, in the middle of a call or not.  A write that
\* was waiting for it returns.
HangUp(c) ==
    /\ client[c] \in {"idle", "waiting", "served"}
    /\ client' = [client EXCEPT ![c] = "left"]
    /\ answer' = [answer EXCEPT ![c] = IF stage[c] = "write" THEN @ ELSE None]
    /\ full' = full \ {c}
    /\ UNCHANGED <<listening, conns, stage, open, request, unread, toClose>>

\* The answer does not fit into the socket buffers, or leaves no room there
\* for the notice of close, and the client has not begun to read it.
Fill(c) ==
    /\ client[c] = "waiting" /\ c \in open
    /\ stage[c] \in {"read", "write"} /\ answer[c] # None
    /\ c \notin full
    /\ full' = full \cup {c}
    /\ UNCHANGED <<listening, conns, stage, open, client, request, unread, answer, toClose>>

\* The client reads until the rest of the answer fits: WriteFull returns.
Drain(c) ==
    /\ client[c] = "waiting"
    /\ stage[c] = "write" /\ c \in full
    /\ stage' = [stage EXCEPT ![c] = "read"]
    /\ full' = full \ {c}
    /\ UNCHANGED <<listening, conns, open, client, request, unread, answer, toClose>>

-----------------------------------------------------------------------------
(***************************************************************************)
(* StartServer: accept, list under the mutex, count and start the handler. *)
(***************************************************************************)
Accept(c) ==
    /\ listening
    /\ stage[c] = "backlog"
    /\ \A d \in Conn : stage[d] \notin {"accepted", "listed"}
    /\ stage' = [stage EXCEPT ![c] = "accepted"]
    /\ UNCHANGED <<listening, conns, open, client, request, unread, answer, full, toClose>>

List(c) ==
    /\ stage[c] = "accepted"
    /\ ~Locked
    /\ stage' = [stage EXCEPT ![c] = "listed"]
    /\ conns' = conns \cup {c}
    /\ UNCHANGED <<listening, open, client, request, unread, answer, full, toClose>>

\* wg.Add(1) and the go statement.
Serve(c) ==
    /\ stage[c] = "listed"
    /\ stage' = [stage EXCEPT ![c] = "read"]
    /\ UNCHANGED <<listening, conns, open, client, request, unread, answer, full, toClose>>

-----------------------------------------------------------------------------
(***************************************************************************)
(* handleConnection.                                                       *)
(***************************************************************************)
\* A request that has arrived is read even when its client has left.
ReadRequest(c) ==
    /\ stage[c] = "read"
    /\ c \in open /\ c \in unread
    /\ stage' = [stage EXCEPT ![c] = "work"]
    /\ unread' = unread \ {c}
    /\ UNCHANGED <<listening, conns, open, client, request, answer, full, toClose>>

\* The handler returns a response.
Answers(c, a) ==
    /\ stage[c] = "work"
    /\ stage' = [stage EXCEPT ![c] = "write"]
    /\ answer' = [answer EXCEPT ![c] = a]
    /\ request' = [request EXCEPT ![c] = None]
    /\ UNCHANGED <<listening, conns, open, client, unread, full, toClose>>

\* WriteFull, twice: each returns when all of it is in the socket buffers.
WriteAnswer(c) ==
    /\ stage[c] = "write"
    /\ c \in open /\ c \notin full
    /\ stage' = [stage EXCEPT ![c] = "read"]
    /\ answer' = [answer EXCEPT ![c] = IF client[c] = "waiting" THEN @ ELSE None]
    /\ UNCHANGED <<listening, conns, open, client, request, unread, full, toClose>>

\* A read or a write returns an error, because the server has closed the
\* connection or the client has left, perhaps with a part of its request
\* unsent.  The deferred function takes the connection off conns, under the
\* mutex, and closes it, and the handler is done.
Leave(c) ==
    /\ stage[c] \in {"read", "write"}
    /\ ~Locked
    /\ c \notin open \/ client[c] = "left"
    /\ stage' = [stage EXCEPT ![c] = "done"]
    /\ conns' = conns \ {c}
    /\ open' = open \ {c}
    /\ unread' = unread \ {c}
    /\ request' = [request EXCEPT ![c] = None]
    /\ answer' = [answer EXCEPT ![c] = IF stage[c] = "write" THEN None ELSE @]
    /\ UNCHANGED <<listening, client, full, toClose>>

-----------------------------------------------------------------------------
(***************************************************************************)
(* TCPServer.close, and the end of the process.                            *)
(***************************************************************************)
\* The server's ends of cs are closed: nothing more is read from them.
Closed(cs) ==
    /\ open' = open \ cs
    /\ unread' = unread \ cs

\* ln.Close: connections nobody accepted are reset, Accept returns ErrClosed.
closeListener ==
    LET reset == {c \in Conn : stage[c] = "backlog"}
    IN  /\ listening' = FALSE
        /\ stage' = [c \in Conn |-> IF c \in reset THEN "done" ELSE stage[c]]
        /\ request' = [c \in Conn |-> IF c \in reset THEN None ELSE request[c]]
        /\ Closed(reset)
        /\ UNCHANGED <<conns, client, answer, full, toClose>>

\* mu.Lock, before the walk over conns.
lockConns ==
    /\ toClose' = conns
    /\ UNCHANGED <<listening, conns, stage, open, client, request, unread, answer, full>>

\* One turn of the walk, in the order of a map: the notice is written, which
\* waits for room, and the connection closed.  mu is released after the last.
closeConn(c) ==
    /\ c \in toClose
    /\ c \notin full
    /\ toClose' = toClose \ {c}
    /\ Closed({c})
    /\ UNCHANGED <<listening, conns, stage, client, request, answer, full>>

\* The kernel closes what the process had open.
TcpGone ==
    /\ listening' = FALSE
    /\ conns' = {}
    /\ stage' = [c \in Conn |-> IF stage[c] = "none" THEN "none" ELSE "done"]
    /\ request' = [c \in Conn |-> None]
    /\ answer' = [c \in Conn |-> IF stage[c] = "write" THEN None ELSE answer[c]]
    /\ full' = {}
    /\ toClose' = {}
    /\ Closed(Conn)
    /\ UNCHANGED client

\* The steps of the server's goroutines outside handleRequest.
ServerStep(c) ==
    \/ Accept(c)
    \/ List(c)
    \/ Serve(c)
    \/ ReadRequest(c)
    \/ WriteAnswer(c)
    \/ Leave(c)

\* The steps of clients, but for ReceiveAnswer: what a client learns concerns
\* the broker.
ClientStep(c) ==
    \/ Dial(c)
    \/ \E r \in Request : Send(c, r)
    \/ ReceiveError(c)
    \/ HangUp(c)
    \/ Fill(c)
    \/ Drain(c)

-----------------------------------------------------------------------------
\* Every variable has the type of the field it stands for.
TcpTypeOK ==
    /\ listening \in BOOLEAN
    /\ conns \subseteq Conn
    /\ stage \in [Conn -> {"none", "backlog", "accepted", "listed",
                           "read", "work", "write", "done"}]
    /\ open \subseteq Conn
    /\ client \in [Conn -> {"none", "idle", "waiting", "served", "left"}]
    /\ request \in [Conn -> Request \cup {None}]
    /\ unread \subseteq Conn
    /\ answer \in [Conn -> Answer \cup {None}]
    /\ full \subseteq Conn
    /\ toClose \subseteq Conn
=============================================================================
