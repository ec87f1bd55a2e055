------------------------------ MODULE Session ------------------------------
(***************************************************************************)
(* Clients and the server over their connections: the commands of a        *)
(* client, each a header and a body to send and a header and a body to     *)
(* read; the listener, which accepts; the agents, one for each connection, *)
(* which the pool runs one after the other on the one thread that the      *)
(* listener leaves it; the server's table of descriptors.                  *)
(*                                                                         *)
(* A message is sent as a header and a body, each of which fits the 4096   *)
(* bytes of the buffers and arrives whole or, when its sender is gone, not *)
(* at all.  What the data file answers is chosen freely among the outcomes *)
(* that DmsFile has: the session looks only at how it goes on.             *)
(***************************************************************************)
EXTENDS Integers, SequencesExt, FiniteSetsExt

CONSTANTS Clients,
          MaxConnections,  \* how many connections are made
          MaxDescriptors,  \* what the server's table has room for
          MaxRequests,     \* how many requests each client makes
          MaxSequence      \* where the sequence numbers wrap: 99999999

ASSUME SessionAssumption ==
  /\ MaxConnections \in Nat /\ MaxDescriptors \in Nat \ {0}
  /\ MaxRequests \in [Clients -> Nat] /\ MaxSequence \in Nat \ {0}

Connections == 1..MaxConnections
Descriptors == 1..MaxDescriptors
Requests    == UNION {{c} \X (1..MaxRequests[c]) : c \in Clients}

None == 0  \* no connection
Flag == 0  \* the end flag in the pool's queue

Bodied == {"insert", "query", "delete"}
Ops    == Bodied \cup {"disconnect", "shutdown"}

VARIABLES client,     \* each client: where it is, its connection, sequence and request
          made,       \* how many connections were made
          toServer, toClient,    \* what was sent on a connection and not read yet
          clientEnd, serverEnd,  \* "open", or how the other side sees that it is not
          backlog,    \* connections that wait to be accepted
          table,      \* the server's descriptors
          queue,      \* the descriptors of agents that wait for the pool's thread
          agent,      \* the agent that runs
          server,     \* "up" or "down"
          stopped,    \* stopAll was called
          held,       \* the data file returned with its mutex locked
          silent,     \* connections on which a request went without a reply
          done,       \* the requests carried out, in that order
          answered    \* those whose answer was read

netVars    == <<made, toServer, toClient, clientEnd, serverEnd>>
serverVars == <<backlog, table, queue, agent, server, stopped, held, silent, done>>
vars == <<client, netVars, serverVars, answered>>

Prompt  == [pc |-> "prompt", conn |-> None, seq |-> 0, op |-> "none", n |-> 0]
NoAgent == [pc |-> "none", fd |-> 0, init |-> FALSE, op |-> "none", seq |-> 0, id |-> << >>]

Init ==
  /\ client = [c \in Clients |-> Prompt]
  /\ made = 0
  /\ toServer = [k \in Connections |-> << >>] /\ toClient = [k \in Connections |-> << >>]
  /\ clientEnd = [k \in Connections |-> "open"] /\ serverEnd = [k \in Connections |-> "open"]
  /\ backlog = << >> /\ table = [fd \in Descriptors |-> None]
  /\ queue = << >> /\ agent = NoAgent
  /\ server = "up" /\ stopped = FALSE /\ held = FALSE
  /\ silent = {} /\ done = << >> /\ answered = {}

-----------------------------------------------------------------------------
(***************************************************************************)
(* Connections                                                             *)
(***************************************************************************)
Header(op, seq, id) == [k |-> "header", op |-> op, seq |-> seq, id |-> id]
Body(op, seq, id)   == [k |-> "body", op |-> op, seq |-> seq, id |-> id]

\* What the other side sees of a close: a reset when data was left unread.
CloseSeen(unread) == IF unread = << >> THEN "fin" ELSE "rst"

ClientCloses(k) ==
  IF k = None THEN UNCHANGED <<clientEnd, toClient>>
  ELSE /\ clientEnd' = [clientEnd EXCEPT ![k] = CloseSeen(toClient[k])]
       /\ toClient' = [toClient EXCEPT ![k] = << >>]

\* send: to an end that is closed it succeeds once and is answered by a reset.
ClientSends(k, cell) ==
  IF serverEnd[k] = "open"
  THEN toServer' = [toServer EXCEPT ![k] = Append(@, cell)] /\ UNCHANGED serverEnd
  ELSE serverEnd' = [serverEnd EXCEPT ![k] = "rst"] /\ UNCHANGED toServer

ServerSends(k, cell) ==
  IF clientEnd[k] = "open"
  THEN toClient' = [toClient EXCEPT ![k] = Append(@, cell)] /\ UNCHANGED clientEnd
  ELSE clientEnd' \in {clientEnd, [clientEnd EXCEPT ![k] = "rst"]} /\ UNCHANGED toClient

-----------------------------------------------------------------------------
(***************************************************************************)
(* The client                                                              *)
(***************************************************************************)
At(c, pc) == client[c].pc = pc
Goto(c, pc) == client' = [client EXCEPT ![c].pc = pc]
ClientKeeps == UNCHANGED <<made, serverVars>>

\* ConnectCommand: the old socket is closed first.
Connect(c) ==
  /\ At(c, "prompt") /\ server = "up" /\ made < MaxConnections
  /\ made' = made + 1
  /\ backlog' = Append(backlog, made + 1)
  /\ client' = [client EXCEPT ![c].conn = made + 1]
  /\ ClientCloses(client[c].conn)
  /\ UNCHANGED <<toServer, serverEnd, table, queue, agent, server, stopped, held, silent, done, answered>>

ConnectFails(c) ==
  /\ At(c, "prompt") /\ server = "down" /\ client[c].conn # None
  /\ client' = [client EXCEPT ![c].conn = None]
  /\ ClientCloses(client[c].conn)
  /\ UNCHANGED <<toServer, serverEnd, answered>> /\ ClientKeeps

\* isConnected: a send of nothing fails once a reset was received.
ClientConnected(c) == client[c].conn # None /\ serverEnd[client[c].conn] # "rst"

\* Mutant: the limit is counted past.
NextSequenceOver(seq) == IF seq <= MaxSequence THEN seq + 1 ELSE 1

NextSequence(seq) == IF seq < MaxSequence THEN seq + 1 ELSE 1

Id(c) == <<c, client[c].n>>

\* A command up to sendOrder.
SendOrder(c, op) ==
  /\ At(c, "prompt") /\ ClientConnected(c) /\ client[c].n < MaxRequests[c]
  /\ LET seq == NextSequence(client[c].seq)
         n   == client[c].n + 1
     IN  /\ client' = [client EXCEPT ![c] =
                         [@ EXCEPT !.pc = IF op \in Bodied THEN "body" ELSE "close",
                                   !.seq = seq, !.op = op, !.n = n]]
         /\ ClientSends(client[c].conn, Header(op, seq, <<c, n>>))
  /\ UNCHANGED <<toClient, clientEnd, answered>> /\ ClientKeeps

SendBody(c) ==
  /\ At(c, "body")
  /\ ClientSends(client[c].conn, Body(client[c].op, client[c].seq, Id(c)))
  /\ Goto(c, "header")
  /\ UNCHANGED <<toClient, clientEnd, answered>> /\ ClientKeeps

\* QuitCommand and DBShutDownCommand close and wait for nothing.
CloseSocket(c) ==
  /\ At(c, "close")
  /\ client' = [client EXCEPT ![c] = IF client[c].op = "shutdown" THEN [@ EXCEPT !.pc = "prompt", !.conn = None]
                                     ELSE [Prompt EXCEPT !.pc = "exited"]]
  /\ ClientCloses(client[c].conn)
  /\ UNCHANGED <<toServer, serverEnd, answered>> /\ ClientKeeps

\* recvReply
RecvReplyHeader(c) ==
  /\ At(c, "header") /\ toClient[client[c].conn] # << >>
  /\ toClient' = [toClient EXCEPT ![client[c].conn] = Tail(@)]
  /\ Goto(c, "reply")
  /\ UNCHANGED <<toServer, clientEnd, serverEnd, answered>> /\ ClientKeeps

RecvReplyBody(c) ==
  /\ At(c, "reply") /\ toClient[client[c].conn] # << >>
  /\ toClient' = [toClient EXCEPT ![client[c].conn] = Tail(@)]
  /\ answered' = answered \cup {Head(toClient[client[c].conn]).id}
  /\ client' = [client EXCEPT ![c].pc = "prompt", ![c].op = "none"]
  /\ UNCHANGED <<toServer, clientEnd, serverEnd>> /\ ClientKeeps

Terminates(c) ==
  /\ client' = [client EXCEPT ![c] = [Prompt EXCEPT !.pc = "exited"]]
  /\ ClientCloses(client[c].conn)
  /\ UNCHANGED <<toServer, serverEnd, answered>> /\ ClientKeeps

\* Without a reply the buffer is zero, and handleReply throws: nothing catches it.
ReplyLost(c) ==
  /\ \/ At(c, "header") /\ ~ClientConnected(c)
     \/ /\ At(c, "header") \/ At(c, "reply")
        /\ toClient[client[c].conn] = << >> /\ serverEnd[client[c].conn] # "open"
  /\ Terminates(c)

\* The user ends the client.  (Without a connection it may as well stay.)
Interrupt(c) == client[c].conn # None /\ Terminates(c)

\* Its machine is gone, which SO_KEEPALIVE finds out.
Vanishes(c) ==
  /\ client[c].conn # None
  /\ client' = [client EXCEPT ![c] = [Prompt EXCEPT !.pc = "exited"]]
  /\ clientEnd' = [clientEnd EXCEPT ![client[c].conn] = "rst"]
  /\ toClient' = [toClient EXCEPT ![client[c].conn] = << >>]
  /\ UNCHANGED <<toServer, serverEnd, answered>> /\ ClientKeeps

-----------------------------------------------------------------------------
(***************************************************************************)
(* The server                                                              *)
(***************************************************************************)
ServerKeeps == UNCHANGED <<client, made, answered>>
PoolKeeps   == UNCHANGED <<server, stopped, held>>
NetKeeps    == UNCHANGED <<toServer, toClient, clientEnd, serverEnd>>

Unused == {fd \in Descriptors : table[fd] = None}

\* The listener: accept gives the lowest descriptor, start queues an agent.
Accept ==
  /\ server = "up" /\ backlog # << >>
  /\ \E fd \in Unused :
       /\ \A other \in Unused : fd <= other
       /\ table' = [table EXCEPT ![fd] = Head(backlog)]
       /\ queue' = Append(queue, fd)
  /\ backlog' = Tail(backlog)
  /\ UNCHANGED <<agent, silent, done>> /\ ServerKeeps /\ PoolKeeps /\ NetKeeps

Agent(pc) == server = "up" /\ agent.pc = pc
Become(pc) == agent' = [agent EXCEPT !.pc = pc]

\* Back in the loop of run; init is _init of the agent's socket.
Loop(init) == agent' = [NoAgent EXCEPT !.pc = "check", !.fd = agent.fd, !.init = init]
Conn == IF agent.fd = 0 THEN None ELSE table[agent.fd]

Take ==
  /\ Agent("none") /\ queue # << >>
  /\ agent' = IF Head(queue) = Flag THEN [NoAgent EXCEPT !.pc = "ended"]
              ELSE [NoAgent EXCEPT !.pc = "check", !.fd = Head(queue), !.init = TRUE]
  /\ queue' = Tail(queue)
  /\ UNCHANGED <<backlog, table, silent, done>> /\ ServerKeeps /\ PoolKeeps /\ NetKeeps

\* osSocket::close, once: it does nothing when the socket was closed before.
CloseDescriptor ==
  IF agent.init
  THEN /\ table' = [table EXCEPT ![agent.fd] = None]
       /\ serverEnd' = [serverEnd EXCEPT ![Conn] = CloseSeen(toServer[Conn])]
       /\ toServer' = [toServer EXCEPT ![Conn] = << >>]
  ELSE UNCHANGED <<table, serverEnd, toServer>>

\* run: isConnected asks the descriptor, whoever's it is by now.
IsConnected ==
  /\ Agent("check")
  /\ IF Conn # None /\ clientEnd[Conn] # "rst" THEN Become("header") ELSE agent' = NoAgent
  /\ UNCHANGED <<backlog, table, queue, silent, done>> /\ ServerKeeps /\ PoolKeeps /\ NetKeeps

Readable == toServer[Conn] # << >>
AtEof    == ~Readable /\ clientEnd[Conn] = "fin"
IsReset  == ~Readable /\ clientEnd[Conn] = "rst"

Receives(pc) ==
  /\ toServer' = [toServer EXCEPT ![Conn] = Tail(@)]
  /\ LET cell == Head(toServer[Conn])
     IN  agent' = [agent EXCEPT !.pc = pc, !.op = cell.op, !.seq = cell.seq, !.id = cell.id]
  /\ UNCHANGED <<toClient, clientEnd, serverEnd>>

\* Mutant: the body of a query is not read.
AfterHeaderOf(op) == IF op \in Bodied \ {"query"} THEN "body" ELSE "act"

AfterHeader(op) == IF op \in Bodied THEN "body" ELSE "act"

\* Mutant: the end of the stream is not looked for.
PeerClosedUnnoticed ==
  /\ AtEof
  /\ Loop(agent.init)
  /\ UNCHANGED table /\ NetKeeps

PeerClosed ==
  /\ AtEof
  /\ CloseDescriptor
  /\ Loop(FALSE)
  /\ UNCHANGED <<toClient, clientEnd>>

RecvHeader ==
  /\ Agent("header")
  /\ \/ /\ Readable
        /\ Receives(AfterHeader(Head(toServer[Conn]).op))
        /\ UNCHANGED table
     \/ PeerClosed
     \/ /\ IsReset
        /\ Loop(agent.init)
        /\ NetKeeps /\ UNCHANGED table
  /\ UNCHANGED <<backlog, queue, silent, done>> /\ ServerKeeps /\ PoolKeeps

RecvBody ==
  /\ Agent("body") /\ Readable
  /\ Receives("act")
  /\ UNCHANGED <<backlog, table, queue, silent, done>> /\ ServerKeeps /\ PoolKeeps

\* Without its body a document is zero bytes, and reading it throws: out of run,
\* which ends the agent, unless it was to be inserted.
BodyLost ==
  /\ Agent("body")
  /\ AtEof \/ IsReset
  /\ IF agent.op = "insert" THEN Loop(agent.init /\ ~AtEof) ELSE agent' = NoAgent
  /\ IF AtEof THEN CloseDescriptor ELSE UNCHANGED <<table, serverEnd, toServer>>
  /\ UNCHANGED <<toClient, clientEnd, backlog, queue, silent, done>> /\ ServerKeeps /\ PoolKeeps

Acts == UNCHANGED <<backlog, queue, server, stopped>> /\ ServerKeeps

\* Mutant: the descriptor is not closed.
DisconnectLeaves ==
  /\ Agent("act") /\ agent.op = "disconnect"
  /\ agent' = NoAgent
  /\ UNCHANGED <<table, held, silent, done>> /\ NetKeeps /\ Acts

Disconnect ==
  /\ Agent("act") /\ agent.op = "disconnect"
  /\ CloseDescriptor
  /\ Loop(FALSE)
  /\ UNCHANGED <<toClient, clientEnd, held, silent, done>> /\ Acts

Shutdown ==
  /\ Agent("act") /\ agent.op = "shutdown"
  /\ CloseDescriptor
  /\ agent' = [agent EXCEPT !.pc = "stop", !.init = FALSE]
  /\ UNCHANGED <<toClient, clientEnd, held, silent, done>> /\ Acts

\* stopAll: two end flags, the first time.
StopAll ==
  /\ Agent("stop")
  /\ queue' = IF stopped THEN queue ELSE queue \o <<Flag, Flag>>
  /\ stopped' = TRUE
  /\ Loop(FALSE)
  /\ UNCHANGED <<backlog, table, server, held, silent, done>> /\ ServerKeeps /\ NetKeeps

\* The request is carried out and will be answered.
CarriedOut ==
  /\ done' = Append(done, agent.id)
  /\ Become("reply header")
  /\ UNCHANGED <<table, held, silent>> /\ NetKeeps /\ Acts

\* It goes without a reply.
Unanswered ==
  /\ silent' = silent \cup {Conn}
  /\ UNCHANGED <<table, done>> /\ NetKeeps /\ Acts

InsertOk == Agent("act") /\ agent.op = "insert" /\ ~held /\ CarriedOut

\* Mutant: the result of insert is not looked at.
InsertRefusedUnseen ==
  /\ Agent("act") /\ agent.op = "insert"
  /\ Become("reply header")
  /\ UNCHANGED <<table, held, silent, done>> /\ NetKeeps /\ Acts

\* Refused for want of "id", or by the data file, which may keep its mutex locked.
InsertRefused ==
  /\ Agent("act") /\ agent.op = "insert"
  /\ held' \in {held, TRUE}
  /\ Loop(agent.init) /\ Unanswered

\* A record or none was found.
QueryOk == Agent("act") /\ agent.op = "query" /\ ~held /\ CarriedOut

\* find throws.
QueryThrows ==
  /\ Agent("act") /\ agent.op = "query" /\ ~held
  /\ agent' = NoAgent /\ Unanswered
  /\ UNCHANGED held

DeleteOk == Agent("act") /\ agent.op = "delete" /\ CarriedOut

SendReply(pc, cell) ==
  /\ Agent(pc)
  /\ ServerSends(Conn, cell)
  /\ UNCHANGED <<toServer, serverEnd, backlog, table, queue, silent, done>>
  /\ ServerKeeps /\ PoolKeeps

\* Mutant: the header is all that is sent.
SendReplyHeaderOnly ==
  SendReply("reply header", Header("reply", agent.seq, agent.id)) /\ Loop(agent.init)

SendReplyHeader ==
  SendReply("reply header", Header("reply", agent.seq, agent.id)) /\ Become("reply body")

\* Mutant: what was sent is sent again.
SendReplyBodyAgain ==
  SendReply("reply body", Body("reply", agent.seq, agent.id)) /\ (UNCHANGED agent \/ Loop(agent.init))

SendReplyBody ==
  SendReply("reply body", Body("reply", agent.seq, agent.id)) /\ Loop(agent.init)

\* The process goes: a find that leaves the file, a thread of the pool that was
\* deleted by stopAll, or a signal.
Down ==
  /\ server = "up"
  /\ LET waiting == ToSet(backlog)
         closed  == waiting \cup {table[fd] : fd \in Descriptors \ Unused}
     IN  /\ serverEnd' = [k \in Connections |-> IF k \in waiting THEN "rst"
                                               ELSE IF k \in closed THEN CloseSeen(toServer[k])
                                               ELSE serverEnd[k]]
         /\ toServer' = [k \in Connections |-> IF k \in closed THEN << >> ELSE toServer[k]]
  /\ server' = "down"
  /\ backlog' = << >> /\ table' = [fd \in Descriptors |-> None]
  /\ queue' = << >> /\ agent' = NoAgent
  /\ stopped' = FALSE /\ held' = FALSE
  /\ UNCHANGED <<toClient, clientEnd, silent, done>> /\ ServerKeeps

Restart ==
  /\ server = "down"
  /\ server' = "up"
  /\ UNCHANGED <<backlog, table, queue, agent, stopped, held, silent, done>>
  /\ ServerKeeps /\ NetKeeps

-----------------------------------------------------------------------------
AgentStep ==
  \/ Take \/ IsConnected \/ RecvHeader \/ RecvBody \/ BodyLost
  \/ Disconnect \/ Shutdown \/ StopAll
  \/ InsertOk \/ InsertRefused \/ QueryOk \/ QueryThrows \/ DeleteOk
  \/ SendReplyHeader \/ SendReplyBody

\* A command goes on by itself once it was entered.
ClientStep(c) ==
  \/ SendBody(c) \/ CloseSocket(c) \/ RecvReplyHeader(c) \/ RecvReplyBody(c) \/ ReplyLost(c)

Next ==
  \/ \E c \in Clients :
       \/ Connect(c) \/ ConnectFails(c) \/ Interrupt(c) \/ Vanishes(c) \/ ClientStep(c)
       \/ \E op \in Ops : SendOrder(c, op)
  \/ Accept \/ AgentStep \/ Down \/ Restart

Spec == Init /\ [][Next]_vars

\* Processes run; nobody need enter a command, or start the server again.
FairSpec ==
  Spec /\ WF_vars(Accept) /\ WF_vars(AgentStep) /\ \A c \in Clients : WF_vars(ClientStep(c))

-----------------------------------------------------------------------------
(***************************************************************************)
(* Properties                                                              *)
(***************************************************************************)
Waits(c)  == At(c, "header") \/ At(c, "reply")
Running   == agent.pc \notin {"none", "ended"}
Stolen    == Running /\ ~agent.init /\ Conn # None

TypeOK ==
  /\ client \in [Clients -> [pc : {"prompt", "body", "header", "reply", "close", "exited"},
                             conn : 0..made, seq : 0..MaxSequence,
                             op : Ops \cup {"none"}, n : Nat]]
  /\ \A c \in Clients : client[c].n <= MaxRequests[c]
  /\ made \in 0..MaxConnections
  /\ clientEnd \in [Connections -> {"open", "fin", "rst"}]
  /\ serverEnd \in [Connections -> {"open", "fin", "rst"}]
  /\ table \in [Descriptors -> 0..made]
  /\ agent.fd \in 0..MaxDescriptors /\ agent.init \in BOOLEAN
  /\ server \in {"up", "down"} /\ stopped \in BOOLEAN /\ held \in BOOLEAN
  /\ silent \subseteq Connections
  /\ ToSet(done) \subseteq Requests /\ answered \subseteq Requests

\* Each side reads a header where the other has sent a header, and a body where
\* it has sent a body, though requests fail half way (recvHeader,
\* recvBodyAndSend, recvReply), and agents serve connections of other agents.
InStep ==
  /\ Agent("header") /\ Conn # None /\ Readable => Head(toServer[Conn]).k = "header"
  /\ Agent("body") /\ Conn # None /\ Readable =>
       Head(toServer[Conn]) = Body(agent.op, agent.seq, agent.id)
  /\ \A c \in Clients : Waits(c) /\ toClient[client[c].conn] # << >> =>
       Head(toClient[client[c].conn]).k = IF At(c, "header") THEN "header" ELSE "body"

\* What is on its way to a client is the answer to the request it waits for, by
\* its sequence number too, which the client does not compare: no answer is sent
\* twice or to a connection that did not ask.
ReplyIsForRequest ==
  \A k \in Connections : toClient[k] # << >> =>
    \E c \in Clients :
      /\ client[c].conn = k /\ Waits(c)
      /\ \A i \in DOMAIN toClient[k] :
           toClient[k][i].id = Id(c) /\ toClient[k][i].seq = client[c].seq

\* A request is carried out at most once and answered only when it was.
Promise == INSTANCE Service
ImplementsService == Promise!Spec

\* A descriptor stays open for an agent that waits or runs, though an agent may
\* serve a number that is queued for another and does not close it.  Those that no
\* agent will close are accounted for: the client's end was reset, or its request
\* went without a reply.
Forgotten ==
  {fd \in Descriptors \ Unused : fd \notin ToSet(queue) /\ ~(Running /\ agent.init /\ agent.fd = fd)}

ForgottenForAReason == \A fd \in Forgotten : clientEnd[table[fd]] = "rst" \/ table[fd] \in silent

\* A client that waits on a connection that an agent serves comes to an end with
\* it, unless its request went without a reply or the file's mutex is lost.
Served(c) == Running /\ Conn # None /\ Conn = client[c].conn

ServedIsAnswered ==
  \A c \in Clients : Served(c) /\ Waits(c) ~> (~Waits(c) \/ client[c].conn \in silent \/ held)

\* An agent whose client is gone ends, so that the next client is served, unless
\* it serves a descriptor that is not its own, or waits for the file's mutex.
AgentLetsGo ==
  Running /\ Conn # None /\ clientEnd[Conn] # "open" ~> (~Running \/ Stolen \/ held)
=============================================================================
