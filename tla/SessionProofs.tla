--------------------------- MODULE SessionProofs ---------------------------
(***************************************************************************)
(* The two sides of a connection keep in step, answers reach the request   *)
(* they are for, and the session implements Service, for any clients,      *)
(* descriptors and bounds.                                                 *)
(*                                                                         *)
(* The argument: a client is synchronous, so there is at most one request  *)
(* on a connection, and where the client is says where the request can be: *)
(* still on its way, with the agent that serves the connection by now,     *)
(* whichever agent that is, or already answered.  What is left of it when  *)
(* the client goes is at most a header and a body, to which nothing is     *)
(* ever added.                                                             *)
(***************************************************************************)
EXTENDS Session, SequenceTheorems, TLAPS

Cells == [k : {"header", "body"}, op : Ops \cup {"reply"}, seq : 1..MaxSequence, id : Requests]

ClientTypes ==
  /\ client \in [Clients -> [pc : {"prompt", "body", "header", "reply", "close", "exited"},
                             conn : 0..made, seq : 0..MaxSequence,
                             op : Ops \cup {"none"}, n : Nat]]
  /\ \A c \in Clients :
       /\ client[c].n <= MaxRequests[c]
       /\ client[c].pc \in {"body", "close", "header", "reply"} =>
            client[c].seq \in 1..MaxSequence /\ client[c].op \in Ops /\ Id(c) \in Requests
  /\ answered \subseteq Requests

NetTypes ==
  /\ made \in 0..MaxConnections
  /\ toServer \in [Connections -> Seq(Cells)] /\ toClient \in [Connections -> Seq(Cells)]
  /\ clientEnd \in [Connections -> {"open", "fin", "rst"}]
  /\ serverEnd \in [Connections -> {"open", "fin", "rst"}]

TableTypes ==
  /\ backlog \in Seq(1..made)
  /\ table \in [Descriptors -> 0..made]
  /\ queue \in Seq(Descriptors \cup {Flag})
  /\ server \in {"up", "down"} /\ stopped \in BOOLEAN /\ held \in BOOLEAN
  /\ silent \subseteq Connections
  /\ done \in Seq(Requests)

\* What an agent knows of the request it carries.
Carrying == agent.pc \in {"body", "act", "reply header", "reply body"}
AgentTypes ==
  /\ agent \in [pc : {"none", "ended", "check", "header", "body", "act", "stop",
                      "reply header", "reply body"},
                fd : 0..MaxDescriptors, init : BOOLEAN, op : Ops \cup {"none"},
                seq : 0..MaxSequence, id : Requests \cup {<< >>}]
  /\ Carrying => agent.op \in Ops /\ agent.seq \in 1..MaxSequence /\ agent.id \in Requests
  /\ agent.pc \in {"body", "reply header", "reply body"} => agent.op \in Bodied
  /\ Carrying \/ agent.pc = "header" => Conn # None

Types == ClientTypes /\ NetTypes /\ TableTypes /\ AgentTypes

\* Connections that were not made yet, and those of clients.
Unmade == \A k \in Connections :
  k > made => /\ toServer[k] = << >> /\ toClient[k] = << >>
              /\ clientEnd[k] = "open" /\ serverEnd[k] = "open"

Owners ==
  /\ \A c, d \in Clients : client[c].conn = client[d].conn /\ client[c].conn # None => c = d
  /\ \A c \in Clients : client[c].conn # None => clientEnd[client[c].conn] = "open"
  /\ \A k \in Connections : k <= made /\ clientEnd[k] = "open" =>
       \E c \in Clients : client[c].conn = k
  /\ \A k \in Connections : clientEnd[k] # "open" => toClient[k] = << >>
  /\ \A k \in Connections : serverEnd[k] # "open" => toServer[k] = << >>

\* Where the request of a client is.
Idle(k) == ~(Conn = k /\ Carrying)
Carries(k, c, where) ==
  /\ Conn = k /\ agent.pc \in where
  /\ agent.op = client[c].op /\ agent.seq = client[c].seq /\ agent.id = Id(c)

Sent(c, kind)  == [k |-> kind, op |-> client[c].op, seq |-> client[c].seq, id |-> Id(c)]
Reply(c, kind) == [k |-> kind, op |-> "reply", seq |-> client[c].seq, id |-> Id(c)]

PromptPhase(c, k) == toServer[k] = << >> /\ toClient[k] = << >> /\ Idle(k)

BodyPhase(c, k) ==
  /\ client[c].op \in Bodied /\ toClient[k] = << >>
  /\ \/ toServer[k] = <<Sent(c, "header")>> /\ Idle(k)
     \/ toServer[k] = << >> /\ Carries(k, c, {"body"})
     \/ toServer[k] = << >> /\ Idle(k) /\ serverEnd[k] # "open"

ClosePhase(c, k) ==
  /\ client[c].op \in Ops \ Bodied /\ toClient[k] = << >>
  /\ \/ toServer[k] = <<Sent(c, "header")>> /\ Idle(k)
     \/ toServer[k] = << >> /\ (Idle(k) \/ Carries(k, c, {"act"}))

HeaderPhase(c, k) ==
  /\ client[c].op \in Bodied
  /\ \/ toServer[k] = <<Sent(c, "header"), Sent(c, "body")>> /\ Idle(k) /\ toClient[k] = << >>
     \/ toServer[k] = <<Sent(c, "body")>> /\ Carries(k, c, {"body"}) /\ toClient[k] = << >>
     \/ toServer[k] = << >> /\ Carries(k, c, {"body"}) /\ serverEnd[k] # "open" /\ toClient[k] = << >>
     \/ toServer[k] = << >> /\ Carries(k, c, {"act", "reply header"}) /\ toClient[k] = << >>
     \/ toServer[k] = << >> /\ Carries(k, c, {"reply body"}) /\ toClient[k] = <<Reply(c, "header")>>
     \/ /\ toServer[k] = << >> /\ Idle(k)
        /\ toClient[k] \in {<< >>, <<Reply(c, "header")>>, <<Reply(c, "header"), Reply(c, "body")>>}

ReplyPhase(c, k) ==
  /\ client[c].op \in Bodied /\ toServer[k] = << >>
  /\ \/ Carries(k, c, {"reply body"}) /\ toClient[k] = << >>
     \/ Idle(k) /\ toClient[k] \in {<< >>, <<Reply(c, "body")>>}

Phase(c) ==
  LET k == client[c].conn IN
  /\ At(c, "prompt") /\ k # None => PromptPhase(c, k)
  /\ At(c, "body")   => k # None /\ BodyPhase(c, k)
  /\ At(c, "close")  => k # None /\ ClosePhase(c, k)
  /\ At(c, "header") => k # None /\ HeaderPhase(c, k)
  /\ At(c, "reply")  => k # None /\ ReplyPhase(c, k)
  /\ At(c, "exited") => k = None

Phases == \A c \in Clients : Phase(c)

\* What is in a stream, whether or not a client is left.
InBody(k) == agent.pc = "body" /\ Conn = k
Stream(k) ==
  LET s == toServer[k] IN
  \/ s = << >>
  \/ /\ ~InBody(k) /\ Head(s).k = "header" /\ Head(s).op \in Ops
     /\ \/ s = <<Head(s)>>
        \/ Head(s).op \in Bodied /\ s = <<Head(s), [Head(s) EXCEPT !.k = "body"]>>
  \/ InBody(k) /\ s = <<Body(agent.op, agent.seq, agent.id)>>

Streams == \A k \in Connections : Stream(k)

\* A request is in one place before it is carried out.
Asked(id)  == client[id[1]].pc = "exited" \/ id[2] <= client[id[1]].n
Waiting(k, id) == toServer[k] # << >> /\ Head(toServer[k]).k = "header" /\ Head(toServer[k]).id = id
Ids ==
  /\ \A k \in Connections, id \in Requests : Waiting(k, id) =>
       /\ Asked(id) /\ id \notin ToSet(done)
       /\ Carrying => id # agent.id
       /\ \A l \in Connections : Waiting(l, id) => l = k
  /\ Carrying => Asked(agent.id)
  /\ agent.pc \in {"body", "act"} => agent.id \notin ToSet(done)
  /\ \A id \in ToSet(done) : Asked(id)

\* And after, when it is answered.
Answers ==
  /\ agent.pc \in {"reply header", "reply body"} => agent.id \in ToSet(done)
  /\ \A k \in Connections : \A i \in DOMAIN toClient[k] : toClient[k][i].id \in ToSet(done)

IInv == Types /\ Unmade /\ Owners /\ Phases /\ Streams /\ Ids /\ Answers
-----------------------------------------------------------------------------
(***************************************************************************)
(* Short sequences                                                         *)
(***************************************************************************)
LEMMA Short ==
  ASSUME NEW S, NEW x \in S, NEW y \in S
  PROVE  /\ << >> \in Seq(S) /\ <<x>> \in Seq(S) /\ <<x, y>> \in Seq(S)
         /\ Append(<< >>, x) = <<x>> /\ Append(<<x>>, y) = <<x, y>>
         /\ Head(<<x>>) = x /\ Head(<<x, y>>) = x
         /\ Tail(<<x>>) = << >> /\ Tail(<<x, y>>) = <<y>>
         /\ <<x>> # << >> /\ <<x, y>> # << >> /\ <<x>> # <<x, y>>
<1>1. << >> \in Seq(S) /\ <<x>> \in Seq(S) /\ <<x, y>> \in Seq(S)
  OBVIOUS
<1>2. Append(<< >>, x) = <<x>>
  OBVIOUS
<1>3. Append(<<x>>, y) = <<x, y>>
  <2>1. /\ Append(<<x>>, y) \in Seq(S) /\ Len(Append(<<x>>, y)) = 2
        /\ Append(<<x>>, y)[1] = x /\ Append(<<x>>, y)[2] = y
    BY <1>1, AppendProperties, Len(<<x>>) = 1, <<x>>[1] = x
  <2>2. <<x, y>> \in Seq(S) /\ Len(<<x, y>>) = 2 /\ <<x, y>>[1] = x /\ <<x, y>>[2] = y
    BY <1>1
  <2> DEFINE s == Append(<<x>>, y)
             t == <<x, y>>
  <2>3. s \in Seq(S) /\ t \in Seq(S) /\ Len(s) = Len(t)
    BY <2>1, <2>2
  <2>4. \A i \in 1..Len(s) : s[i] = t[i]
    BY <2>1, <2>2
  <2>5. s = t
    <3> HIDE DEF s, t
    <3> QED BY <2>3, <2>4, SeqEqual
  <2>6. QED BY <2>5
<1>4. Head(<<x>>) = x /\ Head(<<x, y>>) = x
  OBVIOUS
<1>5. Tail(<<x>>) = << >>
  OBVIOUS
<1>6. Tail(<<x, y>>) = <<y>>
  OBVIOUS
<1>7. <<x>> # << >> /\ <<x, y>> # << >>
  OBVIOUS
<1>8. <<x>> # <<x, y>>
  OBVIOUS
<1>9. QED BY <1>1, <1>2, <1>3, <1>4, <1>5, <1>6, <1>7, <1>8

LEMMA ToSetAppend ==
  ASSUME NEW S, NEW s \in Seq(S), NEW x \in S
  PROVE  Append(s, x) \in Seq(S) /\ ToSet(Append(s, x)) = ToSet(s) \cup {x}
<1>1. /\ Append(s, x) \in Seq(S) /\ Len(Append(s, x)) = Len(s) + 1
      /\ \A i \in 1..Len(s) : Append(s, x)[i] = s[i]
      /\ Append(s, x)[Len(s) + 1] = x
  BY AppendProperties
<1>2. QED BY <1>1 DEF ToSet

LEMMA ToSetIn ==
  ASSUME NEW S, NEW s \in Seq(S)
  PROVE  ToSet(s) \subseteq S
  BY DEF ToSet

LEMMA HeadIn ==
  ASSUME NEW S, NEW s \in Seq(S), s # << >>
  PROVE  Head(s) \in S /\ Tail(s) \in Seq(S) /\ Head(s) \in ToSet(s)
<1>1. Len(s) \in Nat /\ Len(s) >= 1 /\ Head(s) = s[1]
  OBVIOUS
<1>2. 1 \in DOMAIN s
  BY <1>1
<1>3. QED BY <1>1, <1>2, HeadTailProperties DEF ToSet

LEMMA RequestIn ==
  ASSUME NEW c \in Clients, NEW n \in 1..MaxRequests[c]
  PROVE  <<c, n>> \in Requests
<1>1. <<c, n>> \in {c} \X (1..MaxRequests[c])
  OBVIOUS
<1>2. QED BY <1>1 DEF Requests
-----------------------------------------------------------------------------
(***************************************************************************)
(* Types                                                                   *)
(***************************************************************************)
LEMMA TypesTypeOK == Types => TypeOK
<1>1. SUFFICES ASSUME Types PROVE TypeOK
  OBVIOUS
<1>2. agent.fd \in 0..MaxDescriptors /\ agent.init \in BOOLEAN
  BY <1>1 DEF Types, AgentTypes
<1>3. ToSet(done) \subseteq Requests
  BY <1>1, ToSetIn DEF Types, TableTypes
<1>4. QED BY <1>1, <1>2, <1>3 DEF Types, TypeOK, ClientTypes, NetTypes, TableTypes

LEMMA CellIn ==
  ASSUME NEW op \in Ops \cup {"reply"}, NEW seq \in 1..MaxSequence, NEW id \in Requests
  PROVE  Header(op, seq, id) \in Cells /\ Body(op, seq, id) \in Cells
  BY DEF Cells, Header, Body

LEMMA InRange ==
  ASSUME made \in 0..MaxConnections, NEW k \in 0..made
  PROVE  k # None => k \in Connections /\ k <= made
  BY SessionAssumption DEF Connections, None

LEMMA OfClient ==
  ASSUME ClientTypes, NetTypes, NEW c \in Clients
  PROVE  /\ client[c].conn \in 0..made
         /\ client[c].conn # None => client[c].conn \in Connections /\ client[c].conn <= made
<1>1. client[c].conn \in 0..made
  BY DEF ClientTypes
<1>2. QED BY <1>1, InRange DEF NetTypes

LEMMA OfConn ==
  ASSUME NetTypes, TableTypes, AgentTypes
  PROVE  /\ Conn \in 0..made
         /\ Conn # None => /\ Conn \in Connections /\ Conn <= made
                           /\ agent.fd \in Descriptors /\ Conn = table[agent.fd]
<1>1. agent.fd \in 0..MaxDescriptors
  BY DEF AgentTypes
<1>2. Conn \in 0..made
  BY <1>1, SessionAssumption DEF Conn, NetTypes, TableTypes, None, Descriptors
<1>3. Conn # None => agent.fd \in Descriptors /\ Conn = table[agent.fd]
  BY <1>1, SessionAssumption DEF Conn, Descriptors
<1>4. QED BY <1>2, <1>3, InRange DEF NetTypes

LEMMA ClientSendsTypes ==
  ASSUME NetTypes, NEW k \in Connections, NEW cell \in Cells, ClientSends(k, cell)
  PROVE  /\ toServer' \in [Connections -> Seq(Cells)]
         /\ serverEnd' \in [Connections -> {"open", "fin", "rst"}]
<1>1. Append(toServer[k], cell) \in Seq(Cells)
  BY AppendProperties DEF NetTypes
<1>2. QED BY <1>1 DEF NetTypes, ClientSends

LEMMA ServerSendsTypes ==
  ASSUME NetTypes, NEW k \in Connections, NEW cell \in Cells, ServerSends(k, cell)
  PROVE  /\ toClient' \in [Connections -> Seq(Cells)]
         /\ clientEnd' \in [Connections -> {"open", "fin", "rst"}]
<1>1. Append(toClient[k], cell) \in Seq(Cells)
  BY AppendProperties DEF NetTypes
<1>2. QED BY <1>1 DEF NetTypes, ServerSends

LEMMA ClosesTypes ==
  ASSUME NetTypes, NEW k \in Connections \cup {None}, ClientCloses(k)
  PROVE  /\ toClient' \in [Connections -> Seq(Cells)]
         /\ clientEnd' \in [Connections -> {"open", "fin", "rst"}]
<1>1. << >> \in Seq(Cells) /\ CloseSeen(toClient[k]) \in {"open", "fin", "rst"}
  BY DEF CloseSeen
<1>2. QED BY <1>1 DEF NetTypes, ClientCloses

\* A client's record: the set it is in, and what it has besides.
AClient == [pc : {"prompt", "body", "header", "reply", "close", "exited"},
            conn : 0..made, seq : 0..MaxSequence, op : Ops \cup {"none"}, n : Nat]
Busy(r) == r.pc \in {"body", "close", "header", "reply"}

LEMMA ClientBecomes ==
  ASSUME ClientTypes, NEW c \in Clients, NEW r \in AClient, r.n <= MaxRequests[c],
         Busy(r) => r.seq \in 1..MaxSequence /\ r.op \in Ops /\ <<c, r.n>> \in Requests,
         client' = [client EXCEPT ![c] = r], made' = made, answered' \subseteq Requests
  PROVE  /\ ClientTypes'
         /\ client'[c] = r /\ \A d \in Clients \ {c} : client'[d] = client[d]
<1>1. client \in [Clients -> AClient] /\ AClient' = AClient
  BY DEF ClientTypes, AClient
<1>2. client' \in [Clients -> AClient']
  BY <1>1
<1>3. client'[c] = r /\ \A d \in Clients \ {c} : client'[d] = client[d]
  BY <1>1
<1>4. ASSUME NEW d \in Clients
      PROVE  /\ client'[d].n <= MaxRequests[d]
             /\ client'[d].pc \in {"body", "close", "header", "reply"} =>
                  client'[d].seq \in 1..MaxSequence /\ client'[d].op \in Ops /\ Id(d)' \in Requests
  <2>1. CASE d = c
    BY <2>1, <1>3 DEF Busy, Id
  <2>2. CASE d # c
    BY <2>2, <1>3 DEF ClientTypes, Id
  <2>3. QED BY <2>1, <2>2
<1>5. QED BY <1>2, <1>3, <1>4 DEF ClientTypes, AClient

\* What a move of a client, along its command, leaves as it is.
Moves(c, pc) ==
  /\ client'[c].pc = pc /\ client'[c].conn = client[c].conn /\ client'[c].seq = client[c].seq
  /\ client'[c].n = client[c].n
  /\ \A d \in Clients \ {c} : client'[d] = client[d]

LEMMA ClientGoes ==
  ASSUME ClientTypes, NEW c \in Clients, NEW pc \in {"header", "reply"},
         At(c, "body") \/ At(c, "header"), Goto(c, pc), made' = made, answered' = answered
  PROVE  ClientTypes' /\ Moves(c, pc) /\ client'[c].op = client[c].op
<1> DEFINE r == [client[c] EXCEPT !.pc = pc]
<1>1. client[c] \in AClient /\ client[c].n <= MaxRequests[c]
  BY DEF ClientTypes, AClient
<1>2. /\ r \in AClient /\ r.pc = pc /\ r.conn = client[c].conn /\ r.seq = client[c].seq
      /\ r.op = client[c].op /\ r.n = client[c].n
  BY <1>1 DEF AClient
<1>3. r.seq \in 1..MaxSequence /\ r.op \in Ops /\ <<c, r.n>> \in Requests
  BY <1>2 DEF ClientTypes, At, Id
<1>4. client' = [client EXCEPT ![c] = r]
  BY <1>1 DEF Goto, ClientTypes
<1>5. answered' \subseteq Requests
  BY DEF ClientTypes
<1>6. ClientTypes' /\ client'[c] = r /\ \A d \in Clients \ {c} : client'[d] = client[d]
  <2> HIDE DEF r
  <2> QED BY <1>1, <1>2, <1>3, <1>4, <1>5, ClientBecomes
<1>7. QED BY <1>2, <1>6 DEF Moves

LEMMA ServerSame ==
  ASSUME TableTypes, AgentTypes, ClientKeeps
  PROVE  /\ TableTypes' /\ AgentTypes' /\ Conn' = Conn
         /\ agent' = agent /\ table' = table /\ done' = done /\ made' = made
  BY DEF TableTypes, AgentTypes, ClientKeeps, serverVars, Conn, Carrying, Flag

-----------------------------------------------------------------------------
(***************************************************************************)
(* Steps that a client, or a connection, has no part in                    *)
(***************************************************************************)
CarryingPcs == {"body", "act", "reply header", "reply body"}

\* The agent goes on as it was, or does not carry a request of k before or after.
AgentSame(k) ==
  \/ agent' = agent /\ Conn' = Conn
  \/ Idle(k) /\ Idle(k)'

LEMMA AgentSameParts ==
  ASSUME NEW k, NEW d, client'[d] = client[d], AgentSame(k)
  PROVE  /\ Idle(k)' <=> Idle(k)
         /\ \A where \in SUBSET CarryingPcs : Carries(k, d, where)' <=> Carries(k, d, where)
         /\ \A kind : Sent(d, kind)' = Sent(d, kind) /\ Reply(d, kind)' = Reply(d, kind)
<1>1. Id(d)' = Id(d)
  BY DEF Id
<1>2. CASE agent' = agent /\ Conn' = Conn
  BY <1>1, <1>2 DEF Idle, Carries, Carrying, Sent, Reply
<1>3. CASE Idle(k) /\ Idle(k)'
  BY <1>1, <1>3 DEF Idle, Carries, Carrying, CarryingPcs, Sent, Reply
<1>4. QED BY <1>2, <1>3 DEF AgentSame

LEMMA PhaseSame ==
  ASSUME NEW d \in Clients, Phase(d), client'[d] = client[d],
         client[d].conn # None =>
           LET k == client[d].conn IN
           /\ toServer'[k] = toServer[k] /\ toClient'[k] = toClient[k]
           /\ serverEnd'[k] = serverEnd[k] /\ AgentSame(k)
  PROVE  Phase(d)'
<1> DEFINE k == client[d].conn
<1>1. k' = k /\ \A pc : At(d, pc)' <=> At(d, pc)
  BY DEF At
<1>2. CASE k = None
  BY <1>1, <1>2 DEF Phase
<1>3. CASE k # None
  <2>1. /\ toServer'[k] = toServer[k] /\ toClient'[k] = toClient[k] /\ serverEnd'[k] = serverEnd[k]
        /\ Idle(k)' <=> Idle(k)
        /\ \A where \in SUBSET CarryingPcs : Carries(k, d, where)' <=> Carries(k, d, where)
        /\ \A kind : Sent(d, kind)' = Sent(d, kind) /\ Reply(d, kind)' = Reply(d, kind)
    BY <1>3, AgentSameParts
  <2>2. /\ Carries(k, d, {"body"})' <=> Carries(k, d, {"body"})
        /\ Carries(k, d, {"act"})' <=> Carries(k, d, {"act"})
        /\ Carries(k, d, {"act", "reply header"})' <=> Carries(k, d, {"act", "reply header"})
        /\ Carries(k, d, {"reply body"})' <=> Carries(k, d, {"reply body"})
    BY <2>1 DEF CarryingPcs
  <2>3. /\ Sent(d, "header")' = Sent(d, "header") /\ Sent(d, "body")' = Sent(d, "body")
        /\ Reply(d, "header")' = Reply(d, "header") /\ Reply(d, "body")' = Reply(d, "body")
    BY <2>1
  <2>4. PromptPhase(d, k) => PromptPhase(d, k)'
    BY <1>1, <2>1 DEF PromptPhase
  <2>5. BodyPhase(d, k) => BodyPhase(d, k)'
    BY <1>1, <2>1, <2>2, <2>3 DEF BodyPhase
  <2>6. ClosePhase(d, k) => ClosePhase(d, k)'
    BY <1>1, <2>1, <2>2, <2>3 DEF ClosePhase
  <2>7. HeaderPhase(d, k) => HeaderPhase(d, k)'
    BY <1>1, <2>1, <2>2, <2>3 DEF HeaderPhase
  <2>8. ReplyPhase(d, k) => ReplyPhase(d, k)'
    BY <1>1, <2>1, <2>2, <2>3 DEF ReplyPhase
  <2>9. QED BY <1>1, <1>3, <2>4, <2>5, <2>6, <2>7, <2>8 DEF Phase
<1>4. QED BY <1>2, <1>3

LEMMA RequestParts ==
  ASSUME NEW id \in Requests
  PROVE  id[1] \in Clients /\ id[2] \in Nat /\ id = <<id[1], id[2]>>
<1>1. PICK c \in Clients : id \in {c} \X (1..MaxRequests[c])
  BY DEF Requests
<1>2. MaxRequests[c] \in Nat
  BY SessionAssumption
<1>3. QED BY <1>1, <1>2

\* A client that was not gone asks no less than before, or is gone.
AsksOn ==
  \A d \in Clients : \/ client'[d] = client[d]
                     \/ client'[d].pc = "exited"
                     \/ client[d].pc # "exited" /\ client[d].n <= client'[d].n

LEMMA AskedOn ==
  ASSUME ClientTypes, ClientTypes', AsksOn, NEW id \in Requests, Asked(id)
  PROVE  Asked(id)'
<1>1. id[1] \in Clients /\ id[2] \in Nat
  BY RequestParts
<1>2. client[id[1]].n \in Nat /\ client'[id[1]].n \in Nat
  BY <1>1 DEF ClientTypes
<1>3. QED BY <1>1, <1>2 DEF Asked, AsksOn

LEMMA WaitingIn ==
  ASSUME NetTypes, NEW k \in Connections, toServer[k] # << >>
  PROVE  /\ Head(toServer[k]) \in Cells /\ Head(toServer[k]).id \in Requests
         /\ Head(toServer[k]).seq \in 1..MaxSequence
<1>1. toServer[k] \in Seq(Cells)
  BY DEF NetTypes
<1>2. Head(toServer[k]) \in Cells
  BY <1>1, HeadIn
<1>3. QED BY <1>2 DEF Cells

\* Nothing new is asked, read or carried out.
LEMMA IdsKept ==
  ASSUME Types, ClientTypes', AsksOn, Ids, done' = done,
         \A k \in Connections, id \in Requests : Waiting(k, id)' => Waiting(k, id),
         Carrying' => Carrying /\ agent'.id = agent.id,
         agent'.pc \in {"body", "act"} => agent.pc \in {"body", "act"}
  PROVE  Ids'
<1>1. ASSUME NEW k \in Connections, NEW id \in Requests, Waiting(k, id)'
      PROVE  /\ Asked(id)' /\ id \notin ToSet(done')
             /\ Carrying' => id # agent'.id
             /\ \A l \in Connections : Waiting(l, id)' => l = k
  <2>1. Asked(id)
    BY <1>1 DEF Ids
  <2>2. Asked(id)'
    BY <2>1, AskedOn DEF Types
  <2>3. QED BY <1>1, <2>2 DEF Ids
<1>2. Carrying' => Asked(agent.id)'
  BY AskedOn DEF Ids, Types, AgentTypes
<1>3. agent'.pc \in {"body", "act"} => agent'.id \notin ToSet(done')
  BY DEF Ids, Carrying
<1>4. \A id \in ToSet(done') : Asked(id)'
  BY AskedOn, ToSetIn DEF Ids, Types, TableTypes
<1>5. Carrying' => Asked(agent.id)' /\ agent'.id = agent.id
  BY <1>2
<1>6. QED BY <1>1, <1>3, <1>4, <1>5 DEF Ids, Asked

LEMMA AnswersKept ==
  ASSUME Answers, ToSet(done) \subseteq ToSet(done'),
         agent'.pc \in {"reply header", "reply body"} =>
           agent.pc \in {"reply header", "reply body"} /\ agent'.id = agent.id,
         \A k \in Connections : \A i \in DOMAIN toClient'[k] :
           \E j \in DOMAIN toClient[k] : toClient'[k][i] = toClient[k][j]
  PROVE  Answers'
  BY DEF Answers

LEMMA StreamsSame ==
  ASSUME Streams, toServer' = toServer, agent' = agent, Conn' = Conn
  PROVE  Streams'
  BY DEF Streams, Stream, InBody


-----------------------------------------------------------------------------
(***************************************************************************)
(* A client goes from its connection                                       *)
(***************************************************************************)
Leaves(c) ==
  LET k == client[c].conn IN
  /\ k # None
  /\ client'[c].conn = None /\ client'[c].pc \in {"prompt", "exited"}
  /\ client'[c].pc = "exited" \/ (client[c].pc # "exited" /\ client'[c].n = client[c].n)
  /\ \A d \in Clients \ {c} : client'[d] = client[d]
  /\ toClient'[k] = << >> /\ clientEnd'[k] \in {"fin", "rst"}
  /\ \A l \in Connections \ {k} : toClient'[l] = toClient[l] /\ clientEnd'[l] = clientEnd[l]
  /\ UNCHANGED <<toServer, serverEnd, answered>> /\ ClientKeeps

LEMMA ClosesMeans ==
  ASSUME NetTypes, NEW k \in Connections, ClientCloses(k)
  PROVE  /\ toClient'[k] = << >> /\ clientEnd'[k] \in {"fin", "rst"}
         /\ \A l \in Connections \ {k} : toClient'[l] = toClient[l] /\ clientEnd'[l] = clientEnd[l]
<1>1. k # None
  BY DEF Connections, None
<1>2. QED BY <1>1 DEF NetTypes, ClientCloses, CloseSeen

LEMMA LeavesBy ==
  ASSUME Types, Phases, NEW c \in Clients,
         \/ ConnectFails(c) \/ CloseSocket(c) \/ ReplyLost(c) \/ Interrupt(c) \/ Vanishes(c)
  PROVE  Leaves(c) /\ Types'
<1> DEFINE k == client[c].conn
           gone == [Prompt EXCEPT !.pc = "exited"]
           off  == [client[c] EXCEPT !.conn = None]
           back == [client[c] EXCEPT !.pc = "prompt", !.conn = None]
<1> USE DEF Types
<1>1. k # None /\ k \in Connections
  <2>1. k # None
    BY DEF ConnectFails, CloseSocket, ReplyLost, Interrupt, Vanishes, At, Phases, Phase
  <2>2. QED BY <2>1, OfClient
<1>2. client[c] \in AClient /\ client[c].n <= MaxRequests[c] /\ client \in [Clients -> AClient]
  BY DEF ClientTypes, AClient
<1>3. MaxRequests[c] \in Nat /\ 0 \in 0..MaxSequence /\ 0 \in 0..made
  BY SessionAssumption DEF NetTypes
<1>4. /\ gone \in AClient /\ gone.n <= MaxRequests[c] /\ ~Busy(gone)
      /\ gone.pc = "exited" /\ gone.conn = None
  BY <1>3 DEF AClient, Prompt, Busy, None
<1>5. /\ off \in AClient /\ off.n = client[c].n /\ off.pc = client[c].pc /\ off.conn = None
      /\ back \in AClient /\ back.n = client[c].n /\ back.pc = "prompt" /\ back.conn = None
  BY <1>2, <1>3 DEF AClient, None
<1>6. \E r \in {gone, off, back} :
        /\ client' = [client EXCEPT ![c] = r]
        /\ r = off => client[c].pc = "prompt"
        /\ r = back => client[c].pc # "exited"
        /\ r.pc \in {"prompt", "exited"}
  <2>1. CASE ConnectFails(c)
    <3>1. client' = [client EXCEPT ![c] = off] /\ client[c].pc = "prompt"
      BY <2>1, <1>2 DEF ConnectFails, At
    <3>2. QED BY <3>1, <1>5
  <2>2. CASE CloseSocket(c)
    <3>1. CASE client[c].op = "shutdown"
      <4>1. client' = [client EXCEPT ![c] = back] /\ client[c].pc = "close"
        BY <2>2, <3>1, <1>2 DEF CloseSocket, At
      <4>2. off.pc # "prompt"
        BY <4>1, <1>5
      <4>3. QED BY <4>1, <4>2, <1>5
    <3>2. CASE client[c].op # "shutdown"
      <4>1. client' = [client EXCEPT ![c] = gone] /\ client[c].pc = "close"
        BY <2>2, <3>2, <1>2 DEF CloseSocket, At
      <4>2. gone # off /\ gone # back
        BY <4>1, <1>4, <1>5
      <4>3. QED BY <4>1, <4>2, <1>4
    <3>3. QED BY <3>1, <3>2
  <2>3. CASE ReplyLost(c) \/ Interrupt(c) \/ Vanishes(c)
    <3>1. client' = [client EXCEPT ![c] = gone]
      BY <2>3 DEF ReplyLost, Interrupt, Vanishes, Terminates
    <3>2. CASE gone = off
      <4>1. client[c].pc = "exited"
        BY <3>2, <1>4, <1>5
      <4>2. QED BY <4>1, <1>1 DEF Phases, Phase, At
    <3>3. CASE gone # off
      <4>1. gone # back
        BY <1>4, <1>5
      <4>2. QED BY <3>1, <3>3, <4>1, <1>4
    <3>4. QED BY <3>2, <3>3
  <2>4. QED BY <2>1, <2>2, <2>3
<1>7. PICK r \in {gone, off, back} :
        /\ client' = [client EXCEPT ![c] = r]
        /\ r = off => client[c].pc = "prompt"
        /\ r = back => client[c].pc # "exited"
        /\ r.pc \in {"prompt", "exited"}
  BY <1>6
<1>8. /\ r \in AClient /\ r.n <= MaxRequests[c] /\ ~Busy(r) /\ r.conn = None
      /\ r.pc = "exited" \/ (client[c].pc # "exited" /\ r.n = client[c].n)
  <2> HIDE DEF gone, off, back
  <2> QED BY <1>2, <1>4, <1>5, <1>7 DEF Busy
<1>9. ClientKeeps /\ UNCHANGED <<toServer, serverEnd, answered>>
  BY DEF ConnectFails, CloseSocket, ReplyLost, Interrupt, Vanishes, Terminates
<1>10. ClientTypes' /\ client'[c] = r /\ \A d \in Clients \ {c} : client'[d] = client[d]
  <2>1. made' = made /\ answered' \subseteq Requests
    BY <1>9 DEF ClientKeeps, ClientTypes
  <2>2. QED BY <2>1, <1>7, <1>8, ClientBecomes
<1>11. /\ toClient'[k] = << >> /\ clientEnd'[k] \in {"fin", "rst"}
       /\ \A l \in Connections \ {k} : toClient'[l] = toClient[l] /\ clientEnd'[l] = clientEnd[l]
       /\ toClient' \in [Connections -> Seq(Cells)]
       /\ clientEnd' \in [Connections -> {"open", "fin", "rst"}]
  <2>1. CASE ClientCloses(k)
    BY <2>1, <1>1, ClosesMeans, ClosesTypes
  <2>2. CASE Vanishes(c)
    BY <2>2, <1>1 DEF Vanishes, NetTypes
  <2>3. QED BY <2>1, <2>2 DEF ConnectFails, CloseSocket, ReplyLost, Interrupt, Terminates
<1>12. NetTypes'
  BY <1>9, <1>11 DEF NetTypes, ClientKeeps
<1>13. QED BY <1>1, <1>7, <1>8, <1>9, <1>10, <1>11, <1>12, ServerSame DEF Leaves

LEMMA LeavesKeeps ==
  ASSUME IInv, Types', NEW c \in Clients, Leaves(c)
  PROVE  IInv'
<1> DEFINE k == client[c].conn
<1>1. k # None /\ k \in Connections /\ k <= made
  BY OfClient DEF IInv, Types, Leaves
<1>2. /\ toClient'[k] = << >> /\ clientEnd'[k] \in {"fin", "rst"}
      /\ \A l \in Connections \ {k} : toClient'[l] = toClient[l] /\ clientEnd'[l] = clientEnd[l]
      /\ client'[c].conn = None /\ client'[c].pc \in {"prompt", "exited"}
      /\ \A d \in Clients \ {c} : client'[d] = client[d]
  BY DEF Leaves
<1>3. /\ toServer' = toServer /\ serverEnd' = serverEnd /\ agent' = agent /\ Conn' = Conn
      /\ made' = made /\ done' = done
  BY ServerSame DEF Leaves, IInv, Types
<1>4. Unmade'
  <2>1. made \in Int
    BY DEF IInv, Types, NetTypes
  <2>2. QED BY <1>1, <1>2, <1>3, <2>1 DEF IInv, Unmade, Connections
<1>5. Owners'
  <2>1. ASSUME NEW d \in Clients, client'[d].conn # None
        PROVE  d # c /\ client'[d].conn = client[d].conn /\ client[d].conn # k
               /\ client[d].conn \in Connections
    BY <2>1, <1>2, <1>1, OfClient DEF IInv, Owners, Types
  <2>2. \A a, b \in Clients : client'[a].conn = client'[b].conn /\ client'[a].conn # None => a = b
    BY <2>1 DEF IInv, Owners
  <2>3. \A d \in Clients : client'[d].conn # None => clientEnd'[client'[d].conn] = "open"
    BY <2>1, <1>2 DEF IInv, Owners
  <2>4. \A l \in Connections : l <= made' /\ clientEnd'[l] = "open" => \E d \in Clients : client'[d].conn = l
    BY <1>2, <1>3 DEF IInv, Owners
  <2>5. \A l \in Connections : clientEnd'[l] # "open" => toClient'[l] = << >>
    BY <1>2 DEF IInv, Owners
  <2>6. QED BY <2>2, <2>3, <2>4, <2>5, <1>3 DEF IInv, Owners
<1>6. Phases'
  <2>1. SUFFICES ASSUME NEW d \in Clients PROVE Phase(d)'
    BY DEF Phases
  <2>2. CASE d = c
    BY <2>2, <1>2 DEF Phase, At
  <2>3. CASE d # c
    <3>1. client[d].conn # None => client[d].conn \in Connections \ {k}
      BY <2>3, <1>1, OfClient DEF IInv, Owners, Types
    <3>2. client'[d] = client[d] /\ Phase(d)
      BY <2>3, <1>2 DEF IInv, Phases
    <3>3. QED BY <3>1, <3>2, <1>2, <1>3, PhaseSame DEF AgentSame
  <2>4. QED BY <2>2, <2>3
<1>7. Streams'
  BY <1>3, StreamsSame DEF IInv
<1>8. Ids'
  <2>1. AsksOn
    <3>1. client[c].n \in Nat
      BY DEF IInv, Types, ClientTypes
    <3>2. QED BY <3>1, <1>2 DEF AsksOn, Leaves
  <2>2. QED BY <2>1, <1>3, IdsKept DEF IInv, Waiting, Carrying, Types
<1>9. Answers'
  <2>1. ASSUME NEW l \in Connections, NEW i \in DOMAIN toClient'[l]
        PROVE  \E j \in DOMAIN toClient[l] : toClient'[l][i] = toClient[l][j]
    <3>1. l # k
      BY <1>2
    <3>2. QED BY <3>1, <1>2
  <2>2. QED BY <2>1, <1>3, AnswersKept DEF IInv
<1>10. QED BY <1>4, <1>5, <1>6, <1>7, <1>8, <1>9 DEF IInv

-----------------------------------------------------------------------------
(***************************************************************************)
(* The agent lets go of the request it carries, if any                     *)
(***************************************************************************)
LetsGo ==
  /\ UNCHANGED <<client, made, toClient, clientEnd, done>> /\ ~Carrying'
  /\ \A k \in Connections :
       /\ \/ toServer'[k] = toServer[k] /\ serverEnd'[k] = serverEnd[k]
          \/ toServer'[k] = << >> /\ serverEnd'[k] \in {"fin", "rst"} /\ k <= made
       /\ agent.pc = "body" /\ Conn = k =>
            toServer'[k] = << >> /\ (clientEnd[k] # "open" \/ serverEnd'[k] # "open")

LEMMA LetsGoKeeps ==
  ASSUME IInv, Types', LetsGo
  PROVE  IInv'
<1>1. /\ client' = client /\ made' = made /\ toClient' = toClient /\ clientEnd' = clientEnd
      /\ done' = done /\ ~Carrying'
      /\ \A k : Idle(k)' /\ ~InBody(k)'
  BY DEF LetsGo, Idle, InBody, Carrying
<1>2. \A k \in Connections :
        /\ toServer'[k] \in {toServer[k], << >>}
        /\ serverEnd'[k] # "open" => toServer'[k] = << >>
        /\ serverEnd'[k] = "open" => serverEnd[k] = "open" /\ toServer'[k] = toServer[k]
        /\ k > made => toServer'[k] = toServer[k] /\ serverEnd'[k] = serverEnd[k]
        /\ InBody(k) => toServer'[k] = << >> /\ (clientEnd[k] = "open" => serverEnd'[k] # "open")
  <2>1. made \in Int /\ Connections \subseteq Int
    BY DEF IInv, Types, NetTypes, Connections
  <2>2. QED BY <2>1 DEF LetsGo, InBody, IInv, Owners
<1>3. Unmade'
  BY <1>1, <1>2 DEF IInv, Unmade
<1>4. Owners'
  BY <1>1, <1>2 DEF IInv, Owners
<1>5. Phases'
  <2>1. SUFFICES ASSUME NEW d \in Clients PROVE Phase(d)'
    BY DEF Phases
  <2> DEFINE k == client[d].conn
  <2>2. Phase(d) /\ \A pc : At(d, pc)' <=> At(d, pc)
    BY <1>1 DEF IInv, Phases, At
  <2>3. k' = k
    BY <1>1
  <2>4. CASE k = None
    BY <2>2, <2>3, <2>4 DEF Phase
  <2>5. CASE k # None
    <3>1. k \in Connections /\ clientEnd[k] = "open"
      BY <2>5, OfClient DEF IInv, Types, Owners
    <3>2. /\ toClient'[k] = toClient[k] /\ Idle(k)' /\ client'[d] = client[d]
          /\ toServer'[k] \in {toServer[k], << >>}
          /\ toServer'[k] # toServer[k] => serverEnd'[k] # "open"
          /\ serverEnd[k] # "open" => serverEnd'[k] # "open"
          /\ InBody(k) => toServer'[k] = << >> /\ serverEnd'[k] # "open"
      BY <1>1, <1>2, <3>1
    <3>3. \A kind : Sent(d, kind)' = Sent(d, kind) /\ Reply(d, kind)' = Reply(d, kind)
      BY <3>2 DEF Sent, Reply, Id
    <3>4. /\ Sent(d, "header")' = Sent(d, "header") /\ Reply(d, "header")' = Reply(d, "header")
          /\ Sent(d, "body")' = Sent(d, "body") /\ Reply(d, "body")' = Reply(d, "body")
      BY <3>3
    <3>5. Carries(k, d, {"body"}) <=> InBody(k) /\ Carries(k, d, {"body"})
      BY DEF Carries, InBody
    <3>6. PromptPhase(d, k) => PromptPhase(d, k)'
      BY <2>3, <3>2 DEF PromptPhase
    <3>7. BodyPhase(d, k) => BodyPhase(d, k)'
      BY <2>3, <3>2, <3>4, <3>5 DEF BodyPhase
    <3>8. ClosePhase(d, k) => ClosePhase(d, k)'
      BY <2>3, <3>2, <3>4 DEF ClosePhase
    <3>9. HeaderPhase(d, k) => HeaderPhase(d, k)'
      BY <2>3, <3>2, <3>4, <3>5 DEF HeaderPhase
    <3>10. ReplyPhase(d, k) => ReplyPhase(d, k)'
      BY <2>3, <3>2, <3>4 DEF ReplyPhase
    <3>11. QED BY <2>2, <2>3, <2>5, <3>6, <3>7, <3>8, <3>9, <3>10 DEF Phase
  <2>6. QED BY <2>4, <2>5
<1>6. Streams'
  <2>1. SUFFICES ASSUME NEW k \in Connections, toServer'[k] # << >> PROVE Stream(k)'
    BY DEF Streams, Stream
  <2>2. toServer'[k] = toServer[k] /\ ~InBody(k) /\ ~InBody(k)'
    BY <1>1, <1>2, <2>1
  <2>3. Stream(k)
    BY DEF IInv, Streams
  <2>4. QED BY <2>2, <2>3 DEF Stream
<1>7. Ids'
  <2>1. \A k \in Connections, id \in Requests : Waiting(k, id)' => Waiting(k, id)
    BY <1>2 DEF Waiting
  <2>2. AsksOn
    BY <1>1 DEF AsksOn
  <2>3. agent'.pc \notin {"body", "act"}
    BY <1>1 DEF Carrying
  <2>4. QED BY <1>1, <2>1, <2>2, <2>3, IdsKept DEF IInv, Types
<1>8. Answers'
  BY <1>1, AnswersKept DEF IInv, Carrying
<1>9. QED BY <1>3, <1>4, <1>5, <1>6, <1>7, <1>8 DEF IInv

-----------------------------------------------------------------------------
(***************************************************************************)
(* What the agent's steps that let go do                                   *)
(***************************************************************************)
Rest == [pc : {"none", "ended", "check", "stop"}, fd : 0..MaxDescriptors, init : BOOLEAN,
         op : Ops \cup {"none"}, seq : 0..MaxSequence, id : Requests \cup {<< >>}]

LEMMA RestTypes ==
  ASSUME agent' \in Rest
  PROVE  AgentTypes' /\ ~Carrying'
BY DEF Rest, AgentTypes, Carrying

LEMMA RestBy ==
  ASSUME AgentTypes
  PROVE  /\ NoAgent \in Rest /\ [NoAgent EXCEPT !.pc = "ended"] \in Rest
         /\ \A fd \in Descriptors : [NoAgent EXCEPT !.pc = "check", !.fd = fd, !.init = TRUE] \in Rest
         /\ [agent EXCEPT !.pc = "stop", !.init = FALSE] \in Rest
         /\ \A init \in BOOLEAN : Loop(init) => agent' \in Rest
<1>1. 0 \in 0..MaxDescriptors /\ 0 \in 0..MaxSequence /\ Descriptors \subseteq 0..MaxDescriptors
  BY SessionAssumption DEF Descriptors
<1>2. agent.fd \in 0..MaxDescriptors /\ agent.init \in BOOLEAN
  BY DEF AgentTypes
<1>3. NoAgent \in Rest /\ [NoAgent EXCEPT !.pc = "ended"] \in Rest
  BY <1>1 DEF Rest, NoAgent
<1>4. \A fd \in Descriptors : [NoAgent EXCEPT !.pc = "check", !.fd = fd, !.init = TRUE] \in Rest
  BY <1>1 DEF Rest, NoAgent
<1>5. [agent EXCEPT !.pc = "stop", !.init = FALSE] \in Rest
  BY <1>1 DEF Rest, AgentTypes
<1>6. \A init \in BOOLEAN : Loop(init) => agent' \in Rest
  BY <1>1, <1>2 DEF Rest, NoAgent, Loop
<1>7. QED BY <1>3, <1>4, <1>5, <1>6

LEMMA ClosesDescriptor ==
  ASSUME Types, Owners, CloseDescriptor, Conn # None
  PROVE  /\ toServer' \in [Connections -> Seq(Cells)]
         /\ serverEnd' \in [Connections -> {"open", "fin", "rst"}]
         /\ table' \in [Descriptors -> 0..made]
         /\ \A k \in Connections :
              \/ toServer'[k] = toServer[k] /\ serverEnd'[k] = serverEnd[k]
              \/ k = Conn /\ toServer'[k] = << >> /\ serverEnd'[k] \in {"fin", "rst"} /\ k <= made
<1> USE DEF Types
<1>1. Conn \in Connections /\ Conn <= made /\ 0 \in 0..made
  BY OfConn DEF NetTypes
<1>2. CASE agent.init
  <2>1. << >> \in Seq(Cells) /\ CloseSeen(toServer[Conn]) \in {"fin", "rst"}
    BY DEF CloseSeen
  <2>2. QED BY <1>1, <1>2, <2>1 DEF CloseDescriptor, NetTypes, TableTypes, None
<1>3. CASE ~agent.init
  BY <1>3 DEF CloseDescriptor, NetTypes, TableTypes
<1>4. QED BY <1>2, <1>3

\* Steps that touch neither the streams nor the ends.
LEMMA QuietLetsGo ==
  ASSUME IInv, \/ Take
               \/ IsConnected /\ agent'.pc # "header"
               \/ StopAll \/ InsertRefused \/ QueryThrows
  PROVE  Types' /\ LetsGo
<1> USE DEF IInv, Types
<1>1. UNCHANGED <<client, made, answered, toServer, toClient, clientEnd, serverEnd, done, backlog, table>>
  BY DEF Take, IsConnected, StopAll, InsertRefused, QueryThrows, Unanswered, Acts, ServerKeeps, NetKeeps
<1>2. agent' \in Rest
  <2>1. CASE Take
    <3>1. Head(queue) \in Descriptors \cup {Flag}
      BY <2>1, HeadIn DEF Take, TableTypes
    <3>2. QED BY <2>1, <3>1, RestBy DEF Take, Flag
  <2>2. CASE IsConnected /\ agent'.pc # "header"
    <3>1. CASE Become("header")
      <4>1. agent'.pc = "header"
        BY <3>1 DEF Become, AgentTypes
      <4>2. QED BY <4>1, <2>2
    <3>2. CASE agent' = NoAgent
      BY <3>2, RestBy
    <3>3. QED BY <2>2, <3>1, <3>2 DEF IsConnected
  <2>3. CASE StopAll
    BY <2>3, RestBy DEF StopAll
  <2>4. CASE InsertRefused
    <3>1. agent.init \in BOOLEAN
      BY DEF AgentTypes
    <3>2. QED BY <2>4, <3>1, RestBy DEF InsertRefused
  <2>5. CASE QueryThrows
    BY <2>5, RestBy DEF QueryThrows
  <2>6. QED BY <2>1, <2>2, <2>3, <2>4, <2>5
<1>3. /\ queue' \in Seq(Descriptors \cup {Flag}) /\ server' = server /\ stopped' \in BOOLEAN
      /\ held' \in BOOLEAN
  <2>1. CASE Take
    BY <2>1, HeadIn DEF Take, PoolKeeps, TableTypes
  <2>2. CASE StopAll
    <3>1. <<Flag, Flag>> \in Seq(Descriptors \cup {Flag})
      BY Flag \in Descriptors \cup {Flag}
    <3>2. queue \o <<Flag, Flag>> \in Seq(Descriptors \cup {Flag})
      BY <3>1, ConcatProperties DEF TableTypes
    <3>3. QED BY <2>2, <3>2 DEF StopAll, TableTypes
  <2>3. CASE IsConnected \/ InsertRefused \/ QueryThrows
    BY <2>3 DEF IsConnected, InsertRefused, QueryThrows, Unanswered, Acts, PoolKeeps, TableTypes
  <2>4. QED BY <2>1, <2>2, <2>3
<1>4. silent' \subseteq Connections
  <2>1. CASE InsertRefused \/ QueryThrows
    <3>1. Conn \in Connections
      BY <2>1, OfConn DEF InsertRefused, QueryThrows, Agent, AgentTypes, Carrying
    <3>2. QED BY <2>1, <3>1 DEF InsertRefused, QueryThrows, Unanswered, TableTypes
  <2>2. CASE Take \/ IsConnected \/ StopAll
    BY <2>2 DEF Take, IsConnected, StopAll, TableTypes
  <2>3. QED BY <2>1, <2>2
<1>5. TableTypes'
  BY <1>1, <1>3, <1>4 DEF TableTypes, Flag
<1>6. AgentTypes' /\ ~Carrying'
  BY <1>2, RestTypes
<1>7. ClientTypes' /\ NetTypes'
  BY <1>1 DEF ClientTypes, NetTypes, Id
<1>8. agent.pc # "body"
  BY DEF Take, IsConnected, StopAll, InsertRefused, QueryThrows, Agent
<1>9. QED BY <1>1, <1>5, <1>6, <1>7, <1>8 DEF LetsGo

\* Steps that may close the descriptor.
LEMMA ClosingLetsGo ==
  ASSUME IInv, \/ RecvHeader /\ ~Readable
               \/ BodyLost \/ Disconnect \/ Shutdown
  PROVE  Types' /\ LetsGo
<1> USE DEF IInv, Types
<1>1. /\ UNCHANGED <<client, made, answered, toClient, clientEnd, done, backlog, queue, server,
                     stopped, held, silent>>
      /\ Conn # None
  <2>1. CASE RecvHeader /\ ~Readable
    BY <2>1 DEF RecvHeader, PeerClosed, ServerKeeps, PoolKeeps, NetKeeps, Agent, AgentTypes
  <2>2. CASE BodyLost
    BY <2>2 DEF BodyLost, ServerKeeps, PoolKeeps, Agent, AgentTypes, Carrying
  <2>3. CASE Disconnect \/ Shutdown
    BY <2>3 DEF Disconnect, Shutdown, Acts, ServerKeeps, Agent, AgentTypes, Carrying
  <2>4. QED BY <2>1, <2>2, <2>3
<1>2. agent' \in Rest
  <2>1. FALSE \in BOOLEAN /\ agent.init \in BOOLEAN /\ (agent.init /\ ~AtEof) \in BOOLEAN
    BY DEF AgentTypes
  <2>2. Loop(FALSE) \/ Loop(agent.init) \/ Loop(agent.init /\ ~AtEof) => agent' \in Rest
    <3> HIDE DEF AtEof
    <3> QED BY <2>1, RestBy
  <2>3. QED BY <2>2, RestBy DEF RecvHeader, PeerClosed, BodyLost, Disconnect, Shutdown
<1>3. CloseDescriptor \/ UNCHANGED <<table, toServer, serverEnd>>
  BY DEF RecvHeader, PeerClosed, BodyLost, Disconnect, Shutdown, NetKeeps
<1>4. /\ toServer' \in [Connections -> Seq(Cells)]
      /\ serverEnd' \in [Connections -> {"open", "fin", "rst"}]
      /\ table' \in [Descriptors -> 0..made]
      /\ \A k \in Connections :
           \/ toServer'[k] = toServer[k] /\ serverEnd'[k] = serverEnd[k]
           \/ k = Conn /\ toServer'[k] = << >> /\ serverEnd'[k] \in {"fin", "rst"} /\ k <= made
  <2>1. CASE CloseDescriptor
    BY <2>1, <1>1, ClosesDescriptor
  <2>2. CASE UNCHANGED <<table, toServer, serverEnd>>
    BY <2>2 DEF NetTypes, TableTypes
  <2>3. QED BY <2>1, <2>2, <1>3
<1>5. AgentTypes' /\ ~Carrying'
  BY <1>2, RestTypes
<1>6. ClientTypes' /\ NetTypes' /\ TableTypes'
  BY <1>1, <1>4 DEF ClientTypes, NetTypes, TableTypes, Id, Flag
<1>7. agent.pc = "body" => toServer'[Conn] = << >> /\ clientEnd[Conn] # "open"
  <2>1. SUFFICES ASSUME agent.pc = "body" PROVE toServer'[Conn] = << >> /\ clientEnd[Conn] # "open"
    OBVIOUS
  <2>2. toServer[Conn] = << >> /\ clientEnd[Conn] # "open"
    BY <2>1 DEF RecvHeader, BodyLost, Disconnect, Shutdown, Agent, AtEof, IsReset, Readable
  <2>3. Conn \in Connections
    BY <1>1, OfConn
  <2>4. QED BY <2>2, <2>3, <1>4
<1>8. QED BY <1>1, <1>4, <1>5, <1>6, <1>7 DEF LetsGo

LEMMA DownLetsGo ==
  ASSUME IInv, Down
  PROVE  Types' /\ LetsGo
<1> USE DEF IInv, Types
<1> DEFINE waiting == ToSet(backlog)
           closed  == waiting \cup {table[fd] : fd \in Descriptors \ Unused}
<1>1. /\ serverEnd' = [k \in Connections |-> IF k \in waiting THEN "rst"
                                             ELSE IF k \in closed THEN CloseSeen(toServer[k])
                                             ELSE serverEnd[k]]
      /\ toServer' = [k \in Connections |-> IF k \in closed THEN << >> ELSE toServer[k]]
      /\ server' = "down" /\ backlog' = << >> /\ table' = [fd \in Descriptors |-> None]
      /\ queue' = << >> /\ agent' = NoAgent /\ stopped' = FALSE /\ held' = FALSE
      /\ UNCHANGED <<client, made, answered, toClient, clientEnd, silent, done>>
  BY DEF Down, ServerKeeps
<1>2. closed \subseteq 0..made
  <2>1. waiting \subseteq 0..made
    <3>1. ToSet(backlog) \subseteq 1..made
      BY ToSetIn DEF TableTypes
    <3>2. 1..made \subseteq 0..made
      OBVIOUS
    <3>3. QED BY <3>1, <3>2
  <2>2. \A fd \in Descriptors : table[fd] \in 0..made
    BY DEF TableTypes
  <2>3. QED BY <2>1, <2>2
<1>3. Conn # None => Conn \in closed
  BY OfConn DEF Unused
<1>4. ASSUME NEW k \in Connections
      PROVE  /\ \/ k \notin closed /\ toServer'[k] = toServer[k] /\ serverEnd'[k] = serverEnd[k]
                \/ k \in closed /\ toServer'[k] = << >> /\ serverEnd'[k] \in {"fin", "rst"} /\ k <= made
             /\ toServer'[k] \in Seq(Cells) /\ serverEnd'[k] \in {"open", "fin", "rst"}
  <2> DEFINE seen == CloseSeen(toServer[k])
  <2>1. seen \in {"fin", "rst"} /\ << >> \in Seq(Cells)
    BY DEF CloseSeen
  <2>2. k \in closed => k <= made
    BY <1>2 DEF NetTypes
  <2>3. /\ serverEnd'[k] = IF k \in waiting THEN "rst" ELSE IF k \in closed THEN seen ELSE serverEnd[k]
        /\ toServer'[k] = IF k \in closed THEN << >> ELSE toServer[k]
    BY <1>1
  <2>4. k \in waiting => k \in closed
    OBVIOUS
  <2>5. toServer[k] \in Seq(Cells) /\ serverEnd[k] \in {"open", "fin", "rst"}
    BY DEF NetTypes
  <2> HIDE DEF seen, waiting, closed
  <2>6. QED BY <2>1, <2>2, <2>3, <2>4, <2>5
<1>5. NetTypes'
  <2>1. toServer' \in [Connections -> Seq(Cells)]
    BY <1>1, <1>4
  <2>2. serverEnd' \in [Connections -> {"open", "fin", "rst"}]
    <3> HIDE DEF waiting, closed
    <3> QED BY <1>1, <1>4
  <2>3. QED BY <1>1, <2>1, <2>2 DEF NetTypes
<1>6. ClientTypes'
  BY <1>1 DEF ClientTypes, Id
<1>7. TableTypes'
  <2>1. << >> \in Seq(1..made) /\ << >> \in Seq(Descriptors \cup {Flag}) /\ 0 \in 0..made
    BY DEF NetTypes
  <2>2. QED BY <1>1, <2>1 DEF TableTypes, None, Flag
<1>8. AgentTypes' /\ ~Carrying'
  BY <1>1, RestBy, RestTypes
<1>9. agent.pc = "body" => Conn # None
  BY DEF AgentTypes, Carrying
<1>10. QED
  <2>1. ASSUME NEW k \in Connections
        PROVE  /\ \/ toServer'[k] = toServer[k] /\ serverEnd'[k] = serverEnd[k]
                  \/ toServer'[k] = << >> /\ serverEnd'[k] \in {"fin", "rst"} /\ k <= made
               /\ agent.pc = "body" /\ Conn = k =>
                    toServer'[k] = << >> /\ (clientEnd[k] # "open" \/ serverEnd'[k] # "open")
    <3> HIDE DEF waiting, closed
    <3> QED BY <1>3, <1>4, <1>9
  <2>2. QED BY <1>1, <1>5, <1>6, <1>7, <1>8, <2>1 DEF LetsGo

-----------------------------------------------------------------------------
(***************************************************************************)
(* The agent is given a connection, and carries a request out              *)
(***************************************************************************)
LEMMA FrameKeeps ==
  ASSUME IInv, Types', UNCHANGED <<client, made, netVars, done>>,
         (agent' = agent /\ Conn' = Conn) \/ (~Carrying /\ ~Carrying')
  PROVE  IInv'
<1>1. /\ client' = client /\ made' = made /\ toServer' = toServer /\ toClient' = toClient
      /\ clientEnd' = clientEnd /\ serverEnd' = serverEnd /\ done' = done
  BY DEF netVars
<1>2. \A k : AgentSame(k) /\ (InBody(k)' <=> InBody(k))
  BY DEF AgentSame, Idle, InBody, Carrying
<1>3. Unmade' /\ Owners'
  BY <1>1 DEF IInv, Unmade, Owners
<1>4. Phases'
  BY <1>1, <1>2, PhaseSame DEF IInv, Phases
<1>5. Streams'
  <2>1. SUFFICES ASSUME NEW k \in Connections PROVE Stream(k)'
    BY DEF Streams
  <2>2. Stream(k) /\ (InBody(k)' <=> InBody(k))
    BY <1>2 DEF IInv, Streams
  <2>3. CASE InBody(k)
    <3>1. agent' = agent
      BY <2>3 DEF InBody, Carrying
    <3>2. QED BY <2>2, <3>1, <1>1 DEF Stream
  <2>4. CASE ~InBody(k)
    BY <2>2, <2>4, <1>1 DEF Stream
  <2>5. QED BY <2>3, <2>4
<1>6. Ids'
  <2>1. AsksOn
    BY <1>1 DEF AsksOn
  <2>2. \A k \in Connections, id \in Requests : Waiting(k, id)' => Waiting(k, id)
    BY <1>1 DEF Waiting
  <2>3. /\ Carrying' => Carrying /\ agent'.id = agent.id
        /\ agent'.pc \in {"body", "act"} => agent.pc \in {"body", "act"}
    BY DEF Carrying
  <2>4. QED BY <1>1, <2>1, <2>2, <2>3, IdsKept DEF IInv, Types
<1>7. Answers'
  <2>1. agent'.pc \in {"reply header", "reply body"} =>
          agent.pc \in {"reply header", "reply body"} /\ agent'.id = agent.id
    BY DEF Carrying
  <2>2. QED BY <1>1, <2>1, AnswersKept DEF IInv
<1>8. QED BY <1>3, <1>4, <1>5, <1>6, <1>7 DEF IInv

LEMMA AgentBecomes ==
  ASSUME AgentTypes, NEW pc, Become(pc)
  PROVE  /\ agent'.pc = pc /\ agent'.fd = agent.fd /\ agent'.init = agent.init
         /\ agent'.op = agent.op /\ agent'.seq = agent.seq /\ agent'.id = agent.id
         /\ pc \in {"header", "reply header", "reply body"} =>
              agent' \in [pc : {"none", "ended", "check", "header", "body", "act", "stop",
                                "reply header", "reply body"},
                          fd : 0..MaxDescriptors, init : BOOLEAN, op : Ops \cup {"none"},
                          seq : 0..MaxSequence, id : Requests \cup {<< >>}]
BY DEF AgentTypes, Become

LEMMA AcceptKeeps ==
  ASSUME IInv, Accept
  PROVE  IInv'
<1> USE DEF Types
<1>1. PICK fd \in Unused : /\ table' = [table EXCEPT ![fd] = Head(backlog)]
                           /\ queue' = Append(queue, fd)
  BY DEF Accept
<1>2. /\ UNCHANGED <<client, made, answered, agent, silent, done, server, stopped, held, netVars>>
      /\ backlog' = Tail(backlog) /\ backlog # << >>
  BY DEF Accept, ServerKeeps, PoolKeeps, NetKeeps, netVars
<1>3. backlog' \in Seq(1..made) /\ Head(backlog) \in 0..made
  <2>1. Head(backlog) \in 1..made /\ Tail(backlog) \in Seq(1..made)
    BY <1>2, HeadIn DEF IInv, TableTypes
  <2>2. QED BY <1>2, <2>1
<1>4. fd \in Descriptors /\ table[fd] = None
  BY DEF Unused
<1>5. queue' \in Seq(Descriptors \cup {Flag})
  <2>1. queue \in Seq(Descriptors \cup {Flag}) /\ fd \in Descriptors \cup {Flag}
    BY <1>4 DEF IInv, TableTypes
  <2>2. QED BY <1>1, <2>1, AppendProperties
<1>6. TableTypes'
  BY <1>1, <1>2, <1>3, <1>5 DEF IInv, TableTypes, Flag
<1>7. Conn # None => Conn' = Conn
  <2>1. Conn # None => agent.fd \in Descriptors /\ Conn = table[agent.fd] /\ agent.fd # 0
    BY OfConn, SessionAssumption DEF IInv, Descriptors
  <2>2. Conn # None => table'[agent.fd] = table[agent.fd]
    BY <2>1, <1>1, <1>4 DEF IInv, TableTypes
  <2>3. QED BY <1>2, <2>1, <2>2 DEF Conn
<1>8. Carrying \/ agent.pc = "header" => Conn # None
  BY DEF IInv, AgentTypes
<1>9. AgentTypes'
  BY <1>2, <1>7, <1>8 DEF IInv, AgentTypes, Carrying
<1>10. ClientTypes' /\ NetTypes'
  BY <1>2 DEF IInv, ClientTypes, NetTypes, netVars, Id
<1>11. (agent' = agent /\ Conn' = Conn) \/ (~Carrying /\ ~Carrying')
  BY <1>2, <1>7, <1>8 DEF Carrying
<1>12. QED BY <1>2, <1>6, <1>9, <1>10, <1>11, FrameKeeps

LEMMA IsConnectedKeeps ==
  ASSUME IInv, IsConnected, agent'.pc = "header"
  PROVE  IInv'
<1> USE DEF Types
<1>1. /\ UNCHANGED <<client, made, answered, netVars, backlog, table, queue, silent, done, server, stopped, held>>
      /\ agent.pc = "check"
  BY DEF IsConnected, ServerKeeps, PoolKeeps, NetKeeps, netVars, Agent
<1>2. Become("header") /\ Conn # None
  BY DEF IsConnected, NoAgent
<1>3. Conn' = Conn
  BY <1>1, <1>2, AgentBecomes DEF Conn, IInv
<1>4. AgentTypes' /\ ~Carrying /\ ~Carrying'
  BY <1>1, <1>2, <1>3, AgentBecomes DEF IInv, AgentTypes, Carrying
<1>5. ClientTypes' /\ NetTypes' /\ TableTypes'
  BY <1>1 DEF IInv, ClientTypes, NetTypes, TableTypes, netVars, Id, Flag
<1>6. QED BY <1>1, <1>4, <1>5, FrameKeeps

LEMMA RestartKeeps ==
  ASSUME IInv, Restart
  PROVE  IInv'
<1> USE DEF Types
<1>1. /\ UNCHANGED <<client, made, answered, netVars, backlog, table, queue, agent, silent, done, stopped, held>>
      /\ server' = "up"
  BY DEF Restart, ServerKeeps, NetKeeps, netVars
<1>2. Conn' = Conn
  BY <1>1 DEF Conn
<1>3. AgentTypes'
  BY <1>1, <1>2 DEF IInv, AgentTypes, Carrying
<1>4. ClientTypes' /\ NetTypes' /\ TableTypes'
  BY <1>1 DEF IInv, ClientTypes, NetTypes, TableTypes, netVars, Id, Flag
<1>5. QED BY <1>1, <1>2, <1>3, <1>4, FrameKeeps

LEMMA CarriesOutKeeps ==
  ASSUME IInv, InsertOk \/ QueryOk \/ DeleteOk
  PROVE  IInv'
<1> USE DEF Types
<1>1. /\ UNCHANGED <<client, made, answered, toServer, toClient, clientEnd, serverEnd,
                     backlog, table, queue, silent, server, stopped, held>>
      /\ agent.pc = "act" /\ agent.op \in Bodied
      /\ done' = Append(done, agent.id) /\ Become("reply header")
  BY DEF InsertOk, QueryOk, DeleteOk, CarriedOut, Acts, ServerKeeps, NetKeeps, Agent, Bodied
<1>2. /\ agent'.pc = "reply header" /\ agent'.fd = agent.fd /\ agent'.op = agent.op
      /\ agent'.seq = agent.seq /\ agent'.id = agent.id
  BY <1>1, AgentBecomes DEF IInv
<1>3. Conn' = Conn /\ Conn # None
  BY <1>1, <1>2 DEF Conn, IInv, AgentTypes, Carrying
<1>4. agent.id \in Requests /\ agent.op \in Ops /\ agent.seq \in 1..MaxSequence
  BY <1>1 DEF IInv, AgentTypes, Carrying
<1>5. done' \in Seq(Requests) /\ ToSet(done') = ToSet(done) \cup {agent.id}
  <2>1. done \in Seq(Requests)
    BY DEF IInv, TableTypes
  <2>2. /\ Append(done, agent.id) \in Seq(Requests)
        /\ ToSet(Append(done, agent.id)) = ToSet(done) \cup {agent.id}
    BY <2>1, <1>4, ToSetAppend
  <2>3. QED BY <2>2, <1>1
<1>6. AgentTypes'
  BY <1>1, <1>2, <1>3, <1>4, AgentBecomes DEF IInv, AgentTypes, Carrying
<1>7. ClientTypes' /\ NetTypes' /\ TableTypes'
  BY <1>1, <1>5 DEF IInv, ClientTypes, NetTypes, TableTypes, Id, Flag
<1>8. Unmade' /\ Owners'
  BY <1>1 DEF IInv, Unmade, Owners
<1>9. Phases'
  <2>1. SUFFICES ASSUME NEW d \in Clients PROVE Phase(d)'
    BY DEF Phases
  <2> DEFINE k == client[d].conn
  <2>2. Phase(d) /\ client'[d] = client[d]
    BY <1>1 DEF IInv, Phases
  <2>3. CASE Conn # k
    <3>1. AgentSame(k)
      BY <2>2, <2>3, <1>3 DEF AgentSame, Idle
    <3>2. QED BY <2>2, <3>1, <1>1, PhaseSame
  <2>4. CASE Conn = k
    <3>1. /\ ~Idle(k) /\ ~Carries(k, d, {"body"}) /\ ~Carries(k, d, {"reply body"})
          /\ Carries(k, d, {"act"}) => client[d].op \in Bodied
      BY <2>4, <1>1 DEF Idle, Carrying, Carries
    <3>2. /\ ~PromptPhase(d, k) /\ ~BodyPhase(d, k) /\ ~ClosePhase(d, k) /\ ~ReplyPhase(d, k)
      BY <3>1 DEF PromptPhase, BodyPhase, ClosePhase, ReplyPhase
    <3>3. HeaderPhase(d, k) => HeaderPhase(d, k)'
      <4>1. SUFFICES ASSUME HeaderPhase(d, k) PROVE HeaderPhase(d, k)'
        OBVIOUS
      <4>2. /\ client[d].op \in Bodied /\ toServer[k] = << >> /\ toClient[k] = << >>
            /\ Carries(k, d, {"act", "reply header"})
        BY <3>1, <4>1 DEF HeaderPhase
      <4>3. Carries(k, d, {"act", "reply header"})'
        BY <4>2, <1>2, <1>3, <2>2 DEF Carries, Id
      <4>4. QED BY <4>2, <4>3, <1>1, <2>2 DEF HeaderPhase
    <3>4. At(d, "header") => At(d, "header")' /\ k' = k
      BY <2>2 DEF At
    <3>5. \A pc : At(d, pc)' <=> At(d, pc)
      BY <2>2 DEF At
    <3>6. k # None /\ k' = k
      BY <2>2, <2>4, <1>3
    <3>7. QED BY <2>2, <3>2, <3>3, <3>5, <3>6 DEF Phase
  <2>5. QED BY <2>3, <2>4
<1>10. Streams'
  <2>1. \A k : ~InBody(k) /\ ~InBody(k)'
    BY <1>1, <1>2 DEF InBody
  <2>2. QED BY <1>1, <2>1 DEF IInv, Streams, Stream
<1>11. Ids'
  <2>1. AsksOn
    BY <1>1 DEF AsksOn
  <2>2. Asked(agent.id) /\ Carrying
    BY <1>1 DEF IInv, Ids, Carrying
  <2>3. ASSUME NEW k \in Connections, NEW id \in Requests, Waiting(k, id)'
        PROVE  /\ Asked(id)' /\ id \notin ToSet(done') /\ (Carrying' => id # agent'.id)
               /\ \A l \in Connections : Waiting(l, id)' => l = k
    <3>1. \A l : Waiting(l, id)' <=> Waiting(l, id)
      BY <1>1 DEF Waiting
    <3>2. /\ Asked(id) /\ id \notin ToSet(done) /\ id # agent.id
          /\ \A l \in Connections : Waiting(l, id) => l = k
      BY <2>2, <2>3, <3>1 DEF IInv, Ids
    <3>3. Asked(id)'
      BY <1>1, <3>2 DEF Asked
    <3>4. QED BY <3>1, <3>2, <3>3, <1>2, <1>5
  <2>4. Asked(agent.id)'
    BY <1>1, <1>2, <2>2 DEF Asked
  <2>5. agent'.pc \notin {"body", "act"}
    BY <1>2
  <2>6. \A id \in ToSet(done') : Asked(id)'
    <3>1. \A id \in ToSet(done') : Asked(id)
      BY <1>5, <2>2 DEF IInv, Ids
    <3>2. QED BY <3>1, <1>1 DEF Asked
  <2>7. QED BY <1>1, <1>2, <2>2, <2>3, <2>5, <2>6 DEF Ids, Asked
<1>12. Answers'
  BY <1>1, <1>2, <1>5 DEF IInv, Answers
<1>13. QED BY <1>6, <1>7, <1>8, <1>9, <1>10, <1>11, <1>12 DEF IInv

-----------------------------------------------------------------------------
(***************************************************************************)
(* The client's steps                                                      *)
(***************************************************************************)
\* One connection is touched: the clients of others keep their phase.
LEMMA OthersKeep ==
  ASSUME IInv, NEW k, NEW d \in Clients, client'[d] = client[d], client[d].conn # k,
         \A l \in Connections \ {k} :
           /\ toServer'[l] = toServer[l] /\ toClient'[l] = toClient[l] /\ serverEnd'[l] = serverEnd[l]
           /\ \/ agent' = agent /\ Conn' = Conn
              \/ ~(Conn = l /\ Carrying) /\ ~(Conn' = l /\ Carrying')
  PROVE  Phase(d)'
<1> DEFINE l == client[d].conn
<1>1. CASE l = None
  BY <1>1 DEF IInv, Phases, Phase, At
<1>2. CASE l # None
  <2>1. l \in Connections \ {k}
    BY <1>2, OfClient DEF IInv, Types
  <2>2. AgentSame(l)
    BY <2>1 DEF AgentSame, Idle
  <2>3. QED BY <2>1, <2>2, PhaseSame DEF IInv, Phases
<1>3. QED BY <1>1, <1>2

LEMMA ConnectKeeps ==
  ASSUME IInv, NEW c \in Clients, Connect(c)
  PROVE  IInv'
<1> USE DEF Types
<1> DEFINE k == client[c].conn
           m == made + 1
<1>1. /\ At(c, "prompt") /\ made < MaxConnections /\ made' = m
      /\ backlog' = Append(backlog, m) /\ client' = [client EXCEPT ![c].conn = m]
      /\ ClientCloses(k)
      /\ UNCHANGED <<toServer, serverEnd, table, queue, agent, server, stopped, held, silent, done, answered>>
  BY DEF Connect
<1>2. made \in Nat /\ m \in Connections /\ m \in 0..MaxConnections /\ m > made /\ 0..made \subseteq 0..m
  BY <1>1, SessionAssumption DEF IInv, NetTypes, Connections
<1>3. /\ client[c] \in AClient /\ client \in [Clients -> AClient]
      /\ client'[c] = [client[c] EXCEPT !.conn = m]
      /\ \A d \in Clients \ {c} : client'[d] = client[d]
  BY <1>1 DEF IInv, ClientTypes, AClient
<1>4. /\ client'[c].conn = m /\ client'[c].pc = "prompt" /\ client'[c].seq = client[c].seq
      /\ client'[c].op = client[c].op /\ client'[c].n = client[c].n
  BY <1>1, <1>3 DEF AClient, At
<1>5. k = None \/ (k \in Connections /\ k <= made)
  BY OfClient DEF IInv
<1>6. /\ k # None => toClient'[k] = << >> /\ clientEnd'[k] \in {"fin", "rst"}
      /\ \A l \in Connections : l # k => toClient'[l] = toClient[l] /\ clientEnd'[l] = clientEnd[l]
      /\ toClient' \in [Connections -> Seq(Cells)]
      /\ clientEnd' \in [Connections -> {"open", "fin", "rst"}]
  <2>1. CASE k = None
    <3>1. UNCHANGED <<clientEnd, toClient>>
      BY <1>1, <2>1 DEF ClientCloses
    <3>2. QED BY <2>1, <3>1 DEF IInv, NetTypes
  <2>2. CASE k # None
    <3>1. k \in Connections
      BY <2>2, <1>5
    <3>2. NetTypes /\ ClientCloses(k)
      BY <1>1 DEF IInv
    <3>3. /\ toClient'[k] = << >> /\ clientEnd'[k] \in {"fin", "rst"}
          /\ \A l \in Connections \ {k} : toClient'[l] = toClient[l] /\ clientEnd'[l] = clientEnd[l]
      BY <3>1, <3>2, ClosesMeans
    <3>4. /\ toClient' \in [Connections -> Seq(Cells)]
          /\ clientEnd' \in [Connections -> {"open", "fin", "rst"}]
      BY <3>1, <3>2, ClosesTypes
    <3>5. QED BY <3>3, <3>4
  <2>3. QED BY <2>1, <2>2
<1>7. ClientTypes'
  <2>1. client' \in [Clients -> AClient']
    <3>1. \A d \in Clients : client'[d] \in AClient'
      <4>1. \A d \in Clients : client[d] \in AClient
        BY <1>3
      <4>2. AClient \subseteq AClient'
        BY <1>1, <1>2 DEF AClient
      <4>3. client'[c] \in AClient'
        <5>1. m \in 0..made'
          BY <1>1, <1>2
        <5>2. QED BY <5>1, <1>3 DEF AClient
      <4>4. QED BY <4>1, <4>2, <4>3, <1>3
    <3>2. QED BY <3>1, <1>1, <1>3
  <2>2. \A d \in Clients : /\ client'[d].n = client[d].n /\ client'[d].pc = client[d].pc
                           /\ client'[d].seq = client[d].seq /\ client'[d].op = client[d].op
                           /\ Id(d)' = Id(d)
    BY <1>1, <1>3, <1>4 DEF Id, At
  <2>3. QED BY <2>1, <2>2, <1>1 DEF IInv, ClientTypes, AClient
<1>8. NetTypes'
  BY <1>1, <1>2, <1>6 DEF IInv, NetTypes
<1>9. TableTypes'
  <2>1. backlog \in Seq(1..m)
    <3>1. 1..made \subseteq 1..m
      BY <1>2
    <3>2. backlog \in Seq(1..made)
      BY DEF IInv, TableTypes
    <3>3. QED BY <3>1, <3>2, SeqMonotonic
  <2>2. Append(backlog, m) \in Seq(1..m)
    <3>1. m \in 1..m
      BY <1>2
    <3>2. QED BY <2>1, <3>1, AppendProperties
  <2>3. table \in [Descriptors -> 0..m]
    BY <1>2 DEF IInv, TableTypes
  <2>4. QED BY <1>1, <2>2, <2>3 DEF IInv, TableTypes, Flag
<1>10. Conn' = Conn /\ Conn <= made /\ Conn \in Int
  BY <1>1, <1>2, OfConn DEF IInv, Conn
<1>11. AgentTypes'
  BY <1>1, <1>10 DEF IInv, AgentTypes, Carrying
<1>12. toServer[m] = << >> /\ toClient[m] = << >> /\ clientEnd[m] = "open" /\ m # k /\ m # Conn
  BY <1>2, <1>5, <1>10 DEF IInv, Unmade, None
<1>13. Unmade'
  <2>1. SUFFICES ASSUME NEW l \in Connections, l > m
                 PROVE  /\ toServer'[l] = << >> /\ toClient'[l] = << >>
                        /\ clientEnd'[l] = "open" /\ serverEnd'[l] = "open"
    BY <1>1 DEF Unmade
  <2>2. l > made /\ l # k
    BY <2>1, <1>2, <1>5 DEF Connections, None
  <2>3. QED BY <2>2, <1>1, <1>6 DEF IInv, Unmade
<1>14. Owners'
  <2>1. \A d \in Clients \ {c} : client'[d].conn = client[d].conn /\ client[d].conn # m
                                 /\ client[d].conn \in 0..made
    BY <1>2, <1>3, OfClient DEF IInv
  <2>2. \A a, b \in Clients : client'[a].conn = client'[b].conn /\ client'[a].conn # None => a = b
    BY <1>4, <2>1 DEF IInv, Owners
  <2>3. \A d \in Clients : client'[d].conn # None => clientEnd'[client'[d].conn] = "open"
    <3>1. SUFFICES ASSUME NEW d \in Clients, client'[d].conn # None
                   PROVE  clientEnd'[client'[d].conn] = "open"
      OBVIOUS
    <3>2. CASE d = c
      BY <3>2, <1>2, <1>4, <1>6, <1>12
    <3>3. CASE d # c
      <4>1. client[d].conn # None /\ client[d].conn # k /\ client[d].conn \in Connections
        BY <3>1, <3>3, <2>1, OfClient DEF IInv, Owners
      <4>2. QED BY <4>1, <3>3, <2>1, <1>6 DEF IInv, Owners
    <3>4. QED BY <3>2, <3>3
  <2>4. \A l \in Connections : l <= made' /\ clientEnd'[l] = "open" => \E d \in Clients : client'[d].conn = l
    <3>1. SUFFICES ASSUME NEW l \in Connections, l <= m, clientEnd'[l] = "open"
                   PROVE  \E d \in Clients : client'[d].conn = l
      BY <1>1
    <3>2. CASE l = m
      BY <3>2, <1>4
    <3>3. CASE l # m
      <4>1. l <= made /\ l # None
        BY <3>1, <3>3, <1>2 DEF Connections, None
      <4>2. l # k
        BY <3>1, <4>1, <1>6
      <4>3. clientEnd[l] = "open"
        BY <3>1, <4>2, <1>6
      <4>4. PICK d \in Clients : client[d].conn = l
        BY <4>1, <4>3 DEF IInv, Owners
      <4>5. QED BY <4>2, <4>4, <2>1
    <3>4. QED BY <3>2, <3>3
  <2>5. \A l \in Connections : clientEnd'[l] # "open" => toClient'[l] = << >>
    <3>1. SUFFICES ASSUME NEW l \in Connections, clientEnd'[l] # "open" PROVE toClient'[l] = << >>
      OBVIOUS
    <3>2. CASE l = k
      <4>1. k # None
        BY <3>2 DEF Connections, None
      <4>2. QED BY <3>2, <4>1, <1>6
    <3>3. CASE l # k
      BY <3>1, <3>3, <1>6 DEF IInv, Owners
    <3>4. QED BY <3>2, <3>3
  <2>6. QED BY <2>2, <2>3, <2>4, <2>5, <1>1 DEF IInv, Owners
<1>15. Phases'
  <2>1. SUFFICES ASSUME NEW d \in Clients PROVE Phase(d)'
    BY DEF Phases
  <2>2. CASE d = c
    <3>1. toServer'[m] = << >> /\ toClient'[m] = << >> /\ Conn' # m
      BY <1>1, <1>2, <1>6, <1>10, <1>12
    <3>2. QED BY <2>2, <3>1, <1>4 DEF Phase, At, PromptPhase, Idle
  <2>3. CASE d # c
    <3>1. client[d].conn = None \/ client[d].conn # k
      BY <2>3 DEF IInv, Owners
    <3>2. CASE client[d].conn = None
      BY <2>3, <3>2, <1>3 DEF IInv, Phases, Phase, At
    <3>3. CASE client[d].conn # k
      <4>1. \A l \in Connections \ {k} :
              /\ toServer'[l] = toServer[l] /\ toClient'[l] = toClient[l] /\ serverEnd'[l] = serverEnd[l]
              /\ agent' = agent /\ Conn' = Conn
        BY <1>1, <1>6, <1>10
      <4>2. client'[d] = client[d]
        BY <2>3, <1>3
      <4>3. QED BY <3>3, <4>1, <4>2, OthersKeep
    <3>4. QED BY <3>1, <3>2, <3>3
  <2>4. QED BY <2>2, <2>3
<1>16. Streams'
  BY <1>1, <1>10, StreamsSame DEF IInv
<1>17. Ids'
  <2>1. AsksOn
    <3>1. client[c].n \in Nat /\ client[c].pc = "prompt"
      BY <1>1, <1>3 DEF AClient, At
    <3>2. client[c].pc # "exited" /\ client[c].n <= client'[c].n
      BY <3>1, <1>4
    <3>3. QED BY <3>2, <1>3 DEF AsksOn
  <2>2. \A l \in Connections, id \in Requests : Waiting(l, id)' => Waiting(l, id)
    BY <1>1 DEF Waiting
  <2>3. (Carrying' => Carrying /\ agent'.id = agent.id)
        /\ (agent'.pc \in {"body", "act"} => agent.pc \in {"body", "act"})
    BY <1>1 DEF Carrying
  <2>4. QED BY <1>1, <1>7, <2>1, <2>2, <2>3, IdsKept DEF IInv
<1>18. Answers'
  <2>1. ASSUME NEW l \in Connections, NEW i \in DOMAIN toClient'[l]
        PROVE  \E j \in DOMAIN toClient[l] : toClient'[l][i] = toClient[l][j]
    <3>1. l # k
      <4>1. l # None
        BY DEF Connections, None
      <4>2. QED BY <4>1, <1>6, <2>1
    <3>2. QED BY <3>1, <1>6, <2>1
  <2>2. QED BY <2>1, <1>1, AnswersKept DEF IInv
<1>19. QED BY <1>7, <1>8, <1>9, <1>11, <1>13, <1>14, <1>15, <1>16, <1>17, <1>18 DEF IInv

LEMMA SendsMeans ==
  ASSUME NetTypes, NEW k \in Connections, NEW cell \in Cells, ClientSends(k, cell)
  PROVE  /\ \A l \in Connections \ {k} : toServer'[l] = toServer[l] /\ serverEnd'[l] = serverEnd[l]
         /\ serverEnd[k] = "open" =>
              toServer'[k] = Append(toServer[k], cell) /\ serverEnd' = serverEnd
         /\ serverEnd[k] # "open" =>
              toServer'[k] = toServer[k] /\ serverEnd'[k] = "rst"
BY DEF NetTypes, ClientSends

\* Both sends of a client, whose phase is all that remains to be shown.
LEMMA SendsKeep ==
  ASSUME IInv, NEW c \in Clients, NEW cell \in Cells,
         client[c].conn # None, ClientSends(client[c].conn, cell),
         \A d \in Clients \ {c} : client'[d] = client[d],
         client'[c].conn = client[c].conn,
         UNCHANGED <<toClient, clientEnd, answered>>, ClientKeeps, ClientTypes',
         Phase(c)', Stream(client[c].conn)', Ids'
  PROVE  IInv'
<1> USE DEF Types
<1>1. PICK k \in Connections : k = client[c].conn
  BY OfClient DEF IInv
<1>2. /\ k # None /\ ClientSends(k, cell) /\ client'[c].conn = k /\ k <= made
      /\ clientEnd[k] = "open"
  BY <1>1, OfClient DEF IInv, Owners
<1>3. /\ \A l \in Connections \ {k} : toServer'[l] = toServer[l] /\ serverEnd'[l] = serverEnd[l]
      /\ serverEnd[k] = "open" =>
           toServer'[k] = Append(toServer[k], cell) /\ serverEnd' = serverEnd
      /\ serverEnd[k] # "open" =>
           toServer'[k] = toServer[k] /\ serverEnd'[k] = "rst"
  <2>1. NetTypes
    BY DEF IInv
  <2>2. QED BY <1>2, <2>1, SendsMeans
<1>4. TableTypes' /\ AgentTypes' /\ Conn' = Conn /\ agent' = agent /\ done' = done /\ made' = made
  BY ServerSame DEF IInv
<1>5. NetTypes'
  <2>1. /\ toServer' \in [Connections -> Seq(Cells)]
        /\ serverEnd' \in [Connections -> {"open", "fin", "rst"}]
    BY <1>2, ClientSendsTypes DEF IInv
  <2>2. QED BY <2>1, <1>4 DEF IInv, NetTypes
<1>6. Unmade'
  <2>1. \A l \in Connections : l > made => l # k
    BY <1>2 DEF IInv, NetTypes, Connections
  <2>2. QED BY <1>3, <1>4, <2>1 DEF IInv, Unmade
<1>7. Owners'
  <2>1. \A d \in Clients : client'[d].conn = client[d].conn
    OBVIOUS
  <2>2. \A l \in Connections : serverEnd'[l] # "open" => toServer'[l] = << >>
    BY <1>3 DEF IInv, Owners
  <2>3. toClient' = toClient /\ clientEnd' = clientEnd
    OBVIOUS
  <2>4. QED BY <1>4, <2>1, <2>2, <2>3 DEF IInv, Owners
<1>8. Phases'
  <2>1. SUFFICES ASSUME NEW d \in Clients \ {c} PROVE Phase(d)'
    BY DEF Phases
  <2>2. client'[d] = client[d]
    OBVIOUS
  <2>3. CASE client[d].conn = None
    BY <2>2, <2>3 DEF IInv, Phases, Phase, At
  <2>4. CASE client[d].conn # None
    <3>1. client[d].conn # k
      BY <2>4, <1>1 DEF IInv, Owners
    <3>2. \A l \in Connections \ {k} :
            /\ toServer'[l] = toServer[l] /\ toClient'[l] = toClient[l] /\ serverEnd'[l] = serverEnd[l]
            /\ agent' = agent /\ Conn' = Conn
      BY <1>3, <1>4
    <3>3. QED BY <2>2, <3>1, <3>2, OthersKeep
  <2>5. QED BY <2>3, <2>4
<1>9. Streams'
  <2>1. SUFFICES ASSUME NEW l \in Connections PROVE Stream(l)'
    BY DEF Streams
  <2>2. CASE l = k
    BY <2>2, <1>1, <1>2 DEF Stream, InBody
  <2>3. CASE l # k
    <3>1. Stream(l) /\ toServer'[l] = toServer[l]
      BY <2>3, <1>3 DEF IInv, Streams
    <3>2. QED BY <3>1, <1>4 DEF Stream, InBody
  <2>4. QED BY <2>2, <2>3
<1>10. Answers'
  <2>1. toClient' = toClient
    OBVIOUS
  <2>2. QED BY <1>4, <2>1, AnswersKept DEF IInv
<1>11. QED BY <1>4, <1>5, <1>6, <1>7, <1>8, <1>9, <1>10 DEF IInv

LEMMA SequenceIn ==
  ASSUME NEW seq \in 0..MaxSequence
  PROVE  NextSequence(seq) \in 1..MaxSequence
BY SessionAssumption DEF NextSequence

LEMMA SendOrderKeeps ==
  ASSUME IInv, NEW c \in Clients, NEW op \in Ops, SendOrder(c, op)
  PROVE  IInv'
<1> USE DEF Types
<1> DEFINE seq  == NextSequence(client[c].seq)
           n    == client[c].n + 1
           id   == <<c, n>>
           cell == Header(op, seq, id)
           pc   == IF op \in Bodied THEN "body" ELSE "close"
           r    == [client[c] EXCEPT !.pc = pc, !.seq = seq, !.op = op, !.n = n]
<1>1. /\ At(c, "prompt") /\ ClientConnected(c) /\ client[c].n < MaxRequests[c]
      /\ client' = [client EXCEPT ![c] = r] /\ ClientSends(client[c].conn, cell)
      /\ UNCHANGED <<toClient, clientEnd, answered>> /\ ClientKeeps
  BY DEF SendOrder, IInv, ClientTypes
<1>2. client[c] \in AClient /\ MaxRequests[c] \in Nat
  BY SessionAssumption DEF IInv, ClientTypes, AClient
<1>3. n \in 1..MaxRequests[c] /\ n \in Nat /\ client[c].n \in Nat /\ n > client[c].n
  BY <1>1, <1>2 DEF AClient
<1>4. id \in Requests /\ seq \in 1..MaxSequence /\ id[1] = c /\ id[2] = n
  <2>1. id \in Requests
    BY <1>3, RequestIn
  <2>2. client[c].seq \in 0..MaxSequence
    BY <1>2 DEF AClient
  <2>3. QED BY <2>1, <2>2, SequenceIn
<1>5. cell \in Cells /\ cell.k = "header" /\ cell.op = op /\ cell.seq = seq /\ cell.id = id
  <2>1. cell \in Cells
    BY <1>4, CellIn
  <2>2. QED BY <2>1 DEF Header
<1>6. pc \in {"body", "close"} /\ (pc = "body" <=> op \in Bodied)
  OBVIOUS
<1>7. /\ r \in AClient /\ r.pc = pc /\ r.seq = seq /\ r.op = op /\ r.n = n /\ r.conn = client[c].conn
  <2> HIDE DEF pc, seq, n
  <2>1. seq \in 0..MaxSequence
    BY <1>4
  <2>2. QED BY <1>2, <1>3, <1>6, <2>1 DEF AClient
<1> HIDE DEF pc, seq, r, cell
<1>8. ClientTypes' /\ client'[c] = r /\ \A d \in Clients \ {c} : client'[d] = client[d]
  <2>1. made' = made /\ answered' \subseteq Requests
    BY <1>1 DEF IInv, ClientKeeps, ClientTypes
  <2>2. r.n <= MaxRequests[c]
    BY <1>3, <1>7
  <2>3. r.seq \in 1..MaxSequence /\ r.op \in Ops /\ <<c, r.n>> \in Requests
    BY <1>4, <1>7
  <2>4. client' = [client EXCEPT ![c] = r] /\ ClientTypes
    BY <1>1 DEF IInv
  <2>5. QED BY <1>7, <2>1, <2>2, <2>3, <2>4, ClientBecomes
<1>9. PICK k \in Connections : k = client[c].conn
  BY <1>1, OfClient DEF ClientConnected, IInv
<1>10. k # None /\ client'[c].conn = k /\ PromptPhase(c, k)
  BY <1>1, <1>7, <1>8, <1>9 DEF ClientConnected, IInv, Phases, Phase
<1>11. /\ \A l \in Connections \ {k} : toServer'[l] = toServer[l] /\ serverEnd'[l] = serverEnd[l]
       /\ serverEnd[k] = "open" =>
            toServer'[k] = Append(toServer[k], cell) /\ serverEnd' = serverEnd
       /\ serverEnd[k] # "open" =>
            toServer'[k] = toServer[k] /\ serverEnd'[k] = "rst"
  <2>1. ClientSends(k, cell) /\ NetTypes
    BY <1>1, <1>9 DEF IInv
  <2>2. QED BY <1>5, <2>1, SendsMeans
<1>12. toServer'[k] = <<cell>> \/ (toServer'[k] = << >> /\ serverEnd'[k] # "open")
  <2>1. Append(<< >>, cell) = <<cell>>
    BY <1>5, Short
  <2>2. QED BY <1>10, <1>11, <2>1 DEF PromptPhase
<1>13. /\ agent' = agent /\ Conn' = Conn /\ done' = done /\ toClient'[k] = << >> /\ Idle(k)
  BY <1>1, <1>10, ServerSame DEF IInv, PromptPhase
<1>14. <<cell>> # << >> /\ Head(<<cell>>) = cell
  BY <1>5, Short
<1>15. cell = [k |-> "header", op |-> client'[c].op, seq |-> client'[c].seq, id |-> <<c, client'[c].n>>]
  BY <1>7, <1>8 DEF cell, Header
<1>16. Phase(c)'
  <2>1. cell = Sent(c, "header")'
    BY <1>15 DEF Sent, Id
  <2>2. client'[c].pc = pc /\ client'[c].op = op
    BY <1>7, <1>8
  <2>3. CASE op \in Bodied
    <3>1. BodyPhase(c, k)'
      BY <2>1, <2>2, <2>3, <1>12, <1>13 DEF BodyPhase, Idle, Carrying
    <3>2. QED BY <3>1, <2>2, <2>3, <1>6, <1>10 DEF Phase, At
  <2>4. CASE op \notin Bodied
    <3>1. ClosePhase(c, k)'
      BY <2>1, <2>2, <2>4, <1>12, <1>13 DEF ClosePhase, Idle, Carrying
    <3>2. QED BY <3>1, <2>2, <2>4, <1>6, <1>10 DEF Phase, At
  <2>5. QED BY <2>3, <2>4
<1>17. Stream(k)'
  BY <1>5, <1>12, <1>13, <1>14 DEF Stream, Idle, InBody, Carrying
<1>18. Ids'
  <2>0. PICK new \in Requests : new = id
    BY <1>4
  <2>1. AsksOn
    <3>1. client[c].pc # "exited" /\ client[c].n <= client'[c].n
      BY <1>1, <1>3, <1>7, <1>8 DEF At
    <3>2. QED BY <3>1, <1>8 DEF AsksOn
  <2>2. ~Asked(new)
    BY <2>0, <1>1, <1>3, <1>4 DEF Asked, At
  <2>3. Asked(new)'
    BY <2>0, <1>3, <1>4, <1>7, <1>8 DEF Asked
  <2>4. new \notin ToSet(done) /\ (Carrying => agent.id # new)
        /\ \A l \in Connections : ~Waiting(l, new)
    BY <2>2 DEF IInv, Ids
  <2>5. \A l \in Connections, i \in Requests : Waiting(l, i)' => Waiting(l, i) \/ (l = k /\ i = new)
    BY <2>0, <1>5, <1>11, <1>12, <1>14 DEF Waiting
  <2>6. ASSUME NEW l \in Connections, NEW i \in Requests, Waiting(l, i)'
        PROVE  /\ Asked(i)' /\ i \notin ToSet(done') /\ (Carrying' => i # agent'.id)
               /\ \A m \in Connections : Waiting(m, i)' => m = l
    <3>1. CASE l = k /\ i = new
      BY <3>1, <2>3, <2>4, <2>5, <1>13, <1>4 DEF Carrying
    <3>2. CASE Waiting(l, i) /\ i # new
      <4>1. /\ Asked(i) /\ i \notin ToSet(done) /\ (Carrying => i # agent.id)
            /\ \A m \in Connections : Waiting(m, i) => m = l
        BY <3>2 DEF IInv, Ids
      <4>2. Asked(i)'
        BY <4>1, <1>8, <2>1, AskedOn DEF IInv
      <4>3. QED BY <4>1, <4>2, <2>5, <2>6, <3>2, <1>13 DEF Carrying
    <3>3. QED BY <3>1, <3>2, <2>4, <2>5, <2>6
  <2>7. Carrying' => Asked(agent.id)'
    <3>1. Carrying' => Asked(agent.id) /\ agent.id \in Requests
      BY <1>13 DEF IInv, Ids, Carrying, AgentTypes
    <3>2. Carrying' => \A i \in Requests : Asked(i) => Asked(i)'
      BY <1>8, <2>1, AskedOn DEF IInv
    <3>3. QED BY <3>1, <3>2, <1>13 DEF Asked
  <2>8. \A i \in ToSet(done') : Asked(i)'
    <3>1. ASSUME NEW i \in ToSet(done) PROVE Asked(i)'
      <4>1. Asked(i) /\ i \in Requests
        BY ToSetIn DEF IInv, Ids, TableTypes
      <4>2. QED BY <4>1, <1>8, <2>1, AskedOn DEF IInv
    <3>2. QED BY <3>1, <1>13
  <2>9. agent'.pc \in {"body", "act"} => agent'.id \notin ToSet(done')
    BY <1>13 DEF IInv, Ids
  <2>10. QED BY <2>6, <2>7, <2>8, <2>9 DEF Ids
<1>19. QED
  <2>1. Stream(client[c].conn)'
    BY <1>17, <1>10 DEF Stream, InBody
  <2>2. client'[c].conn = client[c].conn /\ client[c].conn # None
    BY <1>9, <1>10
  <2>3. QED BY <1>1, <1>5, <1>8, <1>16, <1>18, <2>1, <2>2, SendsKeep

LEMMA SendBodyKeeps ==
  ASSUME IInv, NEW c \in Clients, SendBody(c)
  PROVE  IInv'
<1> USE DEF Types
<1> DEFINE cell == Body(client[c].op, client[c].seq, Id(c))
<1>1. /\ At(c, "body") /\ ClientSends(client[c].conn, cell) /\ Goto(c, "header")
      /\ UNCHANGED <<toClient, clientEnd, answered>> /\ ClientKeeps
  BY DEF SendBody
<1>2. ClientTypes' /\ Moves(c, "header") /\ client'[c].op = client[c].op
  <2>1. ClientTypes /\ made' = made /\ answered' = answered
    BY <1>1 DEF IInv, ClientKeeps
  <2>2. QED BY <1>1, <2>1, ClientGoes
<1>3. client[c].conn # None /\ BodyPhase(c, client[c].conn)
  BY <1>1 DEF IInv, Phases, Phase
<1>4. PICK k \in Connections : k = client[c].conn
  BY <1>3, OfClient DEF IInv
<1>5. /\ k # None /\ client'[c].conn = k /\ BodyPhase(c, k)
      /\ \A d \in Clients \ {c} : client'[d] = client[d]
  BY <1>2, <1>3, <1>4 DEF Moves
<1>6. client[c].op \in Bodied /\ client[c].op \in Ops /\ client[c].seq \in 1..MaxSequence /\ Id(c) \in Requests
  BY <1>1, <1>5 DEF IInv, ClientTypes, At, BodyPhase
<1>7. /\ cell \in Cells /\ cell.k = "body" /\ cell = Sent(c, "body")
      /\ Sent(c, "header") \in Cells /\ Sent(c, "header").k = "header"
      /\ Sent(c, "header").op \in Bodied /\ Sent(c, "header").op \in Ops
      /\ cell = [Sent(c, "header") EXCEPT !.k = "body"]
      /\ Sent(c, "header").id \in Requests
  <2>1. cell \in Cells
    BY <1>6, CellIn
  <2>2. QED BY <2>1, <1>6 DEF Body, Sent, Cells
<1>8. Sent(c, "header")' = Sent(c, "header") /\ Sent(c, "body")' = Sent(c, "body")
  BY <1>2 DEF Sent, Id, Moves
<1> DEFINE h == Sent(c, "header")
<1> HIDE DEF cell, h
<1>9. /\ \A l \in Connections \ {k} : toServer'[l] = toServer[l] /\ serverEnd'[l] = serverEnd[l]
      /\ serverEnd[k] = "open" =>
           toServer'[k] = Append(toServer[k], cell) /\ serverEnd' = serverEnd
      /\ serverEnd[k] # "open" =>
           toServer'[k] = toServer[k] /\ serverEnd'[k] = "rst" /\ toServer[k] = << >>
  <2>1. ClientSends(k, cell) /\ NetTypes
    BY <1>1, <1>4 DEF IInv
  <2>2. QED BY <1>7, <2>1, SendsMeans DEF IInv, Owners
<1>10. /\ agent' = agent /\ Conn' = Conn /\ done' = done /\ toClient'[k] = << >> /\ toClient[k] = << >>
  BY <1>1, <1>5, ServerSame DEF IInv, BodyPhase
<1>11. /\ Append(<< >>, cell) = <<cell>> /\ Append(<<h>>, cell) = <<h, cell>>
       /\ <<h>> # << >> /\ <<h, cell>> # << >> /\ <<cell>> # << >>
       /\ Head(<<h>>) = h /\ Head(<<h, cell>>) = h /\ Head(<<cell>>) = cell
  <2>1. h \in Cells
    BY <1>7 DEF h
  <2>2. cell \in Cells
    BY <1>7
  <2>3. /\ Append(<< >>, cell) = <<cell>> /\ <<cell>> # << >> /\ Head(<<cell>>) = cell
    BY <2>2, Short
  <2>4. /\ Append(<<h>>, cell) = <<h, cell>> /\ <<h>> # << >> /\ <<h, cell>> # << >>
        /\ Head(<<h>>) = h /\ Head(<<h, cell>>) = h
    BY <2>1, <2>2, Short
  <2>5. QED BY <2>3, <2>4
<1>12. \/ toServer[k] = <<h>> /\ toServer'[k] = <<h, cell>> /\ Idle(k)
       \/ toServer[k] = << >> /\ toServer'[k] = <<cell>> /\ Carries(k, c, {"body"})
       \/ toServer[k] = << >> /\ toServer'[k] = << >> /\ Carries(k, c, {"body"}) /\ serverEnd'[k] # "open"
       \/ toServer[k] = << >> /\ toServer'[k] = << >> /\ Idle(k)
  <2>1. \/ toServer[k] = <<h>> /\ Idle(k)
        \/ toServer[k] = << >> /\ Carries(k, c, {"body"})
        \/ toServer[k] = << >> /\ Idle(k) /\ serverEnd[k] # "open"
    BY <1>5 DEF BodyPhase, h
  <2>2. QED BY <2>1, <1>9, <1>11
<1>13. (Idle(k)' <=> Idle(k)) /\ (Carries(k, c, {"body"})' <=> Carries(k, c, {"body"}))
  BY <1>2, <1>10 DEF Idle, Carrying, Carries, Moves, Id
<1>14. Phase(c)'
  <2>1. HeaderPhase(c, k)'
    <3>1. toServer'[k] = <<h, cell>> => toServer'[k] = <<Sent(c, "header")', Sent(c, "body")'>>
      BY <1>7, <1>8 DEF h
    <3>2. toServer'[k] = <<cell>> => toServer'[k] = <<Sent(c, "body")'>>
      BY <1>7, <1>8
    <3>3. QED BY <3>1, <3>2, <1>2, <1>6, <1>10, <1>12, <1>13 DEF HeaderPhase
  <2>2. client'[c].pc = "header"
    BY <1>2 DEF Moves
  <2>3. QED BY <2>1, <2>2, <1>5 DEF Phase, At
<1>15. Stream(k)'
  <2>1. InBody(k)' <=> InBody(k)
    BY <1>10 DEF InBody
  <2>2. Idle(k) => ~InBody(k)
    BY DEF Idle, InBody, Carrying
  <2>3. CASE toServer'[k] = <<h, cell>> /\ Idle(k)
    <3>1. Head(toServer'[k]) = h /\ h.k = "header" /\ h.op \in Ops /\ h.op \in Bodied
          /\ cell = [h EXCEPT !.k = "body"]
      BY <2>3, <1>7, <1>11 DEF h
    <3>2. QED BY <2>1, <2>2, <2>3, <3>1 DEF Stream
  <2>4. CASE toServer'[k] = <<cell>> /\ Carries(k, c, {"body"})
    <3>1. cell = Body(agent'.op, agent'.seq, agent'.id) /\ InBody(k)'
      BY <2>1, <2>4, <1>10 DEF Carries, cell, InBody
    <3>2. QED BY <2>4, <3>1 DEF Stream
  <2>5. CASE toServer'[k] = << >>
    BY <2>5 DEF Stream
  <2>6. QED BY <2>3, <2>4, <2>5, <1>12
<1>16. Ids'
  <2>1. AsksOn
    <3>1. client[c].pc # "exited" /\ client[c].n \in Nat /\ client'[c].n = client[c].n
      BY <1>1, <1>2 DEF At, IInv, ClientTypes, Moves
    <3>2. client[c].n <= client'[c].n
      BY <3>1
    <3>3. QED BY <1>5, <3>1, <3>2 DEF AsksOn
  <2>2. ASSUME NEW l \in Connections, NEW i \in Requests, Waiting(l, i)' PROVE Waiting(l, i)
    <3>1. CASE l = k
      BY <2>2, <3>1, <1>7, <1>11, <1>12 DEF Waiting
    <3>2. CASE l # k
      BY <2>2, <3>2, <1>9 DEF Waiting
    <3>3. QED BY <3>1, <3>2
  <2>3. (Carrying' => Carrying /\ agent'.id = agent.id)
        /\ (agent'.pc \in {"body", "act"} => agent.pc \in {"body", "act"})
    BY <1>10 DEF Carrying
  <2>4. QED BY <1>2, <1>10, <2>1, <2>2, <2>3, IdsKept DEF IInv
<1>17. QED
  <2>1. Stream(client[c].conn)'
    BY <1>15, <1>5 DEF Stream, InBody
  <2>2. client'[c].conn = client[c].conn /\ client[c].conn # None
    BY <1>4, <1>5
  <2>3. QED BY <1>1, <1>2, <1>5, <1>7, <1>14, <1>16, <2>1, <2>2, SendsKeep

\* Both reads of a client.
LEMMA ReadsKeep ==
  ASSUME IInv, NEW c \in Clients, NEW k \in Connections, k = client[c].conn,
         toClient[k] # << >>, toClient' = [toClient EXCEPT ![k] = Tail(@)],
         \A d \in Clients \ {c} : client'[d] = client[d],
         client'[c].conn = k, client'[c].n = client[c].n, client[c].pc # "exited",
         UNCHANGED <<toServer, clientEnd, serverEnd>>, ClientKeeps, ClientTypes', Phase(c)'
  PROVE  IInv'
<1> USE DEF Types
<1>1. TableTypes' /\ AgentTypes' /\ Conn' = Conn /\ agent' = agent /\ done' = done /\ made' = made
  BY ServerSame DEF IInv
<1>2. k # None /\ k <= made /\ clientEnd[k] = "open"
  BY OfClient DEF IInv, Owners, Connections, None
<1>3. /\ toClient[k] \in Seq(Cells) /\ toClient'[k] = Tail(toClient[k])
      /\ \A l \in Connections \ {k} : toClient'[l] = toClient[l]
  BY DEF IInv, NetTypes
<1>4. NetTypes'
  <2>1. Tail(toClient[k]) \in Seq(Cells)
    BY <1>3, HeadIn
  <2>2. QED BY <2>1, <1>1 DEF IInv, NetTypes
<1>5. Unmade'
  <2>1. \A l \in Connections : l > made => l # k
    BY <1>2 DEF IInv, NetTypes, Connections
  <2>2. QED BY <1>1, <1>3, <2>1 DEF IInv, Unmade
<1>6. Owners'
  <2>1. \A d \in Clients : client'[d].conn = client[d].conn
    OBVIOUS
  <2>2. \A l \in Connections : clientEnd'[l] # "open" => toClient'[l] = << >>
    BY <1>2, <1>3 DEF IInv, Owners
  <2>3. clientEnd' = clientEnd /\ serverEnd' = serverEnd /\ toServer' = toServer
    OBVIOUS
  <2>4. QED BY <1>1, <2>1, <2>2, <2>3 DEF IInv, Owners
<1>7. Phases'
  <2>1. SUFFICES ASSUME NEW d \in Clients \ {c} PROVE Phase(d)'
    BY DEF Phases
  <2>2. client'[d] = client[d]
    OBVIOUS
  <2>3. CASE client[d].conn = None
    BY <2>2, <2>3 DEF IInv, Phases, Phase, At
  <2>4. CASE client[d].conn # None
    <3>1. client[d].conn # k
      BY <2>4 DEF IInv, Owners
    <3>2. \A l \in Connections \ {k} :
            /\ toServer'[l] = toServer[l] /\ toClient'[l] = toClient[l] /\ serverEnd'[l] = serverEnd[l]
            /\ agent' = agent /\ Conn' = Conn
      BY <1>1, <1>3
    <3>3. QED BY <2>2, <3>1, <3>2, OthersKeep
  <2>5. QED BY <2>3, <2>4
<1>8. Streams'
  BY <1>1, StreamsSame DEF IInv
<1>9. Ids'
  <2>1. AsksOn
    <3>1. client[c].n \in Nat
      BY DEF IInv, ClientTypes
    <3>2. client[c].n <= client'[c].n
      BY <3>1
    <3>3. QED BY <3>2 DEF AsksOn
  <2>2. \A l \in Connections, i \in Requests : Waiting(l, i)' => Waiting(l, i)
    BY DEF Waiting
  <2>3. (Carrying' => Carrying /\ agent'.id = agent.id)
        /\ (agent'.pc \in {"body", "act"} => agent.pc \in {"body", "act"})
    BY <1>1 DEF Carrying
  <2>4. QED BY <1>1, <2>1, <2>2, <2>3, IdsKept DEF IInv
<1>10. Answers'
  <2>1. ASSUME NEW l \in Connections, NEW i \in DOMAIN toClient'[l]
        PROVE  \E j \in DOMAIN toClient[l] : toClient'[l][i] = toClient[l][j]
    <3>1. CASE l # k
      BY <3>1, <2>1, <1>3
    <3>2. CASE l = k
      <4>1. /\ Tail(toClient[k]) \in Seq(Cells) /\ Len(Tail(toClient[k])) = Len(toClient[k]) - 1
            /\ Len(toClient[k]) \in Nat
            /\ \A j \in 1..Len(Tail(toClient[k])) : Tail(toClient[k])[j] = toClient[k][j + 1]
        BY <1>3, HeadTailProperties
      <4>2. i \in 1..Len(Tail(toClient[k])) /\ DOMAIN toClient[k] = 1..Len(toClient[k])
        <5>1. /\ DOMAIN Tail(toClient[k]) = 1..Len(Tail(toClient[k]))
              /\ DOMAIN toClient[k] = 1..Len(toClient[k])
          BY <4>1, <1>3, LenProperties
        <5>2. QED BY <5>1, <3>2, <1>3, <2>1
      <4>3. i + 1 \in DOMAIN toClient[k] /\ toClient'[k][i] = toClient[k][i + 1]
        <5>1. i \in 1..(Len(toClient[k]) - 1) /\ toClient'[k][i] = toClient[k][i + 1]
          BY <4>1, <4>2, <1>3
        <5>2. i + 1 \in 1..Len(toClient[k])
          BY <5>1, <4>1
        <5>3. QED BY <5>1, <5>2, <4>2
      <4>4. QED BY <4>3, <3>2
    <3>3. QED BY <3>1, <3>2
  <2>2. QED BY <2>1, <1>1, AnswersKept DEF IInv
<1>11. QED BY <1>1, <1>4, <1>5, <1>6, <1>7, <1>8, <1>9, <1>10 DEF IInv

LEMMA RecvReplyHeaderKeeps ==
  ASSUME IInv, NEW c \in Clients, RecvReplyHeader(c)
  PROVE  IInv'
<1> USE DEF Types
<1>1. /\ At(c, "header") /\ toClient[client[c].conn] # << >>
      /\ toClient' = [toClient EXCEPT ![client[c].conn] = Tail(@)] /\ Goto(c, "reply")
      /\ UNCHANGED <<toServer, clientEnd, serverEnd, answered>> /\ ClientKeeps
  BY DEF RecvReplyHeader
<1>2. ClientTypes' /\ Moves(c, "reply") /\ client'[c].op = client[c].op
  <2>1. ClientTypes /\ made' = made /\ answered' = answered
    BY <1>1 DEF IInv, ClientKeeps
  <2>2. QED BY <1>1, <2>1, ClientGoes
<1>3. client[c].conn # None /\ HeaderPhase(c, client[c].conn)
  BY <1>1 DEF IInv, Phases, Phase
<1>4. PICK k \in Connections : k = client[c].conn
  BY <1>3, OfClient DEF IInv
<1>5. /\ k # None /\ client'[c].conn = k /\ HeaderPhase(c, k) /\ toClient[k] # << >>
      /\ toClient' = [toClient EXCEPT ![k] = Tail(@)] /\ toClient'[k] = Tail(toClient[k])
      /\ \A d \in Clients \ {c} : client'[d] = client[d]
  BY <1>1, <1>2, <1>3, <1>4 DEF Moves, IInv, NetTypes
<1>6. Reply(c, "header") \in Cells /\ Reply(c, "body") \in Cells
  BY <1>1 DEF IInv, ClientTypes, At, Reply, Cells
<1> DEFINE h == Reply(c, "header")
           b == Reply(c, "body")
<1>7. Tail(<<h>>) = << >> /\ Tail(<<h, b>>) = <<b>>
  <2> HIDE DEF h, b
  <2>1. h \in Cells /\ b \in Cells
    BY <1>6 DEF h, b
  <2>2. QED BY <2>1, Short
<1>8. \/ toServer[k] = << >> /\ Carries(k, c, {"reply body"}) /\ toClient[k] = <<h>>
      \/ toServer[k] = << >> /\ Idle(k) /\ toClient[k] \in {<<h>>, <<h, b>>}
  BY <1>5 DEF HeaderPhase
<1>9. Reply(c, "body")' = b /\ agent' = agent /\ Conn' = Conn
  BY <1>1, <1>2, ServerSame DEF Reply, Id, Moves, IInv
<1>10. (Idle(k)' <=> Idle(k)) /\ (Carries(k, c, {"reply body"})' <=> Carries(k, c, {"reply body"}))
  BY <1>2, <1>9 DEF Idle, Carrying, Carries, Moves, Id
<1>11. ReplyPhase(c, k)'
  <2>1. client'[c].op \in Bodied /\ toServer'[k] = << >>
    BY <1>1, <1>2, <1>5, <1>8 DEF HeaderPhase
  <2> HIDE DEF h, b
  <2>2. QED BY <2>1, <1>5, <1>7, <1>8, <1>9, <1>10 DEF ReplyPhase
<1>12. Phase(c)'
  <2>1. client'[c].pc = "reply"
    BY <1>2 DEF Moves
  <2>2. QED BY <2>1, <1>5, <1>11 DEF Phase, At
<1>13. client'[c].n = client[c].n /\ client[c].pc # "exited"
  BY <1>1, <1>2 DEF Moves, At
<1>14. QED BY <1>1, <1>2, <1>4, <1>5, <1>12, <1>13, ReadsKeep

LEMMA RecvReplyBodyKeeps ==
  ASSUME IInv, NEW c \in Clients, RecvReplyBody(c)
  PROVE  IInv'
<1> USE DEF Types
<1> DEFINE r == [client[c] EXCEPT !.pc = "prompt", !.op = "none"]
<1>1. /\ At(c, "reply") /\ toClient[client[c].conn] # << >>
      /\ toClient' = [toClient EXCEPT ![client[c].conn] = Tail(@)]
      /\ client' = [client EXCEPT ![c].pc = "prompt", ![c].op = "none"]
      /\ answered' = answered \cup {Head(toClient[client[c].conn]).id}
      /\ UNCHANGED <<toServer, clientEnd, serverEnd>> /\ ClientKeeps
  BY DEF RecvReplyBody
<1>2. client[c].conn # None /\ ReplyPhase(c, client[c].conn)
  BY <1>1 DEF IInv, Phases, Phase
<1>3. PICK k \in Connections : k = client[c].conn
  BY <1>2, OfClient DEF IInv
<1>4. client[c] \in AClient /\ client \in [Clients -> AClient] /\ client[c].n <= MaxRequests[c]
  BY DEF IInv, ClientTypes, AClient
<1>5. client' = [client EXCEPT ![c] = r]
  BY <1>1, <1>4 DEF AClient
<1>6. /\ r \in AClient /\ r.pc = "prompt" /\ r.conn = client[c].conn /\ r.n = client[c].n /\ ~Busy(r)
  BY <1>4 DEF AClient, Busy
<1>7. Head(toClient[k]).id \in Requests
  <2>1. toClient[k] \in Seq(Cells) /\ toClient[k] # << >>
    BY <1>1, <1>3 DEF IInv, NetTypes
  <2>2. Head(toClient[k]) \in Cells
    BY <2>1, HeadIn
  <2>3. QED BY <2>2 DEF Cells
<1>8. ClientTypes' /\ client'[c] = r /\ \A d \in Clients \ {c} : client'[d] = client[d]
  <2>1. made' = made /\ answered' \subseteq Requests
    BY <1>1, <1>3, <1>7 DEF IInv, ClientKeeps, ClientTypes
  <2>2. r.n <= MaxRequests[c] /\ ClientTypes
    BY <1>4, <1>6 DEF IInv
  <2> HIDE DEF r
  <2>3. QED BY <1>5, <1>6, <2>1, <2>2, ClientBecomes
<1>9. /\ k # None /\ client'[c].conn = k /\ ReplyPhase(c, k) /\ toClient[k] # << >>
      /\ toClient' = [toClient EXCEPT ![k] = Tail(@)] /\ toClient'[k] = Tail(toClient[k])
  BY <1>1, <1>2, <1>3, <1>6, <1>8 DEF IInv, NetTypes
<1>10. /\ toServer[k] = << >> /\ Idle(k) /\ toClient'[k] = << >>
  <2>1. toServer[k] = << >> /\ Idle(k) /\ toClient[k] = <<Reply(c, "body")>>
    BY <1>9 DEF ReplyPhase
  <2>2. Tail(<<Reply(c, "body")>>) = << >>
    OBVIOUS
  <2>3. QED BY <2>1, <2>2, <1>9
<1>11. Phase(c)'
  <2>1. agent' = agent /\ Conn' = Conn
    BY <1>1, ServerSame DEF IInv
  <2>2. Idle(k)'
    BY <2>1, <1>10 DEF Idle, Carrying
  <2>3. client'[c].pc = "prompt"
    BY <1>6, <1>8
  <2>4. PromptPhase(c, k)'
    BY <1>1, <1>10, <2>2 DEF PromptPhase
  <2>5. QED BY <2>3, <2>4, <1>9 DEF Phase, At
<1>12. client'[c].n = client[c].n /\ client[c].pc # "exited"
  BY <1>1, <1>6, <1>8 DEF At
<1>13. QED BY <1>1, <1>3, <1>8, <1>9, <1>11, <1>12, ReadsKeep

-----------------------------------------------------------------------------
(***************************************************************************)
(* The agent receives and replies                                          *)
(***************************************************************************)
LEMMA ReceivesMeans ==
  ASSUME IInv, NEW k \in Connections, k = Conn, Readable, NEW pc, Receives(pc),
         UNCHANGED <<client, made, answered, backlog, table, queue, server, stopped, held, silent, done>>
  PROVE  /\ toServer'[k] = Tail(toServer[k]) /\ toServer[k] # << >>
         /\ \A l \in Connections \ {k} : toServer'[l] = toServer[l]
         /\ Head(toServer[k]) \in Cells
         /\ agent'.pc = pc /\ agent'.op = Head(toServer[k]).op
         /\ agent'.seq = Head(toServer[k]).seq /\ agent'.id = Head(toServer[k]).id
         /\ Conn' = k
         /\ ClientTypes' /\ NetTypes' /\ TableTypes' /\ Unmade' /\ Owners'
         /\ pc \in {"body", "act"} /\ Head(toServer[k]).op \in Ops
              /\ (pc = "body" => Head(toServer[k]).op \in Bodied) => AgentTypes'
<1> USE DEF Types
<1> DEFINE cell == Head(toServer[k])
<1>1. /\ toServer' = [toServer EXCEPT ![k] = Tail(@)]
      /\ agent' = [agent EXCEPT !.pc = pc, !.op = cell.op, !.seq = cell.seq, !.id = cell.id]
      /\ UNCHANGED <<toClient, clientEnd, serverEnd>> /\ toServer[k] # << >>
  BY DEF Receives, Readable
<1>2. toServer \in [Connections -> Seq(Cells)] /\ toServer[k] \in Seq(Cells)
  BY DEF IInv, NetTypes
<1>3. toServer'[k] = Tail(toServer[k]) /\ \A l \in Connections \ {k} : toServer'[l] = toServer[l]
  BY <1>1, <1>2
<1>4. cell \in Cells /\ Tail(toServer[k]) \in Seq(Cells)
  BY <1>1, <1>2, HeadIn
<1>5. cell.seq \in 1..MaxSequence /\ cell.id \in Requests /\ cell.seq \in 0..MaxSequence
  BY <1>4, SessionAssumption DEF Cells
<1>6. /\ agent'.pc = pc /\ agent'.op = cell.op /\ agent'.seq = cell.seq /\ agent'.id = cell.id
      /\ agent'.fd = agent.fd /\ agent'.init = agent.init
  BY <1>1 DEF IInv, AgentTypes
<1>7. Conn' = k
  BY <1>6 DEF Conn
<1>8. ClientTypes' /\ TableTypes'
  BY DEF IInv, ClientTypes, TableTypes, Id, Flag
<1>9. NetTypes'
  BY <1>1, <1>4 DEF IInv, NetTypes
<1>10. Unmade'
  <2>1. k <= made
    BY OfConn DEF IInv, Connections, None
  <2>2. \A l \in Connections : l > made => l # k
    BY <2>1 DEF IInv, NetTypes, Connections
  <2>3. QED BY <2>2, <1>1, <1>3 DEF IInv, Unmade
<1>11. Owners'
  <2>1. \A l \in Connections : serverEnd'[l] # "open" => toServer'[l] = << >>
    BY <1>1, <1>3 DEF IInv, Owners
  <2>2. client' = client /\ made' = made /\ toClient' = toClient /\ clientEnd' = clientEnd
    BY <1>1
  <2>3. QED BY <2>1, <2>2 DEF IInv, Owners
<1>12. ASSUME pc \in {"body", "act"}, cell.op \in Ops, pc = "body" => cell.op \in Bodied PROVE AgentTypes'
  <2>1. agent' \in [pc : {"none", "ended", "check", "header", "body", "act", "stop",
                          "reply header", "reply body"},
                    fd : 0..MaxDescriptors, init : BOOLEAN, op : Ops \cup {"none"},
                    seq : 0..MaxSequence, id : Requests \cup {<< >>}]
    <3> HIDE DEF cell
    <3>1. agent' = [agent EXCEPT !.pc = pc, !.op = cell.op, !.seq = cell.seq, !.id = cell.id]
      BY <1>1
    <3>2. QED BY <3>1, <1>5, <1>12 DEF IInv, AgentTypes
  <2>2. Conn' # None
    BY <1>7 DEF Connections, None
  <2>3. QED BY <2>1, <2>2, <1>5, <1>6, <1>12 DEF AgentTypes, Carrying
<1>13. QED BY <1>1, <1>3, <1>4, <1>6, <1>7, <1>8, <1>9, <1>10, <1>11, <1>12

LEMMA RecvHeaderKeeps ==
  ASSUME IInv, RecvHeader, Readable
  PROVE  IInv'
<1> USE DEF Types
<1> DEFINE h  == Head(toServer[Conn])
           pc == AfterHeader(h.op)
<1>1. /\ agent.pc = "header" /\ Receives(pc)
      /\ UNCHANGED <<client, made, answered, backlog, table, queue, server, stopped, held, silent, done>>
  BY DEF RecvHeader, Agent, ServerKeeps, PoolKeeps, PeerClosed, AtEof, IsReset
<1>2. PICK k \in Connections : k = Conn
  BY <1>1, OfConn DEF IInv, AgentTypes
<1>3. /\ toServer'[k] = Tail(toServer[k]) /\ toServer[k] # << >>
      /\ \A l \in Connections \ {k} : toServer'[l] = toServer[l]
      /\ h \in Cells /\ h = Head(toServer[k])
      /\ agent'.pc = pc /\ agent'.op = h.op /\ agent'.seq = h.seq /\ agent'.id = h.id
      /\ Conn' = k
      /\ ClientTypes' /\ NetTypes' /\ TableTypes' /\ Unmade' /\ Owners'
      /\ pc \in {"body", "act"} /\ h.op \in Ops /\ (pc = "body" => h.op \in Bodied) => AgentTypes'
  <2>1. h = Head(toServer[k])
    BY <1>2
  <2>2. QED BY <1>1, <1>2, <2>1, ReceivesMeans
<1>4. /\ UNCHANGED <<toClient, clientEnd, serverEnd>> /\ client' = client /\ done' = done
  BY <1>1 DEF Receives
<1>5. ~Carrying /\ (\A l : Idle(l) /\ ~InBody(l))
  BY <1>1 DEF Carrying, Idle, InBody
<1> DEFINE b == [h EXCEPT !.k = "body"]
<1>6. /\ h.k = "header" /\ h.op \in Ops
      /\ toServer[k] = <<h>> \/ (h.op \in Bodied /\ toServer[k] = <<h, b>>)
  BY <1>3, <1>5 DEF IInv, Streams, Stream
<1>7. b \in Cells /\ b.k = "body" /\ b = Body(h.op, h.seq, h.id)
  BY <1>3 DEF Cells, Body
<1>8. Tail(<<h>>) = << >> /\ Tail(<<h, b>>) = <<b>> /\ Head(<<b>>) = b /\ <<b>> # << >>
      /\ <<h>> # <<h, b>> /\ <<h>> # << >> /\ <<h, b>> # << >> /\ Head(<<h, b>>) = h /\ Head(<<h>>) = h
  <2> HIDE DEF b, h
  <2>1. h \in Cells /\ b \in Cells
    BY <1>3, <1>7
  <2>2. QED BY <2>1, Short
<1>9. pc \in {"body", "act"} /\ (pc = "body" <=> h.op \in Bodied)
  BY DEF AfterHeader
<1>10. AgentTypes' /\ Carrying'
  BY <1>3, <1>6, <1>9 DEF Carrying
<1> HIDE DEF h, b, pc
<1>11. toServer'[k] = << >> \/ (h.op \in Bodied /\ toServer[k] = <<h, b>> /\ toServer'[k] = <<b>>)
  BY <1>3, <1>6, <1>8
<1>12. Phases'
  <2>1. SUFFICES ASSUME NEW d \in Clients PROVE Phase(d)'
    BY DEF Phases
  <2>2. client'[d] = client[d] /\ Phase(d)
    BY <1>4 DEF IInv, Phases
  <2>3. CASE client[d].conn # k
    <3>1. \A l \in Connections \ {k} :
            /\ toServer'[l] = toServer[l] /\ toClient'[l] = toClient[l] /\ serverEnd'[l] = serverEnd[l]
            /\ ~(Conn = l /\ Carrying) /\ ~(Conn' = l /\ Carrying')
      BY <1>3, <1>4, <1>5
    <3>2. QED BY <2>2, <2>3, <3>1, OthersKeep
  <2>4. CASE client[d].conn = k
    <3>1. k # None /\ client'[d].conn = k /\ \A p : At(d, p)' <=> At(d, p)
      BY <2>2, <2>4 DEF At, Connections, None
    <3>2. Sent(d, "body")' = Sent(d, "body") /\ Id(d)' = Id(d) /\ client'[d].op = client[d].op
      BY <2>2 DEF Sent, Id
    <3>3. ~PromptPhase(d, k) /\ ~ReplyPhase(d, k)
      BY <1>3 DEF PromptPhase, ReplyPhase
    <3>4. Sent(d, "header").k = "header" /\ Sent(d, "body").k = "body"
          /\ Sent(d, "body") = [Sent(d, "header") EXCEPT !.k = "body"]
      BY DEF Sent
    <3>5. ~Carries(k, d, {"body"}) /\ ~Carries(k, d, {"act"})
          /\ ~Carries(k, d, {"act", "reply header"}) /\ ~Carries(k, d, {"reply body"})
      BY <1>1 DEF Carries
    <3>6. ASSUME h = Sent(d, "header")
          PROVE  /\ agent'.op = client[d].op /\ agent'.seq = client[d].seq /\ agent'.id = Id(d)
                 /\ b = Sent(d, "body")
                 /\ client[d].op \in Bodied => Carries(k, d, {"body"})'
                 /\ client[d].op \notin Bodied => Carries(k, d, {"act"})'
      <4>1. h.op = client[d].op /\ h.seq = client[d].seq /\ h.id = Id(d)
        BY <3>6 DEF Sent
      <4>2. b = Sent(d, "body")
        BY <3>6, <3>4 DEF b
      <4>3. QED BY <4>1, <4>2, <1>3, <1>9, <2>2, <3>2 DEF Carries
    <3>7. Head(<<Sent(d, "header")>>) = Sent(d, "header")
          /\ Head(<<Sent(d, "header"), Sent(d, "body")>>) = Sent(d, "header")
          /\ Head(<<Sent(d, "body")>>) = Sent(d, "body")
          /\ Tail(<<Sent(d, "header")>>) = << >>
          /\ Tail(<<Sent(d, "header"), Sent(d, "body")>>) = <<Sent(d, "body")>>
      <4> DEFINE x == Sent(d, "header")
                 y == Sent(d, "body")
                 S == {x, y}
      <4>1. x \in S /\ y \in S
        OBVIOUS
      <4> HIDE DEF x, y, S
      <4>2. Head(<<x>>) = x /\ Head(<<x, y>>) = x /\ Tail(<<x>>) = << >> /\ Tail(<<x, y>>) = <<y>>
        BY <4>1, Short
      <4>3. Head(<<y>>) = y
        BY <4>1, Short
      <4>4. QED BY <4>2, <4>3 DEF x, y
    <3>8. BodyPhase(d, k) => BodyPhase(d, k)'
      <4>1. SUFFICES ASSUME BodyPhase(d, k) PROVE BodyPhase(d, k)'
        OBVIOUS
      <4>2. toServer[k] = <<Sent(d, "header")>> /\ client[d].op \in Bodied /\ toClient[k] = << >>
        BY <4>1, <3>5, <1>3 DEF BodyPhase
      <4>3. h = Sent(d, "header") /\ toServer'[k] = << >>
        BY <4>2, <3>7, <1>3
      <4>4. QED BY <4>2, <4>3, <3>2, <3>6, <1>4 DEF BodyPhase
    <3>9. ClosePhase(d, k) => ClosePhase(d, k)'
      <4>1. SUFFICES ASSUME ClosePhase(d, k) PROVE ClosePhase(d, k)'
        OBVIOUS
      <4>2. toServer[k] = <<Sent(d, "header")>> /\ client[d].op \in Ops \ Bodied /\ toClient[k] = << >>
        BY <4>1, <3>5, <1>3 DEF ClosePhase
      <4>3. h = Sent(d, "header") /\ toServer'[k] = << >>
        BY <4>2, <3>7, <1>3
      <4>4. QED BY <4>2, <4>3, <3>2, <3>6, <1>4 DEF ClosePhase
    <3>10. HeaderPhase(d, k) => HeaderPhase(d, k)'
      <4>1. SUFFICES ASSUME HeaderPhase(d, k) PROVE HeaderPhase(d, k)'
        OBVIOUS
      <4>2. /\ toServer[k] = <<Sent(d, "header"), Sent(d, "body")>> /\ client[d].op \in Bodied
            /\ toClient[k] = << >>
        BY <4>1, <3>5, <1>3 DEF HeaderPhase
      <4>3. h = Sent(d, "header") /\ toServer'[k] = <<Sent(d, "body")>>
        BY <4>2, <3>7, <1>3
      <4>4. QED BY <4>2, <4>3, <3>2, <3>6, <1>4 DEF HeaderPhase
    <3>11. QED BY <2>2, <2>4, <3>1, <3>3, <3>8, <3>9, <3>10 DEF Phase
  <2>5. QED BY <2>3, <2>4
<1>13. Streams'
  <2>1. SUFFICES ASSUME NEW l \in Connections PROVE Stream(l)'
    BY DEF Streams
  <2>2. CASE l # k
    <3>1. ~InBody(l)' /\ toServer'[l] = toServer[l]
      BY <2>2, <1>3 DEF InBody
    <3>2. QED BY <3>1, <1>5 DEF IInv, Streams, Stream
  <2>3. CASE l = k
    <3>1. CASE toServer'[k] = << >>
      BY <2>3, <3>1 DEF Stream
    <3>2. CASE h.op \in Bodied /\ toServer'[k] = <<b>>
      <4>1. InBody(k)' /\ b = Body(agent'.op, agent'.seq, agent'.id)
        BY <3>2, <1>3, <1>7, <1>9 DEF InBody
      <4>2. QED BY <2>3, <3>2, <4>1 DEF Stream
    <3>3. QED BY <3>1, <3>2, <1>11
  <2>4. QED BY <2>2, <2>3
<1>14. Ids'
  <2>1. PICK new \in Requests : new = h.id
    BY <1>3 DEF Cells
  <2>2. Waiting(k, new)
    BY <1>3, <1>6, <2>1 DEF Waiting
  <2>3. Asked(new) /\ new \notin ToSet(done) /\ \A l \in Connections : Waiting(l, new) => l = k
    BY <2>2 DEF IInv, Ids
  <2>4. ASSUME NEW l \in Connections, NEW i \in Requests, Waiting(l, i)'
        PROVE  Waiting(l, i) /\ l # k
    <3>1. l # k
      BY <2>4, <1>7, <1>8, <1>11 DEF Waiting
    <3>2. QED BY <3>1, <2>4, <1>3 DEF Waiting
  <2>5. \A i : Asked(i)' <=> Asked(i)
    BY <1>4 DEF Asked
  <2>6. ASSUME NEW l \in Connections, NEW i \in Requests, Waiting(l, i)'
        PROVE  /\ Asked(i)' /\ i \notin ToSet(done') /\ i # agent'.id
               /\ \A m \in Connections : Waiting(m, i)' => m = l
    <3>1. Waiting(l, i) /\ l # k
      BY <2>4, <2>6
    <3>2. i # new
      BY <3>1, <2>3
    <3>3. Asked(i) /\ i \notin ToSet(done) /\ \A m \in Connections : Waiting(m, i) => m = l
      BY <3>1 DEF IInv, Ids
    <3>4. QED BY <3>2, <3>3, <2>1, <2>4, <2>5, <1>3, <1>4
  <2>7. agent'.id = new /\ new \notin ToSet(done')
    BY <1>3, <1>4, <2>1, <2>3
  <2>8. Asked(agent.id)'
    BY <2>3, <2>5, <2>7 DEF Asked
  <2>9. \A i \in ToSet(done') : Asked(i)'
    BY <1>4, <2>5 DEF IInv, Ids
  <2>10. QED BY <2>6, <2>7, <2>8, <2>9 DEF Ids
<1>15. Answers'
  <2>1. agent'.pc \notin {"reply header", "reply body"}
    BY <1>3, <1>9
  <2>2. QED BY <2>1, <1>4, AnswersKept DEF IInv
<1>16. QED BY <1>3, <1>10, <1>12, <1>13, <1>14, <1>15 DEF IInv

LEMMA RecvBodyKeeps ==
  ASSUME IInv, RecvBody
  PROVE  IInv'
<1> USE DEF Types
<1>1. /\ agent.pc = "body" /\ Receives("act") /\ Readable
      /\ UNCHANGED <<client, made, answered, backlog, table, queue, server, stopped, held, silent, done>>
  BY DEF RecvBody, Agent, ServerKeeps, PoolKeeps
<1>2. PICK k \in Connections : k = Conn
  BY <1>1, OfConn DEF IInv, AgentTypes, Carrying
<1> DEFINE b == Head(toServer[k])
<1>3. /\ toServer'[k] = Tail(toServer[k]) /\ toServer[k] # << >>
      /\ \A l \in Connections \ {k} : toServer'[l] = toServer[l]
      /\ b \in Cells
      /\ agent'.pc = "act" /\ agent'.op = b.op /\ agent'.seq = b.seq /\ agent'.id = b.id
      /\ Conn' = k
      /\ ClientTypes' /\ NetTypes' /\ TableTypes' /\ Unmade' /\ Owners'
      /\ b.op \in Ops => AgentTypes'
  <2>1. "act" \in {"body", "act"} /\ ("act" = "body" => b.op \in Bodied)
    OBVIOUS
  <2>2. QED BY <1>1, <1>2, <2>1, ReceivesMeans
<1>4. /\ UNCHANGED <<toClient, clientEnd, serverEnd>> /\ client' = client /\ done' = done
  BY <1>1 DEF Receives
<1>5. Carrying /\ Carrying' /\ InBody(k) /\ ~Idle(k) /\ \A l : ~InBody(l)'
  BY <1>1, <1>2, <1>3 DEF Carrying, InBody, Idle
<1>6. toServer[k] = <<Body(agent.op, agent.seq, agent.id)>>
  BY <1>3, <1>5 DEF IInv, Streams, Stream
<1>7. /\ b.op = agent.op /\ b.seq = agent.seq /\ b.id = agent.id /\ b.k = "body" /\ agent.op \in Ops
      /\ Tail(toServer[k]) = << >>
  <2>1. Head(<<Body(agent.op, agent.seq, agent.id)>>) = Body(agent.op, agent.seq, agent.id)
        /\ Tail(<<Body(agent.op, agent.seq, agent.id)>>) = << >>
    OBVIOUS
  <2>2. b = Body(agent.op, agent.seq, agent.id)
    BY <1>6, <2>1
  <2>3. agent.op \in Ops
    BY <1>5 DEF IInv, AgentTypes
  <2>4. b.op = agent.op /\ b.seq = agent.seq /\ b.id = agent.id /\ b.k = "body"
    BY <2>2 DEF Body
  <2>5. QED BY <1>6, <2>1, <2>3, <2>4
<1>8. AgentTypes'
  BY <1>3, <1>7
<1> HIDE DEF b
<1>9. Phases'
  <2>1. SUFFICES ASSUME NEW d \in Clients PROVE Phase(d)'
    BY DEF Phases
  <2>2. client'[d] = client[d] /\ Phase(d)
    BY <1>4 DEF IInv, Phases
  <2>3. CASE client[d].conn # k
    <3>1. \A l \in Connections \ {k} :
            /\ toServer'[l] = toServer[l] /\ toClient'[l] = toClient[l] /\ serverEnd'[l] = serverEnd[l]
            /\ ~(Conn = l /\ Carrying) /\ ~(Conn' = l /\ Carrying')
      BY <1>2, <1>3, <1>4
    <3>2. QED BY <2>2, <2>3, <3>1, OthersKeep
  <2>4. CASE client[d].conn = k
    <3>1. k # None /\ client'[d].conn = k /\ \A p : At(d, p)' <=> At(d, p)
      BY <2>2, <2>4 DEF At, Connections, None
    <3>2. ~PromptPhase(d, k) /\ ~ReplyPhase(d, k)
      BY <1>3 DEF PromptPhase, ReplyPhase
    <3>3. ~Carries(k, d, {"act"})
          /\ ~Carries(k, d, {"act", "reply header"}) /\ ~Carries(k, d, {"reply body"})
      BY <1>1 DEF Carries
    <3>4. ~BodyPhase(d, k) /\ ~ClosePhase(d, k)
      BY <1>3, <1>5, <3>3 DEF BodyPhase, ClosePhase
    <3>5. HeaderPhase(d, k) => HeaderPhase(d, k)'
      <4>1. SUFFICES ASSUME HeaderPhase(d, k) PROVE HeaderPhase(d, k)'
        OBVIOUS
      <4>2. client[d].op \in Bodied /\ Carries(k, d, {"body"}) /\ toClient[k] = << >>
        BY <4>1, <1>3, <1>5, <3>3 DEF HeaderPhase
      <4>3. Carries(k, d, {"act", "reply header"})'
        BY <4>2, <1>3, <1>7, <2>2 DEF Carries, Id
      <4>4. QED BY <4>2, <4>3, <1>3, <1>4, <1>7, <2>2 DEF HeaderPhase
    <3>6. QED BY <2>2, <2>4, <3>1, <3>2, <3>4, <3>5 DEF Phase
  <2>5. QED BY <2>3, <2>4
<1>10. Streams'
  <2>1. SUFFICES ASSUME NEW l \in Connections PROVE Stream(l)'
    BY DEF Streams
  <2>2. CASE l # k
    <3>1. ~InBody(l) /\ ~InBody(l)' /\ toServer'[l] = toServer[l]
      BY <2>2, <1>2, <1>3, <1>5 DEF InBody
    <3>2. QED BY <3>1 DEF IInv, Streams, Stream
  <2>3. CASE l = k
    BY <2>3, <1>3, <1>7 DEF Stream
  <2>4. QED BY <2>2, <2>3
<1>11. Ids'
  <2>1. AsksOn
    BY <1>4 DEF AsksOn
  <2>2. ASSUME NEW l \in Connections, NEW i \in Requests, Waiting(l, i)' PROVE Waiting(l, i)
    <3>1. l # k
      BY <2>2, <1>3, <1>7 DEF Waiting
    <3>2. QED BY <3>1, <2>2, <1>3 DEF Waiting
  <2>3. (Carrying' => Carrying /\ agent'.id = agent.id)
        /\ (agent'.pc \in {"body", "act"} => agent.pc \in {"body", "act"})
    BY <1>1, <1>3, <1>5, <1>7
  <2>4. QED BY <1>3, <1>4, <2>1, <2>2, <2>3, IdsKept DEF IInv
<1>12. Answers'
  <2>1. agent'.pc \notin {"reply header", "reply body"}
    BY <1>3
  <2>2. QED BY <2>1, <1>4, AnswersKept DEF IInv
<1>13. QED BY <1>3, <1>8, <1>9, <1>10, <1>11, <1>12 DEF IInv

\* Both sends of an agent, whose client's phase is all that remains to be shown.
Replies(k, cell) ==
  /\ k = Conn /\ ServerSends(k, cell)
  /\ cell.id = agent.id /\ agent.pc \in {"reply header", "reply body"}
  /\ UNCHANGED <<toServer, serverEnd, backlog, table, queue, silent, done, client, made, answered,
                 server, stopped, held>>
  /\ agent'.pc = "check" \/ (agent'.pc = "reply body" /\ agent'.id = agent.id)
  /\ Conn' = Conn

LEMMA RepliesKeep ==
  ASSUME IInv, NEW k \in Connections, NEW cell \in Cells, Replies(k, cell), AgentTypes',
         \A d \in Clients : client[d].conn = k => Phase(d)'
  PROVE  IInv'
<1> USE DEF Types
<1>0. /\ k = Conn /\ ServerSends(k, cell) /\ cell.id = agent.id
      /\ UNCHANGED <<toServer, serverEnd, backlog, table, queue, silent, done, client, made, answered,
                     server, stopped, held>>
      /\ Conn' = Conn
  BY DEF Replies
<1>1. /\ \A l \in Connections \ {k} : toClient'[l] = toClient[l] /\ clientEnd'[l] = clientEnd[l]
      /\ clientEnd[k] = "open" =>
           toClient'[k] = Append(toClient[k], cell) /\ clientEnd'[k] = "open"
      /\ clientEnd[k] # "open" =>
           toClient'[k] = << >> /\ clientEnd'[k] \in {"fin", "rst"} /\ toClient[k] = << >>
  <2>1. /\ toClient \in [Connections -> Seq(Cells)]
        /\ clientEnd \in [Connections -> {"open", "fin", "rst"}]
        /\ clientEnd[k] # "open" => toClient[k] = << >>
    BY DEF IInv, NetTypes, Owners
  <2>2. CASE clientEnd[k] = "open"
    BY <1>0, <2>1, <2>2 DEF ServerSends
  <2>3. CASE clientEnd[k] # "open"
    BY <1>0, <2>1, <2>3 DEF ServerSends
  <2>4. QED BY <2>2, <2>3
<1>2. k # None /\ k <= made /\ made \in Nat
  <2>1. k # None
    BY SessionAssumption DEF Connections, None
  <2>2. made \in Nat
    BY SessionAssumption DEF IInv, NetTypes
  <2>3. k <= made
    BY <1>0, <2>1, OfConn DEF IInv
  <2>4. QED BY <2>1, <2>2, <2>3
<1>3. ClientTypes' /\ TableTypes'
  BY <1>0 DEF IInv, ClientTypes, TableTypes, Id, Flag
<1>4. NetTypes'
  <2>1. /\ toClient' \in [Connections -> Seq(Cells)]
        /\ clientEnd' \in [Connections -> {"open", "fin", "rst"}]
    BY <1>0, ServerSendsTypes DEF IInv
  <2>2. QED BY <1>0, <2>1 DEF IInv, NetTypes
<1>5. Unmade'
  <2>1. \A l \in Connections : l > made => l # k
    BY <1>2 DEF Connections
  <2>2. QED BY <1>0, <1>1, <2>1 DEF IInv, Unmade
<1>6. Owners'
  <2>1. \A l \in Connections : /\ clientEnd'[l] = "open" <=> clientEnd[l] = "open"
                               /\ clientEnd'[l] # "open" => toClient'[l] = << >>
    BY <1>1 DEF IInv, Owners
  <2>2. client' = client /\ made' = made /\ serverEnd' = serverEnd /\ toServer' = toServer
    BY <1>0
  <2>3. \A c \in Clients : client[c].conn # None => client[c].conn \in Connections
    BY OfClient DEF IInv
  <2>4. \A c \in Clients : client'[c].conn # None => clientEnd'[client'[c].conn] = "open"
    BY <2>1, <2>2, <2>3 DEF IInv, Owners
  <2>5. \A l \in Connections : l <= made' /\ clientEnd'[l] = "open" => \E c \in Clients : client'[c].conn = l
    BY <2>1, <2>2 DEF IInv, Owners
  <2>6. QED BY <2>1, <2>2, <2>4, <2>5 DEF IInv, Owners
<1>7. Phases'
  <2>1. SUFFICES ASSUME NEW d \in Clients PROVE Phase(d)'
    BY DEF Phases
  <2>2. client'[d] = client[d]
    BY <1>0
  <2>3. CASE client[d].conn # k
    <3>1. \A l \in Connections \ {k} :
            /\ toServer'[l] = toServer[l] /\ toClient'[l] = toClient[l] /\ serverEnd'[l] = serverEnd[l]
            /\ ~(Conn = l /\ Carrying) /\ ~(Conn' = l /\ Carrying')
      BY <1>0, <1>1
    <3>2. QED BY <2>2, <2>3, <3>1, OthersKeep
  <2>4. CASE client[d].conn = k
    BY <2>4
  <2>5. QED BY <2>3, <2>4
<1>8. Streams'
  <2>1. \A l : ~InBody(l) /\ ~InBody(l)'
    BY DEF InBody, Replies
  <2>2. toServer' = toServer
    BY <1>0
  <2>3. QED BY <2>1, <2>2 DEF IInv, Streams, Stream
<1>9. Ids'
  <2>1. AsksOn /\ done' = done
    BY <1>0 DEF AsksOn
  <2>2. \A l \in Connections, i \in Requests : Waiting(l, i)' => Waiting(l, i)
    BY <1>0 DEF Waiting
  <2>3. (Carrying' => Carrying /\ agent'.id = agent.id)
        /\ (agent'.pc \in {"body", "act"} => agent.pc \in {"body", "act"})
    BY DEF Carrying, Replies
  <2>4. QED BY <1>3, <2>1, <2>2, <2>3, IdsKept DEF IInv
<1>10. Answers'
  <2>1. agent.id \in ToSet(done)
    BY DEF IInv, Answers, Replies
  <2>2. ASSUME NEW l \in Connections, NEW i \in DOMAIN toClient'[l]
        PROVE  toClient'[l][i].id \in ToSet(done)
    <3>1. CASE toClient'[l] = toClient[l]
      BY <2>2, <3>1 DEF IInv, Answers
    <3>2. CASE toClient'[l] = Append(toClient[l], cell)
      <4>1. toClient[l] \in Seq(Cells)
        BY DEF IInv, NetTypes
      <4>2. /\ Append(toClient[l], cell) \in Seq(Cells)
            /\ Len(Append(toClient[l], cell)) = Len(toClient[l]) + 1
            /\ \A j \in 1..Len(toClient[l]) : Append(toClient[l], cell)[j] = toClient[l][j]
            /\ Append(toClient[l], cell)[Len(toClient[l]) + 1] = cell
        BY <4>1, AppendProperties
      <4>3. Len(toClient[l]) \in Nat
        BY <4>1, LenProperties
      <4>4. /\ i \in 1..(Len(toClient[l]) + 1) /\ DOMAIN toClient[l] = 1..Len(toClient[l])
        <5>1. DOMAIN Append(toClient[l], cell) = 1..Len(Append(toClient[l], cell))
              /\ DOMAIN toClient[l] = 1..Len(toClient[l])
          BY <4>1, <4>2, LenProperties
        <5>2. QED BY <5>1, <4>2, <3>2, <2>2
      <4>5. CASE i = Len(toClient[l]) + 1
        BY <4>2, <4>5, <3>2, <2>1, <1>0
      <4>6. CASE i # Len(toClient[l]) + 1
        <5>1. i \in 1..Len(toClient[l])
          BY <4>3, <4>4, <4>6
        <5>2. toClient'[l][i] = toClient[l][i] /\ i \in DOMAIN toClient[l]
          BY <5>1, <4>2, <4>4, <3>2
        <5>3. QED BY <5>2 DEF IInv, Answers
      <4>7. QED BY <4>5, <4>6
    <3>3. toClient'[l] = toClient[l] \/ toClient'[l] = Append(toClient[l], cell)
      BY <1>1
    <3>4. QED BY <3>1, <3>2, <3>3
  <2>3. done' = done /\ (agent'.pc \in {"reply header", "reply body"} => agent'.id \in ToSet(done))
    BY <2>1 DEF Replies
  <2>4. QED BY <2>2, <2>3 DEF Answers
<1>11. QED BY <1>3, <1>4, <1>5, <1>6, <1>7, <1>8, <1>9, <1>10 DEF IInv

LEMMA RepliesParts ==
  ASSUME IInv, agent.pc \in {"reply header", "reply body"}
  PROVE  /\ Header("reply", agent.seq, agent.id) \in Cells /\ Body("reply", agent.seq, agent.id) \in Cells
         /\ Header("reply", agent.seq, agent.id).id = agent.id
         /\ Body("reply", agent.seq, agent.id).id = agent.id
         /\ Conn \in Connections /\ Conn # None /\ Carrying
         /\ agent.seq \in 1..MaxSequence /\ agent.id \in Requests
<1>1. agent.seq \in 1..MaxSequence /\ agent.id \in Requests /\ Carrying /\ Conn # None
  BY DEF IInv, Types, AgentTypes, Carrying
<1>2. QED BY <1>1, CellIn, OfConn DEF Header, Body, IInv, Types

LEMMA SendReplyHeaderKeeps ==
  ASSUME IInv, SendReplyHeader
  PROVE  IInv'
<1> USE DEF Types
<1> DEFINE cell == Header("reply", agent.seq, agent.id)
<1>1. /\ agent.pc = "reply header" /\ ServerSends(Conn, cell) /\ Become("reply body")
      /\ UNCHANGED <<toServer, serverEnd, backlog, table, queue, silent, done, client, made, answered,
                     server, stopped, held>>
  BY DEF SendReplyHeader, SendReply, Agent, ServerKeeps, PoolKeeps
<1>2. cell \in Cells /\ cell.id = agent.id /\ Conn # None /\ Carrying
  BY <1>1, RepliesParts
<1>3. PICK k \in Connections : k = Conn
  BY <1>1, RepliesParts
<1>4. /\ agent'.pc = "reply body" /\ agent'.fd = agent.fd /\ agent'.op = agent.op
      /\ agent'.seq = agent.seq /\ agent'.id = agent.id
  BY <1>1, AgentBecomes DEF IInv
<1>5. Conn' = Conn
  BY <1>1, <1>4 DEF Conn
<1>6. AgentTypes'
  <2>1. agent.op \in Bodied
    BY <1>1 DEF IInv, AgentTypes
  <2>2. QED BY <1>1, <1>2, <1>4, <1>5, <2>1, AgentBecomes DEF IInv, AgentTypes, Carrying
<1>7. ASSUME NEW d \in Clients, client[d].conn = k PROVE Phase(d)'
  <2>1. toClient'[k] = Append(toClient[k], cell)
    <3>1. clientEnd[k] = "open"
      BY <1>2, <1>3, <1>7 DEF IInv, Owners
    <3>2. QED BY <1>1, <1>3, <3>1 DEF ServerSends, IInv, NetTypes
  <2>2. client'[d] = client[d] /\ Phase(d) /\ toServer' = toServer /\ k # None
    BY <1>1, <1>2, <1>3 DEF IInv, Phases
  <2>3. ~Idle(k) /\ ~Carries(k, d, {"body"}) /\ ~Carries(k, d, {"act"}) /\ ~Carries(k, d, {"reply body"})
    BY <1>1, <1>2, <1>3 DEF Idle, Carries
  <2>4. ~PromptPhase(d, k) /\ ~BodyPhase(d, k) /\ ~ClosePhase(d, k) /\ ~ReplyPhase(d, k)
    BY <2>3 DEF PromptPhase, BodyPhase, ClosePhase, ReplyPhase
  <2>5. ASSUME HeaderPhase(d, k) PROVE HeaderPhase(d, k)'
    <3>1. /\ client[d].op \in Bodied /\ toServer[k] = << >> /\ toClient[k] = << >>
          /\ Carries(k, d, {"act", "reply header"})
      BY <2>5, <2>3 DEF HeaderPhase
    <3>2. cell = Reply(d, "header") /\ Reply(d, "header")' = Reply(d, "header")
      BY <3>1, <2>2 DEF Carries, Header, Reply, Id
    <3>3. Carries(k, d, {"reply body"})'
      BY <3>1, <2>2, <1>3, <1>4, <1>5 DEF Carries, Id
    <3>4. Append(<< >>, cell) = <<cell>>
      <4> HIDE DEF cell
      <4> QED BY <1>2, Short
    <3>5. toClient'[k] = <<Reply(d, "header")'>>
      BY <2>1, <3>1, <3>2, <3>4
    <3>6. QED BY <2>2, <3>1, <3>3, <3>5 DEF HeaderPhase
  <2>6. \A p : At(d, p)' <=> At(d, p)
    BY <2>2 DEF At
  <2>7. QED BY <1>7, <2>2, <2>4, <2>5, <2>6 DEF Phase
<1>8. Replies(k, cell)
  BY <1>1, <1>2, <1>3, <1>4, <1>5 DEF Replies
<1>9. QED
  <2> HIDE DEF cell
  <2> QED BY <1>2, <1>6, <1>7, <1>8, RepliesKeep

LEMMA SendReplyBodyKeeps ==
  ASSUME IInv, SendReplyBody
  PROVE  IInv'
<1> USE DEF Types
<1> DEFINE cell == Body("reply", agent.seq, agent.id)
<1>1. /\ agent.pc = "reply body" /\ ServerSends(Conn, cell) /\ Loop(agent.init)
      /\ UNCHANGED <<toServer, serverEnd, backlog, table, queue, silent, done, client, made, answered,
                     server, stopped, held>>
  BY DEF SendReplyBody, SendReply, Agent, ServerKeeps, PoolKeeps
<1>2. cell \in Cells /\ cell.id = agent.id /\ Conn # None /\ Carrying
  BY <1>1, RepliesParts
<1>3. PICK k \in Connections : k = Conn
  BY <1>1, RepliesParts
<1>4. agent'.pc = "check" /\ agent'.fd = agent.fd
  BY <1>1 DEF Loop, NoAgent
<1>5. Conn' = Conn
  BY <1>1, <1>4 DEF Conn
<1>6. AgentTypes' /\ ~Carrying'
  <2>1. agent.init \in BOOLEAN
    BY DEF IInv, AgentTypes
  <2>2. agent' \in Rest
    BY <1>1, <2>1, RestBy DEF IInv
  <2>3. QED BY <2>2, RestTypes
<1>7. ASSUME NEW d \in Clients, client[d].conn = k PROVE Phase(d)'
  <2>1. toClient'[k] = Append(toClient[k], cell)
    <3>1. clientEnd[k] = "open"
      BY <1>2, <1>3, <1>7 DEF IInv, Owners
    <3>2. QED BY <1>1, <1>3, <3>1 DEF ServerSends, IInv, NetTypes
  <2>2. client'[d] = client[d] /\ Phase(d) /\ toServer' = toServer /\ k # None
    BY <1>1, <1>2, <1>3 DEF IInv, Phases
  <2>3. ~Idle(k) /\ ~Carries(k, d, {"body"}) /\ ~Carries(k, d, {"act"})
        /\ ~Carries(k, d, {"act", "reply header"}) /\ Idle(k)'
    BY <1>1, <1>2, <1>3, <1>6 DEF Idle, Carries
  <2>4. ~PromptPhase(d, k) /\ ~BodyPhase(d, k) /\ ~ClosePhase(d, k)
    BY <2>3 DEF PromptPhase, BodyPhase, ClosePhase
  <2>5. ASSUME Carries(k, d, {"reply body"})
        PROVE  cell = Reply(d, "body") /\ \A p : Reply(d, p)' = Reply(d, p)
    BY <2>5, <2>2 DEF Carries, Body, Reply, Id
  <2>6. ASSUME HeaderPhase(d, k) PROVE HeaderPhase(d, k)'
    <3>1. /\ client[d].op \in Bodied /\ toServer[k] = << >> /\ toClient[k] = <<Reply(d, "header")>>
          /\ Carries(k, d, {"reply body"})
      BY <2>6, <2>3 DEF HeaderPhase
    <3>2. /\ cell = Reply(d, "body") /\ Reply(d, "header") \in Cells
          /\ Reply(d, "header")' = Reply(d, "header") /\ Reply(d, "body")' = Reply(d, "body")
      <4>1. Reply(d, "header") \in Cells
        BY <3>1, <1>1, RepliesParts DEF Reply, Carries, Cells
      <4>2. QED BY <3>1, <2>5, <4>1
    <3>3. toClient'[k] = <<Reply(d, "header"), Reply(d, "body")>>
      <4> DEFINE h == Reply(d, "header")
                 b == Reply(d, "body")
      <4>1. h \in Cells /\ b \in Cells
        BY <3>2, <1>2
      <4>2. Append(<<h>>, b) = <<h, b>>
        <5> HIDE DEF h, b
        <5> QED BY <4>1, Short
      <4>3. QED BY <4>2, <3>1, <3>2, <2>1
    <3>4. QED BY <2>2, <2>3, <3>1, <3>2, <3>3 DEF HeaderPhase
  <2>7. ASSUME ReplyPhase(d, k) PROVE ReplyPhase(d, k)'
    <3>1. /\ client[d].op \in Bodied /\ toServer[k] = << >> /\ toClient[k] = << >>
          /\ Carries(k, d, {"reply body"})
      BY <2>7, <2>3 DEF ReplyPhase
    <3>2. cell = Reply(d, "body") /\ Reply(d, "body")' = Reply(d, "body")
      BY <3>1, <2>5
    <3>3. toClient'[k] = <<Reply(d, "body")>>
      <4>1. Append(<< >>, cell) = <<cell>>
        <5> HIDE DEF cell
        <5> QED BY <1>2, Short
      <4>2. QED BY <4>1, <3>1, <3>2, <2>1
    <3>4. QED BY <2>2, <2>3, <3>1, <3>2, <3>3 DEF ReplyPhase
  <2>8. \A p : At(d, p)' <=> At(d, p)
    BY <2>2 DEF At
  <2>9. QED BY <1>7, <2>2, <2>4, <2>6, <2>7, <2>8 DEF Phase
<1>8. Replies(k, cell)
  BY <1>1, <1>2, <1>3, <1>4, <1>5 DEF Replies
<1>9. QED
  <2> HIDE DEF cell
  <2> QED BY <1>2, <1>6, <1>7, <1>8, RepliesKeep

-----------------------------------------------------------------------------
(***************************************************************************)
(* The theorems                                                            *)
(***************************************************************************)
LEMMA InitKeeps == Init => IInv
<1>1. SUFFICES ASSUME Init PROVE IInv
  OBVIOUS
<1>2. /\ 0 \in 0..MaxSequence /\ 0 \in 0..MaxDescriptors /\ 0 \in 0..MaxConnections
      /\ \A c \in Clients : MaxRequests[c] \in Nat
  BY SessionAssumption
<1>3. ClientTypes
  BY <1>1, <1>2 DEF Init, ClientTypes, Prompt, None
<1>4. NetTypes
  BY <1>1, <1>2 DEF Init, NetTypes
<1>5. TableTypes
  <2>1. << >> \in Seq(1..made) /\ << >> \in Seq(Descriptors \cup {Flag}) /\ << >> \in Seq(Requests)
    OBVIOUS
  <2>2. table \in [Descriptors -> 0..made]
    BY <1>1, <1>2 DEF Init, None
  <2>3. QED BY <1>1, <2>1, <2>2 DEF Init, TableTypes
<1>6. AgentTypes /\ ~Carrying
  BY <1>1, <1>2 DEF Init, AgentTypes, NoAgent, Carrying
<1>7. Unmade /\ Owners
  <2>1. \A k \in Connections : ~(k <= made)
    BY <1>1 DEF Init, Connections
  <2>2. QED BY <1>1, <2>1 DEF Init, Unmade, Owners, Prompt, None
<1>8. Phases
  BY <1>1 DEF Init, Phases, Phase, At, Prompt, None
<1>9. Streams
  BY <1>1 DEF Init, Streams, Stream
<1>10. Ids
  <2>1. ToSet(done) = {}
    BY <1>1 DEF Init, ToSet
  <2>2. QED BY <1>1, <1>6, <2>1 DEF Init, Ids, Waiting, Carrying
<1>11. Answers
  <2>1. \A k \in Connections : DOMAIN toClient[k] = {}
    BY <1>1 DEF Init
  <2>2. QED BY <1>6, <2>1 DEF Answers, Carrying
<1>12. QED BY <1>3, <1>4, <1>5, <1>6, <1>7, <1>8, <1>9, <1>10, <1>11 DEF IInv, Types

LEMMA StutterKeeps ==
  ASSUME IInv, UNCHANGED vars
  PROVE  IInv'
<1>1. /\ UNCHANGED <<client, made, netVars, done, answered>>
      /\ UNCHANGED <<backlog, table, queue, agent, server, stopped, held, silent>>
  BY DEF vars, netVars, serverVars
<1>2. Conn' = Conn
  BY <1>1 DEF Conn
<1>3. Types'
  BY <1>1, <1>2 DEF IInv, Types, ClientTypes, NetTypes, TableTypes, AgentTypes, netVars, Id, Flag, Carrying
<1>4. QED BY <1>1, <1>2, <1>3, FrameKeeps

LEMMA AgentStepKeeps ==
  ASSUME IInv, AgentStep
  PROVE  IInv'
<1>1. CASE Take \/ StopAll \/ InsertRefused \/ QueryThrows
  BY <1>1, QuietLetsGo, LetsGoKeeps
<1>2. CASE IsConnected
  BY <1>2, QuietLetsGo, LetsGoKeeps, IsConnectedKeeps
<1>3. CASE RecvHeader
  BY <1>3, ClosingLetsGo, LetsGoKeeps, RecvHeaderKeeps
<1>4. CASE BodyLost \/ Disconnect \/ Shutdown
  BY <1>4, ClosingLetsGo, LetsGoKeeps
<1>5. CASE InsertOk \/ QueryOk \/ DeleteOk
  BY <1>5, CarriesOutKeeps
<1>6. QED
  BY <1>1, <1>2, <1>3, <1>4, <1>5, RecvBodyKeeps, SendReplyHeaderKeeps, SendReplyBodyKeeps DEF AgentStep

LEMMA NextKeeps == IInv /\ [Next]_vars => IInv'
<1>1. SUFFICES ASSUME IInv, [Next]_vars PROVE IInv'
  OBVIOUS
<1>2. ASSUME NEW c \in Clients,
             \/ ConnectFails(c) \/ CloseSocket(c) \/ ReplyLost(c) \/ Interrupt(c) \/ Vanishes(c)
      PROVE  IInv'
  BY <1>1, <1>2, LeavesBy, LeavesKeeps DEF IInv
<1>3. ASSUME NEW c \in Clients, Connect(c) \/ SendBody(c) \/ RecvReplyHeader(c) \/ RecvReplyBody(c)
      PROVE  IInv'
  BY <1>1, <1>3, ConnectKeeps, SendBodyKeeps, RecvReplyHeaderKeeps, RecvReplyBodyKeeps
<1>4. ASSUME NEW c \in Clients, NEW op \in Ops, SendOrder(c, op) PROVE IInv'
  BY <1>1, <1>4, SendOrderKeeps
<1>5. CASE Accept \/ Restart
  BY <1>1, <1>5, AcceptKeeps, RestartKeeps
<1>6. CASE AgentStep
  BY <1>1, <1>6, AgentStepKeeps
<1>7. CASE Down
  BY <1>1, <1>7, DownLetsGo, LetsGoKeeps
<1>8. CASE UNCHANGED vars
  BY <1>1, <1>8, StutterKeeps
<1>9. QED BY <1>1, <1>2, <1>3, <1>4, <1>5, <1>6, <1>7, <1>8 DEF Next, ClientStep

\* The inductive invariant holds in every state.
THEOREM Invariant == Spec => []IInv
<1>1. Init => IInv
  BY InitKeeps
<1>2. IInv /\ [Next]_vars => IInv'
  BY NextKeeps
<1>3. QED BY <1>1, <1>2, PTL DEF Spec

\* Every variable of the clients, the connections and the server has its type.
THEOREM TypeCorrect == Spec => []TypeOK
<1>1. IInv => TypeOK
  BY TypesTypeOK DEF IInv
<1>2. QED BY <1>1, Invariant, PTL

LEMMA InStepHolds == IInv => InStep
<1>1. SUFFICES ASSUME IInv PROVE InStep
  OBVIOUS
<1>2. Conn # None => Conn \in Connections
  BY <1>1, OfConn DEF IInv, Types
<1>3. ASSUME Agent("header"), Conn # None, Readable PROVE Head(toServer[Conn]).k = "header"
  <2>1. ~InBody(Conn) /\ toServer[Conn] # << >>
    BY <1>3 DEF Agent, InBody, Readable
  <2>2. QED BY <1>1, <1>2, <1>3, <2>1 DEF IInv, Streams, Stream
<1>4. ASSUME Agent("body"), Conn # None, Readable
      PROVE  Head(toServer[Conn]) = Body(agent.op, agent.seq, agent.id)
  <2>1. InBody(Conn) /\ toServer[Conn] # << >>
    BY <1>4 DEF Agent, InBody, Readable
  <2>2. toServer[Conn] = <<Body(agent.op, agent.seq, agent.id)>>
    BY <1>1, <1>2, <1>4, <2>1 DEF IInv, Streams, Stream
  <2>3. QED BY <2>2
<1>5. ASSUME NEW c \in Clients, Waits(c), toClient[client[c].conn] # << >>
      PROVE  Head(toClient[client[c].conn]).k = IF At(c, "header") THEN "header" ELSE "body"
  <2> DEFINE k == client[c].conn
  <2>1. Reply(c, "header").k = "header" /\ Reply(c, "body").k = "body"
    BY DEF Reply
  <2>2. Head(<<Reply(c, "header")>>) = Reply(c, "header")
        /\ Head(<<Reply(c, "header"), Reply(c, "body")>>) = Reply(c, "header")
        /\ Head(<<Reply(c, "body")>>) = Reply(c, "body")
    OBVIOUS
  <2>3. CASE At(c, "header")
    <3>1. HeaderPhase(c, k)
      BY <1>1, <2>3 DEF IInv, Phases, Phase
    <3>2. toClient[k] \in {<<Reply(c, "header")>>, <<Reply(c, "header"), Reply(c, "body")>>}
      BY <1>5, <3>1 DEF HeaderPhase
    <3>3. QED BY <2>1, <2>2, <2>3, <3>2
  <2>4. CASE At(c, "reply")
    <3>1. ReplyPhase(c, k) /\ ~At(c, "header")
      BY <1>1, <2>4 DEF IInv, Phases, Phase, At
    <3>2. toClient[k] = <<Reply(c, "body")>>
      BY <1>5, <3>1 DEF ReplyPhase
    <3>3. QED BY <2>1, <2>2, <3>1, <3>2
  <2>5. QED BY <1>5, <2>3, <2>4 DEF Waits
<1>6. QED BY <1>3, <1>4, <1>5 DEF InStep

\* Whatever fails half way, and whoever's agent serves a connection, each side
\* reads a header where a header was sent and a body where its body was.
THEOREM KeepsInStep == Spec => []InStep
BY InStepHolds, Invariant, PTL

LEMMA ReplyIsForRequestHolds == IInv => ReplyIsForRequest
<1>1. SUFFICES ASSUME IInv, NEW k \in Connections, toClient[k] # << >>
               PROVE  \E c \in Clients :
                        /\ client[c].conn = k /\ Waits(c)
                        /\ \A i \in DOMAIN toClient[k] :
                             toClient[k][i].id = Id(c) /\ toClient[k][i].seq = client[c].seq
  BY DEF ReplyIsForRequest
<1>2. clientEnd[k] = "open" /\ k <= made
  <2>1. made \in Int /\ Connections \subseteq Int
    BY <1>1 DEF IInv, Types, NetTypes, Connections
  <2>2. QED BY <1>1, <2>1 DEF IInv, Owners, Unmade
<1>3. PICK c \in Clients : client[c].conn = k
  BY <1>1, <1>2 DEF IInv, Owners
<1>4. k # None /\ Phase(c)
  BY <1>1, SessionAssumption DEF IInv, Phases, Connections, None
<1>5. client[c].pc \in {"prompt", "body", "header", "reply", "close", "exited"}
  BY <1>1 DEF IInv, Types, ClientTypes
<1>6. At(c, "header") \/ At(c, "reply")
  BY <1>1, <1>3, <1>4, <1>5 DEF Phase, At, PromptPhase, BodyPhase, ClosePhase
<1>7. toClient[k] \in {<<Reply(c, "header")>>, <<Reply(c, "header"), Reply(c, "body")>>, <<Reply(c, "body")>>}
  BY <1>1, <1>3, <1>4, <1>6 DEF Phase, HeaderPhase, ReplyPhase
<1>8. ASSUME NEW i \in DOMAIN toClient[k]
      PROVE  toClient[k][i].id = Id(c) /\ toClient[k][i].seq = client[c].seq
  <2>1. toClient[k][i] \in {Reply(c, "header"), Reply(c, "body")}
    BY <1>7, <1>8
  <2>2. QED BY <2>1 DEF Reply
<1>9. QED BY <1>3, <1>6, <1>8 DEF Waits

\* What is on its way to a client is the answer to the request it waits for.
THEOREM AnswersTheRequest == Spec => []ReplyIsForRequest
BY ReplyIsForRequestHolds, Invariant, PTL

LEMMA StepImplements ==
  ASSUME IInv, [Next]_vars
  PROVE  [Promise!Next]_<<done, answered>>
<1>1. CASE done' = done /\ answered' = answered
  BY <1>1
<1>2. CASE InsertOk \/ QueryOk \/ DeleteOk
  <2>1. agent.pc = "act" /\ done' = Append(done, agent.id) /\ answered' = answered
    BY <1>2 DEF InsertOk, QueryOk, DeleteOk, CarriedOut, Agent, Acts, ServerKeeps
  <2>2. agent.id \in Requests /\ agent.id \notin ToSet(done)
    BY <2>1 DEF IInv, Types, AgentTypes, Ids, Carrying
  <2>3. Promise!CarryOut(agent.id)
    BY <2>1, <2>2 DEF Promise!CarryOut, Promise!ToSet, ToSet
  <2>4. QED BY <2>2, <2>3 DEF Promise!Next
<1>3. ASSUME NEW c \in Clients, RecvReplyBody(c) PROVE [Promise!Next]_<<done, answered>>
  <2> DEFINE k == client[c].conn
             id == Head(toClient[k]).id
  <2>1. /\ At(c, "reply") /\ toClient[k] # << >> /\ answered' = answered \cup {id} /\ done' = done
    BY <1>3 DEF RecvReplyBody, ClientKeeps, serverVars
  <2>2. k \in Connections
    BY <2>1, OfClient DEF IInv, Types, Phases, Phase
  <2>3. toClient[k] \in Seq(Cells)
    BY <2>2 DEF IInv, Types, NetTypes
  <2>4. /\ 1 \in DOMAIN toClient[k] /\ Head(toClient[k]) = toClient[k][1] /\ Head(toClient[k]) \in Cells
    <3>1. Len(toClient[k]) \in Nat /\ Len(toClient[k]) >= 1
      BY <2>1, <2>3
    <3>2. QED BY <2>1, <2>3, <3>1, HeadIn
  <2>5. id \in Requests /\ id \in ToSet(done)
    BY <2>2, <2>4 DEF IInv, Answers, Cells
  <2>6. CASE id \in answered
    BY <2>1, <2>6
  <2>7. CASE id \notin answered
    <3>1. Promise!Answer(id)
      BY <2>1, <2>5, <2>7 DEF Promise!Answer, Promise!ToSet, ToSet
    <3>2. QED BY <2>5, <3>1 DEF Promise!Next
  <2>8. QED BY <2>6, <2>7
<1>4. CASE UNCHANGED vars
  BY <1>1, <1>4 DEF vars, serverVars
<1>5. ASSUME NEW c \in Clients,
             \/ Connect(c) \/ ConnectFails(c) \/ Interrupt(c) \/ Vanishes(c)
             \/ SendBody(c) \/ CloseSocket(c) \/ RecvReplyHeader(c) \/ ReplyLost(c)
      PROVE  done' = done /\ answered' = answered
  BY <1>5 DEF Connect, ConnectFails, Interrupt, Vanishes, SendBody, CloseSocket, RecvReplyHeader,
       ReplyLost, Terminates, ClientKeeps, serverVars
<1>6. ASSUME NEW c \in Clients, NEW op \in Ops, SendOrder(c, op)
      PROVE  done' = done /\ answered' = answered
  BY <1>6 DEF SendOrder, ClientKeeps, serverVars
<1>7. ASSUME \/ Accept \/ Down \/ Restart \/ Take \/ IsConnected \/ RecvHeader \/ RecvBody \/ BodyLost
             \/ Disconnect \/ Shutdown \/ StopAll \/ InsertRefused \/ QueryThrows
             \/ SendReplyHeader \/ SendReplyBody
      PROVE  done' = done /\ answered' = answered
  BY <1>7 DEF Accept, Down, Restart, Take, IsConnected, RecvHeader, RecvBody, BodyLost, Disconnect,
       Shutdown, StopAll, InsertRefused, QueryThrows, SendReplyHeader, SendReplyBody, SendReply,
       Unanswered, Acts, ServerKeeps
<1>8. QED BY <1>1, <1>2, <1>3, <1>4, <1>5, <1>6, <1>7 DEF Next, ClientStep, AgentStep

\* The session keeps Service's promise: a request is carried out at most once,
\* and its answer read only when it was.
THEOREM Implements == Spec => ImplementsService
<1>1. Init => Promise!Init
  BY DEF Init, Promise!Init
<1>2. IInv /\ [Next]_vars => [Promise!Next]_<<done, answered>>
  BY StepImplements
<1>3. QED BY <1>1, <1>2, Invariant, PTL DEF Spec, ImplementsService, Promise!Spec
-----------------------------------------------------------------------------
(***************************************************************************)
(* Every descriptor of the server is closed by an agent, or stays open for *)
(* one of the two reasons that ForgottenForAReason names, for any clients, *)
(* descriptors and bounds.                                                 *)
(*                                                                         *)
(* The argument: an agent that serves a number it has closed before does   *)
(* so because the number was given to a new connection meanwhile, and the  *)
(* agent of that connection is still in the queue, the pool having but one *)
(* thread for agents.                                                      *)
(***************************************************************************)

\* The agent that will close a borrowed descriptor is in the queue.
Borrowed == Stolen => agent.fd \in ToSet(queue)

\* An agent that was told to shut down has closed its descriptor.
ClosedBeforeStop == agent.pc = "stop" => ~agent.init

DInv == ForgottenForAReason /\ Borrowed /\ ClosedBeforeStop
-----------------------------------------------------------------------------
LEMMA ToSetTail ==
  ASSUME NEW S, NEW s \in Seq(S), s # << >>, NEW x \in ToSet(s)
  PROVE  x = Head(s) \/ x \in ToSet(Tail(s))
<1>1. PICK i \in 1..Len(s) : x = s[i]
  BY DEF ToSet
<1>2. CASE i = 1
  BY <1>1, <1>2
<1>3. CASE i # 1
  <2>1. /\ Tail(s) \in Seq(S) /\ Len(Tail(s)) = Len(s) - 1
        /\ \A j \in 1..Len(Tail(s)) : Tail(s)[j] = s[j + 1]
    BY HeadTailProperties
  <2>2. i - 1 \in 1..Len(Tail(s)) /\ Tail(s)[i - 1] = s[i]
    BY <1>3, <2>1
  <2>3. i - 1 \in DOMAIN Tail(s)
    BY <2>1, <2>2
  <2>4. QED BY <1>1, <2>2, <2>3 DEF ToSet
<1>4. QED BY <1>2, <1>3

LEMMA ToSetGrows ==
  ASSUME NEW S, NEW s \in Seq(S), NEW t \in Seq(S)
  PROVE  ToSet(s) \subseteq ToSet(s \o t)
<1>1. s \o t \in Seq(S) /\ Len(s \o t) = Len(s) + Len(t) /\ \A i \in 1..Len(s) : (s \o t)[i] = s[i]
  BY ConcatProperties
<1>2. QED BY <1>1 DEF ToSet

\* The agent that runs will close it.
Owned(fd) == Running /\ agent.init /\ agent.fd = fd

\* What was forgotten stays so for the same reason.
ReasonsKept ==
  \A k \in Connections : /\ clientEnd[k] = "rst" => clientEnd'[k] = "rst"
                         /\ k \in silent => k \in silent'

LEMMA UsedIn ==
  ASSUME Types, NEW fd \in Descriptors \ Unused
  PROVE  table[fd] \in Connections /\ fd # 0
<1>1. table[fd] \in 0..made /\ table[fd] # None /\ made \in 0..MaxConnections
  BY DEF Types, NetTypes, TableTypes, Unused
<1>2. QED BY <1>1, InRange, SessionAssumption DEF Descriptors

\* The steps that take no descriptor from who will close it.
LEMMA ForgotBefore ==
  ASSUME Types, DInv, ReasonsKept,
         \A fd \in Descriptors \ Unused' :
           \/ table'[fd] = table[fd]
           \/ fd \in ToSet(queue'),
         \A fd \in Descriptors \ Unused' :
           fd \in ToSet(queue) \/ Owned(fd) =>
             \/ fd \in ToSet(queue') \/ Owned(fd)'
             \/ clientEnd'[table'[fd]] = "rst" \/ table'[fd] \in silent'
  PROVE  ForgottenForAReason'
<1>1. SUFFICES ASSUME NEW fd \in Forgotten'
               PROVE  clientEnd'[table'[fd]] = "rst" \/ table'[fd] \in silent'
  BY DEF ForgottenForAReason
<1>2. fd \in Descriptors \ Unused' /\ fd \notin ToSet(queue') /\ ~Owned(fd)'
  BY <1>1 DEF Forgotten, Owned
<1>3. table'[fd] = table[fd]
  BY <1>2
<1>4. fd \notin Unused
  BY <1>2, <1>3 DEF Unused
<1>5. CASE fd \in ToSet(queue) \/ Owned(fd)
  BY <1>2, <1>5
<1>6. CASE ~(fd \in ToSet(queue) \/ Owned(fd))
  <2>1. fd \in Forgotten
    BY <1>2, <1>4, <1>6 DEF Forgotten, Owned
  <2>2. clientEnd[table[fd]] = "rst" \/ table[fd] \in silent
    BY <2>1 DEF DInv, ForgottenForAReason
  <2>3. table[fd] \in Connections
    BY <1>2, <1>4, UsedIn
  <2>4. QED BY <1>3, <2>2, <2>3 DEF ReasonsKept
<1>7. QED BY <1>5, <1>6

LEMMA SameAgent ==
  ASSUME Types, DInv, ReasonsKept, UNCHANGED <<table, queue>>,
         agent'.fd = agent.fd, agent'.init = agent.init, Running' = Running,
         agent'.pc = "stop" => agent.pc = "stop" \/ ~agent'.init
  PROVE  DInv'
<1>1. Conn' = Conn /\ Stolen' = Stolen
  BY Zenon DEF Conn, Stolen
<1>2. \A fd \in Descriptors : Owned(fd)' = Owned(fd)
  BY DEF Owned
<1>3. ForgottenForAReason'
  BY <1>2, ForgotBefore
<1>4. QED BY <1>1, <1>3 DEF DInv, Borrowed, ClosedBeforeStop
-----------------------------------------------------------------------------
\* A client's end is open while the client has the connection.
LEMMA ClientsKeep ==
  ASSUME IInv, DInv, NEW c \in Clients,
         \/ Connect(c) \/ ConnectFails(c) \/ Interrupt(c) \/ Vanishes(c) \/ ClientStep(c)
         \/ \E op \in Ops : SendOrder(c, op)
  PROVE  DInv'
<1>1. UNCHANGED <<table, queue, agent, silent>>
  BY DEF Connect, ConnectFails, Interrupt, Vanishes, ClientStep, SendOrder, SendBody, CloseSocket,
         RecvReplyHeader, RecvReplyBody, ReplyLost, Terminates, ClientKeeps, serverVars
<1>2. client[c].conn # None => client[c].conn \in Connections /\ clientEnd[client[c].conn] = "open"
  BY OfClient DEF IInv, Types, Owners
<1>3. ClientCloses(client[c].conn) => ReasonsKept
  BY <1>1, <1>2 DEF ClientCloses, ReasonsKept, IInv, Types, NetTypes
<1>4. Vanishes(c) => ReasonsKept
  BY <1>1, <1>2 DEF Vanishes, ReasonsKept, IInv, Types, NetTypes
<1>5. UNCHANGED clientEnd => ReasonsKept
  BY <1>1 DEF ReasonsKept
<1>6. ReasonsKept
  BY <1>3, <1>4, <1>5 DEF Connect, ConnectFails, Interrupt, Vanishes, ClientStep, SendOrder, SendBody,
     CloseSocket, RecvReplyHeader, RecvReplyBody, ReplyLost, Terminates
<1>7. Running' = Running
  BY <1>1 DEF Running
<1>8. QED BY <1>1, <1>6, <1>7, SameAgent DEF IInv

LEMMA AcceptKeepsD ==
  ASSUME IInv, DInv, Accept
  PROVE  DInv'
<1>1. PICK fd \in Unused : table' = [table EXCEPT ![fd] = Head(backlog)] /\ queue' = Append(queue, fd)
  BY DEF Accept
<1>2. UNCHANGED <<agent, silent, clientEnd>>
  BY DEF Accept, NetKeeps
<1>3. fd \in Descriptors /\ table \in [Descriptors -> 0..made] /\ queue \in Seq(Descriptors \cup {Flag})
  BY DEF Unused, IInv, Types, TableTypes
<1>4. ToSet(queue') = ToSet(queue) \cup {fd}
  BY <1>1, <1>3, ToSetAppend
<1>5. ReasonsKept
  BY <1>2 DEF ReasonsKept
<1>6. \A other \in Descriptors : other # fd => table'[other] = table[other]
  BY <1>1, <1>3
<1>7. ForgottenForAReason'
  <2>1. \A other \in Descriptors : Owned(other)' = Owned(other)
    BY <1>2 DEF Owned, Running
  <2>2. QED BY <1>4, <1>5, <1>6, <2>1, ForgotBefore DEF IInv
<1>8. Borrowed'
  <2>1. SUFFICES ASSUME Stolen' PROVE agent.fd \in ToSet(queue')
    BY <1>2 DEF Borrowed
  <2>2. CASE agent.fd = fd
    BY <1>4, <2>2
  <2>3. CASE agent.fd # fd
    <3>1. agent.fd \in 0..MaxDescriptors
      BY DEF IInv, Types, AgentTypes
    <3>2. Conn' = Conn
      BY <1>2, <1>6, <2>3, <3>1, SessionAssumption DEF Conn, Descriptors
    <3>3. Stolen
      BY <1>2, <2>1, <3>2 DEF Stolen, Running
    <3>4. QED BY <1>4, <3>3 DEF DInv, Borrowed
  <2>4. QED BY <2>2, <2>3
<1>9. QED BY <1>2, <1>7, <1>8 DEF DInv, ClosedBeforeStop

LEMMA TakeKeepsD ==
  ASSUME IInv, DInv, Take
  PROVE  DInv'
<1>1. /\ agent.pc = "none" /\ queue # << >> /\ queue' = Tail(queue)
      /\ UNCHANGED <<table, silent, clientEnd>>
  BY DEF Take, Agent, NetKeeps
<1>2. queue \in Seq(Descriptors \cup {Flag})
  BY DEF IInv, Types, TableTypes
<1>3. \/ agent'.init /\ Running' /\ agent'.fd = Head(queue)
      \/ Head(queue) = Flag /\ ~Running'
  BY DEF Take, Running, NoAgent
<1>4. ~Stolen' /\ agent'.pc # "stop"
  BY <1>3 DEF Stolen, Take, NoAgent
<1>5. ReasonsKept
  BY <1>1 DEF ReasonsKept
<1>6. ASSUME NEW fd \in Descriptors, fd \in ToSet(queue) \/ Owned(fd)
      PROVE  fd \in ToSet(queue') \/ Owned(fd)'
  <2>1. fd \in ToSet(queue) /\ fd # Flag
    BY <1>1, <1>6, SessionAssumption DEF Owned, Running, Descriptors, Flag
  <2>2. fd = Head(queue) \/ fd \in ToSet(queue')
    BY <1>1, <1>2, <2>1, ToSetTail
  <2>3. QED BY <1>3, <2>1, <2>2 DEF Owned
<1>7. ForgottenForAReason'
  BY <1>1, <1>5, <1>6, ForgotBefore DEF IInv
<1>8. QED BY <1>4, <1>7 DEF DInv, Borrowed, ClosedBeforeStop

\* An agent ends: with its own descriptor closed, or for one of the reasons.
LEMMA EndsKeeps ==
  ASSUME IInv, DInv, agent' = NoAgent, UNCHANGED <<queue, clientEnd>>, silent \subseteq silent',
         \/ UNCHANGED table /\ Conn # None /\ (clientEnd[Conn] = "rst" \/ Conn \in silent')
         \/ UNCHANGED table /\ (Conn = None \/ ~agent.init)
         \/ agent.fd \in Descriptors /\ table' = [table EXCEPT ![agent.fd] = None]
  PROVE  DInv'
<1>1. ~Running' /\ ~Stolen' /\ agent'.pc # "stop"
  BY DEF NoAgent, Running, Stolen
<1>2. ReasonsKept
  BY DEF ReasonsKept
<1>3. table \in [Descriptors -> 0..made]
  BY DEF IInv, Types, TableTypes
<1>4. \A fd \in Descriptors \ Unused' : table'[fd] = table[fd]
  BY <1>3 DEF Unused
<1>5. ASSUME NEW fd \in Descriptors \ Unused', fd \in ToSet(queue) \/ Owned(fd)
      PROVE  fd \in ToSet(queue') \/ clientEnd'[table'[fd]] = "rst" \/ table'[fd] \in silent'
  <2>1. CASE Owned(fd)
    <3>1. agent.init /\ agent.fd = fd /\ fd # 0 /\ Conn = table[fd] /\ table'[fd] = table[fd] /\ Conn # None
      BY <1>4, <1>5, <2>1, SessionAssumption DEF Owned, Conn, Descriptors, Unused
    <3>2. ~(table' = [table EXCEPT ![agent.fd] = None])
      BY <1>3, <3>1
    <3>3. QED BY <3>1, <3>2
  <2>2. QED BY <1>5, <2>1
<1>6. ForgottenForAReason'
  BY <1>2, <1>4, <1>5, ForgotBefore DEF IInv
<1>7. QED BY <1>1, <1>6 DEF DInv, Borrowed, ClosedBeforeStop

\* An agent goes on after it has closed the descriptor, if that was its own.
LEMMA GoesOnKeeps ==
  ASSUME IInv, DInv, Running, Running', Conn # None, CloseDescriptor,
         agent'.fd = agent.fd, agent'.init = FALSE, UNCHANGED <<queue, clientEnd, silent>>
  PROVE  DInv'
<1>1. ReasonsKept
  BY DEF ReasonsKept
<1>2. CASE ~agent.init
  <2>1. UNCHANGED table
    BY <1>2 DEF CloseDescriptor
  <2>2. agent'.init = agent.init
    BY <1>2 DEF IInv, Types, AgentTypes
  <2>3. Running' = Running
    BY DEF Running
  <2>4. QED BY <1>1, <2>1, <2>2, <2>3, SameAgent DEF IInv
<1>3. CASE agent.init
  <2>1. agent.fd \in Descriptors /\ table \in [Descriptors -> 0..made]
    BY OfConn DEF IInv, Types, TableTypes
  <2>2. table' = [table EXCEPT ![agent.fd] = None]
    BY <1>3 DEF CloseDescriptor
  <2>3. Conn' = None /\ ~Stolen'
    BY <2>1, <2>2 DEF Conn, Stolen, None
  <2>4. \A fd \in Descriptors \ Unused' : table'[fd] = table[fd] /\ fd # agent.fd
    BY <2>1, <2>2 DEF Unused
  <2>5. ForgottenForAReason'
    BY <1>1, <2>4, ForgotBefore DEF IInv, Owned
  <2>6. QED BY <2>3, <2>5 DEF DInv, Borrowed, ClosedBeforeStop
<1>4. QED BY <1>2, <1>3 DEF IInv, Types, AgentTypes

LEMMA AgentKeeps ==
  ASSUME IInv, DInv, AgentStep
  PROVE  DInv'
<1>1. CASE Take
  BY <1>1, TakeKeepsD
<1> DEFINE Same == /\ UNCHANGED <<table, queue, clientEnd>> /\ silent \subseteq silent'
                   /\ Running /\ Running' /\ agent'.fd = agent.fd /\ agent'.init = agent.init
                   /\ agent'.pc # "stop"
<1>2. ASSUME Same PROVE DInv'
  <2>1. ReasonsKept
    BY <1>2 DEF ReasonsKept
  <2>2. Running' = Running
    BY <1>2 DEF Running
  <2>3. QED BY <1>2, <2>1, <2>2, SameAgent DEF IInv
<1>a. /\ agent \in [pc : {"none", "ended", "check", "header", "body", "act", "stop",
                          "reply header", "reply body"},
                    fd : 0..MaxDescriptors, init : BOOLEAN, op : Ops \cup {"none"},
                    seq : 0..MaxSequence, id : Requests \cup {<< >>}]
      /\ agent.pc \in {"header", "body", "act", "reply header", "reply body"} => Conn # None
  BY DEF IInv, Types, AgentTypes, Carrying
<1>3. CASE IsConnected
  <2>1. UNCHANGED <<table, queue, silent, clientEnd>> /\ agent.pc = "check"
    BY <1>3 DEF IsConnected, Agent, NetKeeps
  <2>2. CASE Become("header")
    BY <1>a, <1>2, <2>1, <2>2 DEF Become, Running
  <2>3. CASE agent' = NoAgent /\ (Conn = None \/ clientEnd[Conn] = "rst")
    BY <2>1, <2>3, EndsKeeps
  <2>4. QED BY <1>3, <2>2, <2>3 DEF IsConnected
<1>4. CASE RecvHeader
  <2>1. UNCHANGED <<queue, silent>> /\ agent.pc = "header" /\ Running /\ Conn # None
    BY <1>4, <1>a DEF RecvHeader, Agent, Running
  <2>2. CASE Readable /\ Receives(AfterHeader(Head(toServer[Conn]).op)) /\ UNCHANGED table
    <3>1. AfterHeader(Head(toServer[Conn]).op) \in {"body", "act"}
      BY DEF AfterHeader
    <3>2. QED BY <1>a, <1>2, <2>1, <2>2, <3>1 DEF Receives, Running
  <2>3. CASE PeerClosed
    BY <2>1, <2>3, GoesOnKeeps DEF PeerClosed, Loop, NoAgent, Running
  <2>4. CASE IsReset /\ Loop(agent.init) /\ NetKeeps /\ UNCHANGED table
    BY <1>2, <2>1, <2>4 DEF Loop, NoAgent, Running, NetKeeps
  <2>5. QED BY <1>4, <2>2, <2>3, <2>4 DEF RecvHeader
<1>5. CASE RecvBody
  BY <1>5, <1>a, <1>2 DEF RecvBody, Receives, Agent, Running
<1>6. CASE BodyLost
  <2>1. UNCHANGED <<queue, silent, clientEnd>> /\ agent.pc = "body" /\ Running /\ Conn # None
    BY <1>6, <1>a DEF BodyLost, Agent, Running
  <2>2. CASE AtEof /\ agent.op = "insert"
    <3>1. CloseDescriptor /\ Loop(FALSE)
      BY <1>6, <2>2 DEF BodyLost
    <3>2. QED BY <2>1, <3>1, GoesOnKeeps DEF Loop, NoAgent, Running
  <2>3. CASE AtEof /\ agent.op # "insert"
    <3>1. CloseDescriptor /\ agent' = NoAgent /\ agent.fd \in Descriptors
      BY <1>6, <2>1, <2>3, OfConn DEF BodyLost, IInv, Types
    <3>2. QED BY <2>1, <3>1, EndsKeeps DEF CloseDescriptor
  <2>4. CASE ~AtEof /\ agent.op = "insert"
    <3>1. UNCHANGED table /\ Loop(agent.init)
      BY <1>6, <1>a, <2>4 DEF BodyLost
    <3>2. QED BY <1>2, <2>1, <3>1 DEF Loop, NoAgent, Running
  <2>5. CASE ~AtEof /\ agent.op # "insert"
    BY <1>6, <2>1, <2>5, EndsKeeps DEF BodyLost, IsReset
  <2>6. QED BY <2>2, <2>3, <2>4, <2>5
<1>7. CASE Disconnect \/ Shutdown
  <2>1. /\ UNCHANGED <<queue, silent, clientEnd>> /\ agent.pc = "act" /\ Running /\ Conn # None
        /\ CloseDescriptor
    BY <1>7, <1>a DEF Disconnect, Shutdown, Agent, Running, Acts
  <2>2. agent'.fd = agent.fd /\ agent'.init = FALSE /\ Running'
    BY <1>7, <1>a DEF Disconnect, Shutdown, Loop, NoAgent, Running
  <2>3. QED BY <2>1, <2>2, GoesOnKeeps
<1>8. CASE StopAll
  <2>1. /\ UNCHANGED <<table, silent, clientEnd>> /\ Loop(FALSE) /\ agent.pc = "stop" /\ Running
        /\ queue' = queue \/ queue' = queue \o <<Flag, Flag>>
    BY <1>8 DEF StopAll, Agent, Running, NetKeeps
  <2>2. ToSet(queue) \subseteq ToSet(queue')
    BY <2>1, ToSetGrows, <<Flag, Flag>> \in Seq(Descriptors \cup {Flag}) DEF IInv, Types, TableTypes
  <2>3. ~agent.init /\ ~agent'.init /\ agent'.fd = agent.fd /\ agent'.pc = "check"
    BY <2>1 DEF DInv, ClosedBeforeStop, Loop, NoAgent
  <2>4. ReasonsKept /\ \A fd \in Descriptors : ~Owned(fd)
    BY <2>1, <2>3 DEF ReasonsKept, Owned
  <2>5. ForgottenForAReason'
    BY <2>1, <2>2, <2>4, ForgotBefore DEF IInv
  <2>6. Conn' = Conn
    BY <2>1, <2>3 DEF Conn
  <2>7. Borrowed'
    BY <2>1, <2>2, <2>3, <2>6 DEF DInv, Borrowed, Stolen
  <2>8. QED BY <2>3, <2>5, <2>7 DEF DInv, ClosedBeforeStop
<1>9. CASE InsertOk \/ QueryOk \/ DeleteOk
  <2>1. Agent("act") /\ CarriedOut
    BY <1>9 DEF InsertOk, QueryOk, DeleteOk
  <2>2. QED BY <1>a, <1>2, <2>1 DEF CarriedOut, Become, Acts, NetKeeps, Agent, Running
<1>10. CASE InsertRefused
  BY <1>10, <1>a, <1>2 DEF InsertRefused, Unanswered, Loop, NoAgent, Acts, NetKeeps, Agent, Running
<1>11. CASE QueryThrows
  <2>1. agent' = NoAgent /\ Unanswered /\ Conn # None
    BY <1>11, <1>a DEF QueryThrows, Agent
  <2>2. UNCHANGED <<queue, clientEnd, table>> /\ silent \subseteq silent' /\ Conn \in silent'
    BY <2>1 DEF Unanswered, Acts, NetKeeps
  <2>3. QED BY <2>1, <2>2, EndsKeeps
<1>12. CASE SendReplyHeader \/ SendReplyBody
  <2>1. /\ UNCHANGED <<table, queue, silent>>
        /\ clientEnd' \in {clientEnd, [clientEnd EXCEPT ![Conn] = "rst"]}
    BY <1>12 DEF SendReplyHeader, SendReplyBody, SendReply, ServerSends
  <2>2. ReasonsKept
    BY <2>1 DEF ReasonsKept, IInv, Types, NetTypes
  <2>3. /\ agent'.fd = agent.fd /\ agent'.init = agent.init /\ Running' = Running /\ agent'.pc # "stop"
    BY <1>12, <1>a DEF SendReplyHeader, SendReplyBody, SendReply, Become, Loop, NoAgent, Agent, Running
  <2>4. QED BY <2>1, <2>2, <2>3, SameAgent DEF IInv
<1>13. QED
  BY <1>1, <1>3, <1>4, <1>5, <1>6, <1>7, <1>8, <1>9, <1>10, <1>11, <1>12 DEF AgentStep

LEMMA NextKeepsD == IInv /\ DInv /\ [Next]_vars => DInv'
<1>1. SUFFICES ASSUME IInv, DInv, [Next]_vars PROVE DInv'
  OBVIOUS
<1>2. ASSUME NEW c \in Clients,
             \/ Connect(c) \/ ConnectFails(c) \/ Interrupt(c) \/ Vanishes(c) \/ ClientStep(c)
             \/ \E op \in Ops : SendOrder(c, op)
      PROVE  DInv'
  BY <1>1, <1>2, ClientsKeep
<1>3. CASE Accept
  BY <1>1, <1>3, AcceptKeepsD
<1>4. CASE AgentStep
  BY <1>1, <1>4, AgentKeeps
<1>5. CASE Down
  <2>1. table' = [fd \in Descriptors |-> None] /\ agent' = NoAgent
    BY <1>5 DEF Down
  <2>2. Unused' = Descriptors /\ ~Stolen' /\ agent'.pc # "stop"
    BY <2>1 DEF Unused, Stolen, Running, NoAgent
  <2>3. QED BY <2>2 DEF DInv, ForgottenForAReason, Forgotten, Borrowed, ClosedBeforeStop
<1>6. CASE Restart \/ UNCHANGED vars
  <2>1. UNCHANGED <<table, queue, agent, silent, clientEnd>>
    BY <1>6 DEF Restart, NetKeeps, vars, serverVars, netVars
  <2>2. ReasonsKept /\ Running' = Running
    BY <2>1 DEF ReasonsKept, Running
  <2>3. QED BY <1>1, <2>1, <2>2, SameAgent DEF IInv
<1>7. QED BY <1>1, <1>2, <1>3, <1>4, <1>5, <1>6 DEF Next

\* A descriptor that no agent will close belongs to a client that was reset, or
\* whose request went without a reply (pmdAgent::run).
THEOREM ForgottenHasReason == Spec => []ForgottenForAReason
<1>1. Init => DInv
  <2>1. Init => Unused = Descriptors /\ ~Running /\ agent.pc # "stop"
    BY DEF Init, Unused, Running, NoAgent
  <2>2. QED BY <2>1 DEF DInv, ForgottenForAReason, Forgotten, Borrowed, Stolen, ClosedBeforeStop
<1>2. IInv /\ DInv /\ [Next]_vars => DInv'
  BY NextKeepsD
<1>3. DInv => ForgottenForAReason
  BY DEF DInv
<1>4. QED BY <1>1, <1>2, <1>3, Invariant, PTL DEF Spec
=============================================================================
