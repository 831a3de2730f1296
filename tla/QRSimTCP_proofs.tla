--------------------------- MODULE QRSimTCP_proofs ---------------------------
(***************************************************************************)
(* Proofs about QRSimTCP, for any tasks and any number of connections,     *)
(* calls and server processes.  The argument has four layers.              *)
(*                                                                         *)
(*  - TypeOK is inductive.                                                 *)
(*  - ClientShape ties the client's program counter to the call it makes   *)
(*    and its socket to the latest connection; Loaded says that the        *)
(*    parameters of a task travel only once there is a simulator.          *)
(*  - Ordered: requests lie in the queues in the order of their issue, the *)
(*    connections being read in the order they were made, and all that can *)
(*    still be read is younger than what was executed.                     *)
(*  - Pipe says for a clean connection what CleanPipe does, and what the   *)
(*    induction needs beside it: how many replies there can be, that their *)
(*    request is the latest executed, and that the parameters they carry   *)
(*    are those of the simulator.  Agreed says that once they arrived no   *)
(*    request that could change them can reach the server, until the       *)
(*    client calls init again.                                             *)
(***************************************************************************)
EXTENDS QRSimTCP, SequenceTheorems, TLAPS

\* The server reads connection c now, or may accept it later.
Readable(c) == \/ spc = "serve" /\ c = conn
               \/ \E i \in DOMAIN backlog : backlog[i] = c

ClientShape ==
    /\ cpc \in Receiving => \/ cpc = Awaited(call.op)
                            \/ cpc = "receiveInfo" /\ call.op = "init"
    /\ sock # 0 => sock = Len(conns) /\ conns[sock].open
    /\ ret.ok => ret.conn \in DOMAIN conns
    /\ spc = "down" => backlog = <<>> /\ \A c \in DOMAIN conns : ~conns[c].up

Loaded ==
    starts = 1 /\ spc # "down" =>
        /\ initialized => sim.loaded
        /\ \A c \in DOMAIN conns : \A i \in DOMAIN conns[c].rep :
               conns[c].rep[i].type = "TASKINFO" => sim.loaded

BacklogOrdered ==
    /\ \A i, j \in DOMAIN backlog : i < j => backlog[i] < backlog[j]
    /\ spc = "serve" => \A i \in DOMAIN backlog : conn < backlog[i]

RequestsOrdered ==
    \A c, d \in DOMAIN conns :
        \A i \in DOMAIN conns[c].req : \A j \in DOMAIN conns[d].req :
            c < d \/ (c = d /\ i < j) => conns[c].req[i].id < conns[d].req[j].id

RequestsNew ==
    /\ executed <= call.id
    /\ \A c \in DOMAIN conns : \A i \in DOMAIN conns[c].req :
           /\ conns[c].req[i].id <= call.id
           /\ Readable(c) => executed < conns[c].req[i].id

\* What a clean connection c of a living client holds.
PipeOf(c) ==
    /\ ~Waits(c) => conns[c].req = <<>> /\ conns[c].rep = <<>>
    /\ conns[c].req # <<>> => /\ Len(conns[c].req) = 1
                              /\ conns[c].req[1].id = call.id
                              /\ conns[c].req[1].op = call.op
                              /\ cpc = Awaited(call.op)
                              /\ conns[c].rep = <<>>
    /\ Len(conns[c].rep) <= IF cpc = "receiveState" /\ call.op = "init" THEN 2 ELSE 1
    /\ \A i \in DOMAIN conns[c].rep :
           /\ conns[c].rep[i].id = call.id
           /\ executed = call.id
           /\ conns[c].rep[i].type = "TASKINFO" /\ conns[c].up =>
                  spc = "serve" /\ conn = c /\ conns[c].rep[i].uavs = sim.numUAVs

Pipe == \A c \in DOMAIN conns : conns[c].clean /\ conns[c].open => PipeOf(c)

\* Nothing can reach a server that is gone.
DownEmpty == \A c \in DOMAIN conns : ~conns[c].up => conns[c].req = <<>>

\* The server has the numbers the client was told, and no request that the
\* server can read, or the client wait for, is an init.
Agreed ==
    paramsFrom # 0 =>
        /\ paramsFrom \in DOMAIN conns
        /\ cpc \in Receiving => call.op # "init"
        /\ conns[paramsFrom].up =>
               /\ cliNumUAVs = sim.numUAVs
               /\ \A c \in DOMAIN conns : Readable(c) =>
                      \A i \in DOMAIN conns[c].req : conns[c].req[i].op # "init"

IInv == TypeOK /\ ClientShape /\ Loaded /\ BacklogOrdered /\ RequestsOrdered
            /\ RequestsNew /\ DownEmpty /\ Pipe /\ Agreed
-----------------------------------------------------------------------------
(* What the actions do to the connections, one by one.                     *)

LEMMA CountsFacts ==
    /\ 0 \in UavCounts /\ UavCounts \subseteq Nat
    /\ \A k \in Tasks : Uavs[k] \in UavCounts
    /\ \A a \in UavCounts, k \in Tasks :
           /\ Larger(a, Uavs[k]) \in UavCounts
           /\ \A f \in a .. Larger(a, Uavs[k]) : f \in UavCounts
BY TCPAssumption DEF UavCounts, Larger

LEMMA PointUpdate ==
    ASSUME conns \in Seq(Connection), NEW c \in DOMAIN conns, NEW e \in Connection,
           conns' = [conns EXCEPT ![c] = e]
    PROVE  /\ conns' \in Seq(Connection) /\ Len(conns') = Len(conns)
           /\ DOMAIN conns' = DOMAIN conns
           /\ conns'[c] = e
           /\ \A d \in DOMAIN conns : d # c => conns'[d] = conns[d]
<1>1. DOMAIN conns = 1 .. Len(conns) /\ Len(conns) \in Nat
  BY LenProperties
<1>2. /\ conns' \in Seq(Connection) /\ Len(conns') = Len(conns)
      /\ \A j \in 1 .. Len(conns) : conns'[j] = IF j = c THEN e ELSE conns[j]
  BY <1>1, ExceptSeq
<1>3. DOMAIN conns' = 1 .. Len(conns')
  BY <1>2, LenProperties
<1> QED BY <1>1, <1>2, <1>3

LEMMA WholeUpdate ==
    ASSUME conns \in Seq(Connection), NEW r, r \in [DOMAIN conns -> Connection],
           conns' = r
    PROVE  /\ conns' \in Seq(Connection) /\ Len(conns') = Len(conns)
           /\ DOMAIN conns' = DOMAIN conns
<1>1. DOMAIN conns = 1 .. Len(conns) /\ Len(conns) \in Nat
  BY LenProperties
<1> QED BY <1>1

LEMMA Fields ==
    ASSUME conns \in Seq(Connection), NEW c \in DOMAIN conns
    PROVE  /\ conns[c] \in Connection
           /\ conns[c].open \in BOOLEAN /\ conns[c].up \in BOOLEAN
           /\ conns[c].clean \in BOOLEAN
           /\ conns[c].req \in Seq(Requests) /\ conns[c].rep \in Seq(Replies)
<1>1. conns[c] \in Connection
  BY ElementOfSeq, LenProperties
<1> QED BY <1>1 DEF Connection

LEMMA RepliesTyped ==
    ASSUME NEW i \in 1 .. MaxCalls, NEW n \in UavCounts, NEW e \in BOOLEAN
    PROVE  State(i) \in Replies /\ TaskInfo(i, n) \in Replies /\ Ack(i, e) \in Replies
BY CountsFacts DEF State, TaskInfo, Ack, Replies

(* A queue after its first element is taken.                               *)
LEMMA TailIs ==
    ASSUME NEW S, NEW q \in Seq(S), q # <<>>
    PROVE  /\ Head(q) = q[1] /\ q[1] \in S /\ 1 \in DOMAIN q
           /\ Tail(q) \in Seq(S)
           /\ Len(q) >= 1 /\ Len(Tail(q)) = Len(q) - 1
           /\ DOMAIN q = 1 .. Len(q)
           /\ DOMAIN Tail(q) = 1 .. Len(q) - 1
           /\ \A i \in DOMAIN Tail(q) : i + 1 \in DOMAIN q /\ Tail(q)[i] = q[i + 1]
           /\ Len(q) = 1 => Tail(q) = <<>>
<1>1. Len(q) \in Nat \ {0} /\ DOMAIN q = 1 .. Len(q)
  BY EmptySeq, LenProperties
<1>2. /\ Tail(q) \in Seq(S) /\ Len(Tail(q)) = Len(q) - 1
      /\ \A i \in 1 .. Len(Tail(q)) : Tail(q)[i] = q[i + 1]
  BY HeadTailProperties
<1>3. DOMAIN Tail(q) = 1 .. Len(Tail(q))
  BY <1>2, LenProperties
<1>4. Len(q) = 1 => Tail(q) = <<>>
  <2>1. Tail(q) # <<>> => Len(Tail(q)) \in Nat \ {0}
    BY <1>2, EmptySeq, Zenon
  <2> QED BY <1>1, <1>2, <2>1
<1>5. Head(q) = q[1] /\ q[1] \in S
  BY <1>1, ElementOfSeq
<1> QED BY <1>1, <1>2, <1>3, <1>4, <1>5

(* The server takes a request: what it is, and what it leaves.             *)
LEMMA ServesFacts ==
    ASSUME TypeOK, NEW op, Serves(op)
    PROVE  /\ spc = "serve" /\ conn \in DOMAIN conns
           /\ conns[conn].req # <<>>
           /\ Request = conns[conn].req[1] /\ Request \in Requests
           /\ 1 \in DOMAIN conns[conn].req
           /\ Request.op = op /\ Request.id \in 1 .. MaxCalls
           /\ Request.uavs \in UavCounts /\ Request.dt \in {0} \cup Increments
           /\ executed' = Request.id
<1>1. conn \in DOMAIN conns
  BY LenProperties DEF TypeOK, Serves
<1>2. conns[conn].req \in Seq(Requests) /\ conns[conn].req # <<>>
  BY <1>1, Fields DEF TypeOK, Serves
<1>3. Request = conns[conn].req[1] /\ Request \in Requests /\ 1 \in DOMAIN conns[conn].req
  BY <1>2, TailIs DEF Request
<1> QED BY <1>1, <1>2, <1>3 DEF Serves, Requests

LEMMA AnswerEffect ==
    ASSUME TypeOK, NEW op, Serves(op), NEW replies \in Seq(Replies), NEW one \in BOOLEAN,
           Answer(replies, one)
    PROVE  /\ conns' \in Seq(Connection) /\ Len(conns') = Len(conns)
           /\ DOMAIN conns' = DOMAIN conns
           /\ \A d \in DOMAIN conns : d # conn => conns'[d] = conns[d]
           /\ conns'[conn].open = conns[conn].open /\ conns'[conn].up = conns[conn].up
           /\ conns'[conn].clean = (conns[conn].clean /\ one)
           /\ conns'[conn].req = Tail(conns[conn].req)
           /\ conns'[conn].rep = IF conns[conn].open THEN conns[conn].rep \o replies
                                 ELSE conns[conn].rep
<1> DEFINE c == conns[conn]
           e == [c EXCEPT !.req = Tail(c.req), !.clean = c.clean /\ one,
                          !.rep = IF c.open THEN c.rep \o replies ELSE c.rep]
<1>1. conn \in DOMAIN conns /\ c.req # <<>>
  BY ServesFacts
<1>2. /\ c \in Connection /\ c.open \in BOOLEAN /\ c.up \in BOOLEAN /\ c.clean \in BOOLEAN
      /\ c.req \in Seq(Requests) /\ c.rep \in Seq(Replies)
  BY <1>1, Fields DEF TypeOK
<1>3. Tail(c.req) \in Seq(Requests) /\ c.rep \o replies \in Seq(Replies)
  BY <1>1, <1>2, TailIs, ConcatProperties
<1>4. e \in Connection
  BY <1>2, <1>3 DEF Connection
<1>5. conns' = [conns EXCEPT ![conn] = e]
  BY <1>1, <1>2 DEF Answer, Connection
<1>6. conns' \in Seq(Connection) /\ Len(conns') = Len(conns) /\ DOMAIN conns' = DOMAIN conns
      /\ conns'[conn] = e /\ \A d \in DOMAIN conns : d # conn => conns'[d] = conns[d]
  BY <1>1, <1>4, <1>5, PointUpdate DEF TypeOK
<1> QED BY <1>1, <1>2, <1>6 DEF Connection

LEMMA CallEffect ==
    ASSUME TypeOK, NEW op \in Ops, NEW k \in Tasks \cup {BadTask},
           NEW dt \in {0} \cup Increments, Call(op, k, dt), Alive(sock)
    PROVE  LET r == [op |-> op, id |-> call.id + 1, task |-> k, dt |-> dt,
                     uavs |-> cliNumUAVs]
           IN  /\ r \in Requests
               /\ sock \in DOMAIN conns
               /\ conns' \in Seq(Connection) /\ Len(conns') = Len(conns)
               /\ DOMAIN conns' = DOMAIN conns
               /\ \A d \in DOMAIN conns : d # sock => conns'[d] = conns[d]
               /\ conns'[sock].open = conns[sock].open
               /\ conns'[sock].up = conns[sock].up
               /\ conns'[sock].clean = conns[sock].clean
               /\ conns'[sock].rep = conns[sock].rep
               /\ conns'[sock].req = Append(conns[sock].req, r)
<1> DEFINE r == [op |-> op, id |-> call.id + 1, task |-> k, dt |-> dt, uavs |-> cliNumUAVs]
           c == conns[sock]
           e == [c EXCEPT !.req = Append(c.req, r)]
<1>1. sock \in DOMAIN conns
  BY LenProperties DEF TypeOK, Alive
<1>2. r \in Requests
  <2>1. call.id \in 0 .. MaxCalls /\ cliNumUAVs \in UavCounts
    BY DEF TypeOK
  <2>2. call.id < MaxCalls
    BY DEF Call
  <2>3. MaxCalls \in Nat
    BY TCPAssumption
  <2>4. call.id + 1 \in 1 .. MaxCalls
    BY <2>1, <2>2, <2>3
  <2> QED BY <2>1, <2>4 DEF Requests
<1>3. /\ c \in Connection /\ c.open \in BOOLEAN /\ c.up \in BOOLEAN /\ c.clean \in BOOLEAN
      /\ c.req \in Seq(Requests) /\ c.rep \in Seq(Replies)
  BY <1>1, Fields DEF TypeOK
<1>4. e \in Connection
  BY <1>2, <1>3, AppendProperties DEF Connection
<1>5. conns' = [conns EXCEPT ![sock] = e]
  BY <1>1, <1>3 DEF Call, Connection
<1>6. conns' \in Seq(Connection) /\ Len(conns') = Len(conns) /\ DOMAIN conns' = DOMAIN conns
      /\ conns'[sock] = e /\ \A d \in DOMAIN conns : d # sock => conns'[d] = conns[d]
  BY <1>1, <1>4, <1>5, PointUpdate DEF TypeOK
<1> QED BY <1>1, <1>2, <1>3, <1>6 DEF Connection

LEMMA ReceiveEffect ==
    ASSUME TypeOK, Receive
    PROVE  /\ sock \in DOMAIN conns
           /\ conns[sock].rep # <<>>
           /\ conns' \in Seq(Connection) /\ Len(conns') = Len(conns)
           /\ DOMAIN conns' = DOMAIN conns
           /\ \A d \in DOMAIN conns : d # sock => conns'[d] = conns[d]
           /\ conns'[sock].open = conns[sock].open
           /\ conns'[sock].up = conns[sock].up
           /\ conns'[sock].clean = conns[sock].clean
           /\ conns'[sock].req = conns[sock].req
           /\ conns'[sock].rep = Tail(conns[sock].rep)
<1> DEFINE c == conns[sock]
           e == [c EXCEPT !.rep = Tail(c.rep)]
<1>1. sock \in DOMAIN conns /\ c.rep # <<>>
  BY LenProperties DEF TypeOK, Receive
<1>3. /\ c \in Connection /\ c.open \in BOOLEAN /\ c.up \in BOOLEAN /\ c.clean \in BOOLEAN
      /\ c.req \in Seq(Requests) /\ c.rep \in Seq(Replies)
  BY <1>1, Fields DEF TypeOK
<1>4. e \in Connection
  BY <1>1, <1>3, TailIs DEF Connection
<1>5. conns' = [conns EXCEPT ![sock] = e]
  BY <1>1, <1>3 DEF Receive, Connection
<1>6. conns' \in Seq(Connection) /\ Len(conns') = Len(conns) /\ DOMAIN conns' = DOMAIN conns
      /\ conns'[sock] = e /\ \A d \in DOMAIN conns : d # sock => conns'[d] = conns[d]
  BY <1>1, <1>4, <1>5, PointUpdate DEF TypeOK
<1> QED BY <1>1, <1>3, <1>6 DEF Connection

LEMMA ReceiveFailsEffect ==
    ASSUME TypeOK, ReceiveFails, Alive(sock)
    PROVE  /\ sock \in DOMAIN conns
           /\ conns' \in Seq(Connection) /\ Len(conns') = Len(conns)
           /\ DOMAIN conns' = DOMAIN conns
           /\ \A d \in DOMAIN conns : d # sock => conns'[d] = conns[d]
           /\ conns'[sock].open = conns[sock].open
           /\ conns'[sock].up = conns[sock].up
           /\ conns'[sock].clean = (conns[sock].clean /\ conns[sock].req = <<>>)
           /\ conns'[sock].req = conns[sock].req
           /\ conns'[sock].rep = conns[sock].rep
<1> DEFINE c == conns[sock]
           e == [c EXCEPT !.clean = c.clean /\ c.req = <<>>]
<1>1. sock \in DOMAIN conns
  BY LenProperties DEF TypeOK, Alive
<1>3. /\ c \in Connection /\ c.open \in BOOLEAN /\ c.up \in BOOLEAN /\ c.clean \in BOOLEAN
      /\ c.req \in Seq(Requests) /\ c.rep \in Seq(Replies)
  BY <1>1, Fields DEF TypeOK
<1>4. e \in Connection
  BY <1>1, <1>3 DEF Connection
<1>5. conns' = [conns EXCEPT ![sock] = e]
  BY <1>1, <1>3 DEF ReceiveFails, Connection
<1>6. conns' \in Seq(Connection) /\ Len(conns') = Len(conns) /\ DOMAIN conns' = DOMAIN conns
      /\ conns'[sock] = e /\ \A d \in DOMAIN conns : d # sock => conns'[d] = conns[d]
  BY <1>1, <1>4, <1>5, PointUpdate DEF TypeOK
<1> QED BY <1>1, <1>3, <1>6 DEF Connection

LEMMA ConnectEffect ==
    ASSUME TypeOK, ConnectTo, spc # "down"
    PROVE  LET new == Len(conns) + 1
           IN  /\ conns' \in Seq(Connection) /\ Len(conns') = new
               /\ DOMAIN conns = 1 .. Len(conns) /\ DOMAIN conns' = 1 .. new
               /\ new <= MaxConns /\ sock' = new
               /\ \A d \in DOMAIN conns : conns'[d] = conns[d]
               /\ conns'[new] = [open |-> TRUE, up |-> TRUE, clean |-> TRUE,
                                 req |-> <<>>, rep |-> <<>>]
<1> DEFINE e == [open |-> TRUE, up |-> TRUE, clean |-> TRUE, req |-> <<>>, rep |-> <<>>]
<1>1. e \in Connection
  BY EmptySeq DEF Connection
<1>2. /\ conns' = Append(conns, e) /\ Len(conns) < MaxConns
      /\ sock' = Len(conns')
  BY DEF ConnectTo
<1>3. Len(conns) \in Nat /\ DOMAIN conns = 1 .. Len(conns)
  BY LenProperties DEF TypeOK
<1>4. conns' \in Seq(Connection) /\ DOMAIN conns' = 1 .. Len(conns')
  BY <1>1, <1>2, AppendProperties, LenProperties DEF TypeOK
<1>5. conns \in Seq(Connection)
  BY DEF TypeOK
<1>6. /\ Len(Append(conns, e)) = Len(conns) + 1
      /\ \A i \in 1 .. Len(conns) : Append(conns, e)[i] = conns[i]
      /\ Append(conns, e)[Len(conns) + 1] = e
  <2> HIDE DEF e
  <2> QED BY <1>1, <1>3, <1>5, AppendProperties
<1>7. Len(conns') = Len(conns) + 1 /\ sock' = Len(conns) + 1
  BY <1>2, <1>6
<1>8. Len(conns) + 1 <= MaxConns
  BY <1>2, <1>3, TCPAssumption
<1>9. conns'[Len(conns) + 1] = e
  BY <1>2, <1>6
<1>10. \A d \in DOMAIN conns : conns'[d] = conns[d]
  BY <1>2, <1>3, <1>6
<1>11. DOMAIN conns' = 1 .. Len(conns) + 1
  BY <1>4, <1>7
<1> QED BY <1>3, <1>4, <1>7, <1>8, <1>9, <1>10, <1>11

LEMMA ClientEndsEffect ==
    ASSUME TypeOK, ClientEnds
    PROVE  /\ conns' \in Seq(Connection) /\ Len(conns') = Len(conns)
           /\ DOMAIN conns' = DOMAIN conns
           /\ \A d \in DOMAIN conns :
                  /\ conns'[d].open = FALSE /\ conns'[d].rep = <<>>
                  /\ conns'[d].up = conns[d].up /\ conns'[d].clean = conns[d].clean
                  /\ conns'[d].req = conns[d].req
<1> DEFINE f == [c \in DOMAIN conns |-> [conns[c] EXCEPT !.open = FALSE, !.rep = <<>>]]
<1>1. \A c \in DOMAIN conns : conns[c] \in Connection
  BY Fields DEF TypeOK
<1>2. f \in [DOMAIN conns -> Connection]
  BY <1>1, EmptySeq DEF Connection
<1>3. conns' = f
  BY DEF ClientEnds
<1>4. \A d \in DOMAIN conns : conns'[d] = [conns[d] EXCEPT !.open = FALSE, !.rep = <<>>]
  BY <1>3
<1>5. \A d \in DOMAIN conns :
                  /\ conns'[d].open = FALSE /\ conns'[d].rep = <<>>
                  /\ conns'[d].up = conns[d].up /\ conns'[d].clean = conns[d].clean
                  /\ conns'[d].req = conns[d].req
  BY <1>1, <1>4 DEF Connection
<1> QED BY <1>2, <1>3, <1>5, WholeUpdate DEF TypeOK

LEMMA ExitsEffect ==
    ASSUME TypeOK, NEW kept \in BOOLEAN, Exits(kept)
    PROVE  /\ conns' \in Seq(Connection) /\ Len(conns') = Len(conns)
           /\ DOMAIN conns' = DOMAIN conns
           /\ \A d \in DOMAIN conns :
                  /\ conns'[d].open = conns[d].open /\ conns'[d].clean = conns[d].clean
                  /\ conns'[d].up = FALSE /\ conns'[d].req = <<>>
                  /\ conns'[d].rep = conns[d].rep \/ conns'[d].rep = <<>>
<1> DEFINE f == [c \in DOMAIN conns |-> [conns[c] EXCEPT !.up = FALSE, !.req = <<>>,
                                           !.rep = IF kept THEN @ ELSE <<>>]]
<1>1. \A c \in DOMAIN conns : conns[c] \in Connection
  BY Fields DEF TypeOK
<1>2. f \in [DOMAIN conns -> Connection]
  BY <1>1, EmptySeq DEF Connection
<1>3. conns' = f
  BY DEF Exits
<1>4. \A d \in DOMAIN conns :
          conns'[d] = [conns[d] EXCEPT !.up = FALSE, !.req = <<>>,
                                       !.rep = IF kept THEN conns[d].rep ELSE <<>>]
  BY <1>3
<1>5. \A d \in DOMAIN conns :
                  /\ conns'[d].open = conns[d].open /\ conns'[d].clean = conns[d].clean
                  /\ conns'[d].up = FALSE /\ conns'[d].req = <<>>
                  /\ conns'[d].rep = conns[d].rep \/ conns'[d].rep = <<>>
  BY <1>1, <1>4 DEF Connection
<1> QED BY <1>2, <1>3, <1>5, WholeUpdate DEF TypeOK

LEMMA QuitEffect ==
    ASSUME TypeOK, ServeQuit
    PROVE  /\ conns' \in Seq(Connection) /\ Len(conns') = Len(conns)
           /\ DOMAIN conns' = DOMAIN conns
           /\ \A d \in DOMAIN conns :
                  /\ conns'[d].open = conns[d].open /\ conns'[d].clean = conns[d].clean
                  /\ conns'[d].up = FALSE /\ conns'[d].req = <<>>
                  /\ conns'[d].rep = IF d = conn /\ conns[d].open
                                     THEN Append(conns[d].rep, Ack(Request.id, FALSE))
                                     ELSE conns[d].rep
<1> DEFINE a == Ack(Request.id, FALSE)
           f == [c \in DOMAIN conns |-> [conns[c] EXCEPT !.up = FALSE, !.req = <<>>,
                   !.rep = IF c = conn /\ conns[c].open THEN Append(@, a) ELSE @]]
<1>1. \A c \in DOMAIN conns : conns[c] \in Connection
  BY Fields DEF TypeOK
<1>2. a \in Replies
  <2>1. Serves("quit")
    BY DEF ServeQuit
  <2>2. Request.id \in 1 .. MaxCalls
    BY <2>1, ServesFacts
  <2> QED BY <2>2, RepliesTyped, CountsFacts
<1>3. \A c \in DOMAIN conns : Append(conns[c].rep, a) \in Seq(Replies)
  BY <1>2, Fields, AppendProperties DEF TypeOK
<1>4. f \in [DOMAIN conns -> Connection]
  BY <1>1, <1>3, EmptySeq DEF Connection
<1>5. conns' = f
  BY DEF ServeQuit
<1>6. \A d \in DOMAIN conns :
          conns'[d] = [conns[d] EXCEPT !.up = FALSE, !.req = <<>>,
                           !.rep = IF d = conn /\ conns[d].open
                                   THEN Append(conns[d].rep, a) ELSE conns[d].rep]
  BY <1>5
<1>7. \A d \in DOMAIN conns :
                  /\ conns'[d].open = conns[d].open /\ conns'[d].clean = conns[d].clean
                  /\ conns'[d].up = FALSE /\ conns'[d].req = <<>>
                  /\ conns'[d].rep = IF d = conn /\ conns[d].open
                                     THEN Append(conns[d].rep, a) ELSE conns[d].rep
  BY <1>1, <1>6 DEF Connection
<1> QED BY <1>4, <1>5, <1>7, WholeUpdate DEF TypeOK

-----------------------------------------------------------------------------
(* The steps, as the invariants see them.                                  *)

Workspaces == [loaded : BOOLEAN, flies : BOOLEAN, numUAVs : UavCounts,
               task : Tasks \cup {BadTask}, taskDt : {0} \cup {Dt[k] : k \in Tasks},
               fleet : UavCounts, bare : SUBSET Nat]
Sims == {s \in Workspaces : s.bare \subseteq 1 .. s.fleet}
Advances == [id : 0 .. MaxCalls, asked : {0} \cup Increments, ticks : Nat]

\* A step is simulated to the end by its own request only, and only then, or
\* twice, does the server answer it with a state.
Advance(op, replies, one) ==
    /\ UNCHANGED advanced \/ advanced'.id = Request.id
    /\ op = "step" /\ one => \A i \in DOMAIN replies :
           replies[i].type = "STATE" => advanced'.id = Request.id

\* The server takes a request and answers it, and goes on or drops the connection.
Reply(op, replies, one) ==
    /\ Serves(op) /\ Answer(replies, one)
    /\ UNCHANGED <<client, backlog, waiting, starts>>
    /\ UNCHANGED <<spc, conn>> \/ (spc' = "accept" /\ conn' = 0)
    /\ sim' \in Sims /\ advanced' \in Advances
    /\ Advance(op, replies, one)
    /\ sim.loaded => sim'.loaded
    /\ op # "init" => sim'.numUAVs = sim.numUAVs
    /\ [Workspace!LoadNext]_(Workspace!loadVars)
    /\ one => Len(replies) <= IF op = "init" THEN 2 ELSE 1
    /\ \A i \in DOMAIN replies :
           /\ replies[i].id = Request.id
           /\ replies[i].type = "TASKINFO" =>
                  /\ sim'.loaded /\ replies[i].uavs = sim'.numUAVs
                  /\ UNCHANGED <<spc, conn>>

\* Only the number of accepts left may change.
Pauses == /\ waiting' \in 0 .. Waiting
          /\ UNCHANGED <<client, conns, backlog, spc, conn, sim, starts, executed, advanced>>

LEMMA SimTyped ==
    sim \in Sims <=> sim \in [loaded : BOOLEAN, flies : BOOLEAN, numUAVs : UavCounts,
                             task : Tasks \cup {BadTask},
                             taskDt : {0} \cup {Dt[k] : k \in Tasks},
                             fleet : UavCounts, bare : SUBSET (1 .. sim.fleet)]
BY CountsFacts DEF Sims, Workspaces

LEMMA TypedSim ==
    ASSUME TypeOK
    PROVE  /\ sim \in Sims /\ advanced \in Advances
           /\ sim \in Workspaces /\ sim.bare \subseteq 1 .. sim.fleet
BY SimTyped DEF TypeOK, Sims, Advances

\* What the server believes of its simulator are the steps of Loading.
LEMMA LoadsStep ==
    ASSUME TypeOK, NEW k \in Tasks,
           \/ sim' = Loads(k)
           \/ sim' = [Loads(k) EXCEPT !.flies = TRUE]
    PROVE  /\ sim' \in Sims /\ sim'.loaded
           /\ sim'.numUAVs = Larger(sim.fleet, Uavs[k])
           /\ Workspace!LoadNext
<1> DEFINE n == Larger(sim.fleet, Uavs[k])
<1>1. sim \in Workspaces /\ sim.bare \subseteq 1 .. sim.fleet
  BY TypedSim
<1>2. /\ sim.fleet \in Nat /\ Uavs[k] \in Nat /\ n \in UavCounts
      /\ Dt[k] \in {0} \cup {Dt[j] : j \in Tasks}
  BY <1>1, CountsFacts, TCPAssumption DEF Workspaces
<1>3. 1 .. sim.fleet \subseteq 1 .. n
  BY <1>2 DEF Larger
<1> HIDE DEF n
<1>4. /\ sim' \in Workspaces /\ sim'.loaded /\ sim'.numUAVs = n /\ sim'.fleet = n
      /\ sim'.task = k /\ sim'.taskDt = Dt[k] /\ sim'.bare = sim.bare \ (1 .. Uavs[k])
  BY <1>1, <1>2 DEF Loads, Workspaces, Own, n
<1>5. sim' \in Sims
  BY <1>1, <1>3, <1>4 DEF Sims
<1>6. Workspace!Larger(sim.fleet, Uavs[k]) = n
  BY DEF Workspace!Larger, Larger, n
<1>7. Workspace!Load(k)
  BY <1>4, <1>6 DEF Workspace!Load
<1> QED BY <1>4, <1>5, <1>7 DEF Workspace!LoadNext, n

LEMMA HalfLoadsStep ==
    ASSUME TypeOK, NEW k \in Tasks, HalfLoads(k)
    PROVE  /\ sim' \in Sims /\ sim'.loaded = sim.loaded
           /\ Workspace!LoadNext
<1>1. sim \in Workspaces /\ sim.bare \subseteq 1 .. sim.fleet
  BY TypedSim
<1>2. sim.fleet \in Nat /\ Uavs[k] \in Nat /\ Dt[k] \in {0} \cup {Dt[j] : j \in Tasks}
  BY <1>1, CountsFacts, TCPAssumption DEF Workspaces
<1>3. CASE sim' = [sim EXCEPT !.task = k, !.taskDt = 0]
  <2>1. /\ sim' \in Workspaces /\ sim'.loaded = sim.loaded /\ sim'.task = k /\ sim'.taskDt = 0
        /\ sim'.fleet = sim.fleet /\ sim'.bare = sim.bare
    BY <1>1, <1>3 DEF Workspaces
  <2>2. Workspace!LoadRejected(k)
    BY <2>1 DEF Workspace!LoadRejected
  <2> QED BY <1>1, <2>1, <2>2 DEF Sims, Workspace!LoadNext
<1>4. ASSUME NEW m \in 0 .. Uavs[k], NEW done \in SUBSET (1 .. m),
             done # {} => m = Uavs[k],
             sim' = [sim EXCEPT !.task = k, !.taskDt = Dt[k], !.fleet = Larger(@, m),
                                !.bare = (@ \cup (1 .. m)) \ done]
      PROVE  /\ sim' \in Sims /\ sim'.loaded = sim.loaded
             /\ Workspace!LoadNext
  <2> DEFINE f == Larger(sim.fleet, m)
  <2>1. f \in UavCounts
    BY <1>1, <1>2, CountsFacts DEF Larger, Workspaces
  <2>2. 1 .. sim.fleet \subseteq 1 .. f /\ 1 .. m \subseteq 1 .. f
    BY <1>2 DEF Larger
  <2> HIDE DEF f
  <2>3. 1 .. m \subseteq Nat
    OBVIOUS
  <2>4. /\ sim' \in Workspaces /\ sim'.loaded = sim.loaded /\ sim'.task = k
        /\ sim'.taskDt = Dt[k] /\ sim'.fleet = f
        /\ sim'.bare = (sim.bare \cup (1 .. m)) \ done
    BY <1>1, <1>2, <1>4, <2>1, <2>3 DEF Workspaces, f
  <2>5. sim' \in Sims
    BY <1>1, <2>2, <2>4 DEF Sims
  <2>6. Workspace!Larger(sim.fleet, m) = f
    BY DEF Workspace!Larger, Larger, f
  <2>7. Workspace!LoadBreaks(k, m, done)
    BY <1>4, <2>4, <2>6 DEF Workspace!LoadBreaks
  <2> QED BY <2>4, <2>5, <2>7 DEF Workspace!LoadNext
<1> QED BY <1>3, <1>4 DEF HalfLoads

LEMMA ResetStep ==
    ASSUME TypeOK, NEW done \in SUBSET Placeable, sim' = [sim EXCEPT !.bare = @ \ done]
    PROVE  /\ sim' \in Sims /\ sim'.loaded = sim.loaded /\ sim'.numUAVs = sim.numUAVs
           /\ Workspace!LoadNext
<1>1. sim \in Workspaces /\ sim.bare \subseteq 1 .. sim.fleet
  BY TypedSim
<1>2. /\ sim' \in Workspaces /\ sim'.loaded = sim.loaded /\ sim'.numUAVs = sim.numUAVs
      /\ UNCHANGED <<sim.task, sim.taskDt, sim.fleet>> /\ sim'.bare = sim.bare \ done
  BY <1>1 DEF Workspaces
<1>3. done \in SUBSET Workspace!Own
  BY DEF Placeable, Own, Workspace!Own
<1>4. Workspace!Place(done)
  BY <1>2 DEF Workspace!Place
<1> QED BY <1>1, <1>2, <1>3, <1>4 DEF Sims, Workspace!LoadNext

LEMMA OneReply ==
    ASSUME NEW m \in Replies
    PROVE  <<m>> \in Seq(Replies) /\ Len(<<m>>) = 1 /\ DOMAIN <<m>> = 1 .. 1 /\ <<m>>[1] = m
OBVIOUS

LEMMA TwoReplies ==
    ASSUME NEW m \in Replies, NEW n \in Replies
    PROVE  /\ <<m, n>> \in Seq(Replies) /\ Len(<<m, n>>) = 2 /\ DOMAIN <<m, n>> = 1 .. 2
           /\ <<m, n>>[1] = m /\ <<m, n>>[2] = n
OBVIOUS

LEMMA InitReplies ==
    ASSUME TypeOK, ServeInit
    PROVE  \E replies \in Seq(Replies) : Reply("init", replies, TRUE)
<1>1. Serves("init") /\ Request.task \in Tasks
  BY ServesFacts DEF ServeInit, Requests
<1>2. Request.id \in 1 .. MaxCalls
  BY <1>1, ServesFacts
<1> DEFINE n == Larger(sim.fleet, Uavs[Request.task])
           i == Request.id
           replies == <<State(i), TaskInfo(i, n)>>
<1>3. n \in UavCounts
  BY <1>1, CountsFacts DEF TypeOK
<1>5. /\ sim' \in Sims /\ sim'.loaded /\ sim'.numUAVs = n
      /\ Workspace!LoadNext
  <2>1. sim' = [Loads(Request.task) EXCEPT !.flies = TRUE]
    BY DEF ServeInit
  <2> QED BY <1>1, <2>1, LoadsStep
<1>4. Answer(replies, TRUE)
  BY <1>5 DEF ServeInit
<1>6. State(i) \in Replies /\ TaskInfo(i, n) \in Replies
  BY <1>2, <1>3, RepliesTyped
<1>7. /\ replies \in Seq(Replies) /\ Len(replies) = 2 /\ DOMAIN replies = 1 .. 2
      /\ replies[1] = State(i) /\ replies[2] = TaskInfo(i, n)
  BY <1>6, TwoReplies
<1>8. \A j \in DOMAIN replies :
          replies[j].id = i /\ (replies[j].type = "TASKINFO" => replies[j].uavs = n)
  BY <1>7 DEF State, TaskInfo
<1>9. UNCHANGED <<client, backlog, spc, conn, waiting, starts, advanced>>
  BY DEF ServeInit, Stays
<1> HIDE DEF replies, n
<1>10. Reply("init", replies, TRUE)
  <2>1. UNCHANGED <<client, backlog, waiting, starts>> /\ UNCHANGED <<spc, conn>>
    BY <1>9
  <2>2. Len(replies) <= 2
    BY <1>7
  <2>3. sim' \in Sims /\ advanced' \in Advances
    BY <1>5, <1>9, TypedSim
  <2>4. \A j \in DOMAIN replies :
           /\ replies[j].id = Request.id
           /\ replies[j].type = "TASKINFO" => sim'.loaded /\ replies[j].uavs = sim'.numUAVs
    BY <1>5, <1>8
  <2>5. Advance("init", replies, TRUE)
    BY <1>9 DEF Advance
  <2> QED BY <1>1, <1>4, <1>5, <2>1, <2>2, <2>3, <2>4, <2>5 DEF Reply
<1> QED BY <1>7, <1>10

(* The actions that leave the server's count of UAVs as it is, and send no *)
(* parameters.                                                             *)
LEMMA PlainReplies ==
    ASSUME TypeOK, NEW op, Serves(op), NEW replies \in Seq(Replies), NEW one \in BOOLEAN,
           Answer(replies, one),
           UNCHANGED <<client, backlog, waiting, starts>>,
           \/ UNCHANGED sim
           \/ \E done \in SUBSET Placeable : sim' = [sim EXCEPT !.bare = @ \ done],
           UNCHANGED <<spc, conn>> \/ (spc' = "accept" /\ conn' = 0),
           advanced' \in Advances, Advance(op, replies, one),
           one => Len(replies) <= 1,
           \A i \in DOMAIN replies :
               replies[i].id = Request.id /\ replies[i].type # "TASKINFO"
    PROVE  Reply(op, replies, one)
<1>1. /\ sim' \in Sims /\ sim'.loaded = sim.loaded /\ sim'.numUAVs = sim.numUAVs
      /\ [Workspace!LoadNext]_(Workspace!loadVars)
  <2>1. CASE UNCHANGED sim
    BY <2>1, TypedSim DEF Workspace!loadVars
  <2>2. ASSUME NEW done \in SUBSET Placeable, sim' = [sim EXCEPT !.bare = @ \ done]
        PROVE  /\ sim' \in Sims /\ sim'.loaded = sim.loaded /\ sim'.numUAVs = sim.numUAVs
               /\ [Workspace!LoadNext]_(Workspace!loadVars)
    BY <2>2, ResetStep
  <2> QED BY <2>1, <2>2
<1> QED BY <1>1, LenProperties DEF Reply

LEMMA AckIs ==
    ASSUME TypeOK, NEW op, Serves(op), NEW e \in BOOLEAN
    PROVE  LET r == <<Ack(Request.id, e)>>
           IN  /\ r \in Seq(Replies) /\ Len(r) <= 1
               /\ \A i \in DOMAIN r : r[i].id = Request.id /\ r[i].type # "TASKINFO"
               /\ UNCHANGED advanced => \A one : Advance(op, r, one)
<1>1. Request.id \in 1 .. MaxCalls
  BY ServesFacts
<1>2. Ack(Request.id, e) \in Replies
  BY <1>1, RepliesTyped, CountsFacts
<1>3. Ack(Request.id, e).id = Request.id /\ Ack(Request.id, e).type = "ACK"
  BY DEF Ack
<1> DEFINE r == <<Ack(Request.id, e)>>
<1>4. /\ r \in Seq(Replies) /\ Len(r) <= 1
      /\ \A i \in DOMAIN r : r[i].id = Request.id /\ r[i].type = "ACK"
  BY <1>2, <1>3, OneReply
<1> HIDE DEF r
<1>5. \A i \in DOMAIN r : r[i].type # "TASKINFO" /\ r[i].type # "STATE"
  BY <1>4
<1>6. UNCHANGED advanced => \A one : Advance(op, r, one)
  BY <1>5 DEF Advance
<1>7. QED
  BY <1>4, <1>5, <1>6 DEF r

LEMMA StateOrErrorIs ==
    ASSUME TypeOK, NEW op, Serves(op), NEW m \in StateOrError(Request.id)
    PROVE  m \in Replies /\ m.id = Request.id /\ m.type # "TASKINFO"
<1>1. Request.id \in 1 .. MaxCalls
  BY ServesFacts
<1>2. State(Request.id) \in Replies /\ Ack(Request.id, TRUE) \in Replies
  BY <1>1, RepliesTyped, CountsFacts
<1>3. m = State(Request.id) \/ m = Ack(Request.id, TRUE)
  BY DEF StateOrError
<1>4. /\ State(Request.id).id = Request.id /\ State(Request.id).type = "STATE"
      /\ Ack(Request.id, TRUE).id = Request.id /\ Ack(Request.id, TRUE).type = "ACK"
  BY DEF State, Ack
<1> QED BY <1>2, <1>3, <1>4

LEMMA InitFailsReplies ==
    ASSUME TypeOK, ServeInitFails
    PROVE  \E replies \in Seq(Replies) : Reply("init", replies, TRUE)
<1>1. Serves("init")
  BY DEF ServeInitFails
<1> DEFINE replies == <<Ack(Request.id, TRUE)>>
<1>2. /\ replies \in Seq(Replies) /\ Len(replies) <= 1
      /\ \A i \in DOMAIN replies : replies[i].id = Request.id /\ replies[i].type # "TASKINFO"
  BY <1>1, AckIs
<1>3. /\ sim' \in Sims /\ (sim.loaded => sim'.loaded)
      /\ [Workspace!LoadNext]_(Workspace!loadVars)
  <2>1. CASE UNCHANGED sim
    BY <2>1, TypedSim DEF Workspace!loadVars
  <2>2. Request.task # BadTask => Request.task \in Tasks
    BY <1>1, ServesFacts DEF Requests
  <2>3. CASE Request.task # BadTask /\ HalfLoads(Request.task)
    BY <2>2, <2>3, HalfLoadsStep
  <2>4. CASE Request.task # BadTask /\ sim' = Loads(Request.task)
    BY <2>2, <2>4, LoadsStep
  <2> QED BY <2>1, <2>3, <2>4 DEF ServeInitFails
<1>4. /\ Answer(replies, TRUE)
      /\ UNCHANGED <<client, backlog, spc, conn, waiting, starts, advanced>>
  BY DEF ServeInitFails, Stays
<1>5. Len(replies) \in Nat
  BY <1>2, LenProperties
<1> HIDE DEF replies
<1>6. Reply("init", replies, TRUE)
  <2>1. UNCHANGED <<client, backlog, waiting, starts>> /\ UNCHANGED <<spc, conn>>
    BY <1>4
  <2>2. Len(replies) <= 2
    BY <1>2, <1>5
  <2>3. sim' \in Sims /\ advanced' \in Advances
    BY <1>3, <1>4, TypedSim
  <2>4. Advance("init", replies, TRUE)
    BY <1>4 DEF Advance
  <2> QED BY <1>1, <1>2, <1>3, <1>4, <2>1, <2>2, <2>3, <2>4 DEF Reply
<1> QED BY <1>2, <1>6

LEMMA StepReplies ==
    ASSUME TypeOK, ServeStep
    PROVE  \E replies \in Seq(Replies) : Reply("step", replies, TRUE)
<1>1. Serves("step")
  BY DEF ServeStep
<1>2. PICK m \in StateOrError(Request.id) : Answer(<<m>>, TRUE)
  BY DEF ServeStep
<1>3. m \in Replies /\ m.id = Request.id /\ m.type # "TASKINFO"
  BY <1>1, StateOrErrorIs
<1> DEFINE replies == <<m>>
<1>4. /\ replies \in Seq(Replies) /\ Len(replies) <= 1
      /\ \A i \in DOMAIN replies : replies[i].id = Request.id /\ replies[i].type # "TASKINFO"
  BY <1>3, OneReply
<1>5. advanced' \in Advances
  <2>1. Request.id \in 1 .. MaxCalls /\ Request.dt \in {0} \cup Increments
    BY <1>1, ServesFacts
  <2>2. Request.dt \in Nat /\ sim.taskDt \in Nat
    <3>1. sim.taskDt \in {0} \cup {Dt[k] : k \in Tasks}
      BY TypedSim DEF Workspaces
    <3>2. \A k \in Tasks : Dt[k] \in Nat
      BY TCPAssumption
    <3>3. \A x \in {0} \cup Increments : x \in Nat
      BY TCPAssumption
    <3>4. sim.taskDt \in Nat
      BY <3>1, <3>2
    <3>5. Request.dt \in Nat
      BY <2>1, <3>3
    <3> QED BY <3>4, <3>5
  <2>3. Request.dt * sim.taskDt \in Nat
    BY <2>2
  <2>4. advanced' = [id |-> Request.id, asked |-> Request.dt,
                     ticks |-> Request.dt * sim.taskDt]
    BY DEF ServeStep
  <2> QED BY <2>1, <2>3, <2>4, TCPAssumption DEF Advances
<1>5a. advanced'.id = Request.id
  BY DEF ServeStep
<1>6. UNCHANGED <<client, backlog, spc, conn, waiting, starts, sim>>
  BY DEF ServeStep, Stays
<1> HIDE DEF replies
<1>7. Answer(replies, TRUE)
  BY <1>2 DEF replies
<1>8. Advance("step", replies, TRUE)
  BY <1>5a DEF Advance
<1>9. Reply("step", replies, TRUE)
  BY <1>1, <1>4, <1>5, <1>6, <1>7, <1>8, PlainReplies
<1> QED BY <1>4, <1>9

LEMMA ThrowsReplies ==
    ASSUME TypeOK, ServeStepThrows
    PROVE  \E replies \in Seq(Replies) : Reply("step", replies, FALSE)
<1>1. Serves("step")
  BY DEF ServeStepThrows
<1>2. PICK m \in StateOrError(Request.id) : Answer(<<Ack(Request.id, TRUE), m>>, FALSE)
  BY DEF ServeStepThrows
<1>3. m \in Replies /\ m.id = Request.id /\ m.type # "TASKINFO"
  BY <1>1, StateOrErrorIs
<1>4. Ack(Request.id, TRUE) \in StateOrError(Request.id)
  BY DEF StateOrError
<1>5. LET a == Ack(Request.id, TRUE)
      IN  a \in Replies /\ a.id = Request.id /\ a.type # "TASKINFO"
  BY <1>1, <1>4, StateOrErrorIs
<1> DEFINE replies == <<Ack(Request.id, TRUE), m>>
<1>6. /\ replies \in Seq(Replies)
      /\ \A i \in DOMAIN replies : replies[i].id = Request.id /\ replies[i].type # "TASKINFO"
  <2> DEFINE a == Ack(Request.id, TRUE)
  <2>1. a \in Replies /\ a.id = Request.id /\ a.type # "TASKINFO"
    BY <1>5
  <2> HIDE DEF a
  <2>2. /\ <<a, m>> \in Seq(Replies)
        /\ \A i \in DOMAIN <<a, m>> :
               <<a, m>>[i].id = Request.id /\ <<a, m>>[i].type # "TASKINFO"
    BY <1>3, <2>1, TwoReplies
  <2> QED BY <2>2 DEF a
<1>7. UNCHANGED <<client, backlog, spc, conn, waiting, starts, sim, advanced>>
  BY DEF ServeStepThrows, Stays
<1> HIDE DEF replies
<1>8. Answer(replies, FALSE)
  BY <1>2 DEF replies
<1>9. Reply("step", replies, FALSE)
  <2>1. Advance("step", replies, FALSE)
    BY <1>7 DEF Advance
  <2> QED BY <1>1, <1>6, <1>7, <1>8, <2>1, TypedSim, PlainReplies
<1> QED BY <1>6, <1>9

LEMMA ServeCases ==
    ASSUME TypeOK, Serve
    PROVE  \/ \E op \in Ops, replies \in Seq(Replies), one \in BOOLEAN :
                  Reply(op, replies, one)
           \/ ServeQuit \/ ServeGoneClient
<1> DEFINE Replied == \E op \in Ops, replies \in Seq(Replies), one \in BOOLEAN :
                          Reply(op, replies, one)
<1>1. CASE ServeInit
  BY <1>1, InitReplies DEF Ops
<1>2. CASE ServeInitFails
  BY <1>2, InitFailsReplies DEF Ops
<1>3. ASSUME NEW ok \in BOOLEAN, ServeReset(ok)
      PROVE  Replied
  <2>1. Serves("reset") /\ Answer(<<Ack(Request.id, ~ok)>>, TRUE)
    BY <1>3 DEF ServeReset
  <2>2. /\ UNCHANGED <<client, backlog, spc, conn, waiting, starts, advanced>>
        /\ \E done \in SUBSET Placeable : sim' = [sim EXCEPT !.bare = @ \ done]
    BY <1>3 DEF ServeReset, Stays
  <2>3. Reply("reset", <<Ack(Request.id, ~ok)>>, TRUE)
    BY <2>1, <2>2, AckIs, TypedSim, PlainReplies
  <2> QED BY <2>1, <2>3, AckIs DEF Ops
<1>4. CASE ServeSetState
  <2>1. Serves("setState") /\ Answer(<<Ack(Request.id, TRUE)>>, TRUE)
    BY <1>4 DEF ServeSetState
  <2>2. UNCHANGED <<client, backlog, spc, conn, waiting, starts, sim, advanced>>
    BY <1>4 DEF ServeSetState, Stays
  <2>3. Reply("setState", <<Ack(Request.id, TRUE)>>, TRUE)
    BY <2>1, <2>2, AckIs, TypedSim, PlainReplies
  <2> QED BY <2>1, <2>3, AckIs DEF Ops
<1>5. CASE ServeStep
  BY <1>5, StepReplies DEF Ops
<1>6. CASE ServeStepThrows
  BY <1>6, ThrowsReplies DEF Ops
<1>7. CASE ServeStepDrops
  <2>1. Serves("step")
    BY <1>7 DEF ServeStepDrops
  <2>2. UNCHANGED <<client, backlog, waiting, starts, sim, advanced>>
        /\ spc' = "accept" /\ conn' = 0
    BY <1>7 DEF ServeStepDrops, Drops
  <2>3. CASE Answer(<<Ack(Request.id, TRUE)>>, TRUE)
    <3>1. Reply("step", <<Ack(Request.id, TRUE)>>, TRUE)
      BY <2>1, <2>2, <2>3, AckIs, TypedSim, PlainReplies
    <3> QED BY <2>1, <3>1, AckIs DEF Ops
  <2>4. CASE Answer(<<>>, TRUE)
    <3>1. <<>> \in Seq(Replies) /\ Len(<<>>) <= 1 /\ DOMAIN <<>> = {}
      BY EmptySeq
    <3>2. Advance("step", <<>>, TRUE)
      BY <2>2, <3>1 DEF Advance
    <3>3. Reply("step", <<>>, TRUE)
      BY <2>1, <2>2, <2>4, <3>1, <3>2, TypedSim, PlainReplies
    <3> QED BY <3>1, <3>3 DEF Ops
  <2> QED BY <1>7, <2>3, <2>4 DEF ServeStepDrops
<1>8. CASE ServeDisconnect
  <2>1. Serves("disconnect") /\ Answer(<<Ack(Request.id, FALSE)>>, TRUE)
    BY <1>8 DEF ServeDisconnect
  <2>2. UNCHANGED <<client, backlog, waiting, starts, sim, advanced>>
        /\ spc' = "accept" /\ conn' = 0
    BY <1>8 DEF ServeDisconnect, Drops
  <2>3. Reply("disconnect", <<Ack(Request.id, FALSE)>>, TRUE)
    BY <2>1, <2>2, AckIs, TypedSim, PlainReplies
  <2> QED BY <2>1, <2>3, AckIs DEF Ops
<1> QED BY <1>1, <1>2, <1>3, <1>4, <1>5, <1>6, <1>7, <1>8 DEF Serve

Called == \E op \in Ops, k \in Tasks \cup {BadTask}, dt \in {0} \cup Increments :
              Call(op, k, dt)
Replied == \E op \in Ops, replies \in Seq(Replies), one \in BOOLEAN :
               Reply(op, replies, one)
Ended == \E kept \in BOOLEAN : Exits(kept) /\ UNCHANGED executed

LEMMA NextCases ==
    ASSUME TypeOK, [Next]_vars
    PROVE  \/ NewClient \/ ClientEnds \/ ConnectTo \/ Called
           \/ (\E op \in Ops : CallTooEarly(op)) \/ Receive \/ ReceiveFails
           \/ WaitForClient \/ Pauses \/ Ended \/ Replied \/ ServeQuit
           \/ ServeGoneClient \/ ServerStarts
<1>1. CASE Calling
  BY <1>1 DEF Calling, Called, Ops
<1>2. CASE WaitForClientFails
  <2>1. waiting \in Nat /\ waiting <= Waiting /\ Waiting \in Nat
    BY TCPAssumption DEF TypeOK
  <2>2. CASE waiting > 1
    <3>1. waiting # 1 /\ waiting - 1 \in 0 .. Waiting
      BY <2>1, <2>2
    <3>2. /\ waiting' = waiting - 1 /\ UNCHANGED executed
          /\ UNCHANGED <<client, conns, backlog, spc, conn, sim, starts, advanced>>
      BY <1>2, <3>1, Zenon DEF WaitForClientFails
    <3>3. Pauses
      BY <3>1, <3>2 DEF Pauses
    <3> QED BY <3>3
  <2>3. CASE waiting <= 1
    <3>1. Exits(TRUE) /\ UNCHANGED executed
      <4>1. ~(waiting > 1)
        BY <2>1, <2>3
      <4> QED BY <1>2, <4>1, Zenon DEF WaitForClientFails
    <3> QED BY <3>1 DEF Ended
  <2> QED BY <2>1, <2>2, <2>3
<1>3. CASE Serve
  BY <1>3, ServeCases DEF Replied
<1>4. ASSUME NEW kept \in BOOLEAN, ServerDies(kept)
      PROVE  Ended
  BY <1>4 DEF ServerDies, Ended
<1>5. CASE UNCHANGED vars
  BY <1>5 DEF vars, client, server, Pauses, TypeOK
<1> QED BY <1>1, <1>2, <1>3, <1>4, <1>5 DEF Next

-----------------------------------------------------------------------------
(* Types.                                                                  *)

ClientTyped ==
    /\ cpc \in {"down", "idle"} \cup Receiving
    /\ initialized \in BOOLEAN
    /\ cliNumUAVs \in UavCounts
    /\ call \in [op : Ops, id : 0 .. MaxCalls, sent : BOOLEAN, gotState : BOOLEAN]
    /\ ret \in [op : Ops, id : 0 .. MaxCalls, ok : BOOLEAN, clean : BOOLEAN,
                conn : 0 .. MaxConns]
    /\ paramsFrom \in 0 .. MaxConns

ServerTyped ==
    /\ spc \in {"accept", "serve", "stuck", "down"}
    /\ waiting \in 0 .. Waiting
    /\ sim \in Sims
    /\ starts \in 1 .. MaxStarts
    /\ executed \in 0 .. MaxCalls
    /\ advanced \in Advances

WireTyped ==
    /\ sock \in 0 .. Len(conns)
    /\ conns \in Seq(Connection) /\ Len(conns) <= MaxConns
    /\ backlog \in Seq(1 .. Len(conns))
    /\ conn \in 0 .. Len(conns) /\ (spc = "serve" => conn # 0)

LEMMA TypeParts == TypeOK <=> ClientTyped /\ ServerTyped /\ WireTyped
BY SimTyped DEF TypeOK, ClientTyped, ServerTyped, WireTyped, Advances

LEMMA ReceivedTyped ==
    ASSUME TypeOK, NEW good \in BOOLEAN, cpc \in Receiving, Received(good),
           sock \in DOMAIN conns \/ ~good,
           sock \in DOMAIN conns => conns'[sock].clean \in BOOLEAN
    PROVE  /\ cpc' \in {"idle"} \cup Receiving
           /\ initialized' \in BOOLEAN
           /\ call' \in [op : Ops, id : 0 .. MaxCalls, sent : BOOLEAN, gotState : BOOLEAN]
           /\ ret' \in [op : Ops, id : 0 .. MaxCalls, ok : BOOLEAN, clean : BOOLEAN,
                        conn : 0 .. MaxConns]
           /\ paramsFrom' \in 0 .. MaxConns
<1>1. /\ call \in [op : Ops, id : 0 .. MaxCalls, sent : BOOLEAN, gotState : BOOLEAN]
      /\ initialized \in BOOLEAN
      /\ ret \in [op : Ops, id : 0 .. MaxCalls, ok : BOOLEAN, clean : BOOLEAN,
                   conn : 0 .. MaxConns]
  BY DEF TypeOK
<1>a. paramsFrom' \in {paramsFrom, sock}
  BY DEF Received, Returns
<1>b. paramsFrom' \in 0 .. MaxConns
  <2>1. sock \in 0 .. Len(conns) /\ paramsFrom \in 0 .. MaxConns /\ Len(conns) <= MaxConns
    BY DEF TypeOK
  <2>2. Len(conns) \in Nat /\ MaxConns \in Nat
    BY LenProperties, TCPAssumption DEF TypeOK
  <2> QED BY <1>a, <2>1, <2>2
<1>2. CASE cpc = "receiveState" /\ call.op = "init"
  BY <1>1, <1>2, <1>b DEF Received, Receiving
<1>3. CASE ~(cpc = "receiveState" /\ call.op = "init")
  <2> DEFINE ok == good /\ call.sent /\ (cpc = "receiveInfo" => call.gotState)
  <2>1. Returns(ok) /\ ok \in BOOLEAN
    BY <1>3 DEF Received
  <2>2. ok => sock \in DOMAIN conns
    OBVIOUS
  <2>3. Len(conns) \in Nat /\ DOMAIN conns = 1 .. Len(conns) /\ Len(conns) <= MaxConns
        /\ MaxConns \in Nat /\ MaxCalls \in Nat
    BY LenProperties, TCPAssumption DEF TypeOK
  <2> HIDE DEF ok
  <2>4. CASE ok
    <3>1. ret' = [op |-> call.op, id |-> call.id, ok |-> TRUE,
                  clean |-> conns'[sock].clean, conn |-> sock]
      BY <2>1, <2>4 DEF Returns
    <3>2. sock \in 0 .. MaxConns /\ conns'[sock].clean \in BOOLEAN
      BY <2>2, <2>3, <2>4
    <3>3. /\ cpc' = "idle" /\ call' = [NoCall EXCEPT !.id = call.id]
          /\ initialized' = (initialized \/ (ok /\ call.op = "init"))
      BY <2>1 DEF Returns
    <3> QED BY <1>1, <1>b, <3>1, <3>2, <3>3 DEF NoCall, Ops
  <2>5. CASE ~ok
    <3>1. /\ cpc' = "idle" /\ call' = [NoCall EXCEPT !.id = call.id] /\ ret' = NoRet
          /\ initialized' = (initialized \/ (ok /\ call.op = "init"))
      BY <2>1, <2>5 DEF Returns
    <3>2. NoRet \in [op : Ops, id : 0 .. MaxCalls, ok : BOOLEAN, clean : BOOLEAN,
                     conn : 0 .. MaxConns]
      BY <2>3 DEF NoRet, Ops
    <3>3. call' \in [op : Ops, id : 0 .. MaxCalls, sent : BOOLEAN, gotState : BOOLEAN]
      BY <1>1, <3>1 DEF NoCall, Ops
    <3> QED BY <1>1, <1>b, <3>1, <3>2, <3>3
  <2> QED BY <2>4, <2>5
<1> QED BY <1>2, <1>3

(* Every step keeps the types.                                             *)
LEMMA TypeStep == TypeOK /\ [Next]_vars => TypeOK'
<1> SUFFICES ASSUME TypeOK, [Next]_vars PROVE TypeOK'
  OBVIOUS
<1> SUFFICES ClientTyped' /\ ServerTyped' /\ WireTyped'
  BY TypeParts, PTL
<1> DEFINE Goal == ClientTyped' /\ ServerTyped' /\ WireTyped'
<1>0. ClientTyped /\ ServerTyped /\ WireTyped
  BY TypeParts
<1>a. /\ Len(conns) \in Nat /\ DOMAIN conns = 1 .. Len(conns)
      /\ MaxConns \in Nat /\ MaxCalls \in Nat \ {0} /\ MaxStarts \in Nat \ {0} /\ Waiting \in Nat
  BY LenProperties, TCPAssumption DEF TypeOK
<1>b. 0 \in UavCounts
  BY CountsFacts
<1>c. (UNCHANGED client) /\ ClientTyped => ClientTyped'
  BY DEF client, ClientTyped
<1>d. (UNCHANGED server) /\ ServerTyped => ServerTyped'
  BY DEF server, ServerTyped
<1>e. ASSUME conns' \in Seq(Connection), Len(conns') = Len(conns),
             UNCHANGED <<sock, backlog, spc, conn>>
      PROVE  WireTyped'
  BY <1>0, <1>e DEF WireTyped
<1>1. CASE NewClient
  <2>1. ClientTyped'
    BY <1>0, <1>1 DEF NewClient, ClientTyped
  <2>2. ServerTyped' /\ WireTyped'
    BY <1>0, <1>1, <1>d, <1>e DEF NewClient, server, WireTyped
  <2> QED BY <2>1, <2>2
<1>2. CASE ClientEnds
  <2>1. conns' \in Seq(Connection) /\ Len(conns') = Len(conns)
    BY <1>2, ClientEndsEffect
  <2>2. /\ cpc' = "down" /\ sock' = 0 /\ initialized' = FALSE /\ cliNumUAVs' = 0
        /\ call' = [NoCall EXCEPT !.id = call.id] /\ ret' = NoRet /\ paramsFrom' = 0
        /\ UNCHANGED <<backlog, server>>
    BY <1>2 DEF ClientEnds
  <2>3. NoRet \in [op : Ops, id : 0 .. MaxCalls, ok : BOOLEAN, clean : BOOLEAN,
                   conn : 0 .. MaxConns]
    BY <1>a DEF NoRet, Ops
  <2>4. call' \in [op : Ops, id : 0 .. MaxCalls, sent : BOOLEAN, gotState : BOOLEAN]
    BY <1>0, <2>2 DEF NoCall, Ops, ClientTyped
  <2>a. paramsFrom' \in 0 .. MaxConns
    BY <1>a, <2>2
  <2>5. ClientTyped'
    BY <1>b, <2>2, <2>3, <2>4, <2>a DEF ClientTyped
  <2>6. WireTyped' /\ ServerTyped'
    BY <1>0, <1>a, <1>d, <2>1, <2>2 DEF WireTyped, server
  <2> QED BY <2>5, <2>6
<1>3. CASE ConnectTo
  <2>1. ClientTyped' /\ ServerTyped'
    BY <1>0, <1>3, <1>d DEF ConnectTo, ClientTyped, server
  <2>2. CASE spc = "down"
    BY <1>0, <1>3, <1>a, <2>1, <2>2 DEF ConnectTo, WireTyped, server
  <2>3. CASE spc # "down"
    <3>1. /\ conns' \in Seq(Connection) /\ Len(conns') = Len(conns) + 1
          /\ Len(conns) + 1 <= MaxConns /\ sock' = Len(conns) + 1
      BY <1>3, <2>3, ConnectEffect
    <3>2. backlog' = Append(backlog, sock') /\ UNCHANGED <<spc, conn>>
      BY <1>3, <2>3 DEF ConnectTo, server
    <3>3. backlog \in Seq(1 .. Len(conns)) /\ conn \in 0 .. Len(conns)
          /\ (spc = "serve" => conn # 0)
      BY <1>0 DEF WireTyped
    <3>4. backlog \in Seq(1 .. Len(conns'))
      <4>1. 1 .. Len(conns) \subseteq 1 .. Len(conns')
        BY <1>a, <3>1
      <4> QED BY <3>3, <4>1, SeqMonotonic
    <3>5. backlog' \in Seq(1 .. Len(conns'))
      <4>1. sock' \in 1 .. Len(conns')
        BY <1>a, <3>1
      <4> QED BY <3>2, <3>4, <4>1, AppendProperties
    <3>6. WireTyped'
      BY <1>a, <3>1, <3>2, <3>3, <3>5 DEF WireTyped
    <3> QED BY <2>1, <3>6
  <2> QED BY <2>2, <2>3
<1>4. ASSUME NEW op \in Ops, NEW k \in Tasks \cup {BadTask}, NEW dt \in {0} \cup Increments,
             Call(op, k, dt)
      PROVE  Goal
  <2>1. conns' \in Seq(Connection) /\ Len(conns') = Len(conns)
    <3>1. CASE Alive(sock)
      BY <1>4, <3>1, CallEffect
    <3>2. CASE ~Alive(sock)
      BY <1>0, <1>4, <3>2 DEF Call, WireTyped
    <3> QED BY <3>1, <3>2
  <2>2. WireTyped' /\ ServerTyped'
    BY <1>0, <1>4, <1>d, <1>e, <2>1 DEF Call, server
  <2>3. Alive(sock) \in BOOLEAN
    BY DEF Alive
  <2>4. call'  = [op |-> op, id |-> call.id + 1, sent |-> Alive(sock), gotState |-> FALSE]
        /\ call.id < MaxCalls /\ call.id \in Nat
    BY <1>0, <1>4 DEF Call, ClientTyped
  <2>5. call' \in [op : Ops, id : 0 .. MaxCalls, sent : BOOLEAN, gotState : BOOLEAN]
    BY <1>a, <2>3, <2>4
  <2>6. cpc' \in Receiving
    BY <1>4 DEF Call, Awaited, Receiving
  <2>7. UNCHANGED <<initialized, cliNumUAVs, ret>> /\ paramsFrom' \in {0, paramsFrom}
    BY <1>4 DEF Call
  <2>8. ClientTyped'
    BY <1>0, <1>a, <2>5, <2>6, <2>7 DEF ClientTyped
  <2> QED BY <2>2, <2>8
<1>5. ASSUME NEW op \in Ops, CallTooEarly(op)
      PROVE  Goal
  <2>1. ClientTyped'
    BY <1>0, <1>5, <1>a DEF CallTooEarly, ClientTyped, NoRet, Ops
  <2>2. ServerTyped' /\ WireTyped'
    BY <1>0, <1>5, <1>d, <1>e DEF CallTooEarly, server, WireTyped
  <2> QED BY <2>1, <2>2
<1>6. CASE Receive
  <2>1. /\ conns' \in Seq(Connection) /\ Len(conns') = Len(conns)
        /\ sock \in DOMAIN conns /\ DOMAIN conns' = DOMAIN conns
        /\ conns[sock].rep # <<>>
    BY <1>6, ReceiveEffect
  <2>2. WireTyped' /\ ServerTyped'
    BY <1>0, <1>6, <1>d, <1>e, <2>1 DEF Receive, server
  <2> DEFINE m == Head(conns[sock].rep)
  <2>3. m \in Replies
    <3>1. conns[sock].rep \in Seq(Replies)
      BY <2>1, Fields DEF TypeOK
    <3> QED BY <2>1, <3>1, HeadTailProperties
  <2>4. Received(Expected(m)) /\ Expected(m) \in BOOLEAN /\ cpc \in Receiving
    BY <1>6 DEF Receive, Expected, Receiving
  <2>5. conns'[sock].clean \in BOOLEAN
    <3>1. conns'[sock] \in Connection
      BY <2>1, LenProperties, ElementOfSeq
    <3> QED BY <3>1 DEF Connection
  <2>6. cliNumUAVs' \in UavCounts
    <3>1. m.uavs \in UavCounts /\ cliNumUAVs \in UavCounts
      BY <1>0, <2>3 DEF Replies, ClientTyped
    <3>2. cliNumUAVs' \in {0, cliNumUAVs, m.uavs}
      BY <1>6 DEF Receive
    <3> QED BY <1>b, <3>1, <3>2
  <2> HIDE DEF m
  <2>7. ClientTyped'
    BY <2>1, <2>4, <2>5, <2>6, ReceivedTyped DEF ClientTyped
  <2> QED BY <2>2, <2>7
<1>7. CASE ReceiveFails
  <2>1. conns' \in Seq(Connection) /\ Len(conns') = Len(conns) /\ DOMAIN conns' = DOMAIN conns
    <3>1. CASE Alive(sock)
      BY <1>7, <3>1, ReceiveFailsEffect
    <3>2. CASE ~Alive(sock)
      BY <1>0, <1>7, <3>2 DEF ReceiveFails, WireTyped
    <3> QED BY <3>1, <3>2
  <2>2. WireTyped' /\ ServerTyped'
    BY <1>0, <1>7, <1>d, <1>e, <2>1 DEF ReceiveFails, server
  <2>3. Received(FALSE) /\ cpc \in Receiving
    BY <1>7 DEF ReceiveFails
  <2>4. sock \in DOMAIN conns => conns'[sock].clean \in BOOLEAN
    <3>1. sock \in DOMAIN conns => conns'[sock] \in Connection
      BY <2>1, LenProperties, ElementOfSeq
    <3> QED BY <3>1 DEF Connection
  <2>5. cliNumUAVs' \in UavCounts
    BY <1>0, <1>7, <1>b DEF ReceiveFails, ClientTyped
  <2>6. ClientTyped'
    BY <2>3, <2>4, <2>5, ReceivedTyped DEF ClientTyped
  <2> QED BY <2>2, <2>6
<1>8. CASE WaitForClient
  <2>1. ClientTyped' /\ ServerTyped'
    BY <1>0, <1>8, <1>a, <1>c DEF WaitForClient, ServerTyped
  <2>2. backlog \in Seq(1 .. Len(conns)) /\ backlog # <<>>
    BY <1>0, <1>8 DEF WaitForClient, WireTyped
  <2>3. Head(backlog) \in 1 .. Len(conns) /\ Tail(backlog) \in Seq(1 .. Len(conns))
    BY <2>2, HeadTailProperties
  <2>4. WireTyped'
    BY <1>0, <1>8, <1>a, <2>3 DEF WaitForClient, WireTyped, client
  <2> QED BY <2>1, <2>4
<1>9. CASE Pauses
  BY <1>0, <1>9, <1>c DEF Pauses, ServerTyped, WireTyped, client
<1>10. ASSUME NEW kept \in BOOLEAN, Exits(kept), UNCHANGED executed
       PROVE  Goal
  <2>1. conns' \in Seq(Connection) /\ Len(conns') = Len(conns)
    BY <1>10, ExitsEffect
  <2>2. NoSim \in Sims
    BY <1>b DEF NoSim, Sims, Workspaces
  <2>3. /\ spc' = "down" /\ conn' = 0 /\ waiting' = 0 /\ sim' = NoSim /\ backlog' = <<>>
        /\ UNCHANGED <<client, starts, executed, advanced>>
    BY <1>10 DEF Exits
  <2>4. ServerTyped' /\ ClientTyped'
    BY <1>0, <1>a, <1>c, <2>2, <2>3 DEF ServerTyped
  <2>5. <<>> \in Seq(1 .. Len(conns')) /\ UNCHANGED sock
    BY <2>3 DEF client
  <2>6. WireTyped'
    BY <1>0, <1>a, <2>1, <2>3, <2>5 DEF WireTyped
  <2> QED BY <2>4, <2>6
<1>11. ASSUME NEW op \in Ops, NEW replies \in Seq(Replies), NEW one \in BOOLEAN,
              Reply(op, replies, one)
       PROVE  Goal
  <2>1. Serves(op) /\ Answer(replies, one)
    BY <1>11 DEF Reply
  <2>2. conns' \in Seq(Connection) /\ Len(conns') = Len(conns)
    BY <2>1, AnswerEffect
  <2>3. executed' \in 0 .. MaxCalls
    BY <1>a, <2>1, ServesFacts
  <2>4. /\ UNCHANGED <<client, backlog, waiting, starts>>
        /\ UNCHANGED <<spc, conn>> \/ (spc' = "accept" /\ conn' = 0)
        /\ sim' \in Sims /\ advanced' \in Advances
    BY <1>11 DEF Reply
  <2>5. ServerTyped' /\ ClientTyped'
    BY <1>0, <1>c, <2>3, <2>4 DEF ServerTyped
  <2>6. WireTyped'
    BY <1>0, <1>a, <2>2, <2>4 DEF WireTyped, client
  <2> QED BY <2>5, <2>6
<1>12. CASE ServeQuit
  <2>1. conns' \in Seq(Connection) /\ Len(conns') = Len(conns)
    BY <1>12, QuitEffect
  <2>2. NoSim \in Sims
    BY <1>b DEF NoSim, Sims, Workspaces
  <2>3. Serves("quit")
    BY <1>12 DEF ServeQuit
  <2>4. executed' \in 0 .. MaxCalls
    BY <1>a, <2>3, ServesFacts
  <2>5. /\ spc' = "down" /\ conn' = 0 /\ waiting' = 0 /\ sim' = NoSim /\ backlog' = <<>>
        /\ UNCHANGED <<client, starts, advanced>>
    BY <1>12 DEF ServeQuit
  <2>6. ServerTyped' /\ ClientTyped'
    BY <1>0, <1>a, <1>c, <2>2, <2>4, <2>5 DEF ServerTyped
  <2>7. <<>> \in Seq(1 .. Len(conns')) /\ UNCHANGED sock
    BY <2>5 DEF client
  <2>8. WireTyped'
    BY <1>0, <1>a, <2>1, <2>5, <2>7 DEF WireTyped
  <2> QED BY <2>6, <2>8
<1>13. CASE ServeGoneClient
  BY <1>0, <1>13, <1>a, <1>c DEF ServeGoneClient, ServerTyped, WireTyped, client
<1>14. CASE ServerStarts
  BY <1>0, <1>14, <1>a, <1>c DEF ServerStarts, ServerTyped, WireTyped, client
<1> QED BY <1>1, <1>2, <1>3, <1>4, <1>5, <1>6, <1>7, <1>8, <1>9, <1>10, <1>11, <1>12,
           <1>13, <1>14, NextCases DEF Called, Ended, Replied

(* Initially every variable has its type.                                  *)
LEMMA TypeInit == Init => TypeOK
<1> SUFFICES ASSUME Init PROVE ClientTyped /\ ServerTyped /\ WireTyped
  BY TypeParts
<1>1. /\ MaxConns \in Nat /\ MaxCalls \in Nat \ {0} /\ MaxStarts \in Nat \ {0}
      /\ Waiting \in Nat /\ 0 \in UavCounts
  BY TCPAssumption, CountsFacts
<1>2. ClientTyped
  <2>1. /\ NoCall \in [op : Ops, id : 0 .. MaxCalls, sent : BOOLEAN, gotState : BOOLEAN]
        /\ NoRet \in [op : Ops, id : 0 .. MaxCalls, ok : BOOLEAN, clean : BOOLEAN,
                      conn : 0 .. MaxConns]
    BY <1>1 DEF NoCall, NoRet, Ops
  <2>2. paramsFrom \in 0 .. MaxConns
    BY <1>1 DEF Init, CInit
  <2> QED BY <1>1, <2>1, <2>2 DEF Init, CInit, ClientTyped
<1>3. NoSim \in Sims /\ NoAdvance \in Advances
  BY <1>1 DEF NoSim, Sims, Workspaces, NoAdvance, Advances
<1>4. ServerTyped
  BY <1>1, <1>3 DEF Init, SInit, ServerTyped
<1>5. /\ conns = <<>> /\ backlog = <<>> /\ sock = 0 /\ conn = 0 /\ spc # "serve"
      /\ Len(<<>>) = 0 /\ <<>> \in Seq(Connection) /\ <<>> \in Seq(1 .. Len(conns))
  BY DEF Init, CInit, SInit
<1>6. WireTyped
  BY <1>1, <1>5 DEF WireTyped
<1> QED BY <1>2, <1>4, <1>6

(* The variables of client, wire and server keep their types: no message   *)
(* has more than its fields, no index points outside of what it indexes.   *)
THEOREM TypeCorrect == Spec => []TypeOK
BY TypeInit, TypeStep, PTL DEF Spec

-----------------------------------------------------------------------------
(* The client's own state.                                                 *)

(* What a receive leads to: on to the parameters, or back to the caller,   *)
(* with an answer that is "true" only after a good reply.                  *)
LEMMA ReceivedCases ==
    ASSUME TypeOK, ClientShape, cpc \in Receiving, NEW good \in BOOLEAN, Received(good)
    PROVE  /\ call'.id = call.id
           /\ \/ /\ cpc = "receiveState" /\ call.op = "init" /\ call'.op = "init"
                 /\ cpc' = "receiveInfo" /\ UNCHANGED <<initialized, ret>>
              \/ /\ cpc # "receiveState" \/ call.op # "init"
                 /\ cpc' = "idle"
                 /\ \/ ret' = NoRet /\ initialized' = initialized
                    \/ /\ good
                       /\ ret' = [op |-> call.op, id |-> call.id, ok |-> TRUE,
                                  clean |-> conns'[sock].clean, conn |-> sock]
                       /\ initialized' = (initialized \/ call.op = "init")
                       /\ call.op = "init" => cpc = "receiveInfo"
<1>1. call \in [op : Ops, id : 0 .. MaxCalls, sent : BOOLEAN, gotState : BOOLEAN]
      /\ initialized \in BOOLEAN
  BY DEF TypeOK
<1>2. CASE cpc = "receiveState" /\ call.op = "init"
  BY <1>1, <1>2 DEF Received
<1>3. CASE ~(cpc = "receiveState" /\ call.op = "init")
  <2> DEFINE ok == good /\ call.sent /\ (cpc = "receiveInfo" => call.gotState)
  <2>1. Returns(ok) /\ ok \in BOOLEAN /\ (ok => good)
    BY <1>3 DEF Received
  <2>2. call.op = "init" => cpc = "receiveInfo"
    BY <1>3 DEF ClientShape, Awaited
  <2> HIDE DEF ok
  <2>3. call'.id = call.id /\ cpc' = "idle"
    BY <1>1, <2>1 DEF Returns, NoCall
  <2>4. CASE ok
    BY <1>1, <1>3, <2>1, <2>2, <2>3, <2>4 DEF Returns
  <2>5. CASE ~ok
    <3>1. ret' = NoRet /\ initialized' = initialized
      BY <1>1, <2>1, <2>5 DEF Returns
    <3> QED BY <1>3, <2>3, <3>1
  <2> QED BY <2>1, <2>4, <2>5
<1> QED BY <1>2, <1>3

LEMMA ReceiveStep ==
    ASSUME TypeOK, Receive
    PROVE  LET m == conns[sock].rep[1]
           IN  /\ cpc \in Receiving /\ Received(Expected(m)) /\ Expected(m) \in BOOLEAN
               /\ m \in Replies /\ 1 \in DOMAIN conns[sock].rep
               /\ cpc # "receiveInfo" => cliNumUAVs' = cliNumUAVs
               /\ cpc = "receiveInfo" /\ Expected(m) => cliNumUAVs' = m.uavs
               /\ UNCHANGED <<sock, backlog, server>>
<1>1. conns[sock].rep \in Seq(Replies) /\ conns[sock].rep # <<>>
  BY ReceiveEffect, Fields DEF TypeOK
<1>2. /\ Head(conns[sock].rep) = conns[sock].rep[1] /\ conns[sock].rep[1] \in Replies
      /\ 1 \in DOMAIN conns[sock].rep
  BY <1>1, TailIs
<1>3. \A m : cpc \in Receiving => Expected(m) \in BOOLEAN
  BY DEF Expected, Receiving
<1> QED BY <1>2, <1>3 DEF Receive

LEMMA ReceiveFailsStep ==
    ASSUME TypeOK, ReceiveFails
    PROVE  /\ cpc \in Receiving /\ Received(FALSE)
           /\ UNCHANGED <<sock, backlog, server>>
           /\ sock # 0 => conns[sock].rep = <<>>
           /\ conns' \in Seq(Connection) /\ Len(conns') = Len(conns)
           /\ DOMAIN conns' = DOMAIN conns
           /\ \A c \in DOMAIN conns :
                  /\ conns'[c].open = conns[c].open /\ conns'[c].up = conns[c].up
                  /\ conns'[c].req = conns[c].req /\ conns'[c].rep = conns[c].rep
                  /\ c # sock => conns'[c] = conns[c]
                  /\ c = sock /\ conns'[c].clean =>
                         conns[c].clean /\ (conns[c].req = <<>> \/ ~conns[c].up)
<1>1. /\ cpc \in Receiving /\ Received(FALSE) /\ UNCHANGED <<sock, backlog, server>>
      /\ sock # 0 => conns[sock].rep = <<>>
  BY DEF ReceiveFails
<1>2. CASE Alive(sock)
  BY <1>1, <1>2, ReceiveFailsEffect
<1>3. CASE ~Alive(sock)
  <2>1. conns' = conns
    BY <1>3 DEF ReceiveFails
  <2>2. \A c \in DOMAIN conns : c = sock => ~conns[c].up
    BY <1>3, LenProperties DEF Alive, TypeOK
  <2> QED BY <1>1, <2>1, <2>2 DEF TypeOK
<1> QED BY <1>2, <1>3

LEMMA CallStep ==
    ASSUME TypeOK, NEW op \in Ops, NEW k \in Tasks \cup {BadTask},
           NEW dt \in {0} \cup Increments, Call(op, k, dt)
    PROVE  /\ cpc = "idle" /\ cpc' = Awaited(op) /\ cpc' \in Receiving
           /\ call'.op = op /\ call'.id = call.id + 1 /\ call.id < MaxCalls
           /\ UNCHANGED <<sock, initialized, cliNumUAVs, ret, backlog, server>>
           /\ paramsFrom' = IF op = "init" THEN 0 ELSE paramsFrom
           /\ conns' \in Seq(Connection) /\ Len(conns') = Len(conns)
           /\ DOMAIN conns' = DOMAIN conns
           /\ \A c \in DOMAIN conns :
                  /\ conns'[c].open = conns[c].open /\ conns'[c].up = conns[c].up
                  /\ conns'[c].clean = conns[c].clean /\ conns'[c].rep = conns[c].rep
                  /\ \/ conns'[c].req = conns[c].req
                     \/ /\ c = sock
                        /\ conns[c].up
                        /\ \E r \in Requests :
                              /\ r.id = call.id + 1 /\ r.op = op
                              /\ conns'[c].req = Append(conns[c].req, r)
<1>1. /\ cpc = "idle" /\ cpc' = Awaited(op) /\ call.id < MaxCalls
      /\ call' = [op |-> op, id |-> call.id + 1, sent |-> Alive(sock), gotState |-> FALSE]
      /\ UNCHANGED <<sock, initialized, cliNumUAVs, ret, backlog, server>>
      /\ paramsFrom' = IF op = "init" THEN 0 ELSE paramsFrom
  BY DEF Call
<1>2. cpc' \in Receiving /\ call'.op = op /\ call'.id = call.id + 1
  BY <1>1 DEF Awaited, Receiving
<1>3. CASE Alive(sock)
  <2> DEFINE r == [op |-> op, id |-> call.id + 1, task |-> k, dt |-> dt,
                   uavs |-> cliNumUAVs]
  <2>1. r \in Requests /\ r.id = call.id + 1 /\ r.op = op
    BY <1>3, CallEffect
  <2>2. /\ conns'[sock].req = Append(conns[sock].req, r)
        /\ conns' \in Seq(Connection) /\ Len(conns') = Len(conns) /\ DOMAIN conns' = DOMAIN conns
        /\ \A d \in DOMAIN conns : d # sock => conns'[d] = conns[d]
        /\ conns'[sock].open = conns[sock].open /\ conns'[sock].up = conns[sock].up
        /\ conns'[sock].clean = conns[sock].clean /\ conns'[sock].rep = conns[sock].rep
    BY <1>3, CallEffect
  <2> HIDE DEF r
  <2>3. conns[sock].up
    BY <1>3 DEF Alive
  <2> QED BY <1>1, <1>2, <2>1, <2>2, <2>3
<1>4. CASE ~Alive(sock)
  <2>1. conns' = conns
    BY <1>4 DEF Call
  <2> QED BY <1>1, <1>2, <2>1 DEF TypeOK
<1> QED BY <1>3, <1>4

LEMMA ConcatIs ==
    ASSUME NEW S, NEW s \in Seq(S), NEW t \in Seq(S)
    PROVE  /\ s \o t \in Seq(S) /\ Len(s \o t) = Len(s) + Len(t)
           /\ \A i \in DOMAIN (s \o t) :
                  \/ i \in DOMAIN s /\ (s \o t)[i] = s[i]
                  \/ \E j \in DOMAIN t : (s \o t)[i] = t[j]
<1>1. s \o t \in Seq(S) /\ Len(s \o t) = Len(s) + Len(t)
  BY ConcatProperties
<1>2. /\ DOMAIN s = 1 .. Len(s) /\ DOMAIN t = 1 .. Len(t) /\ Len(s) \in Nat /\ Len(t) \in Nat
      /\ DOMAIN (s \o t) = 1 .. (Len(s) + Len(t))
  BY <1>1, LenProperties
<1>3. \A i \in 1 .. (Len(s) + Len(t)) :
          (s \o t)[i] = IF i <= Len(s) THEN s[i] ELSE t[i - Len(s)]
  BY ConcatProperties
<1>4. ASSUME NEW i \in DOMAIN (s \o t)
      PROVE  \/ i \in DOMAIN s /\ (s \o t)[i] = s[i]
             \/ \E j \in DOMAIN t : (s \o t)[i] = t[j]
  <2>1. CASE i <= Len(s)
    BY <1>2, <1>3, <1>4, <2>1
  <2>2. CASE i > Len(s)
    <3>1. i - Len(s) \in DOMAIN t /\ (s \o t)[i] = t[i - Len(s)]
      BY <1>2, <1>3, <1>4, <2>2
    <3> QED BY <3>1
  <2> QED BY <1>2, <1>4, <2>1, <2>2
<1> QED BY <1>1, <1>4

LEMMA AppendIs ==
    ASSUME NEW S, NEW q \in Seq(S), NEW e \in S
    PROVE  /\ Append(q, e) \in Seq(S) /\ Len(Append(q, e)) = Len(q) + 1
           /\ DOMAIN q = 1 .. Len(q) /\ Len(q) \in Nat
           /\ DOMAIN Append(q, e) = 1 .. (Len(q) + 1)
           /\ \A i \in DOMAIN q : Append(q, e)[i] = q[i]
           /\ Append(q, e)[Len(q) + 1] = e
<1>1. /\ Append(q, e) \in Seq(S) /\ Len(Append(q, e)) = Len(q) + 1
      /\ \A i \in 1 .. Len(q) : Append(q, e)[i] = q[i]
      /\ Append(q, e)[Len(q) + 1] = e
  BY AppendProperties
<1>2. DOMAIN q = 1 .. Len(q) /\ Len(q) \in Nat
  BY LenProperties
<1>3. DOMAIN Append(q, e) = 1 .. (Len(q) + 1)
  BY <1>1, LenProperties
<1> QED BY <1>1, <1>2, <1>3

LEMMA ReplyStep ==
    ASSUME TypeOK, NEW op, NEW replies \in Seq(Replies), NEW one \in BOOLEAN,
           Reply(op, replies, one)
    PROVE  /\ spc = "serve" /\ conn \in DOMAIN conns
           /\ conns[conn].req # <<>>
           /\ Request = conns[conn].req[1] /\ 1 \in DOMAIN conns[conn].req
           /\ Request.op = op /\ Request.id \in 1 .. MaxCalls
           /\ executed' = Request.id
           /\ conns' \in Seq(Connection) /\ Len(conns') = Len(conns)
           /\ DOMAIN conns' = DOMAIN conns
           /\ \A d \in DOMAIN conns :
                  /\ conns'[d].open = conns[d].open /\ conns'[d].up = conns[d].up
                  /\ d # conn => conns'[d] = conns[d]
           /\ conns'[conn].clean = (conns[conn].clean /\ one)
           /\ conns'[conn].req = Tail(conns[conn].req)
           /\ conns'[conn].rep = IF conns[conn].open THEN conns[conn].rep \o replies
                                 ELSE conns[conn].rep
           /\ \A i \in DOMAIN conns'[conn].rep :
                  \/ i \in DOMAIN conns[conn].rep /\ conns'[conn].rep[i] = conns[conn].rep[i]
                  \/ \E j \in DOMAIN replies : conns'[conn].rep[i] = replies[j]
<1>1. Serves(op) /\ Answer(replies, one)
  BY DEF Reply
<1>2. /\ spc = "serve" /\ conn \in DOMAIN conns /\ conns[conn].req # <<>>
      /\ Request = conns[conn].req[1] /\ 1 \in DOMAIN conns[conn].req
      /\ Request.op = op /\ Request.id \in 1 .. MaxCalls /\ executed' = Request.id
  BY <1>1, ServesFacts
<1>3. /\ conns' \in Seq(Connection) /\ Len(conns') = Len(conns)
      /\ DOMAIN conns' = DOMAIN conns
      /\ \A d \in DOMAIN conns : d # conn => conns'[d] = conns[d]
      /\ conns'[conn].open = conns[conn].open /\ conns'[conn].up = conns[conn].up
      /\ conns'[conn].clean = (conns[conn].clean /\ one)
      /\ conns'[conn].req = Tail(conns[conn].req)
      /\ conns'[conn].rep = IF conns[conn].open THEN conns[conn].rep \o replies
                            ELSE conns[conn].rep
  BY <1>1, AnswerEffect
<1>4. conns[conn].rep \in Seq(Replies)
  BY <1>2, Fields DEF TypeOK
<1>5. \A i \in DOMAIN conns'[conn].rep :
         \/ i \in DOMAIN conns[conn].rep /\ conns'[conn].rep[i] = conns[conn].rep[i]
         \/ \E j \in DOMAIN replies : conns'[conn].rep[i] = replies[j]
  <2>1. CASE conns[conn].open
    BY <1>3, <1>4, <2>1, ConcatIs
  <2>2. CASE ~conns[conn].open
    BY <1>3, <2>2
  <2> QED BY <2>1, <2>2
<1> QED BY <1>2, <1>3, <1>5

(* What the steps below take from it, a few facts at a time. *)
LEMMA ReplyOf ==
    ASSUME TypeOK, NEW op, NEW replies \in Seq(Replies), NEW one \in BOOLEAN,
           Reply(op, replies, one)
    PROVE  /\ conns[conn].req # <<>> /\ Request = conns[conn].req[1] /\ Request.op = op
           /\ conns'[conn].clean = (conns[conn].clean /\ one)
  BY ReplyStep

LEMMA ReplyElsewhere ==
    ASSUME TypeOK, NEW op, NEW replies \in Seq(Replies), NEW one \in BOOLEAN,
           Reply(op, replies, one)
    PROVE  /\ DOMAIN conns' = DOMAIN conns
           /\ \A d \in DOMAIN conns :
                  conns'[d].open = conns[d].open /\ (d # conn => conns'[d] = conns[d])
  BY ReplyStep

LEMMA ReplyAppends ==
    ASSUME TypeOK, NEW op, NEW replies \in Seq(Replies), NEW one \in BOOLEAN,
           Reply(op, replies, one)
    PROVE  \A i \in DOMAIN conns'[conn].rep :
              \/ i \in DOMAIN conns[conn].rep /\ conns'[conn].rep[i] = conns[conn].rep[i]
              \/ \E j \in DOMAIN replies : conns'[conn].rep[i] = replies[j]
  BY ReplyStep

(* The client's program counter fits the call it makes, its socket is the  *)
(* latest connection, and a server that is down has no connection up.      *)
LEMMA ShapeStep == TypeOK /\ ClientShape /\ [Next]_vars => ClientShape'
<1> SUFFICES ASSUME TypeOK, ClientShape, [Next]_vars PROVE ClientShape'
  OBVIOUS
<1>a. /\ Len(conns) \in Nat /\ DOMAIN conns = 1 .. Len(conns) /\ sock \in 0 .. Len(conns)
      /\ MaxConns \in Nat
  BY LenProperties, TCPAssumption DEF TypeOK
<1>b. NoRet.ok = FALSE
  BY DEF NoRet
<1>1. CASE NewClient
  BY <1>1 DEF NewClient, ClientShape, Receiving, server
<1>2. CASE ClientEnds
  <2>1. /\ cpc' = "down" /\ sock' = 0 /\ ret' = NoRet /\ UNCHANGED <<backlog, spc>>
    BY <1>2 DEF ClientEnds, server
  <2> QED BY <1>2, <1>b, <2>1, ClientEndsEffect DEF ClientShape, Receiving
<1>3. CASE ConnectTo
  <2>1. cpc = "idle" /\ UNCHANGED <<cpc, call, ret, spc>>
    BY <1>3 DEF ConnectTo, server
  <2>2. CASE spc = "down"
    BY <1>3, <2>1, <2>2 DEF ConnectTo, ClientShape, Receiving
  <2>3. CASE spc # "down"
    <3>1. /\ sock' = Len(conns') /\ conns'[sock'].open
          /\ DOMAIN conns \subseteq DOMAIN conns'
      BY <1>3, <1>a, <2>3, ConnectEffect
    <3> QED BY <2>1, <2>3, <3>1 DEF ClientShape, Receiving
  <2> QED BY <2>2, <2>3
<1>4. ASSUME NEW op \in Ops, NEW k \in Tasks \cup {BadTask}, NEW dt \in {0} \cup Increments,
             Call(op, k, dt)
      PROVE  ClientShape'
  <2>1. /\ cpc' = Awaited(call'.op) /\ UNCHANGED <<sock, ret, backlog, spc>>
        /\ DOMAIN conns' = DOMAIN conns /\ Len(conns') = Len(conns)
        /\ \A c \in DOMAIN conns : conns'[c].open = conns[c].open /\ conns'[c].up = conns[c].up
    BY <1>4, CallStep DEF server
  <2>2. sock # 0 => sock \in DOMAIN conns
    BY <1>a
  <2>3. /\ sock # 0 => sock = Len(conns) /\ conns[sock].open
        /\ ret.ok => ret.conn \in DOMAIN conns
        /\ spc = "down" => backlog = <<>> /\ \A c \in DOMAIN conns : ~conns[c].up
    BY DEF ClientShape
  <2> QED BY <2>1, <2>2, <2>3 DEF ClientShape
<1>5. ASSUME NEW op \in Ops, CallTooEarly(op)
      PROVE  ClientShape'
  BY <1>5, <1>b DEF CallTooEarly, ClientShape, Receiving, server
<1>6. ASSUME cpc \in Receiving, NEW good \in BOOLEAN, Received(good),
             good => sock \in DOMAIN conns,
             UNCHANGED <<sock, backlog, spc>>,
             Len(conns') = Len(conns), DOMAIN conns' = DOMAIN conns,
             \A c \in DOMAIN conns : conns'[c].open = conns[c].open /\ conns'[c].up = conns[c].up
      PROVE  ClientShape'
  <2>1. /\ cpc' = "idle" \/ (cpc' = "receiveInfo" /\ call'.op = "init")
        /\ ret'.ok => ret' = ret \/ (good /\ ret'.conn = sock)
    BY <1>6, <1>b, ReceivedCases
  <2>2. sock # 0 => sock \in DOMAIN conns
    BY <1>a
  <2> QED BY <1>6, <2>1, <2>2 DEF ClientShape, Receiving
<1>7. CASE Receive
  <2>1. /\ Len(conns') = Len(conns) /\ DOMAIN conns' = DOMAIN conns /\ sock \in DOMAIN conns
        /\ \A c \in DOMAIN conns : conns'[c].open = conns[c].open /\ conns'[c].up = conns[c].up
    BY <1>7, ReceiveEffect
  <2>2. \E good \in BOOLEAN : cpc \in Receiving /\ Received(good) /\ UNCHANGED <<sock, backlog, spc>>
    BY <1>7, ReceiveStep DEF server
  <2> QED BY <1>6, <2>1, <2>2
<1>8. CASE ReceiveFails
  BY <1>6, <1>8, ReceiveFailsStep DEF server
<1>9. ASSUME UNCHANGED client, Len(conns') = Len(conns), DOMAIN conns' = DOMAIN conns,
             \A c \in DOMAIN conns : /\ conns'[c].open = conns[c].open
                                     /\ ~conns[c].up => ~conns'[c].up,
             spc' = "down" => backlog' = <<>> /\ \A c \in DOMAIN conns : ~conns'[c].up
      PROVE  ClientShape'
  <2>1. sock # 0 => sock \in DOMAIN conns
    BY <1>a
  <2> QED BY <1>9, <2>1 DEF ClientShape, client
<1>10. CASE WaitForClient
  BY <1>9, <1>10 DEF WaitForClient
<1>11. CASE Pauses
  BY <1>9, <1>11 DEF Pauses, ClientShape
<1>12. ASSUME NEW kept \in BOOLEAN, Exits(kept)
       PROVE  ClientShape'
  <2>1. UNCHANGED client /\ backlog' = <<>>
    BY <1>12 DEF Exits
  <2> QED BY <1>9, <1>12, <2>1, ExitsEffect
<1>13. ASSUME NEW op \in Ops, NEW replies \in Seq(Replies), NEW one \in BOOLEAN,
              Reply(op, replies, one)
       PROVE  ClientShape'
  <2>1. UNCHANGED client /\ (spc' = spc \/ spc' = "accept")
    BY <1>13 DEF Reply
  <2>2. /\ Len(conns') = Len(conns) /\ DOMAIN conns' = DOMAIN conns /\ spc = "serve"
        /\ \A c \in DOMAIN conns : conns'[c].open = conns[c].open /\ conns'[c].up = conns[c].up
    BY <1>13, ReplyStep
  <2> QED BY <1>9, <2>1, <2>2
<1>14. CASE ServeQuit
  <2>1. UNCHANGED client /\ backlog' = <<>>
    BY <1>14 DEF ServeQuit
  <2> QED BY <1>9, <1>14, <2>1, QuitEffect
<1>15. CASE ServeGoneClient
  <2>1. UNCHANGED <<client, conns>> /\ spc' # "down"
    BY <1>15 DEF ServeGoneClient
  <2> QED BY <1>9, <2>1
<1>16. CASE ServerStarts
  <2>1. UNCHANGED <<client, conns>> /\ spc' # "down"
    BY <1>16 DEF ServerStarts
  <2> QED BY <1>9, <2>1
<1> QED BY <1>1, <1>2, <1>3, <1>4, <1>5, <1>7, <1>8, <1>10, <1>11, <1>12, <1>13, <1>14,
           <1>15, <1>16, NextCases DEF Called, Ended, Replied

(* The parameters of a task travel only once there is a simulator, which   *)
(* the first server process never loses.                                   *)
LEMMA LoadedStep == TypeOK /\ ClientShape /\ Loaded /\ [Next]_vars => Loaded'
<1> SUFFICES ASSUME TypeOK, ClientShape, Loaded, [Next]_vars PROVE Loaded'
  OBVIOUS
<1>a. starts \in Nat \ {0}
  BY TCPAssumption DEF TypeOK
<1>1. ASSUME UNCHANGED <<starts, sim>>, spc' = "down" <=> spc = "down",
             initialized' => initialized,
             \A c \in DOMAIN conns' : \A i \in DOMAIN conns'[c].rep :
                 c \in DOMAIN conns /\ i \in DOMAIN conns[c].rep /\ conns'[c].rep[i] = conns[c].rep[i]
      PROVE  Loaded'
  BY <1>1 DEF Loaded
<1>2. CASE NewClient
  BY <1>1, <1>2 DEF NewClient, server
<1>3. CASE ClientEnds
  <2>1. UNCHANGED <<starts, sim, spc>> /\ initialized' = FALSE
    BY <1>3 DEF ClientEnds, server
  <2>2. \A c \in DOMAIN conns' : conns'[c].rep = <<>>
    BY <1>3, ClientEndsEffect
  <2>3. \A i \in DOMAIN <<>> : FALSE
    OBVIOUS
  <2> QED BY <1>1, <2>1, <2>2, <2>3
<1>4. CASE ConnectTo
  <2>1. UNCHANGED <<starts, sim, spc, initialized>>
    BY <1>4 DEF ConnectTo, server
  <2>2. CASE spc = "down"
    BY <1>1, <1>4, <2>1, <2>2 DEF ConnectTo
  <2>3. CASE spc # "down"
    <3>1. \A c \in DOMAIN conns' :
              \/ c \in DOMAIN conns /\ conns'[c] = conns[c]
              \/ conns'[c].rep = <<>>
      BY <1>4, <2>3, ConnectEffect, LenProperties, SMTT(30) DEF TypeOK
    <3>2. \A i \in DOMAIN <<>> : FALSE
      OBVIOUS
    <3> QED BY <1>1, <2>1, <3>1, <3>2
  <2> QED BY <2>2, <2>3
<1>5. CASE Called
  <2>1. /\ UNCHANGED <<initialized, server>> /\ DOMAIN conns' = DOMAIN conns
        /\ \A c \in DOMAIN conns : conns'[c].rep = conns[c].rep
    BY <1>5, CallStep DEF Called
  <2> QED BY <1>1, <2>1 DEF server
<1>6. ASSUME NEW op \in Ops, CallTooEarly(op)
      PROVE  Loaded'
  BY <1>1, <1>6 DEF CallTooEarly, server
<1>7. CASE Receive
  <2> DEFINE m == conns[sock].rep[1]
  <2>1. /\ cpc \in Receiving /\ Received(Expected(m)) /\ Expected(m) \in BOOLEAN
        /\ UNCHANGED server /\ 1 \in DOMAIN conns[sock].rep /\ sock \in DOMAIN conns
    BY <1>7, ReceiveStep, ReceiveEffect
  <2>2. /\ DOMAIN conns' = DOMAIN conns
        /\ \A c \in DOMAIN conns : c # sock => conns'[c] = conns[c]
        /\ conns'[sock].rep = Tail(conns[sock].rep)
    BY <1>7, ReceiveEffect
  <2>3. \A i \in DOMAIN conns'[sock].rep :
            i + 1 \in DOMAIN conns[sock].rep /\ conns'[sock].rep[i] = conns[sock].rep[i + 1]
    <3>1. conns[sock].rep \in Seq(Replies) /\ conns[sock].rep # <<>>
      BY <1>7, ReceiveEffect, Fields DEF TypeOK
    <3> QED BY <2>2, <3>1, TailIs
  <2>4. initialized' => initialized \/ (Expected(m) /\ cpc = "receiveInfo")
    <3>1. initialized \in BOOLEAN
      BY DEF TypeOK
    <3> QED BY <2>1, <3>1, ReceivedCases
  <2>5. Expected(m) /\ cpc = "receiveInfo" => m.type = "TASKINFO"
    BY DEF Expected
  <2> HIDE DEF m
  <2>6. starts = 1 /\ spc # "down" =>
          /\ initialized => sim.loaded
          /\ m.type = "TASKINFO" => sim.loaded
    BY <2>1 DEF Loaded, m
  <2> QED BY <2>1, <2>2, <2>3, <2>4, <2>5, <2>6, ZenonT(30) DEF Loaded, server
<1>8. CASE ReceiveFails
  <2>1. initialized' = initialized
    BY <1>8, ReceiveFailsStep, ReceivedCases
  <2> QED BY <1>1, <1>8, <2>1, ReceiveFailsStep DEF server
<1>9. CASE WaitForClient
  BY <1>1, <1>9 DEF WaitForClient, client
<1>10. CASE Pauses
  BY <1>1, <1>10 DEF Pauses, client
<1>11. ASSUME NEW kept \in BOOLEAN, Exits(kept)
       PROVE  Loaded'
  BY <1>11 DEF Exits, Loaded
<1>12. ASSUME NEW op \in Ops, NEW replies \in Seq(Replies), NEW one \in BOOLEAN,
              Reply(op, replies, one)
       PROVE  Loaded'
  <2>1. /\ UNCHANGED <<starts, initialized>> /\ (sim.loaded => sim'.loaded)
        /\ spc = "serve"
        /\ \A i \in DOMAIN replies : replies[i].type = "TASKINFO" => sim'.loaded
    BY <1>12, ReplyStep DEF Reply, client
  <2>2. /\ DOMAIN conns' = DOMAIN conns
        /\ \A c \in DOMAIN conns : \A i \in DOMAIN conns'[c].rep :
               \/ i \in DOMAIN conns[c].rep /\ conns'[c].rep[i] = conns[c].rep[i]
               \/ \E j \in DOMAIN replies : conns'[c].rep[i] = replies[j]
    <3>1. /\ DOMAIN conns' = DOMAIN conns
          /\ \A c \in DOMAIN conns : c # conn => conns'[c].rep = conns[c].rep
          /\ \A i \in DOMAIN conns'[conn].rep :
                 \/ i \in DOMAIN conns[conn].rep /\ conns'[conn].rep[i] = conns[conn].rep[i]
                 \/ \E j \in DOMAIN replies : conns'[conn].rep[i] = replies[j]
      BY <1>12, ReplyStep, ZenonT(30)
    <3> QED BY <3>1
  <2> QED BY <2>1, <2>2 DEF Loaded
<1>13. CASE ServeQuit
  BY <1>13 DEF ServeQuit, Loaded
<1>14. CASE ServeGoneClient
  <2>1. spc = "serve" /\ spc' # "down" /\ UNCHANGED <<starts, sim, initialized, conns>>
    BY <1>14 DEF ServeGoneClient, client
  <2> QED BY <1>1, <2>1
<1>15. CASE ServerStarts
  <2>1. starts' # 1
    BY <1>15, <1>a DEF ServerStarts
  <2> QED BY <2>1 DEF Loaded
<1> QED BY <1>2, <1>3, <1>4, <1>5, <1>6, <1>7, <1>8, <1>9, <1>10, <1>11, <1>12, <1>13,
           <1>14, <1>15, NextCases DEF Ended, Replied

-----------------------------------------------------------------------------
(* The order of the requests.                                              *)

(* Connections wait to be accepted in the order they were made.            *)
LEMMA BacklogStep == TypeOK /\ ClientShape /\ BacklogOrdered /\ [Next]_vars => BacklogOrdered'
<1> SUFFICES ASSUME TypeOK, ClientShape, BacklogOrdered, [Next]_vars PROVE BacklogOrdered'
  OBVIOUS
<1>a. /\ Len(conns) \in Nat /\ DOMAIN conns = 1 .. Len(conns) /\ conn \in 0 .. Len(conns)
      /\ backlog \in Seq(1 .. Len(conns))
  BY LenProperties DEF TypeOK
<1>b. /\ Len(backlog) \in Nat /\ DOMAIN backlog = 1 .. Len(backlog)
      /\ \A i \in DOMAIN backlog : backlog[i] \in 1 .. Len(conns)
  BY <1>a, LenProperties, ElementOfSeq
<1>1. ASSUME backlog' = backlog, spc' = "serve" => spc = "serve" /\ conn' = conn
      PROVE  BacklogOrdered'
  BY <1>1 DEF BacklogOrdered
<1>2. ASSUME backlog' = <<>>
      PROVE  BacklogOrdered'
  BY <1>2 DEF BacklogOrdered
<1>3. CASE NewClient
  BY <1>1, <1>3 DEF NewClient, server
<1>4. CASE ClientEnds
  BY <1>1, <1>4 DEF ClientEnds, server
<1>5. CASE ConnectTo
  <2>1. CASE spc = "down"
    BY <1>1, <1>5, <2>1 DEF ConnectTo, server
  <2>2. CASE spc # "down"
    <3> DEFINE new == Len(conns) + 1
    <3>1. backlog' = Append(backlog, new) /\ UNCHANGED <<spc, conn>>
      BY <1>5, <2>2, ConnectEffect DEF ConnectTo, server
    <3>2. backlog \in Seq(1 .. new)
      <4>1. 1 .. Len(conns) \subseteq 1 .. new
        BY <1>a
      <4> QED BY <1>a, <4>1, SeqMonotonic
    <3>3. /\ DOMAIN backlog' = 1 .. (Len(backlog) + 1)
          /\ \A i \in DOMAIN backlog : backlog'[i] = backlog[i]
          /\ backlog'[Len(backlog) + 1] = new
      <4>1. new \in 1 .. new
        BY <1>a
      <4> QED BY <3>1, <3>2, <4>1, AppendIs
    <3> QED BY <1>a, <1>b, <3>1, <3>3 DEF BacklogOrdered
  <2> QED BY <2>1, <2>2
<1>6. CASE Called
  BY <1>1, <1>6, CallStep DEF Called, server
<1>7. ASSUME NEW op \in Ops, CallTooEarly(op)
      PROVE  BacklogOrdered'
  BY <1>1, <1>7 DEF CallTooEarly, server
<1>8. CASE Receive
  BY <1>1, <1>8 DEF Receive, server
<1>9. CASE ReceiveFails
  BY <1>1, <1>9 DEF ReceiveFails, server
<1>10. CASE WaitForClient
  <2>1. backlog # <<>> /\ conn' = Head(backlog) /\ backlog' = Tail(backlog)
    BY <1>10 DEF WaitForClient
  <2>2. /\ Head(backlog) = backlog[1] /\ 1 \in DOMAIN backlog
        /\ \A i \in DOMAIN backlog' : i + 1 \in DOMAIN backlog /\ backlog'[i] = backlog[i + 1]
        /\ DOMAIN backlog' = 1 .. Len(backlog) - 1
    BY <1>a, <2>1, TailIs
  <2> QED BY <1>b, <2>1, <2>2, SMTT(30) DEF BacklogOrdered
<1>11. CASE Pauses
  BY <1>1, <1>11 DEF Pauses
<1>12. ASSUME NEW kept \in BOOLEAN, Exits(kept)
       PROVE  BacklogOrdered'
  BY <1>2, <1>12 DEF Exits
<1>13. CASE Replied
  BY <1>1, <1>13 DEF Replied, Reply
<1>14. CASE ServeQuit
  BY <1>2, <1>14 DEF ServeQuit
<1>15. CASE ServeGoneClient
  BY <1>1, <1>15 DEF ServeGoneClient
<1>16. CASE ServerStarts
  BY <1>1, <1>16 DEF ServerStarts
<1> QED BY <1>3, <1>4, <1>5, <1>6, <1>7, <1>8, <1>9, <1>10, <1>11, <1>12, <1>13,
           <1>14, <1>15, <1>16, NextCases DEF Ended

(* A step that adds no request and keeps the order of those there are.     *)
LEMMA KeptRequests ==
    ASSUME RequestsOrdered, DOMAIN conns' = DOMAIN conns,
           \A c \in DOMAIN conns : conns'[c].req = conns[c].req \/ conns'[c].req = <<>>
    PROVE  RequestsOrdered'
<1>1. \A c \in DOMAIN conns : \A i \in DOMAIN conns'[c].req :
          i \in DOMAIN conns[c].req /\ conns'[c].req[i] = conns[c].req[i]
  <2>1. \A i \in DOMAIN <<>> : FALSE
    OBVIOUS
  <2> QED BY <2>1
<1> QED BY <1>1 DEF RequestsOrdered

(* What is left of the requests after the first of connection conn.        *)
LEMMA ReplyRequests ==
    ASSUME TypeOK, Replied
    PROVE  /\ DOMAIN conns' = DOMAIN conns /\ conn \in DOMAIN conns /\ spc = "serve"
           /\ 1 \in DOMAIN conns[conn].req /\ executed' = conns[conn].req[1].id
           /\ executed' \in 1 .. MaxCalls
           /\ DOMAIN conns[conn].req \subseteq Nat
           /\ \A c \in DOMAIN conns : c # conn => conns'[c].req = conns[c].req
           /\ \A i \in DOMAIN conns'[conn].req :
                  i + 1 \in DOMAIN conns[conn].req /\ i >= 1 /\ i \in Nat
                  /\ conns'[conn].req[i] = conns[conn].req[i + 1]
<1>1. /\ DOMAIN conns' = DOMAIN conns /\ conn \in DOMAIN conns /\ spc = "serve"
      /\ 1 \in DOMAIN conns[conn].req /\ executed' = conns[conn].req[1].id
      /\ executed' \in 1 .. MaxCalls
      /\ conns[conn].req # <<>> /\ conns'[conn].req = Tail(conns[conn].req)
      /\ \A c \in DOMAIN conns : c # conn => conns'[c].req = conns[c].req
  BY ReplyStep DEF Replied
<1>2. conns[conn].req \in Seq(Requests)
  BY <1>1, Fields DEF TypeOK
<1>3. /\ DOMAIN conns[conn].req = 1 .. Len(conns[conn].req)
      /\ Len(conns[conn].req) \in Nat
      /\ DOMAIN Tail(conns[conn].req) = 1 .. Len(conns[conn].req) - 1
      /\ \A i \in DOMAIN Tail(conns[conn].req) : i + 1 \in DOMAIN conns[conn].req
              /\ Tail(conns[conn].req)[i] = conns[conn].req[i + 1]
  BY <1>1, <1>2, TailIs, LenProperties
<1> QED BY <1>1, <1>3

LEMMA NewConnection ==
    ASSUME TypeOK, ConnectTo
    PROVE  /\ DOMAIN conns \subseteq DOMAIN conns'
           /\ \A c \in DOMAIN conns : conns'[c] = conns[c]
           /\ \A c \in DOMAIN conns' : c \notin DOMAIN conns =>
                  /\ conns'[c].req = <<>> /\ conns'[c].rep = <<>>
                  /\ conns'[c].open /\ conns'[c].clean /\ conns'[c].up
                  /\ spc # "down"
<1>1. CASE spc = "down"
  BY <1>1 DEF ConnectTo
<1>2. CASE spc # "down"
  <2>1. /\ DOMAIN conns = 1 .. Len(conns) /\ DOMAIN conns' = 1 .. Len(conns) + 1
        /\ Len(conns) \in Nat
        /\ \A d \in DOMAIN conns : conns'[d] = conns[d]
        /\ conns'[Len(conns) + 1] = [open |-> TRUE, up |-> TRUE, clean |-> TRUE,
                                    req |-> <<>>, rep |-> <<>>]
    BY <1>2, ConnectEffect, LenProperties DEF TypeOK
  <2> QED BY <1>2, <2>1
<1> QED BY <1>1, <1>2

(* Requests lie in the order of their issue, over all connections.         *)
LEMMA RequestsOrderedStep ==
    TypeOK /\ ClientShape /\ RequestsOrdered /\ RequestsNew /\ [Next]_vars => RequestsOrdered'
<1> SUFFICES ASSUME TypeOK, ClientShape, RequestsOrdered, RequestsNew, [Next]_vars
             PROVE  RequestsOrdered'
  OBVIOUS
<1>1. ASSUME conns' = conns PROVE RequestsOrdered'
  BY <1>1 DEF RequestsOrdered
<1>2. CASE ClientEnds
  BY <1>2, ClientEndsEffect, KeptRequests
<1>3. CASE ConnectTo
  <2>1. \A c \in DOMAIN conns' : \A i \in DOMAIN conns'[c].req :
            c \in DOMAIN conns /\ conns'[c] = conns[c]
    <3>1. \A i \in DOMAIN <<>> : FALSE
      OBVIOUS
    <3> QED BY <1>3, <3>1, NewConnection
  <2> QED BY <2>1 DEF RequestsOrdered
<1>4. ASSUME NEW op \in Ops, NEW k \in Tasks \cup {BadTask}, NEW dt \in {0} \cup Increments,
             Call(op, k, dt)
      PROVE  RequestsOrdered'
  <2>1. /\ DOMAIN conns' = DOMAIN conns /\ call.id \in Nat
        /\ \A c \in DOMAIN conns :
               \/ conns'[c].req = conns[c].req
               \/ /\ c = sock
                  /\ \E r \in Requests : r.id = call.id + 1
                        /\ conns'[c].req = Append(conns[c].req, r)
    <3>1. call.id \in Nat
      BY TCPAssumption DEF TypeOK
    <3> QED BY <1>4, <3>1, CallStep
  <2>2. CASE \A c \in DOMAIN conns : conns'[c].req = conns[c].req
    BY <2>1, <2>2, KeptRequests
  <2>3. CASE \E c \in DOMAIN conns : conns'[c].req # conns[c].req
    <3>1. PICK r \in Requests :
              r.id = call.id + 1 /\ conns'[sock].req = Append(conns[sock].req, r)
      BY <2>1, <2>3
    <3>2. sock \in DOMAIN conns /\ \A c \in DOMAIN conns : c # sock => conns'[c].req = conns[c].req
      BY <2>1, <2>3
    <3>3. sock = Len(conns) /\ Len(conns) \in Nat /\ DOMAIN conns = 1 .. Len(conns)
      BY <3>2, LenProperties DEF ClientShape, TypeOK
    <3> DEFINE n == Len(conns[sock].req)
    <3>4. conns[sock].req \in Seq(Requests)
      BY <3>2, Fields DEF TypeOK
    <3>5. /\ DOMAIN conns[sock].req = 1 .. n /\ n \in Nat
          /\ DOMAIN conns'[sock].req = 1 .. n + 1
          /\ \A i \in 1 .. n : conns'[sock].req[i] = conns[sock].req[i]
          /\ conns'[sock].req[n + 1] = r
      BY <3>1, <3>4, AppendIs
    <3>6. ASSUME NEW c \in DOMAIN conns, NEW i \in DOMAIN conns'[c].req,
                 ~(c = sock /\ i = n + 1)
          PROVE  /\ i \in DOMAIN conns[c].req /\ conns'[c].req[i] = conns[c].req[i]
                 /\ conns'[c].req[i].id < r.id
      <4>1. i \in DOMAIN conns[c].req /\ conns'[c].req[i] = conns[c].req[i]
        BY <3>2, <3>5, <3>6
      <4>2. conns[c].req[i].id <= call.id
        BY <4>1 DEF RequestsNew
      <4>3. conns[c].req[i].id \in Nat
        <5>1. conns[c].req \in Seq(Requests)
          BY Fields DEF TypeOK
        <5>2. conns[c].req[i] \in Requests
          BY <4>1, <5>1, LenProperties
        <5> QED BY <5>2, TCPAssumption DEF Requests
      <4> QED BY <2>1, <3>1, <4>1, <4>2, <4>3
    <3> HIDE DEF n
    <3>7. ASSUME NEW c \in DOMAIN conns, NEW d \in DOMAIN conns,
                 NEW i \in DOMAIN conns'[c].req, NEW j \in DOMAIN conns'[d].req,
                 c < d \/ (c = d /\ i < j)
          PROVE  conns'[c].req[i].id < conns'[d].req[j].id
      <4>1. ~(c = sock /\ i = n + 1)
        BY <3>3, <3>5, <3>7
      <4>2. CASE d = sock /\ j = n + 1
        BY <3>5, <3>6, <4>1, <4>2
      <4>3. CASE ~(d = sock /\ j = n + 1)
        <5>1. /\ i \in DOMAIN conns[c].req /\ conns'[c].req[i] = conns[c].req[i]
              /\ j \in DOMAIN conns[d].req /\ conns'[d].req[j] = conns[d].req[j]
          BY <3>6, <4>1, <4>3
        <5> QED BY <3>7, <5>1 DEF RequestsOrdered
      <4> QED BY <4>2, <4>3
    <3> QED BY <2>1, <3>7 DEF RequestsOrdered
  <2> QED BY <2>2, <2>3
<1>5. CASE Receive
  <2>1. DOMAIN conns' = DOMAIN conns /\ \A c \in DOMAIN conns : conns'[c].req = conns[c].req
    BY <1>5, ReceiveEffect
  <2> QED BY <2>1, KeptRequests
<1>6. CASE ReceiveFails
  BY <1>6, ReceiveFailsStep, KeptRequests
<1>7. ASSUME NEW kept \in BOOLEAN, Exits(kept)
      PROVE  RequestsOrdered'
  BY <1>7, ExitsEffect, KeptRequests
<1>8. CASE Replied
  <2> USE <1>8, ReplyRequests
  <2>1. ASSUME NEW c \in DOMAIN conns, NEW d \in DOMAIN conns,
               NEW i \in DOMAIN conns'[c].req, NEW j \in DOMAIN conns'[d].req,
               c < d \/ (c = d /\ i < j)
        PROVE  conns'[c].req[i].id < conns'[d].req[j].id
    <3>1. PICK x \in DOMAIN conns[c].req : /\ conns'[c].req[i] = conns[c].req[x]
                                          /\ x = IF c = conn THEN i + 1 ELSE i
      OBVIOUS
    <3>2. PICK y \in DOMAIN conns[d].req : /\ conns'[d].req[j] = conns[d].req[y]
                                          /\ y = IF d = conn THEN j + 1 ELSE j
      OBVIOUS
    <3>3. c < d \/ (c = d /\ x < y)
      BY <2>1, <3>1, <3>2
    <3> QED BY <3>1, <3>2, <3>3 DEF RequestsOrdered
  <2> QED BY <2>1 DEF RequestsOrdered
<1>9. CASE ServeQuit
  BY <1>9, QuitEffect, KeptRequests
<1>10. (\/ NewClient \/ (\E op \in Ops : CallTooEarly(op)) \/ WaitForClient
        \/ Pauses \/ ServeGoneClient \/ ServerStarts) => conns' = conns
  BY DEF NewClient, CallTooEarly, WaitForClient, Pauses, ServeGoneClient, ServerStarts
<1> QED BY <1>1, <1>2, <1>3, <1>4, <1>5, <1>6, <1>7, <1>8, <1>9, <1>10, NextCases
        DEF Called, Ended

(* What the server can still read is younger than what it executed.        *)
LEMMA RequestsNewStep ==
    TypeOK /\ ClientShape /\ BacklogOrdered /\ RequestsOrdered /\ RequestsNew /\ [Next]_vars
        => RequestsNew'
<1> SUFFICES ASSUME TypeOK, ClientShape, BacklogOrdered, RequestsOrdered, RequestsNew, [Next]_vars
             PROVE  RequestsNew'
  OBVIOUS
<1>a. /\ Len(conns) \in Nat /\ DOMAIN conns = 1 .. Len(conns) /\ conn \in 0 .. Len(conns)
      /\ backlog \in Seq(1 .. Len(conns)) /\ executed \in Nat /\ call.id \in Nat
  BY LenProperties, TCPAssumption DEF TypeOK
<1>b. \A i \in DOMAIN <<>> : FALSE
  OBVIOUS
<1>1. ASSUME UNCHANGED executed, call'.id = call.id,
             \A c \in DOMAIN conns' : \A i \in DOMAIN conns'[c].req :
                 /\ c \in DOMAIN conns /\ i \in DOMAIN conns[c].req
                 /\ conns'[c].req[i] = conns[c].req[i]
                 /\ Readable(c)' => Readable(c)
      PROVE  RequestsNew'
  BY <1>1 DEF RequestsNew
<1>2. ASSUME UNCHANGED <<executed, spc, conn, backlog>>, call'.id = call.id,
             DOMAIN conns' = DOMAIN conns,
             \A c \in DOMAIN conns : conns'[c].req = conns[c].req
      PROVE  RequestsNew'
  BY <1>2 DEF RequestsNew, Readable
<1>3. CASE NewClient
  BY <1>2, <1>3 DEF NewClient, server
<1>4. CASE ClientEnds
  <2>1. UNCHANGED <<executed, spc, conn, backlog>> /\ call'.id = call.id
    BY <1>4 DEF ClientEnds, server, NoCall
  <2> QED BY <1>2, <1>4, <2>1, ClientEndsEffect
<1>5. CASE ConnectTo
  <2>1. UNCHANGED <<executed, spc, conn, call>>
    BY <1>5 DEF ConnectTo, server
  <2>2. \A c \in DOMAIN conns' : \A i \in DOMAIN conns'[c].req :
            c \in DOMAIN conns /\ conns'[c] = conns[c]
    BY <1>5, <1>b, NewConnection
  <2>3. ASSUME NEW c \in DOMAIN conns, Readable(c)' PROVE Readable(c)
    <3>1. CASE spc = "down"
      BY <1>5, <2>1, <2>3, <3>1 DEF ConnectTo, Readable
    <3>2. CASE spc # "down"
      <4> DEFINE new == Len(conns) + 1
      <4>1. backlog' = Append(backlog, new)
        BY <1>5, <3>2, ConnectEffect DEF ConnectTo
      <4>2. backlog \in Seq(1 .. new) /\ new \in 1 .. new
        <5>1. 1 .. Len(conns) \subseteq 1 .. new
          BY <1>a
        <5> QED BY <1>a, <5>1, SeqMonotonic
      <4>3. /\ DOMAIN backlog' = 1 .. (Len(backlog) + 1) /\ Len(backlog) \in Nat
            /\ DOMAIN backlog = 1 .. Len(backlog)
            /\ \A i \in DOMAIN backlog : backlog'[i] = backlog[i]
            /\ backlog'[Len(backlog) + 1] = new
        BY <4>1, <4>2, AppendIs
      <4>4. c # new
        BY <1>a
      <4>5. \A i \in DOMAIN backlog' : backlog'[i] = c => i \in DOMAIN backlog
        BY <4>3, <4>4
      <4> QED BY <2>1, <2>3, <4>3, <4>5 DEF Readable
    <3> QED BY <3>1, <3>2
  <2> QED BY <1>1, <2>1, <2>2, <2>3
<1>6. ASSUME NEW op \in Ops, NEW k \in Tasks \cup {BadTask}, NEW dt \in {0} \cup Increments,
             Call(op, k, dt)
      PROVE  RequestsNew'
  <2>1. /\ DOMAIN conns' = DOMAIN conns /\ call'.id = call.id + 1
        /\ UNCHANGED <<executed, spc, conn, backlog>>
        /\ \A c \in DOMAIN conns :
               \/ conns'[c].req = conns[c].req
               \/ \E r \in Requests : r.id = call.id + 1
                      /\ conns'[c].req = Append(conns[c].req, r)
    BY <1>6, CallStep DEF server
  <2>2. \A c : Readable(c)' = Readable(c)
    BY <2>1 DEF Readable
  <2>3. ASSUME NEW c \in DOMAIN conns, NEW i \in DOMAIN conns'[c].req
        PROVE  /\ conns'[c].req[i].id <= call.id + 1
               /\ Readable(c) => executed < conns'[c].req[i].id
    <3>1. conns[c].req \in Seq(Requests)
      BY Fields DEF TypeOK
    <3>2. \A j \in DOMAIN conns[c].req :
              conns[c].req[j].id \in Nat /\ conns[c].req[j].id <= call.id
              /\ (Readable(c) => executed < conns[c].req[j].id)
      <4>1. \A j \in DOMAIN conns[c].req : conns[c].req[j] \in Requests
        BY <3>1, LenProperties
      <4> QED BY <4>1, TCPAssumption DEF RequestsNew, Requests
    <3>3. CASE conns'[c].req = conns[c].req
      BY <1>a, <3>2, <3>3
    <3>4. ASSUME NEW r \in Requests, r.id = call.id + 1,
                 conns'[c].req = Append(conns[c].req, r)
          PROVE  conns'[c].req[i] = r \/ (i \in DOMAIN conns[c].req /\ conns'[c].req[i] = conns[c].req[i])
      BY <3>1, <3>4, AppendIs
    <3>5. executed < call.id + 1
      BY <1>a DEF RequestsNew
    <3>6. ASSUME NEW r \in Requests, r.id = call.id + 1,
                 conns'[c].req = Append(conns[c].req, r)
          PROVE  /\ conns'[c].req[i].id <= call.id + 1
                 /\ Readable(c) => executed < conns'[c].req[i].id
      <4>1. CASE conns'[c].req[i] = r
        BY <1>a, <3>5, <3>6, <4>1
      <4>2. CASE i \in DOMAIN conns[c].req /\ conns'[c].req[i] = conns[c].req[i]
        BY <1>a, <3>2, <4>2
      <4> QED BY <3>4, <3>6, <4>1, <4>2
    <3> QED BY <2>1, <2>3, <3>3, <3>6
  <2> QED BY <1>a, <2>1, <2>2, <2>3 DEF RequestsNew
<1>7. ASSUME NEW op \in Ops, CallTooEarly(op)
      PROVE  RequestsNew'
  BY <1>2, <1>7 DEF CallTooEarly, server
<1>8. CASE Receive
  <2>1. DOMAIN conns' = DOMAIN conns /\ \A c \in DOMAIN conns : conns'[c].req = conns[c].req
    BY <1>8, ReceiveEffect
  <2>2. UNCHANGED <<executed, spc, conn, backlog>> /\ call'.id = call.id
    BY <1>8, ReceiveStep, ReceivedCases DEF server
  <2> QED BY <1>2, <2>1, <2>2
<1>9. CASE ReceiveFails
  <2>1. UNCHANGED <<executed, spc, conn, backlog>> /\ call'.id = call.id
    BY <1>9, ReceiveFailsStep, ReceivedCases DEF server
  <2> QED BY <1>2, <1>9, <2>1, ReceiveFailsStep
<1>10. CASE WaitForClient
  <2>1. /\ backlog # <<>> /\ conn' = Head(backlog) /\ backlog' = Tail(backlog)
        /\ UNCHANGED <<conns, executed, call>>
    BY <1>10 DEF WaitForClient, client
  <2>2. /\ Head(backlog) = backlog[1] /\ 1 \in DOMAIN backlog
        /\ \A i \in DOMAIN backlog' : i + 1 \in DOMAIN backlog /\ backlog'[i] = backlog[i + 1]
    BY <1>a, <2>1, TailIs
  <2>3. \A c : Readable(c)' => Readable(c)
    BY <2>1, <2>2 DEF Readable
  <2> QED BY <1>1, <2>1, <2>3
<1>11. CASE Pauses
  BY <1>2, <1>11 DEF Pauses, client
<1>12. ASSUME NEW kept \in BOOLEAN, Exits(kept), UNCHANGED executed
       PROVE  RequestsNew'
  <2>1. UNCHANGED call /\ DOMAIN conns' = DOMAIN conns
        /\ \A c \in DOMAIN conns : conns'[c].req = <<>>
    BY <1>12, ExitsEffect DEF Exits, client
  <2> QED BY <1>1, <1>12, <1>b, <2>1
<1>13. CASE Replied
  <2> USE <1>13, ReplyRequests
  <2>1. /\ UNCHANGED <<backlog, call>> /\ (spc' = "serve" => conn' = conn)
    BY DEF Replied, Reply, client
  <2>2. executed' <= call.id /\ executed' \in Nat
    BY TCPAssumption DEF RequestsNew
  <2>3. ASSUME NEW c \in DOMAIN conns, NEW i \in DOMAIN conns'[c].req
        PROVE  /\ conns'[c].req[i].id <= call.id
               /\ Readable(c)' => executed' < conns'[c].req[i].id
    <3>1. PICK x \in DOMAIN conns[c].req : /\ conns'[c].req[i] = conns[c].req[x]
                                          /\ x = IF c = conn THEN i + 1 ELSE i
      OBVIOUS
    <3>2. conns[c].req[x].id <= call.id
      BY DEF RequestsNew
    <3>3. ASSUME Readable(c)' PROVE executed' < conns'[c].req[i].id
      <4>1. CASE c = conn
        <5>1. 1 < x /\ 1 \in DOMAIN conns[c].req
          BY <3>1, <4>1
        <5> QED BY <3>1, <4>1, <5>1 DEF RequestsOrdered
      <4>2. CASE c # conn
        <5>1. \E j \in DOMAIN backlog : backlog[j] = c
          BY <2>1, <3>3, <4>2 DEF Readable
        <5>2. conn < c
          BY <5>1 DEF BacklogOrdered
        <5> QED BY <3>1, <5>2 DEF RequestsOrdered
      <4> QED BY <4>1, <4>2
    <3> QED BY <3>1, <3>2, <3>3
  <2> QED BY <2>1, <2>2, <2>3 DEF RequestsNew
<1>14. CASE ServeQuit
  <2>1. UNCHANGED call /\ DOMAIN conns' = DOMAIN conns
        /\ \A c \in DOMAIN conns : conns'[c].req = <<>>
    BY <1>14, QuitEffect DEF ServeQuit, client
  <2>2. executed' <= call.id
    <3>1. Serves("quit")
      BY <1>14 DEF ServeQuit
    <3> QED BY <3>1, ServesFacts DEF RequestsNew
  <2> QED BY <1>b, <2>1, <2>2 DEF RequestsNew
<1>15. CASE ServeGoneClient
  <2>1. UNCHANGED <<conns, executed, call, backlog>> /\ spc' # "serve"
    BY <1>15 DEF ServeGoneClient, client
  <2> QED BY <1>1, <2>1 DEF Readable
<1>16. CASE ServerStarts
  <2>1. UNCHANGED <<conns, executed, call, backlog>> /\ spc' # "serve"
    BY <1>16 DEF ServerStarts, client
  <2> QED BY <1>1, <2>1 DEF Readable
<1> QED BY <1>3, <1>4, <1>5, <1>6, <1>7, <1>8, <1>9, <1>10, <1>11, <1>12, <1>13,
           <1>14, <1>15, <1>16, NextCases DEF Called, Ended

-----------------------------------------------------------------------------
(* What a connection holds.                                                *)

LEMMA DownEmptyStep == TypeOK /\ ClientShape /\ DownEmpty /\ [Next]_vars => DownEmpty'
<1> SUFFICES ASSUME TypeOK, ClientShape, DownEmpty, [Next]_vars PROVE DownEmpty'
  OBVIOUS
<1>1. ASSUME DOMAIN conns' = DOMAIN conns,
             \A c \in DOMAIN conns :
                 \/ conns'[c].req = <<>>
                 \/ conns'[c].up = conns[c].up /\ (conns'[c].req = conns[c].req \/ conns[c].up)
      PROVE  DownEmpty'
  <2>1. ASSUME NEW c \in DOMAIN conns, ~conns'[c].up
        PROVE  conns'[c].req = <<>>
    <3>1. CASE conns'[c].req = <<>>
      BY <3>1
    <3>2. CASE /\ conns'[c].up = conns[c].up
               /\ conns'[c].req = conns[c].req \/ conns[c].up
      <4>1. ~conns[c].up
        BY <2>1, <3>2
      <4> QED BY <3>2, <4>1 DEF DownEmpty
    <3> QED BY <1>1, <3>1, <3>2
  <2> QED BY <1>1, <2>1 DEF DownEmpty
<1>2. CASE ClientEnds
  <2>1. /\ DOMAIN conns' = DOMAIN conns
        /\ \A c \in DOMAIN conns : conns'[c].up = conns[c].up /\ conns'[c].req = conns[c].req
    BY <1>2, ClientEndsEffect
  <2> QED BY <1>1, <2>1
<1>3. CASE ConnectTo
  BY <1>3, NewConnection DEF DownEmpty
<1>4. CASE Called
  <2>1. /\ DOMAIN conns' = DOMAIN conns
        /\ \A c \in DOMAIN conns : /\ conns'[c].up = conns[c].up
                                   /\ conns'[c].req = conns[c].req \/ conns[c].up
    BY <1>4, CallStep DEF Called
  <2> QED BY <1>1, <2>1
<1>5. CASE Receive
  <2>1. /\ DOMAIN conns' = DOMAIN conns
        /\ \A c \in DOMAIN conns : conns'[c].up = conns[c].up /\ conns'[c].req = conns[c].req
    BY <1>5, ReceiveEffect
  <2> QED BY <1>1, <2>1
<1>6. CASE ReceiveFails
  <2>1. /\ DOMAIN conns' = DOMAIN conns
        /\ \A c \in DOMAIN conns : conns'[c].up = conns[c].up /\ conns'[c].req = conns[c].req
    BY <1>6, ReceiveFailsStep
  <2> QED BY <1>1, <2>1
<1>7. ASSUME NEW kept \in BOOLEAN, Exits(kept)
      PROVE  DownEmpty'
  <2>1. DOMAIN conns' = DOMAIN conns /\ \A c \in DOMAIN conns : conns'[c].req = <<>>
    BY <1>7, ExitsEffect
  <2> QED BY <1>1, <2>1
<1>8. CASE Replied
  <2>1. /\ DOMAIN conns' = DOMAIN conns /\ conn \in DOMAIN conns
        /\ \A c \in DOMAIN conns : conns'[c].up = conns[c].up /\ (c # conn => conns'[c] = conns[c])
        /\ conns[conn].req # <<>>
    BY <1>8, ReplyStep DEF Replied
  <2>2. conns[conn].up
    BY <2>1 DEF DownEmpty
  <2> QED BY <1>1, <2>1, <2>2
<1>9. CASE ServeQuit
  <2>1. DOMAIN conns' = DOMAIN conns /\ \A c \in DOMAIN conns : conns'[c].req = <<>>
    BY <1>9, QuitEffect
  <2> QED BY <1>1, <2>1
<1>10. (\/ NewClient \/ (\E op \in Ops : CallTooEarly(op)) \/ WaitForClient
        \/ Pauses \/ ServeGoneClient \/ ServerStarts) => conns' = conns
  BY DEF NewClient, CallTooEarly, WaitForClient, Pauses, ServeGoneClient, ServerStarts
<1>11. conns' = conns => DownEmpty'
  BY DEF DownEmpty
<1> QED BY <1>2, <1>3, <1>4, <1>5, <1>6, <1>7, <1>8, <1>9, <1>10, <1>11, NextCases
        DEF Ended

LEMMA EmptyPipe ==
    ASSUME NEW c, conns'[c].req = <<>>, conns'[c].rep = <<>>
    PROVE  PipeOf(c)'
<1>1. Len(<<>>) = 0 /\ \A i \in DOMAIN <<>> : FALSE
  OBVIOUS
<1> QED BY <1>1 DEF PipeOf

(* A step that leaves a connection and what is said of it alone.           *)
LEMMA SamePipe ==
    ASSUME NEW c, PipeOf(c), conns'[c].req = conns[c].req, conns'[c].rep = conns[c].rep,
           UNCHANGED <<cpc, sock, call>>,
           \/ conns[c].rep = <<>>
           \/ /\ executed' = executed
              /\ conns'[c].up => conns[c].up
              /\ spc = "serve" /\ conn = c => UNCHANGED <<spc, conn, sim>>
    PROVE  PipeOf(c)'
<1>1. \A i \in DOMAIN <<>> : FALSE
  OBVIOUS
<1>2. Waits(c)' = Waits(c)
  BY DEF Waits
<1>3. CASE conns[c].rep = <<>>
  BY <1>1, <1>2, <1>3 DEF PipeOf
<1>4. CASE /\ executed' = executed
           /\ conns'[c].up => conns[c].up
           /\ spc = "serve" /\ conn = c => UNCHANGED <<spc, conn, sim>>
  BY <1>2, <1>4 DEF PipeOf
<1> QED BY <1>3, <1>4

(* While a reply waits on a clean connection there is no request to serve. *)
LEMMA NoneServed ==
    ASSUME TypeOK, RequestsNew, Pipe, NEW op, Serves(op),
           NEW c \in DOMAIN conns, conns[c].clean, conns[c].open
    PROVE  conns[c].rep = <<>>
<1> SUFFICES ASSUME conns[c].rep # <<>> PROVE FALSE
  OBVIOUS
<1>1. conns[c].rep \in Seq(Replies)
  BY Fields DEF TypeOK
<1>2. 1 \in DOMAIN conns[c].rep
  BY <1>1, TailIs
<1>3. executed = call.id
  BY <1>2 DEF Pipe, PipeOf
<1>4. /\ conn \in DOMAIN conns /\ 1 \in DOMAIN conns[conn].req /\ spc = "serve"
      /\ conns[conn].req[1].id \in 1 .. MaxCalls
  BY ServesFacts
<1>5. /\ conns[conn].req[1].id <= call.id
      /\ executed < conns[conn].req[1].id
  BY <1>4 DEF RequestsNew, Readable
<1>6. call.id \in Nat /\ MaxCalls \in Nat
  BY TCPAssumption DEF TypeOK
<1> QED BY <1>3, <1>4, <1>5, <1>6

(* A clean connection of a living client holds what Pipe says.             *)
LEMMA PipeStep ==
    TypeOK /\ ClientShape /\ RequestsNew /\ DownEmpty /\ Pipe /\ [Next]_vars => Pipe'
<1> SUFFICES ASSUME TypeOK, ClientShape, RequestsNew, DownEmpty, Pipe, [Next]_vars,
                    NEW c \in DOMAIN conns', conns'[c].clean, conns'[c].open
             PROVE  PipeOf(c)'
  BY DEF Pipe
<1>a. c \in DOMAIN conns => conns[c].req \in Seq(Requests) /\ conns[c].rep \in Seq(Replies)
  BY Fields DEF TypeOK
<1>b. c \in DOMAIN conns /\ conns[c].clean /\ conns[c].open => PipeOf(c)
  BY DEF Pipe
<1>c. ASSUME c \in DOMAIN conns, conns[c].clean, conns[c].open, cpc \notin Receiving
      PROVE  conns[c].req = <<>> /\ conns[c].rep = <<>>
  BY <1>b, <1>c DEF PipeOf, Waits
<1>1. CASE NewClient
  <2>1. conns' = conns /\ cpc \notin Receiving
    BY <1>1 DEF NewClient, Receiving
  <2> QED BY <1>c, <2>1, EmptyPipe
<1>2. CASE ClientEnds
  BY <1>2, ClientEndsEffect
<1>3. CASE ConnectTo
  <2>1. cpc \notin Receiving
    BY <1>3 DEF ConnectTo, Receiving
  <2>2. CASE c \in DOMAIN conns
    <3>1. conns'[c] = conns[c]
      BY <1>3, <2>2, NewConnection
    <3> QED BY <1>c, <2>1, <2>2, <3>1, EmptyPipe
  <2>3. CASE c \notin DOMAIN conns
    BY <1>3, <2>3, NewConnection, EmptyPipe
  <2> QED BY <2>2, <2>3
<1>4. ASSUME NEW op \in Ops, NEW k \in Tasks \cup {BadTask}, NEW dt \in {0} \cup Increments,
             Call(op, k, dt)
      PROVE  PipeOf(c)'
  <2>1. /\ cpc = "idle" /\ cpc' = Awaited(op) /\ cpc' \in Receiving
        /\ call'.op = op /\ call'.id = call.id + 1 /\ sock' = sock
        /\ c \in DOMAIN conns
        /\ conns'[c].open = conns[c].open /\ conns'[c].clean = conns[c].clean
        /\ conns'[c].rep = conns[c].rep
        /\ \/ conns'[c].req = conns[c].req
           \/ /\ c = sock
              /\ \E r \in Requests : r.id = call.id + 1 /\ r.op = op
                    /\ conns'[c].req = Append(conns[c].req, r)
    BY <1>4, CallStep
  <2>2. conns[c].req = <<>> /\ conns[c].rep = <<>>
    BY <1>c, <2>1 DEF Receiving
  <2>3. CASE conns'[c].req = conns[c].req
    BY <2>1, <2>2, <2>3, EmptyPipe
  <2>4. ASSUME c = sock, NEW r \in Requests, r.id = call.id + 1, r.op = op,
               conns'[c].req = Append(conns[c].req, r)
        PROVE  PipeOf(c)'
    <3>1. Len(conns'[c].req) = 1 /\ conns'[c].req[1] = r
      BY <2>2, <2>4
    <3>2. conns'[c].rep = <<>> /\ Len(<<>>) = 0 /\ \A i \in DOMAIN <<>> : FALSE
      BY <2>1, <2>2
    <3>3. Waits(c)'
      BY <2>1, <2>4 DEF Waits
    <3> QED BY <2>1, <2>4, <3>1, <3>2, <3>3 DEF PipeOf
  <2> QED BY <2>1, <2>3, <2>4
<1>5. ASSUME NEW op \in Ops, CallTooEarly(op)
      PROVE  PipeOf(c)'
  <2>1. UNCHANGED <<cpc, sock, call, conns, server>>
    BY <1>5 DEF CallTooEarly
  <2> QED BY <1>b, <2>1, SamePipe DEF server
<1>6. CASE Receive
  <2>1. /\ c \in DOMAIN conns /\ conns[c].clean /\ conns[c].open
        /\ c # sock => conns'[c] = conns[c]
        /\ conns'[sock].req = conns[sock].req /\ conns'[sock].up = conns[sock].up
        /\ conns'[sock].rep = Tail(conns[sock].rep) /\ conns[sock].rep # <<>>
    BY <1>6, ReceiveEffect
  <2>2. CASE c # sock
    <3>1. conns[c].req = <<>> /\ conns[c].rep = <<>>
      BY <1>b, <2>1, <2>2 DEF PipeOf, Waits
    <3> QED BY <2>1, <2>2, <3>1, EmptyPipe
  <2>3. CASE c = sock
    <3>1. conns[c].req = <<>>
      BY <1>b, <2>1, <2>3 DEF PipeOf
    <3>2. /\ Len(Tail(conns[c].rep)) = Len(conns[c].rep) - 1
          /\ Len(conns[c].rep) \in Nat
          /\ \A i \in DOMAIN Tail(conns[c].rep) :
                 i + 1 \in DOMAIN conns[c].rep /\ Tail(conns[c].rep)[i] = conns[c].rep[i + 1]
          /\ Len(conns[c].rep) = 1 => Tail(conns[c].rep) = <<>>
          /\ Len(conns[c].rep) >= 1
      BY <1>a, <2>1, <2>3, TailIs, LenProperties
    <3>3. \E good \in BOOLEAN : /\ cpc \in Receiving /\ Received(good)
                               /\ UNCHANGED <<sock, server>>
      BY <1>6, ReceiveStep
    <3>4. /\ call'.id = call.id /\ UNCHANGED <<sock, server>>
          /\ \/ /\ cpc = "receiveState" /\ call.op = "init"
                /\ cpc' = "receiveInfo"
             \/ ~(cpc = "receiveState" /\ call.op = "init")
      BY <3>3, ReceivedCases
    <3>5. CASE cpc = "receiveState" /\ call.op = "init" /\ cpc' = "receiveInfo"
      <4>1. Waits(c)' /\ conns'[c].req = <<>>
        BY <2>1, <2>3, <3>1, <3>4, <3>5 DEF Waits, Receiving
      <4>2. Len(conns'[c].rep) <= 1
        <5>1. Len(conns[c].rep) <= 2
          BY <1>b, <2>1, <3>5 DEF PipeOf
        <5>2. conns'[c].rep = Tail(conns[c].rep)
          BY <2>1, <2>3
        <5>3. /\ Len(Tail(conns[c].rep)) = Len(conns[c].rep) - 1
              /\ Len(conns[c].rep) \in Nat
          BY <3>2
        <5>4. Len(Tail(conns[c].rep)) <= 1
          BY <5>1, <5>3
        <5> QED BY <5>2, <5>4
      <4>3. ASSUME NEW i \in DOMAIN conns'[c].rep
            PROVE  /\ conns'[c].rep[i].id = call'.id
                   /\ executed' = call'.id
                   /\ conns'[c].rep[i].type = "TASKINFO" /\ conns'[c].up =>
                        spc' = "serve" /\ conn' = c /\ conns'[c].rep[i].uavs = sim'.numUAVs
        <5>1. i + 1 \in DOMAIN conns[c].rep /\ conns'[c].rep[i] = conns[c].rep[i + 1]
          BY <2>1, <2>3, <3>2
        <5>2. UNCHANGED <<executed, spc, conn, sim>>
          BY <3>4 DEF server
        <5> QED BY <1>b, <2>1, <2>3, <3>4, <5>1, <5>2 DEF PipeOf
      <4> QED BY <3>5, <4>1, <4>2, <4>3 DEF PipeOf
    <3>6. CASE ~(cpc = "receiveState" /\ call.op = "init")
      <4>1. Len(conns[c].rep) = 1
        <5>1. Len(conns[c].rep) <= 1
          BY <1>b, <2>1, <3>6 DEF PipeOf
        <5> DEFINE n == Len(conns[c].rep)
        <5>2. n \in Nat /\ n >= 1 /\ n <= 1
          BY <3>2, <5>1
        <5> HIDE DEF n
        <5>3. n = 1
          BY <5>2
        <5> QED BY <5>3 DEF n
      <4>2. conns'[c].rep = <<>> /\ conns'[c].req = <<>>
        BY <2>1, <2>3, <3>1, <3>2, <4>1
      <4> QED BY <4>2, EmptyPipe
    <3> QED BY <3>4, <3>5, <3>6
  <2> QED BY <2>2, <2>3
<1>7. CASE ReceiveFails
  <2>1. /\ c \in DOMAIN conns /\ conns[c].open
        /\ conns'[c].req = conns[c].req /\ conns'[c].rep = conns[c].rep
        /\ c # sock => conns'[c] = conns[c]
        /\ c = sock => conns[c].clean /\ (conns[c].req = <<>> \/ ~conns[c].up)
        /\ sock # 0 => conns[sock].rep = <<>>
    BY <1>7, ReceiveFailsStep
  <2>2. CASE c # sock
    <3>1. conns[c].req = <<>> /\ conns[c].rep = <<>>
      BY <1>b, <2>1, <2>2 DEF PipeOf, Waits
    <3> QED BY <2>1, <3>1, EmptyPipe
  <2>3. CASE c = sock
    <3>1. conns[c].req = <<>>
      BY <2>1, <2>3 DEF DownEmpty
    <3>2. c # 0
      BY <2>1, LenProperties DEF TypeOK
    <3> QED BY <2>1, <2>3, <3>1, <3>2, EmptyPipe
  <2> QED BY <2>2, <2>3
<1>8. CASE WaitForClient
  <2>1. spc # "serve" /\ UNCHANGED <<cpc, sock, call, conns, executed>>
    BY <1>8 DEF WaitForClient, client
  <2> QED BY <1>b, <2>1, SamePipe
<1>9. CASE Pauses
  <2>1. UNCHANGED <<cpc, sock, call, conns, executed, spc, conn, sim>>
    BY <1>9 DEF Pauses, client
  <2> QED BY <1>b, <2>1, SamePipe
<1>10. ASSUME NEW kept \in BOOLEAN, Exits(kept), UNCHANGED executed
       PROVE  PipeOf(c)'
  <2>1. /\ c \in DOMAIN conns /\ conns[c].clean /\ conns[c].open
        /\ conns'[c].up = FALSE /\ conns'[c].req = <<>>
        /\ conns'[c].rep = conns[c].rep \/ conns'[c].rep = <<>>
    BY <1>10, ExitsEffect
  <2>2. UNCHANGED <<cpc, sock, call>>
    BY <1>10 DEF Exits, client
  <2>3. CASE conns'[c].rep = <<>>
    BY <2>1, <2>3, EmptyPipe
  <2>4. CASE conns'[c].rep = conns[c].rep
    <3>1. Waits(c)' = Waits(c)
      BY <2>2 DEF Waits
    <3> QED BY <1>10, <1>b, <2>1, <2>2, <2>4, <3>1 DEF PipeOf
  <2> QED BY <2>1, <2>3, <2>4
<1>11. ASSUME NEW op \in Ops, NEW replies \in Seq(Replies), NEW one \in BOOLEAN,
              Reply(op, replies, one)
       PROVE  PipeOf(c)'
  <2>1. /\ spc = "serve" /\ conn \in DOMAIN conns /\ conns[conn].req # <<>>
        /\ Request = conns[conn].req[1] /\ Request.op = op
        /\ executed' = Request.id
        /\ c \in DOMAIN conns /\ conns[c].open
        /\ c # conn => conns'[c] = conns[c]
        /\ conns'[conn].clean = (conns[conn].clean /\ one)
        /\ conns'[conn].req = Tail(conns[conn].req)
        /\ conns[conn].open => conns'[conn].rep = conns[conn].rep \o replies
    <3>1. c \in DOMAIN conns /\ conns[c].open = conns'[c].open
      BY <1>11, ReplyStep
    <3>2. /\ spc = "serve" /\ conn \in DOMAIN conns /\ conns[conn].req # <<>>
          /\ Request = conns[conn].req[1] /\ Request.op = op
          /\ executed' = Request.id
      BY <1>11, ReplyStep
    <3>3. /\ conns'[conn].clean = (conns[conn].clean /\ one)
          /\ conns'[conn].req = Tail(conns[conn].req)
          /\ conns'[conn].rep = IF conns[conn].open THEN conns[conn].rep \o replies
                                ELSE conns[conn].rep
      BY <1>11, ReplyStep, ZenonT(30)
    <3>4. c # conn => conns'[c] = conns[c]
      BY <1>11, <3>1, ReplyStep
    <3> QED BY <3>1, <3>2, <3>3, <3>4
  <2>2. /\ Serves(op) /\ UNCHANGED <<cpc, sock, call>>
        /\ one => Len(replies) <= IF op = "init" THEN 2 ELSE 1
        /\ \A i \in DOMAIN replies :
               /\ replies[i].id = Request.id
               /\ replies[i].type = "TASKINFO" =>
                      replies[i].uavs = sim'.numUAVs /\ UNCHANGED <<spc, conn>>
    BY <1>11 DEF Reply, client
  <2>3. conns[c].clean
    BY <2>1
  <2>4. conns[c].rep = <<>>
    BY <2>1, <2>2, <2>3, NoneServed
  <2>5. CASE c # conn
    BY <1>b, <2>1, <2>2, <2>3, <2>4, <2>5, SamePipe
  <2>6. CASE c = conn
    <3>1. /\ Len(conns[c].req) = 1 /\ Request.id = call.id /\ op = call.op
          /\ cpc = Awaited(call.op) /\ Waits(c)
      BY <1>b, <2>1, <2>3, <2>6 DEF PipeOf
    <3>2. conns'[c].req = <<>> /\ Waits(c)'
      <4>1. Waits(c)' = Waits(c)
        BY <2>2 DEF Waits
      <4> QED BY <1>a, <2>1, <2>6, <3>1, <4>1, TailIs
    <3>3. conns'[c].rep = replies
      <4>1. <<>> \o replies = replies
        BY ConcatEmptySeq
      <4> QED BY <2>1, <2>4, <2>6, <4>1
    <3>4. Len(replies) <= IF cpc' = "receiveState" /\ call'.op = "init" THEN 2 ELSE 1
      BY <2>1, <2>2, <2>6, <3>1 DEF Awaited
    <3> QED BY <2>1, <2>2, <2>6, <3>1, <3>2, <3>3, <3>4 DEF PipeOf
  <2> QED BY <2>5, <2>6
<1>12. CASE ServeQuit
  <2>1. /\ c \in DOMAIN conns /\ conns[c].clean /\ conns[c].open
        /\ conns'[c].up = FALSE /\ conns'[c].req = <<>>
        /\ conns'[c].rep = IF c = conn THEN Append(conns[c].rep, Ack(Request.id, FALSE))
                           ELSE conns[c].rep
    BY <1>12, QuitEffect
  <2>2. Serves("quit") /\ UNCHANGED <<cpc, sock, call>>
    BY <1>12 DEF ServeQuit, client
  <2>3. /\ conns[conn].req # <<>> /\ Request = conns[conn].req[1] /\ executed' = Request.id
    BY <2>2, ServesFacts
  <2>4. conns[c].rep = <<>>
    BY <2>1, <2>2, NoneServed
  <2>5. CASE c # conn
    BY <2>1, <2>4, <2>5, EmptyPipe
  <2>6. CASE c = conn
    <3>1. Request.id = call.id /\ Waits(c)
      BY <1>b, <2>1, <2>3, <2>6 DEF PipeOf
    <3>2. Waits(c)'
      BY <2>2, <3>1 DEF Waits
    <3> DEFINE a == Ack(Request.id, FALSE)
    <3>3. a.id = Request.id /\ a.type = "ACK"
      BY DEF Ack
    <3>4. Append(<<>>, a) = <<a>> /\ Len(<<a>>) = 1 /\ DOMAIN <<a>> = 1 .. 1 /\ <<a>>[1] = a
      OBVIOUS
    <3>5. conns'[c].rep = <<a>>
      BY <2>1, <2>4, <2>6, <3>4
    <3> HIDE DEF a
    <3>6. /\ Len(conns'[c].rep) = 1
          /\ \A i \in DOMAIN conns'[c].rep : conns'[c].rep[i] = a
      BY <3>4, <3>5
    <3>7. call'.id = call.id /\ executed' = call.id
      BY <2>2, <2>3, <3>1
    <3>8. Len(conns'[c].rep) <= IF cpc' = "receiveState" /\ call'.op = "init" THEN 2 ELSE 1
      BY <3>6
    <3>9. \A i \in DOMAIN conns'[c].rep :
              conns'[c].rep[i].id = call'.id /\ conns'[c].rep[i].type = "ACK"
      <4>1. a.id = call.id /\ a.type = "ACK"
        BY <3>1, <3>3
      <4> QED BY <3>6, <3>7, <4>1
    <3> QED BY <2>1, <3>2, <3>7, <3>8, <3>9 DEF PipeOf
  <2> QED BY <2>5, <2>6
<1>13. CASE ServeGoneClient
  <2>1. ~conns[conn].open /\ UNCHANGED <<cpc, sock, call, conns, executed>>
    BY <1>13 DEF ServeGoneClient, client
  <2>2. conn # c
    BY <2>1
  <2> QED BY <1>b, <2>1, <2>2, SamePipe
<1>14. CASE ServerStarts
  <2>1. spc # "serve" /\ UNCHANGED <<cpc, sock, call, conns, executed>>
    BY <1>14 DEF ServerStarts, client
  <2> QED BY <1>b, <2>1, SamePipe
<1> QED BY <1>1, <1>2, <1>3, <1>4, <1>5, <1>6, <1>7, <1>8, <1>9, <1>10, <1>11, <1>12,
           <1>13, <1>14, NextCases DEF Called, Ended, Replied

-----------------------------------------------------------------------------
(* What an init leaves behind.                                             *)

(* The parameters change hands only when an init returns that was told of  *)
(* itself.                                                                 *)
LEMMA ParamsReceived ==
    ASSUME TypeOK, ClientShape, cpc \in Receiving, NEW good \in BOOLEAN, Received(good)
    PROVE  \/ /\ paramsFrom' = paramsFrom
              /\ cpc' = "idle" \/ call'.op = call.op
           \/ /\ good /\ cpc = "receiveInfo" /\ call.op = "init" /\ cpc' = "idle"
              /\ paramsFrom' = sock /\ conns'[sock].clean
<1>1. CASE cpc = "receiveState" /\ call.op = "init"
  <2>1. call'.op = call.op
    BY <1>1, ReceivedCases
  <2> QED BY <1>1, <2>1 DEF Received
<1>2. CASE ~(cpc = "receiveState" /\ call.op = "init")
  <2> DEFINE ok == good /\ call.sent /\ (cpc = "receiveInfo" => call.gotState)
  <2>1. Returns(ok) /\ (ok => good) /\ ok \in BOOLEAN
    BY <1>2 DEF Received
  <2>2. call.op = "init" => cpc = "receiveInfo"
    BY <1>2 DEF ClientShape, Awaited
  <2> HIDE DEF ok
  <2>3. cpc' = "idle" /\ paramsFrom' = IF ok /\ call.op = "init" /\ conns'[sock].clean
                                       THEN sock ELSE paramsFrom
    BY <2>1 DEF Returns
  <2> QED BY <2>1, <2>2, <2>3
<1> QED BY <1>1, <1>2

\* No request that the server can read next is an init.
NoneReadable == \A c \in DOMAIN conns' : Readable(c)' =>
                    \A i \in DOMAIN conns'[c].req : conns'[c].req[i].op # "init"

(* A client that was told the parameters has no init under way, and none   *)
(* that an earlier connection left can still be read.                      *)
LEMMA AgreedStep ==
    TypeOK /\ ClientShape /\ BacklogOrdered /\ Pipe /\ Agreed /\ [Next]_vars => Agreed'
<1> SUFFICES ASSUME TypeOK, ClientShape, BacklogOrdered, Pipe, Agreed, [Next]_vars
             PROVE  Agreed'
  OBVIOUS
<1>i. Agreed' <=>
          (paramsFrom' # 0 =>
              /\ paramsFrom' \in DOMAIN conns'
              /\ cpc' \in Receiving => call'.op # "init"
              /\ conns'[paramsFrom'].up => cliNumUAVs' = sim'.numUAVs /\ NoneReadable)
  BY DEF Agreed, NoneReadable
<1>r. \A c : Readable(c)' <=> \/ spc' = "serve" /\ c = conn'
                              \/ \E i \in DOMAIN backlog' : backlog'[i] = c
  BY DEF Readable
<1>k. "idle" \notin Receiving /\ "down" \notin Receiving
  BY DEF Receiving
<1>a. ASSUME paramsFrom' = paramsFrom, paramsFrom # 0 => paramsFrom \in DOMAIN conns',
             cpc' \in Receiving => cpc \in Receiving /\ call'.op = call.op,
             paramsFrom # 0 /\ conns'[paramsFrom].up =>
                 /\ conns[paramsFrom].up
                 /\ UNCHANGED cliNumUAVs /\ sim'.numUAVs = sim.numUAVs
                 /\ \A c \in DOMAIN conns' : Readable(c)' =>
                        \/ conns'[c].req = <<>>
                        \/ /\ c \in DOMAIN conns /\ Readable(c)
                           /\ \A i \in DOMAIN conns'[c].req :
                                  \E j \in DOMAIN conns[c].req :
                                      conns'[c].req[i] = conns[c].req[j]
      PROVE  Agreed'
  <2> SUFFICES ASSUME paramsFrom # 0
               PROVE  /\ paramsFrom' \in DOMAIN conns'
                      /\ cpc' \in Receiving => call'.op # "init"
                      /\ conns'[paramsFrom'].up => cliNumUAVs' = sim'.numUAVs /\ NoneReadable
    BY <1>a, <1>i
  <2>1. DOMAIN <<>> = {}
    OBVIOUS
  <2>2. ASSUME conns'[paramsFrom].up PROVE cliNumUAVs' = sim'.numUAVs /\ NoneReadable
    <3>1. /\ cliNumUAVs = sim.numUAVs
          /\ \A c \in DOMAIN conns : Readable(c) =>
                 \A i \in DOMAIN conns[c].req : conns[c].req[i].op # "init"
      BY <1>a, <2>2 DEF Agreed
    <3>2. NoneReadable
      BY <1>a, <2>1, <2>2, <3>1 DEF NoneReadable
    <3> QED BY <1>a, <2>2, <3>1, <3>2
  <2>3. cpc' \in Receiving => call'.op # "init"
    BY <1>a DEF Agreed
  <2> QED BY <1>a, <2>2, <2>3
<1>b. ASSUME paramsFrom' = 0 PROVE Agreed'
  BY <1>b, <1>i
<1>c. ASSUME UNCHANGED <<client, conns>>, sim'.numUAVs = sim.numUAVs,
             \A c \in DOMAIN conns : Readable(c)' => Readable(c)
      PROVE  Agreed'
  <2>1. paramsFrom' = paramsFrom /\ cpc' = cpc /\ call' = call /\ cliNumUAVs' = cliNumUAVs
    BY <1>c DEF client
  <2>2. paramsFrom # 0 => paramsFrom \in DOMAIN conns'
    BY <1>c DEF Agreed
  <2> QED BY <1>a, <1>c, <2>1, <2>2
<1>d. ASSUME UNCHANGED client, DOMAIN conns' = DOMAIN conns,
             \A c \in DOMAIN conns : conns'[c].up = FALSE
      PROVE  Agreed'
  <2>1. paramsFrom' = paramsFrom /\ cpc' = cpc /\ call' = call
    BY <1>d DEF client
  <2> QED BY <1>d, <1>i, <2>1 DEF Agreed
<1>1. CASE NewClient
  <2>1. /\ UNCHANGED <<paramsFrom, conns, backlog, spc, conn, sim, cliNumUAVs>>
        /\ cpc' = "idle"
    BY <1>1 DEF NewClient, server
  <2>2. \A c : Readable(c)' <=> Readable(c)
    BY <2>1, <1>r DEF Readable
  <2>3. paramsFrom # 0 => paramsFrom \in DOMAIN conns'
    BY <2>1 DEF Agreed
  <2> QED BY <1>a, <1>k, <2>1, <2>2, <2>3
<1>2. CASE ClientEnds
  BY <1>2, <1>b DEF ClientEnds
<1>3. CASE ConnectTo
  <2>1. UNCHANGED <<paramsFrom, spc, conn, sim, cliNumUAVs, cpc>> /\ cpc = "idle"
    BY <1>3 DEF ConnectTo, server
  <2>2. /\ DOMAIN conns \subseteq DOMAIN conns'
        /\ \A c \in DOMAIN conns : conns'[c] = conns[c]
        /\ \A c \in DOMAIN conns' : c \notin DOMAIN conns => conns'[c].req = <<>>
    BY <1>3, NewConnection
  <2>3. ASSUME NEW c \in DOMAIN conns, Readable(c)' PROVE Readable(c)
    <3>1. CASE spc = "down"
      BY <1>3, <1>r, <2>1, <2>3, <3>1 DEF ConnectTo, Readable
    <3>2. CASE spc # "down"
      <4>1. /\ backlog' = Append(backlog, sock') /\ sock' = Len(conns) + 1
            /\ DOMAIN conns = 1 .. Len(conns) /\ Len(conns) \in Nat
            /\ backlog \in Seq(1 .. Len(conns))
        BY <1>3, <3>2, ConnectEffect, LenProperties DEF ConnectTo, TypeOK
      <4>2. c # sock'
        BY <2>3, <4>1
      <4>3. \A i \in DOMAIN backlog' : \/ backlog'[i] = sock'
                                       \/ i \in DOMAIN backlog /\ backlog'[i] = backlog[i]
        <5>1. /\ backlog \in Seq(Nat) /\ sock' \in Nat
          <6>1. 1 .. Len(conns) \subseteq Nat
            BY <4>1
          <6> QED BY <4>1, <6>1, SeqMonotonic
        <5> QED BY <4>1, <5>1, AppendIs
      <4> QED BY <1>r, <2>1, <2>3, <4>2, <4>3 DEF Readable
    <3> QED BY <3>1, <3>2
  <2>4. paramsFrom # 0 => paramsFrom \in DOMAIN conns
    BY DEF Agreed
  <2> QED BY <1>a, <1>k, <2>1, <2>2, <2>3, <2>4
<1>4. ASSUME NEW op \in Ops, NEW k \in Tasks \cup {BadTask}, NEW dt \in {0} \cup Increments,
             Call(op, k, dt)
      PROVE  Agreed'
  <2>1. CASE op = "init"
    BY <1>4, <1>b, <2>1, CallStep
  <2>2. CASE op # "init"
    <3>1. /\ call'.op = op /\ paramsFrom' = paramsFrom
          /\ UNCHANGED <<cliNumUAVs, backlog, server>>
          /\ DOMAIN conns' = DOMAIN conns
          /\ \A c \in DOMAIN conns : conns'[c].up = conns[c].up
      BY <1>4, <2>2, CallStep
    <3>2. UNCHANGED <<spc, conn, sim>>
      BY <3>1 DEF server
    <3>3. \A c : Readable(c)' <=> Readable(c)
      BY <1>r, <3>1, <3>2 DEF Readable
    <3>4. ASSUME NEW c \in DOMAIN conns, NEW i \in DOMAIN conns'[c].req,
                 \A j \in DOMAIN conns[c].req : conns[c].req[j].op # "init"
          PROVE  conns'[c].req[i].op # "init"
      <4>1. CASE conns'[c].req = conns[c].req
        BY <3>4, <4>1
      <4>2. CASE conns'[c].req # conns[c].req
        <5>1. PICK r \in Requests : r.op = op /\ conns'[c].req = Append(conns[c].req, r)
          BY <1>4, <4>2, CallStep
        <5>2. conns[c].req \in Seq(Requests)
          BY Fields DEF TypeOK
        <5>3. conns'[c].req[i] = r \/ (i \in DOMAIN conns[c].req
                                           /\ conns'[c].req[i] = conns[c].req[i])
          BY <5>1, <5>2, AppendIs
        <5> QED BY <2>2, <3>4, <5>1, <5>3
      <4> QED BY <4>1, <4>2
    <3> QED BY <1>i, <2>2, <3>1, <3>2, <3>3, <3>4 DEF Agreed, NoneReadable
  <2> QED BY <2>1, <2>2
<1>5. ASSUME NEW op \in Ops, CallTooEarly(op)
      PROVE  Agreed'
  <2>1. /\ UNCHANGED <<paramsFrom, conns, backlog, spc, conn, sim, cliNumUAVs, cpc, call>>
    BY <1>5 DEF CallTooEarly, server
  <2>2. \A c : Readable(c)' <=> Readable(c)
    BY <2>1, <1>r DEF Readable
  <2>3. paramsFrom # 0 => paramsFrom \in DOMAIN conns'
    BY <2>1 DEF Agreed
  <2> QED BY <1>a, <2>1, <2>2, <2>3
<1>e. ASSUME cpc \in Receiving, NEW good \in BOOLEAN, Received(good),
             paramsFrom' = paramsFrom,
             cpc # "receiveInfo" => cliNumUAVs' = cliNumUAVs,
             UNCHANGED <<backlog, server>>, DOMAIN conns' = DOMAIN conns,
             \A c \in DOMAIN conns : /\ conns'[c].up = conns[c].up
                                     /\ conns'[c].req = conns[c].req
      PROVE  Agreed'
  <2>1. UNCHANGED <<spc, conn, sim>>
    BY <1>e DEF server
  <2>2. \A c : Readable(c)' <=> Readable(c)
    BY <1>e, <1>r, <2>1 DEF Readable
  <2>3. CASE paramsFrom = 0
    BY <1>b, <1>e, <2>3
  <2>4. CASE paramsFrom # 0
    <3>1. call.op # "init" /\ paramsFrom \in DOMAIN conns
      BY <1>e, <2>4 DEF Agreed
    <3>2. cpc # "receiveInfo"
      BY <1>e, <3>1 DEF ClientShape, Awaited
    <3>3. cpc' = "idle"
      BY <1>e, <3>1, ReceivedCases
    <3> QED BY <1>a, <1>e, <1>k, <2>1, <2>2, <3>1, <3>2, <3>3
  <2> QED BY <2>3, <2>4
<1>6. CASE Receive
  <2> DEFINE m == conns[sock].rep[1]
             good == Expected(m)
  <2>1. /\ cpc \in Receiving /\ Received(good) /\ good \in BOOLEAN
        /\ 1 \in DOMAIN conns[sock].rep
        /\ cpc # "receiveInfo" => cliNumUAVs' = cliNumUAVs
        /\ cpc = "receiveInfo" /\ good => cliNumUAVs' = m.uavs
        /\ UNCHANGED <<sock, backlog, server>>
    BY <1>6, ReceiveStep
  <2>2. /\ sock \in DOMAIN conns /\ conns[sock].rep # <<>> /\ DOMAIN conns' = DOMAIN conns
        /\ \A c \in DOMAIN conns : /\ conns'[c].up = conns[c].up
                                   /\ conns'[c].req = conns[c].req
                                   /\ conns'[c].clean = conns[c].clean
    BY <1>6, ReceiveEffect
  <2>3. cpc = "receiveInfo" /\ good => m.type = "TASKINFO"
    BY DEF Expected
  <2> HIDE DEF m, good
  <2>4. CASE paramsFrom' = paramsFrom
    BY <1>e, <2>1, <2>2, <2>4
  <2>5. CASE paramsFrom' # paramsFrom
    <3>1. /\ good /\ cpc = "receiveInfo" /\ call.op = "init" /\ cpc' = "idle"
          /\ paramsFrom' = sock /\ conns'[sock].clean
      BY <2>1, <2>5, ParamsReceived
    <3>2. /\ conns[sock].clean /\ m.type = "TASKINFO" /\ cliNumUAVs' = m.uavs
          /\ sock = Len(conns) /\ conns[sock].open
      <4>1. sock # 0
        BY <2>2, LenProperties DEF TypeOK
      <4> QED BY <2>1, <2>2, <2>3, <3>1, <4>1 DEF ClientShape
    <3>3. ASSUME conns[sock].up
          PROVE  /\ spc = "serve" /\ conn = sock /\ m.uavs = sim.numUAVs
                 /\ conns[sock].req = <<>>
      BY <2>1, <2>2, <3>2, <3>3 DEF Pipe, PipeOf, m
    <3>4. UNCHANGED <<spc, conn, sim>>
      BY <2>1 DEF server
    <3>5. ASSUME conns[sock].up PROVE NoneReadable
      <4>1. Len(conns) \in Nat /\ backlog \in Seq(1 .. Len(conns))
        BY LenProperties DEF TypeOK
      <4>2. \A i \in DOMAIN backlog : backlog[i] \in 1 .. Len(conns)
        BY <4>1, LenProperties, ElementOfSeq
      <4>3. \A i \in DOMAIN backlog : conn < backlog[i]
        BY <3>3, <3>5 DEF BacklogOrdered
      <4>4. \A i \in DOMAIN backlog : FALSE
        BY <3>2, <3>3, <3>5, <4>1, <4>2, <4>3
      <4>5. \A c : Readable(c)' => c = sock
        BY <1>r, <2>1, <3>3, <3>4, <3>5, <4>4
      <4>6. conns'[sock].req = <<>> /\ DOMAIN <<>> = {}
        BY <2>2, <3>3, <3>5
      <4> QED BY <4>5, <4>6 DEF NoneReadable
    <3> QED BY <1>i, <1>k, <2>2, <3>1, <3>2, <3>3, <3>4, <3>5
  <2> QED BY <2>4, <2>5
<1>7. CASE ReceiveFails
  <2>1. /\ cpc \in Receiving /\ Received(FALSE) /\ UNCHANGED <<backlog, server>>
        /\ DOMAIN conns' = DOMAIN conns
        /\ \A c \in DOMAIN conns : conns'[c].up = conns[c].up /\ conns'[c].req = conns[c].req
    BY <1>7, ReceiveFailsStep
  <2>2. cpc # "receiveInfo" => cliNumUAVs' = cliNumUAVs
    BY <1>7 DEF ReceiveFails
  <2>3. paramsFrom' = paramsFrom
    BY <2>1, ParamsReceived
  <2> QED BY <1>e, <2>1, <2>2, <2>3
<1>8. CASE WaitForClient
  <2>1. /\ UNCHANGED <<client, conns, sim>> /\ conn' = Head(backlog) /\ backlog' = Tail(backlog)
        /\ backlog # <<>>
    BY <1>8 DEF WaitForClient
  <2>2. backlog \in Seq(1 .. Len(conns))
    BY DEF TypeOK
  <2>3. /\ Head(backlog) = backlog[1] /\ 1 \in DOMAIN backlog
        /\ \A i \in DOMAIN Tail(backlog) : i + 1 \in DOMAIN backlog
                                           /\ Tail(backlog)[i] = backlog[i + 1]
    BY <2>1, <2>2, TailIs
  <2>4. \A c : Readable(c)' => Readable(c)
    BY <1>r, <2>1, <2>3 DEF Readable
  <2> QED BY <1>c, <2>1, <2>4
<1>9. CASE Pauses
  <2>1. UNCHANGED <<client, conns, backlog, spc, conn, sim>>
    BY <1>9 DEF Pauses
  <2> QED BY <1>c, <1>r, <2>1 DEF Readable
<1>10. ASSUME NEW kept \in BOOLEAN, Exits(kept)
       PROVE  Agreed'
  <2>1. UNCHANGED client
    BY <1>10 DEF Exits
  <2> QED BY <1>d, <1>10, <2>1, ExitsEffect
<1>11. ASSUME NEW op \in Ops, NEW replies \in Seq(Replies), NEW one \in BOOLEAN,
              Reply(op, replies, one)
       PROVE  Agreed'
  <2>1. /\ UNCHANGED <<client, backlog>>
        /\ UNCHANGED <<spc, conn>> \/ spc' = "accept"
        /\ op # "init" => sim'.numUAVs = sim.numUAVs
    BY <1>11 DEF Reply
  <2>2. /\ spc = "serve" /\ conn \in DOMAIN conns /\ 1 \in DOMAIN conns[conn].req
        /\ conns[conn].req[1].op = op /\ conns[conn].req # <<>>
        /\ DOMAIN conns' = DOMAIN conns
        /\ \A d \in DOMAIN conns : /\ conns'[d].up = conns[d].up
                                   /\ d # conn => conns'[d] = conns[d]
        /\ conns'[conn].req = Tail(conns[conn].req)
    BY <1>11, ReplyStep
  <2>3. paramsFrom' = paramsFrom /\ cpc' = cpc /\ call' = call /\ cliNumUAVs' = cliNumUAVs
    BY <2>1 DEF client
  <2>4. \A c : Readable(c)' => Readable(c)
    BY <1>r, <2>1, <2>2 DEF Readable
  <2>5. \A c \in DOMAIN conns : \A i \in DOMAIN conns'[c].req :
            \E j \in DOMAIN conns[c].req : conns'[c].req[i] = conns[c].req[j]
    <3>1. conns[conn].req \in Seq(Requests)
      BY <2>2, Fields DEF TypeOK
    <3>2. \A i \in DOMAIN Tail(conns[conn].req) :
              /\ i + 1 \in DOMAIN conns[conn].req
              /\ Tail(conns[conn].req)[i] = conns[conn].req[i + 1]
      BY <2>2, <3>1, TailIs
    <3>3. \A i \in DOMAIN conns'[conn].req :
              \E j \in DOMAIN conns[conn].req : conns'[conn].req[i] = conns[conn].req[j]
      BY <2>2, <3>2
    <3>4. \A c \in DOMAIN conns : c # conn => conns'[c].req = conns[c].req
      BY <2>2
    <3>5. ASSUME NEW c \in DOMAIN conns, NEW i \in DOMAIN conns'[c].req
          PROVE  \E j \in DOMAIN conns[c].req : conns'[c].req[i] = conns[c].req[j]
      <4>1. CASE c = conn
        BY <3>3, <3>5, <4>1
      <4>2. CASE c # conn
        BY <3>4, <3>5, <4>2
      <4> QED BY <4>1, <4>2
    <3> QED BY <3>5
  <2>6. paramsFrom # 0 => paramsFrom \in DOMAIN conns
    BY DEF Agreed
  <2>7. paramsFrom # 0 /\ conns[paramsFrom].up => op # "init"
    <3>1. Readable(conn)
      BY <2>2 DEF Readable
    <3> QED BY <2>2, <3>1 DEF Agreed
  <2> QED BY <1>a, <2>1, <2>2, <2>3, <2>4, <2>5, <2>6, <2>7
<1>12. CASE ServeQuit
  <2>1. UNCHANGED client
    BY <1>12 DEF ServeQuit
  <2> QED BY <1>d, <1>12, <2>1, QuitEffect
<1>13. CASE ServeGoneClient
  <2>1. /\ UNCHANGED <<client, conns, backlog, sim>> /\ spc = "serve"
        /\ spc' \in {"accept", "stuck"}
    BY <1>13 DEF ServeGoneClient
  <2>2. \A c : Readable(c)' => Readable(c)
    BY <1>r, <2>1 DEF Readable
  <2> QED BY <1>c, <2>1, <2>2
<1>14. CASE ServerStarts
  <2>1. UNCHANGED <<client, conns, backlog, sim>> /\ spc' = "accept"
    BY <1>14 DEF ServerStarts
  <2>2. \A c : Readable(c)' => Readable(c)
    BY <1>r, <2>1 DEF Readable
  <2> QED BY <1>c, <2>1, <2>2
<1> QED BY <1>1, <1>2, <1>3, <1>4, <1>5, <1>6, <1>7, <1>8, <1>9, <1>10, <1>11, <1>12,
           <1>13, <1>14, NextCases DEF Called, Ended, Replied

-----------------------------------------------------------------------------
(* The invariant, and what follows from it.                                *)

LEMMA IInvInit == Init => IInv
<1> SUFFICES ASSUME Init PROVE IInv
  OBVIOUS
<1>1. /\ conns = <<>> /\ backlog = <<>> /\ sock = 0 /\ cpc = "down" /\ spc = "accept"
      /\ paramsFrom = 0
      /\ initialized = FALSE /\ ret.ok = FALSE /\ executed = 0 /\ call.id = 0
  BY DEF Init, CInit, SInit, NoRet, NoCall
<1>2. \A i \in DOMAIN <<>> : FALSE
  OBVIOUS
<1>3. ClientShape /\ Loaded
  BY <1>1, <1>2 DEF ClientShape, Loaded, Receiving
<1>4. BacklogOrdered /\ RequestsOrdered /\ RequestsNew
  BY <1>1, <1>2 DEF BacklogOrdered, RequestsOrdered, RequestsNew
<1>5. DownEmpty /\ Pipe /\ Agreed
  BY <1>1, <1>2 DEF DownEmpty, Pipe, Agreed
<1> QED BY <1>3, <1>4, <1>5, TypeInit DEF IInv

LEMMA IInvStep == IInv /\ [Next]_vars => IInv'
BY TypeStep, ShapeStep, LoadedStep, BacklogStep, RequestsOrderedStep, RequestsNewStep,
   DownEmptyStep, PipeStep, AgreedStep DEF IInv

(* The four layers together are an invariant of the specification.         *)
THEOREM Inductive == Spec => []IInv
BY IInvInit, IInvStep, PTL DEF Spec

(* Between two calls a clean connection is empty, and during a call it     *)
(* holds the request or the replies of that call only, however many        *)
(* connections, clients and server processes there were before.            *)
THEOREM CleanPipeHolds == Spec => []CleanPipe
<1>1. IInv => CleanPipe
  <2> SUFFICES ASSUME IInv, NEW c \in DOMAIN conns, conns[c].clean, conns[c].open
               PROVE  /\ ~Waits(c) => Held(c) = {}
                      /\ \A m \in Held(c) : m.id = call.id
                      /\ Len(conns[c].req) <= 1 /\ (conns[c].req # <<>> => conns[c].rep = <<>>)
    BY DEF CleanPipe
  <2>1. PipeOf(c) /\ conns[c].req \in Seq(Requests)
    BY Fields DEF IInv, Pipe, TypeOK
  <2>2. (\A i \in DOMAIN <<>> : FALSE) /\ Len(<<>>) = 0
    OBVIOUS
  <2>3. ~Waits(c) => Held(c) = {}
    BY <2>1, <2>2 DEF PipeOf, Held
  <2>4. Len(conns[c].req) <= 1 /\ (conns[c].req # <<>> => conns[c].rep = <<>>)
    <3>1. CASE conns[c].req = <<>>
      BY <2>2, <3>1
    <3>2. CASE conns[c].req # <<>>
      <4>1. Len(conns[c].req) = 1 /\ conns[c].rep = <<>>
        BY <2>1, <3>2 DEF PipeOf
      <4> QED BY <4>1
    <3> QED BY <3>1, <3>2
  <2>5. \A i \in DOMAIN conns[c].req : conns[c].req[i].id = call.id
    <3>1. CASE conns[c].req = <<>>
      BY <2>2, <3>1
    <3>2. CASE conns[c].req # <<>>
      <4>1. Len(conns[c].req) = 1 /\ conns[c].req[1].id = call.id
        BY <2>1, <3>2 DEF PipeOf
      <4>2. DOMAIN conns[c].req = 1 .. Len(conns[c].req)
        BY <2>1, LenProperties
      <4> QED BY <4>1, <4>2
    <3> QED BY <3>1, <3>2
  <2>6. \A m \in Held(c) : m.id = call.id
    BY <2>1, <2>5 DEF PipeOf, Held
  <2> QED BY <2>3, <2>4, <2>6
<1> QED BY <1>1, Inductive, PTL

(* A client that may step talks to a server with a simulator, as long as   *)
(* the server is the process that was started first.                       *)
THEOREM InitializedMeansLoadedHolds == Spec => []InitializedMeansLoaded
<1>1. IInv => InitializedMeansLoaded
  BY DEF IInv, Loaded, InitializedMeansLoaded
<1> QED BY <1>1, Inductive, PTL

(* Once an init was told of itself, client and server agree on the number  *)
(* of UAVs through every later call, reply and reconnection, until the     *)
(* client calls init again or the server process ends.                     *)
THEOREM ParamsAgreeHolds == Spec => []ParamsAgree
<1>1. IInv => ParamsAgree
  BY DEF IInv, Agreed, ParamsAgree
<1> QED BY <1>1, Inductive, PTL

-----------------------------------------------------------------------------
(* A step that said so took place.                                         *)

AdvancedBefore == advanced.id <= executed

\* A state that answers the step the client waits for comes after its loop.
StatesTrue ==
    call.op = "step" => \A c \in DOMAIN conns : conns[c].clean /\ conns[c].open =>
        \A i \in DOMAIN conns[c].rep :
            conns[c].rep[i].type = "STATE" => advanced.id >= call.id

CleanStepsTrue == ret.clean => StepTrueMeansStepped

LEMMA RequestIsNew ==
    ASSUME TypeOK, RequestsNew, NEW op, Serves(op)
    PROVE  executed < Request.id
BY ServesFacts DEF RequestsNew, Readable

\* Steps are simulated in the order of their requests.
LEMMA AdvancesOn ==
    TypeOK /\ RequestsNew /\ AdvancedBefore /\ [Next]_vars =>
        AdvancedBefore' /\ advanced.id <= advanced'.id
<1> SUFFICES ASSUME TypeOK, RequestsNew, AdvancedBefore, [Next]_vars
             PROVE  AdvancedBefore' /\ advanced.id <= advanced'.id
  OBVIOUS
<1>1. advanced.id \in Nat /\ executed \in Nat /\ advanced.id <= executed
  BY TCPAssumption DEF TypeOK, AdvancedBefore
<1>2. ASSUME NEW op, Serves(op), UNCHANGED advanced \/ advanced'.id = Request.id
      PROVE  AdvancedBefore' /\ advanced.id <= advanced'.id
  <2>1. executed < Request.id /\ executed' = Request.id /\ Request.id \in Nat
    BY <1>2, RequestIsNew, ServesFacts
  <2>2. advanced'.id = advanced.id \/ advanced'.id = Request.id
    BY <1>2
  <2> QED BY <1>1, <2>1, <2>2 DEF AdvancedBefore
<1>3. CASE Replied
  <2>1. PICK op \in Ops, replies \in Seq(Replies), one \in BOOLEAN : Reply(op, replies, one)
    BY <1>3 DEF Replied
  <2> QED BY <1>2, <2>1 DEF Reply, Advance
<1>4. CASE ServeQuit
  BY <1>2, <1>4 DEF ServeQuit
<1>5. CASE UNCHANGED <<executed, advanced>>
  BY <1>1, <1>5 DEF AdvancedBefore
<1>6. UNCHANGED server => UNCHANGED <<executed, advanced>>
  BY DEF server
<1>7. CASE \/ NewClient \/ ClientEnds \/ ConnectTo \/ Called
           \/ (\E op \in Ops : CallTooEarly(op)) \/ Receive \/ ReceiveFails
  <2>1. UNCHANGED server
    BY <1>7 DEF NewClient, ClientEnds, ConnectTo, Called, Call, CallTooEarly, Receive,
                ReceiveFails
  <2> QED BY <1>5, <1>6, <2>1
<1>8. CASE WaitForClient \/ Pauses \/ Ended \/ ServeGoneClient \/ ServerStarts
  <2>1. UNCHANGED <<executed, advanced>>
    BY <1>8 DEF WaitForClient, Pauses, Ended, Exits, ServeGoneClient, ServerStarts
  <2> QED BY <1>5, <2>1
<1> QED BY <1>3, <1>4, <1>7, <1>8, NextCases

\* Where all that a connection holds was there before, or the client makes no step.
LEMMA StatesStay ==
    ASSUME TypeOK, StatesTrue, advanced.id <= advanced'.id, advanced'.id \in Nat,
           call'.op = "step" => call'.op = call.op /\ call'.id = call.id,
           \A c \in DOMAIN conns' :
               conns'[c].clean /\ conns'[c].open =>
                   \/ conns'[c].rep = <<>>
                   \/ /\ c \in DOMAIN conns /\ conns[c].clean /\ conns[c].open
                      /\ \A i \in DOMAIN conns'[c].rep :
                             \E j \in DOMAIN conns[c].rep : conns'[c].rep[i] = conns[c].rep[j]
    PROVE  StatesTrue'
<1> SUFFICES ASSUME call'.op = "step", NEW c \in DOMAIN conns',
                    conns'[c].clean, conns'[c].open,
                    NEW i \in DOMAIN conns'[c].rep, conns'[c].rep[i].type = "STATE"
             PROVE  advanced'.id >= call'.id
  BY DEF StatesTrue
<1>1. conns'[c].rep # <<>>
  OBVIOUS
<1>2. /\ c \in DOMAIN conns /\ conns[c].clean /\ conns[c].open
      /\ \E j \in DOMAIN conns[c].rep : conns'[c].rep[i] = conns[c].rep[j]
  BY <1>1
<1>3. advanced.id >= call.id
  BY <1>2 DEF StatesTrue
<1>4. advanced.id \in Nat /\ call.id \in Nat /\ call'.id = call.id
  BY TCPAssumption DEF TypeOK
<1> QED BY <1>3, <1>4

LEMMA ReceivedForgets ==
    ASSUME TypeOK, NEW good, Received(good)
    PROVE  call'.op = "init"
<1>1. call \in [op : Ops, id : 0 .. MaxCalls, sent : BOOLEAN, gotState : BOOLEAN]
  BY DEF TypeOK
<1>2. NoCall.op = "init" /\ [NoCall EXCEPT !.id = call.id].op = "init"
  BY DEF NoCall
<1>3. CASE cpc = "receiveState" /\ call.op = "init"
  BY <1>1, <1>3 DEF Received
<1>4. CASE ~(cpc = "receiveState" /\ call.op = "init")
  BY <1>2, <1>4 DEF Received, Returns
<1> QED BY <1>3, <1>4

LEMMA StatesTrueStep ==
    ASSUME TypeOK, ClientShape, RequestsNew, Pipe, AdvancedBefore, StatesTrue, [Next]_vars
    PROVE  StatesTrue'
<1>1. advanced.id <= advanced'.id
  BY AdvancesOn
<1>2. advanced'.id \in Nat
  <2>1. advanced'.id \in 0 .. MaxCalls
    BY TypeStep DEF TypeOK
  <2> QED BY <2>1, TCPAssumption
<1>3. ASSUME call'.op # "step" PROVE StatesTrue'
  BY <1>3 DEF StatesTrue
<1>4. ASSUME UNCHANGED <<call, conns>> PROVE StatesTrue'
  BY <1>1, <1>2, <1>4, StatesStay
<1>5. CASE ClientEnds
  <2>1. call'.op = "init"
    BY <1>5 DEF ClientEnds, NoCall
  <2> QED BY <1>3, <2>1
<1>6. CASE ConnectTo
  <2>1. call' = call
    BY <1>6 DEF ConnectTo
  <2>2. ASSUME NEW c \in DOMAIN conns'
        PROVE  \/ conns'[c].rep = <<>>
               \/ c \in DOMAIN conns /\ conns'[c] = conns[c]
    BY <1>6, NewConnection
  <2> QED BY <1>1, <1>2, <2>1, <2>2, StatesStay
<1>7. CASE Called
  <2>1. PICK op \in Ops, k \in Tasks \cup {BadTask}, dt \in {0} \cup Increments :
            Call(op, k, dt)
    BY <1>7 DEF Called
  <2>2. /\ cpc = "idle" /\ DOMAIN conns' = DOMAIN conns
        /\ \A c \in DOMAIN conns :
               /\ conns'[c].open = conns[c].open /\ conns'[c].clean = conns[c].clean
               /\ conns'[c].rep = conns[c].rep
    BY <2>1, CallStep
  <2>3. \A c \in DOMAIN conns : conns[c].clean /\ conns[c].open => conns[c].rep = <<>>
    BY <2>2 DEF Pipe, PipeOf, Waits, Receiving
  <2> QED BY <2>2, <2>3 DEF StatesTrue
<1>8. CASE Receive
  <2>1. call'.op = "init"
    BY <1>8, ReceiveStep, ReceivedForgets
  <2> QED BY <1>3, <2>1
<1>9. CASE ReceiveFails
  <2>1. call'.op = "init"
    BY <1>9, ReceiveFailsStep, ReceivedForgets
  <2> QED BY <1>3, <2>1
<1>10. CASE Ended
  <2>1. PICK kept \in BOOLEAN : Exits(kept)
    BY <1>10 DEF Ended
  <2>2. call' = call
    BY <2>1 DEF Exits, client
  <2>3. /\ DOMAIN conns' = DOMAIN conns
        /\ \A c \in DOMAIN conns :
               /\ conns'[c].open = conns[c].open /\ conns'[c].clean = conns[c].clean
               /\ conns'[c].rep = conns[c].rep \/ conns'[c].rep = <<>>
    BY <2>1, ExitsEffect
  <2> QED BY <1>1, <1>2, <2>2, <2>3, StatesStay
<1>11. CASE Replied
  <2>1. PICK op \in Ops, replies \in Seq(Replies), one \in BOOLEAN : Reply(op, replies, one)
    BY <1>11 DEF Replied
  <2>2. Serves(op) /\ call' = call /\ Advance(op, replies, one)
    BY <2>1 DEF Reply, client
  <2> SUFFICES ASSUME call.op = "step", NEW c \in DOMAIN conns',
                      conns'[c].clean, conns'[c].open,
                      NEW i \in DOMAIN conns'[c].rep, conns'[c].rep[i].type = "STATE"
               PROVE  advanced'.id >= call.id
    BY <2>2 DEF StatesTrue
  <2>3. /\ c \in DOMAIN conns /\ conns[c].open = conns'[c].open
        /\ c # conn => conns'[c] = conns[c]
        /\ conns'[conn].clean = (conns[conn].clean /\ one)
        /\ conns[conn].req # <<>> /\ Request = conns[conn].req[1] /\ Request.op = op
    <3>1. c \in DOMAIN conns /\ conns[c].open = conns'[c].open
      BY <2>1, ReplyElsewhere
    <3>2. c # conn => conns'[c] = conns[c]
      BY <2>1, <3>1, ReplyElsewhere
    <3>3. /\ conns'[conn].clean = (conns[conn].clean /\ one)
          /\ conns[conn].req # <<>> /\ Request = conns[conn].req[1] /\ Request.op = op
      BY <2>1, ReplyOf
    <3> QED BY <3>1, <3>2, <3>3
  <2>4. conns[c].clean /\ conns[c].open
    BY <2>3
  <2>5. conns[c].rep = <<>>
    BY <2>2, <2>3, <2>4, NoneServed
  <2>6. c = conn
    BY <2>3, <2>5
  <2>7. one
    BY <2>3, <2>6
  <2>8. Request.id = call.id /\ op = call.op
    BY <2>3, <2>4, <2>6 DEF Pipe, PipeOf
  <2>9. \E j \in DOMAIN replies : conns'[c].rep[i] = replies[j]
    <3>1. \A d \in DOMAIN conns'[conn].rep :
             \/ d \in DOMAIN conns[conn].rep /\ conns'[conn].rep[d] = conns[conn].rep[d]
             \/ \E j \in DOMAIN replies : conns'[conn].rep[d] = replies[j]
      BY <2>1, ReplyAppends
    <3>2. i \notin DOMAIN conns[c].rep
      BY <2>5
    <3> QED BY <2>6, <3>1, <3>2
  <2>10. advanced'.id = call.id
    BY <2>2, <2>7, <2>8, <2>9 DEF Advance
  <2> QED BY <1>2, <2>10
<1>12. CASE ServeQuit
  <2>1. Serves("quit") /\ call' = call
    BY <1>12 DEF ServeQuit, client
  <2>2. /\ DOMAIN conns' = DOMAIN conns
        /\ \A c \in DOMAIN conns :
               /\ conns'[c].open = conns[c].open /\ conns'[c].clean = conns[c].clean
               /\ conns'[c].rep = IF c = conn /\ conns[c].open
                                  THEN Append(conns[c].rep, Ack(Request.id, FALSE))
                                  ELSE conns[c].rep
    BY <1>12, QuitEffect
  <2>3. \A c \in DOMAIN conns : conns[c].clean /\ conns[c].open => conns[c].rep = <<>>
    BY <2>1, NoneServed
  <2>4. Append(<<>>, Ack(Request.id, FALSE)) = <<Ack(Request.id, FALSE)>>
    OBVIOUS
  <2>5. \A i \in DOMAIN <<Ack(Request.id, FALSE)>> :
            <<Ack(Request.id, FALSE)>>[i].type # "STATE"
    BY DEF Ack
  <2>6. ASSUME NEW c \in DOMAIN conns, conns[c].clean, conns[c].open,
               NEW i \in DOMAIN conns'[c].rep
        PROVE  conns'[c].rep[i].type # "STATE"
    <3>1. conns'[c].rep = <<>> \/ conns'[c].rep = <<Ack(Request.id, FALSE)>>
      BY <2>2, <2>3, <2>4, <2>6
    <3>2. CASE conns'[c].rep = <<>>
      BY <2>6, <3>2
    <3>3. CASE conns'[c].rep = <<Ack(Request.id, FALSE)>>
      BY <2>5, <2>6, <3>3
    <3> QED BY <3>1, <3>2, <3>3
  <2> QED BY <2>2, <2>6 DEF StatesTrue
<1>13. CASE \/ NewClient \/ (\E op \in Ops : CallTooEarly(op)) \/ WaitForClient \/ Pauses
            \/ ServeGoneClient \/ ServerStarts
  <2>1. UNCHANGED <<call, conns>>
    BY <1>13 DEF NewClient, CallTooEarly, WaitForClient, Pauses, ServeGoneClient,
                 ServerStarts, client
  <2> QED BY <1>4, <2>1
<1> QED BY <1>5, <1>6, <1>7, <1>8, <1>9, <1>10, <1>11, <1>12, <1>13, NextCases

\* What the latest call said stays true, as steps are only ever added.
LEMMA CleanStepsTrueStep ==
    ASSUME TypeOK, ClientShape, RequestsNew, AdvancedBefore, StatesTrue, CleanStepsTrue,
           [Next]_vars
    PROVE  CleanStepsTrue'
<1>1. /\ advanced.id <= advanced'.id
      /\ advanced.id \in Nat /\ advanced'.id \in Nat /\ ret.id \in Nat /\ call.id \in Nat
  <2>1. advanced'.id \in 0 .. MaxCalls
    BY TypeStep DEF TypeOK
  <2>2. /\ advanced.id \in 0 .. MaxCalls /\ ret.id \in 0 .. MaxCalls
        /\ call.id \in 0 .. MaxCalls /\ MaxCalls \in Nat
    BY TCPAssumption DEF TypeOK
  <2> QED BY <2>1, <2>2, AdvancesOn
<1>2. ASSUME ret' = ret PROVE CleanStepsTrue'
  BY <1>1, <1>2 DEF CleanStepsTrue, StepTrueMeansStepped
<1>3. ASSUME ret' = NoRet PROVE CleanStepsTrue'
  BY <1>3 DEF CleanStepsTrue, StepTrueMeansStepped, NoRet
<1>4. CASE Receive
  <2> DEFINE m == conns[sock].rep[1]
  <2>1. /\ cpc \in Receiving /\ Received(Expected(m)) /\ Expected(m) \in BOOLEAN
        /\ 1 \in DOMAIN conns[sock].rep
    BY <1>4, ReceiveStep
  <2>2. /\ sock \in DOMAIN conns /\ conns'[sock].clean = conns[sock].clean
        /\ conns[sock].open
    BY <1>4, ReceiveEffect DEF ClientShape, Receive
  <2>3. \/ ret' = ret \/ ret' = NoRet
        \/ /\ Expected(m)
           /\ ret' = [op |-> call.op, id |-> call.id, ok |-> TRUE,
                      clean |-> conns'[sock].clean, conn |-> sock]
    BY <2>1, ReceivedCases
  <2>4. ASSUME Expected(m), call.op = "step", conns[sock].clean
        PROVE  advanced.id >= call.id
    <3>1. cpc = "receiveState"
      BY <2>1, <2>4 DEF ClientShape, Awaited
    <3>2. m.type = "STATE"
      BY <2>4, <3>1 DEF Expected
    <3> QED BY <2>1, <2>2, <2>4, <3>2 DEF StatesTrue
  <2>5. CASE /\ Expected(m)
             /\ ret' = [op |-> call.op, id |-> call.id, ok |-> TRUE,
                        clean |-> conns'[sock].clean, conn |-> sock]
    <3>1. ret'.op = "step" /\ ret'.clean => advanced.id >= ret'.id
      BY <2>2, <2>4, <2>5
    <3>2. ret'.id = call.id
      BY <2>5
    <3> QED BY <1>1, <3>1, <3>2 DEF CleanStepsTrue, StepTrueMeansStepped
  <2> QED BY <1>2, <1>3, <2>3, <2>5
<1>5. CASE ReceiveFails
  <2>1. ret' = ret \/ ret' = NoRet
    BY <1>5, ReceiveFailsStep, ReceivedCases
  <2> QED BY <1>2, <1>3, <2>1
<1>6. CASE ClientEnds \/ \E op \in Ops : CallTooEarly(op)
  BY <1>3, <1>6 DEF ClientEnds, CallTooEarly
<1>7. CASE \/ NewClient \/ ConnectTo \/ Called \/ WaitForClient \/ Pauses \/ Ended
           \/ Replied \/ ServeQuit \/ ServeGoneClient \/ ServerStarts
  <2>1. ret' = ret
    BY <1>7 DEF NewClient, ConnectTo, Called, Call, WaitForClient, Pauses, Ended, Exits,
                Replied, Reply, ServeQuit, ServeGoneClient, ServerStarts, client
  <2> QED BY <1>2, <2>1
<1> QED BY <1>4, <1>5, <1>6, <1>7, NextCases

(* The loop of a step that returns true ran to its end, unless an answer    *)
(* came late or twice: that the simulator advanced, as QRSimTCPClient.h:105 *)
(* says, holds of every connection that has seen neither.                   *)
THEOREM CleanStepsAreTrue == Spec => [](ret.clean => StepTrueMeansStepped)
<1> DEFINE Inv == IInv /\ AdvancedBefore /\ StatesTrue /\ CleanStepsTrue
<1>1. Init => Inv
  <2> SUFFICES ASSUME Init PROVE Inv
    OBVIOUS
  <2>1. /\ conns = <<>> /\ advanced = NoAdvance /\ executed = 0 /\ ret = NoRet
    BY DEF Init, CInit, SInit
  <2>2. DOMAIN conns = {}
    BY <2>1
  <2>3. AdvancedBefore /\ StatesTrue /\ CleanStepsTrue
    BY <2>1, <2>2 DEF AdvancedBefore, StatesTrue, CleanStepsTrue, StepTrueMeansStepped,
                      NoAdvance, NoRet
  <2> QED BY <2>3, IInvInit
<1>2. Inv /\ [Next]_vars => Inv'
  BY IInvStep, AdvancesOn, StatesTrueStep, CleanStepsTrueStep DEF IInv
<1>3. Inv => (ret.clean => StepTrueMeansStepped)
  BY DEF CleanStepsTrue
<1> HIDE DEF Inv
<1>4. QED
  BY <1>1, <1>2, <1>3, PTL DEF Spec

(* How far a step went: as many ticks of DT as it was asked for, each of   *)
(* them one of the task that is in.                                        *)
UnitTasks == \A k \in Tasks : Dt[k] = 1
AllOrNothing == advanced.ticks \in {0, advanced.asked}

LEMMA AllOrNothingStep ==
    ASSUME UnitTasks, TypeOK, AllOrNothing, [Next]_vars
    PROVE  AllOrNothing'
<1>1. ASSUME UNCHANGED advanced PROVE AllOrNothing'
  BY <1>1 DEF AllOrNothing
<1>2. CASE ServeStep
  <2>1. Request.dt \in {0} \cup Increments
    BY <1>2, ServesFacts DEF ServeStep
  <2>2. Request.dt \in Nat
    <3>1. \A x \in {0} \cup Increments : x \in Nat
      BY TCPAssumption
    <3> QED BY <2>1, <3>1
  <2>3. sim.taskDt \in {0, 1}
    BY TypedSim DEF Workspaces, UnitTasks
  <2>4. /\ advanced'.asked = Request.dt
        /\ advanced'.ticks = Request.dt * sim.taskDt
    BY <1>2 DEF ServeStep
  <2>5. Request.dt * 0 = 0 /\ Request.dt * 1 = Request.dt
    BY <2>2
  <2> QED BY <2>3, <2>4, <2>5 DEF AllOrNothing
<1>3. CASE Serve /\ ~ServeStep
  BY <1>1, <1>3 DEF Serve, ServeInit, ServeInitFails, ServeReset, ServeSetState,
     ServeStepThrows, ServeStepDrops, ServeDisconnect, ServeQuit, ServeGoneClient
<1>4. CASE Calling
  BY <1>1, <1>4 DEF Calling, Call, CallTooEarly, server
<1>5. CASE \/ NewClient \/ ClientEnds \/ ConnectTo \/ Receive \/ ReceiveFails
           \/ WaitForClient \/ ServerStarts
  BY <1>1, <1>5 DEF NewClient, ClientEnds, ConnectTo, Receive, ReceiveFails,
     WaitForClient, ServerStarts, server
<1>6. CASE WaitForClientFails \/ \E kept \in BOOLEAN : ServerDies(kept)
  BY <1>1, <1>6 DEF WaitForClientFails, ServerDies, Exits
<1>7. CASE UNCHANGED vars
  BY <1>1, <1>7 DEF vars, server
<1> QED BY <1>2, <1>3, <1>4, <1>5, <1>6, <1>7 DEF Next

(* With tasks whose dt is one tick a step that returned true took the time *)
(* it was asked to, or none at all: a dt of more than a tick and a task    *)
(* left without its dt by a failed init are all that breaks the promise.   *)
THEOREM UnitStepsAsAsked ==
    ASSUME UnitTasks
    PROVE  Spec => [](advanced.ticks # 0 => StepsAsAsked)
<1>1. Init => AllOrNothing
  BY DEF Init, SInit, NoAdvance, AllOrNothing
<1>2. TypeOK /\ AllOrNothing /\ [Next]_vars => AllOrNothing'
  BY AllOrNothingStep
<1>3. AllOrNothing => (advanced.ticks # 0 => StepsAsAsked)
  BY DEF AllOrNothing, StepsAsAsked
<1>4. QED
  BY <1>1, <1>2, <1>3, TypeCorrect, PTL DEF Spec

-----------------------------------------------------------------------------
(* The refinement.                                                         *)

LEMMA InitImplements == Init => Promise!CallsInit
BY DEF Init, CInit, SInit, NoCall, NoRet, Receiving, Promise!CallsInit

(* Every step is a step of the promise, or one it does not see.            *)
LEMMA StepImplements == IInv /\ [Next]_vars => [Promise!CallsNext]_(Promise!callVars)
<1> SUFFICES ASSUME IInv, [Next]_vars
             PROVE  Promise!CallsNext \/ UNCHANGED Promise!callVars
  OBVIOUS
<1> USE DEF Promise!callVars
<1>a. TypeOK /\ ClientShape /\ RequestsNew /\ Pipe
  BY DEF IInv
<1>b. NoRet.ok = FALSE
  BY DEF NoRet
<1>c. executed \in Nat /\ call.id \in Nat /\ call.id <= MaxCalls /\ MaxCalls \in Nat
  BY <1>a, TCPAssumption DEF TypeOK
<1>1. CASE NewClient
  BY <1>1 DEF NewClient, Receiving, server
<1>d. ASSUME cpc' \notin Receiving, ret' = NoRet, call'.id = call.id, executed' = executed
      PROVE  Promise!CallsNext
  BY <1>b, <1>d DEF Promise!CallsNext, Promise!GiveUp
<1>2. CASE ClientEnds
  <2>1. call'.id = call.id /\ executed' = executed /\ ret' = NoRet /\ cpc' \notin Receiving
    BY <1>2 DEF ClientEnds, NoCall, server, Receiving
  <2> QED BY <1>d, <2>1
<1>3. CASE ConnectTo
  BY <1>3 DEF ConnectTo, server
<1>4. CASE Called
  <2>1. /\ cpc \notin Receiving /\ cpc' \in Receiving /\ call'.id = call.id + 1
        /\ call.id < MaxCalls /\ executed' = executed /\ ret' = ret
    BY <1>4, <1>a, CallStep DEF Called, server, Receiving
  <2> QED BY <2>1 DEF Promise!CallsNext, Promise!Issue
<1>5. ASSUME NEW op \in Ops, CallTooEarly(op)
      PROVE  Promise!CallsNext
  <2>1. call' = call /\ executed' = executed /\ ret' = NoRet /\ cpc' \notin Receiving
    BY <1>5 DEF CallTooEarly, server, Receiving
  <2> QED BY <1>d, <2>1
<1>6. CASE Receive
  <2> DEFINE m == conns[sock].rep[1]
  <2>1. /\ cpc \in Receiving /\ Received(Expected(m)) /\ Expected(m) \in BOOLEAN
        /\ 1 \in DOMAIN conns[sock].rep /\ UNCHANGED server
    BY <1>6, <1>a, ReceiveStep
  <2>2. /\ sock \in DOMAIN conns /\ conns'[sock].clean = conns[sock].clean
    BY <1>6, <1>a, ReceiveEffect
  <2>3. /\ call'.id = call.id /\ executed' = executed
        /\ \/ cpc' = "receiveInfo" /\ ret' = ret
           \/ cpc' = "idle" /\ ret' = NoRet
           \/ cpc' = "idle" /\ ret'.clean = conns'[sock].clean
    BY <1>a, <2>1, ReceivedCases DEF server
  <2>4. "receiveInfo" \in Receiving /\ "idle" \notin Receiving
    BY DEF Receiving
  <2>5. CASE cpc' = "receiveInfo" /\ ret' = ret
    BY <2>1, <2>3, <2>4, <2>5
  <2>6. CASE cpc' = "idle" /\ ret' = NoRet
    BY <1>d, <2>3, <2>4, <2>6
  <2>7. CASE cpc' = "idle" /\ ret'.clean = conns'[sock].clean
    <3> DEFINE told == (ret'.ok /\ ret'.clean)
    <3>1. told => executed = call.id
      <4> SUFFICES ASSUME told PROVE executed = call.id
        OBVIOUS
      <4>1. conns[sock].clean
        BY <2>2, <2>7
      <4>2. conns[sock].open
        <5>1. sock # 0
          BY <1>a, <2>2, LenProperties DEF TypeOK
        <5> QED BY <1>a, <5>1 DEF ClientShape
      <4> QED BY <1>a, <2>1, <2>2, <4>1, <4>2 DEF Pipe, PipeOf
    <3>2. Promise!Return(told)
      BY <2>1, <2>3, <2>4, <2>7, <3>1 DEF Promise!Return
    <3>3. told \in BOOLEAN
      OBVIOUS
    <3> QED BY <3>2, <3>3 DEF Promise!CallsNext
  <2> QED BY <2>3, <2>5, <2>6, <2>7
<1>7. CASE ReceiveFails
  <2>1. /\ cpc \in Receiving /\ call'.id = call.id /\ executed' = executed
        /\ \/ cpc' = "receiveInfo" /\ ret' = ret
           \/ cpc' = "idle" /\ ret' = NoRet
    BY <1>7, <1>a, ReceiveFailsStep, ReceivedCases DEF server
  <2>2. "receiveInfo" \in Receiving /\ "idle" \notin Receiving
    BY DEF Receiving
  <2> QED BY <1>d, <2>1, <2>2
<1>e. ASSUME UNCHANGED client, executed' = executed
      PROVE  UNCHANGED Promise!callVars
  BY <1>e DEF client
<1>f. ASSUME UNCHANGED client, NEW op, Serves(op)
      PROVE  Promise!CallsNext
  <2>1. /\ executed' = Request.id /\ spc = "serve" /\ conn \in DOMAIN conns
        /\ Request = conns[conn].req[1] /\ 1 \in DOMAIN conns[conn].req
        /\ Request.id \in 1 .. MaxCalls
    BY <1>a, <1>f, ServesFacts
  <2>2. executed < Request.id /\ Request.id <= call.id
    BY <1>a, <2>1 DEF RequestsNew, Readable
  <2>3. Request.id \in executed + 1 .. call.id
    BY <1>c, <2>1, <2>2
  <2>4. UNCHANGED <<call, cpc, ret>>
    BY <1>f DEF client
  <2>5. Promise!Execute(Request.id)
    BY <2>1, <2>3, <2>4 DEF Promise!Execute
  <2> QED BY <2>1, <2>5 DEF Promise!CallsNext
<1>8. CASE WaitForClient
  BY <1>8, <1>e DEF WaitForClient
<1>9. CASE Pauses
  BY <1>9, <1>e DEF Pauses
<1>10. CASE Ended
  <2>1. UNCHANGED client /\ executed' = executed
    BY <1>10 DEF Ended, Exits
  <2> QED BY <1>e, <2>1
<1>11. CASE Replied
  <2>1. UNCHANGED client /\ \E op \in Ops : Serves(op)
    BY <1>11 DEF Replied, Reply
  <2> QED BY <1>f, <2>1
<1>12. CASE ServeQuit
  <2>1. UNCHANGED client /\ Serves("quit")
    BY <1>12 DEF ServeQuit
  <2> QED BY <1>f, <2>1
<1>13. CASE ServeGoneClient
  BY <1>13, <1>e DEF ServeGoneClient
<1>14. CASE ServerStarts
  BY <1>14, <1>e DEF ServerStarts
<1> QED BY <1>1, <1>2, <1>3, <1>4, <1>5, <1>6, <1>7, <1>8, <1>9, <1>10, <1>11, <1>12,
           <1>13, <1>14, <1>a, NextCases

(* Calls are executed in the order of issue, at most once, and before they *)
(* return true on a clean connection: client, wire and server implement    *)
(* what Calls promises.                                                    *)
THEOREM CallsImplemented == Spec => InOrderAtMostOnce
BY InitImplements, StepImplements, Inductive, PTL
   DEF Spec, InOrderAtMostOnce, Promise!CallsSpec

LEMMA EmptyWorkspace == ASSUME sim' = NoSim PROVE Workspace!Discard
BY DEF NoSim, Workspace!Discard, Workspace!LoadInit

(* Every step of the system changes the workspace as Loading says, or not. *)
LEMMA WorkspaceStep ==
    ASSUME TypeOK, [Next]_vars
    PROVE  [Workspace!LoadNext]_(Workspace!loadVars)
<1>1. CASE Replied
  BY <1>1 DEF Replied, Reply
<1>2. CASE Ended \/ ServeQuit
  <2>1. sim' = NoSim
    BY <1>2 DEF Ended, Exits, ServeQuit
  <2> QED BY <2>1, EmptyWorkspace DEF Workspace!LoadNext
<1>3. CASE \/ NewClient \/ ClientEnds \/ ConnectTo \/ Called
           \/ (\E op \in Ops : CallTooEarly(op)) \/ Receive \/ ReceiveFails
           \/ WaitForClient \/ Pauses \/ ServeGoneClient \/ ServerStarts
  <2>1. UNCHANGED sim
    BY <1>3 DEF NewClient, ClientEnds, ConnectTo, Called, Call, CallTooEarly, Receive,
                ReceiveFails, WaitForClient, Pauses, ServeGoneClient, ServerStarts, server
  <2> QED BY <2>1 DEF Workspace!loadVars
<1> QED BY <1>1, <1>2, <1>3, NextCases

(* Failed inits and resets leave the server's simulator as Loading says,   *)
(* over any number of connections, calls and server processes.             *)
THEOREM WorkspaceImplemented == Spec => NothingRolledBack
<1>1. Init => Workspace!LoadInit
  BY DEF Init, SInit, NoSim, Workspace!LoadInit
<1>2. TypeOK /\ [Next]_vars => [Workspace!LoadNext]_(Workspace!loadVars)
  BY WorkspaceStep
<1> QED BY <1>1, <1>2, TypeCorrect, PTL
           DEF Spec, NothingRolledBack, Workspace!LoadSpec
=============================================================================
