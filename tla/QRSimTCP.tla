------------------------------ MODULE QRSimTCP ------------------------------
(***************************************************************************)
(* The TCP interface: the C++ client (tcp-linux/src/QRSimTCPClient.cpp),   *)
(* the MATLAB server loop (tcp-linux/matlab/QRSimTCPServer.m.in) on top of *)
(* its Java socket (QRSimTCPServer.java), and the connections between.     *)
(*                                                                         *)
(* A call sends one request and blocks on the replies it expects, giving   *)
(* up on each after 20 s (SO_RCVTIMEO).  Requests and replies carry no     *)
(* number: what is read is whatever is first in the queue.  The server     *)
(* reads one connection at a time and never closes a data socket.  Ids,    *)
(* "clean", "executed", "advanced", "ret" and "paramsFrom" are history     *)
(* variables: the code has no such thing, no guard reads them.             *)
(***************************************************************************)
EXTENDS Naturals, Sequences

CONSTANTS
    Tasks,       \* tasks the server can load
    BadTask,     \* model value: a name it cannot load
    Uavs,        \* Uavs[k]: number of platforms of task k
    Dt,          \* Dt[k]: dt of task k, in ticks of DT
    Increments,  \* the dt's a client steps by, in ticks of DT
    Waiting,     \* failed accepts before the server exits (30 in the code)
    MaxConns,    \* bound: connections established
    MaxCalls,    \* bound: requests sent
    MaxStarts    \* bound: server processes started

ASSUME TCPAssumption ==
    /\ BadTask \notin Tasks
    /\ Uavs \in [Tasks -> Nat \ {0}]
    /\ Dt \in [Tasks -> Nat \ {0}]
    /\ Increments \subseteq Nat \ {0}
    /\ {Waiting, MaxConns, MaxCalls, MaxStarts} \subseteq Nat \ {0}

VARIABLES
    \* the client
    cpc,          \* what the client is doing
    sock,         \* connection sockfd refers to, 0: one that was refused
    initialized,  \* QRSimTCPClient.initialized
    cliNumUAVs,   \* QRSimTCPClient.numUAVs
    call,         \* the latest request sent, and how the call went so far
    ret,          \* history: what the latest call to return said
    paramsFrom,   \* history: the connection on which the latest init was told of
                  \* itself, 0: none since this client called init again
    \* the network
    conns,        \* the connections established, in order
    backlog,      \* those the server has not accepted yet
    \* the server
    spc,          \* where its loop is
    conn,         \* the connection is/os read and write, 0: none any more
    waiting,      \* accepts left
    sim,          \* the MATLAB workspace: state, numUAVs, the simulator
    starts,       \* server processes started so far
    \* history of the server
    executed,     \* id of the latest request it took
    advanced      \* the latest STEP whose loop ended: its id, ticks asked, simulated

client  == <<cpc, sock, initialized, cliNumUAVs, call, ret, paramsFrom>>
server  == <<spc, conn, waiting, sim, starts, executed, advanced>>
vars    == <<client, conns, backlog, server>>

-----------------------------------------------------------------------------
Ops == {"init", "reset", "setState", "step", "disconnect", "quit"}
Receiving == {"receiveAck", "receiveState", "receiveInfo"}

\* Numbers of platforms: a failed init may leave any part of a fleet behind.
UavCounts == {0} \cup UNION {0 .. Uavs[k] : k \in Tasks}
Requests == [op : Ops, id : 1 .. MaxCalls, task : Tasks \cup {BadTask},
             dt : {0} \cup Increments, uavs : UavCounts]
\* error is meaningful for ACK, uavs for TASKINFO; id (history) is that of the
\* request the reply answers.
Replies == [type : {"STATE", "TASKINFO", "ACK"}, error : BOOLEAN,
            uavs : UavCounts, id : 1 .. MaxCalls]

State(i)       == [type |-> "STATE", error |-> FALSE, uavs |-> 0, id |-> i]
\* A plausible slip: setNumUAVs is left out.
TaskInfoNoUavs(i, n) == [type |-> "TASKINFO", error |-> FALSE, uavs |-> 0, id |-> i]
TaskInfo(i, n) == [type |-> "TASKINFO", error |-> FALSE, uavs |-> n, id |-> i]
Ack(i, e)      == [type |-> "ACK", error |-> e, uavs |-> 0, id |-> i]

\* open: the client's end is open.  up: the server process of the other end
\* lives.  clean (history): no answer can still come, or have come, too late.
Connection == [open : BOOLEAN, up : BOOLEAN, clean : BOOLEAN,
               req : Seq(Requests), rep : Seq(Replies)]

NoSim == [loaded |-> FALSE,   \* is the variable "state" defined?
          flies |-> FALSE,    \* are the two controllers?
          numUAVs |-> 0,      \* the server's own count
          task |-> BadTask,   \* the task that is in, BadTask: none
          taskDt |-> 0,       \* its dt
          fleet |-> 0,        \* length(state.platforms)
          bare |-> {}]        \* those that were never placed: they have no state

NoCall == [op |-> "init", id |-> 0, sent |-> FALSE, gotState |-> FALSE]
NoRet  == [op |-> "init", id |-> 0, ok |-> FALSE, clean |-> TRUE, conn |-> 0]
NoAdvance == [id |-> 0, asked |-> 0, ticks |-> 0]

CInit == /\ cpc = "down" /\ sock = 0 /\ initialized = FALSE /\ cliNumUAVs = 0
         /\ call = NoCall /\ ret = NoRet /\ paramsFrom = 0

SInit == /\ spc = "accept" /\ conn = 0 /\ waiting = Waiting /\ sim = NoSim
         /\ starts = 1 /\ executed = 0 /\ advanced = NoAdvance

Init == CInit /\ SInit /\ conns = <<>> /\ backlog = <<>>

-----------------------------------------------------------------------------
(* The client.                                                             *)

Alive(c) == c # 0 /\ conns[c].up

NewClient ==
    /\ cpc = "down"
    /\ cpc' = "idle"
    /\ UNCHANGED <<sock, initialized, cliNumUAVs, call, ret, paramsFrom, conns, backlog,
                   server>>

(* The client's program ends, in the middle of a call or not: the kernel   *)
(* closes all of its sockets, those connectTo lost track of included.      *)
ClientEnds ==
    /\ cpc # "down"
    /\ cpc' = "down" /\ sock' = 0 /\ initialized' = FALSE /\ cliNumUAVs' = 0
    /\ call' = [NoCall EXCEPT !.id = call.id]
    /\ ret' = NoRet /\ paramsFrom' = 0
    /\ conns' = [c \in DOMAIN conns |-> [conns[c] EXCEPT !.open = FALSE, !.rep = <<>>]]
    /\ UNCHANGED <<backlog, server>>

(* connectTo returns true whatever connect() says, and forgets the socket  *)
(* of the previous connection without closing it.                          *)
ConnectTo ==
    /\ cpc = "idle"
    /\ \/ /\ spc # "down"
          /\ Len(conns) < MaxConns
          /\ conns' = Append(conns, [open |-> TRUE, up |-> TRUE, clean |-> TRUE,
                                     req |-> <<>>, rep |-> <<>>])
          /\ sock' = Len(conns')
          /\ backlog' = Append(backlog, sock')
       \/ /\ spc = "down"
          /\ sock' = 0
          /\ UNCHANGED <<conns, backlog>>
    /\ UNCHANGED <<cpc, initialized, cliNumUAVs, call, ret, paramsFrom, server>>

\* A plausible slip: init only waits for one reply, an acknowledgement.
AwaitedAck(op) == IF op = "step" THEN "receiveState" ELSE "receiveAck"

Awaited(op) == CASE op \in {"init", "step"} -> "receiveState"
                 [] OTHER -> "receiveAck"

(* A call that passes the client's own checks: send(), then wait.          *)
Call(op, k, dt) ==
    /\ cpc = "idle"
    /\ op # "init" => initialized
    /\ call.id < MaxCalls
    /\ call' = [op |-> op, id |-> call.id + 1, sent |-> Alive(sock), gotState |-> FALSE]
    /\ cpc' = Awaited(op)
    /\ conns' = IF Alive(sock)
                THEN [conns EXCEPT ![sock].req =
                        Append(@, [op |-> op, id |-> call.id + 1, task |-> k, dt |-> dt,
                                   uavs |-> cliNumUAVs])]
                ELSE conns
    /\ paramsFrom' = IF op = "init" THEN 0 ELSE paramsFrom
    /\ UNCHANGED <<sock, initialized, cliNumUAVs, ret, backlog, server>>

(* A call refused by the check of "initialized".                           *)
CallTooEarly(op) ==
    /\ cpc = "idle"
    /\ op # "init" /\ ~initialized
    /\ ret' = NoRet
    /\ UNCHANGED <<cpc, sock, initialized, cliNumUAVs, call, paramsFrom, conns, backlog,
                   server>>

\* A plausible slip: init sets "initialized" whatever it was told.
ReturnsInitialized(ok) ==
    /\ cpc' = "idle"
    /\ ret' = IF ok THEN [op |-> call.op, id |-> call.id, ok |-> TRUE,
                         clean |-> conns'[sock].clean, conn |-> sock]
              ELSE NoRet
    /\ call' = [NoCall EXCEPT !.id = call.id]
    /\ initialized' = (initialized \/ call.op = "init")
    /\ UNCHANGED paramsFrom

\* The call returns ok; a call of init also stores what it was told.
Returns(ok) ==
    /\ cpc' = "idle"
    /\ ret' = IF ok THEN [op |-> call.op, id |-> call.id, ok |-> TRUE,
                         clean |-> conns'[sock].clean, conn |-> sock]
              ELSE NoRet
    /\ call' = [NoCall EXCEPT !.id = call.id]
    /\ initialized' = (initialized \/ (ok /\ call.op = "init"))
    /\ paramsFrom' = IF ok /\ call.op = "init" /\ conns'[sock].clean THEN sock
                     ELSE paramsFrom

\* What a receive that got the expected message (good) or not leads to.
Received(good) ==
    IF cpc = "receiveState" /\ call.op = "init"
    THEN /\ cpc' = "receiveInfo"
         /\ call' = [call EXCEPT !.gotState = good]
         /\ UNCHANGED <<initialized, ret, paramsFrom>>
    ELSE Returns(good /\ call.sent /\ (cpc = "receiveInfo" => call.gotState))

Expected(m) == CASE cpc = "receiveAck"   -> m.type = "ACK" /\ ~m.error
                 [] cpc = "receiveState" -> m.type = "STATE"
                 [] cpc = "receiveInfo"  -> m.type = "TASKINFO"

(* receiveAck, receiveState and receiveInfo take the first message there   *)
(* is.  init overwrites numUAVs with its caller's variable even when       *)
(* receiveInfo has not set that; we take it to be 0 or the old value.      *)
Receive ==
    /\ cpc \in Receiving
    /\ sock # 0
    /\ conns[sock].rep # <<>>
    /\ conns' = [conns EXCEPT ![sock].rep = Tail(@)]
    /\ LET m == Head(conns[sock].rep)
       IN  /\ Received(Expected(m))
           /\ cliNumUAVs' \in IF cpc # "receiveInfo" THEN {cliNumUAVs}
                              ELSE IF Expected(m) THEN {m.uavs} ELSE {0, cliNumUAVs}
    /\ UNCHANGED <<sock, backlog, server>>

\* A plausible slip: no SO_RCVTIMEO, so only a lost peer ends a recv.
ReceiveFailsNoTimeout ==
    /\ cpc \in Receiving
    /\ ~Alive(sock)
    /\ sock # 0 => conns[sock].rep = <<>>
    /\ Received(FALSE)
    /\ cliNumUAVs' \in IF cpc = "receiveInfo" THEN {0, cliNumUAVs} ELSE {cliNumUAVs}
    /\ UNCHANGED <<sock, conns, backlog, server>>

(* recv fails: at once without a peer, otherwise after 20 s in which       *)
(* nothing came.  A request still unread may be answered too late.         *)
ReceiveFails ==
    /\ cpc \in Receiving
    /\ sock # 0 => conns[sock].rep = <<>>
    /\ conns' = IF Alive(sock)
                THEN [conns EXCEPT ![sock].clean = @ /\ conns[sock].req = <<>>]
                ELSE conns
    /\ Received(FALSE)
    /\ cliNumUAVs' \in IF cpc = "receiveInfo" THEN {0, cliNumUAVs} ELSE {cliNumUAVs}
    /\ UNCHANGED <<sock, backlog, server>>

-----------------------------------------------------------------------------
(* The server.                                                             *)

\* The process ends, and with it the MATLAB workspace and every connection;
\* what it had sent may get lost on the way (~kept).
Exits(kept) ==
    /\ spc' = "down" /\ conn' = 0 /\ waiting' = 0 /\ sim' = NoSim /\ backlog' = <<>>
    /\ conns' = [c \in DOMAIN conns |-> [conns[c] EXCEPT !.up = FALSE, !.req = <<>>,
                                           !.rep = IF kept THEN @ ELSE <<>>]]
    /\ UNCHANGED <<client, starts, advanced>>

\* A plausible slip: the latest connection is taken first.
WaitForLatestClient ==
    /\ spc = "accept"
    /\ backlog # <<>>
    /\ conn' = backlog[Len(backlog)]
    /\ backlog' = SubSeq(backlog, 1, Len(backlog) - 1)
    /\ spc' = "serve"
    /\ waiting' = Waiting
    /\ UNCHANGED <<client, conns, sim, starts, executed, advanced>>

WaitForClient ==
    /\ spc = "accept"
    /\ backlog # <<>>
    /\ conn' = Head(backlog)
    /\ backlog' = Tail(backlog)
    /\ spc' = "serve"
    /\ waiting' = Waiting
    /\ UNCHANGED <<client, conns, sim, starts, executed, advanced>>

(* No client within a second; the server exits after "Waiting" of those.   *)
WaitForClientFails ==
    /\ spc = "accept"
    /\ backlog = <<>>
    /\ UNCHANGED executed
    /\ \/ /\ waiting > 1
          /\ waiting' = waiting - 1
          /\ UNCHANGED <<client, conns, backlog, spc, conn, sim, starts, advanced>>
       \/ /\ waiting = 1
          /\ Exits(TRUE)

Request == Head(conns[conn].req)

\* nextCommand has read a request.
Serves(op) == /\ spc = "serve"
              /\ conns[conn].req # <<>>
              /\ Request.op = op
              /\ executed' = Request.id

\* Replies to a client that is gone vanish.  Two replies to one request (~one)
\* leave one too many in the queue.
Answer(replies, one) == conns' = [conns EXCEPT
    ![conn].req   = Tail(@),
    ![conn].rep   = IF conns[conn].open THEN @ \o replies ELSE @,
    ![conn].clean = @ /\ one]

Stays == UNCHANGED <<client, backlog, spc, conn, waiting, starts>>

\* The outer catch, and a normal disconnect: back to accept.  Nobody closes
\* the data socket.
Drops == spc' = "accept" /\ conn' = 0 /\ UNCHANGED <<client, backlog, waiting, starts>>

\* A plausible slip: the new platforms are appended to the old ones.
SumOf(a, b) == a + b
Larger(a, b) == IF a < b THEN b ELSE a

\* The platforms of task k, and of the one that is in.
Own(k) == 1 .. Uavs[k]
Placeable == IF sim.task = BadTask THEN {} ELSE Own(sim.task)

\* A plausible slip: init starts a new list of platforms.
LoadsAnew(k) == [sim EXCEPT !.loaded = TRUE, !.task = k, !.taskDt = Dt[k],
                            !.numUAVs = Uavs[k], !.fleet = Uavs[k], !.bare = {}]

\* qrsim.init returns: old platforms beyond those of the task stay as they are.
Loads(k) == [sim EXCEPT !.loaded = TRUE, !.task = k, !.taskDt = Dt[k],
                        !.numUAVs = Larger(sim.fleet, Uavs[k]),
                        !.fleet = Larger(sim.fleet, Uavs[k]), !.bare = @ \ Own(k)]

(* The states of all platforms there are can be read, and sent.            *)
ServeInit ==
    /\ Serves("init")
    /\ Request.task # BadTask
    /\ Loads(Request.task).bare = {}
    /\ sim' = [Loads(Request.task) EXCEPT !.flies = TRUE]
    /\ Answer(<<State(Request.id), TaskInfo(Request.id, sim'.numUAVs)>>, TRUE)
    /\ Stays
    /\ UNCHANGED advanced

\* How much of the new task is in place depends on where init threw: at its
\* parameters, with m platforms built, or with those in done placed again.
HalfLoads(k) ==
    \/ sim' = [sim EXCEPT !.task = k, !.taskDt = 0]
    \/ \E m \in 0 .. Uavs[k] : \E done \in SUBSET (1 .. m) :
          /\ done # {} => m = Uavs[k]
          /\ sim' = [sim EXCEPT !.task = k, !.taskDt = Dt[k], !.fleet = Larger(@, m),
                                !.bare = (@ \cup (1 .. m)) \ done]

(* init throws, or returns and a platform that an earlier init left bare   *)
(* cannot be read: one reply, although the client waits for two.           *)
ServeInitFails ==
    /\ Serves("init")
    /\ \/ Request.task = BadTask /\ UNCHANGED sim
       \/ Request.task # BadTask /\ HalfLoads(Request.task)
       \/ /\ Request.task # BadTask
          /\ Loads(Request.task).bare # {}
          /\ sim' = Loads(Request.task)
    /\ Answer(<<Ack(Request.id, TRUE)>>, TRUE)
    /\ Stays
    /\ UNCHANGED advanced

(* qrsim.reset, which may throw after it placed some of the platforms, and *)
(* the reset of two controllers that need not exist.                       *)
ServeReset(ok) ==
    /\ Serves("reset")
    /\ \E done \in SUBSET Placeable :
           /\ ok => sim.flies /\ done = Placeable
           /\ sim' = [sim EXCEPT !.bare = @ \ done]
    /\ Answer(<<Ack(Request.id, ~ok)>>, TRUE)
    /\ Stays
    /\ UNCHANGED advanced

(* The field is called setsState, so getSetState() always throws.          *)
ServeSetState ==
    /\ Serves("setState")
    /\ Answer(<<Ack(Request.id, TRUE)>>, TRUE)
    /\ Stays
    /\ UNCHANGED <<sim, advanced>>

\* The reply every STEP ends with: the state if all platforms are valid.  It
\* throws, which ends the connection, without a variable "state" or if one of
\* the platforms the server knows of was never placed.
StateOrError(i) == {State(i), Ack(i, TRUE)}
StatesReadable == sim.loaded /\ sim.bare \cap (1 .. sim.numUAVs) = {}

(* The loop runs dt / DT times, and each qrsim.step takes task.dt: nothing *)
(* is stepped if the task has none.  There is one column of commands for   *)
(* each UAV the client believes in.                                        *)
ServeStep ==
    /\ Serves("step")
    /\ StatesReadable
    /\ sim.taskDt # 0 => sim.bare = {}
    /\ Request.uavs # 0 /\ Request.uavs = sim.fleet
    /\ \E m \in StateOrError(Request.id) : Answer(<<m>>, TRUE)
    /\ advanced' = [id |-> Request.id, asked |-> Request.dt,
                     ticks |-> Request.dt * sim.taskDt]
    /\ Stays
    /\ UNCHANGED sim

(* The loop throws: an error is sent and, below, the reply of every STEP.  *)
ServeStepThrows ==
    /\ Serves("step")
    /\ StatesReadable
    /\ Request.uavs # 0
    /\ \E m \in StateOrError(Request.id) :
           Answer(<<Ack(Request.id, TRUE), m>>, FALSE)
    /\ Stays
    /\ UNCHANGED <<sim, advanced>>

(* Where the reply throws as well, or comes without the loop's error; a    *)
(* STEP without commands ends the connection before anything is sent.      *)
ServeStepDrops ==
    /\ Serves("step")
    /\ \/ /\ Request.uavs # 0
          /\ ~StatesReadable
          /\ \/ Answer(<<Ack(Request.id, TRUE)>>, TRUE)
             \/ sim.loaded /\ sim.taskDt = 0 /\ Answer(<<>>, TRUE)
       \/ /\ Request.uavs = 0
          /\ Answer(<<>>, TRUE)
    /\ Drops
    /\ UNCHANGED <<sim, advanced>>

ServeDisconnect ==
    /\ Serves("disconnect")
    /\ Answer(<<Ack(Request.id, FALSE)>>, TRUE)
    /\ Drops
    /\ UNCHANGED <<sim, advanced>>

ServeQuit ==
    /\ Serves("quit")
    /\ spc' = "down" /\ conn' = 0 /\ waiting' = 0 /\ sim' = NoSim /\ backlog' = <<>>
    /\ conns' = [c \in DOMAIN conns |->
                   [conns[c] EXCEPT !.up = FALSE, !.req = <<>>,
                                    !.rep = IF c = conn /\ conns[c].open
                                            THEN Append(@, Ack(Request.id, FALSE)) ELSE @]]
    /\ UNCHANGED <<client, starts, advanced>>

(* The client is gone.  If the connection was reset nextCommand throws; at *)
(* an orderly end of file protobuf's mergeFrom returns without having read *)
(* anything and its loop never ends.                                       *)
ServeGoneClient ==
    /\ spc = "serve"
    /\ ~conns[conn].open
    /\ conns[conn].req = <<>>
    /\ \/ spc' = "accept" /\ conn' = 0
       \/ spc' = "stuck" /\ UNCHANGED conn
    /\ UNCHANGED <<client, conns, backlog, waiting, sim, starts, executed, advanced>>

(* The server process is killed, and started again.                        *)
ServerDies(kept) ==
    /\ spc # "down"
    /\ Exits(kept)
    /\ UNCHANGED executed

ServerStarts ==
    /\ spc = "down"
    /\ starts < MaxStarts
    /\ starts' = starts + 1
    /\ spc' = "accept" /\ waiting' = Waiting
    /\ UNCHANGED <<client, conns, backlog, conn, sim, executed, advanced>>

-----------------------------------------------------------------------------
Serve == \/ ServeInit \/ ServeInitFails \/ \E ok \in BOOLEAN : ServeReset(ok)
         \/ ServeSetState \/ ServeStep \/ ServeStepThrows \/ ServeStepDrops
         \/ ServeDisconnect \/ ServeQuit \/ ServeGoneClient

Calling == \/ \E k \in Tasks \cup {BadTask} : Call("init", k, 0)
           \/ \E dt \in Increments : Call("step", BadTask, dt)
           \/ \E op \in Ops \ {"init", "step"} : Call(op, BadTask, 0)
           \/ \E op \in Ops : CallTooEarly(op)

Next == \/ NewClient \/ ClientEnds \/ ConnectTo \/ Calling \/ Receive \/ ReceiveFails
        \/ WaitForClient \/ WaitForClientFails \/ Serve
        \/ \E kept \in BOOLEAN : ServerDies(kept)
        \/ ServerStarts

\* A blocked recv ends: data is there, the peer is gone, or 20 s are over.
Fairness == WF_vars(Receive \/ ReceiveFails)

Spec == Init /\ [][Next]_vars /\ Fairness
-----------------------------------------------------------------------------
(* Type invariant: what the client, the wire and the server loop hold.     *)
TypeOK ==
    /\ cpc \in {"down", "idle"} \cup Receiving
    /\ sock \in 0 .. Len(conns)
    /\ initialized \in BOOLEAN
    /\ cliNumUAVs \in UavCounts
    /\ call \in [op : Ops, id : 0 .. MaxCalls, sent : BOOLEAN, gotState : BOOLEAN]
    /\ ret \in [op : Ops, id : 0 .. MaxCalls, ok : BOOLEAN, clean : BOOLEAN,
                conn : 0 .. MaxConns]
    /\ paramsFrom \in 0 .. MaxConns
    /\ conns \in Seq(Connection) /\ Len(conns) <= MaxConns
    /\ backlog \in Seq(1 .. Len(conns))
    /\ spc \in {"accept", "serve", "stuck", "down"}
    /\ conn \in 0 .. Len(conns) /\ (spc = "serve" => conn # 0)
    /\ waiting \in 0 .. Waiting
    /\ sim \in [loaded : BOOLEAN, flies : BOOLEAN, numUAVs : UavCounts,
                task : Tasks \cup {BadTask}, taskDt : {0} \cup {Dt[k] : k \in Tasks},
                fleet : UavCounts, bare : SUBSET (1 .. sim.fleet)]
    /\ starts \in 1 .. MaxStarts
    /\ executed \in 0 .. MaxCalls
    /\ advanced \in [id : 0 .. MaxCalls, asked : {0} \cup Increments, ticks : Nat]

Waits(c) == c = sock /\ cpc \in Receiving

\* What connection c holds, in both directions.
Held(c) == {conns[c].req[i] : i \in DOMAIN conns[c].req}
               \cup {conns[c].rep[i] : i \in DOMAIN conns[c].rep}

(* As long as no answer came late and none came twice, nothing is left on a *)
(* connection between two calls, and during a call only that call's own     *)
(* request, or the replies to it: the next receive reads the right message. *)
CleanPipe ==
    \A c \in DOMAIN conns :
        conns[c].clean /\ conns[c].up /\ conns[c].open =>
            /\ ~Waits(c) => Held(c) = {}
            /\ \A m \in Held(c) : m.id = call.id
            /\ Len(conns[c].req) <= 1 /\ (conns[c].req # <<>> => conns[c].rep = <<>>)

(* A client that is allowed to step talks to a server whose simulator has   *)
(* been initialised at least once, stale replies or not, unless the server  *)
(* was restarted.                                                           *)
InitializedMeansLoaded == initialized /\ starts = 1 /\ spc # "down" => sim.loaded

(* Once an init returned that was told of itself, client and server agree  *)
(* on the number of UAVs until this client calls init again or that server *)
(* process ends: through resets, steps that failed or timed out, late and  *)
(* double replies, reconnections and whatever was queued before.  A later  *)
(* init is not covered: if it fails, numUAVs is overwritten all the same   *)
(* (QRSimTCPClient.cpp:97) and the client stays "initialized".             *)
ParamsAgree == paramsFrom # 0 /\ conns[paramsFrom].up => cliNumUAVs = sim.numUAVs

(* The calls of any number of clients over any number of connections and   *)
(* server processes are executed in order, at most once, and (without late *)
(* replies) before they return true.                                       *)
Promise == INSTANCE Calls WITH issued <- call.id, pending <- cpc \in Receiving,
                               told <- ret.ok /\ ret.clean
InOrderAtMostOnce == Promise!CallsSpec

(* No call blocks its caller for ever, whatever the server does or not.    *)
CallsReturn == cpc \in Receiving ~> cpc \notin Receiving

(* QRSimTCPClient.h:105, step returns "true if the simulator advanced in   *)
(* time as expected".                                                      *)
StepTrueMeansStepped == ret.ok /\ ret.op = "step" => advanced.id >= ret.id

(* QRSimTCPClient.h:84, dt is the "amount of time [s] the simulator is      *)
(* stepped forward of", of a step that returned true without a late answer. *)
StepsAsAsked == ret.ok /\ ret.op = "step" /\ ret.clean /\ advanced.id = ret.id =>
                    advanced.ticks = advanced.asked

(* The workspace changes as a simulator does that init and reset leave     *)
(* half way, from one server process to the next.                          *)
Workspace == INSTANCE Loading WITH NoTask <- BadTask, Size <- Uavs, task <- sim.task,
                                   taskDt <- sim.taskDt, fleet <- sim.fleet,
                                   bare <- sim.bare
NothingRolledBack == Workspace!LoadSpec

=============================================================================
