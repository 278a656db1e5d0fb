---------------------------- MODULE GrpcTransport ---------------------------
(***************************************************************************)
(* The life of the gRPC connection to the manager: the GrpcClient of       *)
(* internal/transport/grpc_client.go.                                      *)
(*                                                                         *)
(* Start dials with the client's mutex held and, because of WithBlock and  *)
(* no deadline, for as long as the manager is unreachable.  Every Start    *)
(* that connects begins a session, with a heartbeat loop, a monitor and a  *)
(* receiving loop of its own; the loops ask only whether the client is     *)
(* started, so those of an old session live on in a new one.  A monitor    *)
(* that finds the connection not ready shuts the client down and starts it *)
(* again.  ClientConn itself also reconnects.                              *)
(*                                                                         *)
(* A heartbeat and a receiving loop put the answers they get into a future *)
(* with room for one (SendMsgSync, see Processors): with two answers they  *)
(* may block there, for ever.                                              *)
(***************************************************************************)
EXTENDS Naturals, FiniteSets

CONSTANTS
  MaxStarts,  \* bound: how many calls of Start connect
  MaxStuck    \* bound: how many loops block on a future

ASSUME MaxStartsAssumption == MaxStarts \in Nat \ {0} /\ MaxStuck \in Nat

Sessions == 1 .. MaxStarts

\* What a monitor is about to do, with the session it has found not ready, 0 if none.
Monitoring == ({"check", "sleep", "start", "dial"} \X {0}) \cup ({"shutdown"} \X (0 .. MaxStarts))

VARIABLES
  lock,       \* who holds the write lock of c.mu while dialling: "free", "runner", "monitor"
  started,    \* c.started
  cur,        \* c.conn: the session, 0 if nil
  conn,       \* state of every session's ClientConn
  starts,     \* how many calls of Start have connected
  monitors,   \* how many connectionMonitor goroutines are at each point
  hearts,     \* how many heartbeatLoop goroutines there are
  stuck,      \* how many more there are that block in PutResponse for ever
  online,     \* how many goroutines are to send a GO_ONLINE message
  recv,       \* streamMsgLoop and the receiving goroutine of every session
  stream,     \* the session over whose connection it receives, 0 if it does not
  tried,      \* history: a GO_ONLINE was sent over the current connection, maybe in vain
  recovered   \* history: the current ClientConn has reconnected by itself

clientVars == <<lock, started, cur, conn, starts>>
recvVars == <<recv, stream>>
loopVars == <<monitors, hearts, stuck, online, recvVars>>
historyVars == <<tried, recovered>>
grpcVars == <<clientVars, loopVars, historyVars>>

GrpcInit ==
  /\ lock = "free"
  /\ started = FALSE
  /\ cur = 0
  /\ conn = [s \in Sessions |-> "none"]
  /\ starts = 0
  /\ monitors = [m \in Monitoring |-> 0]
  /\ hearts = 0
  /\ stuck = 0
  /\ online = 0
  /\ recv = [s \in Sessions |-> "none"]
  /\ stream = [s \in Sessions |-> 0]
  /\ tried = FALSE
  /\ recovered = FALSE

Ready == cur # 0 /\ conn[cur] = "ready"

-----------------------------------------------------------------------------
(***************************************************************************)
(* Start and Shutdown.                                                     *)
(***************************************************************************)

\* Start takes the lock; a started client returns at once, with no dial.
StartDials(who) ==
  /\ ~started
  /\ lock = "free"
  /\ lock' = who
  /\ UNCHANGED <<started, cur, conn, starts>>

StartReturns ==
  /\ started
  /\ lock = "free"
  /\ UNCHANGED clientVars

\* The dial of whoever holds the lock succeeds, and Start begins the three loops and
\* tells the event handler.
Connect(beats) ==
  /\ lock # "free"
  /\ starts < MaxStarts
  /\ lock' = "free"
  /\ starts' = starts + 1
  /\ cur' = starts + 1
  /\ conn' = [conn EXCEPT ![starts + 1] = "ready"]
  /\ started' = TRUE
  /\ hearts' = hearts + beats
  /\ online' = online + 1
  /\ recv' = [recv EXCEPT ![starts + 1] = "open"]
  /\ monitors' = IF lock = "monitor"
                   THEN [monitors EXCEPT ![<<"dial", 0>>] = @ - 1, ![<<"check", 0>>] = @ + 2]
                   ELSE [monitors EXCEPT ![<<"check", 0>>] = @ + 1]
  /\ tried' = FALSE
  /\ recovered' = FALSE
  /\ UNCHANGED <<stuck, stream>>

\* Faulty variant of DialOk: only the first Start begins a heartbeat loop.
DialOkOneHeart == Connect(IF starts = 0 THEN 1 ELSE 0)

DialOk == Connect(1)

\* Faulty variant of Shutdown: the connection is not closed.
ShutdownKeepsConn ==
  /\ lock = "free"
  /\ started' = FALSE
  /\ UNCHANGED <<lock, cur, conn, starts>>

\* Shutdown closes the connection but keeps it in c.conn.
Shutdown ==
  /\ lock = "free"
  /\ conn' = IF cur = 0 THEN conn ELSE [conn EXCEPT ![cur] = "closed"]
  /\ started' = FALSE
  /\ UNCHANGED <<lock, cur, starts>>

\* The manager goes away; ClientConn may reconnect by itself.
ConnLost ==
  /\ Ready
  /\ conn' = [conn EXCEPT ![cur] = "lost"]
  /\ UNCHANGED <<lock, started, cur, starts, loopVars, historyVars>>

ConnRecovers ==
  /\ cur # 0 /\ conn[cur] = "lost"
  /\ conn' = [conn EXCEPT ![cur] = "ready"]
  /\ recovered' = TRUE
  /\ UNCHANGED <<lock, started, cur, starts, loopVars, tried>>

-----------------------------------------------------------------------------
(***************************************************************************)
(* The monitors.  IsStarted waits while a Start dials.                     *)
(***************************************************************************)

\* A monitor goes from one point of its loop to another.
Move(from, to) ==
  /\ monitors[from] > 0
  /\ monitors' = [monitors EXCEPT ![from] = @ - 1, ![to] = @ + 1]
  /\ UNCHANGED <<hearts, stuck, online, recvVars, historyVars>>

MonitorCheck ==
  /\ lock = "free" /\ started
  /\ Move(<<"check", 0>>, <<"sleep", 0>>)
  /\ UNCHANGED clientVars

MonitorEnds ==
  /\ lock = "free" /\ ~started
  /\ monitors[<<"check", 0>>] > 0
  /\ monitors' = [monitors EXCEPT ![<<"check", 0>>] = @ - 1]
  /\ UNCHANGED <<clientVars, hearts, stuck, online, recvVars, historyVars>>

\* Faulty variant of MonitorWake: any connection is taken for a lost one.
MonitorWakeAlways ==
  /\ Move(<<"sleep", 0>>, <<"shutdown", IF Ready THEN 0 ELSE cur>>)
  /\ UNCHANGED clientVars

\* After its sleep the monitor looks at c.conn, without the lock.
MonitorWake ==
  /\ IF Ready THEN Move(<<"sleep", 0>>, <<"check", 0>>)
              ELSE Move(<<"sleep", 0>>, <<"shutdown", cur>>)
  /\ UNCHANGED clientVars

MonitorShutdown(s) ==
  /\ Shutdown
  /\ Move(<<"shutdown", s>>, <<"start", 0>>)

\* Faulty variant of MonitorStart: the client is only shut down.
MonitorNoStart ==
  /\ Move(<<"start", 0>>, <<"check", 0>>)
  /\ UNCHANGED clientVars

MonitorStart ==
  \/ StartDials("monitor") /\ Move(<<"start", 0>>, <<"dial", 0>>)
  \/ StartReturns /\ Move(<<"start", 0>>, <<"check", 0>>)

-----------------------------------------------------------------------------
(***************************************************************************)
(* The other loops.                                                        *)
(***************************************************************************)

\* Faulty variant of HeartbeatEnds: the loop does not ask whether it should end.
HeartbeatForever ==
  /\ lock = "free" /\ ~started
  /\ hearts > 0
  /\ UNCHANGED grpcVars

\* heartbeatLoop: a heartbeat, whose error is ignored, and a sleep, until the client is
\* found stopped.
HeartbeatEnds ==
  /\ lock = "free" /\ ~started
  /\ hearts > 0
  /\ hearts' = hearts - 1
  /\ UNCHANGED <<clientVars, monitors, stuck, online, recvVars, historyVars>>

Opened(s) == recv[s] \in {"recv", "blocked", "deaf"}
Stuck == stuck + Cardinality({s \in Sessions : recv[s] = "blocked"})

\* A heartbeat has its answer, and its future holds one already, from a stream.
HeartbeatSticks ==
  /\ Stuck < MaxStuck
  /\ hearts > 0 /\ \E s \in Sessions : Opened(s)
  /\ hearts' = hearts - 1
  /\ stuck' = stuck + 1
  /\ UNCHANGED <<clientVars, monitors, online, recvVars, historyVars>>

\* sendOnlineMessage, in a goroutine of the event handler: if IsStarted, SendMsg, which
\* may fail over a ready connection too; an error is only logged.
SendOnline ==
  /\ lock = "free"
  /\ online > 0
  /\ online' = online - 1
  /\ tried' = (tried \/ (started /\ Ready))
  /\ UNCHANGED <<clientVars, monitors, hearts, stuck, recvVars, recovered>>

Receiver(s, pc, on) ==
  /\ recv' = [recv EXCEPT ![s] = pc]
  /\ stream' = [stream EXCEPT ![s] = on]
  /\ UNCHANGED <<clientVars, monitors, hearts, stuck, online, historyVars>>

\* streamMsgLoop opens its stream over the connection of the moment, starts the receiving
\* goroutine and waits for a context that is never done; over a connection that is not
\* ready the stream cannot be opened.
StreamOpen(s) ==
  /\ recv[s] = "open"
  /\ IF Ready THEN Receiver(s, "recv", cur) ELSE Receiver(s, "ended", 0)

\* The receiving goroutine takes messages (see Processors) until Recv fails, for whatever
\* reason; it is not begun again, and streamMsgLoop waits on.  The goroutine also asks
\* IsStarted, but a stopped client has closed its connection.
RecvError(s) ==
  /\ recv[s] = "recv"
  /\ Receiver(s, "deaf", 0)

\* It gets an answer to a heartbeat whose future holds one already; and it may go on,
\* when that heartbeat comes to wait for its answer.
RecvBlocks(s) ==
  /\ Stuck < MaxStuck
  /\ recv[s] = "recv" /\ conn[stream[s]] = "ready" /\ hearts + stuck > 0
  /\ Receiver(s, "blocked", stream[s])

RecvGoesOn(s) ==
  /\ recv[s] = "blocked" /\ hearts > 0
  /\ Receiver(s, "recv", stream[s])

Monitor ==
  \/ MonitorCheck \/ MonitorEnds \/ MonitorWake \/ MonitorStart
  \/ \E s \in 0 .. MaxStarts : MonitorShutdown(s)

\* Recv fails over a connection that is lost or closed, sooner or later.
RecvFails(s) == RecvError(s) /\ conn[stream[s]] # "ready"

Stream(s) == StreamOpen(s) \/ RecvError(s) \/ RecvGoesOn(s)

-----------------------------------------------------------------------------
(***************************************************************************)
(* Safety.                                                                 *)
(***************************************************************************)

GrpcTypeOK ==
  /\ lock \in {"free", "runner", "monitor"}
  /\ started \in BOOLEAN
  /\ starts \in 0 .. MaxStarts
  /\ cur = starts
  /\ conn \in [Sessions -> {"none", "ready", "lost", "closed"}]
  /\ monitors \in [Monitoring -> 0 .. starts]
  /\ hearts \in 0 .. starts
  /\ stuck \in 0 .. starts
  /\ online \in 0 .. starts
  /\ recv \in [Sessions -> {"none", "open", "recv", "blocked", "deaf", "ended"}]
  /\ stream \in [Sessions -> 0 .. starts]
  /\ tried \in BOOLEAN
  /\ recovered \in BOOLEAN

(* The monitors, the transport runner, Close and the GO_CLOSE processor all start and *)
(* shut down one client, and none of them leaves a connection behind: every session   *)
(* but that of a started client is closed.                                            *)
OneConnection ==
  \A s \in Sessions : conn[s] \in {"ready", "lost"} => s = cur /\ started

(* A started client is looked after: some monitor runs, some heartbeat loop has not    *)
(* ended, although it may block on an answer, and if the connection is ready and has   *)
(* been since Start, the manager has been told of the collector, maybe in vain, or is  *)
(* about to be.  That the client hears the manager is not promised: a stream that ends *)
(* is never opened again, nor is the online message repeated when ClientConn has       *)
(* reconnected by itself.                                                              *)
Supervised ==
  started =>
    /\ \E m \in Monitoring : monitors[m] > 0
    /\ hearts > 0 \/ stuck > 0
    /\ Ready /\ ~recovered => online > 0 \/ tried
=============================================================================
