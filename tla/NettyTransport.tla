--------------------------- MODULE NettyTransport ---------------------------
(***************************************************************************)
(* The life of the connection to the manager: the Runner of                *)
(* internal/transport/transport.go with the NettyClient of                 *)
(* netty_client.go.                                                        *)
(*                                                                         *)
(* Start dials with the client's mutex held; when it fails for the first   *)
(* time, a retry loop of the Runner repeats it every three seconds.  A     *)
(* successful Start creates three goroutines (readLoop, heartbeatLoop and  *)
(* connectionMonitor) and a fourth one announces the collector.  Shutdown  *)
(* comes from Close, from the cancelled context, or from a GO_OFFLINE      *)
(* message, and the peer may drop the connection at any moment.  A peer    *)
(* that stops reading until the write deadline counts as a lost one.       *)
(***************************************************************************)
EXTENDS Naturals

VARIABLES
  lock,       \* which Start holds the write lock of c.mu: "runner", "retry"
  started,    \* c.started
  conn,       \* c.conn: "nil", "up", "lost" (by the peer), "closed" (by Close)
  gzip,       \* c.gzipReader: "nil" or "open"; read and set without the lock
  starts,     \* history: how many calls of Start connected
  runner,     \* progress of Runner.Start
  retry,      \* progress of the retry loop
  ctxDone,    \* the context of Runner.Start is cancelled
  shutdowns,  \* the callers of Shutdown that have still to call it
  offline,    \* a GO_OFFLINE message waits for its delayed Shutdown
  online,     \* progress of sendOnlineMessage
  read, heart, monitor,   \* the three loops
  lossSeen    \* history: readLoop has reported EventDisconnected

sessionVars == <<started, conn, gzip, starts>>
runnerVars == <<runner, retry, ctxDone, shutdowns>>
loopVars == <<read, heart, monitor>>
vars == <<lock, sessionVars, runnerVars, offline, online, loopVars, lossSeen>>

Init ==
  /\ lock = "free"
  /\ started = FALSE
  /\ conn = "nil"
  /\ gzip = "nil"
  /\ starts = 0
  /\ runner = "init"
  /\ retry = "none"
  /\ ctxDone = FALSE
  /\ shutdowns = {"Close", "context"}
  /\ offline = FALSE
  /\ online = "none"
  /\ read = "none"
  /\ heart = "none"
  /\ monitor = "none"
  /\ lossSeen = FALSE

-----------------------------------------------------------------------------
(***************************************************************************)
(* Runner.Start, its retry loop, and NettyClient.Start.                    *)
(***************************************************************************)

\* Runner.Start cannot create a client (unsupported protocol) and goes on
\* without one.
CreateFails ==
  /\ runner = "init"
  /\ runner' = "noclient"
  /\ UNCHANGED <<lock, sessionVars, retry, ctxDone, shutdowns, offline, online, loopVars,
                 lossSeen>>

\* The first client.Start() takes the lock.
RunnerStart ==
  /\ runner = "init"
  /\ lock = "free"
  /\ lock' = "runner"
  /\ runner' = "dialing"
  /\ UNCHANGED <<sessionVars, retry, ctxDone, shutdowns, offline, online, loopVars,
                 lossSeen>>

\* The retry loop wakes up, and ends when the context is done.
RetryWake ==
  /\ retry = "sleeping"
  /\ retry' = IF ctxDone THEN "ended" ELSE "ready"
  /\ UNCHANGED <<lock, sessionVars, runner, ctxDone, shutdowns, offline, online,
                 loopVars, lossSeen>>

\* client.Start() of the retry loop; a started client needs no dial.
RetryStart ==
  /\ retry = "ready"
  /\ lock = "free"
  /\ IF started THEN retry' = "ended" /\ UNCHANGED lock
                ELSE retry' = "dialing" /\ lock' = "retry"
  /\ UNCHANGED <<sessionVars, runner, ctxDone, shutdowns, offline, online, loopVars,
                 lossSeen>>

\* Faulty variants of DialOk: the retry loop does not end; the Connected event
\* does not announce the collector.
DialOkRetries ==
  /\ lock # "free"
  /\ lock' = "free"
  /\ conn' = "up"
  /\ gzip' = "nil"
  /\ started' = TRUE
  /\ starts' = starts + 1
  /\ online' = "pending"
  /\ read' = "check" /\ heart' = "sleeping" /\ monitor' = "check"
  /\ runner' = "serving"
  /\ retry' = "sleeping"
  /\ UNCHANGED <<ctxDone, shutdowns, offline, lossSeen>>
DialOkSilent ==
  /\ lock # "free"
  /\ lock' = "free"
  /\ conn' = "up"
  /\ gzip' = "nil"
  /\ started' = TRUE
  /\ starts' = starts + 1
  /\ read' = "check" /\ heart' = "sleeping" /\ monitor' = "check"
  /\ runner' = "serving"
  /\ retry' = IF lock = "retry" THEN "ended" ELSE retry
  /\ UNCHANGED <<ctxDone, shutdowns, offline, online, lossSeen>>

\* The rest of Start after a successful dial: EventConnected, whose handler
\* starts sendOnlineMessage in a goroutine, and the three loops.
DialOk ==
  /\ lock # "free"
  /\ lock' = "free"
  /\ conn' = "up"
  /\ gzip' = "nil"
  /\ started' = TRUE
  /\ starts' = starts + 1
  /\ online' = "pending"
  /\ read' = "check" /\ heart' = "sleeping" /\ monitor' = "check"
  /\ runner' = "serving"
  /\ retry' = IF lock = "retry" THEN "ended" ELSE retry
  /\ UNCHANGED <<ctxDone, shutdowns, offline, lossSeen>>

\* The dial fails: EventConnectFailed, and the retry loop (re)starts its sleep.
DialFail ==
  /\ lock # "free"
  /\ lock' = "free"
  /\ runner' = "serving"
  /\ retry' = "sleeping"
  /\ UNCHANGED <<sessionVars, ctxDone, shutdowns, offline, online, loopVars, lossSeen>>

\* sendOnlineMessage: IsStarted and SendMsg wait for Start to release the lock.
\* A write to a lost connection may still seem to succeed.
SendOnline ==
  /\ online = "pending"
  /\ lock = "free"
  /\ online' \in IF ~started THEN {"failed"}
                 ELSE IF conn = "lost" THEN {"sent", "failed"} ELSE {"sent"}
  /\ UNCHANGED <<lock, sessionVars, runnerVars, offline, loopVars, lossSeen>>

-----------------------------------------------------------------------------
(***************************************************************************)
(* Shutdown and its three callers.                                         *)
(***************************************************************************)

\* Faulty variant of Shutdown: the client stays started.
ShutdownKeepsStarted ==
  /\ lock = "free"
  /\ gzip' = "nil"
  /\ conn' = IF conn = "nil" THEN "nil" ELSE "closed"
  /\ UNCHANGED <<lock, started, starts, runner, retry, ctxDone, online, loopVars,
                 lossSeen>>

\* NettyClient.Shutdown.  It closes the connection but keeps it in c.conn.
Shutdown ==
  /\ lock = "free"
  /\ gzip' = "nil"
  /\ conn' = IF conn = "nil" THEN "nil" ELSE "closed"
  /\ started' = FALSE
  /\ UNCHANGED <<lock, starts, runner, retry, ctxDone, online, loopVars, lossSeen>>

\* Runner.Close; without a client there is nothing to shut down.
Close ==
  /\ "Close" \in shutdowns
  /\ shutdowns' = shutdowns \ {"Close"}
  /\ Shutdown
  /\ UNCHANGED offline

ContextCancelled ==
  /\ ~ctxDone
  /\ ctxDone' = TRUE
  /\ UNCHANGED <<lock, sessionVars, runner, retry, shutdowns, offline, online, loopVars,
                 lossSeen>>

\* The goroutine of Runner.Start that waits for the context.
ContextShutdown ==
  /\ ctxDone
  /\ runner = "serving"
  /\ "context" \in shutdowns
  /\ shutdowns' = shutdowns \ {"context"}
  /\ Shutdown
  /\ UNCHANGED offline

\* The goroutine of GoOfflineProcessor, 100 ms after the message.
OfflineShutdown ==
  /\ offline
  /\ offline' = FALSE
  /\ Shutdown
  /\ UNCHANGED shutdowns

-----------------------------------------------------------------------------
(***************************************************************************)
(* The loops of a started client.  IsStarted waits while Start dials.      *)
(***************************************************************************)

PeerCloses ==
  /\ conn = "up"
  /\ conn' = "lost"
  /\ UNCHANGED <<lock, started, gzip, starts, runnerVars, offline, online, loopVars,
                 lossSeen>>

ReadCheck ==
  /\ read = "check"
  /\ lock = "free"
  /\ read' = IF started THEN "entered" ELSE "ended"
  /\ UNCHANGED <<lock, sessionVars, runnerVars, offline, online, heart, monitor, lossSeen>>

\* Faulty variant of ReadOpen: the new reader is not kept.
ReadOpenForgets ==
  /\ read = "entered"
  /\ gzip = "open" \/ conn \in {"up", "lost"}
  /\ read' = "reading"
  /\ UNCHANGED <<lock, sessionVars, runnerVars, offline, online, heart, monitor, lossSeen>>

\* readMessage uses the gzip reader, or creates one from what the peer has sent
\* (a lost connection may still have some of it in its buffer).
ReadOpen ==
  /\ read = "entered"
  /\ gzip = "open" \/ conn \in {"up", "lost"}
  /\ gzip' = "open"
  /\ read' = "reading"
  /\ UNCHANGED <<lock, started, conn, starts, runnerVars, offline, online, heart,
                 monitor, lossSeen>>

\* readMessage returns a message, whose processor gets a goroutine.
ReadMessage ==
  /\ read = "reading"
  /\ gzip = "open"
  /\ read' = "check"
  /\ offline' \in {offline, TRUE}
  /\ UNCHANGED <<lock, sessionVars, runnerVars, online, heart, monitor, lossSeen>>

\* readMessage fails, on the connection or on what it cannot decode, and the
\* loop ends: EventDisconnected unless the client itself closed the connection.
ReadError ==
  /\ read \in {"entered", "reading"}
  /\ read' = "ended"
  /\ lossSeen' \in IF conn = "closed" THEN {lossSeen, TRUE} ELSE {TRUE}
  /\ UNCHANGED <<lock, sessionVars, runnerVars, offline, online, heart, monitor>>

\* Shutdown has cleared c.gzipReader between two reads of one message: the next
\* one dereferences nil, and nothing recovers the panic.
ReadPanic ==
  /\ read = "reading"
  /\ gzip = "nil"
  /\ read' = "panicked"
  /\ UNCHANGED <<lock, sessionVars, runnerVars, offline, online, heart, monitor, lossSeen>>

\* heartbeatLoop: the test of IsStarted after the sleep.
HeartbeatWake ==
  /\ heart = "sleeping"
  /\ lock = "free"
  /\ heart' = IF started THEN "sending" ELSE "ended"
  /\ UNCHANGED <<lock, sessionVars, runnerVars, offline, online, read, monitor, lossSeen>>

\* heartbeatLoop: SendMsg; an error is only logged.
HeartbeatSend ==
  /\ heart = "sending"
  /\ lock = "free"
  /\ heart' = "sleeping"
  /\ UNCHANGED <<lock, sessionVars, runnerVars, offline, online, read, monitor, lossSeen>>

MonitorCheck ==
  /\ monitor = "check"
  /\ lock = "free"
  /\ monitor' = IF started THEN "sleeping" ELSE "ended"
  /\ UNCHANGED <<lock, sessionVars, runnerVars, offline, online, read, heart, lossSeen>>

\* connectionMonitor after its sleep.  Without a connection object it calls
\* Shutdown, after which its reconnection loop finds the client not started.
MonitorWake ==
  /\ monitor = "sleeping"
  /\ lock = "free"
  /\ monitor' = "check"
  /\ started' = (started /\ conn # "nil")
  /\ UNCHANGED <<lock, conn, gzip, starts, runnerVars, offline, online, read, heart,
                 lossSeen>>

-----------------------------------------------------------------------------

\* A panic ends the process, and with it every goroutine.
Alive(A) == read # "panicked" /\ A

Next ==
  \/ Alive(CreateFails) \/ Alive(RunnerStart)
  \/ Alive(RetryWake) \/ Alive(RetryStart) \/ Alive(DialOk) \/ Alive(DialFail)
  \/ Alive(SendOnline) \/ Alive(Close) \/ Alive(ContextCancelled)
  \/ Alive(ContextShutdown) \/ Alive(OfflineShutdown) \/ Alive(PeerCloses)
  \/ Alive(ReadCheck) \/ Alive(ReadOpen) \/ Alive(ReadMessage) \/ Alive(ReadError)
  \/ Alive(ReadPanic) \/ Alive(HeartbeatWake) \/ Alive(HeartbeatSend)
  \/ Alive(MonitorCheck) \/ Alive(MonitorWake)

Spec == Init /\ [][Next]_vars

(***************************************************************************)
(* Every goroutine runs on, a sleep ends, and a dial returns.  A manager   *)
(* that is dialled again and again is reached at last.  A goroutine that   *)
(* waits for the mutex gets it in the end (strong fairness: sync.RWMutex   *)
(* starves nobody).  A read fails once the connection is gone and what it  *)
(* had buffered is used up.                                                *)
(***************************************************************************)
Fairness ==
  /\ WF_vars(Alive(RunnerStart \/ CreateFails))
  /\ WF_vars(Alive(RetryWake)) /\ SF_vars(Alive(RetryStart))
  /\ WF_vars(Alive(DialOk \/ DialFail)) /\ SF_vars(Alive(DialOk))
  /\ SF_vars(Alive(SendOnline)) /\ SF_vars(Alive(ContextShutdown))
  /\ SF_vars(Alive(OfflineShutdown))
  /\ SF_vars(Alive(ReadCheck)) /\ SF_vars(Alive(ReadError) /\ conn # "up")
  /\ SF_vars(Alive(HeartbeatWake)) /\ SF_vars(Alive(HeartbeatSend))
  /\ SF_vars(Alive(MonitorCheck)) /\ SF_vars(Alive(MonitorWake))

FairSpec == Spec /\ Fairness

-----------------------------------------------------------------------------
(***************************************************************************)
(* Properties.                                                             *)
(***************************************************************************)

TypeOK ==
  /\ lock \in {"free", "runner", "retry"}
  /\ started \in BOOLEAN
  /\ conn \in {"nil", "up", "lost", "closed"}
  /\ gzip \in {"nil", "open"}
  /\ starts \in Nat
  /\ runner \in {"init", "noclient", "dialing", "serving"}
  /\ retry \in {"none", "sleeping", "ready", "dialing", "ended"}
  /\ ctxDone \in BOOLEAN
  /\ shutdowns \subseteq {"Close", "context"}
  /\ offline \in BOOLEAN
  /\ online \in {"none", "pending", "sent", "failed"}
  /\ read \in {"none", "check", "entered", "reading", "ended", "panicked"}
  /\ heart \in {"none", "sleeping", "sending", "ended"}
  /\ monitor \in {"none", "check", "sleeping", "ended"}
  /\ lossSeen \in BOOLEAN

\* Whatever the first attempt, the retry loop, Close and GO_OFFLINE do, at most
\* one Start connects: there is never a second set of loops on the client, and
\* no writer is replaced under a sender.
OneSession == starts <= 1

\* The nil gzip reader that kills the process is met only by a readLoop that a
\* Shutdown overlaps: losing the peer, or a message that cannot be decoded, never
\* crashes the collector.
PanicOnlyAfterShutdown == read = "panicked" => conn = "closed" /\ ~started

\* Every connection is announced: GO_ONLINE is sent, unless the connection is
\* lost or closed first.
OnlineAnnounced == (conn = "up") ~> (online = "sent" \/ conn # "up")

\* After Shutdown the three loops of the session end (or the process does).
LoopsEnd ==
  (conn = "closed") ~>
    \/ read = "ended" /\ heart = "ended" /\ monitor = "ended"
    \/ read = "panicked"

\* What docs/transport.md promises, "Automatic reconnection on connection loss",
\* even if only of a loss that readLoop has reported.
Reconnects == (lossSeen /\ conn = "lost") ~> (conn = "up" \/ ~started)

\* What transport.go says of the retry loop, which checks "whether it should
\* stop": a cancelled context ends in a client that is and stays stopped.
ContextStops == ctxDone ~> [](~started \/ read = "panicked")
=============================================================================
