------------------------------- MODULE Server -------------------------------
(***************************************************************************)
(* The server command: internal/cmd/server.go with the configuration it    *)
(* loads (internal/config/config.go), the metrics endpoint                 *)
(* (internal/metrics/metrics.go), the job runner as far as the command     *)
(* sees it, and the transport runner with the gRPC client.                 *)
(*                                                                         *)
(* The three runners start in goroutines of their own; a signal makes the  *)
(* command close them one after the other, in the order metrics, job,      *)
(* transport, whether or not they have come to start.  The context is      *)
(* cancelled only when the command returns, which ends the process.  The   *)
(* errors a runner could report to errCh do not occur: the dispatcher is   *)
(* started once, the transport reports none, and a metrics endpoint that   *)
(* cannot listen is only logged.                                           *)
(***************************************************************************)
EXTENDS GrpcTransport

CONSTANTS
  StopStarts,   \* bound: how many Starts connect in a behaviour with GO_CLOSE or a blocked loop
  SignalStarts  \* bound: how many do in a behaviour with a signal

ASSUME StopStartsAssumption == StopStarts \in Nat /\ SignalStarts \in Nat

VARIABLES
  cfg,        \* what the configuration file holds
  command,    \* progress of the command
  metrics,    \* the metrics runner
  job,        \* the job runner
  transport,  \* the transport runner
  goClose     \* a GO_CLOSE message: "none", "pending", "done"

serverVars == <<cfg, command, metrics, job, transport, goClose>>
vars == <<grpcVars, serverVars>>

\* A file that cannot be read or parsed has no configuration; the protocol may be
\* missing, as may the address of the collector.
Files == [readable : BOOLEAN, ip : BOOLEAN, port : BOOLEAN, protocol : {"", "grpc", "other"}]

\* parseConfigFile with applyDefaults: a missing protocol becomes "http".
protocolOf(f) == IF f.protocol = "" THEN "http" ELSE f.protocol

\* LoadConfig and ValidateConfig.
validConfig(f) == f.readable /\ f.ip /\ f.port

InitWith(c) ==
  /\ GrpcInit
  /\ cfg \in Files
  /\ command = c
  /\ metrics = "none"
  /\ job = "none"
  /\ transport = "none"
  /\ goClose = "none"

Init == InitWith("load")

-----------------------------------------------------------------------------
(***************************************************************************)
(* The command.                                                            *)
(***************************************************************************)

\* getConfigByPath; without a valid configuration no runner is started.
LoadConfig ==
  /\ command = "load"
  /\ \/ /\ ~validConfig(cfg)
        /\ command' = "failed"
        /\ UNCHANGED <<metrics, job, transport>>
     \/ /\ validConfig(cfg)
        /\ command' = "running"
        /\ metrics' = "starting" /\ job' = "starting" /\ transport' = "starting"
  /\ UNCHANGED <<grpcVars, cfg, goClose>>

\* The metrics runner; that the port is taken is only logged.
MetricsStart ==
  /\ metrics = "starting"
  /\ metrics' = "running"
  /\ UNCHANGED <<grpcVars, cfg, command, job, transport, goClose>>

JobStart ==
  /\ job = "starting"
  /\ job' = "running"
  /\ UNCHANGED <<grpcVars, cfg, command, metrics, transport, goClose>>

\* Runner.Start of the transport up to client.Start().  CreateClient knows neither
\* "http" nor any other protocol than "grpc" and "netty".
TransportCreate ==
  /\ transport = "starting"
  /\ transport' = IF protocolOf(cfg) = "grpc" THEN "created" ELSE "noclient"
  /\ UNCHANGED <<grpcVars, cfg, command, metrics, job, goClose>>

TransportStart ==
  /\ transport = "created"
  /\ StartDials("runner")
  /\ transport' = "dialling"
  /\ UNCHANGED <<loopVars, historyVars, cfg, command, metrics, job, goClose>>

\* The dial of the transport runner or of a monitor has connected (a monitor's comes
\* seconds after the runners were started).
Dialled ==
  /\ starts > 0 => metrics # "starting" /\ job # "starting"
  /\ command # "running" => starts < SignalStarts
  /\ goClose # "none" \/ Stuck > 0 => starts < StopStarts
  /\ DialOk
  /\ transport' = IF lock = "runner" THEN "serving" ELSE transport
  /\ UNCHANGED <<cfg, command, metrics, job, goClose>>

Signal ==
  /\ command = "running" /\ starts <= SignalStarts
  /\ command' = "closeMetrics"
  /\ UNCHANGED <<grpcVars, cfg, metrics, job, transport, goClose>>

\* cleanup: Close of a runner that has not come to start does nothing, and the
\* runner starts afterwards.
CloseMetrics ==
  /\ command = "closeMetrics"
  /\ command' = "closeJob"
  /\ metrics' = IF metrics = "starting" THEN "starting" ELSE "closed"
  /\ UNCHANGED <<grpcVars, cfg, job, transport, goClose>>

CloseJob ==
  /\ command = "closeJob"
  /\ command' = "closeTransport"
  /\ job' = IF job = "starting" THEN "starting" ELSE "closed"
  /\ UNCHANGED <<grpcVars, cfg, metrics, transport, goClose>>

\* Shutdown waits for the lock, hence for a dial that another goroutine is in.
CloseTransport ==
  /\ command = "closeTransport"
  /\ command' = "returned"
  /\ IF transport \in {"starting", "noclient"} THEN UNCHANGED clientVars ELSE Shutdown
  /\ UNCHANGED <<loopVars, historyVars, cfg, metrics, job, transport, goClose>>

\* A GO_CLOSE message, and its processor in a goroutine.
GoCloseArrives(s) ==
  /\ goClose = "none" /\ starts <= StopStarts
  /\ recv[s] = "recv" /\ conn[stream[s]] = "ready"
  /\ goClose' = "pending"
  /\ UNCHANGED <<grpcVars, cfg, command, metrics, job, transport>>

GoCloseShutdown ==
  /\ goClose = "pending"
  /\ goClose' = "done"
  /\ Shutdown
  /\ UNCHANGED <<loopVars, historyVars, cfg, command, metrics, job, transport>>

Client(A) == A /\ UNCHANGED serverVars

Blocks == starts <= StopStarts /\ (HeartbeatSticks \/ \E s \in Sessions : RecvBlocks(s))

-----------------------------------------------------------------------------

\* The process has ended, or (command = "none") this behaviour does not run it.
Exited == command \in {"none", "failed", "returned"}

Cleanup == CloseMetrics \/ CloseJob \/ CloseTransport

Next ==
  /\ ~Exited
  /\ \/ LoadConfig \/ MetricsStart \/ JobStart \/ TransportCreate \/ TransportStart
     \/ Dialled \/ Signal \/ Cleanup \/ GoCloseShutdown
     \/ Client(ConnLost) \/ Client(ConnRecovers)
     \/ Client(Monitor) \/ Client(HeartbeatEnds) \/ Client(Blocks) \/ Client(SendOnline)
     \/ \E s \in Sessions : GoCloseArrives(s) \/ Client(Stream(s))

Spec == Init /\ [][Next]_vars

\* What happens only so often for every dial; the rounds of the monitors apart.
Passing ==
  \/ LoadConfig \/ MetricsStart \/ JobStart \/ TransportCreate \/ TransportStart
  \/ Cleanup \/ GoCloseShutdown
  \/ Client(MonitorEnds \/ MonitorStart \/ \E s \in 0 .. MaxStarts : MonitorShutdown(s))
  \/ Client(HeartbeatEnds \/ SendOnline \/ \E s \in Sessions : StreamOpen(s) \/ RecvFails(s))

(***************************************************************************)
(* Every goroutine runs on, and gets the mutex when no dial holds it.  A   *)
(* behaviour has finitely many dials, hence finitely many steps of Passing *)
(* and changes of the lock, so fairness of Passing is that of each of its  *)
(* actions.  Nothing is assumed of the dial, which blocks for as long as   *)
(* the manager cannot be reached, of the connection, of the signal, or of  *)
(* a loop that blocks on a future.                                         *)
(***************************************************************************)
Fairness ==
  /\ WF_vars(~Exited /\ Passing)
  /\ WF_vars(~Exited /\ Client(MonitorCheck))
  /\ WF_vars(~Exited /\ Client(MonitorWake))

FairSpec == Spec /\ Fairness

-----------------------------------------------------------------------------
(***************************************************************************)
(* Properties.                                                             *)
(***************************************************************************)

\* Type correctness.
TypeOK ==
  /\ GrpcTypeOK
  /\ cfg \in Files
  /\ command \in {"none", "load", "failed", "running", "closeMetrics", "closeJob",
                  "closeTransport", "returned"}
  /\ metrics \in {"none", "starting", "running", "closed"}
  /\ job \in {"none", "starting", "running", "closed"}
  /\ transport \in {"none", "starting", "created", "noclient", "dialling", "serving"}
  /\ goClose \in {"none", "pending", "done"}
  /\ (lock = "runner") <=> (transport = "dialling")

(* A ready connection is shut down only by Close, by GO_CLOSE, or by a monitor whose   *)
(* last look found a connection that was not ready: this one before it recovered, or   *)
(* an earlier one, in which case the monitor kills a healthy successor (the monitors   *)
(* of all sessions live on, connectionMonitor does not know its own connection).       *)
HealthyConnectionKept ==
  [][\A s \in Sessions :
       conn[s] = "ready" /\ conn'[s] = "closed" =>
         \/ command = "closeTransport" /\ command' = "returned"
         \/ goClose = "pending" /\ goClose' = "done"
         \/ \E o \in 1 .. s : /\ monitors'[<<"shutdown", o>>] < monitors[<<"shutdown", o>>]
                              /\ o = s => recovered]_vars

(* A started client whose connection is lost is connected again, by itself or by a     *)
(* monitor that gets to dial (which blocks while the manager is away), unless GO_CLOSE *)
(* or the end of the command intervenes.                                               *)
Redials ==
  (started /\ cur # 0 /\ conn[cur] = "lost")
    ~> (Exited \/ goClose = "done" \/ lock # "free" \/ Ready)

(* Once the client has been stopped for good, by GO_CLOSE with no monitor left to      *)
(* restart it, the loops of all its sessions come to an end, although only the         *)
(* IsStarted test and the error of the closed stream end them.  What stays is a loop   *)
(* that blocks on a future and, for every stream that was opened, streamMsgLoop, which *)
(* waits for the end of context.Background().                                          *)
LoopsEnd ==
  <>[](~started /\ cur # 0 /\ lock = "free" /\ ~Exited) =>
    <>[](/\ hearts = 0
         /\ \A m \in Monitoring : monitors[m] = 0
         /\ \A s \in Sessions : recv[s] \in {"none", "blocked", "deaf", "ended"})
=============================================================================
