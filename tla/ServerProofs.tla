---------------------------- MODULE ServerProofs ----------------------------
(***************************************************************************)
(* The gRPC client under the server command, for any number of restarts:   *)
(* OneConnection, Supervised and HealthyConnectionKept of Server.  None of *)
(* them is inductive.  The invariant adds that a dial is made only by a    *)
(* stopped client, that a monitor exists only after a Start, and what a    *)
(* monitor about to shut the client down has seen: a session that is or    *)
(* was the current one and, if it still is and is ready, one that has      *)
(* recovered.                                                              *)
(*                                                                         *)
(* Below, the watcher of the configuration file, ReloadCurrent.            *)
(***************************************************************************)
EXTENDS Server, ConfigReload, TLAPS

Check == <<"check", 0>>
Sleep == <<"sleep", 0>>
Restart == <<"start", 0>>
Dial == <<"dial", 0>>
Kill(o) == <<"shutdown", o>>

\* The types the proof needs.
Typed ==
  /\ lock \in {"free", "runner", "monitor"}
  /\ started \in BOOLEAN
  /\ starts \in 0 .. MaxStarts
  /\ cur = starts
  /\ conn \in [Sessions -> {"none", "ready", "lost", "closed"}]
  /\ monitors \in [Monitoring -> Nat]
  /\ hearts \in Nat
  /\ stuck \in Nat
  /\ online \in Nat
  /\ recv \in [Sessions -> {"none", "open", "recv", "blocked", "deaf", "ended"}]
  /\ stream \in [Sessions -> 0 .. MaxStarts]
  /\ tried \in BOOLEAN
  /\ recovered \in BOOLEAN

Dialling ==
  /\ lock # "free" => ~started
  /\ lock = "monitor" => monitors[Dial] > 0

Seen ==
  /\ \A m \in Monitoring : monitors[m] > 0 => starts > 0
  /\ \A o \in 0 .. MaxStarts : monitors[Kill(o)] > 0 => o \in 1 .. starts
  /\ starts > 0 /\ monitors[Kill(starts)] > 0 /\ conn[starts] = "ready" => recovered

IInv == Typed /\ OneConnection /\ Supervised /\ Dialling /\ Seen

\* What a step of the command does to the client.
ClientStep ==
  \/ UNCHANGED grpcVars
  \/ StartDials("runner") /\ UNCHANGED <<loopVars, historyVars>>
  \/ DialOk
  \/ Shutdown /\ UNCHANGED <<loopVars, historyVars>>
  \/ ConnLost \/ ConnRecovers
  \/ MonitorCheck \/ MonitorEnds \/ MonitorWake \/ MonitorStart
  \/ \E s \in 0 .. MaxStarts : MonitorShutdown(s)
  \/ HeartbeatEnds \/ HeartbeatSticks \/ SendOnline
  \/ \E s \in Sessions : StreamOpen(s) \/ RecvError(s) \/ RecvBlocks(s) \/ RecvGoesOn(s)

\* Every step of the command is one of these steps of its gRPC client.
LEMMA StepsOfTheClient == [Next]_vars => ClientStep
<1> SUFFICES ASSUME [Next]_vars PROVE ClientStep
  BY Zenon
<1> USE DEF ClientStep
<1>1. CASE UNCHANGED vars
  BY <1>1, Zenon DEF vars
<1>2. CASE LoadConfig \/ MetricsStart \/ JobStart \/ TransportCreate \/ Signal
  BY <1>2, Zenon DEF LoadConfig, MetricsStart, JobStart, TransportCreate, Signal
<1>3. CASE TransportStart \/ Dialled \/ GoCloseShutdown
  BY <1>3, Zenon DEF TransportStart, Dialled, GoCloseShutdown
<1>4. CASE Cleanup
  BY <1>4, Zenon DEF Cleanup, CloseMetrics, CloseJob, CloseTransport, grpcVars
<1>5. CASE Client(ConnLost) \/ Client(ConnRecovers) \/ Client(HeartbeatEnds) \/ Client(SendOnline)
           \/ Client(Blocks)
  BY <1>5, Zenon DEF Client, Blocks
<1>6. CASE Client(Monitor)
  BY <1>6, Zenon DEF Client, Monitor
<1>7. ASSUME NEW s \in Sessions, GoCloseArrives(s) \/ Client(Stream(s)) PROVE ClientStep
  BY <1>7, Zenon DEF GoCloseArrives, Client, Stream
<1> QED
  BY <1>1, <1>2, <1>3, <1>4, <1>5, <1>6, <1>7, Zenon DEF Next

\* The points of a monitor's loop.
LEMMA Points ==
  /\ Check \in Monitoring /\ Sleep \in Monitoring /\ Restart \in Monitoring /\ Dial \in Monitoring
  /\ \A o \in 0 .. MaxStarts : Kill(o) \in Monitoring
  /\ Check # Sleep /\ Check # Restart /\ Check # Dial
  /\ Sleep # Restart /\ Sleep # Dial /\ Restart # Dial
  /\ \A o : Kill(o) # Check /\ Kill(o) # Sleep /\ Kill(o) # Restart /\ Kill(o) # Dial
  /\ \A o, p : Kill(o) = Kill(p) => o = p
  BY MaxStartsAssumption, Zenon DEF Check, Sleep, Restart, Dial, Kill, Monitoring

\* A monitor that moves is at one point less and at another more.
LEMMA Moves ==
  ASSUME Typed, NEW from \in Monitoring, NEW to \in Monitoring, from # to, Move(from, to)
  PROVE  /\ monitors' \in [Monitoring -> Nat]
         /\ monitors[from] > 0 /\ monitors'[from] < monitors[from]
         /\ monitors'[to] > 0
         /\ \A m \in Monitoring \ {from, to} : monitors'[m] = monitors[m]
         /\ UNCHANGED <<hearts, stuck, online, recvVars, historyVars>>
<1>1. monitors' = [monitors EXCEPT ![from] = @ - 1, ![to] = @ + 1]
  BY Zenon DEF Move
<1>2. monitors \in [Monitoring -> Nat] /\ monitors[from] > 0
  BY Zenon DEF Move, Typed
<1>3. monitors'[from] = monitors[from] - 1 /\ monitors'[to] = monitors[to] + 1
  BY <1>1, <1>2, Zenon
<1>4. \A m \in Monitoring \ {from, to} : monitors'[m] = monitors[m]
  BY <1>1, <1>2, Zenon
<1>5. monitors' \in [Monitoring -> Nat]
  BY <1>1, <1>2
<1> QED
  BY <1>2, <1>3, <1>4, <1>5 DEF Move

\* The first Start, by the runner.
LEMMA StartDialsInv ==
  ASSUME IInv, StartDials("runner"), UNCHANGED <<loopVars, historyVars>>
  PROVE  IInv'
  BY Zenon
     DEF IInv, Typed, OneConnection, Supervised, Ready, Dialling, Seen, StartDials, loopVars,
         recvVars, historyVars

\* Shutdown closes the only connection that may be live.
LEMMA ShutdownClient ==
  ASSUME IInv, Shutdown, UNCHANGED <<stream, recv>>
  PROVE  /\ lock' = "free" /\ lock = "free" /\ started' = FALSE
         /\ cur' = cur /\ starts' = starts
         /\ conn' \in [Sessions -> {"none", "ready", "lost", "closed"}]
         /\ \A s \in Sessions : conn'[s] \notin {"ready", "lost"}
<1>1. \A s \in Sessions : conn[s] \in {"ready", "lost"} => s = cur
  BY Zenon DEF IInv, OneConnection
<1>2. conn \in [Sessions -> {"none", "ready", "lost", "closed"}] /\ cur \in 0 .. MaxStarts
  BY Zenon DEF IInv, Typed
<1>3. conn' = IF cur = 0 THEN conn ELSE [conn EXCEPT ![cur] = "closed"]
  BY Zenon DEF Shutdown
<1>4. \A s \in Sessions : s # 0
  BY DEF Sessions
<1>5. \A s \in Sessions : conn'[s] \notin {"ready", "lost"}
  BY <1>1, <1>2, <1>3, <1>4, Zenon DEF Sessions
<1>6. conn' \in [Sessions -> {"none", "ready", "lost", "closed"}]
  BY <1>2, <1>3, Zenon
<1> QED
  BY <1>5, <1>6, Zenon DEF Shutdown

\* Shutdown by Close or GO_CLOSE.
LEMMA ShutdownInv ==
  ASSUME IInv, Shutdown, UNCHANGED <<loopVars, historyVars>>
  PROVE  IInv'
<1>1. UNCHANGED <<monitors, hearts, stuck, online, recv, stream, tried, recovered>>
  BY Zenon DEF loopVars, recvVars, historyVars
<1>2. /\ lock' = "free" /\ started' = FALSE /\ cur' = cur /\ starts' = starts
      /\ conn' \in [Sessions -> {"none", "ready", "lost", "closed"}]
      /\ \A s \in Sessions : conn'[s] \notin {"ready", "lost"}
  BY <1>1, ShutdownClient, Zenon
<1>3. starts > 0 => starts \in Sessions
  BY DEF IInv, Typed, Sessions
<1> QED
  BY <1>1, <1>2, <1>3, Zenon DEF IInv, Typed, OneConnection, Supervised, Dialling, Seen

\* A dial that succeeds begins a session that is looked after from the start.
LEMMA DialOkInv ==
  ASSUME IInv, DialOk
  PROVE  IInv'
<1> DEFINE new == starts + 1
<1>1. /\ lock # "free" /\ lock' = "free" /\ starts' = new /\ cur' = new /\ started' = TRUE
      /\ conn' = [conn EXCEPT ![new] = "ready"]
      /\ hearts' = hearts + 1 /\ online' = online + 1
      /\ recv' = [recv EXCEPT ![new] = "open"] /\ stream' = stream /\ stuck' = stuck
      /\ tried' = FALSE /\ recovered' = FALSE
  BY Zenon DEF DialOk, Connect
<1>2. new \in Sessions /\ new \in 1 .. MaxStarts /\ new \in 0 .. MaxStarts
  <2>1. starts \in 0 .. MaxStarts /\ starts < MaxStarts
    BY Zenon DEF DialOk, Connect, IInv, Typed
  <2> QED
    BY <2>1, MaxStartsAssumption DEF Sessions
<1>3. monitors \in [Monitoring -> Nat] /\ (lock = "monitor" => monitors[Dial] > 0)
  BY Zenon DEF IInv, Typed, Dialling
<1>4. monitors' = IF lock = "monitor"
                    THEN [monitors EXCEPT ![Dial] = @ - 1, ![Check] = @ + 2]
                    ELSE [monitors EXCEPT ![Check] = @ + 1]
  BY Zenon DEF DialOk, Connect, Dial, Check
<1>5. /\ monitors' \in [Monitoring -> Nat]
      /\ monitors'[Check] > 0
      /\ \A m \in Monitoring \ {Check} : monitors'[m] <= monitors[m]
  <2>1. CASE lock = "monitor"
    BY <1>3, <1>4, <2>1, Points
  <2>2. CASE lock # "monitor"
    BY <1>3, <1>4, <2>2, Points
  <2> QED
    BY <2>1, <2>2, Zenon
<1>6. \A s \in Sessions : conn[s] \notin {"ready", "lost"}
  BY <1>1, Zenon DEF IInv, Dialling, OneConnection
<1>7. Typed'
  <2>1. conn' \in [Sessions -> {"none", "ready", "lost", "closed"}]
        /\ recv' \in [Sessions -> {"none", "open", "recv", "blocked", "deaf", "ended"}]
    BY <1>1, <1>2, Zenon DEF IInv, Typed
  <2>2. hearts' \in Nat /\ stuck' \in Nat /\ online' \in Nat /\ starts' \in 0 .. MaxStarts
    BY <1>1, <1>2 DEF IInv, Typed
  <2>3. stream' \in [Sessions -> 0 .. MaxStarts]
    BY <1>1, Zenon DEF IInv, Typed
  <2> QED
    BY <1>1, <1>5, <2>1, <2>2, <2>3, Zenon DEF Typed
<1>8. OneConnection'
  BY <1>1, <1>2, <1>6, Zenon DEF OneConnection, IInv, Typed
<1>9. Supervised'
  <2>1. online' > 0 /\ hearts' > 0
    BY <1>1, <1>2 DEF IInv, Typed
  <2> QED
    BY <1>1, <1>5, <2>1, Points, Zenon DEF Supervised
<1>10. \A o \in 0 .. MaxStarts : monitors'[Kill(o)] > 0 => o \in 1 .. starts
  BY <1>3, <1>5, Points DEF IInv, Seen
<1>11. Seen'
  <2>1. ~(monitors'[Kill(new)] > 0)
    BY <1>2, <1>10 DEF IInv, Typed
  <2>2. \A o \in 0 .. MaxStarts : monitors'[Kill(o)] > 0 => o \in 1 .. new
    BY <1>10 DEF IInv, Typed
  <2> QED
    BY <1>1, <1>2, <2>1, <2>2 DEF Seen
<1> QED
  BY <1>1, <1>7, <1>8, <1>9, <1>11, Zenon DEF IInv, Dialling

\* The connection is lost, and recovers.
LEMMA ConnInv ==
  ASSUME IInv, ConnLost \/ ConnRecovers
  PROVE  IInv'
<1>1. /\ UNCHANGED <<lock, started, cur, starts, monitors, hearts, stuck, online, recv, stream, tried>>
      /\ \/ conn' = [conn EXCEPT ![cur] = "lost"] /\ recovered' = recovered
         \/ conn' = [conn EXCEPT ![cur] = "ready"] /\ recovered' = TRUE
      /\ cur # 0 /\ conn[cur] \in {"ready", "lost"}
  BY Zenon DEF ConnLost, ConnRecovers, Ready, loopVars, recvVars, historyVars
<1>2. cur \in Sessions /\ cur = starts
  BY <1>1 DEF IInv, Typed, Sessions
<1>3. started
  BY <1>1, <1>2, Zenon DEF IInv, OneConnection
<1>4. Typed' /\ Dialling'
  BY <1>1, <1>2, Zenon DEF IInv, Typed, Dialling
<1>5. OneConnection'
  BY <1>1, <1>2, <1>3, Zenon DEF IInv, Typed, OneConnection
<1>6. conn'[cur] = "lost" \/ recovered'
  BY <1>1, <1>2, Zenon DEF IInv, Typed
<1>7. Supervised' /\ Seen'
  BY <1>1, <1>2, <1>3, <1>6, Zenon DEF IInv, Supervised, Ready, Seen
<1> QED
  BY <1>4, <1>5, <1>7, Zenon DEF IInv

\* A monitor moves and the client stays as it is, but for the lock.
LEMMA MovesInv ==
  ASSUME IInv, NEW from \in Monitoring, NEW to \in Monitoring, from # to, Move(from, to),
         UNCHANGED <<started, cur, conn, starts>>,
         lock' \in {"free", "runner", "monitor"}, Dialling',
         \A o \in 0 .. MaxStarts :
           to = Kill(o) => o \in 1 .. starts /\ (o = starts => conn[o] # "ready")
  PROVE  IInv'
<1>1. /\ monitors' \in [Monitoring -> Nat] /\ monitors[from] > 0 /\ monitors'[to] > 0
      /\ monitors'[from] < monitors[from]
      /\ \A m \in Monitoring \ {from, to} : monitors'[m] = monitors[m]
      /\ UNCHANGED <<hearts, stuck, online, recv, stream, tried, recovered>>
  BY Moves, Zenon DEF IInv, recvVars, historyVars
<1>2. Typed'
  BY <1>1, Zenon DEF IInv, Typed
<1>3. OneConnection'
  BY Zenon DEF IInv, OneConnection
<1>4. Supervised'
  BY <1>1, Zenon DEF IInv, Supervised, Ready
<1>5. \A m \in Monitoring \ {to} : monitors'[m] > 0 => monitors[m] > 0
  BY <1>1, Zenon DEF IInv, Typed
<1>6. starts > 0
  BY <1>1, Zenon DEF IInv, Seen
<1>7. \A o \in 0 .. MaxStarts : monitors'[Kill(o)] > 0 => o \in 1 .. starts
  BY <1>5, Points, Zenon DEF IInv, Seen
<1>8. monitors'[Kill(starts)] > 0 /\ conn[starts] = "ready" => recovered
  <2>1. starts \in 0 .. MaxStarts
    BY Zenon DEF IInv, Typed
  <2> QED
    BY <1>5, <1>6, <2>1, Points, Zenon DEF IInv, Seen
<1>9. Seen'
  BY <1>1, <1>6, <1>7, <1>8, Zenon DEF Seen
<1> QED
  BY <1>2, <1>3, <1>4, <1>9, Zenon DEF IInv

\* The round of a monitor that finds nothing to do, its end, and its Start.
LEMMA MonitorInv ==
  ASSUME IInv, MonitorCheck \/ MonitorEnds \/ MonitorStart
  PROVE  IInv'
<1>1. CASE MonitorCheck
  <2>1. Move(Check, Sleep) /\ UNCHANGED <<lock, started, cur, conn, starts>> /\ lock = "free"
    BY <1>1, Zenon DEF MonitorCheck, Check, Sleep, clientVars
  <2>2. Dialling' /\ lock' \in {"free", "runner", "monitor"}
    BY <2>1, Zenon DEF Dialling
  <2> QED
    BY <2>1, <2>2, MovesInv, Points, Zenon
<1>2. CASE MonitorEnds
  <2>1. /\ monitors' = [monitors EXCEPT ![Check] = @ - 1] /\ monitors[Check] > 0 /\ ~started
        /\ UNCHANGED <<lock, started, cur, conn, starts, hearts, stuck, online, recv, stream>>
        /\ UNCHANGED <<tried, recovered>>
    BY <1>2, Zenon DEF MonitorEnds, Check, clientVars, recvVars, historyVars
  <2>2. /\ monitors' \in [Monitoring -> Nat]
        /\ \A m \in Monitoring : monitors'[m] > 0 => monitors[m] > 0
        /\ \A m \in Monitoring \ {Check} : monitors'[m] = monitors[m]
    BY <2>1, Points DEF IInv, Typed
  <2>3. Typed' /\ OneConnection' /\ Supervised'
    BY <2>1, <2>2, Zenon DEF IInv, Typed, OneConnection, Supervised
  <2>4. Dialling' /\ Seen'
    BY <2>1, <2>2, Points, Zenon DEF IInv, Typed, Dialling, Seen
  <2> QED
    BY <2>3, <2>4, Zenon DEF IInv
<1>3. ASSUME StartDials("monitor"), Move(Restart, Dial) PROVE IInv'
  <2>1. /\ UNCHANGED <<started, cur, conn, starts>> /\ ~started /\ lock' = "monitor"
        /\ monitors'[Dial] > 0
    BY <1>3, Moves, Points, Zenon DEF StartDials, IInv
  <2>2. Dialling' /\ lock' \in {"free", "runner", "monitor"}
    BY <2>1, Zenon DEF Dialling
  <2> QED
    BY <1>3, <2>1, <2>2, MovesInv, Points, Zenon
<1>4. ASSUME StartReturns, Move(Restart, Check) PROVE IInv'
  <2>1. UNCHANGED <<lock, started, cur, conn, starts>> /\ lock = "free"
    BY <1>4, Zenon DEF StartReturns, clientVars
  <2>2. Dialling' /\ lock' \in {"free", "runner", "monitor"}
    BY <2>1, Zenon DEF Dialling
  <2> QED
    BY <1>4, <2>1, <2>2, MovesInv, Points, Zenon
<1> QED
  BY <1>1, <1>2, <1>3, <1>4, Zenon DEF MonitorStart, Restart, Dial, Check

\* A monitor that wakes up remembers a session that is not ready.
LEMMA MonitorWakeInv ==
  ASSUME IInv, MonitorWake
  PROVE  IInv'
<1>1. UNCHANGED <<lock, started, cur, conn, starts>>
  BY Zenon DEF MonitorWake, clientVars
<1>2. lock' \in {"free", "runner", "monitor"} /\ cur \in 0 .. MaxStarts /\ cur = starts
  BY <1>1, Zenon DEF IInv, Typed
<1>3. ASSUME NEW to \in Monitoring, to \notin {Sleep, Dial}, Move(Sleep, to) PROVE Dialling'
  <2>1. monitors'[Dial] = monitors[Dial]
    BY <1>3, Moves, Points DEF IInv
  <2> QED
    BY <1>1, <2>1, Zenon DEF IInv, Dialling
<1>4. ASSUME Ready, Move(Sleep, Check) PROVE IInv'
  BY <1>1, <1>2, <1>3, <1>4, MovesInv, Points, Zenon
<1>5. ASSUME ~Ready, Move(Sleep, Kill(cur)) PROVE IInv'
  <2>1. starts > 0
    BY <1>5, Points, Zenon DEF IInv, Seen, Move
  <2>2. conn[cur] # "ready" /\ cur \in 1 .. starts
    BY <1>2, <1>5, <2>1 DEF Ready
  <2>3. Dialling'
    BY <1>2, <1>3, <1>5, Points, Zenon
  <2> QED
    BY <1>1, <1>2, <1>5, <2>2, <2>3, MovesInv, Points, Zenon
<1> QED
  BY <1>4, <1>5, Zenon DEF MonitorWake, Sleep, Check, Kill

\* A monitor shuts the client down.
LEMMA MonitorShutdownInv ==
  ASSUME IInv, NEW s \in 0 .. MaxStarts, MonitorShutdown(s)
  PROVE  IInv'
<1>1. Shutdown /\ Move(Kill(s), Restart)
  BY Zenon DEF MonitorShutdown, Kill, Restart
<1>2. /\ monitors' \in [Monitoring -> Nat] /\ monitors[Kill(s)] > 0
      /\ monitors'[Kill(s)] < monitors[Kill(s)]
      /\ \A m \in Monitoring \ {Kill(s), Restart} : monitors'[m] = monitors[m]
      /\ UNCHANGED <<hearts, stuck, online, recv, stream, tried, recovered>>
  BY <1>1, Moves, Points, Zenon DEF IInv, recvVars, historyVars
<1>3. /\ lock' = "free" /\ started' = FALSE /\ cur' = cur /\ starts' = starts
      /\ conn' \in [Sessions -> {"none", "ready", "lost", "closed"}]
      /\ \A t \in Sessions : conn'[t] \notin {"ready", "lost"}
  BY <1>1, <1>2, ShutdownClient, Zenon
<1>4. starts > 0 /\ starts \in Sessions
  BY <1>2, Points DEF IInv, Typed, Seen, Sessions
<1>5. \A o \in 0 .. MaxStarts : monitors'[Kill(o)] > 0 => monitors[Kill(o)] > 0
  BY <1>2, Points, Zenon DEF IInv, Typed
<1>6. Typed' /\ OneConnection' /\ Supervised' /\ Dialling'
  BY <1>2, <1>3, Zenon DEF IInv, Typed, OneConnection, Supervised, Dialling
<1>7. Seen'
  BY <1>2, <1>3, <1>4, <1>5, Zenon DEF IInv, Seen
<1> QED
  BY <1>6, <1>7, Zenon DEF IInv

\* The other loops.
LEMMA LoopsInv ==
  ASSUME IInv,
         \/ HeartbeatEnds \/ HeartbeatSticks \/ SendOnline
         \/ \E s \in Sessions : StreamOpen(s) \/ RecvError(s) \/ RecvBlocks(s) \/ RecvGoesOn(s)
  PROVE  IInv'
<1>1. CASE HeartbeatEnds
  <2>1. /\ UNCHANGED <<lock, started, cur, conn, starts, monitors, stuck, online, recv, stream>>
        /\ UNCHANGED <<tried, recovered>> /\ ~started /\ hearts > 0 /\ hearts' = hearts - 1
    BY <1>1, Zenon DEF HeartbeatEnds, clientVars, recvVars, historyVars
  <2>2. hearts' \in Nat
    BY <2>1 DEF IInv, Typed
  <2> QED
    BY <2>1, <2>2, Zenon DEF IInv, Typed, OneConnection, Supervised, Dialling, Seen
<1>2. CASE HeartbeatSticks
  <2>1. /\ UNCHANGED <<lock, started, cur, conn, starts, monitors, online, recv, stream>>
        /\ UNCHANGED <<tried, recovered>> /\ hearts > 0 /\ hearts' = hearts - 1
        /\ stuck' = stuck + 1
    BY <1>2, Zenon DEF HeartbeatSticks, clientVars, recvVars, historyVars
  <2>2. hearts' \in Nat /\ stuck' \in Nat /\ stuck' > 0
    BY <2>1 DEF IInv, Typed
  <2>3. Typed' /\ OneConnection' /\ Dialling' /\ Seen'
    BY <2>1, <2>2, Zenon DEF IInv, Typed, OneConnection, Dialling, Seen
  <2>4. Supervised'
    BY <2>1, <2>2, Zenon DEF IInv, Supervised, Ready
  <2> QED
    BY <2>3, <2>4, Zenon DEF IInv
<1>3. CASE SendOnline
  <2>1. /\ UNCHANGED <<lock, started, cur, conn, starts, monitors, hearts, stuck, recv, stream>>
        /\ UNCHANGED recovered /\ online > 0 /\ online' = online - 1
        /\ tried' = (tried \/ (started /\ Ready))
    BY <1>3, Zenon DEF SendOnline, clientVars, recvVars
  <2>2. online' \in Nat
    BY <2>1 DEF IInv, Typed
  <2>3. tried' \in BOOLEAN
    BY <2>1, Zenon DEF IInv, Typed
  <2>4. Typed' /\ OneConnection' /\ Dialling' /\ Seen'
    BY <2>1, <2>2, <2>3, Zenon DEF IInv, Typed, OneConnection, Dialling, Seen
  <2>5. Supervised'
    BY <2>1, Zenon DEF IInv, Supervised, Ready
  <2> QED
    BY <2>4, <2>5, Zenon DEF IInv
<1>4. ASSUME NEW s \in Sessions,
             StreamOpen(s) \/ RecvError(s) \/ RecvBlocks(s) \/ RecvGoesOn(s)
      PROVE  IInv'
  <2>1. 0 \in 0 .. MaxStarts /\ cur \in 0 .. MaxStarts /\ stream[s] \in 0 .. MaxStarts
    BY MaxStartsAssumption DEF IInv, Typed
  <2>2. PICK pc \in {"recv", "blocked", "deaf", "ended"}, on \in 0 .. MaxStarts : Receiver(s, pc, on)
    BY <1>4, <2>1, Zenon DEF StreamOpen, RecvError, RecvBlocks, RecvGoesOn
  <2>3. /\ recv' = [recv EXCEPT ![s] = pc] /\ stream' = [stream EXCEPT ![s] = on]
        /\ UNCHANGED <<lock, started, cur, conn, starts, monitors, hearts, stuck, online>>
        /\ UNCHANGED <<tried, recovered>>
    BY <2>2, Zenon DEF Receiver, clientVars, historyVars
  <2> QED
    BY <2>3, Zenon DEF IInv, Typed, OneConnection, Supervised, Ready, Dialling, Seen
<1> QED
  BY <1>1, <1>2, <1>3, <1>4, Zenon

\* The invariant holds initially.
LEMMA InitInv == Init => IInv
<1> SUFFICES ASSUME Init PROVE IInv
  BY Zenon
<1>1. GrpcInit
  BY Zenon DEF Init, InitWith
<1>2. Typed
  <2>1. /\ starts \in 0 .. MaxStarts /\ cur = starts
        /\ hearts \in Nat /\ stuck \in Nat /\ online \in Nat
    BY <1>1, MaxStartsAssumption DEF GrpcInit
  <2>2. 0 \in 0 .. MaxStarts /\ 0 \in Nat
    BY MaxStartsAssumption
  <2>3. stream \in [Sessions -> 0 .. MaxStarts] /\ monitors \in [Monitoring -> Nat]
    BY <1>1, <2>2, Zenon DEF GrpcInit
  <2>4. /\ conn \in [Sessions -> {"none", "ready", "lost", "closed"}]
        /\ recv \in [Sessions -> {"none", "open", "recv", "blocked", "deaf", "ended"}]
    BY <1>1, Zenon DEF GrpcInit
  <2>5. /\ lock \in {"free", "runner", "monitor"}
        /\ started \in BOOLEAN /\ tried \in BOOLEAN /\ recovered \in BOOLEAN
    BY <1>1, Zenon DEF GrpcInit
  <2> QED
    BY <2>1, <2>3, <2>4, <2>5, Zenon DEF Typed
<1>3. \A m \in Monitoring : ~(monitors[m] > 0)
  BY <1>1 DEF GrpcInit
<1>4. OneConnection /\ Supervised /\ Dialling
  BY <1>1, Zenon DEF GrpcInit, OneConnection, Supervised, Dialling
<1>5. Seen
  BY <1>1, <1>3, Points, Zenon DEF GrpcInit, Seen
<1> QED
  BY <1>2, <1>4, <1>5, Zenon DEF IInv

\* Every step of the command keeps the invariant.
LEMMA NextInv == IInv /\ [Next]_vars => IInv'
<1> SUFFICES ASSUME IInv, ClientStep PROVE IInv'
  BY StepsOfTheClient, Zenon
<1>1. CASE UNCHANGED grpcVars
  BY <1>1, Zenon
     DEF IInv, Typed, OneConnection, Supervised, Ready, Dialling, Seen, grpcVars, clientVars,
              loopVars, recvVars, historyVars
<1> QED
  BY <1>1, StartDialsInv, ShutdownInv, DialOkInv, ConnInv, MonitorInv, MonitorWakeInv,
     MonitorShutdownInv, LoopsInv, Zenon DEF ClientStep

\* The invariant is one of the command.
LEMMA Invariance == Spec => []IInv
  BY InitInv, NextInv, PTL DEF Spec

(* However often the monitors, the runner, Close and GO_CLOSE start and shut down the  *)
(* client of grpc_client.go, every connection but that of the started client is closed. *)
THEOREM OneConnectionHolds == Spec => []OneConnection
<1>1. IInv => OneConnection
  BY Zenon DEF IInv
<1> QED
  BY <1>1, Invariance, PTL

(* A started client has a monitor and a heartbeat loop that has not ended, and the      *)
(* manager is told of it, maybe in vain, over a connection that is ready since Start.   *)
THEOREM SupervisedHolds == Spec => []Supervised
<1>1. IInv => Supervised
  BY Zenon DEF IInv
<1> QED
  BY <1>1, Invariance, PTL

\* Who may have closed a connection that was ready.
LEMMA WhoCloses ==
  ASSUME IInv, [Next]_vars, NEW s \in Sessions, conn[s] = "ready", conn'[s] = "closed"
  PROVE  \/ command = "closeTransport" /\ command' = "returned"
         \/ goClose = "pending" /\ goClose' = "done"
         \/ \E o \in 1 .. s : /\ monitors'[<<"shutdown", o>>] < monitors[<<"shutdown", o>>]
                              /\ o = s => recovered
<1>1. s = cur /\ started /\ cur = starts /\ s \in 1 .. MaxStarts /\ lock = "free"
  BY Zenon DEF IInv, OneConnection, Typed, Sessions, Dialling
<1>2. conn \in [Sessions -> {"none", "ready", "lost", "closed"}]
  BY Zenon DEF IInv, Typed
<1>3. conn' # conn
  BY Zenon
<1>4. ASSUME Shutdown \/ UNCHANGED conn, NEW o \in 0 .. MaxStarts, MonitorShutdown(o)
      PROVE  o \in 1 .. s /\ monitors'[Kill(o)] < monitors[Kill(o)] /\ (o = s => recovered)
  <2>1. Move(Kill(o), Restart)
    BY <1>4, Zenon DEF MonitorShutdown, Kill, Restart
  <2>2. monitors[Kill(o)] > 0 /\ monitors'[Kill(o)] < monitors[Kill(o)]
    BY <2>1, Moves, Points, Zenon DEF IInv
  <2> QED
    BY <1>1, <2>2 DEF IInv, Seen
<1>5. CASE Client(Monitor)
  <2>1. PICK o \in 0 .. MaxStarts : MonitorShutdown(o)
    BY <1>3, <1>5, Zenon
       DEF Client, Monitor, MonitorCheck, MonitorEnds, MonitorWake, MonitorStart,
                      StartDials, StartReturns, clientVars
  <2> QED
    BY <1>4, <2>1, Zenon DEF MonitorShutdown, Kill
<1>6. CASE CloseTransport \/ GoCloseShutdown
  BY <1>6, Zenon DEF CloseTransport, GoCloseShutdown
<1>7. CASE Client(ConnLost) \/ Client(ConnRecovers)
  BY <1>1, <1>2, <1>7, Zenon DEF Client, ConnLost, ConnRecovers
<1>8. ~ Dialled
  BY <1>1, Zenon DEF Dialled, DialOk, Connect
<1>9. CASE LoadConfig \/ MetricsStart \/ JobStart \/ TransportCreate \/ TransportStart \/ Signal
  BY <1>3, <1>9, Zenon
     DEF LoadConfig, MetricsStart, JobStart, TransportCreate, TransportStart, Signal,
                    StartDials, grpcVars, clientVars
<1>10. CASE CloseMetrics \/ CloseJob \/ Client(HeartbeatEnds) \/ Client(Blocks) \/ Client(SendOnline)
  BY <1>3, <1>10, Zenon
     DEF CloseMetrics, CloseJob, Client, HeartbeatEnds, Blocks, HeartbeatSticks, RecvBlocks,
         Receiver, SendOnline, grpcVars, clientVars
<1>11. ASSUME NEW t \in Sessions, GoCloseArrives(t) \/ Client(Stream(t)) PROVE FALSE
  BY <1>3, <1>11, Zenon
     DEF GoCloseArrives, Client, Stream, StreamOpen, RecvError, RecvGoesOn, Receiver, grpcVars,
         clientVars
<1>12. ~ UNCHANGED vars
  BY <1>3, Zenon DEF vars, grpcVars, clientVars
<1> QED
  BY <1>5, <1>6, <1>7, <1>8, <1>9, <1>10, <1>11, <1>12, Zenon DEF Next, Cleanup

(* A ready connection is closed only by Close, by GO_CLOSE, or by a monitor that found  *)
(* this connection not ready before it recovered, or an earlier one.                    *)
THEOREM HealthyConnectionKeptHolds == Spec => HealthyConnectionKept
<1> DEFINE Kept ==
      \A s \in Sessions :
        conn[s] = "ready" /\ conn'[s] = "closed" =>
          \/ command = "closeTransport" /\ command' = "returned"
          \/ goClose = "pending" /\ goClose' = "done"
          \/ \E o \in 1 .. s : /\ monitors'[<<"shutdown", o>>] < monitors[<<"shutdown", o>>]
                               /\ o = s => recovered
<1>1. IInv /\ [Next]_vars => Kept
  BY WhoCloses, Zenon
<1>2. IInv /\ [Next]_vars => [Kept]_vars
  BY <1>1, Zenon
<1> HIDE DEF Kept
<1>3. Spec => [][Kept]_vars
  BY <1>2, Invariance, PTL DEF Spec
<1> USE DEF Kept
<1> QED
  BY <1>3, Zenon DEF HealthyConnectionKept
-----------------------------------------------------------------------------
(***************************************************************************)
(* ReloadCurrent of ConfigReload, for any number of changes of the file.   *)
(* The property speaks of the moments when nothing is under way; the       *)
(* invariant says what is under way otherwise: as long as a change is not  *)
(* installed its event waits, or a reload is asleep that will read it, or  *)
(* one has read it, and a reload that holds an older version is followed   *)
(* by another.                                                             *)
(***************************************************************************)

\* The types the proof needs; every accepted event stands for a change of the file.
ReloadTyped ==
  /\ watcher \in {"off", "watching", "stopped"}
  /\ file.version \in 0 .. MaxWrites /\ file.ok \in BOOLEAN
  /\ events \in Nat /\ last \in Nat /\ last + events <= file.version
  /\ recent \in BOOLEAN /\ overlapped \in BOOLEAN
  /\ reloads \in [Goroutines -> [pc : {"none", "sleep", "install", "clear", "ended"},
                                 read : 0 .. MaxWrites]]

Sleeping(g) == reloads[g].pc = "sleep"
Installing(g) == reloads[g].pc = "install"

\* Only versions that parsed and validated are on their way.
OnlyValid ==
  /\ file.ok => file.version \in valid
  /\ installed \in valid
  /\ \A g \in Goroutines : Installing(g) => reloads[g].read \in valid

\* The flags: a reload does not wake up within the time in which events are dropped.
Debounced ==
  recent => last \in Goroutines /\ Sleeping(last)

\* The file will be read again.
ToBeRead == events > 0 \/ \E g \in Goroutines : Sleeping(g)

UnderWay ==
  /\ \A g, h \in Goroutines : Installing(g) /\ Installing(h) => g = h
  /\ \A g \in Goroutines : Installing(g) /\ reloads[g].read # file.version => ToBeRead
  /\ file.ok => \/ ToBeRead
                \/ \E g \in Goroutines : Installing(g)
                \/ installed = file.version

ReloadIInv == ReloadTyped /\ OnlyValid /\ Debounced /\ (~overlapped => UnderWay)

-----------------------------------------------------------------------------
\* A change of the file is reported.
LEMMA ChangeFileInv ==
  ASSUME ReloadIInv, ChangeFile
  PROVE  ReloadIInv'
<1>1. PICK ok \in BOOLEAN :
        /\ file' = [version |-> file.version + 1, ok |-> ok]
        /\ valid' = IF ok THEN valid \cup {file.version + 1} ELSE valid
  BY Zenon DEF ChangeFile
<1>2. /\ events' = events + 1 /\ file.version < MaxWrites
      /\ UNCHANGED <<watcher, pending, recent, last, reloads, installed, overlapped>>
  BY Zenon DEF ChangeFile
<1>3. ReloadTyped'
  BY <1>1, <1>2, MaxWritesAssumption DEF ReloadIInv, ReloadTyped
<1>4. OnlyValid' /\ Debounced'
  BY <1>1, <1>2, Zenon DEF ReloadIInv, OnlyValid, Debounced, Installing, Sleeping
<1>5. ToBeRead'
  BY <1>2 DEF ToBeRead, ReloadIInv, ReloadTyped
<1>6. ~overlapped' => UnderWay'
  BY <1>2, <1>5, Zenon DEF ReloadIInv, UnderWay, Installing
<1> QED
  BY <1>3, <1>4, <1>6, Zenon DEF ReloadIInv

\* An event is accepted, or dropped while the pending reload is asleep.
LEMMA EventInv ==
  ASSUME ReloadIInv, Event
  PROVE  ReloadIInv'
<1>1. /\ events > 0 /\ events' = events - 1
      /\ UNCHANGED <<watcher, file, valid, installed, overlapped>>
  BY Zenon DEF Event
<1>2. CASE ~pending \/ ~recent
  <2>1. /\ recent' = TRUE /\ last' = last + 1
        /\ reloads' = [reloads EXCEPT ![last + 1].pc = "sleep"]
    BY <1>2, Zenon DEF Event
  <2>2. last + 1 \in Goroutines
    BY <1>1, MaxWritesAssumption DEF ReloadIInv, ReloadTyped, Goroutines
  <2>3. /\ reloads' \in [Goroutines -> [pc : {"none", "sleep", "install", "clear", "ended"},
                                        read : 0 .. MaxWrites]]
        /\ reloads'[last + 1].pc = "sleep"
        /\ \A g \in Goroutines \ {last + 1} : reloads'[g] = reloads[g]
    BY <2>1, <2>2, Zenon DEF ReloadIInv, ReloadTyped
  <2>4. ReloadTyped'
    BY <1>1, <2>1, <2>3 DEF ReloadIInv, ReloadTyped
  <2>5. \A g \in Goroutines : Installing(g)' => Installing(g) /\ reloads'[g] = reloads[g]
    BY <2>3, Zenon DEF Installing
  <2>6. OnlyValid' /\ Debounced' /\ ToBeRead'
    BY <1>1, <2>1, <2>2, <2>3, <2>5, Zenon
       DEF ReloadIInv, OnlyValid, Debounced, ToBeRead, Sleeping, Installing
  <2>7. ~overlapped' => UnderWay'
    BY <1>1, <2>5, <2>6, Zenon DEF ReloadIInv, UnderWay, Installing
  <2> QED
    BY <2>4, <2>6, <2>7, Zenon DEF ReloadIInv
<1>3. CASE ~(~pending \/ ~recent)
  <2>1. UNCHANGED <<recent, last, reloads>> /\ recent
    BY <1>3, Zenon DEF Event, ReloadIInv, ReloadTyped
  <2>2. ReloadTyped'
    BY <1>1, <2>1 DEF ReloadIInv, ReloadTyped
  <2>3. OnlyValid' /\ Debounced' /\ ToBeRead'
    BY <1>1, <2>1, Zenon DEF ReloadIInv, OnlyValid, Debounced, ToBeRead, Sleeping, Installing
  <2>4. ~overlapped' => UnderWay'
    BY <1>1, <2>1, <2>3, Zenon DEF ReloadIInv, UnderWay, Installing
  <2> QED
    BY <2>2, <2>3, <2>4, Zenon DEF ReloadIInv
<1> QED
  BY <1>2, <1>3, Zenon

\* A reload wakes up and reads the file.
LEMMA ReloadInv ==
  ASSUME ReloadIInv, NEW g \in Goroutines, Reload(g)
  PROVE  ReloadIInv'
<1> DEFINE to == [pc |-> IF file.ok THEN "install" ELSE "clear", read |-> file.version]
<1>1. /\ Sleeping(g) /\ (g = last => ~recent)
      /\ reloads' = [reloads EXCEPT ![g] = to]
      /\ overlapped' = (overlapped \/ \E h \in Goroutines : Installing(h))
      /\ UNCHANGED <<watcher, file, valid, events, pending, recent, last, installed>>
  BY Zenon DEF Reload, Sleeping, Installing
<1>2. to \in [pc : {"none", "sleep", "install", "clear", "ended"}, read : 0 .. MaxWrites]
  BY Zenon DEF ReloadIInv, ReloadTyped
<1>3. reloads'[g] = to /\ \A h \in Goroutines \ {g} : reloads'[h] = reloads[h]
  BY <1>1, Zenon DEF ReloadIInv, ReloadTyped
<1>4. overlapped' \in BOOLEAN
  BY <1>1, Zenon DEF ReloadIInv, ReloadTyped
<1>5. ReloadTyped'
  BY <1>1, <1>2, <1>4, Zenon DEF ReloadIInv, ReloadTyped
<1>6. OnlyValid' /\ Debounced'
  BY <1>1, <1>3 DEF ReloadIInv, OnlyValid, Debounced, Sleeping, Installing
<1>7. ASSUME ~overlapped' PROVE UnderWay'
  <2>1. \A h \in Goroutines : ~Installing(h)
    BY <1>1, <1>7, Zenon
  <2>2. \A h \in Goroutines : Installing(h)' => h = g /\ reloads'[h].read = file.version
    BY <1>3, <2>1 DEF Installing
  <2>3. file.ok => Installing(g)'
    BY <1>3 DEF Installing
  <2> QED
    BY <1>1, <2>2, <2>3, Zenon DEF UnderWay
<1> QED
  BY <1>5, <1>6, <1>7, Zenon DEF ReloadIInv

\* A reload installs what it has read.
LEMMA InstallInv ==
  ASSUME ReloadIInv, NEW g \in Goroutines, Install(g)
  PROVE  ReloadIInv'
<1>1. /\ Installing(g) /\ installed' = reloads[g].read
      /\ reloads' = [reloads EXCEPT ![g].pc = "clear"]
      /\ UNCHANGED <<watcher, file, valid, events, pending, recent, last, overlapped>>
  BY Zenon DEF Install, Installing
<1>2. /\ reloads' \in [Goroutines -> [pc : {"none", "sleep", "install", "clear", "ended"},
                                      read : 0 .. MaxWrites]]
      /\ reloads'[g].pc = "clear" /\ \A h \in Goroutines \ {g} : reloads'[h] = reloads[h]
  BY <1>1, Zenon DEF ReloadIInv, ReloadTyped
<1>3. ReloadTyped'
  BY <1>1, <1>2, Zenon DEF ReloadIInv, ReloadTyped
<1>4. OnlyValid' /\ Debounced'
  BY <1>1, <1>2, Zenon DEF ReloadIInv, OnlyValid, Debounced, Sleeping, Installing
<1>5. ToBeRead => ToBeRead'
  BY <1>1, <1>2, Zenon DEF ToBeRead, Sleeping, Installing
<1>6. ~overlapped' => UnderWay'
  BY <1>1, <1>2, <1>5 DEF ReloadIInv, UnderWay, Installing
<1> QED
  BY <1>3, <1>4, <1>6, Zenon DEF ReloadIInv

\* A reload ends and clears the flag.
LEMMA ClearPendingInv ==
  ASSUME ReloadIInv, NEW g \in Goroutines, ClearPending(g)
  PROVE  ReloadIInv'
<1>1. /\ reloads[g].pc = "clear" /\ reloads' = [reloads EXCEPT ![g].pc = "ended"]
      /\ UNCHANGED <<watcher, file, valid, events, recent, last, installed, overlapped>>
  BY Zenon DEF ClearPending
<1>2. /\ reloads' \in [Goroutines -> [pc : {"none", "sleep", "install", "clear", "ended"},
                                      read : 0 .. MaxWrites]]
      /\ reloads'[g].pc = "ended" /\ \A h \in Goroutines \ {g} : reloads'[h] = reloads[h]
  BY <1>1, Zenon DEF ReloadIInv, ReloadTyped
<1>3. ReloadTyped'
  BY <1>1, <1>2, Zenon DEF ReloadIInv, ReloadTyped
<1>4. \A h \in Goroutines : /\ Installing(h)' <=> Installing(h)
                            /\ Installing(h) => reloads'[h] = reloads[h]
                            /\ Sleeping(h)' <=> Sleeping(h)
  BY <1>1, <1>2, Zenon DEF Installing, Sleeping
<1>5. OnlyValid' /\ Debounced'
  BY <1>1, <1>4 DEF ReloadIInv, OnlyValid, Debounced
<1>6. ~overlapped' => UnderWay'
  BY <1>1, <1>4, Zenon DEF ReloadIInv, UnderWay, ToBeRead
<1> QED
  BY <1>3, <1>5, <1>6, Zenon DEF ReloadIInv

\* The invariant of the watcher.
LEMMA ReloadInvariance == ReloadSpec => []ReloadIInv
<1>1. ReloadInit("watching") => ReloadIInv
  <2> SUFFICES ASSUME ReloadInit("watching") PROVE ReloadIInv
    BY Zenon
  <2>1. 0 \in 0 .. MaxWrites
    BY MaxWritesAssumption
  <2>2. reloads \in [Goroutines -> [pc : {"none", "sleep", "install", "clear", "ended"},
                                    read : 0 .. MaxWrites]]
    BY <2>1, Zenon DEF ReloadInit
  <2>3. file.version = 0 /\ file.ok = TRUE /\ events = 0 /\ last = 0
    BY Zenon DEF ReloadInit
  <2>4. ReloadTyped
    <3>1. last + events <= file.version /\ events \in Nat /\ last \in Nat
      BY <2>3
    <3>2. recent \in BOOLEAN /\ overlapped \in BOOLEAN /\ watcher \in {"off", "watching", "stopped"}
      BY Zenon DEF ReloadInit
    <3> QED
      BY <2>1, <2>2, <2>3, <3>1, <3>2, Zenon DEF ReloadTyped
  <2>5. OnlyValid /\ Debounced /\ UnderWay
    BY <2>3, Zenon DEF ReloadInit, OnlyValid, Debounced, UnderWay, Installing
  <2> QED
    BY <2>4, <2>5, Zenon DEF ReloadIInv
<1>2. ReloadIInv /\ [ReloadNext]_reloadVars => ReloadIInv'
  <2> SUFFICES ASSUME ReloadIInv, [ReloadNext]_reloadVars PROVE ReloadIInv'
    BY Zenon
  <2>1. CASE UNCHANGED reloadVars
    BY <2>1, Zenon
       DEF reloadVars, ReloadIInv, ReloadTyped, OnlyValid, Debounced, UnderWay, ToBeRead, Sleeping,
                Installing
  <2>2. CASE Elapse \/ Cancel
    <3>1. /\ UNCHANGED <<file, valid, events, last, reloads, installed, overlapped>>
          /\ watcher' \in {watcher, "stopped"} /\ recent' \in {recent, FALSE}
      BY <2>2, Zenon DEF Elapse, Cancel
    <3>2. ReloadTyped'
      <4>1. recent' \in BOOLEAN /\ watcher' \in {"off", "watching", "stopped"}
        BY <3>1, Zenon DEF ReloadIInv, ReloadTyped
      <4> QED
        BY <3>1, <4>1, Zenon DEF ReloadIInv, ReloadTyped
    <3>3. recent' => recent
      BY <2>2, Zenon DEF Elapse, Cancel
    <3>4. Debounced'
      BY <3>1, <3>3, Zenon DEF ReloadIInv, Debounced, Sleeping
    <3>5. OnlyValid' /\ (~overlapped' => UnderWay')
      BY <3>1, Zenon DEF ReloadIInv, OnlyValid, UnderWay, ToBeRead, Sleeping, Installing
    <3> QED
      BY <3>2, <3>4, <3>5, Zenon DEF ReloadIInv
  <2> QED
    BY <2>1, <2>2, ChangeFileInv, EventInv, ReloadInv, InstallInv, ClearPendingInv, Zenon
       DEF ReloadNext
<1> QED
  BY <1>1, <1>2, PTL DEF ReloadSpec

(* However often the file of WatchConfigAndReload changes and however its events are    *)
(* debounced, a settled watcher has installed the file, unless reloads have overlapped. *)
THEOREM ReloadCurrentHolds == ReloadSpec => []ReloadCurrent
<1>1. ReloadIInv => ReloadCurrent
  <2> SUFFICES ASSUME ReloadIInv PROVE ReloadCurrent
    BY Zenon
  <2>1. installed \in valid
    BY Zenon DEF ReloadIInv, OnlyValid
  <2>2. ASSUME Settled, ~overlapped, file.ok PROVE installed = file.version
    <3>1. ~ToBeRead /\ \A g \in Goroutines : ~Installing(g)
      BY <2>2 DEF Settled, ToBeRead, Sleeping, Installing
    <3> QED
      BY <2>2, <3>1, Zenon DEF ReloadIInv, UnderWay
  <2> QED
    BY <2>1, <2>2, Zenon DEF ReloadCurrent
<1> QED
  BY <1>1, ReloadInvariance, PTL
=============================================================================
