------------------------ MODULE NettyTransportProofs ------------------------
(***************************************************************************)
(* OneSession and PanicOnlyAfterShutdown of NettyTransport: the model has  *)
(* no bound, and behaviours of any length are covered.  The invariant says *)
(* who may be dialling, that a client which has connected once is dialled  *)
(* by no one any more, and when readMessage finds its gzip reader gone.    *)
(* SessionStaysOver is what a step may never do to a session that ended.   *)
(***************************************************************************)
EXTENDS NettyTransport, TLAPS

\* A Start is the runner's first one, or one of the retry loop its failure began.
Dialling ==
  /\ lock \in {"free", "runner", "retry"}
  /\ lock = "runner" => runner = "dialing"
  /\ lock = "retry" <=> retry = "dialing"
  /\ runner # "serving" => retry = "none"
  /\ retry \in {"none", "ended"} => lock # "retry"

\* Before the first session there is nothing to read from; after it no Start dials.
Session ==
  /\ starts \in {0, 1}
  /\ starts = 0 => conn = "nil" /\ gzip = "nil" /\ read = "none" /\ ~started
  /\ starts = 1 => /\ conn \in {"up", "lost", "closed"}
                   /\ lock = "free" /\ runner = "serving" /\ retry \in {"none", "ended"}

\* A reader in the middle of a message has its gzip reader, unless Shutdown took it.
Reading ==
  read = "panicked" \/ (read = "reading" /\ gzip # "open") => conn = "closed" /\ ~started

IInv == Dialling /\ Session /\ Reading

\* The steps of the runner and its retry loop.
LEMMA RunnerInv ==
  ASSUME IInv, \/ CreateFails \/ RunnerStart \/ RetryWake \/ RetryStart
               \/ DialOk \/ DialFail \/ SendOnline
  PROVE  IInv'
<1> USE DEF IInv, Dialling, Session, Reading, sessionVars, runnerVars, loopVars
<1>1. CASE CreateFails
  BY <1>1 DEF CreateFails
<1>2. CASE RunnerStart
  BY <1>2 DEF RunnerStart
<1>3. CASE RetryWake
  BY <1>3 DEF RetryWake
<1>4. CASE RetryStart
  BY <1>4 DEF RetryStart
<1>5. CASE DialOk
  BY <1>5 DEF DialOk
<1>6. CASE DialFail
  BY <1>6 DEF DialFail
<1>7. CASE SendOnline
  BY <1>7 DEF SendOnline
<1> QED
  BY <1>1, <1>2, <1>3, <1>4, <1>5, <1>6, <1>7

\* Shutdown, whoever calls it.
LEMMA ShutdownInv ==
  ASSUME IInv, read # "panicked", Shutdown
  PROVE  IInv'
  BY DEF IInv, Dialling, Session, Reading, Shutdown, loopVars

\* The peer and the three loops.
LEMMA LoopsInv ==
  ASSUME IInv, read # "panicked",
         \/ PeerCloses \/ ReadCheck \/ ReadOpen \/ ReadMessage \/ ReadError \/ ReadPanic
         \/ HeartbeatWake \/ HeartbeatSend \/ MonitorCheck \/ MonitorWake
  PROVE  IInv'
<1> USE DEF IInv, Dialling, Session, Reading, sessionVars, runnerVars, loopVars
<1>1. CASE PeerCloses
  BY <1>1 DEF PeerCloses
<1>2. CASE ReadCheck
  BY <1>2 DEF ReadCheck
<1>3. CASE ReadOpen
  BY <1>3 DEF ReadOpen
<1>4. CASE ReadMessage
  BY <1>4 DEF ReadMessage
<1>5. CASE ReadError
  BY <1>5 DEF ReadError
<1>6. CASE ReadPanic
  BY <1>6 DEF ReadPanic
<1>7. CASE HeartbeatWake \/ HeartbeatSend
  BY <1>7 DEF HeartbeatWake, HeartbeatSend
<1>8. CASE MonitorCheck
  BY <1>8 DEF MonitorCheck
<1>9. CASE MonitorWake
  BY <1>9, Zenon DEF MonitorWake
<1> QED
  BY <1>1, <1>2, <1>3, <1>4, <1>5, <1>6, <1>7, <1>8, <1>9

\* The invariant of the transport.
LEMMA Invariance == Spec => []IInv
<1>1. Init => IInv
  BY DEF Init, IInv, Dialling, Session, Reading
<1>2. IInv /\ [Next]_vars => IInv'
  <2> SUFFICES ASSUME IInv, [Next]_vars PROVE IInv'
    OBVIOUS
  <2>1. CASE UNCHANGED vars
    BY <2>1 DEF IInv, Dialling, Session, Reading, vars, sessionVars, runnerVars, loopVars
  <2>2. CASE Alive(Close) \/ Alive(ContextShutdown) \/ Alive(OfflineShutdown)
    BY <2>2, ShutdownInv DEF Alive, Close, ContextShutdown, OfflineShutdown
  <2>3. CASE Alive(ContextCancelled)
    BY <2>3 DEF Alive, ContextCancelled, IInv, Dialling, Session, Reading, sessionVars, loopVars
  <2> QED
    BY <2>1, <2>2, <2>3, RunnerInv, LoopsInv DEF Next, Alive
<1> QED
  BY <1>1, <1>2, PTL DEF Spec

(* At most one Start of netty_client.go connects, whatever the runner, its retry loop, *)
(* Close, the context and GO_OFFLINE do: a client that was shut down is dialled again  *)
(* only if it had never been connected.                                                *)
THEOREM OneSessionHolds == Spec => []OneSession
<1>1. IInv => OneSession
  BY DEF IInv, Session, OneSession
<1> QED
  BY <1>1, Invariance, PTL

(* readMessage dereferences a nil gzip reader only after a Shutdown, never because of  *)
(* the peer or a message that cannot be decoded.                                       *)
THEOREM PanicOnlyAfterShutdownHolds == Spec => []PanicOnlyAfterShutdown
<1>1. IInv => PanicOnlyAfterShutdown
  BY DEF IInv, Reading, PanicOnlyAfterShutdown
<1> QED
  BY <1>1, Invariance, PTL

-----------------------------------------------------------------------------

\* What a step may never do to a session that is over: bring a lost or closed
\* connection back, start a client again that had connected, or revive a loop.
StaysOver ==
  /\ conn \in {"lost", "closed"} => conn' \in {"lost", "closed"}
  /\ conn = "closed" => conn' = "closed"
  /\ starts = 1 /\ ~started => ~started'
  /\ read \in {"ended", "panicked"} => read' = read
  /\ heart = "ended" => heart' = "ended"
  /\ monitor = "ended" => monitor' = "ended"

\* Before the session none of the three loops exists.
Idle == starts = 0 => read = "none" /\ heart = "none" /\ monitor = "none"

\* The loops begin with the session.
LEMMA IdleInvariance == Spec => []Idle
<1>1. Init => Idle
  BY DEF Init, Idle
<1>2. IInv /\ Idle /\ [Next]_vars => Idle'
  <2> SUFFICES ASSUME IInv, Idle, [Next]_vars PROVE Idle'
    OBVIOUS
  <2> USE DEF Idle, IInv, Session, sessionVars, runnerVars, loopVars, Alive
  <2>1. CASE UNCHANGED vars
    BY <2>1 DEF vars
  <2>2. CASE Alive(Close) \/ Alive(ContextCancelled) \/ Alive(ContextShutdown)
             \/ Alive(OfflineShutdown) \/ Alive(PeerCloses)
    BY <2>2 DEF Close, ContextCancelled, ContextShutdown, OfflineShutdown, Shutdown, PeerCloses
  <2>3. CASE Alive(CreateFails) \/ Alive(RunnerStart) \/ Alive(RetryWake)
             \/ Alive(RetryStart) \/ Alive(DialFail) \/ Alive(SendOnline)
    BY <2>3 DEF CreateFails, RunnerStart, RetryWake, RetryStart, DialFail, SendOnline
  <2>4. CASE Alive(DialOk)
    BY <2>4 DEF DialOk
  <2>5. CASE Alive(ReadCheck) \/ Alive(ReadOpen) \/ Alive(ReadMessage)
             \/ Alive(ReadError) \/ Alive(ReadPanic)
    BY <2>5, Zenon DEF ReadCheck, ReadOpen, ReadMessage, ReadError, ReadPanic
  <2>6. CASE Alive(HeartbeatWake) \/ Alive(HeartbeatSend) \/ Alive(MonitorCheck)
             \/ Alive(MonitorWake)
    BY <2>6 DEF HeartbeatWake, HeartbeatSend, MonitorCheck, MonitorWake
  <2> QED
    BY <2>1, <2>2, <2>3, <2>4, <2>5, <2>6 DEF Next
<1> QED
  BY <1>1, <1>2, Invariance, PTL DEF Spec

(* A netty session that has ended never comes back: a connection once lost or closed    *)
(* is never up again, a client shut down after it never starts again, and a loop that   *)
(* has ended stays ended.  connectionMonitor and the retry loop, the two places of      *)
(* netty_client.go and transport.go that could dial a second time, never do.            *)
THEOREM SessionStaysOver == Spec => [][StaysOver]_vars
<1>1. IInv /\ Idle /\ [Next]_vars => [StaysOver]_vars
  <2> SUFFICES ASSUME IInv, Idle, Next PROVE StaysOver
    OBVIOUS
  <2> USE DEF StaysOver, Idle, IInv, Session, sessionVars, runnerVars, loopVars, Alive
  <2>1. CASE Alive(Close) \/ Alive(ContextCancelled) \/ Alive(ContextShutdown)
             \/ Alive(OfflineShutdown) \/ Alive(PeerCloses)
    BY <2>1 DEF Close, ContextCancelled, ContextShutdown, OfflineShutdown, Shutdown, PeerCloses
  <2>2. CASE Alive(CreateFails) \/ Alive(RunnerStart) \/ Alive(RetryWake)
             \/ Alive(RetryStart) \/ Alive(DialFail) \/ Alive(SendOnline)
    BY <2>2 DEF CreateFails, RunnerStart, RetryWake, RetryStart, DialFail, SendOnline
  <2>3. CASE Alive(DialOk)
    BY <2>3 DEF DialOk
  <2>4. CASE Alive(ReadCheck) \/ Alive(ReadOpen) \/ Alive(ReadMessage)
             \/ Alive(ReadError) \/ Alive(ReadPanic)
    <3>1. CASE ReadCheck
      BY <3>1 DEF ReadCheck
    <3>2. CASE ReadOpen
      BY <3>2 DEF ReadOpen
    <3>3. CASE ReadMessage
      BY <3>3 DEF ReadMessage
    <3>4. CASE ReadError
      <4>1. /\ UNCHANGED <<conn, started, heart, monitor>>
            /\ read \in {"entered", "reading"}
        BY <3>4 DEF ReadError
      <4> QED
        BY <4>1
    <3>5. CASE ReadPanic
      BY <3>5 DEF ReadPanic
    <3> QED
      BY <2>4, <3>1, <3>2, <3>3, <3>4, <3>5
  <2>5. CASE Alive(HeartbeatWake) \/ Alive(HeartbeatSend) \/ Alive(MonitorCheck)
    BY <2>5 DEF HeartbeatWake, HeartbeatSend, MonitorCheck
  <2>6. CASE Alive(MonitorWake)
    <3>1. ~started => ~started'
      BY <2>6, Zenon DEF MonitorWake
    <3> QED
      BY <2>6, <3>1 DEF MonitorWake
  <2> QED
    BY <2>1, <2>2, <2>3, <2>4, <2>5, <2>6 DEF Next
<1> QED
  BY <1>1, Invariance, IdleInvariance, PTL DEF Spec

(* The states of the goroutines of transport.go and netty_client.go are the ones named  *)
(* in the model, in behaviours of any length.                                           *)
THEOREM TypeCorrect == Spec => []TypeOK
<1>1. Init => TypeOK
  <2> SUFFICES ASSUME Init PROVE TypeOK
    BY Zenon
  <2>1. started \in BOOLEAN /\ ctxDone \in BOOLEAN /\ offline \in BOOLEAN /\ lossSeen \in BOOLEAN
    BY Zenon DEF Init
  <2> QED
    BY <2>1 DEF Init, TypeOK
<1>2. TypeOK /\ [Next]_vars => TypeOK'
  <2> SUFFICES ASSUME TypeOK, [Next]_vars PROVE TypeOK'
    BY Zenon
  <2> USE DEF TypeOK, sessionVars, runnerVars, loopVars, Alive
  <2>1. CASE Alive(CreateFails)
    BY <2>1 DEF CreateFails
  <2>2. CASE Alive(RunnerStart)
    BY <2>2 DEF RunnerStart
  <2>3. CASE Alive(RetryWake)
    BY <2>3 DEF RetryWake
  <2>4. CASE Alive(RetryStart)
    BY <2>4 DEF RetryStart
  <2>5. CASE Alive(DialOk)
    BY <2>5 DEF DialOk
  <2>6. CASE Alive(DialFail)
    BY <2>6 DEF DialFail
  <2>7. CASE Alive(SendOnline)
    BY <2>7 DEF SendOnline
  <2>8. CASE Alive(Close)
    <3>1. started' \in BOOLEAN /\ ctxDone' \in BOOLEAN /\ offline' \in BOOLEAN /\ lossSeen' \in BOOLEAN
      BY <2>8, Zenon DEF Close, Shutdown
    <3> QED
      BY <2>8, <3>1 DEF Close, Shutdown
  <2>9. CASE Alive(ContextCancelled)
    BY <2>9 DEF ContextCancelled
  <2>10. CASE Alive(ContextShutdown)
    <3>1. started' \in BOOLEAN /\ ctxDone' \in BOOLEAN /\ offline' \in BOOLEAN /\ lossSeen' \in BOOLEAN
      BY <2>10, Zenon DEF ContextShutdown, Shutdown
    <3> QED
      BY <2>10, <3>1 DEF ContextShutdown, Shutdown
  <2>11. CASE Alive(OfflineShutdown)
    <3>1. started' \in BOOLEAN /\ ctxDone' \in BOOLEAN /\ offline' \in BOOLEAN /\ lossSeen' \in BOOLEAN
      BY <2>11, Zenon DEF OfflineShutdown, Shutdown
    <3> QED
      BY <2>11, <3>1 DEF OfflineShutdown, Shutdown
  <2>12. CASE Alive(PeerCloses)
    BY <2>12 DEF PeerCloses
  <2>13. CASE Alive(ReadCheck)
    BY <2>13 DEF ReadCheck
  <2>14. CASE Alive(ReadOpen)
    BY <2>14 DEF ReadOpen
  <2>15. CASE Alive(ReadMessage)
    <3>1. started' \in BOOLEAN /\ ctxDone' \in BOOLEAN /\ offline' \in BOOLEAN /\ lossSeen' \in BOOLEAN
      BY <2>15, Zenon DEF ReadMessage
    <3> QED
      BY <2>15, <3>1 DEF ReadMessage
  <2>16. CASE Alive(ReadError)
    <3>1. started' \in BOOLEAN /\ ctxDone' \in BOOLEAN /\ offline' \in BOOLEAN /\ lossSeen' \in BOOLEAN
      BY <2>16, Zenon DEF ReadError
    <3> QED
      BY <2>16, <3>1 DEF ReadError
  <2>17. CASE Alive(ReadPanic)
    BY <2>17 DEF ReadPanic
  <2>18. CASE Alive(HeartbeatWake)
    BY <2>18 DEF HeartbeatWake
  <2>19. CASE Alive(HeartbeatSend)
    BY <2>19 DEF HeartbeatSend
  <2>20. CASE Alive(MonitorCheck)
    BY <2>20 DEF MonitorCheck
  <2>21. CASE Alive(MonitorWake)
    BY <2>21 DEF MonitorWake
  <2>22. CASE UNCHANGED vars
    BY <2>22 DEF vars
  <2> QED
    BY <2>1, <2>2, <2>3, <2>4, <2>5, <2>6, <2>7, <2>8, <2>9, <2>10, <2>11, <2>12, <2>13, <2>14, <2>15, <2>16, <2>17, <2>18, <2>19, <2>20, <2>21, <2>22 DEF Next
<1> QED
  BY <1>1, <1>2, PTL DEF Spec
=============================================================================
