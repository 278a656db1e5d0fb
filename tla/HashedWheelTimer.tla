-------------------------- MODULE HashedWheelTimer --------------------------
(***************************************************************************)
(* The hashed wheel timer of internal/job/dispatcher/hashed_wheel_timer.go *)
(* with the Timeout objects of internal/types/job/timeout_types.go.        *)
(*                                                                         *)
(* Three kinds of goroutines share the wheel: the callers of NewTimeout,   *)
(* which load currentTick and append to a bucket in two separate steps;    *)
(* the holders of a Timeout, which may Cancel it at any moment; and the    *)
(* loop started by Start, which turns the wheel on every signal of a       *)
(* time.Ticker and launches the tasks that are due.  Stop is a sequence of *)
(* steps that races with all of them.                                      *)
(*                                                                         *)
(* Time is counted in units of which TickDuration make one tick.           *)
(***************************************************************************)
EXTENDS Integers

CONSTANTS
  Timeouts,      \* the Timeout objects, one per call of NewTimeout
  Delays,        \* the delays callers ask for, in time units
  TickDuration,  \* hwt.tickDuration, in time units
  WheelSize,     \* hwt.wheelSize, the number of buckets
  Horizon        \* bound: no call of NewTimeout begins at this time or later

ASSUME WheelAssumption ==
  /\ TickDuration \in Nat \ {0}
  /\ WheelSize \in Nat \ {0}
  /\ Delays \subseteq Nat
  /\ Horizon \in Nat

VARIABLES
  now,          \* time units since Start created the ticker
  phase,        \* time units since the ticker's last signal was due
  tickerC,      \* is a signal waiting in hwt.ticker.C (it holds at most one)
  started,      \* hwt.started
  ctxDone,      \* the context of run() is cancelled
  stopPc,       \* progress of Stop; hwt.stopped is stopPc # "none"
  loop,         \* where the goroutine of run() is
  scan,         \* the timeouts of the locked bucket tick() has still to visit
  currentTick,  \* hwt.currentTick
  wheel,        \* hwt.wheel: the timeouts of every bucket
  pc,           \* progress of the NewTimeout call that creates a timeout
  wheelIndex,   \* Timeout.wheelIndex, the target tick
  cancelled,    \* Timeout.cancelled
  deadline,     \* Timeout.deadline
  appendedAt,   \* history: currentTick when the timeout entered its bucket
  launches      \* history: the <<tick, time>> pairs at which its task was run

timerVars == <<now, phase, tickerC, started, ctxDone, stopPc>>
loopVars == <<loop, scan, currentTick>>
timeoutVars == <<pc, wheelIndex, cancelled, deadline, appendedAt>>
vars == <<timerVars, loopVars, timeoutVars, wheel, launches>>

Buckets == 0 .. WheelSize - 1
stopped == stopPc # "none"

\* int(targetTick % int64(hwt.wheelSize)), and the same for currentTick.
bucketIndex(tick) == tick % WheelSize

\* tick() holds the mutex of the bucket it is visiting.
Locked(b) == loop = "scan" /\ b = bucketIndex(currentTick)

InWheel(t) == \E b \in Buckets : t \in wheel[b]

\* NewHashedWheelTimer: every bucket is empty, nothing is started.
Init ==
  /\ now = 0
  /\ phase = 0
  /\ tickerC = FALSE
  /\ started = FALSE
  /\ ctxDone = FALSE
  /\ stopPc = "none"
  /\ loop = "idle"
  /\ scan = {}
  /\ currentTick = 0
  /\ wheel = [b \in Buckets |-> {}]
  /\ pc = [t \in Timeouts |-> "none"]
  /\ wheelIndex = [t \in Timeouts |-> 0]
  /\ cancelled = [t \in Timeouts |-> FALSE]
  /\ deadline = [t \in Timeouts |-> 0]
  /\ appendedAt = [t \in Timeouts |-> 0]
  /\ launches = [t \in Timeouts |-> {}]

-----------------------------------------------------------------------------
(***************************************************************************)
(* The callers of NewTimeout and Cancel.                                   *)
(***************************************************************************)

\* Faulty variant of NewTimeout: it does not test whether the timer is stopped.
NewTimeoutUnchecked(t, delay) ==
  /\ pc[t] = "none"
  /\ now < Horizon
  /\ pc' = [pc EXCEPT ![t] = "loaded"]
  /\ deadline' = [deadline EXCEPT ![t] = now + delay]
  /\ wheelIndex' = [wheelIndex EXCEPT ![t] = currentTick + delay \div TickDuration]
  /\ UNCHANGED <<timerVars, loopVars, wheel, cancelled, appendedAt, launches>>

\* NewTimeout up to the load of currentTick; nil when the timer is stopped.
\* The check, the creation of the Timeout and the load are one step: the append,
\* which is what other goroutines see, is a step of its own.
NewTimeout(t, delay) ==
  /\ pc[t] = "none"
  /\ now < Horizon
  /\ \/ /\ stopped
        /\ pc' = [pc EXCEPT ![t] = "nil"]
        /\ UNCHANGED <<wheelIndex, deadline>>
     \/ /\ ~stopped
        /\ pc' = [pc EXCEPT ![t] = "loaded"]
        /\ deadline' = [deadline EXCEPT ![t] = now + delay]
        /\ wheelIndex' = [wheelIndex EXCEPT ![t] =
                            currentTick + delay \div TickDuration]
  /\ UNCHANGED <<timerVars, loopVars, wheel, cancelled, appendedAt, launches>>

\* Faulty variant of NewTimeoutAppend: without the bucket's mutex, an append
\* during tick() is overwritten by bucket.timeouts = remaining.
NewTimeoutAppendUnlocked(t) ==
  LET b == bucketIndex(wheelIndex[t]) IN
  /\ pc[t] = "loaded"
  /\ wheel' = IF Locked(b) THEN wheel ELSE [wheel EXCEPT ![b] = @ \cup {t}]
  /\ pc' = [pc EXCEPT ![t] = "returned"]
  /\ appendedAt' = [appendedAt EXCEPT ![t] = currentTick]
  /\ UNCHANGED <<timerVars, loopVars, wheelIndex, cancelled, deadline, launches>>

\* The rest of NewTimeout: the append under the bucket's mutex.
NewTimeoutAppend(t) ==
  LET b == bucketIndex(wheelIndex[t]) IN
  /\ pc[t] = "loaded"
  /\ ~Locked(b)
  /\ wheel' = [wheel EXCEPT ![b] = @ \cup {t}]
  /\ pc' = [pc EXCEPT ![t] = "returned"]
  /\ appendedAt' = [appendedAt EXCEPT ![t] = currentTick]
  /\ UNCHANGED <<timerVars, loopVars, wheelIndex, cancelled, deadline, launches>>

\* Timeout.Cancel, by whoever NewTimeout returned the timeout to.
Cancel(t) ==
  /\ pc[t] = "returned"
  /\ ~cancelled[t]
  /\ cancelled' = [cancelled EXCEPT ![t] = TRUE]
  /\ UNCHANGED <<timerVars, loopVars, wheel, pc, wheelIndex, deadline,
                 appendedAt, launches>>

-----------------------------------------------------------------------------
(***************************************************************************)
(* Start, Stop and the clock.                                              *)
(***************************************************************************)

Start ==
  /\ ~started
  /\ started' = TRUE
  /\ loop' = "select"
  /\ UNCHANGED <<now, phase, tickerC, ctxDone, stopPc, scan, currentTick, wheel,
                 timeoutVars, launches>>

\* The context handed to Start is cancelled by its owner.
ParentCancel ==
  /\ started
  /\ ~ctxDone
  /\ ctxDone' = TRUE
  /\ UNCHANGED <<now, phase, tickerC, started, stopPc, loopVars, wheel, timeoutVars,
                 launches>>

\* Faulty variant of Stop: cancel() is not called.
StopWithoutCancel ==
  /\ started
  /\ ~stopped
  /\ stopPc' = "cancelled"
  /\ UNCHANGED <<now, phase, tickerC, started, ctxDone, loopVars, wheel, timeoutVars,
                 launches>>

\* Stop: the compare-and-swap of stopped, and cancel().  TimeDispatch.Stop
\* calls it only on a timer it has started.
Stop ==
  /\ started
  /\ ~stopped
  /\ stopPc' = "cancelled"
  /\ ctxDone' = TRUE
  /\ UNCHANGED <<now, phase, tickerC, started, loopVars, wheel, timeoutVars, launches>>

\* ticker.Stop(), which leaves no signal in the channel.
StopTicker ==
  /\ stopPc = "cancelled"
  /\ stopPc' = "waiting"
  /\ tickerC' = FALSE
  /\ UNCHANGED <<now, phase, started, ctxDone, loopVars, wheel, timeoutVars, launches>>

\* wg.Wait() returns once run() has.
StopReturn ==
  /\ stopPc = "waiting"
  /\ loop = "exited"
  /\ stopPc' = "returned"
  /\ UNCHANGED <<now, phase, tickerC, started, ctxDone, loopVars, wheel, timeoutVars,
                 launches>>

\* Bound: after Horizon time passes only while a live timeout is in the wheel
\* and no goroutine lags behind it.
Draining ==
  /\ loop = "select" /\ ~tickerC /\ ~ctxDone
  /\ \A t \in Timeouts : pc[t] # "loaded"
  /\ \E t \in Timeouts : InWheel(t) /\ ~cancelled[t]

\* time.Ticker: a signal every TickDuration, dropped when one is waiting.
Elapse ==
  /\ started
  /\ loop # "exited"
  /\ now < Horizon \/ Draining
  /\ now' = now + 1
  /\ phase' = IF phase + 1 = TickDuration THEN 0 ELSE phase + 1
  /\ tickerC' = (tickerC \/ (phase' = 0 /\ stopPc \in {"none", "cancelled"}))
  /\ UNCHANGED <<started, ctxDone, stopPc, loopVars, wheel, timeoutVars, launches>>

-----------------------------------------------------------------------------
(***************************************************************************)
(* The goroutine of run().  When the context is done and a signal waits,   *)
(* the select takes either branch.                                         *)
(***************************************************************************)

RunExit ==
  /\ loop = "select"
  /\ ctxDone
  /\ loop' = "exited"
  /\ UNCHANGED <<timerVars, scan, currentTick, wheel, timeoutVars, launches>>

RunReceive ==
  /\ loop = "select"
  /\ tickerC
  /\ tickerC' = FALSE
  /\ loop' = "tick"
  /\ UNCHANGED <<now, phase, started, ctxDone, stopPc, scan, currentTick, wheel,
                 timeoutVars, launches>>

\* tick(): AddInt64(&hwt.currentTick, 1).
TickAdvance ==
  /\ loop = "tick"
  /\ loop' = "lock"
  /\ currentTick' = currentTick + 1
  /\ UNCHANGED <<timerVars, scan, wheel, timeoutVars, launches>>

\* tick(): bucket.mu.Lock() and the start of the range over its timeouts.
TickLock ==
  /\ loop = "lock"
  /\ loop' = "scan"
  /\ scan' = wheel[bucketIndex(currentTick)]
  /\ UNCHANGED <<timerVars, currentTick, wheel, timeoutVars, launches>>

\* tick(): one iteration.  A timeout to skip is dropped, a due one is dropped
\* and its task launched, any other one remains.
Visit(t, skip, due) ==
  LET b == bucketIndex(currentTick) IN
  /\ loop = "scan"
  /\ t \in scan
  /\ scan' = scan \ {t}
  /\ \/ /\ skip
        /\ wheel' = [wheel EXCEPT ![b] = @ \ {t}]
        /\ UNCHANGED launches
     \/ /\ ~skip
        /\ due
        /\ wheel' = [wheel EXCEPT ![b] = @ \ {t}]
        /\ launches' = [launches EXCEPT ![t] = @ \cup {<<currentTick, now>>}]
     \/ /\ ~skip
        /\ ~due
        /\ UNCHANGED <<wheel, launches>>
  /\ UNCHANGED <<timerVars, loop, currentTick, timeoutVars>>

\* Faulty variants of TickVisit: no comparison with the target tick; an
\* off-by-one in it; one rotation too many; a launched timeout that stays in its bucket.
VisitNotDue(t) == Visit(t, cancelled[t], TRUE)
VisitOffByOne(t) == Visit(t, cancelled[t], currentTick > wheelIndex[t])
VisitExtraRotation(t) ==
  Visit(t, cancelled[t], currentTick > wheelIndex[t] + WheelSize)
VisitKeeps(t) ==
  /\ loop = "scan"
  /\ t \in scan
  /\ scan' = scan \ {t}
  /\ currentTick >= wheelIndex[t]
  /\ launches' = [launches EXCEPT ![t] = @ \cup {<<currentTick, now>>}]
  /\ UNCHANGED <<timerVars, loop, currentTick, timeoutVars, wheel>>

TickVisit(t) == Visit(t, cancelled[t], currentTick >= wheelIndex[t])

\* tick(): bucket.timeouts = remaining, and the unlock.
TickUnlock ==
  /\ loop = "scan"
  /\ scan = {}
  /\ loop' = "select"
  /\ UNCHANGED <<timerVars, scan, currentTick, wheel, timeoutVars, launches>>

-----------------------------------------------------------------------------

Run ==
  \/ RunExit
  \/ RunReceive
  \/ TickAdvance
  \/ TickLock
  \/ \E t \in Timeouts : TickVisit(t)
  \/ TickUnlock

Next ==
  \/ \E t \in Timeouts, d \in Delays : NewTimeout(t, d)
  \/ \E t \in Timeouts : NewTimeoutAppend(t)
  \/ \E t \in Timeouts : Cancel(t)
  \/ Start
  \/ ParentCancel
  \/ Stop
  \/ StopTicker
  \/ StopReturn
  \/ Elapse
  \/ Run

Spec == Init /\ [][Next]_vars

(***************************************************************************)
(* Time passes, the Go scheduler runs every goroutine that can run, and    *)
(* the holder of a bucket's mutex is not the only one to get it.  Nobody   *)
(* is obliged to create, cancel, start or stop anything.                   *)
(***************************************************************************)
Fairness ==
  /\ WF_vars(Elapse)
  /\ WF_vars(Run)
  /\ WF_vars(StopTicker)
  /\ WF_vars(StopReturn)
  /\ \A t \in Timeouts : SF_vars(NewTimeoutAppend(t))

FairSpec == Spec /\ Fairness

-----------------------------------------------------------------------------
(***************************************************************************)
(* Properties.                                                             *)
(***************************************************************************)

TypeOK ==
  /\ now \in Nat
  /\ phase \in 0 .. TickDuration - 1
  /\ tickerC \in BOOLEAN
  /\ started \in BOOLEAN
  /\ ctxDone \in BOOLEAN
  /\ stopPc \in {"none", "cancelled", "waiting", "returned"}
  /\ loop \in {"idle", "select", "tick", "lock", "scan", "exited"}
  /\ scan \subseteq Timeouts
  /\ currentTick \in Nat
  /\ wheel \in [Buckets -> SUBSET Timeouts]
  /\ pc \in [Timeouts -> {"none", "nil", "loaded", "returned"}]
  /\ wheelIndex \in [Timeouts -> Nat]
  /\ cancelled \in [Timeouts -> BOOLEAN]
  /\ deadline \in [Timeouts -> Nat]
  /\ appendedAt \in [Timeouts -> Nat]
  /\ launches \in [Timeouts -> SUBSET (Nat \X Nat)]

\* A task is never run before the target tick, and a late run is late by
\* whole rotations of the wheel: tick() runs a timeout only when it visits
\* the bucket that NewTimeout chose.
NeverEarly ==
  \A t \in Timeouts : \A l \in launches[t] :
    /\ l[1] >= wheelIndex[t]
    /\ bucketIndex(l[1]) = bucketIndex(wheelIndex[t])

\* A timeout that NewTimeout appended before the wheel reached its target tick
\* is run exactly at that tick, however the append, the ticks and the
\* cancellations of other timeouts interleave.
OnTime ==
  \A t \in Timeouts : \A l \in launches[t] :
    appendedAt[t] < wheelIndex[t] => l[1] = wheelIndex[t]

\* The task of a timeout is run at most once: tick() drops what it launches,
\* and no other bucket holds the timeout.
AtMostOnce ==
  \A t \in Timeouts : \A l, m \in launches[t] : l = m

\* A timeout whose append lost the race with its target tick (a tick came
\* between the load and the append, or the delay is below one tick) is run
\* within one rotation of the append.
LateByOneRotation ==
  \A t \in Timeouts : \A l \in launches[t] :
    l[1] <= WheelSize + (IF appendedAt[t] > wheelIndex[t] THEN appendedAt[t]
                                                          ELSE wheelIndex[t])

\* On the clock a task may run before Timeout.deadline, because NewTimeout
\* rounds the delay down, counts the tick in progress as a whole one and does
\* not see the signals the loop has still to process; never by 4 ticks.
EarlyByLessThanFourTicks ==
  \A t \in Timeouts : \A l \in launches[t] :
    l[2] + 4 * TickDuration > deadline[t]

\* tick() never launches a timeout that was cancelled before it is visited.
CancelledNeverLaunched ==
  [][\A t \in Timeouts : cancelled[t] => launches'[t] = launches[t]]_vars

\* When Stop has returned the wheel does not turn and launches nothing,
\* although the select may still have taken signals after the cancel().
NothingAfterStop ==
  [][stopPc = "returned" => UNCHANGED <<currentTick, launches>>]_vars

\* Once the timer runs, every timeout that NewTimeout places is eventually
\* run, unless it is cancelled or the context of the loop is: no interleaving
\* of the append with the ticks loses it.
EventuallyLaunched ==
  \A t \in Timeouts :
    (started /\ (pc[t] = "loaded" \/ InWheel(t)))
      ~> (launches[t] # {} \/ cancelled[t] \/ ctxDone)

-----------------------------------------------------------------------------
(***************************************************************************)
(* The wheel implements the abstract timer.                                *)
(***************************************************************************)

timeoutState(t) ==
  IF launches[t] # {} THEN "launched"
  ELSE IF pc[t] \in {"none", "nil"} THEN pc[t] ELSE "pending"

timerState ==
  CASE ~started -> "idle"
    [] started /\ ~stopped /\ ~ctxDone -> "running"
    [] started /\ ~stopped /\ ctxDone -> "halting"
    [] started /\ stopPc \in {"cancelled", "waiting"} -> "stopping"
    [] started /\ stopPc = "returned" -> "stopped"

T == INSTANCE Timer WITH state <- [t \in Timeouts |-> timeoutState(t)],
                         timer <- timerState

\* Every step of the wheel is a step of the abstract timer or changes nothing
\* that its users see: the two-step NewTimeout, the bucket locks, the backlog of
\* ticker signals and the three steps of Stop are invisible.
ImplementsTimer == T!Spec

\* Stop never hangs: the loop leaves tick() and sees the cancelled context.
StopTerminates == stopped ~> stopPc = "returned"
=============================================================================
