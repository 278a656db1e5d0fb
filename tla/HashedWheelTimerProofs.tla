----------------------- MODULE HashedWheelTimerProofs -----------------------
(***************************************************************************)
(* Proofs about HashedWheelTimer for any number of timeouts, any set of    *)
(* delays, any wheel size and any tick duration.                           *)
(***************************************************************************)
EXTENDS HashedWheelTimer, TLAPS

-----------------------------------------------------------------------------
(***************************************************************************)
(* The inductive invariant, in named parts.                                *)
(***************************************************************************)

\* A timeout is only in the bucket NewTimeout chose, and not yet run.
WheelInv ==
  \A b \in Buckets : \A t \in wheel[b] :
    /\ pc[t] = "returned"
    /\ b = bucketIndex(wheelIndex[t])
    /\ launches[t] = {}

\* Only timeouts that NewTimeout returned have been run.
LaunchInv ==
  \A t \in Timeouts : pc[t] # "returned" => launches[t] = {}

\* tick() has still to visit members of the bucket it has locked, only.
ScanInv ==
  IF loop = "scan" THEN scan \subseteq wheel[bucketIndex(currentTick)]
                   ELSE scan = {}

\* A timeout appended before its target tick stays ahead of the wheel, until
\* the tick that is its target is about to visit it.
AheadInv ==
  \A t \in Timeouts :
    InWheel(t) /\ appendedAt[t] < wheelIndex[t] =>
      \/ currentTick < wheelIndex[t]
      \/ /\ currentTick = wheelIndex[t]
         /\ loop = "lock" \/ (loop = "scan" /\ t \in scan)

\* Stop returns only after the loop, which Start starts once.
StopInv ==
  /\ stopPc = "returned" => loop = "exited"
  /\ ~started => loop = "idle" /\ stopPc = "none" /\ ~ctxDone

IInv ==
  /\ TypeOK
  /\ WheelInv
  /\ LaunchInv
  /\ ScanInv
  /\ AheadInv
  /\ StopInv
  /\ NeverEarly
  /\ OnTime
  /\ AtMostOnce

-----------------------------------------------------------------------------
(***************************************************************************)
(* Arithmetic.                                                             *)
(***************************************************************************)

\* bucketIndex always names a bucket.
LEMMA BucketIndexType ==
  ASSUME NEW n \in Nat
  PROVE  bucketIndex(n) \in Buckets
  BY WheelAssumption, SMT DEF bucketIndex, Buckets

\* NewTimeout rounds the delay down to whole ticks.
LEMMA DelayInTicks ==
  ASSUME NEW d \in Nat
  PROVE  /\ d \div TickDuration \in Nat
         /\ TickDuration * (d \div TickDuration) <= d
         /\ d < TickDuration * (d \div TickDuration) + TickDuration
  BY WheelAssumption, SMT

-----------------------------------------------------------------------------
(***************************************************************************)
(* Type correctness.                                                       *)
(***************************************************************************)

\* The initial state of NewHashedWheelTimer satisfies the invariant.
LEMMA InitIInv == Init => IInv
  <1> SUFFICES ASSUME Init PROVE IInv
    BY Zenon
  <1>1. TypeOK
    <2>1. phase \in 0 .. TickDuration - 1
      BY WheelAssumption DEF Init
    <2> QED
      BY <2>1, Zenon DEF Init, TypeOK
  <1>2. WheelInv /\ LaunchInv /\ ScanInv /\ AheadInv /\ StopInv
    BY Zenon DEF Init, WheelInv, LaunchInv, ScanInv, AheadInv, StopInv, InWheel
  <1>3. NeverEarly /\ OnTime /\ AtMostOnce
    BY Zenon DEF Init, NeverEarly, OnTime, AtMostOnce
  <1> QED
    BY <1>1, <1>2, <1>3, Zenon DEF IInv

\* Every step of the callers, the clock and the loop preserves the types.
LEMMA NextTypeOK == TypeOK /\ [Next]_vars => TypeOK'
  <1> SUFFICES ASSUME TypeOK, [Next]_vars PROVE TypeOK'
    BY Zenon
  <1> USE WheelAssumption DEF TypeOK, vars, timerVars, loopVars, timeoutVars
  <1>1. ASSUME NEW t \in Timeouts, NEW d \in Delays, NewTimeout(t, d)
        PROVE  TypeOK'
    <2>1. d \in Nat
      BY Zenon
    <2>2. d \div TickDuration \in Nat
      BY <2>1, DelayInTicks, Zenon
    <2> QED
      BY <1>1, <2>1, <2>2 DEF NewTimeout
  <1>2. ASSUME NEW t \in Timeouts, NewTimeoutAppend(t)
        PROVE  TypeOK'
    <2>1. bucketIndex(wheelIndex[t]) \in Buckets
      BY BucketIndexType, Zenon
    <2> QED
      BY <1>2, <2>1, Zenon DEF NewTimeoutAppend
  <1>3. ASSUME NEW t \in Timeouts, Cancel(t)
        PROVE  TypeOK'
    BY <1>3, Zenon DEF Cancel
  <1>4. CASE Start \/ ParentCancel \/ Stop \/ StopTicker \/ StopReturn
    BY <1>4, Zenon DEF Start, ParentCancel, Stop, StopTicker, StopReturn
  <1>5. CASE Elapse
    <2>1. now' \in Nat /\ phase' \in 0 .. TickDuration - 1
      BY <1>5 DEF Elapse
    <2>2. tickerC' \in BOOLEAN
      BY <1>5, Zenon DEF Elapse
    <2>3. UNCHANGED <<started, ctxDone, stopPc, loopVars, wheel, timeoutVars, launches>>
      BY <1>5, Zenon DEF Elapse
    <2> QED
      BY <2>1, <2>2, <2>3, Zenon
  <1>6. CASE RunExit \/ RunReceive \/ TickAdvance \/ TickUnlock
    <2>1. CASE RunExit
      BY <2>1, Zenon DEF RunExit
    <2>2. CASE RunReceive
      BY <2>2, Zenon DEF RunReceive
    <2>3. CASE TickAdvance
      BY <2>3 DEF TickAdvance
    <2>4. CASE TickUnlock
      BY <2>4, Zenon DEF TickUnlock
    <2> QED
      BY <1>6, <2>1, <2>2, <2>3, <2>4, Zenon
  <1>7. CASE TickLock
    <2>1. bucketIndex(currentTick) \in Buckets
      BY BucketIndexType, Zenon
    <2> QED
      BY <1>7, <2>1, Zenon DEF TickLock
  <1>8. ASSUME NEW t \in Timeouts, TickVisit(t)
        PROVE  TypeOK'
    <2>1. bucketIndex(currentTick) \in Buckets
      BY BucketIndexType, Zenon
    <2> QED
      BY <1>8, <2>1 DEF TickVisit, Visit
  <1>9. CASE UNCHANGED vars
    BY <1>9, Zenon
  <1> QED
    BY <1>1, <1>2, <1>3, <1>4, <1>5, <1>6, <1>7, <1>8, <1>9, Zenon DEF Next, Run

\* The timer keeps its types in every behaviour.
THEOREM TypeCorrect == Spec => []TypeOK
  <1>1. Init => TypeOK
    BY InitIInv, Zenon DEF IInv
  <1> QED
    BY <1>1, NextTypeOK, PTL DEF Spec

-----------------------------------------------------------------------------
(***************************************************************************)
(* The wheel invariant.                                                    *)
(***************************************************************************)

\* A call of NewTimeout touches only the timeout it creates.
LEMMA NewTimeoutIInv ==
  ASSUME IInv, NEW t \in Timeouts, NEW d \in Delays, NewTimeout(t, d), TypeOK'
  PROVE  IInv'
  <1> USE DEF IInv, TypeOK, NewTimeout, timerVars, loopVars
  <1>1. /\ pc[t] = "none" /\ launches[t] = {}
        /\ \A b \in Buckets : t \notin wheel[b]
    BY Zenon DEF LaunchInv, WheelInv
  <1>2. WheelInv'
    BY <1>1 DEF WheelInv, bucketIndex
  <1>3. LaunchInv'
    BY <1>1, Zenon DEF LaunchInv
  <1>4. ScanInv'
    BY Zenon DEF ScanInv, bucketIndex
  <1>5. AheadInv'
    BY <1>1 DEF AheadInv, InWheel
  <1>6. StopInv'
    BY Zenon DEF StopInv
  <1>7. NeverEarly' /\ OnTime' /\ AtMostOnce'
    BY <1>1 DEF NeverEarly, OnTime, AtMostOnce, bucketIndex
  <1> QED
    BY <1>2, <1>3, <1>4, <1>5, <1>6, <1>7, Zenon

\* The append puts the timeout in one bucket, whose mutex tick() does not hold.
LEMMA NewTimeoutAppendIInv ==
  ASSUME IInv, NEW t \in Timeouts, NewTimeoutAppend(t), TypeOK'
  PROVE  IInv'
  <1> USE DEF IInv, TypeOK, NewTimeoutAppend, timerVars, loopVars
  <1>1. /\ pc[t] = "loaded" /\ launches[t] = {}
        /\ \A b \in Buckets : t \notin wheel[b]
    BY Zenon DEF LaunchInv, WheelInv
  <1>2. bucketIndex(wheelIndex[t]) \in Buckets /\ bucketIndex(currentTick) \in Buckets
    BY BucketIndexType, Zenon
  <1>3. WheelInv'
    BY <1>1, <1>2 DEF WheelInv, bucketIndex
  <1>4. LaunchInv'
    BY <1>1, Zenon DEF LaunchInv
  <1>5. ScanInv'
    BY <1>2, Zenon DEF ScanInv, bucketIndex, Locked
  <1>6. AheadInv'
    <2> SUFFICES ASSUME NEW u \in Timeouts, InWheel(u)', appendedAt'[u] < wheelIndex'[u]
                 PROVE  \/ currentTick' < wheelIndex'[u]
                        \/ /\ currentTick' = wheelIndex'[u]
                           /\ loop' = "lock" \/ (loop' = "scan" /\ u \in scan')
      BY Zenon DEF AheadInv
    <2>1. CASE u = t
      BY <2>1, Zenon
    <2>2. CASE u # t
      BY <1>2, <2>2, Zenon DEF AheadInv, InWheel
    <2> QED
      BY <2>1, <2>2, Zenon
  <1>7. StopInv'
    BY Zenon DEF StopInv
  <1>8. NeverEarly' /\ OnTime' /\ AtMostOnce'
    BY <1>1 DEF NeverEarly, OnTime, AtMostOnce, bucketIndex
  <1> QED
    BY <1>3, <1>4, <1>5, <1>6, <1>7, <1>8, Zenon

\* Cancel, Start, Stop and the clock leave the wheel alone.
LEMMA OutsideIInv ==
  ASSUME IInv, TypeOK',
         \/ \E t \in Timeouts : Cancel(t)
         \/ Start \/ ParentCancel \/ Stop \/ StopTicker \/ StopReturn \/ Elapse
  PROVE  IInv'
  <1> USE DEF IInv, TypeOK, timerVars, loopVars, timeoutVars
  <1>1. UNCHANGED <<scan, currentTick, wheel, pc, wheelIndex, appendedAt, launches>>
    BY Zenon DEF Cancel, Start, ParentCancel, Stop, StopTicker, StopReturn, Elapse
  <1>2. loop' = loop \/ (loop = "idle" /\ loop' = "select")
    BY Zenon DEF Cancel, Start, ParentCancel, Stop, StopTicker, StopReturn, Elapse, StopInv
  <1>3. WheelInv' /\ LaunchInv'
    BY <1>1, Zenon DEF WheelInv, LaunchInv, bucketIndex
  <1>4. ScanInv' /\ AheadInv'
    BY <1>1, <1>2, Zenon DEF ScanInv, AheadInv, InWheel, bucketIndex
  <1>5. StopInv'
    BY Zenon DEF Cancel, Start, ParentCancel, Stop, StopTicker, StopReturn, Elapse, StopInv
  <1>6. NeverEarly' /\ OnTime' /\ AtMostOnce'
    BY <1>1, Zenon DEF NeverEarly, OnTime, AtMostOnce, bucketIndex
  <1> QED
    BY <1>3, <1>4, <1>5, <1>6, Zenon

\* The steps of run() and tick() that launch nothing.
LEMMA TickIInv ==
  ASSUME IInv, TypeOK',
         RunExit \/ RunReceive \/ TickAdvance \/ TickLock \/ TickUnlock
  PROVE  IInv'
  <1> USE DEF IInv, TypeOK, timerVars, timeoutVars
  <1>1. UNCHANGED <<wheel, pc, wheelIndex, appendedAt, launches, started, stopPc>>
    BY Zenon DEF RunExit, RunReceive, TickAdvance, TickLock, TickUnlock
  <1>2. WheelInv' /\ LaunchInv'
    BY <1>1, Zenon DEF WheelInv, LaunchInv, bucketIndex
  <1>3. ScanInv'
    BY <1>1, Zenon DEF RunExit, RunReceive, TickAdvance, TickLock, TickUnlock, ScanInv, bucketIndex
  <1>4. AheadInv'
    <2> SUFFICES ASSUME NEW t \in Timeouts, InWheel(t)', appendedAt'[t] < wheelIndex'[t]
                 PROVE  \/ currentTick' < wheelIndex'[t]
                        \/ /\ currentTick' = wheelIndex'[t]
                           /\ loop' = "lock" \/ (loop' = "scan" /\ t \in scan')
      BY Zenon DEF AheadInv
    <2>1. /\ t \in wheel[bucketIndex(wheelIndex[t])]
          /\ \/ currentTick < wheelIndex[t]
             \/ /\ currentTick = wheelIndex[t]
                /\ loop = "lock" \/ (loop = "scan" /\ t \in scan)
      BY <1>1, Zenon DEF AheadInv, InWheel, WheelInv
    <2>2. CASE RunExit \/ RunReceive \/ TickUnlock
      BY <2>1, <2>2, <1>1, Zenon DEF RunExit, RunReceive, TickUnlock
    <2>3. CASE TickAdvance
      BY <2>1, <2>3, <1>1 DEF TickAdvance
    <2>4. CASE TickLock
      BY <2>1, <2>4, <1>1, Zenon DEF TickLock
    <2> QED
      BY <2>2, <2>3, <2>4, Zenon
  <1>5. StopInv'
    BY <1>1, Zenon DEF RunExit, RunReceive, TickAdvance, TickLock, TickUnlock, StopInv
  <1>6. NeverEarly' /\ OnTime' /\ AtMostOnce'
    BY <1>1, Zenon DEF NeverEarly, OnTime, AtMostOnce, bucketIndex
  <1> QED
    BY <1>2, <1>3, <1>4, <1>5, <1>6, Zenon

\* A visit of tick() launches a timeout only from its own bucket, at its
\* target tick when it was appended in time, and drops it from the wheel.
LEMMA TickVisitIInv ==
  ASSUME IInv, TypeOK', NEW t \in Timeouts, TickVisit(t)
  PROVE  IInv'
  <1> USE DEF IInv, TypeOK, TickVisit, Visit, timerVars, timeoutVars
  <1> DEFINE b == bucketIndex(currentTick)
  <1>1. b \in Buckets
    BY BucketIndexType, Zenon
  <1>2. /\ loop = "scan" /\ t \in scan /\ t \in wheel[b]
        /\ pc[t] = "returned" /\ b = bucketIndex(wheelIndex[t]) /\ launches[t] = {}
    BY <1>1, Zenon DEF ScanInv, WheelInv
  <1>3. /\ UNCHANGED <<pc, wheelIndex, appendedAt, currentTick, loop>>
        /\ \A c \in Buckets : wheel'[c] \subseteq wheel[c]
        /\ \A c \in Buckets : wheel[c] \ wheel'[c] \subseteq {t}
        /\ \A u \in Timeouts : u # t => launches'[u] = launches[u]
    BY <1>1, Zenon
  <1>4. \/ launches' = launches
        \/ /\ launches'[t] = {<<currentTick, now>>}
           /\ currentTick >= wheelIndex[t]
           /\ \A c \in Buckets : t \notin wheel'[c]
    <2>1. \A c \in Buckets : c # b => t \notin wheel[c]
      BY <1>2, Zenon DEF WheelInv
    <2> QED
      BY <1>1, <1>2, <2>1
  <1>5. WheelInv'
    BY <1>3, <1>4 DEF WheelInv, bucketIndex
  <1>6. LaunchInv'
    BY <1>2, <1>3, <1>4, Zenon DEF LaunchInv
  <1>7. ScanInv'
    BY <1>1, <1>2, Zenon DEF ScanInv, bucketIndex
  <1>8. AheadInv'
    <2> SUFFICES ASSUME NEW u \in Timeouts, InWheel(u)', appendedAt'[u] < wheelIndex'[u]
                 PROVE  \/ currentTick' < wheelIndex'[u]
                        \/ /\ currentTick' = wheelIndex'[u]
                           /\ loop' = "lock" \/ (loop' = "scan" /\ u \in scan')
      BY Zenon DEF AheadInv
    <2>1. InWheel(u)
      BY <1>3, Zenon DEF InWheel
    <2>2. CASE u # t
      BY <1>3, <2>1, <2>2, Zenon DEF AheadInv
    <2>3. CASE u = t
      <3>1. t \in wheel'[b]
        BY <1>2, <1>3, <2>3, Zenon DEF InWheel, WheelInv
      <3>2. currentTick < wheelIndex[t]
        BY <1>1, <3>1
      <3> QED
        BY <1>3, <2>3, <3>2, Zenon
    <2> QED
      BY <2>2, <2>3, Zenon
  <1>9. StopInv'
    BY <1>3, Zenon DEF StopInv
  <1>10. currentTick >= wheelIndex[t] /\ appendedAt[t] < wheelIndex[t]
           => currentTick = wheelIndex[t]
    BY <1>1, <1>2 DEF AheadInv, InWheel
  <1>11. NeverEarly' /\ OnTime' /\ AtMostOnce'
    <2>1. NeverEarly'
      BY <1>2, <1>3, <1>4 DEF NeverEarly, bucketIndex
    <2>2. OnTime'
      BY <1>3, <1>4, <1>10 DEF OnTime
    <2>3. AtMostOnce'
      BY <1>3, <1>4 DEF AtMostOnce
    <2> QED
      BY <2>1, <2>2, <2>3, Zenon
  <1> QED
    BY <1>5, <1>6, <1>7, <1>8, <1>9, <1>11, Zenon

\* The invariant is inductive.
LEMMA NextIInv == IInv /\ [Next]_vars => IInv'
  <1> SUFFICES ASSUME IInv, [Next]_vars PROVE IInv'
    BY Zenon
  <1>1. TypeOK'
    BY NextTypeOK, Zenon DEF IInv
  <1>2. CASE Next
    BY <1>1, <1>2, NewTimeoutIInv, NewTimeoutAppendIInv, OutsideIInv, TickIInv,
       TickVisitIInv, Zenon DEF Next, Run
  <1>3. CASE UNCHANGED vars
    BY <1>3 DEF IInv, TypeOK, WheelInv, LaunchInv, ScanInv, AheadInv, StopInv,
       NeverEarly, OnTime, AtMostOnce, InWheel, bucketIndex,
       vars, timerVars, loopVars, timeoutVars
  <1> QED
    BY <1>2, <1>3, Zenon

\* The inductive invariant holds in every behaviour.
THEOREM WheelInvariant == Spec => []IInv
  BY InitIInv, NextIInv, PTL DEF Spec

\* tick() never runs a task before the target tick, and a late run is late by
\* whole rotations, for any interleaving of the goroutines and any wheel.
THEOREM NeverEarlyHolds == Spec => []NeverEarly
  <1>1. IInv => NeverEarly
    BY Zenon DEF IInv
  <1> QED
    BY <1>1, WheelInvariant, PTL

\* A timeout appended before its target tick is run exactly at that tick.
THEOREM OnTimeHolds == Spec => []OnTime
  <1>1. IInv => OnTime
    BY Zenon DEF IInv
  <1> QED
    BY <1>1, WheelInvariant, PTL

\* No timeout is launched twice.
THEOREM AtMostOnceHolds == Spec => []AtMostOnce
  <1>1. IInv => AtMostOnce
    BY Zenon DEF IInv
  <1> QED
    BY <1>1, WheelInvariant, PTL

\* tick() launches no timeout that was cancelled before its visit.
THEOREM CancelledNeverLaunchedHolds == Spec => CancelledNeverLaunched
  <1>1. IInv /\ [Next]_vars =>
          [\A t \in Timeouts : cancelled[t] => launches'[t] = launches[t]]_vars
    BY Zenon DEF IInv, TypeOK, Next, Run, NewTimeout, NewTimeoutAppend, Cancel, Start,
       ParentCancel, Stop, StopTicker, StopReturn, Elapse, RunExit, RunReceive,
       TickAdvance, TickLock, TickVisit, Visit, TickUnlock, vars
  <1> QED
    BY <1>1, WheelInvariant, PTL DEF Spec, CancelledNeverLaunched

\* After Stop has returned the wheel neither turns nor launches.
THEOREM NothingAfterStopHolds == Spec => NothingAfterStop
  <1>1. IInv /\ [Next]_vars =>
          [stopPc = "returned" => UNCHANGED <<currentTick, launches>>]_vars
    BY Zenon DEF IInv, StopInv, Next, Run, NewTimeout, NewTimeoutAppend, Cancel, Start,
       ParentCancel, Stop, StopTicker, StopReturn, Elapse, RunExit, RunReceive,
       TickAdvance, TickLock, TickVisit, Visit, TickUnlock, loopVars, vars
  <1> QED
    BY <1>1, WheelInvariant, PTL DEF Spec, NothingAfterStop

-----------------------------------------------------------------------------
(***************************************************************************)
(* How late a run may be.                                                  *)
(***************************************************************************)

\* A number between two multiples of the wheel size has the remainder it shows.
LEMMA Remainder ==
  ASSUME NEW q \in Int, NEW r \in 0 .. WheelSize - 1
  PROVE  (WheelSize * q + r) % WheelSize = r
  <1> DEFINE n == WheelSize * q + r
             k == n \div WheelSize
             m == n % WheelSize
  <1>1. n \in Int /\ WheelSize \in Int /\ WheelSize > 0
    BY WheelAssumption, SMT
  <1>2. k \in Int /\ m \in 0 .. WheelSize - 1 /\ n = WheelSize * k + m
    BY <1>1, SMT
  <1>3. WheelSize * (k - q) = r - m
    BY <1>1, <1>2, SMT
  <1> HIDE DEF n, k, m
  <1>4. k = q
    <2>1. CASE k - q >= 1
      <3>1. WheelSize * (k - q) >= WheelSize
        BY <1>1, <1>2, <2>1, SMT
      <3> QED
        BY <1>1, <1>2, <1>3, <3>1, SMT
    <2>2. CASE k - q <= -1
      <3>1. WheelSize * (k - q) <= -WheelSize
        BY <1>1, <1>2, <2>2, SMT
      <3> QED
        BY <1>1, <1>2, <1>3, <3>1, SMT
    <2> QED
      BY <1>2, <2>1, <2>2, SMT
  <1> QED
    BY <1>1, <1>2, <1>3, <1>4, SMT DEF n, m

\* Within one rotation after any tick the wheel visits any bucket.
LEMMA NextVisit ==
  ASSUME NEW a \in Nat, NEW w \in Nat
  PROVE  \E n \in a + 1 .. a + WheelSize : bucketIndex(n) = bucketIndex(w)
  <1> DEFINE q == a \div WheelSize
             r == a % WheelSize
             s == w % WheelSize
  <1>1. /\ q \in Int /\ r \in 0 .. WheelSize - 1 /\ s \in 0 .. WheelSize - 1
        /\ a = WheelSize * q + r
    BY WheelAssumption, SMT
  <1> HIDE DEF q, r, s
  <1>2. CASE s > r
    <2>1. WheelSize * q + s \in a + 1 .. a + WheelSize
      BY <1>1, <1>2, WheelAssumption, SMT
    <2>2. (WheelSize * q + s) % WheelSize = s
      BY <1>1, Remainder, Zenon
    <2> QED
      BY <2>1, <2>2, Zenon DEF bucketIndex, s
  <1>3. CASE s <= r
    <2>1. WheelSize * (q + 1) + s \in a + 1 .. a + WheelSize
      BY <1>1, <1>3, WheelAssumption, SMT
    <2>2. (WheelSize * (q + 1) + s) % WheelSize = s
      BY <1>1, Remainder
    <2> QED
      BY <2>1, <2>2, Zenon DEF bucketIndex, s
  <1> QED
    BY <1>1, <1>2, <1>3

\* Tick n visits the bucket of t, and that visit is to come or under way.
Awaits(t, n) ==
  /\ bucketIndex(n) = bucketIndex(wheelIndex[t])
  /\ \/ currentTick < n
     \/ currentTick = n /\ (loop = "lock" \/ (loop = "scan" /\ t \in scan))

\* A timeout whose append lost the race awaits a visit of its bucket at most one
\* rotation after the append.
LateInv ==
  \A t \in Timeouts : InWheel(t) =>
    /\ appendedAt[t] <= currentTick
    /\ appendedAt[t] >= wheelIndex[t] =>
         \E n \in appendedAt[t] + 1 .. appendedAt[t] + WheelSize : Awaits(t, n)

\* No step lets the awaited visit pass without dropping the timeout.
LEMMA LateStep == IInv /\ LateInv /\ [Next]_vars => LateInv'
  <1> SUFFICES ASSUME IInv, LateInv, [Next]_vars, NEW t \in Timeouts, InWheel(t)'
               PROVE  /\ appendedAt'[t] <= currentTick'
                      /\ appendedAt'[t] >= wheelIndex'[t] =>
                           \E n \in appendedAt'[t] + 1 .. appendedAt'[t] + WheelSize :
                             Awaits(t, n)'
    BY Zenon DEF LateInv
  <1>0. IInv'
    BY NextIInv, Zenon
  <1> USE DEF timerVars, loopVars, timeoutVars
  <1>1. TypeOK /\ WheelInv /\ ScanInv /\ StopInv
    BY Zenon DEF IInv
  <1>2. currentTick \in Nat /\ appendedAt[t] \in Nat /\ wheelIndex[t] \in Nat
    BY <1>1, Zenon DEF TypeOK
  <1>3. CASE NewTimeoutAppend(t)
    <2>1. appendedAt'[t] = currentTick /\ currentTick' = currentTick /\ wheelIndex' = wheelIndex
      BY <1>1, <1>3, Zenon DEF NewTimeoutAppend, TypeOK
    <2>2. PICK n \in currentTick + 1 .. currentTick + WheelSize :
                 bucketIndex(n) = bucketIndex(wheelIndex[t])
      BY <1>2, NextVisit, Zenon
    <2>3. Awaits(t, n)'
      BY <1>2, <2>1, <2>2 DEF Awaits, bucketIndex
    <2> QED
      BY <1>2, <2>1, <2>2, <2>3
  <1>4. CASE ~NewTimeoutAppend(t)
    <2>1. /\ InWheel(t) /\ UNCHANGED <<appendedAt[t], wheelIndex[t]>>
          /\ currentTick' >= currentTick
      <3>1. ASSUME NEW u \in Timeouts, NEW d \in Delays, NewTimeout(u, d)
            PROVE  /\ InWheel(t) /\ UNCHANGED <<appendedAt[t], wheelIndex[t]>>
                   /\ currentTick' = currentTick
        BY <1>1, <3>1, Zenon DEF NewTimeout, InWheel, WheelInv, TypeOK
      <3>2. ASSUME NEW u \in Timeouts \ {t}, NewTimeoutAppend(u)
            PROVE  /\ InWheel(t) /\ UNCHANGED <<appendedAt[t], wheelIndex[t]>>
                   /\ currentTick' = currentTick
        BY <1>1, <3>2, BucketIndexType, Zenon DEF NewTimeoutAppend, InWheel, TypeOK
      <3>3. ASSUME NEW u \in Timeouts, TickVisit(u)
            PROVE  /\ InWheel(t) /\ UNCHANGED <<appendedAt[t], wheelIndex[t]>>
                   /\ currentTick' = currentTick
        BY <1>1, <3>3, BucketIndexType, Zenon DEF TickVisit, Visit, InWheel, TypeOK
      <3> QED
        BY <1>2, <1>4, <3>1, <3>2, <3>3
        DEF Next, Run, Cancel, Start, ParentCancel, Stop, StopTicker, StopReturn, Elapse,
            RunExit, RunReceive, TickAdvance, TickLock, TickUnlock, InWheel, vars
    <2>2. appendedAt'[t] <= currentTick'
      <3>1. appendedAt[t] <= currentTick
        BY <2>1, Zenon DEF LateInv
      <3>2. currentTick' \in Nat
        BY <1>0, Zenon DEF IInv, TypeOK
      <3> QED
        BY <1>2, <2>1, <3>1, <3>2
    <2>3. ASSUME appendedAt[t] >= wheelIndex[t], NEW n \in Nat, Awaits(t, n)
          PROVE  Awaits(t, n)'
      <3>1. t \in wheel[bucketIndex(wheelIndex[t])] /\ appendedAt[t] <= currentTick
        BY <1>1, <2>1, Zenon DEF InWheel, WheelInv, LateInv
      <3>2. CASE UNCHANGED <<currentTick, loop, scan>>
        BY <2>1, <2>3, <3>2, Zenon DEF Awaits, bucketIndex
      <3>3. CASE TickAdvance
        BY <1>2, <2>1, <2>3, <3>3 DEF TickAdvance, Awaits, bucketIndex
      <3>4. CASE TickLock
        BY <2>1, <2>3, <3>1, <3>4, Zenon DEF TickLock, Awaits, bucketIndex
      <3>5. ASSUME NEW u \in Timeouts, TickVisit(u) PROVE Awaits(t, n)'
        <4>1. CASE u # t
          BY <2>1, <2>3, <3>5, <4>1, Zenon DEF TickVisit, Visit, Awaits, bucketIndex
        <4>2. CASE u = t
          <5>1. currentTick >= wheelIndex[t]
            BY <1>2, <2>3, <3>1
          <5>2. bucketIndex(currentTick) = bucketIndex(wheelIndex[t])
            BY <1>1, <3>5, <4>2, BucketIndexType, Zenon DEF TypeOK, TickVisit, Visit, ScanInv, WheelInv
          <5>3. \A b \in Buckets : t \notin wheel'[b]
            BY <1>1, <3>5, <4>2, <5>1, <5>2, BucketIndexType
            DEF TickVisit, Visit, WheelInv, TypeOK
          <5> QED
            BY <5>3, Zenon DEF InWheel
        <4> QED
          BY <4>1, <4>2, Zenon
      <3>6. CASE loop \in {"select", "idle"} \/ TickUnlock
        <4>1. currentTick < n
          BY <2>3, <3>6, Zenon DEF TickUnlock, Awaits
        <4>2. currentTick' = currentTick
          BY <3>6, Zenon DEF TickUnlock, Next, Run, NewTimeout, NewTimeoutAppend, Cancel, Start,
             ParentCancel, Stop, StopTicker, StopReturn, Elapse, RunExit, RunReceive,
             TickAdvance, TickLock, TickVisit, Visit, vars
        <4> QED
          BY <2>1, <2>3, <4>1, <4>2, Zenon DEF Awaits, bucketIndex
      <3> QED
        BY <1>1, <3>2, <3>3, <3>4, <3>5, <3>6, Zenon
        DEF Next, Run, NewTimeout, NewTimeoutAppend, Cancel, Start, ParentCancel, Stop,
            StopTicker, StopReturn, Elapse, RunExit, RunReceive,
           StopInv, vars
    <2> QED
      BY <1>2, <2>1, <2>2, <2>3, WheelAssumption, SMTT(30) DEF LateInv
  <1> QED
    BY <1>3, <1>4, Zenon

\* A timeout whose append lost the race with its target tick is run within one
\* rotation of the append.
THEOREM LateByOneRotationHolds == Spec => []LateByOneRotation
  <1>1. Init => LateInv /\ LateByOneRotation
    BY Zenon DEF Init, LateInv, InWheel, LateByOneRotation
  <1>2. IInv /\ LateInv /\ LateByOneRotation /\ [Next]_vars => LateByOneRotation'
    <2> SUFFICES ASSUME IInv, LateInv, LateByOneRotation, [Next]_vars,
                        NEW t \in Timeouts, NEW l \in launches'[t]
                 PROVE  l[1] <= WheelSize + (IF appendedAt'[t] > wheelIndex'[t]
                                               THEN appendedAt'[t] ELSE wheelIndex'[t])
      BY Zenon DEF LateByOneRotation
    <2> USE DEF timerVars, loopVars, timeoutVars
    <2>0. TypeOK /\ LaunchInv /\ ScanInv /\ AheadInv
      BY Zenon DEF IInv
    <2>1. CASE l \in launches[t]
      <3>1. pc[t] = "returned"
        BY <2>0, <2>1, Zenon DEF LaunchInv
      <3>2. UNCHANGED <<appendedAt[t], wheelIndex[t]>>
        BY <2>0, <3>1
        DEF TypeOK, Next, Run, NewTimeout, NewTimeoutAppend, Cancel, Start, ParentCancel, Stop,
            StopTicker, StopReturn, Elapse, RunExit, RunReceive, TickAdvance, TickLock,
           TickVisit, Visit, TickUnlock, vars
      <3> QED
        BY <2>1, <3>2, Zenon DEF LateByOneRotation
    <2>2. CASE l \notin launches[t]
      <3>1. TickVisit(t)
        BY <2>0, <2>2
        DEF TypeOK, Next, Run, NewTimeout, NewTimeoutAppend, Cancel, Start, ParentCancel, Stop,
            StopTicker, StopReturn, Elapse, RunExit, RunReceive, TickAdvance, TickLock,
           TickVisit, Visit, TickUnlock, vars
      <3>2. /\ l[1] = currentTick /\ UNCHANGED <<appendedAt, wheelIndex, currentTick>>
            /\ loop = "scan" /\ t \in scan
        BY <2>0, <2>2, <3>1 DEF TypeOK, TickVisit, Visit
      <3>3. InWheel(t)
        BY <2>0, <3>2, BucketIndexType, Zenon DEF ScanInv, InWheel, TypeOK
      <3>4. appendedAt[t] \in Nat /\ wheelIndex[t] \in Nat /\ currentTick \in Nat
        BY <2>0, Zenon DEF TypeOK
      <3>5. CASE appendedAt[t] < wheelIndex[t]
        <4>1. currentTick <= wheelIndex[t]
          BY <2>0, <3>3, <3>4, <3>5 DEF AheadInv
        <4> QED
          BY <3>2, <3>4, <3>5, <4>1, WheelAssumption, SMTT(30)
      <3>6. CASE appendedAt[t] >= wheelIndex[t]
        <4>1. PICK n \in appendedAt[t] + 1 .. appendedAt[t] + WheelSize : Awaits(t, n)
          BY <3>3, <3>6, Zenon DEF LateInv
        <4>2. currentTick <= n
          BY <3>4, <4>1, WheelAssumption DEF Awaits
        <4> QED
          BY <3>2, <3>4, <3>6, <4>1, <4>2, WheelAssumption
      <3> QED
        BY <3>4, <3>5, <3>6, SMTT(30)
    <2> QED
      BY <2>1, <2>2, Zenon
  <1> QED
    BY <1>1, <1>2, LateStep, WheelInvariant, PTL DEF Spec

-----------------------------------------------------------------------------
(***************************************************************************)
(* How early a run may be on the clock.                                    *)
(***************************************************************************)

\* The signals of the ticker that were or will be ticks: processed, taken by the
\* loop, and waiting in the channel.
Signals ==
  currentTick + (IF loop = "tick" THEN 1 ELSE 0) + (IF tickerC THEN 1 ELSE 0)

\* By how much the ticks that are certain to come are ahead of the clock.
Lead == TickDuration * Signals - now + phase

\* So many signals more are at most so many ticks more.
LEMMA InTicks ==
  ASSUME NEW x \in Nat, NEW y \in Nat, NEW k \in Nat, x <= y + k
  PROVE  /\ TickDuration * x \in Nat /\ TickDuration * y \in Nat
         /\ TickDuration * x <= TickDuration * y + TickDuration * k
  <1>1. TickDuration \in Nat
    BY WheelAssumption, Zenon
  <1>2. TickDuration * x <= TickDuration * (y + k)
    BY <1>1, SMT
  <1> QED
    BY <1>1, <1>2, SMT

\* The number of signals is a natural number, now and in the next state.
LEMMA SignalsType == (TypeOK => Signals \in Nat) /\ (TypeOK' => Signals' \in Nat)
  <1> DEFINE Typed == Signals \in Nat
  <1>1. TypeOK => Typed
    BY DEF TypeOK, Signals
  <1> HIDE DEF Typed
  <1>2. TypeOK' => Typed'
    BY <1>1, PTL
  <1> QED
    BY <1>1, <1>2, Zenon DEF Typed

\* The lead is an integer, and at most two ticks and a phase above the wheel.
LEMMA LeadBound ==
  ASSUME TypeOK
  PROVE  /\ Lead \in Int
         /\ Lead < TickDuration * currentTick - now + 3 * TickDuration
  <1>1. Signals \in Nat /\ Signals <= currentTick + 2 /\ currentTick \in Nat
    BY DEF TypeOK, Signals
  <1>2. TickDuration \in Nat /\ now \in Nat /\ phase \in Nat /\ phase < TickDuration
    BY WheelAssumption DEF TypeOK
  <1>3. /\ TickDuration * Signals \in Nat /\ TickDuration * currentTick \in Nat
        /\ TickDuration * Signals <= TickDuration * currentTick + TickDuration * 2
    BY <1>1, InTicks, Zenon
  <1> QED
    BY <1>2, <1>3 DEF Lead

\* No step increases the lead: a signal comes when a whole tick has passed, is
\* dropped when one is waiting, and gives at most one tick.
LEMMA LeadFalls == TypeOK /\ [Next]_vars => Lead' <= Lead
  <1> SUFFICES ASSUME TypeOK, [Next]_vars PROVE Lead' <= Lead
    BY Zenon
  <1>1. TypeOK'
    BY NextTypeOK, Zenon
  <1>2. Signals \in Nat /\ now \in Nat /\ phase \in Nat /\ TickDuration \in Nat
    BY WheelAssumption DEF Signals, TypeOK
  <1>3. Signals' \in Nat /\ now' \in Nat /\ phase' \in Nat
    BY <1>1, SignalsType DEF TypeOK
  <1> DEFINE S == TickDuration * Signals
             N == TickDuration * Signals'
  <1>4. CASE Elapse
    <2>1. CASE phase' = 0
      <3>1. Signals' <= Signals + 1 /\ now' = now + 1 /\ phase + 1 = TickDuration
        BY <1>4, <2>1 DEF Elapse, Signals, TypeOK, loopVars
      <3>2. N \in Nat /\ S \in Nat /\ N <= S + TickDuration * 1
        BY <1>2, <1>3, <3>1, InTicks, Zenon
      <3>3. Lead = S - now + phase /\ Lead' = N - now' + phase'
        BY Zenon DEF Lead
      <3> HIDE DEF S, N
      <3> QED
        BY <1>2, <2>1, <3>1, <3>2, <3>3
    <2>2. CASE phase' # 0
      <3>1. Signals' = Signals /\ now' = now + 1 /\ phase' = phase + 1
        BY <1>4, <2>2, Zenon DEF Elapse, Signals, TypeOK, loopVars
      <3>2. TickDuration * Signals \in Nat
        BY <1>2, InTicks
      <3> QED
        BY <1>2, <3>1, <3>2 DEF Lead
    <2> QED
      BY <2>1, <2>2, Zenon
  <1>5. CASE ~Elapse
    <2>1. Signals' <= Signals + 0 /\ now' = now /\ phase' = phase
      BY <1>5 DEF Signals, TypeOK, Next, Run, NewTimeout, NewTimeoutAppend, Cancel, Start,
         ParentCancel, Stop, StopTicker, StopReturn, RunExit, RunReceive, TickAdvance,
         TickLock, TickVisit, Visit, TickUnlock, vars, timerVars, loopVars
    <2>2. N \in Nat /\ S \in Nat /\ N <= S + TickDuration * 0
      BY <1>2, <1>3, <2>1, InTicks, Zenon
    <2>3. Lead = S - now + phase /\ Lead' = N - now' + phase'
      BY Zenon DEF Lead
    <2> HIDE DEF S, N
    <2> QED
      BY <1>2, <2>1, <2>2, <2>3, SMTT(30)
  <1> QED
    BY <1>4, <1>5, Zenon

\* The deadline of a timeout and the lead stay below its target tick and 4 ticks.
DeadlineInv ==
  \A t \in Timeouts : pc[t] \in {"loaded", "returned"} =>
    deadline[t] + Lead < TickDuration * wheelIndex[t] + 4 * TickDuration

\* NewTimeout establishes it for the timeout it creates, and the lead only falls.
LEMMA DeadlineStep == TypeOK /\ DeadlineInv /\ [Next]_vars => DeadlineInv'
  <1> SUFFICES ASSUME TypeOK, DeadlineInv, [Next]_vars, NEW t \in Timeouts,
                      pc'[t] \in {"loaded", "returned"}
               PROVE  deadline'[t] + Lead'
                        < TickDuration * wheelIndex'[t] + 4 * TickDuration
    BY Zenon DEF DeadlineInv
  <1>1. TypeOK' /\ Lead' <= Lead /\ Lead \in Int /\ TickDuration \in Nat
    BY NextTypeOK, LeadFalls, LeadBound, WheelAssumption, Zenon
  <1>2. Lead' \in Int
    <2>1. Signals' \in Nat /\ now' \in Nat /\ phase' \in Nat
      BY <1>1, SignalsType DEF TypeOK
    <2>2. TickDuration * Signals' \in Nat
      BY <2>1, InTicks
    <2> QED
      BY <2>1, <2>2 DEF Lead
  <1>3. ASSUME NEW d \in Delays, NewTimeout(t, d)
        PROVE  deadline'[t] + Lead' < TickDuration * wheelIndex'[t] + 4 * TickDuration
    <2> DEFINE k == d \div TickDuration
    <2>1. /\ d \in Nat /\ k \in Nat /\ d < TickDuration * k + TickDuration
          /\ TickDuration * k \in Nat
      BY DelayInTicks, WheelAssumption, InTicks
    <2>2. /\ deadline'[t] = now + d
          /\ wheelIndex'[t] = currentTick + k
          /\ now \in Nat /\ currentTick \in Nat
      BY <1>3, Zenon DEF NewTimeout, TypeOK
    <2> HIDE DEF k
    <2>3. /\ TickDuration * (currentTick + k)
                = TickDuration * currentTick + TickDuration * k
          /\ TickDuration * currentTick \in Nat
      BY <1>1, <2>1, <2>2, SMT
    <2>4. Lead < TickDuration * currentTick - now + 3 * TickDuration
      BY LeadBound, Zenon
    <2> DEFINE A == TickDuration * currentTick
               B == TickDuration * k
               L == Lead
               N == Lead'
    <2>5. /\ A \in Nat /\ B \in Nat /\ L \in Int /\ N \in Int /\ N <= L
          /\ L < A - now + 3 * TickDuration /\ d < B + TickDuration
          /\ TickDuration * wheelIndex'[t] = A + B
      BY <1>1, <1>2, <2>1, <2>2, <2>3, <2>4, Zenon
    <2> HIDE DEF A, B, L, N
    <2>6. now + d + N < A + B + 4 * TickDuration
      BY <1>1, <2>1, <2>2, <2>5
    <2> QED
      BY <2>2, <2>5, <2>6, Zenon DEF N
  <1>4. CASE \A d \in Delays : ~NewTimeout(t, d)
    <2>1. pc[t] \in {"loaded", "returned"} /\ UNCHANGED <<deadline[t], wheelIndex[t]>>
      BY <1>4 DEF TypeOK, Next, Run, NewTimeout, NewTimeoutAppend, Cancel, Start,
         ParentCancel, Stop, StopTicker, StopReturn, Elapse, RunExit, RunReceive,
         TickAdvance, TickLock, TickVisit, Visit, TickUnlock, vars, timeoutVars
    <2>2. /\ deadline[t] + Lead < TickDuration * wheelIndex[t] + 4 * TickDuration
          /\ deadline[t] \in Nat /\ wheelIndex[t] \in Nat
      BY <2>1, Zenon DEF DeadlineInv, TypeOK
    <2>3. TickDuration * wheelIndex[t] \in Nat
      BY <2>2, InTicks
    <2> QED
      BY <1>1, <1>2, <2>1, <2>2, <2>3, SMTT(30)
  <1> QED
    BY <1>3, <1>4, Zenon

\* No ticks take no time.
LEMMA TimesZero == ASSUME NEW d \in Nat PROVE d * 0 = 0
  OBVIOUS

\* A bound with nothing added to it.
LEMMA AddZero ==
  ASSUME NEW p \in Nat, NEW q \in Nat, NEW z, z = 0, p <= q + z
  PROVE  p <= q
  OBVIOUS

\* On the clock no task runs 4 ticks or more before its deadline, however long the
\* loop, the callers and the ticker keep each other waiting.
THEOREM EarlyByLessThanFourTicksHolds == Spec => []EarlyByLessThanFourTicks
  <1>1. Init => DeadlineInv /\ EarlyByLessThanFourTicks
    BY Zenon DEF Init, DeadlineInv, EarlyByLessThanFourTicks
  <1>2. IInv /\ DeadlineInv /\ EarlyByLessThanFourTicks /\ [Next]_vars
          => EarlyByLessThanFourTicks'
    <2> SUFFICES ASSUME IInv, DeadlineInv, EarlyByLessThanFourTicks, [Next]_vars,
                        NEW t \in Timeouts, NEW l \in launches'[t]
                 PROVE  l[2] + 4 * TickDuration > deadline'[t]
      BY Zenon DEF EarlyByLessThanFourTicks
    <2> USE DEF timerVars, loopVars, timeoutVars
    <2>0. TypeOK /\ LaunchInv /\ ScanInv /\ WheelInv
      BY Zenon DEF IInv
    <2>1. CASE l \in launches[t]
      <3>1. pc[t] = "returned"
        BY <2>0, <2>1, Zenon DEF LaunchInv
      <3>2. deadline'[t] = deadline[t]
        BY <2>0, <3>1, Zenon
        DEF TypeOK, Next, Run, NewTimeout, NewTimeoutAppend, Cancel, Start, ParentCancel, Stop,
            StopTicker, StopReturn, Elapse, RunExit, RunReceive, TickAdvance, TickLock,
           TickVisit, Visit, TickUnlock, vars
      <3> QED
        BY <2>1, <3>2, Zenon DEF EarlyByLessThanFourTicks
    <2>2. CASE l \notin launches[t]
      <3>1. TickVisit(t)
        BY <2>0, <2>2, Zenon
        DEF TypeOK, Next, Run, NewTimeout, NewTimeoutAppend, Cancel, Start, ParentCancel, Stop,
            StopTicker, StopReturn, Elapse, RunExit, RunReceive, TickAdvance, TickLock,
           TickVisit, Visit, TickUnlock, vars
      <3>2. /\ l[2] = now /\ deadline' = deadline /\ currentTick >= wheelIndex[t]
            /\ pc[t] = "returned"
        BY <2>0, <2>2, <3>1, BucketIndexType, SMTT(30) DEF TypeOK, TickVisit, Visit, ScanInv, WheelInv
      <3>3. /\ deadline[t] \in Nat /\ wheelIndex[t] \in Nat /\ currentTick \in Nat
            /\ now \in Nat /\ phase \in Nat /\ Signals \in Nat /\ Signals >= currentTick
            /\ TickDuration \in Nat
        BY <2>0, WheelAssumption DEF TypeOK, Signals
      <3>4. deadline[t] + Lead < TickDuration * wheelIndex[t] + 4 * TickDuration
        BY <3>2, ZenonT(40) DEF DeadlineInv
      <3>5. /\ TickDuration * wheelIndex[t] \in Nat /\ TickDuration * Signals \in Nat
            /\ TickDuration * wheelIndex[t] <= TickDuration * Signals
        <4>1. wheelIndex[t] <= Signals + 0
          BY <3>2, <3>3
        <4>2. /\ TickDuration * wheelIndex[t] \in Nat /\ TickDuration * Signals \in Nat
              /\ TickDuration * wheelIndex[t] <= TickDuration * Signals + TickDuration * 0
          BY <3>3, <4>1, InTicks, Zenon
        <4>3. TickDuration * 0 = 0
          BY <3>3, TimesZero, Zenon
        <4> QED
          BY <4>2, <4>3, AddZero, Zenon
      <3> QED
        BY <3>2, <3>3, <3>4, <3>5 DEF Lead
    <2> QED
      BY <2>1, <2>2, Zenon
  <1>3. IInv => TypeOK
    BY Zenon DEF IInv
  <1> QED
    BY <1>1, <1>2, <1>3, DeadlineStep, WheelInvariant, PTL DEF Spec

-----------------------------------------------------------------------------
(***************************************************************************)
(* The wheel implements the abstract timer.                                *)
(***************************************************************************)

\* The initial states of the wheel map to initial states of the timer.
LEMMA InitRefines == Init => T!Init
  BY Zenon DEF Init, T!Init, timeoutState, timerState

\* What a launched task relies on: the visited timeout is pending and the
\* timer has not finished stopping.
LEMMA VisitRefines ==
  ASSUME IInv, NEW t \in Timeouts, TickVisit(t)
  PROVE  T!Launch(t) \/ UNCHANGED T!vars
  <1> USE DEF IInv, TypeOK, TickVisit, Visit, timerVars, timeoutVars
  <1>1. /\ pc[t] = "returned"
        /\ launches[t] = {}
        /\ UNCHANGED <<pc, cancelled, started, stopPc, ctxDone>>
    BY BucketIndexType, Zenon DEF ScanInv, WheelInv
  <1>2. started /\ stopPc # "returned"
    BY Zenon DEF StopInv
  <1>3. timerState \in {"running", "halting", "stopping"} /\ timerState' = timerState
    BY <1>1, <1>2 DEF timerState, stopped
  <1>4. CASE UNCHANGED launches
    BY <1>1, <1>3, <1>4, Zenon DEF T!vars, timeoutState
  <1>5. CASE /\ ~cancelled[t]
             /\ launches' = [launches EXCEPT ![t] = @ \cup {<<currentTick, now>>}]
    <2>1. timeoutState(t) = "pending" /\ timeoutState(t)' = "launched"
      BY <1>1, <1>5, Zenon DEF timeoutState
    <2>2. \A u \in Timeouts : u # t => timeoutState(u)' = timeoutState(u)
      BY <1>1, <1>5, Zenon DEF timeoutState
    <2> QED
      BY <1>1, <1>3, <1>5, <2>1, <2>2, Zenon DEF T!Launch
  <1> QED
    BY <1>4, <1>5, Zenon

\* Every other step changes the abstract state only as its abstract
\* counterpart does.
LEMMA NextRefines == IInv /\ [Next]_vars => [T!Next]_T!vars
  <1> SUFFICES ASSUME IInv, [Next]_vars PROVE [T!Next]_T!vars
    BY Zenon
  <1> USE DEF IInv, TypeOK, timerVars, loopVars, timeoutVars
  <1>1. ASSUME NEW t \in Timeouts, NEW d \in Delays, NewTimeout(t, d)
        PROVE  T!New(t)
    <2>1. launches[t] = {} /\ pc[t] = "none"
      BY <1>1, Zenon DEF NewTimeout, LaunchInv
    <2>2. timerState' = timerState /\ cancelled' = cancelled
      BY <1>1, Zenon DEF NewTimeout, timerState, stopped
    <2>3. timeoutState(t) = "none"
      BY <2>1, Zenon DEF timeoutState
    <2>4. \A u \in Timeouts : u # t => timeoutState(u)' = timeoutState(u)
      BY <1>1, Zenon DEF NewTimeout, timeoutState
    <2>5. timeoutState(t)' =
            IF timerState \in {"stopping", "stopped"} THEN "nil" ELSE "pending"
      BY <1>1, <2>1, Zenon DEF NewTimeout, timeoutState, timerState, stopped, StopInv
    <2> QED
      BY <2>2, <2>3, <2>4, <2>5, Zenon DEF T!New
  <1>2. ASSUME NEW t \in Timeouts, NewTimeoutAppend(t)
        PROVE  UNCHANGED T!vars
    BY <1>2, Zenon DEF NewTimeoutAppend, T!vars, timeoutState, timerState, stopped
  <1>3. ASSUME NEW t \in Timeouts, Cancel(t)
        PROVE  T!Cancel(t)
    BY <1>3, Zenon DEF Cancel, T!Cancel, timeoutState, timerState, stopped
  <1>4. Start => T!Start
    BY DEF Start, T!Start, timeoutState, timerState, stopped, StopInv
  <1>5. ParentCancel => T!Halt \/ UNCHANGED T!vars
    BY DEF ParentCancel, T!Halt, T!vars, timeoutState, timerState, stopped
  <1>6. Stop => T!StopBegin
    BY DEF Stop, T!StopBegin, timeoutState, timerState, stopped
  <1>7. StopTicker => UNCHANGED T!vars
    BY DEF StopTicker, T!vars, timeoutState, timerState, stopped
  <1>8. StopReturn => T!StopReturn
    BY DEF StopReturn, T!StopReturn, timeoutState, timerState, stopped, StopInv
  <1>9. Elapse \/ RunExit \/ RunReceive \/ TickAdvance \/ TickLock \/ TickUnlock
          => UNCHANGED T!vars
    BY DEF Elapse, RunExit, RunReceive, TickAdvance, TickLock, TickUnlock, T!vars,
       timeoutState, timerState, stopped
  <1>10. UNCHANGED vars => UNCHANGED T!vars
    BY DEF vars, T!vars, timeoutState, timerState, stopped
  <1> QED
    BY <1>1, <1>2, <1>3, <1>4, <1>5, <1>6, <1>7, <1>8, <1>9, <1>10, VisitRefines, Zenon
        DEF Next, Run, T!Next

\* The hashed wheel timer implements the abstract timer, for every wheel size,
\* tick duration and set of delays.
THEOREM WheelImplementsTimer == Spec => ImplementsTimer
  BY InitRefines, NextRefines, WheelInvariant, PTL DEF Spec, ImplementsTimer, T!Spec
=============================================================================
