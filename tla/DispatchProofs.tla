--------------------------- MODULE DispatchProofs ---------------------------
(***************************************************************************)
(* Theorems about the executions of a job: CommonDispatch, for any number  *)
(* of metrics, and JobParams, for any jobs and any number of executions.   *)
(*                                                                         *)
(* ReportedOnce and DeliveredInOrder do not speak of the loops they are    *)
(* the outcome of: the invariant relates the index of the receiving loop   *)
(* to the metrics that have been received or timed out, and that of        *)
(* handleResults to the results that have been sent or refused.  That an   *)
(* execution ends is liveness; what it rests on is not: no send to a       *)
(* channel has to wait, and the dispatcher has ever fewer steps left.      *)
(***************************************************************************)
EXTENDS CommonDispatch, JobParams, FiniteSetTheorems, FunctionTheorems, WellFoundedInduction,
        TLAPS

Elements(q) == {q[k] : k \in DOMAIN q}
Increasing(q) == \A k, l \in DOMAIN q : k < l => q[k] < q[l]

\* The types the proof needs.
Typed ==
  /\ pc \in {"start", "receive", "handle", "send", "done"}
  /\ i \in Nat \ {0}
  /\ results \in Seq(Metrics)
  /\ errors \subseteq Metrics
  /\ sent \in Seq(Metrics)
  /\ dropped \subseteq Metrics

\* The receiving loop: the metrics before its index have been dealt with.
Receiving ==
  /\ Elements(results) \cap errors = {}
  /\ pc = "start" => results = <<>> /\ errors = {}
  /\ pc \in {"start", "receive"} => i \in Metrics /\ sent = <<>> /\ dropped = {}
  /\ pc = "receive" => Elements(results) \cup errors = 1 .. (i - 1)
  /\ pc \in {"handle", "send", "done"} => Elements(results) \cup errors = Metrics

Handled(k) == {results[j] : j \in 1 .. (k - 1)}

\* handleResults: the results before its index have been sent or refused.
Delivering ==
  /\ Increasing(results) /\ Increasing(sent)
  /\ pc \in {"handle", "send"} =>
       /\ IF results = <<>> THEN i = 1 ELSE i \in DOMAIN results
       /\ Elements(sent) \cup dropped = Handled(i)
  /\ pc = "send" => results # <<>>
  /\ pc = "done" => Elements(sent) \cup dropped = Elements(results)

IInv == Typed /\ Receiving /\ Delivering

-----------------------------------------------------------------------------
\* What an append does to the elements of a sequence and to their order.
LEMMA Appended ==
  ASSUME NEW q \in Seq(Metrics), NEW m \in Metrics
  PROVE  /\ Append(q, m) \in Seq(Metrics)
         /\ Elements(Append(q, m)) = Elements(q) \cup {m}
         /\ Increasing(q) /\ (\A x \in Elements(q) : x < m) => Increasing(Append(q, m))
<1> DEFINE r == Append(q, m)
<1>1. r \in Seq(Metrics)
  OBVIOUS
<1>2. /\ Len(q) \in Nat /\ DOMAIN q = 1 .. Len(q) /\ DOMAIN r = 1 .. (Len(q) + 1)
      /\ r[Len(q) + 1] = m /\ \A k \in DOMAIN q : r[k] = q[k]
  OBVIOUS
<1>3. Elements(r) = Elements(q) \cup {m}
  <2>1. ASSUME NEW x \in Elements(r) PROVE x \in Elements(q) \cup {m}
    <3>1. PICK k \in DOMAIN r : x = r[k]
      BY <2>1, Zenon DEF Elements
    <3>2. k \in DOMAIN q \/ k = Len(q) + 1
      BY <1>2, <3>1
    <3> HIDE DEF r
    <3> QED
      BY <1>2, <3>1, <3>2, Zenon DEF Elements
  <2>2. ASSUME NEW x \in Elements(q) \cup {m} PROVE x \in Elements(r)
    <3>1. CASE x = m
      <4>1. Len(q) + 1 \in DOMAIN r
        BY <1>2
      <4> HIDE DEF r
      <4> QED
        BY <1>2, <3>1, <4>1, Zenon DEF Elements
    <3>2. CASE x \in Elements(q)
      <4>1. PICK k \in DOMAIN q : x = q[k]
        BY <3>2, Zenon DEF Elements
      <4>2. k \in DOMAIN r
        BY <1>2, <4>1
      <4> HIDE DEF r
      <4> QED
        BY <1>2, <4>1, <4>2, Zenon DEF Elements
    <3> QED
      BY <2>2, <3>1, <3>2, Zenon
  <2> QED
    BY <2>1, <2>2, Zenon
<1>4. ASSUME Increasing(q), \A x \in Elements(q) : x < m PROVE Increasing(r)
  <2> SUFFICES ASSUME NEW k \in DOMAIN r, NEW l \in DOMAIN r, k < l PROVE r[k] < r[l]
    BY Zenon DEF Increasing
  <2>1. k \in DOMAIN q /\ r[k] = q[k] /\ q[k] \in Elements(q)
    BY <1>2 DEF Elements
  <2>2. CASE l \in DOMAIN q
    BY <1>2, <1>4, <2>1, <2>2, Zenon DEF Increasing
  <2>3. CASE l \notin DOMAIN q
    BY <1>2, <1>4, <2>1, <2>3
  <2> QED
    BY <2>2, <2>3, Zenon
<1> QED
  BY <1>1, <1>3, <1>4, Zenon

\* The results handled before the next index, and before the end.
LEMMA HandledNext ==
  ASSUME results \in Seq(Metrics), NEW k \in DOMAIN results
  PROVE  /\ Handled(k + 1) = Handled(k) \cup {results[k]}
         /\ k >= Len(results) => Handled(k + 1) = Elements(results)
         /\ k < Len(results) => k + 1 \in DOMAIN results
         /\ Handled(1) = {}
<1>1. Len(results) \in Nat /\ DOMAIN results = 1 .. Len(results)
  OBVIOUS
<1>2. k >= Len(results) => 1 .. (k + 1 - 1) = DOMAIN results
  BY <1>1
<1>3. k < Len(results) => k + 1 \in DOMAIN results
  BY <1>1
<1>4. Handled(k + 1) = Handled(k) \cup {results[k]} /\ Handled(1) = {}
  BY <1>1 DEF Handled
<1>5. k >= Len(results) => Handled(k + 1) = Elements(results)
  BY <1>2 DEF Handled, Elements
<1> QED
  BY <1>3, <1>4, <1>5, Zenon

-----------------------------------------------------------------------------
\* Steps that leave the results and their delivery alone.
LEMMA OtherSteps ==
  ASSUME IInv, UNCHANGED <<pc, i, results, errors, sent, dropped>>
  PROVE  IInv'
  BY Zenon DEF IInv, Typed, Receiving, Delivering, Handled

\* The loop that starts the collectors.
LEMMA StartCollectInv ==
  ASSUME IInv, StartCollect
  PROVE  IInv'
<1>1. /\ pc = "start" /\ UNCHANGED <<results, errors, sent, dropped>> /\ i \in 1 .. N
      /\ results = <<>> /\ errors = {} /\ sent = <<>> /\ dropped = {}
      /\ \/ i < N /\ i' = i + 1 /\ pc' = "start"
         \/ i >= N /\ i' = 1 /\ pc' = "receive"
  BY DispatchAssumption
  DEF StartCollect, Advance, resultVars, deliveryVars, IInv, Receiving, Metrics
<1>2. i' \in 1 .. N /\ i' \in Nat \ {0}
  BY <1>1, DispatchAssumption
<1>3. Typed'
  BY <1>1, <1>2, Zenon DEF IInv, Typed
<1>4. Elements(results) = {} /\ 1 .. (1 - 1) = {}
  BY <1>1 DEF Elements
<1>5. Receiving'
  BY <1>1, <1>2, <1>4 DEF Receiving, Metrics, Elements
<1>6. Delivering'
  BY <1>1, Zenon DEF IInv, Delivering, Increasing
<1> QED
  BY <1>3, <1>5, <1>6, Zenon DEF IInv

\* The index of the receiving loop moves past a metrics that is dealt with.
LEMMA ReceiveNext ==
  ASSUME IInv, pc = "receive", Advance(N, "handle"), UNCHANGED <<sent, dropped>>,
         results' \in Seq(Metrics), errors' \subseteq Metrics, Increasing(results'),
         Elements(results') \cap errors' = {},
         Elements(results') \cup errors' = (1 .. (i - 1)) \cup {i}
  PROVE  IInv'
<1>1. /\ i \in 1 .. N /\ sent = <<>> /\ dropped = {} /\ N \in Nat
      /\ \/ i < N /\ i' = i + 1 /\ pc' = "receive"
         \/ i >= N /\ i' = 1 /\ pc' = "handle"
  BY DispatchAssumption DEF Advance, IInv, Receiving, Metrics
<1>2. Typed'
  BY <1>1 DEF IInv, Typed
<1>3. Receiving'
  <2>1. CASE i < N
    <3>1. i' \in 1 .. N /\ 1 .. (i' - 1) = (1 .. (i - 1)) \cup {i}
      BY <1>1, <2>1
    <3> QED
      BY <1>1, <2>1, <3>1, SMTT(30) DEF Receiving, Metrics, Elements
  <2>2. CASE i >= N
    <3>1. 1 .. N = (1 .. (i - 1)) \cup {i}
      BY <1>1, <2>2
    <3> QED
      BY <1>1, <2>2, <3>1 DEF Receiving, Metrics, Elements
  <2> QED
    BY <1>1, <2>1, <2>2, Zenon
<1>4. Delivering'
  <2>1. Increasing(sent') /\ Elements(sent') \cup dropped' = {}
    BY <1>1 DEF Increasing, Elements
  <2>2. i' = 1 => Handled(i)' = {}
    BY DEF Handled
  <2>3. results' # <<>> => 1 \in DOMAIN results'
    OBVIOUS
  <2> QED
    BY <1>1, <2>1, <2>2, <2>3, Zenon DEF Delivering, Increasing, Elements
<1> QED
  BY <1>2, <1>3, <1>4, Zenon DEF IInv

\* A result is received, or its metrics times out.
LEMMA ReceiveInv ==
  ASSUME IInv, Receive \/ ReceiveTimeout
  PROVE  IInv'
<1>1. /\ pc = "receive" /\ Advance(N, "handle") /\ UNCHANGED <<sent, dropped>> /\ i \in Metrics
      /\ results \in Seq(Metrics) /\ errors \subseteq Metrics /\ Increasing(results)
      /\ Elements(results) \cup errors = 1 .. (i - 1) /\ Elements(results) \cap errors = {}
  BY Zenon DEF Receive, ReceiveTimeout, deliveryVars, IInv, Typed, Receiving, Delivering
<1>2. i \in Nat /\ i \notin 1 .. (i - 1) /\ \A x \in 1 .. (i - 1) : x < i
  BY <1>1, DispatchAssumption DEF Metrics
<1>3. CASE Receive
  <2>1. results' = Append(results, i) /\ errors' = errors
    BY <1>3, Zenon DEF Receive
  <2>2. /\ results' \in Seq(Metrics) /\ Elements(results') = Elements(results) \cup {i}
        /\ Increasing(results')
    BY <1>1, <1>2, <2>1, Appended, Zenon
  <2> QED
    BY <1>1, <1>2, <2>1, <2>2, ReceiveNext, Zenon
<1>4. CASE ReceiveTimeout
  <2>1. results' = results /\ errors' = errors \cup {i}
    BY <1>4, Zenon DEF ReceiveTimeout
  <2> QED
    BY <1>1, <1>2, <2>1, ReceiveNext, Zenon
<1> QED
  BY <1>3, <1>4, Zenon

\* The index of handleResults moves past a result that is sent or refused.
LEMMA HandleNext ==
  ASSUME IInv, pc \in {"handle", "send"}, results # <<>>, UNCHANGED <<results, errors>>,
         \/ i < Len(results) /\ i' = i + 1 /\ pc' = "handle"
         \/ ~(i < Len(results)) /\ i' = 1 /\ pc' = "done",
         \/ sent' = sent /\ dropped' = dropped \cup {results[i]}
         \/ sent' = Append(sent, results[i]) /\ dropped' = dropped
  PROVE  IInv'
<1>1. /\ results \in Seq(Metrics) /\ sent \in Seq(Metrics) /\ dropped \subseteq Metrics
      /\ Increasing(results) /\ Increasing(sent) /\ i \in DOMAIN results
      /\ Elements(sent) \cup dropped = Handled(i)
  BY Zenon DEF IInv, Typed, Delivering
<1>2. i \in Nat \ {0} /\ results[i] \in Metrics /\ Len(results) \in Nat
  BY <1>1
<1>3. \A x \in Handled(i) : x < results[i]
  <2> SUFFICES ASSUME NEW j \in 1 .. (i - 1) PROVE results[j] < results[i]
    BY Zenon DEF Handled
  <2>1. j \in DOMAIN results /\ j < i
    BY <1>1, <1>2
  <2> QED
    BY <1>1, <2>1, Zenon DEF Increasing
<1>4. /\ sent' \in Seq(Metrics) /\ dropped' \subseteq Metrics /\ Increasing(sent')
      /\ Elements(sent') \cup dropped' = Handled(i) \cup {results[i]}
  <2>1. CASE sent' = sent /\ dropped' = dropped \cup {results[i]}
    BY <1>1, <1>2, <2>1, Zenon
  <2>2. CASE sent' = Append(sent, results[i]) /\ dropped' = dropped
    BY <1>1, <1>2, <1>3, <2>2, Appended, Zenon
  <2> QED
    BY <2>1, <2>2, Zenon
<1>5. /\ Handled(i + 1) = Handled(i) \cup {results[i]}
      /\ i >= Len(results) => Handled(i + 1) = Elements(results)
      /\ i < Len(results) => i + 1 \in DOMAIN results
  BY <1>1, HandledNext, Zenon
<1>6. Typed' /\ Receiving'
  BY <1>1, <1>2, <1>4 DEF IInv, Typed, Receiving, Elements
<1>7. i' = i + 1 => Handled(i)' = Handled(i + 1)
  BY Zenon DEF Handled
<1>8. Delivering'
  <2>1. Increasing(results') /\ Increasing(sent') /\ results' # <<>>
    BY <1>1, <1>4, Zenon
  <2>2. CASE i < Len(results)
    <3>1. i' \in DOMAIN results' /\ pc' = "handle"
      BY <1>5, <2>2, Zenon
    <3>2. Elements(sent') \cup dropped' = Handled(i)'
      BY <1>4, <1>5, <1>7, <2>2, Zenon
    <3> QED
      BY <2>1, <3>1, <3>2, Zenon DEF Delivering, Increasing, Elements
  <2>3. CASE ~(i < Len(results))
    <3>1. pc' = "done" /\ Elements(sent') \cup dropped' = Elements(results')
      BY <1>1, <1>2, <1>4, <1>5, <2>3
    <3> QED
      BY <2>1, <3>1, Zenon DEF Delivering, Increasing, Elements
  <2> QED
    BY <2>2, <2>3, Zenon
<1> QED
  BY <1>6, <1>8, Zenon DEF IInv

\* The steps of handleResults.
LEMMA HandleInv ==
  ASSUME IInv, NothingToHandle \/ HandleNotReady \/ HandleReady \/ HandleSend
  PROVE  IInv'
<1>1. CASE NothingToHandle
  <2>1. /\ pc = "handle" /\ results = <<>> /\ pc' = "done"
        /\ UNCHANGED <<i, results, errors, sent, dropped>>
    BY <1>1, Zenon DEF NothingToHandle, resultVars, deliveryVars
  <2>2. Elements(sent) \cup dropped = Handled(i) /\ i = 1
    BY <2>1, Zenon DEF IInv, Delivering
  <2>3. Handled(i) = {} /\ Elements(results) = {}
    BY <2>1, <2>2 DEF Handled, Elements
  <2>4. Typed' /\ Receiving'
    BY <2>1, Zenon DEF IInv, Typed, Receiving
  <2>5. Elements(sent') \cup dropped' = Elements(results')
    BY <2>1, <2>2, <2>3, Zenon
  <2>6. Increasing(results') /\ Increasing(sent')
    BY <2>1, Zenon DEF IInv, Delivering
  <2> QED
    BY <2>1, <2>4, <2>5, <2>6, Zenon DEF IInv, Delivering, Elements, Increasing
<1>2. CASE HandleReady
  BY <1>2, Zenon
     DEF HandleReady, resultVars, deliveryVars, IInv, Typed, Receiving, Delivering, Handled
<1>3. CASE HandleNotReady
  <2>1. /\ pc = "handle" /\ results # <<>> /\ UNCHANGED <<results, errors>>
        /\ sent' = sent /\ dropped' = dropped \cup {results[i]}
        /\ \/ i < Len(results) /\ i' = i + 1 /\ pc' = "handle"
           \/ ~(i < Len(results)) /\ i' = 1 /\ pc' = "done"
    BY <1>3, Zenon DEF HandleNotReady, Advance, resultVars
  <2> QED
    BY <2>1, HandleNext, Zenon
<1>4. CASE HandleSend
  <2>1. /\ pc = "send" /\ results # <<>> /\ UNCHANGED <<results, errors>>
        /\ \/ sent' = sent /\ dropped' = dropped \cup {results[i]}
           \/ sent' = Append(sent, results[i]) /\ dropped' = dropped
        /\ \/ i < Len(results) /\ i' = i + 1 /\ pc' = "handle"
           \/ ~(i < Len(results)) /\ i' = 1 /\ pc' = "done"
    BY <1>4, Zenon DEF HandleSend, resultVars, IInv, Delivering
  <2> QED
    BY <2>1, HandleNext, Zenon
<1> QED
  BY <1>1, <1>2, <1>3, <1>4, Zenon

\* The invariant of an execution.
LEMMA Invariance == Spec => []IInv
<1>1. Init => IInv
  <2> SUFFICES ASSUME Init PROVE IInv
    BY Zenon
  <2>1. /\ pc = "start" /\ i = 1 /\ results = <<>> /\ errors = {} /\ sent = <<>> /\ dropped = {}
        /\ 1 \in Metrics /\ <<>> \in Seq(Metrics)
    BY DispatchAssumption DEF Init, Metrics
  <2> QED
    BY <2>1 DEF IInv, Typed, Receiving, Delivering, Elements, Increasing
<1>2. IInv /\ [Next]_vars => IInv'
  <2> SUFFICES ASSUME IInv, [Next]_vars PROVE IInv'
    BY Zenon
  <2>1. CASE UNCHANGED vars
    BY <2>1, OtherSteps, Zenon DEF vars, resultVars, deliveryVars
  <2>2. ASSUME NEW m \in Metrics, Collected(m) \/ SendToChannel(m) PROVE IInv'
    BY <2>2, OtherSteps, Zenon DEF Collected, SendToChannel, resultVars, deliveryVars
  <2>3. CASE DeadlinePasses \/ DialBegins \/ DialEnds \/ Disconnects
    BY <2>3, OtherSteps, Zenon DEF DeadlinePasses, DialBegins, DialEnds, Disconnects, resultVars, deliveryVars
  <2>4. CASE Dispatcher
    BY <2>4, StartCollectInv, ReceiveInv, HandleInv, Zenon DEF Dispatcher
  <2> QED
    BY <2>1, <2>2, <2>3, <2>4, Zenon DEF Next
<1> QED
  BY <1>1, <1>2, PTL DEF Spec

(* However the collectors, the deadline and the receiving loop of DispatchMetricsTask   *)
(* interleave, every metrics of a job is reported once, as received or as timed out.    *)
THEOREM ReportedOnceHolds == Spec => []ReportedOnce
<1>1. IInv => ReportedOnce
  BY Zenon DEF IInv, Receiving, ReportedOnce, Received, Elements
<1> QED
  BY <1>1, Invariance, PTL

(* handleResults sends or refuses every received result, and sends in the order of the  *)
(* job's metrics, whatever becomes of the connection.                                   *)
THEOREM DeliveredInOrderHolds == Spec => []DeliveredInOrder
<1>1. IInv => DeliveredInOrder
  BY Zenon DEF IInv, Delivering, DeliveredInOrder, Received, Elements, Increasing
<1> QED
  BY <1>1, Invariance, PTL

-----------------------------------------------------------------------------
(***************************************************************************)
(* What the termination of an execution rests on: there is room in every   *)
(* channel, and DispatchMetricsTask has a bounded number of steps left.    *)
(***************************************************************************)

\* The steps the dispatcher has left, at most.
Left ==
  IF pc = "start" THEN 3 * N + 2 + (N - i)
  ELSE IF pc = "receive" THEN 2 * N + 2 + (N - i)
  ELSE IF pc = "handle" THEN 2 * (Len(results) - i) + 3
  ELSE IF pc = "send" THEN 2 * (Len(results) - i) + 2
  ELSE 0

\* The goroutines: a channel is empty until its goroutine closes it, and the goroutines
\* behind the index of the loop that starts them are not started.
Channels ==
  /\ deadline \in BOOLEAN /\ connected \in BOOLEAN /\ dialling \in BOOLEAN
  /\ collector \in [Metrics -> {"none", "collecting", "sending", "closed"}]
  /\ channel \in [Metrics -> 0 .. 1]
  /\ \A m \in Metrics : collector[m] # "closed" => channel[m] = 0
  /\ pc = "start" => \A m \in i .. N : collector[m] = "none"
  /\ pc = "receive" => Len(results) < i
  /\ pc \in {"handle", "send", "done"} => Len(results) <= N
  /\ pc = "done" => i = 1

\* A collector that has its result finds room for it, whether or not anyone receives.
Room == \A m \in Metrics : collector[m] = "sending" => channel[m] < ChanCap

\* The steps of the others.
LEMMA ChannelsOther ==
  ASSUME Channels, IInv,
         \/ \E m \in Metrics : Collected(m) \/ SendToChannel(m)
         \/ DeadlinePasses \/ DialBegins \/ DialEnds \/ Disconnects \/ UNCHANGED vars
  PROVE  Channels'
<1> USE DEF Channels
<1>1. CASE DeadlinePasses \/ DialBegins \/ DialEnds \/ Disconnects \/ UNCHANGED vars
  BY <1>1, Zenon DEF DeadlinePasses, DialBegins, DialEnds, Disconnects, vars, clientVars, collectVars, resultVars
<1>2. ASSUME NEW m \in Metrics, Collected(m) PROVE Channels'
  <2>1. UNCHANGED <<pc, i, deadline, channel, results, connected, dialling>>
    BY <1>2, Zenon DEF Collected, resultVars, clientVars
  <2>2. collector' = [collector EXCEPT ![m] = "sending"] /\ collector[m] = "collecting"
    BY <1>2, Zenon DEF Collected
  <2>3. pc = "start" => \A k \in i .. N : collector'[k] = "none"
    BY <2>2, DispatchAssumption DEF Metrics, IInv, Typed
  <2> QED
    BY <2>1, <2>2, <2>3
<1>3. ASSUME NEW m \in Metrics, SendToChannel(m) PROVE Channels'
  <2>1. UNCHANGED <<pc, i, deadline, results, connected, dialling>>
    BY <1>3, Zenon DEF SendToChannel, resultVars, clientVars
  <2>2. /\ collector' = [collector EXCEPT ![m] = "closed"] /\ collector[m] = "sending"
        /\ channel' = [channel EXCEPT ![m] = channel[m] + 1]
    BY <1>3, Zenon DEF SendToChannel
  <2>3. pc = "start" => \A k \in i .. N : collector'[k] = "none"
    BY <2>2, DispatchAssumption DEF Metrics, IInv, Typed
  <2> QED
    BY <2>1, <2>2, <2>3
<1> QED
  BY <1>1, <1>2, <1>3, Zenon

\* The steps of the dispatcher.
LEMMA ChannelsKept ==
  ASSUME Channels, IInv, Dispatcher
  PROVE  Channels'
<1> USE DEF Channels
<1>0. /\ N \in Nat \ {0} /\ i \in Nat \ {0} /\ results \in Seq(Metrics) /\ Len(results) \in Nat
      /\ pc \in {"start", "receive", "handle", "send", "done"}
      /\ pc \in {"start", "receive"} => i <= N
      /\ pc \in {"handle", "send"} /\ results # <<>> => i <= Len(results)
      /\ pc = "start" => Len(results) = 0
  BY DispatchAssumption DEF IInv, Typed, Receiving, Delivering, Metrics
<1>1. CASE StartCollect
  <2>1. /\ pc = "start" /\ UNCHANGED <<deadline, channel, results, connected, dialling>>
        /\ collector' = [collector EXCEPT ![i] = "collecting"]
        /\ IF i < N THEN i' = i + 1 /\ pc' = "start" ELSE i' = 1 /\ pc' = "receive"
    BY <1>1, Zenon DEF StartCollect, Advance, resultVars, clientVars
  <2>2. i \in Metrics /\ collector[i] = "none"
    BY <1>0, <2>1 DEF Metrics
  <2>3. /\ collector' \in [Metrics -> {"none", "collecting", "sending", "closed"}]
        /\ \A m \in Metrics : collector'[m] # "closed" => channel'[m] = 0
    BY <2>1, <2>2
  <2>4. pc' = "start" => \A m \in i' .. N : collector'[m] = "none"
    BY <1>0, <2>1 DEF Metrics
  <2> QED
    BY <1>0, <2>1, <2>3, <2>4
<1>2. CASE Receive
  <2>1. /\ pc = "receive" /\ UNCHANGED <<deadline, collector, connected, dialling>> /\ channel[i] > 0
        /\ channel' = [channel EXCEPT ![i] = channel[i] - 1] /\ results' = Append(results, i)
        /\ IF i < N THEN i' = i + 1 /\ pc' = "receive" ELSE i' = 1 /\ pc' = "handle"
    BY <1>2, Zenon DEF Receive, Advance, clientVars
  <2>2. Len(results') = Len(results) + 1 /\ i \in Metrics
    BY <1>0, <2>1 DEF Metrics
  <2>3. /\ channel' \in [Metrics -> 0 .. 1]
        /\ \A m \in Metrics : collector'[m] # "closed" => channel'[m] = 0
    BY <2>1, <2>2
  <2> QED
    BY <1>0, <2>1, <2>2, <2>3
<1>3. CASE ReceiveTimeout
  <2>1. /\ pc = "receive" /\ UNCHANGED <<deadline, collector, channel, results, connected, dialling>>
        /\ IF i < N THEN i' = i + 1 /\ pc' = "receive" ELSE i' = 1 /\ pc' = "handle"
    BY <1>3, Zenon DEF ReceiveTimeout, Advance, collectVars, clientVars
  <2> QED
    BY <1>0, <2>1
<1>4. CASE NothingToHandle \/ HandleReady \/ HandleNotReady \/ HandleSend
  <2>1. /\ pc \in {"handle", "send"} /\ UNCHANGED <<deadline, collector, channel, results, connected, dialling>>
        /\ pc' \in {"handle", "send", "done"}
    BY <1>4, Zenon DEF NothingToHandle, HandleReady, HandleNotReady, HandleSend, Advance, collectVars, resultVars, clientVars
  <2>2. pc' = "done" => i' = 1
    BY <1>0, <1>4, Zenon DEF NothingToHandle, HandleReady, HandleNotReady, HandleSend, Advance, IInv, Delivering
  <2> QED
    BY <2>1, <2>2, Zenon
<1> QED
  BY <1>1, <1>2, <1>3, <1>4, Zenon DEF Dispatcher

\* The invariant of the channels.
LEMMA ChannelsInvariance == Spec => []Channels
<1>1. Init => Channels
  <2> SUFFICES ASSUME Init PROVE Channels
    BY Zenon
  <2>1. deadline \in BOOLEAN /\ connected \in BOOLEAN /\ dialling \in BOOLEAN /\ pc = "start"
    BY Zenon DEF Init
  <2>2. /\ collector \in [Metrics -> {"none", "collecting", "sending", "closed"}]
        /\ channel \in [Metrics -> 0 .. 1]
        /\ \A m \in Metrics : collector[m] = "none" /\ channel[m] = 0
        /\ i .. N \subseteq Metrics
    BY DispatchAssumption DEF Init, Metrics
  <2> QED
    BY <2>1, <2>2, Zenon DEF Channels
<1>2. IInv /\ Channels /\ [Next]_vars => Channels'
  BY ChannelsOther, ChannelsKept, Zenon DEF Next
<1> QED
  BY <1>1, <1>2, Invariance, PTL DEF Spec

(* The types of an execution, for any number of metrics: the index of every loop stays  *)
(* within its bounds, and no channel ever holds more than one result.                   *)
THEOREM DispatchTypeCorrect == Spec => []TypeOK
<1>1. IInv /\ Channels => TypeOK
  <2> SUFFICES ASSUME IInv, Channels PROVE TypeOK
    BY Zenon
  <2>1. i \in Metrics
    <3>1. results \in Seq(Metrics) /\ Len(results) \in Nat /\ N \in Nat \ {0} /\ i \in Nat \ {0}
      BY DispatchAssumption DEF IInv, Typed
    <3> QED
      BY <3>1 DEF IInv, Typed, Receiving, Delivering, Channels, Metrics
  <2> QED
    BY <2>1, DispatchAssumption DEF IInv, Typed, Channels, TypeOK
<1> QED
  BY <1>1, Invariance, ChannelsInvariance, PTL

(* The send of a collecting goroutine never blocks: its result finds room in the        *)
(* channel even when DispatchMetricsTask gave up at the deadline and nobody receives.   *)
THEOREM RoomHolds == Spec => []Room
<1>1. Channels => Room
  BY DispatchAssumption DEF Channels, Room
<1> QED
  BY <1>1, ChannelsInvariance, PTL

\* The steps left go down with every step of the dispatcher, and with no other.
Nearer == (Dispatcher => Left' < Left) /\ (~Dispatcher => Left' = Left)

\* Within their bounds.
LEMMA LeftBounded == ASSUME IInv, Channels PROVE Left \in 0 .. 4 * N + 1
<1>1. /\ N \in Nat \ {0} /\ i \in Nat \ {0} /\ results \in Seq(Metrics) /\ Len(results) \in Nat
      /\ pc \in {"start", "receive"} => i <= N
      /\ pc \in {"handle", "send"} => IF results = <<>> THEN i = 1 ELSE i <= Len(results)
      /\ pc = "send" => results # <<>>
      /\ pc \in {"handle", "send"} => Len(results) <= N
  BY DispatchAssumption DEF IInv, Typed, Receiving, Delivering, Channels, Metrics
<1> QED
  BY <1>1 DEF Left

\* Every step of the dispatcher.
LEMMA LeftDecreases == ASSUME IInv, Channels, Dispatcher PROVE Left' < Left
<1>1. /\ N \in Nat \ {0} /\ i \in Nat \ {0} /\ results \in Seq(Metrics) /\ Len(results) \in Nat
      /\ pc \in {"start", "receive"} => i <= N
      /\ pc \in {"handle", "send"} => IF results = <<>> THEN i = 1 ELSE i <= Len(results)
      /\ pc = "send" => results # <<>>
      /\ pc = "receive" => Len(results) < i
      /\ pc \in {"handle", "send"} => Len(results) <= N
  BY DispatchAssumption DEF IInv, Typed, Receiving, Delivering, Channels, Metrics
<1>2. CASE StartCollect
  BY <1>1, <1>2 DEF StartCollect, Advance, Left
<1>3. CASE Receive
  <2>1. /\ pc = "receive" /\ results' = Append(results, i)
        /\ IF i < N THEN i' = i + 1 /\ pc' = "receive" ELSE i' = 1 /\ pc' = "handle"
    BY <1>3, Zenon DEF Receive, Advance
  <2>2. Len(results') = Len(results) + 1
    BY <1>1, <2>1 DEF Metrics
  <2> QED
    BY <1>1, <2>1, <2>2 DEF Left
<1>4. CASE ReceiveTimeout
  BY <1>1, <1>4 DEF ReceiveTimeout, Advance, Left
<1>5. CASE NothingToHandle \/ HandleReady
  BY <1>1, <1>5 DEF NothingToHandle, HandleReady, Left, resultVars
<1>6. CASE HandleNotReady
  BY <1>1, <1>6 DEF HandleNotReady, Advance, Left, resultVars
<1>7. CASE HandleSend
  <2>1. /\ pc = "send" /\ results' = results
        /\ IF i < Len(results) THEN i' = i + 1 /\ pc' = "handle" ELSE i' = 1 /\ pc' = "done"
    BY <1>7, Zenon DEF HandleSend, resultVars
  <2> QED
    BY <1>1, <2>1 DEF Left
<1> QED
  BY <1>2, <1>3, <1>4, <1>5, <1>6, <1>7, Zenon DEF Dispatcher

(* DispatchMetricsTask makes at most 4 N + 1 steps, whatever the collectors, the        *)
(* deadline and the transport do meanwhile: nothing sets it back.                       *)
THEOREM DispatchBounded == Spec => [](Left \in 0 .. 4 * N + 1) /\ [][Nearer]_vars
<1>1. IInv /\ Channels => Left \in 0 .. 4 * N + 1
  BY LeftBounded, Zenon
<1>2. IInv /\ Channels /\ [Next]_vars => [Nearer]_vars
  <2> SUFFICES ASSUME IInv, Channels, Next PROVE Nearer
    BY Zenon
  <2>1. CASE Dispatcher
    BY <2>1, LeftDecreases, Zenon DEF Nearer
  <2>2. CASE ~Dispatcher
    <3>1. UNCHANGED <<pc, i, results>>
      BY <2>2, Zenon DEF Next, Collected, SendToChannel, DeadlinePasses, DialBegins, DialEnds, Disconnects, resultVars
    <3> QED
      BY <2>2, <3>1, Zenon DEF Nearer, Left
  <2> QED
    BY <2>1, <2>2
<1> QED
  BY <1>1, <1>2, Invariance, ChannelsInvariance, PTL DEF Spec

-----------------------------------------------------------------------------
(***************************************************************************)
(* JobParams.  Wherever a configuration is, it is as it was issued or as   *)
(* it is wanted, and wanted once an execution has replaced its parameters: *)
(* whoever replaces them next, in whatever order, changes nothing.  That   *)
(* needs what the loop of replaceParamPlaceholders computes, by induction  *)
(* over the parameters it has visited.                                     *)
(***************************************************************************)

\* A set of natural numbers has a least element.
LEMMA LeastNat ==
  ASSUME NEW T, T \subseteq Nat, T # {}
  PROVE  \E n \in T : \A m \in T : n <= m
<1>1. PICK n \in T : \A m \in T : ~(<<m, n>> \in OpToRel(<, Nat))
  BY NatLessThanWellFounded, WFMin, Zenon
<1>2. \A m \in T : ~(m < n)
  BY <1>1, Zenon DEF OpToRel
<1>3. \A m \in T : m \in Nat
  BY Zenon
<1>4. \A m \in T : n <= m
  BY <1>2, <1>3
<1> QED
  BY <1>4, Zenon

\* Induction over the natural numbers, for a set instead of a predicate.
LEMMA NatSetInduction ==
  ASSUME NEW T, 0 \in T, \A n \in Nat : n \in T => n + 1 \in T
  PROVE  Nat \subseteq T
<1> SUFFICES ASSUME Nat \ T # {} PROVE FALSE
  BY Zenon
<1>1. PICK n \in Nat \ T : \A m \in Nat \ T : n <= m
  BY LeastNat, Zenon
<1>2. n # 0 /\ n - 1 \in Nat
  BY <1>1
<1>3. n - 1 \in T
  BY <1>1, <1>2
<1> QED
  BY <1>1, <1>2, <1>3

-----------------------------------------------------------------------------
\* No value holds a placeholder.
PlainMap(map) ==
  /\ DOMAIN map \subseteq Placeholders
  /\ \A p \in DOMAIN map : map[p] \notin Placeholders

\* In whatever order replaceParamPlaceholders visits the map, after k parameters those k
\* stand replaced and the others untouched; the function that says so is the recursion's.
LEMMA ReplacedSoFar ==
  ASSUME NEW t, NEW map, NEW o \in orders(map), PlainMap(map),
         t = [y \in DOMAIN t |-> t[y]], Cardinality(DOMAIN map) \in Nat
  PROVE  \A k \in 0 .. Cardinality(DOMAIN map) :
           replaced(t, map, o)[k] = [y \in DOMAIN t |-> IF \E l \in 1 .. k : o[l] = t[y]
                                                          THEN map[t[y]] ELSE t[y]]
<1> DEFINE n == Cardinality(DOMAIN map)
           D == 0 .. n
           so == [k \in D |-> [y \in DOMAIN t |-> IF \E l \in 1 .. k : o[l] = t[y]
                                                    THEN map[t[y]] ELSE t[y]]]
           Next1(f) == [k \in D |-> IF k = 0 THEN t ELSE replaceAll(f[k - 1], o[k], map[o[k]])]
           r == replaced(t, map, o)
<1>1. /\ n \in Nat
      /\ \A k \in 1 .. n : o[k] \in DOMAIN map
      /\ \A k \in 1 .. n : o[k] \in Placeholders /\ map[o[k]] \notin Placeholders
  BY Zenon DEF orders, PlainMap
<1>2. ASSUME NEW k \in D, k # 0
      PROVE  so[k] = replaceAll(so[k - 1], o[k], map[o[k]])
  <2>1. k - 1 \in D /\ k \in 1 .. n
    BY <1>1, <1>2
  <2>2. DOMAIN so[k - 1] = DOMAIN t /\ DOMAIN so[k] = DOMAIN t
    BY <2>1, Zenon
  <2>3. ASSUME NEW y \in DOMAIN t
        PROVE  so[k][y] = IF so[k - 1][y] = o[k] THEN map[o[k]] ELSE so[k - 1][y]
    <3>1. \A l : l \in 1 .. k <=> l \in 1 .. k - 1 \/ l = k
      BY <2>1, <1>1
    <3>2. \A l \in 1 .. k : l \in 1 .. n
      BY <2>1, <1>1
    <3>3. so[k][y] = IF \E l \in 1 .. k : o[l] = t[y] THEN map[t[y]] ELSE t[y]
      BY Zenon
    <3>4. so[k - 1][y] = IF \E l \in 1 .. k - 1 : o[l] = t[y] THEN map[t[y]] ELSE t[y]
      BY <2>1, Zenon
    <3>5. CASE \E l \in 1 .. k - 1 : o[l] = t[y]
      <4>1. map[t[y]] # o[k]
        BY <1>1, <2>1, <3>1, <3>2, <3>5, Zenon
      <4> QED
        BY <3>1, <3>3, <3>4, <3>5, <4>1, Zenon
    <3>6. CASE ~\E l \in 1 .. k - 1 : o[l] = t[y]
      BY <3>1, <3>3, <3>4, <3>6, Zenon
    <3> QED
      BY <3>5, <3>6, Zenon
  <2>4. so[k] = [y \in DOMAIN t |-> so[k][y]]
    BY Zenon
  <2> HIDE DEF so
  <2> QED
    BY <2>2, <2>3, <2>4, Zenon DEF replaceAll
<1>3. so = Next1(so)
  <2>1. so[0] = t
    BY <1>1
  <2>2. so = [k \in D |-> so[k]]
    BY Zenon
  <2> HIDE DEF so
  <2> QED
    BY <1>2, <2>1, <2>2, Zenon
<1>4. r = CHOOSE f : f = Next1(f)
  BY Zenon DEF replaced
<1>5. r = Next1(r)
  <2> HIDE DEF Next1, so, r
  <2> QED
    BY <1>3, <1>4, Zenon
<1>6. \A k \in Nat : k \in D => r[k] = so[k]
  <2> DEFINE T == {k \in Nat : k \in D => r[k] = so[k]}
  <2>1. 0 \in T
    BY <1>1, <1>3, <1>5
  <2>2. ASSUME NEW k \in Nat, k \in T PROVE k + 1 \in T
    <3>1. ASSUME k + 1 \in D PROVE r[k + 1] = so[k + 1]
      <4>1. k \in D /\ k + 1 # 0 /\ (k + 1) - 1 = k
        BY <1>1, <3>1
      <4>2. r[k] = so[k]
        BY <2>2, <4>1, Zenon
      <4>3. so[k + 1] = replaceAll(so[k], o[k + 1], map[o[k + 1]])
        BY <1>2, <3>1, <4>1, Zenon
      <4> HIDE DEF so, r
      <4>4. r[k + 1] = replaceAll(r[k], o[k + 1], map[o[k + 1]])
        BY <1>5, <3>1, <4>1, Zenon
      <4> QED
        BY <4>2, <4>3, <4>4, Zenon
    <3> QED
      BY <3>1
  <2> HIDE DEF T
  <2>3. Nat \subseteq T
    BY <2>1, <2>2, NatSetInduction, Zenon
  <2> QED
    BY <2>3, Zenon DEF T
<1> QED
  BY <1>1, <1>6

\* If no value holds a placeholder, replaceParamPlaceholders has one result, whatever the
\* order: every placeholder by its value.
LEMMA OneResult ==
  ASSUME NEW t, NEW map, PlainMap(map), t = [y \in DOMAIN t |-> t[y]],
         Cardinality(DOMAIN map) \in Nat, NEW x \in replaceParamPlaceholders(t, map)
  PROVE  x = Substitute(t, map)
<1> DEFINE n == Cardinality(DOMAIN map)
<1>1. PICK o \in orders(map) : x = replaced(t, map, o)[n]
  BY Zenon DEF replaceParamPlaceholders
<1>2. n \in 0 .. n
  OBVIOUS
<1>3. x = [y \in DOMAIN t |-> IF \E l \in 1 .. n : o[l] = t[y] THEN map[t[y]] ELSE t[y]]
  BY <1>1, <1>2, ReplacedSoFar
<1>4. \A p : p \in DOMAIN map <=> \E l \in 1 .. n : o[l] = p
  BY Zenon DEF orders
<1> QED
  BY <1>3, <1>4, Zenon DEF Substitute

\* Replacing once more changes nothing.
LEMMA Twofold ==
  ASSUME NEW t, NEW map, PlainMap(map)
  PROVE  Substitute(Substitute(t, map), map) = Substitute(t, map)
BY Zenon DEF Substitute, PlainMap

\* A name that was kept or left out stays as it is.
LEMMA KeptTwofold ==
  ASSUME NEW k, NEW map, PlainMap(map)
  PROVE  LET kept == keepKey(Substitute(k, map))
         IN /\ kept = [y \in DOMAIN kept |-> kept[y]]
            /\ keepKey(Substitute(kept, map)) = kept
<1>1. /\ Substitute(<<>>, map) = <<>> /\ keepKey(<<>>) = <<>>
      /\ <<>> = [y \in DOMAIN <<>> |-> <<>>[y]]
  BY DEF Substitute, keepKey
<1>2. CASE keepKey(Substitute(k, map)) = <<>>
  BY <1>1, <1>2, Zenon
<1>3. CASE keepKey(Substitute(k, map)) = Substitute(k, map)
  <2>1. Substitute(k, map) = [y \in DOMAIN Substitute(k, map) |-> Substitute(k, map)[y]]
    BY Zenon DEF Substitute
  <2> QED
    BY <1>3, <2>1, Twofold, Zenon
<1> QED
  BY <1>2, <1>3, Zenon DEF keepKey

-----------------------------------------------------------------------------
\* The places of finitely many integers in their order are 1, 2, ... without a gap.
LEMMA Places ==
  ASSUME NEW S, S \subseteq Int, IsFiniteSet(S)
  PROVE  /\ Cardinality(S) \in Nat
         /\ \A g \in 1 .. Cardinality(S) : \E p \in S : Cardinality({q \in S : q <= p}) = g
<1> DEFINE upTo(p) == {q \in S : q <= p}
           n == Cardinality(S)
           place == [p \in S |-> Cardinality(upTo(p))]
<1>1. n \in Nat
  BY FS_CardinalityType, Zenon
<1>2. \A p \in S : /\ IsFiniteSet(upTo(p))
                   /\ Cardinality(upTo(p)) <= n /\ Cardinality(upTo(p)) \in Nat
  BY FS_Subset, FS_CardinalityType, Zenon
<1>3. \A p \in S : upTo(p) # {}
  OBVIOUS
<1>4. place \in [S -> 1 .. n]
  <2>1. ASSUME NEW p \in S PROVE Cardinality(upTo(p)) # 0
    BY <1>2, <1>3, FS_EmptySet, Zenon
  <2> QED
    BY <1>1, <1>2, <2>1
<1>5. ASSUME NEW p \in S, NEW q \in S, p < q PROVE place[p] # place[q]
  <2>1. upTo(p) \subseteq upTo(q) /\ q \in upTo(q) /\ q \notin upTo(p)
    <3>1. p \in Int /\ q \in Int /\ \A x \in S : x \in Int
      BY Zenon
    <3>2. q <= q /\ ~(q <= p) /\ \A x \in S : x <= p => x <= q
      BY <1>5, <3>1
    <3> QED
      BY <3>2, Zenon
  <2>2. Cardinality(upTo(q)) = Cardinality(upTo(p)) => upTo(q) = upTo(p)
    BY <1>2, <2>1, FS_Subset, Zenon
  <2> QED
    BY <2>1, <2>2, Zenon
<1>6. place \in Injection(S, 1 .. n)
  <2>1. ASSUME NEW p \in S, NEW q \in S, place[p] = place[q] PROVE p = q
    <3>1. ~(p < q) /\ ~(q < p)
      BY <1>5, <2>1, Zenon
    <3> QED
      BY <3>1
  <2> HIDE DEF place
  <2> QED
    BY <1>4, <2>1, Zenon DEF Injection, IsInjective
<1>7. IsFiniteSet(1 .. n) /\ Cardinality(1 .. n) = n
  BY <1>1, FS_Interval
<1>8. place \in Surjection(S, 1 .. n)
  <2> HIDE DEF place
  <2> QED
    BY <1>6, <1>7, FS_Injection, Zenon
<1>9. \A g \in 1 .. n : \E p \in S : place[p] = g
  <2> HIDE DEF place
  <2> QED
    BY <1>8, Zenon DEF Surjection
<1> QED
  BY <1>1, <1>9, Zenon

\* Every group of PriorMetrics has a metrics, and only metrics that were chosen.
LEMMA Groups ==
  ASSUME NEW some, IsFiniteSet(some), some \subseteq Indices,
         \A m \in Indices : job[m].priority \in Int
  PROVE  \A g \in DOMAIN groups(some) : groups(some)[g] # {} /\ groups(some)[g] \subseteq some
<1> DEFINE S == {job[m].priority : m \in some}
           f == [m \in some |-> job[m].priority]
<1>1. S \subseteq Int
  BY Zenon
<1>2. IsFiniteSet(S)
  <2>1. f \in Surjection(some, S)
    BY Zenon DEF Surjection
  <2> QED
    BY <2>1, FS_Surjection, Zenon
<1>3. DOMAIN groups(some) = 1 .. Cardinality(S)
  BY Zenon DEF groups
<1>4. ASSUME NEW g \in 1 .. Cardinality(S)
      PROVE  groups(some)[g] # {} /\ groups(some)[g] \subseteq some
  <2>1. groups(some)[g] = {m \in some : Cardinality({q \in S : q <= job[m].priority}) = g}
    BY Zenon DEF groups
  <2>2. PICK p \in S : Cardinality({q \in S : q <= p}) = g
    BY <1>1, <1>2, Places, Zenon
  <2>3. PICK m \in some : p = job[m].priority
    BY Zenon
  <2> HIDE DEF S
  <2> QED
    BY <2>1, <2>2, <2>3, Zenon
<1> QED
  BY <1>3, <1>4, Zenon

-----------------------------------------------------------------------------
\* What the proofs need of the job and of the types.
ParamsTyped ==
  /\ \E j \in Jobs : job = j.metrics /\ params = j.params
  /\ now \in Int /\ now >= IssueTime
  /\ collectTime \in [Indices -> Int]
  /\ DOMAIN original = Indices
  /\ DOMAIN clone = Executions /\ \A e \in Executions : DOMAIN clone[e] = Indices
  /\ DOMAIN used = Executions /\ \A e \in Executions : DOMAIN used[e] = Indices
  /\ dispatch \in [Executions -> {"none", "replace", "start", "receive", "left"}]
  /\ goroutine \in [Executions -> [Indices -> {"none", "started", "writing", "ready", "done"}]]

\* A goroutine runs only when its execution has replaced the parameters.
Running ==
  \A e \in Executions, m \in Indices :
    goroutine[e][m] # "none" => dispatch[e] \in {"receive", "left"}

\* What the structures hold, whichever goroutine wrote them last.
Replacing ==
  /\ \A m \in Indices : original[m] \in {Issued(m), Wanted(m)}
  /\ \A e \in Executions, m \in Indices :
       dispatch[e] \in {"start", "receive", "left"} => config(e, m) = Wanted(m)
  /\ \A e \in Executions, m \in Indices : goroutine[e][m] = "done" => used[e][m] = Wanted(m)

\* The first execution finds every metrics due.
Aliasing ==
  /\ \/ /\ \A e \in Executions : dispatch[e] = "none"
        /\ \A m \in Indices : collectTime[m] = 0
        /\ aliased = {} /\ DOMAIN prior = {}
     \/ aliased = Indices
  /\ \A g \in DOMAIN prior : prior[g] # {} /\ prior[g] \subseteq Indices

ParamsInv ==
  /\ ParamsTyped /\ Running /\ Aliasing
  /\ DistinctNames => ~crashed
  /\ DistinctNames /\ PlainValues => Replacing

\* The facts the assumptions give of the job.
LEMMA JobFacts ==
  ASSUME ParamsTyped
  PROVE  /\ job \in Seq([name : STRING, protocol : STRING, template : Seq(STRING),
                         key : Seq(STRING), enable : Seq(STRING), priority : Int, interval : Nat])
         /\ Indices = 1 .. Len(job) /\ Len(job) \in Nat /\ IsFiniteSet(Indices)
         /\ DOMAIN params \subseteq Placeholders /\ Cardinality(DOMAIN params) \in Nat
         /\ \A m \in Indices :
              /\ job[m].priority \in Int /\ job[m].interval \in Nat
              /\ job[m].interval <= IssueTime
              /\ job[m].template \in Seq(STRING) /\ job[m].key \in Seq(STRING)
<1>1. PICK j \in Jobs : job = j.metrics /\ params = j.params
  BY Zenon DEF ParamsTyped
<1>2. job \in Seq([name : STRING, protocol : STRING, template : Seq(STRING),
                   key : Seq(STRING), enable : Seq(STRING), priority : Int, interval : Nat])
  BY <1>1, JobsAssumption, Zenon
<1>3. Indices = 1 .. Len(job) /\ Len(job) \in Nat
  BY <1>2 DEF Indices
<1>4. IsFiniteSet(Indices)
  BY <1>3, FS_Interval
<1>5. IsFiniteSet(DOMAIN params) /\ DOMAIN params \subseteq Placeholders
  BY <1>1, JobsAssumption, Zenon
<1>6. Cardinality(DOMAIN params) \in Nat
  BY <1>5, FS_CardinalityType, Zenon
<1>7. ASSUME NEW m \in Indices
      PROVE  job[m] \in [name : STRING, protocol : STRING, template : Seq(STRING),
                         key : Seq(STRING), enable : Seq(STRING), priority : Int, interval : Nat]
  <2> DEFINE R == [name : STRING, protocol : STRING, template : Seq(STRING),
                   key : Seq(STRING), enable : Seq(STRING), priority : Int, interval : Nat]
  <2>1. job \in Seq(R) /\ m \in 1 .. Len(job)
    BY <1>2, <1>3, Zenon
  <2> HIDE DEF R
  <2>2. job[m] \in R
    BY <2>1
  <2> QED
    BY <2>2, Zenon DEF R
<1>8. \A m \in Indices : job[m].interval <= IssueTime
  BY <1>1, ClockAssumption, Zenon DEF Indices
<1> QED
  BY <1>2, <1>3, <1>4, <1>5, <1>6, <1>7, <1>8, Zenon

\* The metrics of a name is the metrics itself if no two have one name.
LEMMA Itself ==
  ASSUME ParamsTyped, DistinctNames, NEW m \in Indices
  PROVE  processed(m) = m
<1>1. \A k \in 1 .. m - 1 : k \in Indices /\ k # m
  <2>1. Indices = 1 .. Len(job) /\ Len(job) \in Nat /\ m \in 1 .. Len(job)
    BY JobFacts, Zenon
  <2> QED
    BY <2>1
<1>2. \A k \in 1 .. m - 1 : job[k].name # job[m].name
  BY <1>1, Zenon DEF DistinctNames
<1>3. \A l \in Indices : job[l].name = job[m].name => l = m
  BY Zenon DEF DistinctNames
<1> QED
  BY <1>2, <1>3, Zenon DEF processed

\* A sequence is the function of its elements.
LEMMA Tokens ==
  ASSUME NEW s \in Seq(STRING)
  PROVE  s = [y \in DOMAIN s |-> s[y]]
OBVIOUS

\* What ReplaceMetricsParams makes of a configuration as it was issued, and of one that
\* has been replaced before.
LEMMA ReplacedConfig ==
  ASSUME ParamsTyped, PlainValues, NEW m \in Indices, NEW c \in {Issued(m), Wanted(m)},
         NEW new \in ReplaceMetricsParams(job[m].protocol, c, params)
  PROVE  new = Wanted(m)
<1>0. ASSUME job[m].protocol \notin Replaceable PROVE new = Wanted(m)
  <2>1. Wanted(m) = Issued(m)
    BY <1>0, Zenon DEF Wanted
  <2>2. new = c
    BY <1>0 DEF ReplaceMetricsParams
  <2> QED
    BY <2>1, <2>2, Zenon
<1> SUFFICES ASSUME job[m].protocol \in Replaceable PROVE new = Wanted(m)
  BY <1>0, Zenon
<1>1. PlainMap(params) /\ Cardinality(DOMAIN params) \in Nat
  BY JobFacts, Zenon DEF PlainMap, PlainValues
<1>2. PICK t \in replaceParamPlaceholders(c.template, params),
           k \in replaceParamPlaceholders(c.key, params) :
        new = [template |-> t, key |-> keepKey(k), enable |-> c.enable]
  BY DEF ReplaceMetricsParams
<1>3. CASE c = Issued(m)
  <2>1. c.template = job[m].template /\ c.key = job[m].key /\ c.enable = job[m].enable
    BY <1>3, Zenon DEF Issued
  <2>2. /\ c.template = [y \in DOMAIN c.template |-> c.template[y]]
        /\ c.key = [y \in DOMAIN c.key |-> c.key[y]]
    BY <2>1, JobFacts, Tokens, Zenon
  <2>3. t = Substitute(c.template, params) /\ k = Substitute(c.key, params)
    BY <1>1, <2>2, OneResult, Zenon
  <2> QED
    BY <1>2, <2>1, <2>3, Zenon DEF Wanted
<1>4. CASE c = Wanted(m)
  <2> DEFINE s == Substitute(job[m].template, params)
             kept == keepKey(Substitute(job[m].key, params))
  <2>1. c.template = s /\ c.key = kept /\ c.enable = job[m].enable
    BY <1>4, Zenon DEF Wanted
  <2>2. s = [y \in DOMAIN s |-> s[y]]
    BY Zenon DEF Substitute
  <2>3. kept = [y \in DOMAIN kept |-> kept[y]] /\ keepKey(Substitute(kept, params)) = kept
    BY <1>1, KeptTwofold, Zenon
  <2>4. Substitute(s, params) = s
    BY <1>1, Twofold, Zenon
  <2> HIDE DEF s, kept
  <2>5. t = Substitute(s, params)
    BY <1>1, <2>1, <2>2, OneResult, Zenon
  <2>6. k = Substitute(kept, params)
    BY <1>1, <2>1, <2>3, OneResult, Zenon
  <2> QED
    BY <1>2, <2>1, <2>3, <2>4, <2>5, <2>6, Zenon DEF Wanted, s, kept
<1> QED
  BY <1>3, <1>4, Zenon

-----------------------------------------------------------------------------
\* The job and its parameters do not change.
LEMMA Constant ==
  ASSUME UNCHANGED <<job, params>>
  PROVE  /\ DistinctNames' <=> DistinctNames
         /\ PlainValues' <=> PlainValues
         /\ Indices' = Indices
         /\ \A m : Wanted(m)' = Wanted(m) /\ Issued(m)' = Issued(m) /\ shares(m)' = shares(m)
BY Zenon DEF DistinctNames, PlainValues, Indices, Wanted, Issued, shares

\* The invariant holds when the job is issued.
LEMMA ParamsInitInv == ParamsInit => ParamsInv
<1> SUFFICES ASSUME ParamsInit PROVE ParamsInv
  BY Zenon
<1>1. ParamsTyped
  <2>1. now \in Int /\ now >= IssueTime
    BY ClockAssumption DEF ParamsInit
  <2> QED
    BY <2>1 DEF ParamsInit, ParamsTyped, Indices
<1>2. Running /\ ~crashed
  BY Zenon DEF ParamsInit, Running, Indices
<1>3. Aliasing
  BY DEF ParamsInit, Aliasing, Indices
<1>4. Replacing
  BY Zenon DEF ParamsInit, Replacing, Indices, Issued
<1> QED
  BY <1>1, <1>2, <1>3, <1>4, Zenon DEF ParamsInv

\* The first execution chooses every metrics and sets the aliases of all of them; what a
\* later one chooses is in no group that is empty.
LEMMA ConstructPriorMetricsInv ==
  ASSUME ParamsInv, NEW e \in Executions, ConstructPriorMetrics(e)
  PROVE  ParamsInv'
<1>0. ParamsTyped /\ UNCHANGED <<job, params>> /\ dispatch[e] = "none"
  BY Zenon DEF ParamsInv, ConstructPriorMetrics
<1>1. Due \subseteq Indices /\ Chosen \subseteq Indices
  BY Zenon DEF Due, Chosen, First
<1>2. IsFiniteSet(Chosen)
  BY <1>0, <1>1, JobFacts, FS_Subset, Zenon
<1>3. \A g \in DOMAIN prior' : prior'[g] # {} /\ prior'[g] \subseteq Indices
  <2>1. \A g \in DOMAIN groups(Chosen) :
          groups(Chosen)[g] # {} /\ groups(Chosen)[g] \subseteq Chosen
    BY <1>0, <1>1, <1>2, JobFacts, Groups, Zenon
  <2>2. prior' = groups(Chosen)
    BY Zenon DEF ConstructPriorMetrics
  <2> QED
    BY <1>1, <2>1, <2>2, Zenon
<1>4. aliased' = Indices
  <2>1. aliased' = aliased \cup Due
    BY Zenon DEF ConstructPriorMetrics
  <2>2. CASE aliased = Indices
    BY <1>1, <2>1, <2>2, Zenon
  <2>3. CASE aliased = {} /\ \A m \in Indices : collectTime[m] = 0
    <3>1. ASSUME NEW m \in Indices PROVE m \in Due
      <4>1. job[m].interval \in Nat /\ job[m].interval <= IssueTime /\ collectTime[m] = 0
        BY <1>0, <2>3, JobFacts, Zenon
      <4>2. now \in Int /\ now >= IssueTime /\ IssueTime \in Nat
        BY <1>0, ClockAssumption, Zenon DEF ParamsTyped
      <4>3. now >= collectTime[m] + job[m].interval
        BY <4>1, <4>2
      <4> QED
        BY <4>3, Zenon DEF Due
    <3> QED
      BY <1>1, <2>1, <2>3, <3>1, Zenon
  <2> QED
    BY <2>2, <2>3, Zenon DEF ParamsInv, Aliasing
<1>5. Aliasing'
  BY <1>0, <1>3, <1>4, Constant, Zenon DEF Aliasing
<1>6. collectTime' \in [Indices -> Int]
  BY <1>0, Zenon DEF ConstructPriorMetrics, ParamsTyped
<1>7. ParamsTyped'
  BY <1>0, <1>6, Constant, Zenon DEF ConstructPriorMetrics, ParamsTyped
<1>8. \A d \in Executions : dispatch'[d] \in {"start", "receive", "left"} =>
                              dispatch[d] = dispatch'[d]
  BY <1>0, Zenon DEF ConstructPriorMetrics, ParamsTyped
<1>9. Running'
  BY <1>0, Constant, Zenon DEF ConstructPriorMetrics, ParamsInv, ParamsTyped, Running
<1>10. DistinctNames' /\ PlainValues' => Replacing'
  BY <1>0, <1>8, Constant DEF ConstructPriorMetrics, ParamsInv, Replacing, config
<1>11. DistinctNames' => ~crashed'
  BY <1>0, Constant, Zenon DEF ConstructPriorMetrics, ParamsInv
<1> QED
  BY <1>5, <1>7, <1>9, <1>10, <1>11, Zenon DEF ParamsInv

\* The aliases stay when no execution begins.
LEMMA Keeps ==
  ASSUME ParamsInv, UNCHANGED <<job, params, aliased, collectTime, prior>>
  PROVE  (\A e \in Executions : dispatch[e] = "none" => dispatch'[e] = "none") => Aliasing'
<1> SUFFICES ASSUME \A e \in Executions : dispatch[e] = "none" => dispatch'[e] = "none"
             PROVE  Aliasing'
  BY Zenon
<1>1. CASE aliased = Indices
  BY <1>1, Constant, Zenon DEF ParamsInv, Aliasing
<1>2. CASE /\ \A e \in Executions : dispatch[e] = "none"
           /\ \A m \in Indices : collectTime[m] = 0
           /\ aliased = {} /\ DOMAIN prior = {}
  BY <1>2, Constant, Zenon DEF ParamsInv, Aliasing
<1> QED
  BY <1>1, <1>2, Zenon DEF ParamsInv, Aliasing

\* Configurations that are the wanted ones are written, by one execution, for itself or
\* for the job and all its clones.
LEMMA WritesWanted ==
  ASSUME ParamsTyped, NEW e \in Executions, NEW new, DOMAIN new \subseteq Indices,
         \A m \in DOMAIN new : new[m] = Wanted(m),
         Writes(e, new), UNCHANGED <<job, params>>
  PROVE  /\ \A m \in Indices : original'[m] \in {original[m], Wanted(m)}
         /\ \A d \in Executions, m \in Indices : config(d, m)' \in {config(d, m), Wanted(m)}
         /\ \A m \in DOMAIN new : config(e, m)' = Wanted(m)
<1>1. \A m \in Indices :
        original'[m] = IF shares(m) /\ m \in DOMAIN new THEN new[m] ELSE original[m]
  BY Zenon DEF Writes
<1>2. \A m \in Indices :
        clone'[e][m] = IF ~shares(m) /\ m \in DOMAIN new THEN new[m] ELSE clone[e][m]
  BY Zenon DEF Writes, ParamsTyped
<1>3. \A d \in Executions \ {e} : clone'[d] = clone[d]
  BY Zenon DEF Writes, ParamsTyped
<1>4. \A d \in Executions, m \in Indices :
        config(d, m)' = IF shares(m) THEN original'[m] ELSE clone'[d][m]
  BY Constant, Zenon DEF config
<1>5. \A m \in Indices : original'[m] \in {original[m], Wanted(m)}
  BY <1>1, Zenon
<1>6. ASSUME NEW d \in Executions, NEW m \in Indices
      PROVE  config(d, m)' \in {config(d, m), Wanted(m)}
  <2>1. CASE shares(m)
    BY <1>4, <1>5, <2>1, Zenon DEF config
  <2>2. CASE ~shares(m)
    BY <1>2, <1>3, <1>4, <2>2, Zenon DEF config
  <2> QED
    BY <2>1, <2>2, Zenon
<1>7. ASSUME NEW m \in DOMAIN new PROVE config(e, m)' = Wanted(m)
  BY <1>1, <1>2, <1>4, <1>7, Zenon
<1> QED
  BY <1>5, <1>6, <1>7, Zenon

\* What is written keeps the types.
LEMMA WritesTyped ==
  ASSUME ParamsTyped, NEW e \in Executions, NEW new, Writes(e, new)
  PROVE  /\ DOMAIN original' = Indices
         /\ DOMAIN clone' = Executions /\ \A d \in Executions : DOMAIN clone'[d] = Indices
BY Zenon DEF Writes, ParamsTyped

\* The clone of an execution, or what it shares with the job, gets its parameters.
LEMMA ReplaceJobParamsInv ==
  ASSUME ParamsInv, NEW e \in Executions, ReplaceJobParams(e)
  PROVE  ParamsInv'
<1>0. /\ ParamsTyped /\ Running /\ dispatch[e] = "replace"
      /\ dispatch' = [dispatch EXCEPT ![e] = "start"]
      /\ UNCHANGED <<job, params, now, collectTime, aliased, prior, goroutine, used, crashed>>
  BY Zenon DEF ParamsInv, ReplaceJobParams
<1>1. PICK new : /\ DOMAIN new = Indices /\ Writes(e, new)
                 /\ \A m \in Indices : new[m] \in ReplaceMetricsParams(job[m].protocol, original[m], params)
  BY Zenon DEF ReplaceJobParams
<1>2. /\ \A d \in Executions \ {e} : dispatch'[d] = dispatch[d]
      /\ dispatch'[e] = "start"
      /\ dispatch' \in [Executions -> {"none", "replace", "start", "receive", "left"}]
  BY <1>0, Zenon DEF ParamsTyped
<1>3. ParamsTyped'
  BY <1>0, <1>1, <1>2, Constant, WritesTyped, Zenon DEF ParamsTyped
<1>4. Running'
  BY <1>0, <1>2, Constant, Zenon DEF Running
<1>5. Aliasing'
  BY <1>0, <1>2, Keeps, Zenon
<1>6. ASSUME DistinctNames', PlainValues' PROVE Replacing'
  <2>1. PlainValues /\ Replacing
    BY <1>0, <1>6, Constant, Zenon DEF ParamsInv
  <2>2. \A m \in Indices : new[m] = Wanted(m)
    BY <1>0, <1>1, <2>1, ReplacedConfig, Zenon DEF Replacing
  <2>3. /\ \A m \in Indices : original'[m] \in {original[m], Wanted(m)}
        /\ \A d \in Executions, m \in Indices : config(d, m)' \in {config(d, m), Wanted(m)}
        /\ \A m \in Indices : config(e, m)' = Wanted(m)
    BY <1>0, <1>1, <2>2, WritesWanted, Zenon
  <2> QED
    BY <1>0, <1>2, <2>1, <2>3, Constant DEF Replacing
<1>7. DistinctNames' => ~crashed'
  BY <1>0, Constant, Zenon DEF ParamsInv
<1> QED
  BY <1>3, <1>4, <1>5, <1>6, <1>7, Zenon DEF ParamsInv

\* The start of the goroutines and the end of an execution.
LEMMA ExecutionInv ==
  ASSUME ParamsInv, NEW e \in Executions, StartCollectors(e) \/ LeaveExecution(e)
  PROVE  ParamsInv'
<1>0. /\ ParamsTyped /\ Running /\ dispatch[e] \in {"start", "receive"}
      /\ dispatch' \in {[dispatch EXCEPT ![e] = "receive"], [dispatch EXCEPT ![e] = "left"]}
      /\ UNCHANGED <<job, params, now, collectTime, aliased, prior, original,
                     clone, used, crashed>>
  BY Zenon DEF ParamsInv, StartCollectors, LeaveExecution
<1>1. /\ \A d \in Executions \ {e} : dispatch'[d] = dispatch[d]
      /\ dispatch'[e] \in {"receive", "left"}
      /\ dispatch' \in [Executions -> {"none", "replace", "start", "receive", "left"}]
  BY <1>0, Zenon DEF ParamsTyped
<1>2. /\ goroutine' \in [Executions -> [Indices ->
                          {"none", "started", "writing", "ready", "done"}]]
      /\ \A d \in Executions \ {e} : goroutine'[d] = goroutine[d]
      /\ \A m \in Indices : goroutine'[e][m] \in {"none", "started", goroutine[e][m]}
  BY <1>0 DEF ParamsTyped, StartCollectors, LeaveExecution
<1>3. ParamsTyped'
  BY <1>0, <1>1, <1>2, Constant, Zenon DEF ParamsTyped
<1>4. Running'
  BY <1>0, <1>1, <1>2, Constant, Zenon DEF Running
<1>5. Aliasing'
  BY <1>0, <1>1, Keeps, Zenon
<1>6. \A d \in Executions, m \in Indices : config(d, m)' = config(d, m)
  BY <1>0, Constant, Zenon DEF config
<1>7. \A d \in Executions, m \in Indices : goroutine'[d][m] = "done" => goroutine[d][m] = "done"
  BY <1>2, Zenon
<1>8. \A d \in Executions : dispatch'[d] \in {"start", "receive", "left"} =>
                              dispatch[d] \in {"start", "receive", "left"}
  BY <1>0, <1>1, Zenon
<1>9. DistinctNames' /\ PlainValues' => Replacing'
  BY <1>0, <1>6, <1>7, <1>8, Constant, SMTT(30) DEF ParamsInv, Replacing
<1>10. DistinctNames' => ~crashed'
  BY <1>0, Constant, Zenon DEF ParamsInv
<1> QED
  BY <1>3, <1>4, <1>5, <1>9, <1>10, Zenon DEF ParamsInv

\* A step of one goroutine.
Moves(e, m, from, to) ==
  /\ goroutine[e][m] = from
  /\ goroutine' = [goroutine EXCEPT ![e][m] = to]
  /\ UNCHANGED <<job, params, now, collectTime, aliased, prior, dispatch>>

\* It disturbs neither the aliases nor the place of an execution.
LEMMA GoroutineMoves ==
  ASSUME ParamsInv, NEW e \in Executions, NEW m \in Indices,
         NEW from \in {"started", "writing", "ready"}, NEW to \in {"writing", "ready", "done"},
         Moves(e, m, from, to)
  PROVE  /\ goroutine' \in [Executions -> [Indices ->
                             {"none", "started", "writing", "ready", "done"}]]
         /\ goroutine'[e][m] = to
         /\ \A d \in Executions, l \in Indices :
              <<d, l>> # <<e, m>> => goroutine'[d][l] = goroutine[d][l]
         /\ dispatch[e] \in {"receive", "left"}
         /\ Running' /\ Aliasing'
<1>1. ParamsTyped /\ Running
  BY Zenon DEF ParamsInv
<1>2. /\ goroutine' \in [Executions -> [Indices ->
                          {"none", "started", "writing", "ready", "done"}]]
      /\ goroutine'[e][m] = to
      /\ \A d \in Executions, l \in Indices :
           <<d, l>> # <<e, m>> => goroutine'[d][l] = goroutine[d][l]
  BY <1>1, Zenon DEF Moves, ParamsTyped
<1>3. dispatch[e] \in {"receive", "left"}
  BY <1>1, Zenon DEF Moves, Running
<1>4. ASSUME NEW d \in Executions, NEW l \in Indices, goroutine'[d][l] # "none"
      PROVE  dispatch[d] \in {"receive", "left"}
  <2>1. CASE <<d, l>> = <<e, m>>
    BY <1>3, <2>1, Zenon
  <2>2. CASE <<d, l>> # <<e, m>>
    BY <1>1, <1>2, <1>4, <2>2, Zenon DEF Running
  <2> QED
    BY <2>1, <2>2, Zenon
<1>5. Running'
  BY <1>4, Constant, Zenon DEF Moves, Running
<1>6. Aliasing'
  BY Keeps, Zenon DEF Moves
<1> QED
  BY <1>2, <1>3, <1>5, <1>6, Zenon

\* No other goroutine of the execution writes the map of this metrics.
LEMMA MergeBeginsInv ==
  ASSUME ParamsInv, NEW e \in Executions, NEW m \in Indices, MergeBegins(e, m)
  PROVE  ParamsInv'
<1>0. /\ ParamsTyped /\ Moves(e, m, "started", "writing")
      /\ UNCHANGED <<job, params, original, clone, used>>
  BY Zenon DEF ParamsInv, MergeBegins, Moves
<1>1. /\ goroutine' \in [Executions -> [Indices ->
                          {"none", "started", "writing", "ready", "done"}]]
      /\ goroutine'[e][m] = "writing"
      /\ \A d \in Executions, l \in Indices :
           <<d, l>> # <<e, m>> => goroutine'[d][l] = goroutine[d][l]
      /\ Running' /\ Aliasing'
  BY <1>0, GoroutineMoves, Zenon
<1>2. ParamsTyped'
  BY <1>0, <1>1, Constant, Zenon DEF ParamsTyped, Moves
<1>3. ASSUME DistinctNames' PROVE ~crashed'
  <2>1. DistinctNames /\ ~crashed
    BY <1>0, <1>3, Constant, Zenon DEF ParamsInv
  <2>2. \A l \in Indices : processed(l) = processed(m) => l = m
    BY <1>0, <2>1, Itself, Zenon
  <2>3. goroutine[e][m] # "writing"
    BY <1>0, Zenon DEF Moves
  <2> QED
    BY <2>1, <2>2, <2>3, Zenon DEF MergeBegins
<1>4. \A d \in Executions, l \in Indices : goroutine'[d][l] = "done" => goroutine[d][l] = "done"
  BY <1>1, Zenon
<1>5. \A d \in Executions, l \in Indices : config(d, l)' = config(d, l)
  BY <1>0, Constant, Zenon DEF config
<1>6. DistinctNames' /\ PlainValues' => Replacing'
  BY <1>0, <1>4, <1>5, Constant DEF ParamsInv, Replacing, Moves
<1> QED
  BY <1>1, <1>2, <1>3, <1>6, Zenon DEF ParamsInv

\* The second replacement of a metrics finds the first one done.
LEMMA CollectMetricsParamsInv ==
  ASSUME ParamsInv, NEW e \in Executions, NEW m \in Indices, CollectMetricsParams(e, m)
  PROVE  ParamsInv'
<1>0. /\ ParamsTyped /\ Moves(e, m, "writing", "ready")
      /\ UNCHANGED <<job, params, used, crashed>>
  BY Zenon DEF ParamsInv, CollectMetricsParams, Moves
<1>1. /\ goroutine' \in [Executions -> [Indices ->
                          {"none", "started", "writing", "ready", "done"}]]
      /\ goroutine'[e][m] = "ready" /\ dispatch[e] \in {"receive", "left"}
      /\ \A d \in Executions, l \in Indices :
           <<d, l>> # <<e, m>> => goroutine'[d][l] = goroutine[d][l]
      /\ Running' /\ Aliasing'
  BY <1>0, GoroutineMoves, Zenon
<1>2. PICK new \in ReplaceMetricsParams(job[processed(m)].protocol, config(e, processed(m)), params) :
        Writes(e, [l \in {processed(m)} |-> new])
  BY Zenon DEF CollectMetricsParams
<1>3. ParamsTyped'
  <2>1. /\ DOMAIN original' = Indices
        /\ DOMAIN clone' = Executions /\ \A d \in Executions : DOMAIN clone'[d] = Indices
    BY <1>0, <1>2, WritesTyped, Zenon
  <2> QED
    BY <1>0, <1>1, <2>1, Constant DEF ParamsTyped, Moves
<1>4. \A d \in Executions, l \in Indices : goroutine'[d][l] = "done" => goroutine[d][l] = "done"
  BY <1>1, Zenon
<1>5. ASSUME DistinctNames', PlainValues' PROVE Replacing'
  <2>1. DistinctNames /\ PlainValues /\ Replacing
    BY <1>0, <1>5, Constant, Zenon DEF ParamsInv
  <2>2. processed(m) = m
    BY <1>0, <2>1, Itself, Zenon
  <2>3. config(e, m) = Wanted(m)
    BY <1>1, <2>1, Zenon DEF Replacing
  <2>4. new = Wanted(m)
    BY <1>0, <1>2, <2>1, <2>2, <2>3, ReplacedConfig, Zenon
  <2>5. /\ \A l \in Indices : original'[l] \in {original[l], Wanted(l)}
        /\ \A d \in Executions, l \in Indices : config(d, l)' \in {config(d, l), Wanted(l)}
    <3> DEFINE f == [l \in {m} |-> new]
    <3>1. DOMAIN f \subseteq Indices /\ (\A l \in DOMAIN f : f[l] = Wanted(l)) /\ Writes(e, f)
      BY <1>2, <2>2, <2>4, Zenon
    <3> HIDE DEF f
    <3> QED
      BY <1>0, <3>1, WritesWanted, Zenon
  <2> QED
    BY <1>0, <1>4, <2>1, <2>5, Constant DEF Replacing, Moves
<1>6. DistinctNames' => ~crashed'
  BY <1>0, Constant, Zenon DEF ParamsInv
<1> QED
  BY <1>1, <1>3, <1>5, <1>6, Zenon DEF ParamsInv

\* The collector reads what is wanted.
LEMMA UseInv ==
  ASSUME ParamsInv, NEW e \in Executions, NEW m \in Indices, Use(e, m)
  PROVE  ParamsInv'
<1>0. /\ ParamsTyped /\ Moves(e, m, "ready", "done")
      /\ used' = [used EXCEPT ![e][m] = config(e, processed(m))]
      /\ UNCHANGED <<job, params, original, clone, crashed>>
  BY Zenon DEF ParamsInv, Use, Moves
<1>1. /\ goroutine' \in [Executions -> [Indices ->
                          {"none", "started", "writing", "ready", "done"}]]
      /\ goroutine'[e][m] = "done" /\ dispatch[e] \in {"receive", "left"}
      /\ \A d \in Executions, l \in Indices :
           <<d, l>> # <<e, m>> => goroutine'[d][l] = goroutine[d][l]
      /\ Running' /\ Aliasing'
  BY <1>0, GoroutineMoves
<1>2. /\ DOMAIN used' = Executions /\ \A d \in Executions : DOMAIN used'[d] = Indices
      /\ used'[e][m] = config(e, processed(m))
      /\ \A d \in Executions, l \in Indices : <<d, l>> # <<e, m>> => used'[d][l] = used[d][l]
  BY <1>0, Zenon DEF ParamsTyped
<1>3. ParamsTyped'
  BY <1>0, <1>1, <1>2, Constant DEF ParamsTyped, Moves
<1>4. \A d \in Executions, l \in Indices : config(d, l)' = config(d, l)
  BY <1>0, Constant, Zenon DEF config
<1>5. ASSUME DistinctNames', PlainValues' PROVE Replacing'
  <2>1. DistinctNames /\ PlainValues /\ Replacing
    BY <1>0, <1>5, Constant, Zenon DEF ParamsInv
  <2>2. used'[e][m] = Wanted(m)
    BY <1>0, <1>1, <1>2, <2>1, Itself DEF Replacing
  <2>3. ASSUME NEW d \in Executions, NEW l \in Indices, goroutine'[d][l] = "done"
        PROVE  used'[d][l] = Wanted(l)
    <3>1. CASE <<d, l>> = <<e, m>>
      BY <2>2, <3>1, Zenon
    <3>2. CASE <<d, l>> # <<e, m>>
      BY <1>1, <1>2, <2>1, <2>3, <3>2, SMTT(30) DEF Replacing
    <3> QED
      BY <3>1, <3>2, Zenon
  <2> QED
    BY <1>0, <1>4, <2>1, <2>3, Constant DEF Replacing, Moves
<1>6. DistinctNames' => ~crashed'
  BY <1>0, Constant, Zenon DEF ParamsInv
<1> QED
  BY <1>1, <1>3, <1>5, <1>6, Zenon DEF ParamsInv

\* The clock goes on.
LEMMA TickInv ==
  ASSUME ParamsInv, Tick \/ UNCHANGED paramVars
  PROVE  ParamsInv'
<1>0. /\ ParamsTyped
      /\ UNCHANGED <<job, params, collectTime, aliased, prior, original, clone, dispatch,
                     goroutine, used, crashed>>
  BY Zenon DEF ParamsInv, Tick, paramVars
<1>1. now' \in Int /\ now' >= IssueTime
  <2>1. now \in Int /\ now >= IssueTime /\ IssueTime \in Nat
    BY <1>0, ClockAssumption, Zenon DEF ParamsTyped
  <2>2. now' = now + 1 \/ now' = now
    BY Zenon DEF Tick, paramVars
  <2> QED
    BY <2>1, <2>2
<1>2. ParamsTyped'
  BY <1>0, <1>1, Constant, Zenon DEF ParamsTyped
<1>3. Running' /\ Aliasing'
  BY <1>0, Keeps, Constant, Zenon DEF ParamsInv, Running
<1>4. \A d \in Executions, l \in Indices : config(d, l)' = config(d, l)
  BY <1>0, Constant, Zenon DEF config
<1>5. DistinctNames' /\ PlainValues' => Replacing'
  BY <1>0, <1>4, Constant, Zenon DEF ParamsInv, Replacing
<1>6. DistinctNames' => ~crashed'
  BY <1>0, Constant, Zenon DEF ParamsInv
<1> QED
  BY <1>2, <1>3, <1>5, <1>6, Zenon DEF ParamsInv

\* The invariant of a job and its executions.
LEMMA ParamsInvariance == ParamsSpec => []ParamsInv
<1>1. ASSUME ParamsInv, [ParamsNext]_paramVars PROVE ParamsInv'
  BY SMTT(30), <1>1, TickInv, ConstructPriorMetricsInv, ReplaceJobParamsInv, ExecutionInv, MergeBeginsInv,
     CollectMetricsParamsInv, UseInv
     DEF ParamsNext
<1> QED
  BY ParamsInitInv, <1>1, PTL DEF ParamsSpec

(* For any jobs, parameters and number of executions: if no value holds a placeholder and *)
(* the names of the metrics differ, every collector is given the configuration of its own *)
(* metrics, with every parameter put in once where ReplaceMetricsParams looks for any and *)
(* nothing changed where it does not, however the executions and the goroutines they      *)
(* leave behind interleave and in whatever order the maps are visited; and no two         *)
(* goroutines write one map.                                                              *)
THEOREM CollectorsGetTheirsHolds == ParamsSpec => []CollectorsGetTheirs
<1>1. ParamsInv => CollectorsGetTheirs
  BY Zenon DEF ParamsInv, Replacing, CollectorsGetTheirs
<1> QED
  BY <1>1, ParamsInvariance, PTL

(* For any jobs whose intervals have passed when they are issued: every metrics that is   *)
(* collected has its aliases, and every group of PriorMetrics has a metrics and only      *)
(* metrics with their aliases.                                                            *)
THEOREM AliasesSetHolds == ParamsSpec => []AliasesSet
<1>1. ASSUME ParamsInv PROVE AliasesSet
  <2>1. ASSUME NEW e \in Executions, NEW m \in Indices, goroutine[e][m] # "none"
        PROVE  m \in aliased
    <3>1. dispatch[e] # "none"
      BY <1>1, <2>1, Zenon DEF ParamsInv, Running
    <3> QED
      BY <1>1, <3>1, Zenon DEF ParamsInv, Aliasing
  <2>2. ASSUME NEW g \in DOMAIN prior PROVE prior[g] # {} /\ prior[g] \subseteq aliased
    BY <1>1, Zenon DEF ParamsInv, Aliasing
  <2> QED
    BY <2>1, <2>2, Zenon DEF AliasesSet
<1> QED
  BY <1>1, ParamsInvariance, PTL
=============================================================================
