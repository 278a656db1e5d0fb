--------------------------- MODULE CommonDispatch ---------------------------
(***************************************************************************)
(* One execution of a job: DispatchMetricsTask and handleResults of        *)
(* internal/job/dispatcher/common_dispatcher.go, the goroutines that       *)
(* CollectMetrics of internal/job/collect/dispatch/metrics_collector.go    *)
(* starts, and the delivery of the results by                              *)
(* internal/job/collect/result_handler.go and lazy_message_router.go.      *)
(*                                                                         *)
(* Every metrics of the job is collected by a goroutine of its own, which  *)
(* sends one result into a channel of capacity ChanCap and closes it.  The *)
(* dispatcher receives from the channels one after the other, until the    *)
(* deadline of the collection; then it hands the results over in order.    *)
(* The transport client may be lost, and dial again, at any moment; as     *)
(* long as it dials, whoever asks for its state waits.                     *)
(***************************************************************************)
EXTENDS Integers, Sequences, FiniteSets

CONSTANTS
  N,        \* the number of metrics of the job
  ChanCap   \* the capacity of a result channel; 1 in the code

ASSUME DispatchAssumption == N \in Nat \ {0} /\ ChanCap = 1

Metrics == 1 .. N

VARIABLES
  pc,         \* where DispatchMetricsTask is
  i,          \* the index of its current loop
  deadline,   \* collectCtx is done
  collector,  \* progress of every collecting goroutine
  channel,    \* the number of results waiting in every channel
  results,    \* the results received, in order
  errors,     \* the metrics reported as timed out
  connected,  \* the client's started
  dialling,   \* Start holds the client's mutex
  sent,       \* history: the results sent to the manager, in order
  dropped     \* history: the results SendResult refused

collectVars == <<collector, channel>>
resultVars == <<results, errors>>
deliveryVars == <<sent, dropped>>
clientVars == <<connected, dialling>>
vars == <<pc, i, deadline, collectVars, resultVars, clientVars, deliveryVars>>

Init ==
  /\ pc = "start"
  /\ i = 1
  /\ deadline = FALSE
  /\ collector = [m \in Metrics |-> "none"]
  /\ channel = [m \in Metrics |-> 0]
  /\ results = <<>>
  /\ errors = {}
  /\ connected \in BOOLEAN
  /\ dialling \in {FALSE, ~connected}
  /\ sent = <<>>
  /\ dropped = {}

\* Go on with the next index of a loop over 1 .. n, or with the next phase.
Advance(n, phase) ==
  IF i < n THEN i' = i + 1 /\ pc' = pc ELSE i' = 1 /\ pc' = phase

-----------------------------------------------------------------------------
(***************************************************************************)
(* The goroutines of CollectMetrics.                                       *)
(***************************************************************************)

\* The call of CollectMetrics: make the channel, start the goroutine.
StartCollect ==
  /\ pc = "start"
  /\ collector' = [collector EXCEPT ![i] = "collecting"]
  /\ Advance(N, "receive")
  /\ UNCHANGED <<deadline, channel, resultVars, clientVars, deliveryVars>>

\* The protocol's collector returns, with a result or an error response; the
\* goroutine completes it (or makes an error response when there is none).
Collected(m) ==
  /\ collector[m] = "collecting"
  /\ collector' = [collector EXCEPT ![m] = "sending"]
  /\ UNCHANGED <<pc, i, deadline, channel, resultVars, clientVars, deliveryVars>>

\* Faulty variant of SendToChannel: the channel has no buffer.
SendUnbuffered(m) ==
  /\ collector[m] = "sending"
  /\ pc = "receive" /\ i = m
  /\ channel' = [channel EXCEPT ![m] = @ + 1]
  /\ collector' = [collector EXCEPT ![m] = "closed"]
  /\ UNCHANGED <<pc, i, deadline, resultVars, clientVars, deliveryVars>>

\* resultChan <- result, and the deferred close.
SendToChannel(m) ==
  /\ collector[m] = "sending"
  /\ channel[m] < ChanCap
  /\ channel' = [channel EXCEPT ![m] = @ + 1]
  /\ collector' = [collector EXCEPT ![m] = "closed"]
  /\ UNCHANGED <<pc, i, deadline, resultVars, clientVars, deliveryVars>>

-----------------------------------------------------------------------------
(***************************************************************************)
(* The receiving loop.  When a result waits and the deadline has passed,   *)
(* the select takes either branch.                                         *)
(***************************************************************************)

\* context.WithTimeout expires.
DeadlinePasses ==
  /\ pc \in {"start", "receive"}
  /\ ~deadline
  /\ deadline' = TRUE
  /\ UNCHANGED <<pc, i, collectVars, resultVars, clientVars, deliveryVars>>

Receive ==
  /\ pc = "receive"
  /\ channel[i] > 0
  /\ channel' = [channel EXCEPT ![i] = @ - 1]
  /\ results' = Append(results, i)
  /\ Advance(N, "handle")
  /\ UNCHANGED <<deadline, collector, errors, clientVars, deliveryVars>>

\* Faulty variants of ReceiveTimeout: the loop stays at the index, and may yet
\* receive the result; the loop gives up on the remaining channels.
ReceiveTimeoutRetries ==
  /\ pc = "receive"
  /\ deadline
  /\ errors' = errors \cup {i}
  /\ UNCHANGED <<pc, i, deadline, collectVars, results, clientVars, deliveryVars>>
ReceiveTimeoutBreaks ==
  /\ pc = "receive"
  /\ deadline
  /\ errors' = errors \cup {i}
  /\ i' = 1
  /\ pc' = "handle"
  /\ UNCHANGED <<deadline, collectVars, results, clientVars, deliveryVars>>

ReceiveTimeout ==
  /\ pc = "receive"
  /\ deadline
  /\ errors' = errors \cup {i}
  /\ Advance(N, "handle")
  /\ UNCHANGED <<deadline, collectVars, results, clientVars, deliveryVars>>

-----------------------------------------------------------------------------
(***************************************************************************)
(* handleResults: SendResult for every result, whatever became of the      *)
(* ones before it.                                                         *)
(***************************************************************************)

NothingToHandle ==
  /\ pc = "handle"
  /\ results = <<>>
  /\ pc' = "done"
  /\ UNCHANGED <<i, deadline, collectVars, resultVars, clientVars, deliveryVars>>

\* SendResult asks IsStarted, which waits for the client's mutex, and finds no
\* started client: the result is dropped.
HandleNotReady ==
  /\ pc = "handle"
  /\ results # <<>>
  /\ ~dialling /\ ~connected
  /\ dropped' = dropped \cup {results[i]}
  /\ Advance(Len(results), "done")
  /\ UNCHANGED <<deadline, collectVars, resultVars, clientVars, sent>>

\* SendResult asks IsStarted, which waits for the client's mutex, finds a started
\* client and goes on to SendMsg.
HandleReady ==
  /\ pc = "handle"
  /\ results # <<>>
  /\ ~dialling /\ connected
  /\ pc' = "send"
  /\ UNCHANGED <<i, deadline, collectVars, resultVars, clientVars, deliveryVars>>

\* Faulty variant of HandleSend: the first failure ends the loop.
HandleSendAborts ==
  /\ pc = "send"
  /\ \E ok \in {connected, FALSE} :
       /\ sent' = IF ok THEN Append(sent, results[i]) ELSE sent
       /\ dropped' = IF ok THEN dropped ELSE dropped \cup {results[i]}
       /\ IF ok /\ i < Len(results) THEN i' = i + 1 /\ pc' = "handle"
                                    ELSE i' = 1 /\ pc' = "done"
  /\ UNCHANGED <<deadline, collectVars, resultVars, clientVars>>

\* The encoding and SendMsg.  It fails when the client was shut down meanwhile,
\* and may fail on a client whose connection is lost.
HandleSend ==
  /\ pc = "send"
  /\ \E ok \in {connected, FALSE} :
       /\ sent' = IF ok THEN Append(sent, results[i]) ELSE sent
       /\ dropped' = IF ok THEN dropped ELSE dropped \cup {results[i]}
  /\ IF i < Len(results) THEN i' = i + 1 /\ pc' = "handle"
                         ELSE i' = 1 /\ pc' = "done"
  /\ UNCHANGED <<deadline, collectVars, resultVars, clientVars>>

\* Start takes the mutex and dials.  That of GrpcClient dials WithBlock and without
\* a deadline: with the manager away DialEnds may never come.
DialBegins ==
  /\ pc # "done"
  /\ ~connected /\ ~dialling
  /\ dialling' = TRUE
  /\ UNCHANGED <<pc, i, deadline, collectVars, resultVars, connected, deliveryVars>>

\* The dial succeeds or fails, and Start gives the mutex back.
DialEnds ==
  /\ pc # "done"
  /\ dialling
  /\ dialling' = FALSE
  /\ connected' \in BOOLEAN
  /\ UNCHANGED <<pc, i, deadline, collectVars, resultVars, deliveryVars>>

\* Shutdown, by the monitor of a lost connection or by an order of the manager.
Disconnects ==
  /\ pc # "done"
  /\ connected
  /\ connected' = FALSE
  /\ UNCHANGED <<pc, i, deadline, collectVars, resultVars, dialling, deliveryVars>>

-----------------------------------------------------------------------------

Dispatcher ==
  \/ StartCollect
  \/ Receive
  \/ ReceiveTimeout
  \/ NothingToHandle
  \/ HandleNotReady
  \/ HandleReady
  \/ HandleSend

Next ==
  \/ Dispatcher
  \/ \E m \in Metrics : Collected(m) \/ SendToChannel(m)
  \/ DeadlinePasses
  \/ DialBegins
  \/ DialEnds
  \/ Disconnects

Spec == Init /\ [][Next]_vars

(***************************************************************************)
(* The dispatcher and a collector that has its result run on, and the      *)
(* deadline passes; a protocol's collector may hang for ever, and so may a *)
(* dial.  Unlock of a sync.RWMutex lets the readers in that wait for it,   *)
(* before the next writer: a call of IsStarted is not passed over for ever *)
(* by one dial after the other.                                            *)
(***************************************************************************)
Fairness ==
  /\ WF_vars(Dispatcher)
  /\ SF_vars(HandleNotReady \/ HandleReady)
  /\ WF_vars(DeadlinePasses)
  /\ \A m \in Metrics : WF_vars(SendToChannel(m))

FairSpec == Spec /\ Fairness

-----------------------------------------------------------------------------
(***************************************************************************)
(* Properties.                                                             *)
(***************************************************************************)

Received == {results[k] : k \in DOMAIN results}

TypeOK ==
  /\ pc \in {"start", "receive", "handle", "send", "done"}
  /\ i \in Metrics
  /\ deadline \in BOOLEAN
  /\ collector \in [Metrics -> {"none", "collecting", "sending", "closed"}]
  /\ channel \in [Metrics -> 0 .. ChanCap]
  /\ results \in Seq(Metrics)
  /\ errors \subseteq Metrics
  /\ connected \in BOOLEAN
  /\ dialling \in BOOLEAN
  /\ sent \in Seq(Metrics)
  /\ dropped \subseteq Metrics

\* A metrics is reported once: its result is received or it is counted as timed
\* out, never both, and when the results are handled none is unaccounted for,
\* although late goroutines still fill channels nobody reads.
ReportedOnce ==
  /\ Received \cap errors = {}
  /\ pc \in {"handle", "send", "done"} => Received \cup errors = Metrics

\* A failing delivery does not affect the others: when the execution ends every
\* received result has been sent or refused, and the manager gets the results in
\* the order of the job's metrics, each at most once.
DeliveredInOrder ==
  /\ pc = "done" => {sent[k] : k \in DOMAIN sent} \cup dropped = Received
  /\ \A k, l \in DOMAIN sent : k < l => sent[k] < sent[l]

\* A finished collection never blocks on its channel, even when the dispatcher
\* has given up on it: no goroutine is leaked by a timeout.
NoLeakedCollector ==
  \A m \in Metrics : collector[m] = "sending" ~> collector[m] = "closed"

\* The execution ends even if collectors hang for ever, so that a cyclic job is
\* rescheduled; the one thing that can keep it is a client that dials for ever,
\* which SendResult then waits for.
DispatchTerminates ==
  <>(pc = "done") \/ <>[](pc = "handle" /\ results # <<>> /\ dialling)
=============================================================================
