----------------------------- MODULE Collection -----------------------------
(***************************************************************************)
(* What the protocol collectors have in common: one call of Collect for    *)
(* one metrics, on the goroutine CollectMetrics (internal/job/collect/     *)
(* dispatch/metrics_collector.go) starts.  Every step that waits for the   *)
(* network ends as the peer likes; the collector opens connections, defers *)
(* closing them, and returns a response.                                   *)
(***************************************************************************)
EXTENDS Rows

VARIABLES
  metrics,    \* the metrics with its configuration, the target's data included
  pc,         \* where the goroutine is
  open,       \* the connections, sessions and listeners that are open
  defers,     \* the deferred closes of Collect: what each one closes
  response    \* the CollectRepMetricsData returned

collectVars == <<metrics, pc, open, defers, response>>

Codes == {"success", "unavailable", "unReachable", "unConnectable", "fail"}

\* A response; its message tells the step it comes from.
Response(code, fields, rows, at) == [code |-> code, fields |-> fields, rows |-> rows, at |-> at]
NoResponse == Response("", <<>>, <<>>, "")

alias == metrics.aliasFields

CollectInit(some) ==
  /\ metrics \in some
  /\ pc = "start"
  /\ open = {}
  /\ defers = <<>>
  /\ response = NoResponse

\* The goroutine of this protocol is at p.
At(protocol, p) == metrics.protocol = protocol /\ pc = p

Go(p) == pc' = p /\ UNCHANGED <<metrics, open, defers, response>>

\* A step that opens r, and one that also defers closing it.
Opens(r, p) ==
  /\ pc' = p
  /\ open' = open \cup r
  /\ UNCHANGED <<metrics, defers, response>>

OpensDeferred(r, closes, p) ==
  /\ pc' = p
  /\ open' = open \cup r
  /\ defers' = <<closes>> \o defers
  /\ UNCHANGED <<metrics, response>>

\* Collect returns, having closed r itself.
Return(r, code, fields, rows) ==
  /\ response' = Response(code, fields, rows, pc)
  /\ pc' = "return"
  /\ open' = open \ r
  /\ UNCHANGED <<metrics, defers>>

Fail(r, code) == Return(r, code, <<>>, <<>>)

\* A configuration the collector dereferences without looking.
Panic == Go("panic")

\* The deferred closes, the last one first.
Unwind ==
  /\ pc = "return" /\ defers # <<>>
  /\ open' = open \ Head(defers)
  /\ defers' = Tail(defers)
  /\ UNCHANGED <<metrics, pc, response>>
=============================================================================
