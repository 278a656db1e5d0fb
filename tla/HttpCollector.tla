---------------------------- MODULE HttpCollector ---------------------------
(***************************************************************************)
(* The HTTP collector (internal/protocol/basic/http/http_collector.go):    *)
(* the request, its one repetition when the target answers 401 and digest  *)
(* authentication is configured, the body and its rows.  The timeout of    *)
(* the client covers a request and its body; a configured timeout of zero  *)
(* or less is none.                                                        *)
(*                                                                         *)
(* Every Collect makes its own http.Transport: the connection of a body    *)
(* that was read to its end stays in the pool of that transport.           *)
(***************************************************************************)
EXTENDS Collection

VARIABLES
  requests,   \* how many requests were sent
  answer      \* the last answer: [status, challenge, body]

httpVars == <<requests, answer>>

Challenges == {"none", "bad", "good"}
NoAnswer == [status |-> 0, challenge |-> "none", body |-> "none"]

HttpInit == requests = 0 /\ answer = NoAnswer

\* An answer arrives with its body open; one without a body (metrics.empty) has
\* http.NoBody for one.
Answers(status, challenge) ==
  answer' = [status |-> status, challenge |-> challenge, body |-> "open"]

\* The URL comes from the configuration, or from host and port.
createRequest ==
  /\ At("http", "collect")
  /\ \/ ~metrics.present /\ Panic
     \/ metrics.present /\ metrics.url = "none" /\ Fail({}, "fail")
     \/ metrics.present /\ metrics.url = "bad" /\ Fail({}, "fail")
     \/ metrics.present /\ metrics.url = "good" /\ Go("do")
  /\ UNCHANGED httpVars

\* Where the client waits for the target, without end if no timeout is set.
HttpSilent == IF metrics.deadline THEN {} ELSE {"do", "answered", "retry", "read"}

\* client.Do, the first time and after a challenge: an answer, or a request that fails
\* or times out.
Do ==
  /\ metrics.protocol = "http" /\ pc \in {"do", "retry"}
  /\ requests' = requests + 1
  /\ \/ /\ \E status \in metrics.statuses, challenge \in Challenges :
             Answers(status, challenge)
        /\ Opens({"http"}, IF pc = "do" THEN "answered" ELSE "read")
     \/ Fail({"http"}, "unReachable") /\ UNCHANGED answer

\* The body of a 401 is read and closed before the challenge is looked at.
handleDigestAuth ==
  /\ At("http", "answered")
  /\ IF answer.status = 401 /\ metrics.auth = "digest"
       THEN /\ answer' = [answer EXCEPT !.body = "closed"]
            /\ Go(IF answer.challenge = "good" THEN "retry" ELSE "read")
       ELSE UNCHANGED answer /\ Go("read")
  /\ UNCHANGED requests

\* Faulty variant of ReadAll: a closed body reads as an empty one.
ReadClosedBody ==
  /\ At("http", "read")
  /\ Go("parse")
  /\ answer' = [answer EXCEPT !.body = IF @ = "open" THEN "read" ELSE @]
  /\ UNCHANGED requests

\* ReadAll: the body of a 401 whose challenge was no good is closed already, and its
\* connection back in the pool; a failed read closes the connection.  http.NoBody reads
\* as nothing, closed or not.
ReadAll ==
  /\ At("http", "read")
  /\ \/ /\ answer.body = "open"
        /\ Go("parse") /\ answer' = [answer EXCEPT !.body = "read"]
     \/ /\ answer.body = "open" /\ ~metrics.empty
        /\ Fail({"http"}, "fail") /\ answer' = [answer EXCEPT !.body = "closed"]
     \/ /\ answer.body = "closed" /\ ~metrics.empty
        /\ Fail({}, "fail") /\ UNCHANGED answer
     \/ /\ answer.body = "closed" /\ metrics.empty
        /\ Go("parse") /\ UNCHANGED answer
  /\ UNCHANGED requests

\* The rows a body may give; only a Prometheus text can be wrong, a document that does
\* not decode has no rows.
httpRows ==
  CASE metrics.parse = "prometheus" -> parsePrometheus(metrics.samples, alias)
    [] metrics.parse = "website" -> {parseWebsite(metrics.keywords, answer.status, alias)}
    [] metrics.parse = "header" -> {parseHeader(metrics.values, alias)}
    [] OTHER -> {parseJsonPath(metrics.items, alias)}

parseResponse ==
  /\ At("http", "parse")
  /\ \/ metrics.parse = "prometheus" /\ Fail({}, "fail")
     \/ \E rows \in httpRows :
          Return({}, "success", alias, fillCommonFields(rows, alias, answer.status))
  /\ UNCHANGED httpVars

HttpCollect ==
  \/ createRequest
  \/ Do
  \/ handleDigestAuth
  \/ ReadAll
  \/ parseResponse
=============================================================================
