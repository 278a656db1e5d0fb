---------------------------- MODULE CollectProofs ---------------------------
(***************************************************************************)
(* What a collection leaves behind and what it tells, for every            *)
(* configuration and every set of Redis nodes: the invariants              *)
(* NothingLeftOpen, SuccessIsAnswered and TellsTheTruth of                 *)
(* MetricsCollector.                                                       *)
(*                                                                         *)
(* The first two are not inductive.  Between two steps a collector has     *)
(* connections open that no deferred close covers yet, so that the next    *)
(* failure has to close them: Holds says which ones, at which step.        *)
(* Covered says that there are no others, Path how the steps follow one    *)
(* another, and Earned where a success comes from.  TellsTheTruth needs    *)
(* Truth besides, the second half of the module: what the rows are while   *)
(* they are gathered, calculated and sent.                                 *)
(***************************************************************************)
EXTENDS MetricsCollector, FiniteSetTheorems, TLAPS

\* Whatever a collection may hold open.
Resources ==
  Nodes \cup {"conn", "proxy", "session", "http", "ssh", "listener", "db", "milvus"}

\* What the deferred closes of Collect will close.
Deferred == UNION {defers[i] : i \in DOMAIN defers}

\* The steps that are of no protocol, and those after Collect has returned.
Common == {"start", "collect", "panic", "return", "calculate", "send", "done"}
Returned == pc \in {"return", "calculate", "send", "done"}

\* The types the proof needs.
Record(a) == a = [status |-> a.status, challenge |-> a.challenge, body |-> a.body]
Formed(r) == r = Response(r.code, r.fields, r.rows, r.at)
Typed ==
  /\ open \subseteq Resources
  /\ defers \in Seq(SUBSET Resources)
  /\ Formed(response)
  /\ Record(answer)
  /\ node \in [Nodes -> {"none", "dial", "handshake", "target", "info", "cluster"} \cup NodeEnds]

\* What the collector has open at step p and no deferred close covers.
Holds(p, x) ==
  \/ metrics.protocol = "ssh" /\ x = "conn" /\ p \in {"handshake", "targetHandshake"}
  \/ /\ metrics.protocol = "ssh" /\ x = "proxy" /\ metrics.proxy # "none"
     /\ p \in {"proxyHandshake", "targetDial", "targetHandshake", "session", "script", "parse"}
  \/ metrics.protocol = "http" /\ x = "http" /\ p \in {"answered", "retry", "read", "parse"}
  \/ metrics.protocol = "jdbc" /\ x = "ssh" /\ p \in {"tunnelHandshake", "listen"}
  \/ metrics.protocol = "jdbc" /\ x = "db" /\ p = "ping"

\* What it leaves open when it returns from step p with the last answer a.
Leaves(p, a, x) ==
  \/ /\ metrics.protocol = "ssh" /\ x = "proxy" /\ metrics.proxy # "none"
     /\ p \in {"session", "script", "parse"}
  \/ /\ metrics.protocol = "http" /\ x = "http"
     /\ a.body = "read" \/ (a.status = 401 /\ (p = "read" \/ metrics.empty))

Covered ==
  \A x \in open : x \in Deferred \/ IF Returned THEN Leaves(response.at, answer, x) ELSE Holds(pc, x)

\* The body of an answer was read, or it has none.
HasBody(a) == a.body = "read" \/ (a.body = "closed" /\ metrics.empty)

\* What is so when step p comes with the last answer a: a proxy is dialled where one is
\* configured, and a body is read before it is parsed.
Comes(p, a) ==
  /\ metrics.protocol = "ssh" /\ p \in {"proxyDial", "proxyHandshake", "targetDial", "targetHandshake"} =>
       metrics.proxy # "none"
  /\ metrics.protocol = "http" =>
       /\ p = "answered" => a.body = "open"
       /\ p = "read" => a.body = "open" \/ (a.body = "closed" /\ a.status = 401)
       /\ p = "parse" => HasBody(a) /\ (a.body = "closed" => a.status = 401)

\* Collect starts with nothing deferred and ends so; the clients of the Redis nodes are
\* to be closed before a node is asked; a node is asked once, and is at work only while
\* the collector of its protocol waits for it.
Path ==
  /\ Comes(pc, answer)
  /\ pc \in {"start", "collect", "calculate", "send", "done"} => defers = <<>>
  /\ metrics.protocol = "redis" /\ pc \notin Common => Nodes \subseteq Deferred
  /\ metrics.protocol = "redis" =>
       /\ pc \in {"start", "collect", "masters", "single"} => \A n \in Nodes : node[n] = "none"
       /\ pc = "slaves" => \A n \in Slaves : node[n] = "none"
  /\ \A n \in Nodes : node[n] \notin {"none"} \cup NodeEnds =>
       metrics.protocol = "redis" /\ pc \in {"slaves", "wait", "ask"}

HasRow == \E n \in Nodes : node[n] \in {"row", "both"}

\* Where a success and its rows come from.
Earned ==
  /\ pc \notin {"start", "collect", "panic"} /\ ~Returned => metrics.present
  /\ metrics.protocol = "redis" /\ response.rows # <<>> /\ ~Returned => HasRow
  /\ ~Returned =>
       response.code = IF metrics.protocol = "redis" /\ pc \notin Common THEN "success" ELSE ""
  /\ response.code = "success" =>
       /\ metrics.present
       /\ metrics.protocol = "http" => HasBody(answer)
       /\ metrics.protocol = "jdbc" => queried.ok
       /\ metrics.protocol = "redis" /\ Returned => HasRow
  /\ Returned /\ response.code # "success" => response.rows = <<>>
  /\ pc = "calculate" => response.code = "success"

IInv == Typed /\ Covered /\ Path /\ Earned

-----------------------------------------------------------------------------
\* The deferred closes.
LEMMA NoneDeferred == ASSUME defers = <<>> PROVE Deferred = {}
  BY DEF Deferred

\* Deferring a close.
LEMMA Defers ==
  ASSUME Typed, NEW c \in SUBSET Resources, defers' = <<c>> \o defers
  PROVE  defers' \in Seq(SUBSET Resources) /\ Deferred' = c \cup Deferred
<1>1. /\ defers' \in Seq(SUBSET Resources) /\ Len(defers') = Len(defers) + 1 /\ Len(defers) \in Nat
      /\ defers'[1] = c /\ \A i \in 1 .. Len(defers) : defers'[i + 1] = defers[i]
      /\ DOMAIN defers = 1 .. Len(defers) /\ DOMAIN defers' = 1 .. Len(defers')
  BY DEF Typed
<1>2. c \subseteq Deferred'
  BY <1>1 DEF Deferred
<1>3. Deferred \subseteq Deferred'
  <2> SUFFICES ASSUME NEW i \in 1 .. Len(defers), NEW x \in defers[i] PROVE x \in Deferred'
    BY <1>1, Zenon DEF Deferred
  <2>1. i + 1 \in DOMAIN defers' /\ x \in defers'[i + 1]
    BY <1>1
  <2> QED
    BY <2>1, Zenon DEF Deferred
<1>4. Deferred' \subseteq c \cup Deferred
  <2> SUFFICES ASSUME NEW i \in 1 .. Len(defers'), NEW x \in defers'[i], x \notin c
               PROVE  x \in Deferred
    BY <1>1 DEF Deferred
  <2>1. i # 1 /\ i - 1 \in 1 .. Len(defers)
    BY <1>1
  <2>2. defers'[i] = defers[i - 1]
    BY <1>1, <2>1
  <2> QED
    BY <1>1, <2>1, <2>2, Zenon DEF Deferred
<1> QED
  BY <1>1, <1>2, <1>3, <1>4

\* Running one.
LEMMA Runs ==
  ASSUME Typed, defers # <<>>, defers' = Tail(defers)
  PROVE  defers' \in Seq(SUBSET Resources) /\ Deferred \subseteq Head(defers) \cup Deferred'
<1>1. /\ defers' \in Seq(SUBSET Resources) /\ Len(defers') = Len(defers) - 1 /\ Len(defers) \in Nat
      /\ Head(defers) = defers[1] /\ \A i \in 1 .. Len(defers') : defers'[i] = defers[i + 1]
      /\ DOMAIN defers = 1 .. Len(defers) /\ DOMAIN defers' = 1 .. Len(defers')
  BY DEF Typed
<1> SUFFICES ASSUME NEW i \in 1 .. Len(defers), NEW x \in defers[i], x \notin defers[1]
             PROVE  x \in Deferred'
  BY <1>1 DEF Deferred
<1>2. i # 1 /\ i - 1 \in 1 .. Len(defers') /\ (i - 1) + 1 = i
  BY <1>1
<1>3. defers'[i - 1] = defers[i]
  BY <1>1, <1>2
<1> QED
  BY <1>1, <1>2, <1>3, Zenon DEF Deferred

-----------------------------------------------------------------------------
(***************************************************************************)
(* The forms a step of a collector has, Redis aside: it goes on to step p, *)
(* having opened r and deferred closing c, or it returns, having closed r. *)
(***************************************************************************)

\* A collector of another protocol than Redis at work.
Working == metrics.protocol # "redis" /\ metrics.present /\ ~Returned

\* It goes on: what it holds then is covered by the new deferred close or held at p.
LEMMA GoesOn ==
  ASSUME IInv, Working, NEW p, p \notin Common, NEW r \in SUBSET Resources, NEW c \in SUBSET Resources,
         pc' = p, open' = open \cup r, Deferred' = c \cup Deferred, defers' \in Seq(SUBSET Resources),
         UNCHANGED <<metrics, response, node>>, Record(answer'), Comes(p, answer'),
         \A x : x \in r \/ Holds(pc, x) => x \in c \/ Holds(p, x)
  PROVE  IInv'
<1>1. ~Returned' /\ p \notin {"start", "collect", "calculate", "send", "done", "panic"}
  BY Zenon DEF Common, Returned
<1>2. Typed'
  BY Zenon DEF IInv, Typed
<1>3. \A x : Holds(p, x)' <=> Holds(p, x)
  BY DEF Holds
<1>4. Covered'
  BY <1>1, <1>3, Zenon DEF IInv, Covered, Working
<1>5. Comes(pc, answer)'
  BY ZenonT(40) DEF Comes, HasBody
<1>6. Path'
  BY <1>1, <1>5, Zenon DEF IInv, Path, Working
<1>7. Earned'
  BY <1>1, Zenon DEF IInv, Earned, Working
<1> QED
  BY <1>2, <1>4, <1>6, <1>7 DEF IInv

\* It goes on without opening anything, the answer being a new one or the same.
LEMMA GoesAnswered ==
  ASSUME IInv, Working, NEW p, p \notin Common, Go(p), UNCHANGED node,
         Record(answer'), Comes(p, answer'), \A x : Holds(pc, x) => Holds(p, x)
  PROVE  IInv'
<1>1. /\ Deferred' = {} \cup Deferred /\ open' = open \cup {} /\ {} \in SUBSET Resources
      /\ \A x : x \in {} \/ Holds(pc, x) => x \in {} \/ Holds(p, x)
  BY Zenon DEF Go, Deferred
<1>2. defers' \in Seq(SUBSET Resources)
  BY Zenon DEF Go, IInv, Typed
<1> QED
  BY <1>1, <1>2, GoesOn, Zenon DEF Go

\* It goes on with the answer it has.
LEMMA Goes ==
  ASSUME IInv, Working, NEW p, p \notin Common, Go(p), UNCHANGED <<answer, node>>, Comes(p, answer),
         \A x : Holds(pc, x) => Holds(p, x)
  PROVE  IInv'
<1>1. Record(answer') /\ Comes(p, answer')
  BY Zenon DEF IInv, Typed
<1> QED
  BY <1>1, GoesAnswered, Zenon

\* It opens r, to be closed by whatever fails next.
LEMMA Opened ==
  ASSUME IInv, Working, NEW p, p \notin Common, NEW r \in SUBSET Resources, Opens(r, p),
         UNCHANGED <<answer, node>>, Comes(p, answer),
         \A x : x \in r \/ Holds(pc, x) => Holds(p, x)
  PROVE  IInv'
<1>1. /\ Deferred' = {} \cup Deferred /\ {} \in SUBSET Resources
      /\ \A x : x \in r \/ Holds(pc, x) => x \in {} \/ Holds(p, x)
  BY Zenon DEF Opens, Deferred
<1>2. defers' \in Seq(SUBSET Resources) /\ Record(answer')
  BY Zenon DEF Opens, IInv, Typed
<1> QED
  BY <1>1, <1>2, GoesOn, Zenon DEF Opens

\* It opens r and defers closing c.
LEMMA OpenedDeferred ==
  ASSUME IInv, Working, NEW p, p \notin Common, NEW r \in SUBSET Resources, NEW c \in SUBSET Resources,
         OpensDeferred(r, c, p), UNCHANGED <<answer, node>>, Comes(p, answer),
         \A x : x \in r \/ Holds(pc, x) => x \in c \/ Holds(p, x)
  PROVE  IInv'
<1>1. defers' \in Seq(SUBSET Resources) /\ Deferred' = c \cup Deferred
  BY Defers, Zenon DEF IInv, OpensDeferred
<1>2. Record(answer')
  BY Zenon DEF IInv, Typed
<1> QED
  BY <1>1, <1>2, GoesOn, Zenon DEF OpensDeferred

\* It returns.
LEMMA Returns ==
  ASSUME IInv, metrics.protocol # "redis", ~Returned,
         NEW r, NEW code, NEW fields, NEW rows, Return(r, code, fields, rows),
         Record(answer'), UNCHANGED node,
         code = "success" => /\ metrics.present
                             /\ metrics.protocol = "http" => HasBody(answer')
                             /\ metrics.protocol = "jdbc" => queried.ok,
         code # "success" => rows = <<>>,
         \A x : Holds(pc, x) => x \in r \/ Leaves(pc, answer', x)
  PROVE  IInv'
<1> USE DEF Return
<1>1. /\ response' = Response(code, fields, rows, pc)
      /\ response'.code = code /\ response'.rows = rows /\ response'.at = pc
  BY Zenon DEF Formed, Response
<1>2. Typed'
  BY <1>1, Zenon DEF IInv, Typed, Formed, Response
<1>3. Returned' /\ Deferred' = Deferred /\ queried' = queried
  BY Zenon DEF Returned, Deferred, queried, alias
<1>4. \A x : Leaves(pc, answer', x) => Leaves(response.at, answer, x)'
  BY <1>1, Zenon DEF Leaves
<1>5. Covered'
  BY <1>3, <1>4, Zenon DEF IInv, Covered
<1>6. Path'
  BY Zenon DEF IInv, Path, Comes, Common
<1>7. Earned'
  BY <1>1, <1>3, Zenon DEF Earned, HasBody
<1> QED
  BY <1>2, <1>5, <1>6, <1>7 DEF IInv

\* It fails, having closed r.
LEMMA Fails ==
  ASSUME IInv, metrics.protocol # "redis", ~Returned, NEW r, NEW code, Fail(r, code), code # "success",
         UNCHANGED <<answer, node>>,
         \A x : Holds(pc, x) => x \in r \/ Leaves(pc, answer, x)
  PROVE  IInv'
<1>1. Record(answer')
  BY Zenon DEF IInv, Typed
<1> QED
  BY <1>1, Returns, Zenon DEF Fail

\* It panics on a configuration that is missing.
LEMMA Panics ==
  ASSUME IInv, pc = "collect", Panic, UNCHANGED <<answer, node>>
  PROVE  IInv'
<1> USE DEF Panic, Go
<1>1. Typed'
  BY Zenon DEF IInv, Typed
<1>2. Covered'
  BY Zenon DEF IInv, Covered, Deferred, Holds, Returned
<1>3. Path'
  BY Zenon DEF IInv, Path, Comes, Common
<1>4. (HasRow' <=> HasRow) /\ queried' = queried
  BY Zenon DEF HasRow, queried, alias
<1>5. Earned'
  BY <1>4 DEF IInv, Earned, Returned, Common
<1> QED
  BY <1>1, <1>2, <1>3, <1>5 DEF IInv

-----------------------------------------------------------------------------
\* The SSH collector.
LEMMA SshStep ==
  ASSUME IInv, SshCollect, UNCHANGED <<httpVars, redisVars>>
  PROVE  IInv'
<1> UNCHANGED <<answer, node>> /\ {} \subseteq Resources /\ {"conn"} \subseteq Resources
    /\ {"proxy"} \subseteq Resources /\ {"session"} \subseteq Resources
  BY Zenon DEF httpVars, redisVars, Resources
<1> USE DEF At
<1>1. CASE CreateSSHClientConfig
  <2>1. ~Returned /\ metrics.protocol = "ssh" /\ pc = "collect"
    BY <1>1, Zenon DEF CreateSSHClientConfig, Returned
  <2>2. CASE Fail({}, "fail") \/ Fail({}, "unConnectable")
    BY <2>1, <2>2, Fails DEF Holds
  <2>3. CASE metrics.present /\ Go("dialWithProxy")
    BY <2>1, <2>3, Goes DEF Holds, Comes, Working, Common
  <2> QED
    BY <1>1, <2>2, <2>3, Zenon DEF CreateSSHClientConfig
<1>2. CASE DialWithProxy
  <2>1. Working /\ metrics.protocol = "ssh" /\ pc = "dialWithProxy"
    BY <1>2, Zenon DEF DialWithProxy, Working, Returned, IInv, Earned
  <2>2. CASE Fail({}, "unConnectable")
    BY <2>1, <2>2, Fails DEF Holds, Working
  <2>3. CASE Go("dial") \/ (metrics.proxy # "none" /\ Go("proxyDial"))
    BY <2>1, <2>3, Goes DEF Holds, Comes, Common
  <2> QED
    BY <1>2, <2>2, <2>3, Zenon DEF DialWithProxy
<1>3. CASE DialWithContext
  <2>1. Working /\ metrics.protocol = "ssh" /\ pc \in {"dial", "handshake"}
    BY <1>3, Zenon DEF DialWithContext, Working, Returned, IInv, Earned
  <2>2. CASE pc = "dial" /\ Fail({}, "unConnectable")
    BY <2>1, <2>2, Fails DEF Holds, Working
  <2>3. CASE pc = "dial" /\ Opens({"conn"}, "handshake")
    BY <2>1, <2>3, Opened DEF Holds, Comes, Common
  <2>4. CASE pc = "handshake" /\ Fail({"conn"}, "unConnectable")
    BY <2>1, <2>4, Fails DEF Holds, Working
  <2>5. CASE pc = "handshake" /\ OpensDeferred({}, {"conn"}, "session")
    BY <2>1, <2>5, OpenedDeferred DEF Holds, Comes, Common
  <2> QED
    BY <1>3, <2>2, <2>3, <2>4, <2>5, Zenon DEF DialWithContext
<1>4. CASE dialViaProxy
  <2>1. /\ Working /\ metrics.protocol = "ssh" /\ metrics.proxy # "none"
        /\ pc \in {"proxyDial", "proxyHandshake", "targetDial", "targetHandshake"}
    BY <1>4, Zenon DEF dialViaProxy, Working, Returned, IInv, Earned, Path, Comes
  <2>2. CASE pc = "proxyDial" /\ Fail({}, "unConnectable")
    BY <2>1, <2>2, Fails DEF Holds, Working
  <2>3. CASE pc = "proxyDial" /\ Opens({"proxy"}, "proxyHandshake")
    BY <2>1, <2>3, Opened DEF Holds, Comes, Common
  <2>4. CASE pc \in {"proxyHandshake", "targetDial"} /\ Fail({"proxy"}, "unConnectable")
    BY <2>1, <2>4, Fails DEF Holds, Working
  <2>5. CASE pc = "proxyHandshake" /\ Go("targetDial")
    BY <2>1, <2>5, Goes DEF Holds, Comes, Common
  <2>6. CASE pc = "targetDial" /\ Opens({"conn"}, "targetHandshake")
    BY <2>1, <2>6, Opened DEF Holds, Comes, Common
  <2>7. CASE pc = "targetHandshake" /\ Fail({"conn", "proxy"}, "unConnectable")
    BY <2>1, <2>7, Fails DEF Holds, Working
  <2>8. CASE pc = "targetHandshake" /\ OpensDeferred({}, {"conn"}, "session")
    BY <2>1, <2>8, OpenedDeferred DEF Holds, Comes, Common
  <2> QED
    BY <1>4, <2>2, <2>3, <2>4, <2>5, <2>6, <2>7, <2>8, Zenon DEF dialViaProxy
<1>5. CASE executeSSHScript
  <2>1. Working /\ metrics.protocol = "ssh" /\ pc \in {"session", "script"}
    BY <1>5, Zenon DEF executeSSHScript, Working, Returned, IInv, Earned
  <2>2. CASE Fail({}, "unConnectable")
    BY <2>1, <2>2, Fails DEF Holds, Leaves, Working
  <2>3. CASE pc = "session" /\ OpensDeferred({"session"}, {"session"}, "script")
    BY <2>1, <2>3, OpenedDeferred DEF Holds, Comes, Common
  <2>4. CASE pc = "script" /\ Go("parse")
    BY <2>1, <2>4, Goes DEF Holds, Comes, Common
  <2> QED
    BY <1>5, <2>2, <2>3, <2>4, Zenon DEF executeSSHScript
<1>6. CASE createSuccessResponseWithResult
  <2>1. Working /\ metrics.protocol = "ssh" /\ pc = "parse" /\ Record(answer)
    BY <1>6, Zenon DEF createSuccessResponseWithResult, Working, Returned, IInv, Earned, Typed
  <2> QED
    BY <1>6, <2>1, Returns DEF createSuccessResponseWithResult, Holds, Leaves, Working
<1> QED
  BY <1>1, <1>2, <1>3, <1>4, <1>5, <1>6, Zenon DEF SshCollect

\* The JDBC collector.
LEMMA JdbcStep ==
  ASSUME IInv, JdbcCollect, UNCHANGED <<httpVars, redisVars>>
  PROVE  IInv'
<1> UNCHANGED <<answer, node>> /\ {} \subseteq Resources /\ {"ssh"} \subseteq Resources
    /\ {"db"} \subseteq Resources /\ {"listener"} \subseteq Resources /\ {"listener", "ssh"} \subseteq Resources
  BY Zenon DEF httpVars, redisVars, Resources
<1> USE DEF At
<1>1. CASE JdbcStart
  <2>1. ~Returned /\ metrics.protocol = "jdbc" /\ pc = "collect"
    BY <1>1, Zenon DEF JdbcStart, Returned
  <2>2. CASE Panic
    BY <2>1, <2>2, Panics, Zenon
  <2>3. CASE Fail({}, "unConnectable")
    BY <2>1, <2>3, Fails DEF Holds
  <2>4. CASE metrics.present /\ (Go("url") \/ Go("tunnelDial"))
    BY <2>1, <2>4, Goes DEF Holds, Comes, Working, Common
  <2> QED
    BY <1>1, <2>2, <2>3, <2>4, Zenon DEF JdbcStart
<1>2. CASE startSSHTunnel
  <2>1. Working /\ metrics.protocol = "jdbc" /\ pc \in {"tunnelDial", "tunnelHandshake", "listen"}
    BY <1>2, Zenon DEF startSSHTunnel, Listen, Working, Returned, IInv, Earned
  <2>2. CASE pc = "tunnelDial" /\ Fail({}, "unConnectable")
    BY <2>1, <2>2, Fails DEF Holds, Working
  <2>3. CASE pc = "tunnelDial" /\ Opens({"ssh"}, "tunnelHandshake")
    BY <2>1, <2>3, Opened DEF Holds, Comes, Common
  <2>4. CASE pc \in {"tunnelHandshake", "listen"} /\ Fail({"ssh"}, "unConnectable")
    BY <2>1, <2>4, Fails DEF Holds, Working
  <2>5. CASE pc = "tunnelHandshake" /\ Go("listen")
    BY <2>1, <2>5, Goes DEF Holds, Comes, Common
  <2>6. CASE pc = "listen" /\ OpensDeferred({"listener"}, {"listener", "ssh"}, "url")
    BY <2>1, <2>6, OpenedDeferred DEF Holds, Comes, Common
  <2> QED
    BY <1>2, <2>2, <2>3, <2>4, <2>5, <2>6, Zenon DEF startSSHTunnel, Listen
<1>3. CASE constructDatabaseURL
  <2>1. Working /\ metrics.protocol = "jdbc" /\ pc = "url"
    BY <1>3, Zenon DEF constructDatabaseURL, Working, Returned, IInv, Earned
  <2>2. CASE Fail({}, "fail")
    BY <2>1, <2>2, Fails DEF Holds, Working
  <2>3. CASE Go("open")
    BY <2>1, <2>3, Goes DEF Holds, Comes, Common
  <2> QED
    BY <1>3, <2>2, <2>3, Zenon DEF constructDatabaseURL
<1>4. CASE Dial
  <2>1. Working /\ metrics.protocol = "jdbc" /\ pc \in {"ping", "query"} /\ Go(pc)
    BY <1>4, Zenon DEF Dial, Working, Returned, IInv, Earned, Go, collectVars
  <2> QED
    BY <2>1, Goes DEF Holds, Comes, Common
<1>5. CASE getConnection
  <2>1. Working /\ metrics.protocol = "jdbc" /\ pc \in {"open", "ping"}
    BY <1>5, Zenon DEF getConnection, Working, Returned, IInv, Earned
  <2>2. CASE pc = "open" /\ Fail({}, "unConnectable")
    BY <2>1, <2>2, Fails DEF Holds, Working
  <2>3. CASE pc = "open" /\ Opens({"db"}, "ping")
    BY <2>1, <2>3, Opened DEF Holds, Comes, Common
  <2>4. CASE pc = "ping" /\ Fail({"db"}, "unConnectable")
    BY <2>1, <2>4, Fails DEF Holds, Working
  <2>5. CASE pc = "ping" /\ OpensDeferred({}, {"db"}, "query")
    BY <2>1, <2>5, OpenedDeferred DEF Holds, Comes, Common
  <2> QED
    BY <1>5, <2>2, <2>3, <2>4, <2>5, Zenon DEF getConnection
<1>6. CASE Query
  <2>1. Working /\ metrics.protocol = "jdbc" /\ pc = "query" /\ Record(answer)
    BY <1>6, Zenon DEF Query, Working, Returned, IInv, Earned, Typed
  <2>2. CASE Fail({}, "fail") \/ Fail({}, "unReachable")
    BY <2>1, <2>2, Fails DEF Holds, Working
  <2>3. CASE /\ queried.ok
             /\ Return({}, "success", queried.fields, addResponseTime(queried.rows, alias))
    BY <2>1, <2>3, Returns DEF Holds, Working
  <2> QED
    BY <1>6, <2>2, <2>3, Zenon DEF Query
<1> QED
  BY <1>1, <1>2, <1>3, <1>4, <1>5, <1>6, Zenon DEF JdbcCollect

\* The HTTP collector.
LEMMA HttpStep ==
  ASSUME IInv, HttpCollect, UNCHANGED redisVars
  PROVE  IInv'
<1> UNCHANGED node /\ {} \subseteq Resources /\ {"http"} \subseteq Resources
  BY Zenon DEF redisVars, Resources
<1> Record(answer)
  BY Zenon DEF IInv, Typed
<1> USE DEF At
<1>1. CASE createRequest
  <2>1. ~Returned /\ metrics.protocol = "http" /\ pc = "collect" /\ UNCHANGED answer
    BY <1>1, Zenon DEF createRequest, Returned, httpVars
  <2>2. CASE Panic
    BY <2>1, <2>2, Panics, Zenon
  <2>3. CASE Fail({}, "fail")
    BY <2>1, <2>3, Fails DEF Holds
  <2>4. CASE metrics.present /\ Go("do")
    BY <2>1, <2>4, Goes DEF Holds, Comes, Working, Common
  <2> QED
    BY <1>1, <2>2, <2>3, <2>4, Zenon DEF createRequest
<1>2. CASE Do
  <2>1. Working /\ metrics.protocol = "http" /\ pc \in {"do", "retry"}
    BY <1>2, Zenon DEF Do, Working, Returned, IInv, Earned
  <2>2. CASE Fail({"http"}, "unReachable") /\ UNCHANGED answer
    BY <2>1, <2>2, Fails DEF Holds, Working
  <2>3. ASSUME NEW p \in {"answered", "read"}, NEW status, NEW challenge,
               Answers(status, challenge), Opens({"http"}, p)
        PROVE  IInv'
    <3>1. Record(answer') /\ answer'.body = "open"
      BY <2>3, Zenon DEF Answers, Record
    <3>2. /\ Deferred' = {} \cup Deferred /\ {} \in SUBSET Resources /\ p \notin Common
          /\ defers' \in Seq(SUBSET Resources)
      BY <2>3, Zenon DEF Opens, Deferred, Common, IInv, Typed
    <3>3. Comes(p, answer') /\ \A x : x \in {"http"} \/ Holds(pc, x) => x \in {} \/ Holds(p, x)
      BY <2>1, <3>1 DEF Comes, Holds
    <3> QED
      BY <2>1, <2>3, <3>1, <3>2, <3>3, GoesOn, Zenon DEF Opens
  <2> QED
    BY <1>2, <2>2, <2>3, Zenon DEF Do
<1>3. CASE handleDigestAuth
  <2>1. Working /\ metrics.protocol = "http" /\ pc = "answered" /\ answer.body = "open"
    BY <1>3, Zenon DEF handleDigestAuth, Working, Returned, IInv, Earned, Path, Comes
  <2>2. PICK p \in {"retry", "read"} :
          /\ Go(p)
          /\ \/ UNCHANGED answer
             \/ answer.status = 401 /\ answer' = [answer EXCEPT !.body = "closed"]
    BY <1>3, Zenon DEF handleDigestAuth
  <2>3. Record(answer') /\ Comes(p, answer')
    BY <2>1, <2>2 DEF Record, Comes
  <2>4. p \notin Common /\ \A x : Holds(pc, x) => Holds(p, x)
    BY <2>1, Zenon DEF Common, Holds
  <2> QED
    BY <2>1, <2>2, <2>3, <2>4, GoesAnswered, Zenon
<1>4. CASE ReadAll
  <2>1. /\ Working /\ metrics.protocol = "http" /\ pc = "read"
        /\ answer.body = "open" \/ (answer.body = "closed" /\ answer.status = 401)
    BY <1>4, Zenon DEF ReadAll, Working, Returned, IInv, Earned, Path, Comes
  <2>2. CASE /\ Go("parse")
             /\ \/ answer' = [answer EXCEPT !.body = "read"]
                \/ answer.body = "closed" /\ metrics.empty /\ UNCHANGED answer
    <3>1. Record(answer') /\ Comes("parse", answer')
      BY <2>1, <2>2 DEF Record, Comes, HasBody
    <3>2. "parse" \notin Common /\ \A x : Holds(pc, x) => Holds("parse", x)
      BY <2>1 DEF Common, Holds
    <3> QED
      BY <2>1, <2>2, <3>1, <3>2, GoesAnswered, Zenon
  <2>3. CASE Fail({"http"}, "fail") /\ answer' = [answer EXCEPT !.body = "closed"]
    <3>1. Record(answer')
      BY <2>3 DEF Record
    <3> QED
      BY <2>1, <2>3, <3>1, Returns DEF Fail, Holds, Working
  <2>4. CASE answer.body = "closed" /\ Fail({}, "fail") /\ UNCHANGED answer
    BY <2>1, <2>4, Fails DEF Holds, Leaves, Working
  <2> QED
    BY <1>4, <2>2, <2>3, <2>4, Zenon DEF ReadAll
<1>5. CASE parseResponse
  <2>1. /\ Working /\ metrics.protocol = "http" /\ pc = "parse" /\ UNCHANGED answer
        /\ HasBody(answer) /\ (answer.body = "closed" => answer.status = 401)
    BY <1>5, Zenon DEF parseResponse, Working, Returned, IInv, Earned, Path, Comes, httpVars
  <2>2. CASE Fail({}, "fail")
    BY <2>1, <2>2, Fails DEF Holds, Leaves, Working, HasBody
  <2>3. ASSUME NEW rows, Return({}, "success", alias, fillCommonFields(rows, alias, answer.status))
        PROVE  IInv'
    <3>1. \A x : Holds(pc, x) => x \in {} \/ Leaves(pc, answer', x)
      BY <2>1, Zenon DEF Holds, Leaves, HasBody
    <3>2. HasBody(answer') /\ metrics.present /\ ~Returned
      BY <2>1, Zenon DEF Working
    <3> QED
      BY <2>1, <2>3, <3>1, <3>2, Returns
  <2> QED
    BY <1>5, <2>2, <2>3, Zenon DEF parseResponse
<1> QED
  BY <1>1, <1>2, <1>3, <1>4, <1>5, Zenon DEF HttpCollect

\* The Milvus collector.
LEMMA MilvusStep ==
  ASSUME IInv, MilvusCollect, UNCHANGED <<httpVars, redisVars>>
  PROVE  IInv'
<1> UNCHANGED <<answer, node>> /\ {} \subseteq Resources /\ {"milvus"} \subseteq Resources
  BY Zenon DEF httpVars, redisVars, Resources
<1> Record(answer)
  BY Zenon DEF IInv, Typed
<1> USE DEF At
<1>1. CASE At("milvus", "collect")
  <2>1. ~Returned /\ metrics.protocol = "milvus" /\ pc = "collect"
    BY <1>1, Zenon DEF Returned
  <2>2. CASE Panic
    BY <2>1, <2>2, Panics, Zenon
  <2>3. CASE Fail({}, "unConnectable")
    BY <2>1, <2>3, Fails DEF Holds
  <2>4. CASE metrics.present /\ OpensDeferred({"milvus"}, {"milvus"}, "version")
    BY <2>1, <2>4, OpenedDeferred DEF Holds, Comes, Common, Working
  <2> QED
    BY <1>1, <2>2, <2>3, <2>4 DEF MilvusCollect
<1>2. CASE At("milvus", "version")
  <2>1. Working /\ metrics.protocol = "milvus" /\ pc = "version"
    BY <1>2, Zenon DEF Working, Returned, IInv, Earned
  <2>2. CASE Fail({}, "fail")
    BY <2>1, <2>2, Fails DEF Holds, Working
  <2>3. ASSUME NEW rows, Return({}, "success", <<>>, rows) PROVE IInv'
    BY <2>1, <2>3, Returns DEF Holds, Working
  <2> QED
    BY <1>2, <2>2, <2>3, Zenon DEF MilvusCollect
<1> QED
  BY <1>1, <1>2, Zenon DEF MilvusCollect

-----------------------------------------------------------------------------
(***************************************************************************)
(* The Redis collector: the clients of the nodes are closed by the one     *)
(* deferred close, and a row is a node's answer.                           *)
(***************************************************************************)

\* The collector starts nodes that were not asked, or none.
LEMMA RedisGoes ==
  ASSUME IInv, metrics.protocol = "redis", pc \notin Common, NEW p \in {"slaves", "wait", "ask"}, Go(p),
         NEW some, Started(some) \/ UNCHANGED node,
         \A n \in some \cap Nodes : node[n] = "none",
         p = "slaves" => \A n \in Slaves : node'[n] = "none",
         UNCHANGED answer
  PROVE  IInv'
<1>1. node' \in [Nodes -> {"none", "dial", "handshake", "target", "info", "cluster"} \cup NodeEnds]
  BY Zenon DEF IInv, Typed, Started
<1>2. Typed' /\ p \notin Common /\ ~Returned'
  BY <1>1, Zenon DEF Go, IInv, Typed, Common, Returned
<1>3. Deferred' = Deferred /\ Nodes \subseteq Deferred
  BY Zenon DEF Go, Deferred, IInv, Path
<1>4. ~Returned /\ pc \notin {"start", "collect", "panic"}
  BY Zenon DEF Common, Returned
<1>5. Covered'
  BY <1>2, <1>3, <1>4 DEF IInv, Covered, Go, Holds
<1>6. Path'
  BY <1>2, <1>3 DEF Path, Comes, Go, Common
<1>7. HasRow => HasRow'
  BY Zenon DEF HasRow, Started
<1>8. Earned'
  BY <1>2, <1>4, <1>7 DEF IInv, Earned, Go, Returned
<1> QED
  BY <1>2, <1>5, <1>6, <1>8, Zenon DEF IInv

\* The answers are in.
LEMMA RedisFinish ==
  ASSUME IInv, metrics.protocol = "redis", pc \notin Common, Finish, UNCHANGED answer
  PROVE  IInv'
<1>1. ~Returned /\ Returned' /\ pc \notin {"start", "collect", "panic"}
  BY Zenon DEF Common, Returned, Finish
<1>2. Typed /\ response'.rows = response.rows /\ response'.code \in {response.code, "fail"}
      /\ Formed(response')
      /\ (response.rows = <<>> => response'.code = "fail")
  BY Zenon DEF IInv, Typed, Finish, Formed, Response
<1>3. Typed'
  BY <1>2, Zenon DEF Typed, Finish
<1>4. Deferred' = Deferred
  BY Zenon DEF Finish, Deferred
<1>5. Covered'
  BY <1>1, <1>4 DEF IInv, Covered, Finish, Holds
<1>6. Path'
  BY Zenon DEF IInv, Path, Comes, Finish, Joined, Common
<1>7. HasRow' <=> HasRow
  BY Zenon DEF HasRow, Finish
<1>8. response.rows # <<>> => HasRow /\ response'.code = "success"
  BY <1>1, Zenon DEF IInv, Earned, Finish
<1>9. Earned'
  BY <1>1, <1>2, <1>7, <1>8 DEF IInv, Earned, Finish
<1> QED
  BY <1>3, <1>5, <1>6, <1>9, Zenon DEF IInv

\* The Redis collector.
LEMMA RedisStep ==
  ASSUME IInv, RedisCollect, UNCHANGED httpVars
  PROVE  IInv'
<1> UNCHANGED answer /\ metrics.protocol = "redis"
  BY Zenon DEF httpVars, RedisCollect, createRedisDialer, collectCluster, collectSingle, At
<1>1. CASE pc = "collect"
  <2>1. CASE Panic /\ UNCHANGED node
    BY <1>1, <2>1, Panics, Zenon
  <2>2. CASE Return({}, "unConnectable", alias, <<>>) /\ UNCHANGED node
    <3> USE DEF Return
    <3>1. /\ response' = Response("unConnectable", alias, <<>>, pc)
          /\ response'.code = "unConnectable" /\ response'.rows = <<>>
      BY <2>2, Zenon DEF Formed, Response
    <3>2. Typed'
      BY <2>2, <3>1, Zenon DEF IInv, Typed, Formed, Response
    <3>3. ~Returned /\ Returned' /\ Deferred' = Deferred
      BY <1>1, <2>2, Zenon DEF Returned, Deferred
    <3>4. Covered'
      BY <1>1, <2>2, <3>3 DEF IInv, Covered, Holds
    <3>5. Path'
      BY <1>1, <2>2, Zenon DEF IInv, Path, Comes, Common
    <3>6. Earned'
      BY <2>2, <3>1, <3>3 DEF Earned
    <3> QED
      BY <3>2, <3>4, <3>5, <3>6, Zenon DEF IInv
  <2>3. CASE /\ metrics.present
             /\ pc' = IF metrics.parse = "cluster" THEN "masters" ELSE "single"
             /\ response' = Response("success", alias, <<>>, pc)
             /\ defers' = <<Nodes>>
             /\ UNCHANGED <<metrics, open, node>>
    <3>1. response'.code = "success" /\ response'.rows = <<>>
          /\ Formed(response')
      BY <2>3, Zenon DEF Formed, Response
    <3>2. defers' \in Seq(SUBSET Resources) /\ defers'[1] = Nodes /\ 1 \in DOMAIN defers'
      BY <2>3 DEF Resources
    <3>3. Nodes \subseteq Deferred'
      BY <3>2, Zenon DEF Deferred
    <3>4. Typed'
      BY <2>3, <3>1, <3>2 DEF IInv, Typed
    <3>5. pc' \notin Common /\ ~Returned /\ ~Returned' /\ pc' \in {"masters", "single"}
      BY <1>1, <2>3, Zenon DEF Common, Returned
    <3>6. open = {}
      BY <1>1, <3>5, NoneDeferred DEF IInv, Path, Covered, Holds
    <3>7. Covered' /\ Path'
      BY <1>1, <2>3, <3>3, <3>5, <3>6 DEF Covered, IInv, Path, Comes
    <3>8. Earned'
      BY <2>3, <3>1, <3>5 DEF Earned
    <3> QED
      BY <3>4, <3>7, <3>8, Zenon DEF IInv
  <2> QED
    BY <1>1, <2>1, <2>2, <2>3 DEF RedisCollect, createRedisDialer, collectCluster, collectSingle, At
<1>2. CASE collectCluster
  <2>1. CASE pc = "masters" /\ (Started(Masters) \/ UNCHANGED node) /\ Go("slaves")
    <3>1. /\ pc \notin Common /\ \A n \in Nodes : node[n] = "none"
          /\ Masters \subseteq Nodes /\ Slaves \subseteq Nodes
      BY <2>1, Zenon DEF Common, IInv, Path, Nodes
    <3>2. \A n \in Slaves : node'[n] = "none"
      BY <2>1, <3>1, NodesAssumption DEF Started
    <3> QED
      BY <2>1, <3>1, <3>2, RedisGoes
  <2>2. CASE pc = "slaves" /\ (Started(Slaves) \/ UNCHANGED node) /\ Go("wait")
    <3>1. pc \notin Common /\ \A n \in Slaves : node[n] = "none"
      BY <2>2, Zenon DEF Common, IInv, Path
    <3> QED
      BY <2>2, <3>1, RedisGoes
  <2>3. CASE pc = "wait" /\ Finish
    BY <2>3, RedisFinish, Zenon DEF Common
  <2> QED
    BY <1>2, <2>1, <2>2, <2>3, Zenon DEF collectCluster, At
<1>3. CASE collectSingle
  <2>1. CASE pc = "single" /\ Started({CHOOSE n \in Masters : TRUE}) /\ Go("ask")
    <3>1. pc \notin Common /\ \A n \in Nodes : node[n] = "none"
      BY <2>1, Zenon DEF Common, IInv, Path
    <3> QED
      BY <2>1, <3>1, RedisGoes
  <2>2. CASE pc = "ask" /\ Finish
    BY <2>2, RedisFinish, Zenon DEF Common
  <2> QED
    BY <1>3, <2>1, <2>2, Zenon DEF collectSingle, At
<1> QED
  BY <1>1, <1>2, <1>3, Zenon DEF RedisCollect, createRedisDialer, At

\* A node moves on.  It is at work, so the collector waits for it and has deferred
\* closing its client; if it adds a row, it ends with it.
LEMMA NodeMoves ==
  ASSUME IInv, NEW n \in Nodes, node[n] \notin {"none"} \cup NodeEnds,
         NEW p \in {"handshake", "target", "info", "cluster"} \cup NodeEnds, Moves(n, p),
         open' \subseteq open \cup {n}, UNCHANGED <<metrics, pc, defers, answer>>,
         \/ UNCHANGED response
         \/ p \in {"row", "both"} /\ \E rows : response' = [response EXCEPT !.rows = rows]
  PROVE  IInv'
<1>1. /\ metrics.protocol = "redis" /\ pc \in {"slaves", "wait", "ask"}
      /\ pc = "slaves" => \A m \in Slaves : node[m] = "none"
      /\ node \in [Nodes -> {"none", "dial", "handshake", "target", "info", "cluster"} \cup NodeEnds]
  BY Zenon DEF IInv, Path, Typed
<1>2. /\ node' \in [Nodes -> {"none", "dial", "handshake", "target", "info", "cluster"} \cup NodeEnds]
      /\ node'[n] = p /\ \A m \in Nodes \ {n} : node'[m] = node[m]
  BY <1>1, Zenon DEF Moves
<1>3. ~Returned /\ ~Returned' /\ pc \notin Common /\ Nodes \subseteq Deferred /\ Deferred' = Deferred
  BY <1>1 DEF Returned, Common, IInv, Path, Deferred
<1>4. /\ Formed(response')
      /\ response'.code = response.code
  BY Zenon DEF IInv, Typed, Formed, Response
<1>5. Typed'
  BY <1>2, <1>4, Zenon DEF IInv, Typed, Resources
<1>6. Covered'
  BY <1>1, <1>3, Zenon DEF IInv, Covered, Holds
<1>7. \A m \in Slaves : pc = "slaves" => node'[m] = "none"
  BY <1>1, <1>2, Zenon DEF Nodes
<1>8. Path'
  BY <1>1, <1>2, <1>3, <1>7, Zenon DEF Path, Comes, Common
<1>9. HasRow => HasRow'
  BY <1>2, Zenon DEF HasRow, NodeEnds
<1>10. response' = response \/ HasRow'
  BY <1>2, Zenon DEF HasRow
<1>11. Earned'
  BY <1>1, <1>3, <1>4, <1>9, <1>10, Zenon DEF IInv, Earned
<1> QED
  BY <1>5, <1>6, <1>8, <1>11, Zenon DEF IInv

\* The steps of a node: its dialer, and the questions it asks.
LEMMA NodesStep ==
  ASSUME IInv, NEW n \in Nodes, NodeStep(n)
  PROVE  IInv'
<1> UNCHANGED answer /\ Node(n)
  BY Zenon DEF NodeStep, httpVars
<1>1. CASE Dialer(n)
  <2>1. node[n] \notin {"none"} \cup NodeEnds /\ UNCHANGED <<metrics, pc, defers, response>>
    BY <1>1, Zenon DEF Dialer, NodeEnds, Keeps
  <2>2. PICK p \in {"handshake", "target", "info", "failed"} : Moves(n, p)
    BY <1>1, Zenon DEF Dialer
  <2>3. open' \subseteq open \cup {n}
    BY <1>1, Zenon DEF Dialer
  <2> QED
    BY <2>1, <2>2, <2>3, NodeMoves DEF NodeEnds
<1>2. CASE collectNode(n)
  <2>1. node[n] \notin {"none"} \cup NodeEnds
    BY <1>2, Zenon DEF collectNode, NodeEnds
  <2>2. ASSUME NEW p \in {"cluster", "failed"}, Moves(n, p), UNCHANGED collectVars PROVE IInv'
    BY <2>1, <2>2, NodeMoves DEF NodeEnds, collectVars
  <2>3. ASSUME NEW info, NEW end \in {"row", "both"}, AddRow(n, info, end) PROVE IInv'
    <3>1. /\ \E rows : response' = [response EXCEPT !.rows = rows]
          /\ Moves(n, end) /\ UNCHANGED <<metrics, pc, open, defers>>
      BY <2>3, Zenon DEF AddRow
    <3> QED
      BY <2>1, <2>3, <3>1, NodeMoves, Zenon DEF NodeEnds
  <2> QED
    BY <1>2, <2>2, <2>3, Zenon DEF collectNode
<1> QED
  BY <1>1, <1>2, Zenon DEF Node

-----------------------------------------------------------------------------
\* The deferred closes run.
LEMMA UnwindStep ==
  ASSUME IInv, Unwind, UNCHANGED <<httpVars, redisVars>>
  PROVE  IInv'
<1> USE DEF Unwind, httpVars, redisVars
<1>1. defers' \in Seq(SUBSET Resources) /\ Deferred \subseteq Head(defers) \cup Deferred'
  BY Runs, Zenon DEF IInv
<1>2. Typed'
  BY <1>1, Zenon DEF IInv, Typed
<1>3. Covered'
  BY <1>1 DEF IInv, Covered, Leaves, Returned
<1>4. Path'
  BY Zenon DEF IInv, Path, Comes, Common
<1>5. Earned'
  BY Zenon DEF IInv, Earned, Returned, HasRow, HasBody, queried, alias, Common
<1> QED
  BY <1>2, <1>3, <1>4, <1>5, Zenon DEF IInv

\* Before Collect nothing is open and nothing is deferred.
LEMMA StartStep ==
  ASSUME IInv, CollectorFor
  PROVE  IInv'
<1>1. UNCHANGED <<answer, node, metrics, open, defers>> /\ pc = "start" /\ ~Returned
      /\ open = {} /\ queried' = queried /\ HasRow' = HasRow
  BY NoneDeferred, Zenon DEF CollectorFor, httpVars, redisVars, Go, Returned, IInv, Path, Covered, Holds,
     queried, alias, HasRow
<1>2. CASE Go("collect")
  <2>1. Typed' /\ Covered'
    BY <1>1, <1>2, Zenon DEF IInv, Typed, Covered, Go
  <2>2. Path'
    BY <1>1, <1>2, ZenonT(40) DEF IInv, Path, Comes, Go, Common
  <2>3. Earned'
    BY <1>1, <1>2, Zenon DEF IInv, Earned, Go, Returned, Common
  <2> QED
    BY <2>1, <2>2, <2>3, Zenon DEF IInv
<1>3. CASE response' = Response("unavailable", <<>>, <<>>, pc) /\ pc' = "send"
  <2>1. Typed' /\ Covered'
    BY <1>1, <1>3 DEF IInv, Typed, Covered, Formed, Response
  <2>2. Path'
    BY <1>1, <1>3 DEF IInv, Path, Comes, Common
  <2>3. Earned'
    BY <1>1, <1>3 DEF Earned, Returned, Formed, Response
  <2> QED
    BY <2>1, <2>2, <2>3, Zenon DEF IInv
<1> QED
  BY <1>2, <1>3, Zenon DEF CollectorFor

\* After Collect, only the fields and the rows of a success change.
LEMMA EndStep ==
  ASSUME IInv, Returned, defers = <<>>, pc' \in {"calculate", "send", "done"},
         pc' = "calculate" => response.code = "success",
         UNCHANGED <<metrics, open, defers, answer, node>>,
         Formed(response'), response'.code = response.code, response'.at = response.at,
         response.code # "success" => UNCHANGED response
  PROVE  IInv'
<1>1. Typed'
  BY Zenon DEF IInv, Typed
<1>2. Returned'
  BY Zenon DEF Returned
<1>3. Deferred' = Deferred
  BY DEF Deferred
<1>4. (HasRow' <=> HasRow) /\ queried' = queried
  BY Zenon DEF HasRow, queried, alias
<1>5. Covered'
  BY <1>2, <1>3 DEF IInv, Covered, Leaves
<1>6. Path'
  BY ZenonT(40) DEF IInv, Path, Comes, Common, Returned
<1>7. Earned'
  BY <1>2, <1>4 DEF IInv, Earned, HasBody
<1> QED
  BY <1>1, <1>5, <1>6, <1>7, Zenon DEF IInv

\* Such are the steps of CalculateFields.
LEMMA CalculateStep ==
  ASSUME IInv, Calculate
  PROVE  IInv'
<1> UNCHANGED <<metrics, open, defers, answer, node>>
  BY Zenon DEF Calculate, BeginCalculate, CalculateField, CalculateRow, httpVars, redisVars, collectVars
<1>1. Returned /\ defers = <<>> /\ (pc = "calculate" => response.code = "success")
  BY Zenon DEF Calculate, BeginCalculate, CalculateField, CalculateRow, Returned, IInv, Path, Earned
<1>2. pc' \in {"calculate", "send"} /\ (pc' = "calculate" => response.code = "success")
  BY <1>1, Zenon DEF Calculate, BeginCalculate, CalculateField, CalculateRow, Calculated, collectVars
<1>3. \/ UNCHANGED response
      \/ \E fields, rows : response' = [response EXCEPT !.fields = fields, !.rows = rows]
  BY Zenon DEF Calculate, BeginCalculate, CalculateField, CalculateRow, Calculated, collectVars
<1>4. response.code = "success" \/ UNCHANGED response
  BY <1>1, Zenon DEF Calculate, BeginCalculate, CalculateField, CalculateRow, Calculated, collectVars
<1>5. Formed(response') /\ response'.code = response.code /\ response'.at = response.at
  BY <1>3, Zenon DEF IInv, Typed, Formed, Response
<1> QED
  BY <1>1, <1>2, <1>4, <1>5, EndStep, Zenon

\* Every step keeps the invariant.
LEMMA Invariance == IInv /\ [Next]_vars => IInv'
<1> SUFFICES ASSUME IInv, [Next]_vars PROVE IInv'
  BY Zenon
<1>1. CASE Collecting
  BY <1>1, SshStep, MilvusStep, UnwindStep, HttpStep, JdbcStep, RedisStep, Zenon DEF Collecting
<1>2. CASE SendResult
  <2>1. Returned /\ defers = <<>> /\ UNCHANGED <<answer, node>> /\ Go("done") /\ Formed(response)
    BY <1>2, Zenon DEF SendResult, Returned, IInv, Path, Typed, httpVars, redisVars
  <2> QED
    BY <2>1, EndStep DEF Go
<1>3. CASE UNCHANGED <<collectVars, httpVars, redisVars>>
  <2> USE <1>3 DEF collectVars, httpVars, redisVars
  <2>1. Typed' /\ Covered'
    BY DEF IInv, Typed, Covered, Deferred, Returned, Leaves, Holds
  <2>2. Path'
    <3>1. Comes(pc, answer)'
      <4>1. Comes(pc, answer)
        BY Zenon DEF IInv, Path
      <4> QED
        BY <4>1, Zenon DEF Comes, HasBody
    <3> QED
      BY <3>1, Zenon DEF IInv, Path, Deferred
  <2>3. queried' = queried
    BY Zenon DEF queried, alias
  <2>4. Earned'
    BY <2>3, Zenon DEF IInv, Earned, Returned, HasRow, HasBody
  <2> QED
    BY <2>1, <2>2, <2>4, Zenon DEF IInv
<1>4. CASE TunnelStep(Tunnel) \/ UNCHANGED vars
  BY <1>3, <1>4, Zenon DEF TunnelStep, Tunnel, runForwarder, ForwardDial, forwardConnection, vars
<1> QED
  BY <1>1, <1>2, <1>4, StartStep, CalculateStep, NodesStep, Zenon DEF Next

\* IInv is an invariant of every collection, whatever metrics it starts from.
THEOREM CollectInvariant == ASSUME NEW some PROVE Spec(some) => []IInv
<1>1. Init(some) => IInv
  <2> SUFFICES ASSUME Init(some) PROVE IInv
    BY Zenon
  <2> USE DEF Init, CollectInit, HttpInit, RedisInit
  <2>1. /\ Formed(response)
        /\ response.code = "" /\ response.rows = <<>>
    BY Zenon DEF NoResponse, Formed, Response
  <2>2. Record(answer)
    BY Zenon DEF NoAnswer, Record
  <2>3. open \subseteq Resources /\ defers \in Seq(SUBSET Resources)
    OBVIOUS
  <2>4. node \in [Nodes -> {"none", "dial", "handshake", "target", "info", "cluster"} \cup NodeEnds]
    BY Zenon
  <2>5. Covered /\ Path
    BY Zenon DEF Covered, Path, Comes, Common
  <2>6. Earned
    BY <2>1, Zenon DEF Earned, Returned, Common
  <2> QED
    BY <2>1, <2>2, <2>3, <2>4, <2>5, <2>6, Zenon DEF IInv, Typed
<1> QED
  BY <1>1, Invariance, PTL DEF Spec

\* A collection that has ended has closed what it opened, whatever step failed, but for
\* the pooled HTTP connection and the connection to the SSH proxy.
THEOREM NothingLeftOpenHolds == ASSUME NEW some PROVE Spec(some) => []NothingLeftOpen
<1>1. IInv => NothingLeftOpen
  <2> SUFFICES ASSUME IInv, Ended PROVE NothingLeftOpen
    BY Zenon DEF NothingLeftOpen
  <2>1. defers = <<>> /\ Returned
    BY Zenon DEF Ended, IInv, Path, Returned
  <2>2. \A x \in open : Leaves(response.at, answer, x)
    BY <2>1, NoneDeferred DEF IInv, Covered
  <2> QED
    BY <2>2 DEF NothingLeftOpen, Leaves
<1> QED
  BY <1>1, CollectInvariant, PTL

\* A success means that the target answered the last question, and an error has no rows.
THEOREM SuccessIsAnsweredHolds == ASSUME NEW some PROVE Spec(some) => []SuccessIsAnswered
<1>1. IInv => SuccessIsAnswered
  <2> SUFFICES ASSUME IInv, Ended PROVE SuccessIsAnswered
    BY Zenon DEF SuccessIsAnswered
  <2>1. defers = <<>> /\ Returned
    BY Zenon DEF Ended, IInv, Path, Returned
  <2>2. metrics.protocol = "jdbc" => "db" \notin open
    BY <2>1, NoneDeferred, Zenon DEF IInv, Covered, Leaves
  <2> QED
    BY <2>1, <2>2 DEF SuccessIsAnswered, IInv, Earned, HasRow, HasBody
<1> QED
  BY <1>1, CollectInvariant, PTL

-----------------------------------------------------------------------------
(***************************************************************************)
(* TellsTheTruth, for every target that lays its data out as LaidOut says. *)
(* While the rows of a collector are on their way to the record, every one *)
(* of them is of a row of the target's data: of the same one, or, where    *)
(* nodes of a cluster or families of a Prometheus text come in any order,  *)
(* of the one that f names.                                                *)
(***************************************************************************)

\* Row r of the target's data as a row of the collector.
Cells(r) == [i \in DOMAIN alias |-> Known(r, alias[i])]

Orders == Matches(DOMAIN response.rows)

\* The rows are those of the target's data.
Gathered(f) == response.rows = [q \in DOMAIN f |-> Cells(f[q])]

\* What field i may say in row r, the fields of a row so far, and what the scripts of the
\* others see.
Fits(r, row, i, w) == Misread(r, row, i) \/ Says(r, row, i, w)
SoFar(r, row) ==
  /\ IsSeq(row) /\ Len(row) <= Len(metrics.fields)
  /\ \A i \in 1 .. Len(row) : Fits(r, row, i, row[i])
Seen(r, row) ==
  [x \in Range(alias) \cup {metrics.fields[j].name : j \in 1 .. Len(row)} |->
     inContext(StandsFor(r, row, Len(row) + 1, x))]

\* CalculateFields at work: rows that are made, and one in the making.
Making(f) ==
  /\ IsSeq(partial.rows) /\ Len(partial.rows) + 1 \in DOMAIN f
  /\ \A q \in 1 .. Len(partial.rows) : Tells(f[q], partial.rows[q])
  /\ SoFar(f[Len(partial.rows) + 1], partial.row)
  /\ partial.context = Seen(f[Len(partial.rows) + 1], partial.row)

\* The rows with their fields.
Made(f) ==
  /\ response.fields = fieldNames(metrics)
  /\ DOMAIN response.rows = DOMAIN f
  /\ \A q \in DOMAIN f : Tells(f[q], response.rows[q])

Shows(f) ==
  /\ pc \notin {"send", "done"} => Gathered(f)
  /\ pc = "calculate" => Making(f)
  /\ pc \in {"send", "done"} => Made(f)
  /\ pc = "done" => record = createArrowRecordBatch(response.fields, response.rows)

Truth ==
  /\ LaidOut(metrics)
  /\ response.code = "success" /\ alias # <<>> => IsSeq(response.rows) /\ \E f \in Orders : Shows(f)

-----------------------------------------------------------------------------
\* What a sequence is, whatever its elements are.
LEMMA SeqFacts == ASSUME NEW s, IsSeq(s) PROVE Len(s) \in Nat /\ DOMAIN s = 1 .. Len(s)
  BY DEF IsSeq

\* Appending to a sequence.
LEMMA SeqAppend ==
  ASSUME NEW s, IsSeq(s), NEW v
  PROVE  /\ IsSeq(Append(s, v)) /\ Len(Append(s, v)) = Len(s) + 1
         /\ DOMAIN Append(s, v) = 1 .. Len(s) + 1
         /\ Append(s, v)[Len(s) + 1] = v /\ \A i \in 1 .. Len(s) : Append(s, v)[i] = s[i]
<1>1. s \in Seq(Range(s) \cup {v}) /\ v \in Range(s) \cup {v}
  BY DEF IsSeq
<1>2. /\ Append(s, v) \in Seq(Range(s) \cup {v}) /\ Len(Append(s, v)) = Len(s) + 1
      /\ DOMAIN Append(s, v) = 1 .. Len(s) + 1 /\ Len(s) \in Nat
      /\ Append(s, v)[Len(s) + 1] = v /\ \A i \in 1 .. Len(s) : Append(s, v)[i] = s[i]
  BY <1>1
<1>3. \A i \in 1 .. Len(s) + 1 : Append(s, v)[i] \in Range(Append(s, v))
  BY <1>2, Zenon DEF Range
<1>4. Append(s, v) \in Seq(Range(Append(s, v)))
  BY <1>2, <1>3
<1> QED
  BY <1>2, <1>4 DEF IsSeq

\* A function on 1 .. n is one.
LEMMA SeqFunction ==
  ASSUME NEW n \in Nat, NEW s, s = [q \in 1 .. n |-> s[q]]
  PROVE  IsSeq(s) /\ Len(s) = n
<1>1. DOMAIN s = 1 .. n /\ \A q \in 1 .. n : s[q] \in Range(s)
  BY Zenon DEF Range
<1>2. s \in Seq(Range(s))
  BY <1>1
<1> QED
  BY <1>1, <1>2 DEF IsSeq

\* The empty sequence.
LEMMA SeqEmpty == IsSeq(<<>>) /\ DOMAIN <<>> = {} /\ Len(<<>>) = 0
  BY DEF IsSeq

\* Functions are the same when they are everywhere.
LEMMA Same ==
  ASSUME NEW S, NEW f, NEW g, f = [x \in S |-> f[x]], g = [x \in S |-> g[x]], \A x \in S : f[x] = g[x]
  PROVE  f = g
  OBVIOUS

-----------------------------------------------------------------------------
\* Lines: every alias but the response time takes one.
LEMMA LinesTaken ==
  ASSUME NEW a \in Seq(STRING), IsInjective(a), NEW i \in DOMAIN a
  PROVE  Lines(a, i) = IF \E j \in 1 .. i : a[j] = ResponseTime THEN i - 1 ELSE i
<1>1. i \in Nat /\ 1 .. i \subseteq DOMAIN a /\ i >= 1
  OBVIOUS
<1>2. IsFiniteSet(1 .. i) /\ Cardinality(1 .. i) = i
  BY <1>1, FS_Interval
<1>3. CASE \E j \in 1 .. i : a[j] = ResponseTime
  <2>1. PICK j \in 1 .. i : a[j] = ResponseTime
    BY <1>3
  <2>2. {k \in 1 .. i : a[k] # ResponseTime} = (1 .. i) \ {j}
    BY <1>1, <2>1, Zenon DEF IsInjective
  <2>3. Cardinality((1 .. i) \ {j}) = i - 1
    BY <1>2, <2>1, FS_RemoveElement, Zenon
  <2> QED
    BY <1>3, <2>2, <2>3, Zenon DEF Lines
<1>4. CASE ~ \E j \in 1 .. i : a[j] = ResponseTime
  <2>1. {k \in 1 .. i : a[k] # ResponseTime} = 1 .. i
    BY <1>4
  <2> QED
    BY <1>2, <1>4, <2>1, Zenon DEF Lines
<1> QED
  BY <1>3, <1>4

\* What is known, by protocol.
LEMMA KnownPlain ==
  ASSUME metrics.protocol \in {"ssh", "jdbc", "milvus"}, NEW r, NEW x
  PROVE  Known(r, x) = IF x = ResponseTime THEN Millis ELSE Told(metrics.truth[r], x)
  BY DEF Known

\* What a JSON target knows of a name: its own value, or a common field.
LEMMA KnownHttp ==
  ASSUME metrics.protocol = "http", NEW r, NEW x
  PROVE  Known(r, x) = IF x = ResponseTime THEN Millis
                       ELSE IF x = StatusCode THEN Status(answer.status)
                       ELSE Told(metrics.truth[r], x)
  BY DEF Known

\* The rows a parser makes, laid side by side with the target's data.
AllCells == [q \in DOMAIN metrics.truth |-> Cells(q)]

\* A table of one row.
LEMMA OneRow == ASSUME NEW e, NEW T, T = {1}, NEW g, g = [q \in T |-> g[q]], g[1] = e PROVE <<e>> = g
<1>1. <<e>> = [q \in 1 .. 1 |-> e] /\ 1 .. 1 = {1}
  OBVIOUS
<1> QED
  BY <1>1, Same

\* The collectors' parsers give the target's data, laid out as it is.
LEMMA SshParsed ==
  ASSUME LaidOut(metrics), alias # <<>>, metrics.protocol = "ssh"
  PROVE  sshRows = AllCells
<1> DEFINE lines == metrics.lines
           columns == metrics.columns
<1>1. /\ alias \in Seq(STRING) /\ IsInjective(alias) /\ IsSeq(metrics.truth) /\ IsSeq(lines) /\ IsSeq(columns)
      /\ SaysWhatItKnows(metrics)
  BY Zenon DEF LaidOut, alias, Registered
<1>2. /\ Len(metrics.truth) \in Nat /\ DOMAIN metrics.truth = 1 .. Len(metrics.truth)
      /\ Len(lines) \in Nat /\ DOMAIN lines = 1 .. Len(lines)
      /\ Len(columns) \in Nat /\ DOMAIN columns = 1 .. Len(columns)
  BY <1>1, SeqFacts
<1>3. CASE metrics.parse = "oneRow"
  <2>1. LinesLaidOut(metrics)
    BY <1>1, <1>3 DEF SaysWhatItKnows
  <2>2. /\ Len(metrics.truth) = 1 /\ Len(alias) <= Len(lines) + 1
        /\ \A i \in DOMAIN alias : alias[i] # ResponseTime =>
             LET line == IF \E j \in 1 .. i : alias[j] = ResponseTime THEN i - 1 ELSE i
             IN Told(metrics.truth[1], alias[i]) = IF line <= Len(lines) THEN lines[line] ELSE NullValue
    BY <2>1, Zenon DEF LinesLaidOut, alias
  <2> DEFINE row == [i \in DOMAIN alias |->
                       IF alias[i] = ResponseTime THEN Millis
                       ELSE IF Lines(alias, i) <= Len(lines) THEN lines[Lines(alias, i)] ELSE NullValue]
  <2>3. sshRows = <<row>>
    <3>1. sshRows = parseResponseDataByOne(lines, alias)
      BY <1>3, Zenon DEF sshRows
    <3>2. ~(Len(lines) + 1 < Len(alias))
      BY <1>1, <1>2, <2>2
    <3> QED
      BY <3>1, <3>2, SMTT(30) DEF parseResponseDataByOne
  <2>4. row = Cells(1)
    <3>1. ASSUME NEW i \in DOMAIN alias PROVE row[i] = Cells(1)[i]
      <4>1. Lines(alias, i) = IF \E j \in 1 .. i : alias[j] = ResponseTime THEN i - 1 ELSE i
        BY <1>1, LinesTaken
      <4>2. Cells(1)[i] = IF alias[i] = ResponseTime THEN Millis ELSE Told(metrics.truth[1], alias[i])
        BY KnownPlain DEF Cells
      <4> QED
        BY <2>2, <4>1, <4>2
    <3> QED
      BY <3>1, Same DEF Cells
  <2>5. DOMAIN metrics.truth = {1}
    BY <1>2, <2>2
  <2> QED
    BY <2>3, <2>4, <2>5, OneRow DEF AllCells
<1>4. CASE metrics.parse = "multiRow"
  <2>1. TableLaidOut(metrics)
    BY <1>1, <1>4 DEF SaysWhatItKnows
  <2> DEFINE rows == notBlank(lines)
             index(name) == CHOOSE j \in DOMAIN columns :
                              columns[j] = name /\ \A l \in j + 1 .. Len(columns) : columns[l] # name
             cell(r, i) == IF alias[i] = ResponseTime THEN Millis
                           ELSE IF /\ \E j \in DOMAIN columns : columns[j] = alias[i]
                                   /\ index(alias[i]) <= Len(rows[r])
                                  THEN rows[r][index(alias[i])] ELSE NullValue
  <2>2. sshRows = [r \in DOMAIN rows |-> [i \in DOMAIN alias |-> cell(r, i)]]
    BY <1>4, Zenon DEF sshRows, parseResponseDataByMulti
  <2>3. /\ DOMAIN metrics.truth = DOMAIN rows
        /\ \A r \in DOMAIN rows, i \in DOMAIN alias :
             \/ alias[i] = ResponseTime
             \/ \E j \in DOMAIN columns :
                  /\ IsLast(columns, j, alias[i])
                  /\ Told(metrics.truth[r], alias[i]) = IF j <= Len(rows[r]) THEN rows[r][j] ELSE NullValue
             \/ /\ \A j \in DOMAIN columns : columns[j] # alias[i]
                /\ Told(metrics.truth[r], alias[i]) = NullValue
    BY <2>1, Zenon DEF TableLaidOut, alias
  <2>4. ASSUME NEW name, NEW j, IsLast(columns, j, name) PROVE index(name) = j
    <3>1. j \in DOMAIN columns /\ columns[j] = name /\ \A l \in j + 1 .. Len(columns) : columns[l] # name
      BY <1>2, <2>4 DEF IsLast
    <3>2. ASSUME NEW k \in DOMAIN columns, columns[k] = name, \A l \in k + 1 .. Len(columns) : columns[l] # name
          PROVE  k = j
      BY <1>2, <3>1, <3>2
    <3> QED
      BY <3>1, <3>2, Zenon
  <2>5. ASSUME NEW r \in DOMAIN rows, NEW i \in DOMAIN alias PROVE cell(r, i) = Known(r, alias[i])
    <3> HIDE DEF index
    <3> QED
      BY <2>3, <2>4, <2>5, KnownPlain DEF IsLast
  <2>6. ASSUME NEW r \in DOMAIN rows PROVE [i \in DOMAIN alias |-> cell(r, i)] = Cells(r)
    <3> HIDE DEF cell
    <3> QED
      BY <2>5, <2>6, Zenon DEF Cells
  <2> HIDE DEF cell
  <2> QED
    BY <2>2, <2>3, <2>6, Zenon DEF AllCells
<1>5. CASE metrics.parse \notin {"oneRow", "multiRow"}
  <2>1. metrics.truth = <<>>
    BY <1>1, <1>5 DEF SaysWhatItKnows
  <2>2. sshRows = <<>>
    BY <1>5 DEF sshRows
  <2> QED
    BY <2>1, <2>2 DEF AllCells
<1> QED
  BY <1>3, <1>4, <1>5

\* addResponseTime puts the response time in the one place it has.
LEMMA TimeAdded ==
  ASSUME alias \in Seq(STRING), IsInjective(alias), metrics.protocol = "jdbc",
         NEW rows, DOMAIN rows = DOMAIN metrics.truth,
         \A r \in DOMAIN rows :
           /\ DOMAIN rows[r] = DOMAIN alias
           /\ \A i \in DOMAIN alias :
                alias[i] # ResponseTime => rows[r][i] = Told(metrics.truth[r], alias[i])
  PROVE  addResponseTime(rows, alias) = AllCells
<1> DEFINE cell(r, i) ==
             IF /\ i \in DOMAIN alias /\ alias[i] = ResponseTime
                /\ \A j \in 1 .. i - 1 : alias[j] # ResponseTime
               THEN Millis ELSE rows[r][i]
<1>1. addResponseTime(rows, alias) = [r \in DOMAIN rows |-> [i \in DOMAIN rows[r] |-> cell(r, i)]]
  BY Zenon DEF addResponseTime
<1>2. ASSUME NEW r \in DOMAIN rows, NEW i \in DOMAIN alias PROVE cell(r, i) = Known(r, alias[i])
  <2>1. ASSUME alias[i] = ResponseTime, NEW j \in 1 .. i - 1 PROVE alias[j] # ResponseTime
    BY <2>1 DEF IsInjective
  <2> QED
    BY <1>2, <2>1, KnownPlain
<1> HIDE DEF cell
<1>3. ASSUME NEW r \in DOMAIN rows PROVE [i \in DOMAIN rows[r] |-> cell(r, i)] = Cells(r)
  BY <1>2, <1>3, Zenon DEF Cells
<1> QED
  BY <1>1, <1>3, Zenon DEF AllCells

\* A result set with a column for every name.
LEMMA ResultParsed ==
  ASSUME alias \in Seq(STRING), IsInjective(alias), metrics.protocol = "jdbc", alias # <<>>,
         NEW rows, ResultLaidOut(metrics, rows), queryMultiRow(metrics.columns, rows, alias).ok
  PROVE  addResponseTime(queryMultiRow(metrics.columns, rows, alias).rows, alias) = AllCells
<1>1. /\ rows = <<>> \/ Len(alias) = Len(metrics.columns)
      /\ queryMultiRow(metrics.columns, rows, alias).rows = rows
  BY DEF queryMultiRow, buildFields, Failed, Found
<1>2. DOMAIN metrics.truth = DOMAIN rows
  BY DEF ResultLaidOut
<1>3. ASSUME NEW r \in DOMAIN rows
      PROVE  /\ DOMAIN rows[r] = DOMAIN alias
             /\ \A i \in DOMAIN alias :
                  alias[i] # ResponseTime => rows[r][i] = Told(metrics.truth[r], alias[i])
  <2>1. Len(metrics.columns) = Len(metrics.aliasFields)
    BY <1>1, <1>3, SeqEmpty DEF alias
  <2> QED
    BY <1>3, <2>1, Zenon DEF ResultLaidOut, alias
<1> QED
  BY <1>1, <1>2, <1>3, TimeAdded

\* A result set of keys and values.
LEMMA KeysParsed ==
  ASSUME LaidOut(metrics), metrics.protocol = "jdbc", alias # <<>>, KeysLaidOut(metrics),
         queryColumns(metrics.columns, metrics.lines, alias).ok
  PROVE  addResponseTime(queryColumns(metrics.columns, metrics.lines, alias).rows, alias) = AllCells
<1> DEFINE lines == metrics.lines
           names == {alias[i] : i \in DOMAIN alias}
           last(a) == CHOOSE r \in DOMAIN lines :
                        lines[r][1] = Text(a) /\ \A q \in r + 1 .. Len(lines) : lines[q][1] # Text(a)
           keys == {a \in names : \E r \in DOMAIN lines : lines[r][1] = Text(a)}
           values == [a \in keys \cup {ResponseTime} |-> IF a \in keys THEN lines[last(a)][2] ELSE Num(0, "")]
           row == RowOf(alias, values)
           rows == <<row>>
<1>1. queryColumns(metrics.columns, lines, alias).rows = rows
  BY Zenon DEF queryColumns, Failed, Found
<1>2. /\ alias \in Seq(STRING) /\ IsInjective(alias) /\ IsSeq(metrics.truth) /\ IsSeq(lines)
  BY Zenon DEF LaidOut, alias, Registered
<1>3. Len(lines) \in Nat /\ DOMAIN lines = 1 .. Len(lines)
  BY <1>2, SeqFacts
<1>4. /\ DOMAIN metrics.truth = {1}
      /\ \A i \in DOMAIN alias :
           \/ alias[i] = ResponseTime
           \/ \E r \in DOMAIN lines : /\ lines[r][1] = Text(alias[i])
                                      /\ \A q \in DOMAIN lines : q > r => lines[q][1] # Text(alias[i])
                                      /\ Told(metrics.truth[1], alias[i]) = lines[r][2]
           \/ /\ \A r \in DOMAIN lines : lines[r][1] # Text(alias[i])
              /\ Told(metrics.truth[1], alias[i]) = NullValue
  <2>1. Len(metrics.truth) = 1 /\ DOMAIN metrics.truth = {1}
    BY <1>2, SeqFacts DEF KeysLaidOut
  <2> DEFINE some == [r \in DOMAIN lines |-> lines[r][1]]
  <2>2. \A i \in DOMAIN alias :
           \/ alias[i] = ResponseTime
           \/ \E r \in DOMAIN some : /\ IsLast(some, r, Text(alias[i]))
                                     /\ Told(metrics.truth[1], alias[i]) = lines[r][2]
           \/ /\ \A r \in DOMAIN some : some[r] # Text(alias[i])
              /\ Told(metrics.truth[1], alias[i]) = NullValue
    BY Zenon DEF KeysLaidOut, alias
  <2>3. DOMAIN some = DOMAIN lines /\ \A r \in DOMAIN lines : some[r] = lines[r][1]
    BY Zenon
  <2> HIDE DEF some
  <2> QED
    BY <2>1, <2>2, <2>3, SMTT(30) DEF IsLast
<1>5. ASSUME NEW i \in DOMAIN alias, alias[i] # ResponseTime
      PROVE  row[i] = Told(metrics.truth[1], alias[i])
  <2>1. row[i] = IF alias[i] \in keys \cup {ResponseTime} THEN values[alias[i]] ELSE NullValue
    <3>1. DOMAIN values = keys \cup {ResponseTime}
      BY Zenon
    <3> HIDE DEF keys, values
    <3> QED
      BY <3>1, Zenon DEF RowOf
  <2>2. CASE \A r \in DOMAIN lines : lines[r][1] # Text(alias[i])
    <3>1. alias[i] \notin keys
      BY <2>2
    <3> HIDE DEF keys, values
    <3> QED
      BY <1>4, <1>5, <2>1, <2>2, <3>1, Zenon
  <2>3. ASSUME NEW r \in DOMAIN lines, lines[r][1] = Text(alias[i]),
               \A q \in DOMAIN lines : q > r => lines[q][1] # Text(alias[i])
        PROVE  row[i] = lines[r][2]
    <3>1. alias[i] \in keys
      BY <2>3
    <3>2. \A q \in r + 1 .. Len(lines) : lines[q][1] # Text(alias[i])
      BY <1>3, <2>3
    <3>3. ASSUME NEW k \in DOMAIN lines, lines[k][1] = Text(alias[i]),
                 \A q \in k + 1 .. Len(lines) : lines[q][1] # Text(alias[i])
          PROVE  k = r
      BY <1>3, <2>3, <3>3
    <3>4. last(alias[i]) = r
      BY <2>3, <3>2, <3>3, Zenon
    <3> HIDE DEF last, keys
    <3> QED
      BY <2>1, <3>1, <3>4
  <2> QED
    BY <1>4, <1>5, <2>2, <2>3, Zenon
<1>6. DOMAIN row = DOMAIN alias
  BY Zenon DEF RowOf
<1> HIDE DEF row
<1>7. /\ DOMAIN rows = DOMAIN metrics.truth
      /\ \A r \in DOMAIN rows : r = 1 /\ rows[r] = row
  BY <1>4
<1> HIDE DEF rows
<1>8. addResponseTime(rows, alias) = AllCells
  <2>1. \A r \in DOMAIN rows :
           /\ DOMAIN rows[r] = DOMAIN alias
           /\ \A i \in DOMAIN alias :
                alias[i] # ResponseTime => rows[r][i] = Told(metrics.truth[r], alias[i])
    BY <1>5, <1>6, <1>7, Zenon
  <2> QED
    BY <1>2, <1>7, <2>1, TimeAdded, Zenon
<1> QED
  BY <1>1, <1>8

\* The JDBC collector.
LEMMA JdbcParsed ==
  ASSUME LaidOut(metrics), alias # <<>>, metrics.protocol = "jdbc", queried.ok
  PROVE  addResponseTime(queried.rows, alias) = AllCells
<1>1. alias \in Seq(STRING) /\ IsInjective(alias) /\ IsSeq(metrics.truth) /\ SaysWhatItKnows(metrics)
  BY Zenon DEF LaidOut, alias, Registered
<1>2. CASE metrics.parse = "oneRow"
  <2>1. /\ ResultLaidOut(metrics, SubSeq(metrics.lines, 1, 1))
        /\ queried = queryMultiRow(metrics.columns, SubSeq(metrics.lines, 1, 1), alias)
    BY <1>1, <1>2 DEF SaysWhatItKnows, queried, queryOneRow
  <2> QED
    BY <1>1, <2>1, ResultParsed, Zenon
<1>3. CASE metrics.parse = "multiRow"
  <2>1. /\ ResultLaidOut(metrics, metrics.lines)
        /\ queried = queryMultiRow(metrics.columns, metrics.lines, alias)
    BY <1>1, <1>3 DEF SaysWhatItKnows, queried
  <2> QED
    BY <1>1, <2>1, ResultParsed, Zenon
<1>4. CASE metrics.parse = "columns"
  <2>1. KeysLaidOut(metrics) /\ queried = queryColumns(metrics.columns, metrics.lines, alias)
    BY <1>1, <1>4 DEF SaysWhatItKnows, queried
  <2> QED
    BY <2>1, KeysParsed, Zenon
<1>5. CASE metrics.parse = "runScript"
  <2> DEFINE count == Num(Len(metrics.lines), "")
             rows == << <<count>> >>
  <2>1. /\ Len(alias) = 1 /\ metrics.truth = << [x \in {alias[1]} |-> count] >>
        /\ queried.rows = rows
    BY <1>1, <1>5 DEF SaysWhatItKnows, queried, runScript, Found, alias
  <2> HIDE DEF count
  <2>2. /\ DOMAIN alias = {1} /\ DOMAIN rows = DOMAIN metrics.truth /\ DOMAIN rows = {1}
        /\ DOMAIN rows[1] = {1} /\ rows[1][1] = count /\ metrics.truth[1] = [x \in {alias[1]} |-> count]
    BY <1>1, <2>1
  <2>3. Told(metrics.truth[1], alias[1]) = count
    BY <2>2, Zenon DEF Told
  <2> HIDE DEF rows
  <2>4. addResponseTime(rows, alias) = AllCells
    BY <1>1, <2>2, <2>3, TimeAdded, Zenon
  <2> QED
    BY <2>1, <2>4
<1>6. metrics.parse \in {"oneRow", "multiRow", "columns", "runScript"}
  BY DEF queried, Failed
<1> QED
  BY <1>2, <1>3, <1>4, <1>5, <1>6

\* A function without arguments is the empty sequence.
LEMMA EmptyFunction == ASSUME NEW g, g = [x \in DOMAIN g |-> g[x]] PROVE g = <<>> <=> DOMAIN g = {}
  BY SeqEmpty

\* A body whose items are read into the rows.
BodyRead(rows, body, g) ==
  /\ DOMAIN rows = DOMAIN body /\ (rows = <<>> <=> body = <<>>)
  /\ \A r \in DOMAIN body : g[r] \in DOMAIN body
  /\ \A r \in DOMAIN body, i \in DOMAIN alias :
       alias[i] \notin {ResponseTime, StatusCode} => rows[r][i] = Told(body[g[r]], alias[i])

\* The rows of a body in the order g: fillCommonFields adds the response time and the
\* status, and a row of nulls where there is none.
LEMMA BodyParsed ==
  ASSUME metrics.protocol = "http", NEW body, BodyLaidOut(metrics, body),
         NEW rows, NEW g, BodyRead(rows, body, g)
  PROVE  fillCommonFields(rows, alias, answer.status)
           = [q \in DOMAIN metrics.truth |-> Cells(IF body = <<>> THEN q ELSE g[q])]
<1> USE DEF BodyRead
<1> DEFINE some == IF rows = <<>> THEN << [i \in DOMAIN alias |-> NullValue] >> ELSE rows
           to(r) == IF body = <<>> THEN r ELSE g[r]
           cell(r, i) == CASE alias[i] = ResponseTime -> Millis
                           [] alias[i] = StatusCode -> Status(answer.status)
                           [] OTHER -> some[r][i]
<1>1. fillCommonFields(rows, alias, answer.status) =
        [r \in DOMAIN some |-> [i \in DOMAIN alias |-> cell(r, i)]]
  BY Zenon DEF fillCommonFields
<1>2. /\ DOMAIN metrics.truth = IF body = <<>> THEN {1} ELSE DOMAIN body
      /\ \A r \in DOMAIN metrics.truth, i \in DOMAIN alias :
           alias[i] \notin {ResponseTime, StatusCode} =>
             Told(metrics.truth[r], alias[i]) = IF body = <<>> THEN NullValue ELSE Told(body[r], alias[i])
  BY Zenon DEF BodyLaidOut, alias
<1>3. DOMAIN some = DOMAIN metrics.truth
  BY <1>2
<1>4. ASSUME NEW r \in DOMAIN some, NEW i \in DOMAIN alias, alias[i] \notin {ResponseTime, StatusCode}
      PROVE  some[r][i] = Told(metrics.truth[to(r)], alias[i])
  <2>1. CASE rows = <<>>
    BY <1>2, <1>3, <1>4, <2>1
  <2>2. CASE rows # <<>>
    <3>1. r \in DOMAIN body /\ g[r] \in DOMAIN metrics.truth /\ some[r][i] = Told(body[g[r]], alias[i])
      BY <1>2, <1>3, <1>4, <2>2, Zenon
    <3> QED
      BY <1>2, <1>4, <2>2, <3>1, Zenon
  <2> QED
    BY <2>1, <2>2
<1> HIDE DEF some, to
<1>5. ASSUME NEW r \in DOMAIN some, NEW i \in DOMAIN alias PROVE cell(r, i) = Known(to(r), alias[i])
  BY <1>4, <1>5, KnownHttp DEF ResponseTime, StatusCode
<1> HIDE DEF cell
<1>6. ASSUME NEW r \in DOMAIN some PROVE [i \in DOMAIN alias |-> cell(r, i)] = Cells(to(r))
  BY <1>5, <1>6, Zenon DEF Cells
<1>7. fillCommonFields(rows, alias, answer.status) = [q \in DOMAIN metrics.truth |-> Cells(to(q))]
  BY <1>1, <1>3, <1>6, Zenon
<1> QED
  BY <1>7, Zenon DEF to

\* The rows of the target's data, in an order they may come in.
Gathers(rows) ==
  \E f \in Matches(DOMAIN metrics.truth) :
    DOMAIN f = DOMAIN metrics.truth /\ rows = [q \in DOMAIN f |-> Cells(f[q])]

\* As they are, for all but the nodes of a cluster and a Prometheus text.
LEMMA AllGathered == ASSUME ~AnyOrder PROVE Gathers(AllCells)
<1> DEFINE f == [q \in DOMAIN metrics.truth |-> q]
<1>1. f \in Matches(DOMAIN metrics.truth)
  BY Zenon DEF Matches, Sources, AnyOrder
<1>2. AllCells = [q \in DOMAIN f |-> Cells(f[q])]
  BY Zenon DEF AllCells
<1> QED
  BY <1>1, <1>2, Zenon DEF Gathers

\* A body that is read in its order.
LEMMA BodyInOrder ==
  ASSUME metrics.protocol = "http", ~AnyOrder, NEW body, BodyLaidOut(metrics, body),
         NEW rows, BodyRead(rows, body, [q \in DOMAIN body |-> q])
  PROVE  Gathers(fillCommonFields(rows, alias, answer.status))
<1> DEFINE g == [q \in DOMAIN body |-> q]
<1>1. fillCommonFields(rows, alias, answer.status)
        = [q \in DOMAIN metrics.truth |-> Cells(IF body = <<>> THEN q ELSE g[q])]
  BY BodyParsed
<1>2. ASSUME NEW q \in DOMAIN metrics.truth PROVE (IF body = <<>> THEN q ELSE g[q]) = q
  BY Zenon DEF BodyLaidOut
<1>3. fillCommonFields(rows, alias, answer.status) = AllCells
  BY <1>1, <1>2, Zenon DEF AllCells
<1> QED
  BY <1>3, AllGathered, Zenon

\* The HTTP collector.
LEMMA HttpParsed ==
  ASSUME LaidOut(metrics), alias # <<>>, metrics.protocol = "http", NEW found \in httpRows
  PROVE  Gathers(fillCommonFields(found, alias, answer.status))
<1>1. SaysWhatItKnows(metrics) /\ IsSeq(metrics.items)
  BY Zenon DEF LaidOut, alias
<1>2. ASSUME NEW values, NEW i \in DOMAIN alias PROVE RowOf(alias, values)[i] = Told(values, alias[i])
  BY Zenon DEF RowOf, Told
<1>3. CASE metrics.parse = "prometheus"
  <2> DEFINE some == kept(metrics.samples, alias)
             body == [r \in DOMAIN some |-> named(some[r])]
  <2>1. BodyLaidOut(metrics, body)
    BY <1>1, <1>3 DEF SaysWhatItKnows, alias
  <2>2. found \in {[r \in DOMAIN some |-> RowOf(alias, named(some[g[r]]))] : g \in Arrangements(some)}
    BY <1>3, Zenon DEF httpRows, parsePrometheus
  <2>3. PICK g \in Bijection(DOMAIN some, DOMAIN some) :
          found = [r \in DOMAIN some |-> RowOf(alias, named(some[g[r]]))]
    BY <2>2, Zenon DEF Arrangements
  <2> HIDE DEF some
  <2>4. DOMAIN found = DOMAIN some /\ DOMAIN body = DOMAIN some /\ (found = <<>> <=> body = <<>>)
    BY <2>3, EmptyFunction
  <2>5. g \in [DOMAIN some -> DOMAIN some]
    BY Zenon DEF Bijection, Injection
  <2>6. ASSUME NEW r \in DOMAIN body, NEW i \in DOMAIN alias PROVE found[r][i] = Told(body[g[r]], alias[i])
    <3>1. found[r] = RowOf(alias, named(some[g[r]])) /\ body[g[r]] = named(some[g[r]])
      BY <2>3, <2>4, <2>5, <2>6, Zenon
    <3> QED
      BY <1>2, <2>6, <3>1, Zenon
  <2> HIDE DEF body
  <2>7. BodyRead(found, body, g)
    BY <2>4, <2>5, <2>6, Zenon DEF BodyRead
  <2> DEFINE f == [q \in DOMAIN metrics.truth |-> IF body = <<>> THEN q ELSE g[q]]
  <2>8. fillCommonFields(found, alias, answer.status) = [q \in DOMAIN f |-> Cells(f[q])]
    <3>1. fillCommonFields(found, alias, answer.status)
            = [q \in DOMAIN metrics.truth |-> Cells(IF body = <<>> THEN q ELSE g[q])]
      BY <2>1, <2>7, BodyParsed
    <3> QED
      BY <3>1, Zenon
  <2>9. f \in Bijection(DOMAIN metrics.truth, DOMAIN metrics.truth)
    <3>1. CASE body = <<>>
      <4>1. f = [q \in DOMAIN metrics.truth |-> q]
        BY <3>1, Zenon
      <4> HIDE DEF f
      <4> QED
        BY <4>1, Zenon DEF Bijection, Injection, Surjection, IsInjective
    <3>2. CASE body # <<>>
      <4>1. DOMAIN metrics.truth = DOMAIN some
        BY <2>1, <2>4, <3>2, Zenon DEF BodyLaidOut
      <4>2. f = [q \in DOMAIN some |-> g[q]] /\ g = [q \in DOMAIN some |-> g[q]]
        BY <2>5, <3>2, <4>1, Zenon
      <4> QED
        BY <2>3, <4>1, <4>2, Zenon
    <3> QED
      BY <3>1, <3>2
  <2> HIDE DEF f
  <2>10. f \in Matches(DOMAIN metrics.truth) /\ DOMAIN f = DOMAIN metrics.truth
    BY <1>3, <2>9, Zenon DEF Matches, Sources, AnyOrder, f
  <2> QED
    BY <2>8, <2>10, Zenon DEF Gathers
<1>0. ASSUME metrics.parse # "prometheus" PROVE ~AnyOrder
  BY <1>0, Zenon DEF AnyOrder
<1>4. CASE metrics.parse = "website"
  <2> DEFINE data == [x \in {"keyword"} |-> Num(metrics.keywords, "")]
             body == <<data>>
             values == [x \in {StatusCode, ResponseTime, "keyword"} |->
                          CASE x = StatusCode -> Status(answer.status)
                            [] x = ResponseTime -> Millis
                            [] x = "keyword" -> Num(metrics.keywords, "")]
             rows == <<RowOf(alias, values)>>
  <2>1. BodyLaidOut(metrics, body)
    BY <1>1, <1>4 DEF SaysWhatItKnows
  <2>2. found = rows
    BY <1>4, Zenon DEF httpRows, parseWebsite
  <2>3. DOMAIN rows = {1} /\ DOMAIN body = {1} /\ rows # <<>> /\ body # <<>>
    OBVIOUS
  <2>4. ASSUME NEW i \in DOMAIN alias, alias[i] \notin {ResponseTime, StatusCode}
        PROVE  RowOf(alias, values)[i] = Told(data, alias[i])
    <3>1. values["keyword"] = Num(metrics.keywords, "") /\ data["keyword"] = Num(metrics.keywords, "")
      BY DEF ResponseTime, StatusCode
    <3>2. Told(values, alias[i]) = Told(data, alias[i])
      BY <2>4, <3>1, Zenon DEF Told
    <3> QED
      BY <1>2, <3>2, Zenon
  <2>5. rows[1] = RowOf(alias, values) /\ body[1] = data
    OBVIOUS
  <2> HIDE DEF rows, body, values, data
  <2> QED
    BY <1>0, <1>4, <2>1, <2>2, <2>3, <2>4, <2>5, BodyInOrder, SMTT(30) DEF BodyRead
<1>5. CASE metrics.parse = "header"
  <2> DEFINE data == [x \in {h \in DOMAIN metrics.values : metrics.values[h] # Empty} |-> metrics.values[x]]
             body == <<data>>
             rows == <<RowOf(alias, data)>>
  <2>1. BodyLaidOut(metrics, body)
    BY <1>1, <1>5 DEF SaysWhatItKnows
  <2>2. found = rows
    BY <1>5, Zenon DEF httpRows, parseHeader
  <2>3. DOMAIN rows = {1} /\ DOMAIN body = {1} /\ rows # <<>> /\ body # <<>>
    OBVIOUS
  <2>4. rows[1] = RowOf(alias, data) /\ body[1] = data
    OBVIOUS
  <2> HIDE DEF rows, body, data
  <2> QED
    BY <1>0, <1>2, <1>5, <2>1, <2>2, <2>3, <2>4, BodyInOrder, SMTT(30) DEF BodyRead
<1>6. CASE metrics.parse \notin {"prometheus", "website", "header"}
  <2> DEFINE body == metrics.items
             values(r) == [x \in DOMAIN body[r] \ {ResponseTime, StatusCode} |-> body[r][x]]
             rows == [r \in DOMAIN body |-> RowOf(alias, values(r))]
  <2>1. BodyLaidOut(metrics, body)
    BY <1>1, <1>6 DEF SaysWhatItKnows
  <2>2. found = rows
    BY <1>6, Zenon DEF httpRows, parseJsonPath
  <2>3. DOMAIN rows = DOMAIN body /\ (rows = <<>> <=> body = <<>>)
    <3>1. body = [x \in DOMAIN body |-> body[x]]
      BY <1>1 DEF IsSeq
    <3> QED
      BY <3>1, EmptyFunction, Zenon
  <2>4. ASSUME NEW r \in DOMAIN body, NEW i \in DOMAIN alias, alias[i] \notin {ResponseTime, StatusCode}
        PROVE  rows[r][i] = Told(body[r], alias[i])
    <3>1. rows[r][i] = Told(values(r), alias[i])
      BY <1>2, <2>4, Zenon
    <3> QED
      BY <2>4, <3>1, Zenon DEF Told
  <2> HIDE DEF rows, body
  <2>5. BodyRead(rows, body, [x \in DOMAIN body |-> x])
    BY <2>3, <2>4, Zenon DEF BodyRead
  <2> QED
    BY <1>0, <1>6, <2>1, <2>2, <2>5, BodyInOrder, Zenon
<1> QED
  BY <1>3, <1>4, <1>5, <1>6

\* The Milvus collector.
LEMMA MilvusParsed ==
  ASSUME LaidOut(metrics), alias # <<>>, metrics.protocol = "milvus"
  PROVE  << milvusRow(metrics.values["version"], metrics.values["host"], metrics.values["port"], alias) >>
           = AllCells
<1> DEFINE told == metrics.values
           values == [x \in {ResponseTime, "version", "host", "port"} |->
                        CASE x = ResponseTime -> Millis [] x = "version" -> told["version"]
                          [] x = "host" -> told["host"] [] x = "port" -> told["port"]]
           row == milvusRow(told["version"], told["host"], told["port"], alias)
<1>1. metrics.truth = <<told>> /\ DOMAIN told = {"version", "host", "port"}
  <2>1. SaysWhatItKnows(metrics)
    BY Zenon DEF LaidOut, alias
  <2> QED
    BY <2>1 DEF SaysWhatItKnows
<1>2. DOMAIN metrics.truth = {1} /\ metrics.truth[1] = told
  BY <1>1
<1>3. row = RowOf(alias, values)
  BY DEF milvusRow
<1>4. /\ values[ResponseTime] = Millis /\ values["version"] = told["version"]
      /\ values["host"] = told["host"] /\ values["port"] = told["port"]
      /\ DOMAIN values = {ResponseTime, "version", "host", "port"}
  BY DEF ResponseTime
<1> HIDE DEF values
<1>5. ASSUME NEW i \in DOMAIN alias PROVE row[i] = Known(1, alias[i])
  <2>1. row[i] = Told(values, alias[i])
    BY <1>3, Zenon DEF RowOf, Told
  <2>2. Told(values, alias[i]) = IF alias[i] = ResponseTime THEN Millis ELSE Told(told, alias[i])
    BY <1>1, <1>4, Zenon DEF Told
  <2> QED
    BY <1>2, <2>1, <2>2, KnownPlain
<1>6. row = [i \in DOMAIN alias |-> row[i]]
  BY <1>3, Zenon DEF RowOf
<1>7. row = Cells(1)
  BY <1>5, <1>6, Zenon DEF Cells
<1> HIDE DEF row
<1>8. <<row>> = AllCells
  BY <1>2, <1>7, OneRow DEF AllCells
<1> QED
  BY <1>8, Zenon DEF row

-----------------------------------------------------------------------------
\* Of some of the numbers up to n one is the greatest.
LEMMA GreatestNat ==
  ASSUME NEW n \in Nat, NEW T, T \subseteq 1 .. n, T # {}
  PROVE  \E j \in T : \A k \in T : k <= j
<1> DEFINE U == {n - j : j \in T}
<1>1. U \subseteq Nat /\ U # {}
  <2>1. \A j \in T : n - j \in Nat
    OBVIOUS
  <2> QED
    BY <2>1, Zenon
<1>2. PICK u \in U : \A w \in U : ~(<<w, u>> \in OpToRel(<, Nat))
  BY <1>1, NatLessThanWellFounded, WFMin, Zenon
<1>3. \A w \in U : ~(w < u)
  BY <1>1, <1>2, Zenon DEF OpToRel
<1>4. PICK j \in T : u = n - j
  OBVIOUS
<1>5. ASSUME NEW k \in T PROVE k <= j
  BY <1>3, <1>4, SMTT(30)
<1> QED
  BY <1>5, Zenon

\* What a name stands for depends on the fields before it only, and for the next field it
\* is the new value, if that has the name.
StandsNext(r, row, v, x) ==
  /\ \A i \in 1 .. Len(row) + 1 : StandsFor(r, Append(row, v), i, x) = StandsFor(r, row, i, x)
  /\ StandsFor(r, Append(row, v), Len(row) + 2, x) =
       IF metrics.fields[Len(row) + 1].name = x THEN v ELSE StandsFor(r, row, Len(row) + 1, x)

\* So it is for every field.
LEMMA StandsAppended ==
  ASSUME metrics.fields \in Seq([name : STRING, type : STRING]),
         NEW row, IsSeq(row), Len(row) < Len(metrics.fields), NEW r, NEW v, NEW x
  PROVE  StandsNext(r, row, v, x)
<1> DEFINE new == Append(row, v)
           before(i) == {j \in 1 .. i - 1 : metrics.fields[j].name = x}
           latest(i) == CHOOSE j \in before(i) : \A k \in before(i) : k <= j
<1>1. /\ Len(row) \in Nat /\ new[Len(row) + 1] = v /\ \A i \in 1 .. Len(row) : new[i] = row[i]
  BY SeqFacts, SeqAppend
<1> HIDE DEF new
<1>2. ASSUME NEW i \in 1 .. Len(row) + 2, before(i) # {}
      PROVE  latest(i) \in before(i) /\ \A k \in before(i) : k <= latest(i)
  <2>1. i - 1 \in Nat /\ before(i) \subseteq 1 .. i - 1
    BY <1>1
  <2> HIDE DEF before
  <2> QED
    BY <1>2, <2>1, GreatestNat, Zenon
<1>3. ASSUME NEW s, NEW i
      PROVE  StandsFor(r, s, i, x) = IF before(i) = {} THEN AskedFor(r, x) ELSE s[latest(i)]
  BY Zenon DEF StandsFor
<1>4. ASSUME NEW i \in 1 .. Len(row) + 1 PROVE StandsFor(r, new, i, x) = StandsFor(r, row, i, x)
  <2>1. before(i) # {} => latest(i) \in 1 .. Len(row)
    <3>1. before(i) # {} => latest(i) \in before(i)
      <4>1. i \in 1 .. Len(row) + 2
        BY <1>1
      <4> HIDE DEF before, latest
      <4> QED
        BY <1>2, <4>1, Zenon
    <3>2. before(i) \subseteq 1 .. Len(row)
      BY <1>1
    <3> HIDE DEF before, latest
    <3> QED
      BY <3>1, <3>2
  <2> HIDE DEF before, latest
  <2> QED
    BY <1>1, <1>3, <2>1
<1>5. CASE metrics.fields[Len(row) + 1].name = x
  <2>1. Len(row) + 1 \in before(Len(row) + 2) /\ \A k \in before(Len(row) + 2) : k <= Len(row) + 1 /\ k \in Nat
    BY <1>1, <1>5, SMTT(30)
  <2>2. latest(Len(row) + 2) \in before(Len(row) + 2)
        /\ \A k \in before(Len(row) + 2) : k <= latest(Len(row) + 2)
    BY <1>1, <1>2, <2>1
  <2> HIDE DEF before, latest
  <2>3. latest(Len(row) + 2) = Len(row) + 1
    BY <1>1, <2>1, <2>2
  <2>4. StandsFor(r, new, Len(row) + 2, x) = v
    BY <1>1, <1>3, <2>1, <2>3, Zenon
  <2> QED
    BY <1>4, <1>5, <2>4, Zenon DEF new, StandsNext
<1>6. CASE metrics.fields[Len(row) + 1].name # x
  <2>1. before(Len(row) + 2) = before(Len(row) + 1)
    BY <1>1, <1>6
  <2>2. StandsFor(r, new, Len(row) + 2, x) = StandsFor(r, new, Len(row) + 1, x)
    <3> HIDE DEF before
    <3> QED
      BY <1>3, <2>1, Zenon
  <2>3. Len(row) + 1 \in 1 .. Len(row) + 1
    BY <1>1
  <2> QED
    BY <1>4, <1>6, <2>2, <2>3, Zenon DEF new, StandsNext
<1> QED
  BY <1>5, <1>6, Zenon

\* So does what a field may say.
LEMMA FitsAgrees ==
  ASSUME NEW r, NEW i, NEW row, NEW new, \A x : StandsFor(r, new, i, x) = StandsFor(r, row, i, x), NEW w
  PROVE  Fits(r, new, i, w) <=> Fits(r, row, i, w)
<1>1. \A x : Sees(r, new, i, x) = Sees(r, row, i, x)
  <2> DEFINE bare(v) == IF v.k = "num" THEN Num(v.n, "") ELSE v
  <2>1. \A s, x : Sees(r, s, i, x) = bare(StandsFor(r, s, i, x))
    BY Zenon DEF Sees
  <2> HIDE DEF bare
  <2> QED
    BY <2>1, Zenon
<1>2. ValueOf(r, new, i) = ValueOf(r, row, i)
  BY <1>1, Zenon DEF ValueOf
<1>3. Says(r, new, i, w) <=> Says(r, row, i, w)
  BY <1>2, Zenon DEF Says
<1>4. Misread(r, new, i) <=> Misread(r, row, i)
  BY <1>2, Zenon DEF Misread
<1> QED
  BY <1>3, <1>4, Zenon DEF Fits

-----------------------------------------------------------------------------
\* A row of the collector, by the names of its columns.
LEMMA AliasMapped ==
  ASSUME alias \in Seq(STRING), IsInjective(alias), NEW r
  PROVE  aliasMap(metrics, Cells(r)) = [x \in Range(alias) |-> Known(r, x)]
<1>1. IsSeq(Cells(r)) /\ Len(Cells(r)) = Len(alias) /\ Len(alias) \in Nat /\ DOMAIN alias = 1 .. Len(alias)
  <2>1. Len(alias) \in Nat /\ DOMAIN alias = 1 .. Len(alias)
    OBVIOUS
  <2>2. Cells(r) = [q \in 1 .. Len(alias) |-> Cells(r)[q]]
    BY <2>1, Zenon DEF Cells
  <2> QED
    BY <2>1, <2>2, SeqFunction
<1> DEFINE shown == 1 .. (IF Len(alias) < Len(Cells(r)) THEN Len(alias) ELSE Len(Cells(r)))
           names == {alias[i] : i \in shown}
<1>2. aliasMap(metrics, Cells(r)) = [x \in names |-> Cells(r)[CHOOSE i \in shown : alias[i] = x]]
  BY Zenon DEF aliasMap, alias
<1>3. shown = DOMAIN alias
  BY <1>1
<1> HIDE DEF shown
<1> DEFINE cell(x) == Cells(r)[CHOOSE i \in shown : alias[i] = x]
<1>4. ASSUME NEW x \in names PROVE cell(x) = Known(r, x)
  <2>1. PICK i \in shown : alias[i] = x
    OBVIOUS
  <2>2. \A k \in shown : alias[k] = x => k = i
    BY <1>3, <2>1, Zenon DEF IsInjective
  <2>3. (CHOOSE k \in shown : alias[k] = x) = i
    BY <2>1, <2>2, Zenon
  <2> QED
    BY <1>3, <2>1, <2>3, Zenon DEF Cells
<1>5. names = Range(alias)
  BY <1>3, Zenon DEF Range
<1>6. aliasMap(metrics, Cells(r)) = [x \in names |-> cell(x)]
  BY <1>2, Zenon
<1> HIDE DEF names, cell
<1> QED
  BY <1>4, <1>5, <1>6, Zenon

\* A row starts with what the target was asked for.
LEMMA RowStarts ==
  ASSUME alias \in Seq(STRING), IsInjective(alias), metrics.fields \in Seq([name : STRING, type : STRING]), NEW r
  PROVE  SoFar(r, <<>>) /\ contextOf(metrics, Cells(r)) = Seen(r, <<>>)
<1>1. SoFar(r, <<>>)
  BY SeqEmpty DEF SoFar
<1> DEFINE asked == [x \in Range(alias) |-> Known(r, x)]
<1>2. contextOf(metrics, Cells(r)) = [x \in DOMAIN asked |-> inContext(asked[x])]
  BY AliasMapped, Zenon DEF contextOf
<1>3. contextOf(metrics, Cells(r)) = [x \in Range(alias) |-> inContext(Known(r, x))]
  BY <1>2, Zenon
<1>4. ASSUME NEW x \in Range(alias) PROVE inContext(StandsFor(r, <<>>, 1, x)) = inContext(Known(r, x))
  <2>1. {j \in 1 .. 1 - 1 : metrics.fields[j].name = x} = {}
    OBVIOUS
  <2>2. AskedFor(r, x) = Known(r, x)
    BY Zenon DEF AskedFor, Range
  <2> QED
    BY <2>1, <2>2, Zenon DEF StandsFor
<1>5. Len(<<>>) + 1 = 1 /\ {metrics.fields[j].name : j \in 1 .. Len(<<>>)} = {}
  BY SeqEmpty
<1>6. Seen(r, <<>>) = [x \in Range(alias) |-> inContext(Known(r, x))]
  BY <1>4, <1>5 DEF Seen
<1> QED
  BY <1>1, <1>3, <1>6

\* A script sees the values it names and nothing else.
LEMMA RunAgrees ==
  ASSUME NEW s, NEW c, NEW d,
         \A x \in {s.l, s.r} : (IF x \in DOMAIN c THEN c[x] ELSE NullValue)
                                 = (IF x \in DOMAIN d THEN d[x] ELSE NullValue)
  PROVE  runScriptOn(s, c) = runScriptOn(s, d)
<1> DEFINE of(k, x) == IF x \in DOMAIN k THEN k[x] ELSE NullValue
           sum(x, y) ==
             LET isText(v) == v.k \in {"text", "empty"}
             IN IF x.k = "num" /\ y.k = "num" THEN [ok |-> TRUE, v |-> Num(x.n + y.n, "")]
                ELSE IF isText(x) /\ isText(y)
                  THEN [ok |-> TRUE, v |-> IF x = Empty THEN y ELSE IF y = Empty THEN x ELSE Text("joined")]
                ELSE [ok |-> FALSE, v |-> Empty]
<1>1. runScriptOn(s, c) = sum(of(c, s.l), of(c, s.r)) /\ runScriptOn(s, d) = sum(of(d, s.l), of(d, s.r))
  BY Zenon DEF runScriptOn
<1>2. of(c, s.l) = of(d, s.l) /\ of(c, s.r) = of(d, s.r)
  BY Zenon
<1> HIDE DEF of, sum
<1> QED
  BY <1>1, <1>2, Zenon

\* A script that runs gives a value, and a number field is a number or null.
LEMMA RunGives == ASSUME NEW s, NEW c, runScriptOn(s, c).ok PROVE runScriptOn(s, c).v # NullValue
<1> DEFINE x == IF s.l \in DOMAIN c THEN c[s.l] ELSE NullValue
           y == IF s.r \in DOMAIN c THEN c[s.r] ELSE NullValue
           isText(v) == v.k \in {"text", "empty"}
           sum == Num(x.n + y.n, "")
           joined == IF x = Empty THEN y ELSE IF y = Empty THEN x ELSE Text("joined")
           A == [ok |-> TRUE, v |-> sum]
           B == [ok |-> TRUE, v |-> joined]
           C == [ok |-> FALSE, v |-> Empty]
<1>1. runScriptOn(s, c) = IF x.k = "num" /\ y.k = "num" THEN A ELSE IF isText(x) /\ isText(y) THEN B ELSE C
  BY Zenon DEF runScriptOn
<1>2. A.v = sum /\ B.v = joined /\ ~C.ok
  BY Zenon
<1>3. NullValue.k = "null" /\ Text("joined").k = "text" /\ \A n : Num(n, "").k = "num"
  BY DEF NullValue, Text, Num
<1>4. sum # NullValue
  BY <1>3, Zenon
<1> HIDE DEF x, y, sum
<1>5. isText(x) /\ isText(y) => joined # NullValue
  BY <1>3
<1> HIDE DEF A, B, C, joined, isText
<1> QED
  BY <1>1, <1>2, <1>4, <1>5, Zenon

\* What a number field is given is not empty, and it is what a number field is to say.
LEMMA NumberGives == ASSUME NEW v, NEW name, NEW units PROVE numberOf(v, name, units) # Empty
  BY DEF numberOf, Num, Empty, NullValue

\* The first table that has both units is a table that has both.
LEMMA ConvertMeant == ASSUME NEW n, NEW from, NEW to PROVE Converts(n, from, to, Convert(n, from, to))
  BY Zenon DEF Converts, Convert

\* A number field says of a value what it is to say, a text like a unit apart.
LEMMA NumberMeant ==
  ASSUME NEW v, NEW field, v.k # "unitlike"
  PROVE  SaysNumber(v, field, numberOf(v, field, parseUnits(metrics.units)))
<1> DEFINE units == parseUnits(metrics.units)
           d == ExtractDoubleAndUnitFromStr(v)
           from == IF v.u = "" THEN units[field].origin ELSE v.u
           n == IF field \notin DOMAIN units THEN v.n ELSE Convert(v.n, from, units[field].new)
<1>1. CASE v.k = "num"
  <2>1. d = [ok |-> TRUE, n |-> v.n, u |-> v.u]
    BY <1>1, Zenon DEF ExtractDoubleAndUnitFromStr
  <2>2. d.ok /\ d.n = v.n /\ d.u = v.u
    BY <2>1
  <2>3. numberOf(v, field, units) = Num(n, "")
    BY <2>2, Zenon DEF numberOf
  <2> HIDE DEF n
  <2>4. Num(n, "").k = "num" /\ Num(n, "").n = n
    BY Zenon DEF Num
  <2>5. IF field \in DOMAIN units THEN Converts(v.n, from, units[field].new, n) ELSE n = v.n
    BY ConvertMeant, Zenon DEF n
  <2> QED
    BY <1>1, <2>3, <2>4, <2>5, Zenon DEF SaysNumber
<1>2. CASE v.k # "num"
  <2> DEFINE none == [ok |-> FALSE, n |-> 0, u |-> ""]
  <2>1. d = none /\ ~none.ok
    BY <1>2, Zenon DEF ExtractDoubleAndUnitFromStr
  <2> HIDE DEF none
  <2>2. ~d.ok
    BY <2>1, Zenon
  <2>3. numberOf(v, field, units) = NullValue
    BY <2>2, Zenon DEF numberOf
  <2> QED
    BY <1>2, <2>3, Zenon DEF SaysNumber
<1> QED
  BY <1>1, <1>2

\* What the scripts of the code see is what they are to see, a text like a unit apart.
LEMMA InContext ==
  ASSUME NEW r, NEW row, NEW i, NEW x, StandsFor(r, row, i, x).k # "unitlike"
  PROVE  inContext(StandsFor(r, row, i, x)) = Sees(r, row, i, x)
<1> DEFINE v == StandsFor(r, row, i, x)
           d == ExtractDoubleAndUnitFromStr(v)
<1> HIDE DEF v
<1>1. CASE v.k = "num"
  <2>1. d = [ok |-> TRUE, n |-> v.n, u |-> v.u]
    BY <1>1, Zenon DEF ExtractDoubleAndUnitFromStr
  <2>2. d.ok /\ d.n = v.n
    BY <2>1
  <2> QED
    BY <1>1, <2>2, Zenon DEF inContext, Sees, v
<1>2. CASE v.k # "num"
  <2> DEFINE none == [ok |-> FALSE, n |-> 0, u |-> ""]
  <2>1. d = none /\ ~none.ok
    BY <1>2, Zenon DEF ExtractDoubleAndUnitFromStr, v
  <2> HIDE DEF none
  <2>2. ~d.ok
    BY <2>1, Zenon
  <2> QED
    BY <1>2, <2>2, Zenon DEF inContext, Sees, v
<1> QED
  BY <1>1, <1>2

\* The next field says what it is to say.
LEMMA FieldMeant ==
  ASSUME alias \in Seq(STRING), IsInjective(alias), metrics.fields \in Seq([name : STRING, type : STRING]),
         NEW r, NEW row, IsSeq(row), Len(row) < Len(metrics.fields)
  PROVE  Fits(r, row, Len(row) + 1,
              fieldValue(metrics, rawOf(metrics, Cells(r)), Seen(r, row), metrics.fields[Len(row) + 1]))
<1> DEFINE i == Len(row) + 1
           field == metrics.fields[i]
           maps == parseCalculates(metrics.calculates)
           units == parseUnits(metrics.units)
           name == IF field.name \in DOMAIN maps.alias THEN maps.alias[field.name] ELSE field.name
           script == maps.script[field.name]
           context == Seen(r, row)
           raw == rawOf(metrics, Cells(r))
           mapped == IF name \in DOMAIN raw THEN raw[name] ELSE Empty
           own == AskedFor(r, name)
           sees == [x \in {script.l, script.r} |-> Sees(r, row, i, x)]
           scripted == field.name \in DOMAIN maps.script
           ran == scripted /\ runScriptOn(script, context).ok
           result == runScriptOn(script, context).v
           code == fieldValue(metrics, raw, context, field)
<1> SUFFICES ASSUME ~Misread(r, row, i) PROVE Says(r, row, i, code)
  BY Zenon DEF Fits
<1>1. mapped = IF own = NullValue THEN Empty ELSE own
  <2> DEFINE asked == [x \in Range(alias) |-> Known(r, x)]
  <2>1. raw = [x \in {y \in DOMAIN asked : asked[y] # NullValue} |-> asked[x]]
    BY AliasMapped, Zenon DEF rawOf
  <2>2. own = IF name \in Range(alias) THEN Known(r, name) ELSE NullValue
    BY Zenon DEF AskedFor, Range
  <2> HIDE DEF name, own
  <2> QED
    BY <2>1, <2>2
<1>2. ASSUME scripted PROVE runScriptOn(script, context) = runScriptOn(script, sees)
  <2>1. ASSUME NEW x
        PROVE  (IF x \in DOMAIN context THEN context[x] ELSE NullValue) = inContext(StandsFor(r, row, i, x))
    <3> DEFINE before == {j \in 1 .. i - 1 : metrics.fields[j].name = x}
    <3>1. DOMAIN context = Range(alias) \cup {metrics.fields[j].name : j \in 1 .. Len(row)}
      BY Zenon DEF Seen
    <3>2. CASE x \in DOMAIN context
      BY <3>1, <3>2, Zenon DEF Seen
    <3>3. CASE x \notin DOMAIN context
      <4>1. before = {}
        BY <3>1, <3>3, SeqFacts
      <4>2. AskedFor(r, x) = NullValue
        BY <3>1, <3>3, Zenon DEF AskedFor, Range
      <4>3. inContext(NullValue) = NullValue
        BY DEF inContext, ExtractDoubleAndUnitFromStr, NullValue
      <4> QED
        BY <3>3, <4>1, <4>2, <4>3, Zenon DEF StandsFor
    <3> QED
      BY <3>2, <3>3
  <2>2. ASSUME NEW x \in {script.l, script.r} PROVE inContext(StandsFor(r, row, i, x)) = Sees(r, row, i, x)
    <3>1. StandsFor(r, row, i, x).k # "unitlike"
      BY <1>2, <2>2, Zenon DEF Misread
    <3> QED
      BY <3>1, InContext, Zenon
  <2>3. \A x \in {script.l, script.r} : x \in DOMAIN sees /\ sees[x] = Sees(r, row, i, x)
    BY Zenon
  <2> HIDE DEF sees, context, script
  <2> QED
    BY <2>1, <2>2, <2>3, RunAgrees
<1> HIDE DEF sees
<1> DEFINE value == IF ran THEN result ELSE mapped
           typed == IF field.type = "number" /\ value # Empty THEN numberOf(value, field.name, units) ELSE value
           v == IF ran THEN result ELSE own
<1>3. code = IF typed = Empty THEN NullValue ELSE typed
  BY Zenon DEF fieldValue
<1>4. ValueOf(r, row, i) = v
  BY <1>2, Zenon DEF ValueOf, sees
<1>5. field.type = "number" => v.k # "unitlike"
  BY <1>4, Zenon DEF Misread
<1>6. ran => result # NullValue
  BY RunGives, Zenon
<1>7. Empty # NullValue
  BY DEF Empty, NullValue
<1>8. numberOf(v, field.name, units) # Empty
  BY NumberGives, Zenon
<1> HIDE DEF ran, result, mapped, own, code
<1>9. CASE v \in {Empty, NullValue}
  <2>1. value = Empty
    BY <1>1, <1>6, <1>9, Zenon
  <2>2. code = NullValue
    BY <1>3, <2>1, Zenon
  <2> QED
    BY <1>4, <1>9, <2>2, Zenon DEF Says
<1>10. CASE v \notin {Empty, NullValue}
  <2>1. value = v
    BY <1>1, <1>10, Zenon
  <2> HIDE DEF value, v
  <2>2. CASE field.type = "number"
    <3>1. code = numberOf(v, field.name, units)
      BY <1>3, <1>8, <1>10, <2>1, <2>2, Zenon
    <3>2. SaysNumber(v, field.name, code)
      BY <1>5, <2>2, <3>1, NumberMeant, Zenon
    <3> QED
      BY <1>4, <1>10, <2>2, <3>2, Zenon DEF Says
  <2>3. CASE field.type # "number"
    <3>1. code = v
      BY <1>3, <1>10, <2>1, <2>3, Zenon
    <3> QED
      BY <1>4, <1>10, <2>3, <3>1, Zenon DEF Says
  <2> QED
    BY <2>2, <2>3
<1> QED
  BY <1>9, <1>10

\* With the next field the row is so far as it is to be.
LEMMA FieldMade ==
  ASSUME metrics.fields \in Seq([name : STRING, type : STRING]),
         NEW r, NEW row, SoFar(r, row), Len(row) < Len(metrics.fields),
         NEW v
  PROVE  Fits(r, row, Len(row) + 1, v) =>
           /\ SoFar(r, Append(row, v))
           /\ extend(Seen(r, row), metrics.fields[Len(row) + 1], v) = Seen(r, Append(row, v))
<1> DEFINE new == Append(row, v)
           name == metrics.fields[Len(row) + 1].name
<1>1. /\ IsSeq(row) /\ Len(row) \in Nat /\ Len(metrics.fields) \in Nat
      /\ IsSeq(new) /\ Len(new) = Len(row) + 1
      /\ new[Len(row) + 1] = v /\ \A i \in 1 .. Len(row) : new[i] = row[i]
  BY SeqFacts, SeqAppend DEF SoFar
<1>2. ASSUME NEW x
      PROVE  /\ \A i \in 1 .. Len(row) + 1 : StandsFor(r, new, i, x) = StandsFor(r, row, i, x)
             /\ StandsFor(r, new, Len(row) + 2, x) = IF name = x THEN v ELSE StandsFor(r, row, Len(row) + 1, x)
  <2>1. IsSeq(row)
    BY <1>1
  <2>2. StandsNext(r, row, v, x)
    BY <2>1, StandsAppended, Zenon
  <2> QED
    BY <2>2, Zenon DEF StandsNext
<1> HAVE Fits(r, row, Len(row) + 1, v)
<1> HIDE DEF new
<1>3. \A i \in 1 .. Len(row) + 1 : \A w : Fits(r, new, i, w) <=> Fits(r, row, i, w)
  BY <1>2, FitsAgrees, Zenon
<1>4. ASSUME NEW i \in 1 .. Len(new) PROVE Fits(r, new, i, new[i])
  <2>1. i \in 1 .. Len(row) + 1 /\ (i \in 1 .. Len(row) \/ i = Len(row) + 1)
    BY <1>1
  <2> QED
    BY <1>1, <1>3, <2>1, Zenon DEF SoFar
<1>5. SoFar(r, new)
  BY <1>1, <1>4 DEF SoFar
<1>6. {metrics.fields[j].name : j \in 1 .. Len(new)} = {metrics.fields[j].name : j \in 1 .. Len(row)} \cup {name}
  BY <1>1
<1> DEFINE names == Range(alias) \cup {metrics.fields[j].name : j \in 1 .. Len(row)}
<1>7. extend(Seen(r, row), metrics.fields[Len(row) + 1], v) =
        [x \in names \cup {name} |->
           IF x = name THEN inContext(v) ELSE inContext(StandsFor(r, row, Len(row) + 1, x))]
  BY Zenon DEF extend, Put, Seen
<1>8. Seen(r, new) = [x \in names \cup {name} |-> inContext(StandsFor(r, new, Len(row) + 2, x))]
  <2>1. Len(new) + 1 = Len(row) + 2
    BY <1>1
  <2>2. Range(alias) \cup {metrics.fields[j].name : j \in 1 .. Len(new)} = names \cup {name}
    BY <1>6, Zenon
  <2> QED
    BY <2>1, <2>2, Zenon DEF Seen
<1> HIDE DEF names, name
<1>9. extend(Seen(r, row), metrics.fields[Len(row) + 1], v) = Seen(r, new)
  BY <1>2, <1>7, <1>8, Zenon
<1> QED
  BY <1>5, <1>9, Zenon DEF new

\* A complete row tells what the target knows.
LEMMA RowMade ==
  ASSUME metrics.fields \in Seq([name : STRING, type : STRING]),
         NEW r, NEW row, SoFar(r, row), Len(row) = Len(metrics.fields)
  PROVE  Tells(r, row)
<1>1. DOMAIN row = 1 .. Len(row) /\ DOMAIN metrics.fields = 1 .. Len(metrics.fields)
  BY SeqFacts DEF SoFar
<1> QED
  BY <1>1, Zenon DEF SoFar, Tells, Fits

-----------------------------------------------------------------------------
(***************************************************************************)
(* The steps.                                                              *)
(***************************************************************************)

\* What is known stays known while the answer and the nodes that answered stay.
LEMMA StillKnown ==
  ASSUME UNCHANGED <<metrics, answer>>, NEW r, metrics.protocol = "redis" => node'[r] = node[r]
  PROVE  /\ \A x : Known(r, x)' = Known(r, x)
         /\ Cells(r)' = Cells(r)
<1>1. ASSUME NEW x PROVE Known(r, x)' = Known(r, x)
  <2>1. CASE metrics.protocol = "redis"
    BY <2>1, Zenon DEF Known
  <2>2. CASE metrics.protocol # "redis"
    BY <2>2, Zenon DEF Known
  <2> QED
    BY <2>1, <2>2
<1>2. alias' = alias
  BY Zenon DEF alias
<1>3. Cells(r)' = Cells(r)
  BY <1>1, <1>2, Zenon DEF Cells
<1> QED
  BY <1>1, <1>3, Zenon

\* And so does what is to be told of it.
LEMMA StillTold ==
  ASSUME UNCHANGED <<metrics, answer>>, NEW r, metrics.protocol = "redis" => node'[r] = node[r]
  PROVE  /\ \A row : Tells(r, row)' = Tells(r, row)
         /\ \A row : SoFar(r, row)' = SoFar(r, row)
         /\ \A row : Seen(r, row)' = Seen(r, row)
<1>1. \A x : Known(r, x)' = Known(r, x)
  BY StillKnown, Zenon
<1>2. alias' = alias
  BY Zenon DEF alias
<1>3. \A x : AskedFor(r, x)' = AskedFor(r, x)
  BY <1>1, <1>2, Zenon DEF AskedFor
<1>4. ASSUME NEW row, NEW i, NEW x PROVE StandsFor(r, row, i, x)' = StandsFor(r, row, i, x)
  <2>1. AskedFor(r, x)' = AskedFor(r, x)
    BY <1>3, Zenon
  <2> DEFINE before == {j \in 1 .. i - 1 : metrics.fields[j].name = x}
             latest(some) == CHOOSE j \in some : \A k \in some : k <= j
  <2>2. before' = before
    BY Zenon
  <2>3. StandsFor(r, row, i, x) = IF before = {} THEN AskedFor(r, x) ELSE row[latest(before)]
    BY Zenon DEF StandsFor
  <2>4. StandsFor(r, row, i, x)' = IF before' = {} THEN AskedFor(r, x)' ELSE row[latest(before')]
    BY Zenon DEF StandsFor
  <2> HIDE DEF before, latest
  <2> QED
    BY <2>1, <2>2, <2>3, <2>4, Zenon
<1>5. ASSUME NEW row, NEW i, NEW w PROVE Fits(r, row, i, w)' <=> Fits(r, row, i, w)
  <2>0. \A x : Sees(r, row, i, x)' = Sees(r, row, i, x)
    BY <1>4, Zenon DEF Sees
  <2> DEFINE s == parseCalculates(metrics.calculates).script[metrics.fields[i].name]
             sees == [x \in {s.l, s.r} |-> Sees(r, row, i, x)]
  <2>1. sees' = sees
    BY <2>0, Zenon
  <2> DEFINE maps == parseCalculates(metrics.calculates)
             field == metrics.fields[i]
             own(m, f) == AskedFor(r, IF f.name \in DOMAIN m.alias THEN m.alias[f.name] ELSE f.name)
             value(m, f, c, o) == IF f.name \in DOMAIN m.script /\ runScriptOn(m.script[f.name], c).ok
                                    THEN runScriptOn(m.script[f.name], c).v ELSE o
  <2>2. ValueOf(r, row, i) = value(maps, field, sees, own(maps, field))
    BY Zenon DEF ValueOf
  <2>3. ValueOf(r, row, i)' = value(maps', field', sees', own(maps, field)')
    BY Zenon DEF ValueOf
  <2>4. maps' = maps /\ field' = field /\ own(maps, field)' = own(maps, field)
    BY <1>3, Zenon
  <2>5. ValueOf(r, row, i)' = ValueOf(r, row, i)
    <3> HIDE DEF maps, field, own, value, sees
    <3> QED
      BY <2>1, <2>2, <2>3, <2>4, Zenon
  <2> HIDE DEF maps, field, own, value, sees
  <2>6. \A v, f : SaysNumber(v, f, w)' <=> SaysNumber(v, f, w)
    BY Zenon DEF SaysNumber
  <2>7. Says(r, row, i, w)' <=> Says(r, row, i, w)
    <3>1. PICK v : v = ValueOf(r, row, i) /\ v = ValueOf(r, row, i)'
      BY <2>5, Zenon
    <3>2. PICK f : f = metrics.fields[i].name
      BY Zenon
    <3>3. SaysNumber(v, f, w)' <=> SaysNumber(v, f, w)
      BY <2>6, Zenon
    <3> QED
      BY <3>1, <3>2, <3>3, Zenon DEF Says
  <2>8. Misread(r, row, i)' <=> Misread(r, row, i)
    BY <1>4, <2>5, ZenonT(40) DEF Misread
  <2> QED
    BY <2>7, <2>8, Zenon DEF Fits
<1>6. ASSUME NEW row PROVE Tells(r, row)' = Tells(r, row)
  <2>1. Tells(r, row)' <=> Tells(r, row)
    BY <1>5, Zenon DEF Tells, Fits
  <2> QED
    BY <2>1, Zenon DEF Tells
<1>7. ASSUME NEW row PROVE SoFar(r, row)' = SoFar(r, row)
  <2>1. SoFar(r, row)' <=> SoFar(r, row)
    BY <1>5, Zenon DEF SoFar
  <2> QED
    BY <2>1, Zenon DEF SoFar
<1>8. \A row : Seen(r, row)' = Seen(r, row)
  BY <1>2, <1>4, Zenon DEF Seen
<1> QED
  BY <1>6, <1>7, <1>8, Zenon

\* Where f leads: to the nodes that answered.
LEMMA OrdersLead ==
  ASSUME NEW f \in Orders, NEW q \in DOMAIN f, metrics.protocol = "redis"
  PROVE  f[q] \in Answered
<1>1. f \in [DOMAIN response.rows -> Answered]
  BY Zenon DEF Orders, Matches, Sources, AnyOrder, Bijection, Injection
<1> QED
  BY <1>1, Zenon

\* No success, nothing to show.
LEMMA NoSuccess ==
  ASSUME Truth, UNCHANGED metrics, response'.code # "success"
  PROVE  Truth'
  BY Zenon DEF Truth, LaidOut

\* The rows stay as they were gathered.
LEMMA StillGathered ==
  ASSUME Truth, UNCHANGED <<metrics, answer>>, response.code = "success", response'.rows = response.rows,
         pc \notin {"send", "done"}, pc' \notin {"calculate", "send", "done"},
         metrics.protocol = "redis" => Answered' = Answered /\ \A n \in Answered : node'[n] = node[n]
  PROVE  Truth'
<1>1. LaidOut(metrics)' /\ alias' = alias
  BY Zenon DEF Truth, LaidOut, alias
<1>2. ASSUME alias # <<>> PROVE IsSeq(response'.rows) /\ \E f \in Orders' : Shows(f)'
  <2>1. PICK f \in Orders : Shows(f) /\ IsSeq(response.rows)
    BY <1>2, Zenon DEF Truth
  <2>2. f \in Orders'
    BY Zenon DEF Orders, Matches, Sources, AnyOrder
  <2>3. response.rows = [q \in DOMAIN f |-> Cells(f[q])]
    BY <2>1, Zenon DEF Shows, Gathered
  <2>4. ASSUME NEW q \in DOMAIN f PROVE Cells(f[q])' = Cells(f[q])
    <3>1. metrics.protocol = "redis" => node'[f[q]] = node[f[q]]
      BY OrdersLead, Zenon
    <3> QED
      BY <3>1, StillKnown, Zenon
  <2>5. Gathered(f)'
    BY <2>3, <2>4, Zenon DEF Gathered
  <2>6. Shows(f)'
    BY <2>5, Zenon DEF Shows
  <2> QED
    BY <2>1, <2>2, <2>6, Zenon
<1> QED
  BY <1>1, <1>2, Zenon DEF Truth

\* A collector of another protocol returns the rows of the target's data.
LEMMA ReturnsTruth ==
  ASSUME Truth, metrics.protocol \in Registered \ {"redis"}, UNCHANGED <<metrics, answer>>, pc' = "return",
         alias # <<>> => Gathers(response'.rows)
  PROVE  Truth'
<1>1. LaidOut(metrics)' /\ alias' = alias
  BY Zenon DEF Truth, LaidOut, alias
<1>2. ASSUME alias # <<>> PROVE IsSeq(response'.rows) /\ \E f \in Orders' : Shows(f)'
  <2>1. PICK f \in Matches(DOMAIN metrics.truth) :
          DOMAIN f = DOMAIN metrics.truth /\ response'.rows = [q \in DOMAIN f |-> Cells(f[q])]
    BY <1>2, Zenon DEF Gathers
  <2>2. f \in Orders'
    <3>1. DOMAIN response'.rows = DOMAIN metrics.truth
      BY <2>1, Zenon
    <3> QED
      BY <2>1, <3>1, Zenon DEF Orders, Matches, Sources, AnyOrder
  <2>3. \A q : Cells(q)' = Cells(q)
    BY StillKnown, Zenon
  <2>4. response'.rows = [q \in DOMAIN f |-> Cells(f[q])']
    BY <2>1, <2>3, Zenon
  <2>5. Shows(f)'
    BY <2>4, Zenon DEF Gathered, Shows
  <2>6. Len(metrics.truth) \in Nat /\ DOMAIN metrics.truth = 1 .. Len(metrics.truth)
    BY SeqFacts DEF Truth, LaidOut
  <2>7. response'.rows = [q \in 1 .. Len(metrics.truth) |-> response'.rows[q]]
    BY <2>1, <2>6, Zenon
  <2>8. IsSeq(response'.rows)
    BY <2>6, <2>7, SeqFunction, Zenon
  <2> QED
    BY <2>2, <2>5, <2>8, Zenon
<1> QED
  BY <1>1, <1>2, Zenon DEF Truth

\* The row of a node is what is known of it once it has ended.
LEMMA NodeKnown ==
  ASSUME metrics.protocol = "redis", UNCHANGED metrics, NEW n, NEW end, node'[n] = end, NEW info,
         IF end = "both"
           THEN info = [x \in DOMAIN metrics.truth[n] \cup DOMAIN metrics.clusterInfo |->
                          IF x \in DOMAIN metrics.clusterInfo
                            THEN metrics.clusterInfo[x] ELSE metrics.truth[n][x]]
           ELSE info = metrics.truth[n]
  PROVE  addValueRow(info, Text(n), alias) = Cells(n)'
<1> DEFINE values == Put(Put(info, ResponseTime, Millis), "identity", Text(n))
<1>1. addValueRow(info, Text(n), alias) = [i \in DOMAIN alias |-> Told(values, alias[i])]
  BY Zenon DEF addValueRow, RowOf, Told
<1>2. alias' = alias
  BY Zenon DEF alias
<1>3. ASSUME NEW x
      PROVE  Told(values, x) = IF x = "identity" THEN Text(n) ELSE IF x = ResponseTime THEN Millis ELSE Told(info, x)
  BY Zenon DEF Told, Put
<1>4. ASSUME NEW x
      PROVE  Known(n, x)' = IF x = ResponseTime THEN Millis
                            ELSE IF x = "identity" THEN Text(n)
                            ELSE IF end = "both" /\ x \in DOMAIN metrics.clusterInfo
                              THEN metrics.clusterInfo[x] ELSE Told(metrics.truth[n], x)
  <2>1. metrics.protocol # "http"
    OBVIOUS
  <2> QED
    BY <2>1, Zenon DEF Known
<1>5. ASSUME NEW x
      PROVE  Told(info, x) = IF end = "both" /\ x \in DOMAIN metrics.clusterInfo
                               THEN metrics.clusterInfo[x] ELSE Told(metrics.truth[n], x)
  <2>1. CASE end = "both"
    BY <2>1, Zenon DEF Told
  <2>2. CASE end # "both"
    BY <2>2, Zenon
  <2> QED
    BY <2>1, <2>2
<1>6. ResponseTime # "identity"
  BY DEF ResponseTime
<1>7. ASSUME NEW x PROVE Told(values, x) = Known(n, x)'
  BY <1>3, <1>4, <1>5, <1>6, Zenon
<1> HIDE DEF values
<1> QED
  BY <1>1, <1>2, <1>7, Zenon DEF Cells

\* A node adds its row.
LEMMA RowAdded ==
  ASSUME IInv, Truth, NEW n \in Nodes, node[n] \notin {"none"} \cup NodeEnds,
         NEW end \in {"row", "both"}, NEW info, AddRow(n, info, end), UNCHANGED answer,
         IF end = "both"
           THEN info = [x \in DOMAIN metrics.truth[n] \cup DOMAIN metrics.clusterInfo |->
                          IF x \in DOMAIN metrics.clusterInfo
                            THEN metrics.clusterInfo[x] ELSE metrics.truth[n][x]]
           ELSE info = metrics.truth[n]
  PROVE  Truth'
<1>1. /\ metrics.protocol = "redis" /\ pc \in {"slaves", "wait", "ask"}
      /\ node \in [Nodes -> {"none", "dial", "handshake", "target", "info", "cluster"} \cup NodeEnds]
  BY Zenon DEF IInv, Path, Typed
<1>2. /\ node'[n] = end /\ \A m \in Nodes \ {n} : node'[m] = node[m]
      /\ UNCHANGED <<metrics, pc>>
  BY <1>1, Zenon DEF AddRow, Moves
<1>3. response.code = "success"
  BY <1>1, Zenon DEF IInv, Earned, Returned, Common
<1>4. LaidOut(metrics)' /\ alias' = alias
  BY <1>2, Zenon DEF Truth, LaidOut, alias
<1>5. n \notin Answered /\ Answered' = Answered \cup {n} /\ \A m \in Answered : m \in Nodes \ {n}
  <2>1. n \notin Answered
    BY Zenon DEF Answered, NodeEnds
  <2>2. Answered' = Answered \cup {n}
    BY <1>2, Zenon DEF Answered
  <2> QED
    BY <2>1, <2>2, Zenon DEF Answered
<1>6. ASSUME alias # <<>> PROVE IsSeq(response'.rows) /\ \E g \in Orders' : Shows(g)'
  <2> DEFINE row == addValueRow(info, Text(n), alias)
             len == Len(response.rows)
  <2>1. PICK f \in Orders : Shows(f) /\ IsSeq(response.rows)
    BY <1>3, <1>6, Zenon DEF Truth
  <2>2. /\ \A q \in DOMAIN response.rows : response.rows[q] = Cells(f[q])
        /\ f \in [DOMAIN response.rows -> Answered]
        /\ \A a, b \in DOMAIN response.rows : f[a] = f[b] => a = b
        /\ \A m \in Answered : \E q \in DOMAIN response.rows : f[q] = m
    <3>1. f \in Bijection(DOMAIN response.rows, Answered)
      BY <1>1, Zenon DEF Orders, Matches, Sources, AnyOrder
    <3>2. Gathered(f)
      BY <1>1, <2>1, Zenon DEF Shows
    <3>3. \A q \in DOMAIN f : response.rows[q] = Cells(f[q])
      BY <3>2, Zenon DEF Gathered
    <3>4. f \in [DOMAIN response.rows -> Answered] /\ DOMAIN f = DOMAIN response.rows
      BY <3>1, Zenon DEF Bijection, Injection
    <3> QED
      BY <3>1, <3>3, <3>4, Zenon DEF Bijection, Injection, Surjection, IsInjective
  <2>3. response'.rows = Append(response.rows, row)
    BY DEF AddRow, IInv, Typed, Formed, Response
  <2> HIDE DEF row
  <2>4. /\ len \in Nat /\ DOMAIN response.rows = 1 .. len
        /\ IsSeq(response'.rows) /\ DOMAIN response'.rows = 1 .. len + 1 /\ Len(response'.rows) = len + 1
        /\ response'.rows[len + 1] = row /\ \A q \in 1 .. len : response'.rows[q] = response.rows[q]
    BY <2>1, <2>3, SeqFacts, SeqAppend, SMTT(30)
  <2> HIDE DEF len
  <2>5. PICK g : g = [q \in 1 .. len + 1 |-> IF q <= len THEN f[q] ELSE n]
    BY Zenon
  <2>6. /\ DOMAIN g = 1 .. len + 1 /\ g[len + 1] = n /\ \A q \in 1 .. len : g[q] = f[q]
        /\ \A q \in 1 .. len : f[q] \in Answered
        /\ \A q \in 1 .. len + 1 : q \in 1 .. len \/ q = len + 1
        /\ 1 .. len \subseteq 1 .. len + 1 /\ len + 1 \in 1 .. len + 1
    BY <2>2, <2>4, <2>5
  <2>7. g \in Orders'
    <3>1. g \in [1 .. len + 1 -> Answered \cup {n}]
      BY <2>5, <2>6, Zenon
    <3>2. IsInjective(g)
      <4>0. \A a, b \in 1 .. len : f[a] = f[b] => a = b
        BY <2>2, <2>4, Zenon
      <4> SUFFICES ASSUME NEW a \in 1 .. len + 1, NEW b \in 1 .. len + 1, g[a] = g[b] PROVE a = b
        BY <2>6, Zenon DEF IsInjective
      <4>1. CASE a \in 1 .. len /\ b \in 1 .. len
        BY <2>6, <4>0, <4>1, Zenon
      <4>2. CASE a \notin 1 .. len \/ b \notin 1 .. len
        BY <1>5, <2>6, <4>2, Zenon
      <4> QED
        BY <4>1, <4>2, Zenon
    <3>3. \A m \in Answered \cup {n} : \E q \in 1 .. len + 1 : g[q] = m
      BY <2>2, <2>4, <2>6, Zenon
    <3>4. g \in Bijection(DOMAIN response'.rows, Answered')
      BY <1>5, <2>4, <3>1, <3>2, <3>3, ZenonT(40) DEF Bijection, Injection, Surjection
    <3> QED
      BY <1>1, <1>2, <3>4, Zenon DEF Orders, Matches, Sources, AnyOrder
  <2>8. ASSUME NEW q \in 1 .. len PROVE response'.rows[q] = Cells(g[q])'
    <3>1. f[q] \in Nodes \ {n}
      BY <1>5, <2>6, Zenon
    <3>2. Cells(f[q])' = Cells(f[q])
      BY <1>2, <3>1, StillKnown, Zenon
    <3>3. response'.rows[q] = Cells(f[q])
      BY <2>2, <2>4, Zenon
    <3> QED
      BY <2>6, <3>2, <3>3, ZenonT(40)
  <2>9. response'.rows[len + 1] = Cells(n)'
    <3>1. row = Cells(n)'
      BY <1>1, <1>2, NodeKnown, Zenon DEF row
    <3> QED
      BY <2>4, <3>1, Zenon
  <2>10. ASSUME NEW q \in 1 .. len + 1 PROVE response'.rows[q] = Cells(g[q])'
    BY <2>6, <2>8, <2>9, Zenon
  <2>11. Gathered(g)'
    <3>1. response'.rows = [q \in DOMAIN g |-> response'.rows[q]]
      BY <2>4, <2>6 DEF IsSeq
    <3> QED
      BY <2>6, <2>10, <3>1, ZenonT(40) DEF Gathered
  <2>12. Shows(g)'
    BY <1>1, <1>2, <2>11, Zenon DEF Shows
  <2> QED
    BY <2>4, <2>7, <2>12, ZenonT(40)
<1> QED
  BY <1>4, <1>6, Zenon DEF Truth

\* CalculateFields begins, with nothing or with the first row.
LEMMA BeginTruth ==
  ASSUME IInv, Truth, BeginCalculate
  PROVE  Truth'
<1>1. /\ UNCHANGED <<metrics, answer, node>> /\ pc = "return"
      /\ LaidOut(metrics)' /\ alias' = alias /\ Answered' = Answered
  BY Zenon DEF BeginCalculate, httpVars, redisVars, Truth, LaidOut, alias, Answered
<1>2. CASE response.code # "success"
  <2>1. UNCHANGED response
    BY <1>2, Zenon DEF BeginCalculate
  <2> QED
    BY <1>1, <1>2, <2>1, NoSuccess, Zenon
<1>3. CASE response.code = "success" /\ alias # <<>>
  <2>1. PICK f \in Orders : Shows(f) /\ IsSeq(response.rows)
    BY <1>3, Zenon DEF Truth
  <2>2. /\ DOMAIN f = DOMAIN response.rows /\ response.rows = [q \in DOMAIN f |-> Cells(f[q])]
        /\ \A q \in DOMAIN f : response.rows[q] = Cells(f[q])
    BY <1>1, <2>1, Zenon DEF Shows, Gathered
  <2>3. CASE response.rows = <<>>
    <3>1. Calculated(<<>>)
      BY <1>3, <2>3, Zenon DEF BeginCalculate
    <3>2. /\ response'.fields = fieldNames(metrics) /\ response'.rows = <<>> /\ pc' = "send"
      BY <3>1 DEF Calculated, IInv, Typed, Formed, Response
    <3>3. fieldNames(metrics)' = fieldNames(metrics) /\ response'.rows = response.rows /\ DOMAIN f = {}
      BY <1>1, <2>2, <2>3, <3>2, SeqEmpty, SMTT(30) DEF fieldNames
    <3>4. f \in Orders'
      BY <1>1, <3>3, Zenon DEF Orders, Matches, Sources, AnyOrder
    <3>5. Made(f)'
      BY <1>1, <2>2, <3>2, <3>3, Zenon DEF Made, fieldNames
    <3>6. Shows(f)'
      BY <3>2, <3>5, Zenon DEF Shows
    <3> QED
      BY <1>1, <2>1, <3>3, <3>4, <3>6, ZenonT(40) DEF Truth
  <2>4. CASE response.rows # <<>>
    <3>1. /\ pc' = "calculate" /\ UNCHANGED response
          /\ partial' = Partial(<<>>, <<>>, contextOf(metrics, response.rows[1]))
      BY <1>3, <2>4, Zenon DEF BeginCalculate
    <3>2. /\ partial'.rows = <<>> /\ partial'.row = <<>>
          /\ partial'.context = contextOf(metrics, response.rows[1])
      BY <3>1, Zenon DEF Partial
    <3>3. 1 \in DOMAIN f /\ Len(partial'.rows) + 1 = 1 /\ 1 .. Len(partial'.rows) = {}
      BY <2>1, <2>2, <2>4, <3>2, SeqFacts, SeqEmpty, SMTT(30) DEF IsSeq
    <3>4. /\ alias \in Seq(STRING) /\ IsInjective(alias)
          /\ metrics.fields \in Seq([name : STRING, type : STRING])
      BY Zenon DEF Truth, LaidOut, alias
    <3>5. SoFar(f[1], <<>>) /\ contextOf(metrics, response.rows[1]) = Seen(f[1], <<>>)
      BY <2>2, <3>3, <3>4, RowStarts, Zenon
    <3>6. \A row : SoFar(f[1], row)' = SoFar(f[1], row) /\ Seen(f[1], row)' = Seen(f[1], row)
      BY <1>1, StillTold, Zenon
    <3>7. SoFar(f[1], partial.row)' /\ partial'.context = Seen(f[1], partial.row)'
      BY <3>2, <3>5, <3>6, Zenon
    <3>8. Making(f)'
      BY <3>2, <3>3, <3>7, SeqEmpty, Zenon DEF Making
    <3>9. ASSUME NEW r PROVE Cells(r)' = Cells(r)
      BY <1>1, StillKnown, Zenon
    <3>10. Gathered(f)' /\ f \in Orders'
      BY <1>1, <2>2, <3>1, <3>9, Zenon DEF Gathered, Orders, Matches, Sources, AnyOrder
    <3>11. Shows(f)'
      BY <3>1, <3>8, <3>10, Zenon DEF Shows
    <3> QED
      BY <1>1, <2>1, <3>1, <3>10, <3>11, Zenon DEF Truth
  <2> QED
    BY <2>3, <2>4
<1>4. CASE alias = <<>>
  BY <1>1, <1>4, Zenon DEF Truth
<1> QED
  BY <1>2, <1>3, <1>4, Zenon

\* The next field of a row.
LEMMA FieldTruth ==
  ASSUME IInv, Truth, CalculateField
  PROVE  Truth'
<1>1. /\ UNCHANGED <<metrics, answer, node, response, pc>> /\ pc = "calculate" /\ response.code = "success"
      /\ LaidOut(metrics)' /\ alias' = alias /\ Answered' = Answered /\ Orders' = Orders
  BY Zenon DEF CalculateField, collectVars, httpVars, redisVars, Truth, LaidOut, alias, Answered, Orders, Matches,
     Sources, AnyOrder, IInv, Earned
<1>2. ASSUME alias # <<>> PROVE IsSeq(response'.rows) /\ \E f \in Orders' : Shows(f)'
  <2>1. PICK f \in Orders : Shows(f) /\ IsSeq(response.rows)
    BY <1>1, <1>2, Zenon DEF Truth
  <2>2. Gathered(f) /\ Making(f)
    BY <1>1, <2>1, Zenon DEF Shows
  <2>3. PICK r : r = f[Len(partial.rows) + 1]
    BY Zenon
  <2>4. /\ SoFar(r, partial.row) /\ partial.context = Seen(r, partial.row)
        /\ response.rows[Len(partial.rows) + 1] = Cells(r)
    BY <2>2, <2>3, Zenon DEF Making, Gathered
  <2> DEFINE field == metrics.fields[Len(partial.row) + 1]
             value == fieldValue(metrics, rawOf(metrics, Cells(r)), Seen(r, partial.row), field)
  <2>5. /\ Len(partial.row) < Len(metrics.fields)
        /\ partial' = Partial(partial.rows, Append(partial.row, value), extend(Seen(r, partial.row), field, value))
    BY <2>4, Zenon DEF CalculateField
  <2>6. /\ alias \in Seq(STRING) /\ IsInjective(alias)
        /\ metrics.fields \in Seq([name : STRING, type : STRING]) /\ IsSeq(partial.row)
    BY <2>4, Zenon DEF Truth, LaidOut, alias, SoFar
  <2>7. Fits(r, partial.row, Len(partial.row) + 1, value)
    BY <2>5, <2>6, FieldMeant, ZenonT(40)
  <2> HIDE DEF value
  <2>8. /\ SoFar(r, Append(partial.row, value))
        /\ extend(Seen(r, partial.row), field, value) = Seen(r, Append(partial.row, value))
    BY <2>4, <2>5, <2>6, <2>7, FieldMade
  <2>9. partial'.rows = partial.rows /\ partial'.row = Append(partial.row, value)
        /\ partial'.context = Seen(r, Append(partial.row, value))
    BY <2>5, <2>8, Zenon DEF Partial
  <2>10. SoFar(r, partial.row)' /\ partial'.context = Seen(r, partial.row)'
    <3>1. \A row : SoFar(r, row)' = SoFar(r, row) /\ Seen(r, row)' = Seen(r, row)
      BY <1>1, StillTold, Zenon
    <3> QED
      BY <2>8, <2>9, <3>1, Zenon
  <2>11. \A q \in 1 .. Len(partial.rows) : Tells(f[q], partial.rows[q])'
    <3>1. ASSUME NEW q PROVE \A row : Tells(f[q], row)' = Tells(f[q], row)
      BY <1>1, StillTold, Zenon
    <3> QED
      BY <2>2, <2>9, <3>1, Zenon DEF Making
  <2>12. Making(f)'
    BY <2>2, <2>3, <2>9, <2>10, <2>11, ZenonT(40) DEF Making
  <2>13. Gathered(f)'
    <3>1. ASSUME NEW x PROVE Cells(x)' = Cells(x)
      BY <1>1, StillKnown, Zenon
    <3> QED
      BY <1>1, <2>2, <3>1, Zenon DEF Gathered
  <2>14. Shows(f)'
    BY <1>1, <2>12, <2>13, Zenon DEF Shows
  <2> QED
    BY <1>1, <2>1, <2>14, Zenon
<1> QED
  BY <1>1, <1>2, Zenon DEF Truth

\* A complete row: the next one begins, or all are made.
LEMMA RowTruth ==
  ASSUME IInv, Truth, CalculateRow
  PROVE  Truth'
<1>1. /\ UNCHANGED <<metrics, answer, node>> /\ pc = "calculate" /\ response.code = "success"
      /\ LaidOut(metrics)' /\ alias' = alias /\ Answered' = Answered
  BY Zenon DEF CalculateRow, httpVars, redisVars, Truth, LaidOut, alias, Answered, IInv, Earned
<1>2. ASSUME alias # <<>> PROVE IsSeq(response'.rows) /\ \E f \in Orders' : Shows(f)'
  <2>1. PICK f \in Orders : Shows(f) /\ IsSeq(response.rows)
    BY <1>1, <1>2, Zenon DEF Truth
  <2>2. Gathered(f) /\ Making(f)
    BY <1>1, <2>1, Zenon DEF Shows
  <2>3. /\ DOMAIN f = DOMAIN response.rows /\ \A q \in DOMAIN f : response.rows[q] = Cells(f[q])
        /\ DOMAIN response.rows = 1 .. Len(response.rows) /\ Len(response.rows) \in Nat
    BY <2>1, <2>2, SeqFacts, SMTT(30) DEF Gathered
  <2>4. /\ alias \in Seq(STRING) /\ IsInjective(alias)
        /\ metrics.fields \in Seq([name : STRING, type : STRING])
    BY Zenon DEF Truth, LaidOut, alias
  <2> DEFINE rows == Append(partial.rows, partial.row)
             done == Len(partial.rows)
  <2>5. /\ done \in Nat /\ done + 1 \in DOMAIN f
        /\ \A q \in 1 .. done : Tells(f[q], partial.rows[q])
        /\ SoFar(f[done + 1], partial.row)
        /\ IsSeq(rows) /\ Len(rows) = done + 1 /\ DOMAIN rows = 1 .. done + 1
        /\ rows[done + 1] = partial.row /\ \A q \in 1 .. done : rows[q] = partial.rows[q]
    BY <2>2, SeqFacts, SeqAppend, SMTT(30) DEF Making
  <2>6. Tells(f[done + 1], partial.row)
    BY <2>4, <2>5, RowMade, Zenon DEF CalculateRow
  <2>7. \A q \in 1 .. Len(rows) : Tells(f[q], rows[q])
    <3> HIDE DEF rows, done
    <3>1. \A q \in 1 .. done + 1 : q \in 1 .. done \/ q = done + 1
      BY <2>5
    <3> QED
      BY <2>5, <2>6, <3>1, Zenon
  <2>8. ASSUME NEW r
        PROVE  \A row : /\ Tells(r, row)' = Tells(r, row) /\ SoFar(r, row)' = SoFar(r, row)
                        /\ Seen(r, row)' = Seen(r, row)
    BY <1>1, StillTold, Zenon
  <2>9. CASE Len(rows) = Len(response.rows)
    <3>1. Calculated(rows)
      BY <2>9, Zenon DEF CalculateRow
    <3>2. response'.fields = fieldNames(metrics) /\ response'.rows = rows /\ pc' = "send"
      BY <3>1, SMTT(30) DEF Calculated, IInv, Typed, Formed, Response
    <3>3. DOMAIN rows = DOMAIN f /\ DOMAIN f = 1 .. Len(rows)
      BY <2>3, <2>5, <2>9
    <3> HIDE DEF rows
    <3>4. ASSUME NEW q \in DOMAIN f PROVE Tells(f[q], response.rows[q])'
      <4>1. PICK row : row = rows[q]
        BY Zenon
      <4>2. Tells(f[q], row)'
        BY <2>7, <2>8, <3>3, <3>4, <4>1, ZenonT(40)
      <4> QED
        BY <3>2, <4>1, <4>2, Zenon
    <3>5. Made(f)'
      BY <1>1, <3>2, <3>3, <3>4, Zenon DEF Made, fieldNames
    <3>6. f \in Orders'
      BY <1>1, <2>3, <3>2, <3>3, Zenon DEF Orders, Matches, Sources, AnyOrder
    <3>7. Shows(f)'
      BY <3>2, <3>5, Zenon DEF Shows
    <3> QED
      BY <2>5, <3>2, <3>6, <3>7, Zenon
  <2>10. CASE Len(rows) # Len(response.rows)
    <3>1. /\ partial' = Partial(rows, <<>>, contextOf(metrics, response.rows[Len(rows) + 1]))
          /\ UNCHANGED <<response, pc>>
      BY <2>10, Zenon DEF CalculateRow
    <3>2. /\ partial'.rows = rows /\ partial'.row = <<>>
          /\ partial'.context = contextOf(metrics, response.rows[Len(rows) + 1])
      BY <3>1, Zenon DEF Partial
    <3>3. Len(rows) + 1 \in DOMAIN f
      BY <2>3, <2>5, <2>10, SMTT(30)
    <3> HIDE DEF rows
    <3>4. PICK r : r = f[Len(rows) + 1]
      BY Zenon
    <3>5. SoFar(r, <<>>) /\ partial'.context = Seen(r, <<>>)
      BY <2>3, <2>4, <3>2, <3>3, <3>4, RowStarts, ZenonT(40)
    <3>6. SoFar(r, partial.row)' /\ partial'.context = Seen(r, partial.row)'
      BY <2>8, <3>2, <3>5, Zenon
    <3>7. ASSUME NEW q \in 1 .. Len(partial'.rows) PROVE Tells(f[q], partial.rows[q])'
      <4>1. PICK row : row = rows[q]
        BY Zenon
      <4>2. Tells(f[q], row)
        BY <2>7, <3>2, <3>7, <4>1, ZenonT(40)
      <4>3. Tells(f[q], row)'
        BY <2>8, <4>2, Zenon
      <4> QED
        BY <3>2, <4>1, <4>3, Zenon
    <3>8. Making(f)'
      BY <2>5, <3>2, <3>3, <3>4, <3>6, <3>7, ZenonT(40) DEF Making
    <3>9. ASSUME NEW x PROVE Cells(x)' = Cells(x)
      BY <1>1, StillKnown, Zenon
    <3>10. Gathered(f)' /\ f \in Orders'
      BY <1>1, <2>2, <3>1, <3>9, Zenon DEF Gathered, Orders, Matches, Sources, AnyOrder
    <3>11. Shows(f)'
      BY <1>1, <3>1, <3>8, <3>10, Zenon DEF Shows
    <3> QED
      BY <2>1, <3>1, <3>10, <3>11, Zenon
  <2> QED
    BY <2>9, <2>10
<1> QED
  BY <1>1, <1>2, Zenon DEF Truth

\* The record is sent.
LEMMA SendTruth ==
  ASSUME IInv, Truth, SendResult
  PROVE  Truth'
<1>1. /\ UNCHANGED <<metrics, answer, node, response>> /\ pc = "send" /\ pc' = "done"
      /\ record' = createArrowRecordBatch(response.fields, response.rows)
      /\ LaidOut(metrics)' /\ alias' = alias /\ Orders' = Orders
  BY Zenon DEF SendResult, Go, httpVars, redisVars, Truth, LaidOut, alias, Answered, Orders, Matches, Sources, AnyOrder
<1>2. ASSUME NEW f, Made(f) PROVE Made(f)'
  <2>1. ASSUME NEW r PROVE \A row : Tells(r, row)' = Tells(r, row)
    BY <1>1, StillTold, Zenon
  <2> QED
    BY <1>1, <1>2, <2>1, Zenon DEF Made, fieldNames
<1>3. \A f : Shows(f) => Shows(f)'
  BY <1>1, <1>2, Zenon DEF Shows
<1> QED
  BY <1>1, <1>3, Zenon DEF Truth

\* A step of something else.
LEMMA ElseTruth ==
  ASSUME Truth, UNCHANGED <<metrics, answer, node, response, pc, partial, record>>
  PROVE  Truth'
<1>1. LaidOut(metrics)' /\ alias' = alias /\ Orders' = Orders
  BY Zenon DEF Truth, LaidOut, alias, Answered, Orders, Matches, Sources, AnyOrder
<1>2. ASSUME NEW r
      PROVE  /\ \A row : Tells(r, row)' = Tells(r, row)
             /\ \A row : SoFar(r, row)' = SoFar(r, row)
             /\ \A row : Seen(r, row)' = Seen(r, row)
  BY StillTold, Zenon
<1>3. ASSUME NEW r PROVE Cells(r)' = Cells(r)
  BY StillKnown, Zenon
<1>4. ASSUME NEW f, Shows(f) PROVE Shows(f)'
  <2>1. Gathered(f) => Gathered(f)'
    BY <1>3, Zenon DEF Gathered
  <2>2. Made(f) => Made(f)'
    <3>1. fieldNames(metrics)' = fieldNames(metrics)
      BY Zenon DEF fieldNames
    <3>2. ASSUME NEW q, Tells(f[q], response.rows[q]) PROVE Tells(f[q], response.rows[q])'
      BY <1>2, <3>2, Zenon
    <3> QED
      BY <3>1, <3>2, Zenon DEF Made
  <2>3. Making(f) => Making(f)'
    <3>1. PICK r : r = f[Len(partial.rows) + 1]
      BY Zenon
    <3>2. /\ SoFar(r, partial.row) => SoFar(r, partial.row)'
          /\ Seen(r, partial.row)' = Seen(r, partial.row)
      BY <1>2, Zenon
    <3>3. ASSUME NEW q, Tells(f[q], partial.rows[q]) PROVE Tells(f[q], partial.rows[q])'
      BY <1>2, <3>3, Zenon
    <3> QED
      BY <3>1, <3>2, <3>3, Zenon DEF Making
  <2> QED
    BY <1>4, <2>1, <2>2, <2>3, Zenon DEF Shows
<1> QED
  BY <1>1, <1>4, Zenon DEF Truth

\* A step that brings no success.
Quiet == UNCHANGED metrics /\ response'.code # "success"

\* A failure is quiet, and so is going on.
LEMMA Failing == ASSUME NEW r, NEW code, code # "success", Fail(r, code) PROVE Quiet
<1>1. response' = [code |-> code, fields |-> <<>>, rows |-> <<>>, at |-> pc] /\ UNCHANGED metrics
  BY Zenon DEF Fail, Return, Response
<1>2. response'.code = code
  BY <1>1, Zenon
<1> QED
  BY <1>1, <1>2, Zenon DEF Quiet

\* Steps that only go on have no response yet.
LEMMA Going ==
  ASSUME response.code # "success"
  PROVE  /\ \A p : Go(p) => Quiet
         /\ \A r, p : Opens(r, p) => Quiet
         /\ \A r, c, p : OpensDeferred(r, c, p) => Quiet
  BY Zenon DEF Go, Opens, OpensDeferred, Quiet

\* What a return returns.
LEMMA Returning ==
  ASSUME NEW r, NEW code, NEW fields, NEW rows, Return(r, code, fields, rows)
  PROVE  response'.code = code /\ response'.rows = rows /\ pc' = "return" /\ UNCHANGED metrics
<1>1. response' = [code |-> code, fields |-> fields, rows |-> rows, at |-> pc]
  BY Zenon DEF Return, Response
<1>2. response'.code = code /\ response'.rows = rows
  BY <1>1, Zenon
<1> QED
  BY <1>2, Zenon DEF Return

\* Before it returns, a collector other than that of Redis has no success.
LEMMA NotYet ==
  ASSUME IInv, pc \notin {"return", "calculate", "send", "done"}, metrics.protocol # "redis" \/ pc = "collect"
  PROVE  response.code # "success"
  BY Zenon DEF IInv, Earned, Returned, Common

\* The SSH collector.
LEMMA SshTruth ==
  ASSUME IInv, Truth, SshCollect, UNCHANGED answer
  PROVE  Truth'
<1> USE DEF At
<1>1. metrics.protocol = "ssh" /\ response.code # "success"
  <2>1. metrics.protocol = "ssh" /\ pc \notin {"return", "calculate", "send", "done"}
    BY Zenon DEF SshCollect, CreateSSHClientConfig, DialWithProxy, DialWithContext, dialViaProxy,
       executeSSHScript, createSuccessResponseWithResult
  <2> QED
    BY <2>1, NotYet, Zenon
<1>2. CASE createSuccessResponseWithResult
  <2>1. response'.rows = sshRows /\ pc' = "return" /\ UNCHANGED metrics
    BY <1>2, Returning, Zenon DEF createSuccessResponseWithResult
  <2>2. alias # <<>> => Gathers(sshRows)
    BY <1>1, SshParsed, AllGathered, Zenon DEF Truth, AnyOrder
  <2> QED
    BY <1>1, <2>1, <2>2, ReturnsTruth, Zenon DEF Registered
<1>3. CASE CreateSSHClientConfig \/ DialWithProxy \/ DialWithContext \/ dialViaProxy \/ executeSSHScript
  <2>1. Quiet
    <3>1. CASE CreateSSHClientConfig \/ DialWithProxy
      BY <1>1, <3>1, Failing, Going, Zenon DEF CreateSSHClientConfig, DialWithProxy
    <3>2. CASE DialWithContext
      BY <1>1, <3>2, Failing, Going, Zenon DEF DialWithContext
    <3>3. CASE dialViaProxy
      BY <1>1, <3>3, Failing, Going, Zenon DEF dialViaProxy
    <3>4. CASE executeSSHScript
      BY <1>1, <3>4, Failing, Going, Zenon DEF executeSSHScript
    <3> QED
      BY <1>3, <3>1, <3>2, <3>3, <3>4, Zenon
  <2> QED
    BY <2>1, NoSuccess, Zenon DEF Quiet
<1> QED
  BY <1>2, <1>3, Zenon DEF SshCollect

\* The JDBC collector.
LEMMA JdbcTruth ==
  ASSUME IInv, Truth, JdbcCollect, UNCHANGED answer
  PROVE  Truth'
<1> USE DEF At
<1>1. metrics.protocol = "jdbc" /\ response.code # "success"
  <2>1. metrics.protocol = "jdbc" /\ pc \notin {"return", "calculate", "send", "done"}
    BY Zenon DEF JdbcCollect, JdbcStart, startSSHTunnel, Listen, constructDatabaseURL, getConnection, Dial, Query
  <2> QED
    BY <2>1, NotYet, Zenon
<1>2. CASE queried.ok /\ Return({}, "success", queried.fields, addResponseTime(queried.rows, alias))
  <2>1. response'.rows = addResponseTime(queried.rows, alias) /\ pc' = "return" /\ UNCHANGED metrics
    BY <1>2, Returning, Zenon
  <2>2. alias # <<>> => Gathers(addResponseTime(queried.rows, alias))
    BY <1>1, <1>2, JdbcParsed, AllGathered, Zenon DEF Truth, AnyOrder
  <2> QED
    BY <1>1, <2>1, <2>2, ReturnsTruth, Zenon DEF Registered
<1>3. CASE Quiet
  BY <1>3, NoSuccess, Zenon DEF Quiet
<1>4. CASE JdbcStart
  BY <1>1, <1>3, <1>4, Failing, Going, Zenon DEF JdbcStart, Panic
<1>5. CASE startSSHTunnel
  BY <1>1, <1>3, <1>5, Failing, Going, Zenon DEF startSSHTunnel, Listen
<1>6. CASE constructDatabaseURL
  BY <1>1, <1>3, <1>6, Failing, Going, Zenon DEF constructDatabaseURL
<1>7. CASE getConnection
  BY <1>1, <1>3, <1>7, Failing, Going, Zenon DEF getConnection
<1>8. CASE Dial
  BY <1>1, <1>3, <1>8, Zenon DEF Dial, collectVars, Quiet
<1>9. CASE Query
  BY <1>1, <1>2, <1>3, <1>9, Failing, Going, Zenon DEF Query
<1> QED
  BY <1>4, <1>5, <1>6, <1>7, <1>8, <1>9, Zenon DEF JdbcCollect

\* The HTTP collector.
LEMMA HttpTruth ==
  ASSUME IInv, Truth, HttpCollect
  PROVE  Truth'
<1> USE DEF At
<1>1. metrics.protocol = "http" /\ response.code # "success"
  <2>1. metrics.protocol = "http" /\ pc \notin {"return", "calculate", "send", "done"}
    BY Zenon DEF HttpCollect, createRequest, Do, handleDigestAuth, ReadAll, parseResponse
  <2> QED
    BY <2>1, NotYet, Zenon
<1>2. CASE Quiet
  BY <1>2, NoSuccess, Zenon DEF Quiet
<1>3. ASSUME NEW rows \in httpRows, UNCHANGED httpVars,
             Return({}, "success", alias, fillCommonFields(rows, alias, answer.status))
      PROVE  Truth'
  <2>1. /\ response'.rows = fillCommonFields(rows, alias, answer.status) /\ pc' = "return"
        /\ UNCHANGED <<metrics, answer>>
    BY <1>3, Returning, Zenon DEF httpVars
  <2>2. alias # <<>> => Gathers(fillCommonFields(rows, alias, answer.status))
    BY <1>1, <1>3, HttpParsed, Zenon DEF Truth
  <2> QED
    BY <1>1, <2>1, <2>2, ReturnsTruth, Zenon DEF Registered
<1>4. CASE createRequest
  BY <1>1, <1>2, <1>4, Failing, Going, ZenonT(40) DEF createRequest, Panic
<1>5. CASE Do
  BY <1>1, <1>2, <1>5, Failing, Going, ZenonT(40) DEF Do
<1>6. CASE handleDigestAuth
  BY <1>1, <1>2, <1>6, Failing, Going, ZenonT(40) DEF handleDigestAuth
<1>7. CASE ReadAll
  BY <1>1, <1>2, <1>7, Failing, Going, ZenonT(40) DEF ReadAll
<1>8. CASE parseResponse
  BY <1>1, <1>2, <1>3, <1>8, Failing, Going, ZenonT(40) DEF parseResponse
<1> QED
  BY <1>4, <1>5, <1>6, <1>7, <1>8, Zenon DEF HttpCollect

\* The Milvus collector.
LEMMA MilvusTruth ==
  ASSUME IInv, Truth, MilvusCollect, UNCHANGED answer
  PROVE  Truth'
<1> USE DEF At
<1>1. metrics.protocol = "milvus" /\ response.code # "success"
  <2>1. metrics.protocol = "milvus" /\ pc \notin {"return", "calculate", "send", "done"}
    BY Zenon DEF MilvusCollect
  <2> QED
    BY <2>1, NotYet, Zenon
<1> DEFINE row == milvusRow(metrics.values["version"], metrics.values["host"], metrics.values["port"], alias)
<1>2. CASE Quiet
  BY <1>2, NoSuccess, Zenon DEF Quiet
<1>3. CASE Return({}, "success", <<>>, <<row>>)
  <2>1. response'.rows = <<row>> /\ pc' = "return" /\ UNCHANGED metrics
    BY <1>3, Returning, Zenon
  <2>2. alias # <<>> => Gathers(<<row>>)
    BY <1>1, MilvusParsed, AllGathered, Zenon DEF Truth, AnyOrder
  <2> QED
    BY <1>1, <2>1, <2>2, ReturnsTruth, Zenon DEF Registered
<1> QED
  BY <1>1, <1>2, <1>3, Failing, Going, Zenon DEF MilvusCollect, Panic

\* The Redis collector: it begins with no rows and no answers.
LEMMA RedisTruth ==
  ASSUME IInv, Truth, RedisCollect, UNCHANGED answer
  PROVE  Truth'
<1> USE DEF At
<1>1. metrics.protocol = "redis"
  BY Zenon DEF RedisCollect, createRedisDialer, collectCluster, collectSingle
<1>2. CASE Quiet
  BY <1>2, NoSuccess, Zenon DEF Quiet
<1>3. CASE createRedisDialer
  <2>1. pc = "collect" /\ response.code # "success" /\ UNCHANGED node
    BY <1>3, NotYet, Zenon DEF createRedisDialer
  <2>2. CASE Panic \/ Return({}, "unConnectable", alias, <<>>)
    <3>1. Quiet
      <4>1. Panic => Go("panic")
        BY Zenon DEF Panic
      <4>2. ASSUME Return({}, "unConnectable", alias, <<>>) PROVE Quiet
        <5>1. response'.code = "unConnectable" /\ UNCHANGED metrics
          BY <4>2, Returning
        <5> QED
          BY <5>1, Zenon DEF Quiet
      <4> QED
        BY <2>1, <2>2, <4>1, <4>2, Going, Zenon
    <3> QED
      BY <1>2, <3>1, Zenon
  <2>3. CASE /\ pc' = IF metrics.parse = "cluster" THEN "masters" ELSE "single"
             /\ response' = Response("success", alias, <<>>, pc)
             /\ UNCHANGED metrics
    <3>1. response'.rows = <<>> /\ pc' \in {"masters", "single"}
      BY <2>3, Zenon DEF Response
    <3>2. LaidOut(metrics)'
      BY <2>3, Zenon DEF Truth, LaidOut
    <3>3. Answered' = {}
      BY <1>1, <2>1, Zenon DEF IInv, Path, Answered
    <3>4. /\ <<>> \in [{} -> {}] /\ DOMAIN <<>> = {}
          /\ \A T : <<>> = [q \in {} |-> T]
      OBVIOUS
    <3>5. <<>> \in Orders'
      <4>1. <<>> \in Bijection({}, {})
        BY <3>4, Zenon DEF Bijection, Injection, Surjection, IsInjective
      <4> QED
        BY <1>1, <2>3, <3>1, <3>3, <3>4, <4>1, ZenonT(40) DEF Orders, Matches, Sources, AnyOrder
    <3>6. PICK f \in Orders' : DOMAIN f = {}
      BY <3>4, <3>5, Zenon
    <3>7. Gathered(f)'
      <4>1. [q \in DOMAIN f |-> Cells(f[q])'] = <<>>
        BY <3>6, SeqEmpty
      <4> QED
        BY <3>1, <4>1, Zenon DEF Gathered
    <3>8. Shows(f)'
      BY <3>1, <3>7, Zenon DEF Shows
    <3> QED
      BY <3>1, <3>2, <3>6, <3>8, SeqEmpty, Zenon DEF Truth
  <2> QED
    BY <1>3, <2>2, <2>3, Zenon DEF createRedisDialer
<1>4. ASSUME pc \in {"masters", "slaves", "wait", "single", "ask"} PROVE response.code = "success"
  BY <1>1, <1>4, Zenon DEF IInv, Earned, Returned, Common
<1>5. ASSUME NEW some, NEW p \in {"slaves", "wait", "ask"}, pc \in {"masters", "slaves", "single"},
             Started(some) \/ UNCHANGED node, \A n \in some \cap Nodes : node[n] = "none", Go(p)
      PROVE  Truth'
  <2>1. Answered' = Answered /\ \A n \in Answered : node'[n] = node[n]
    BY <1>5, Zenon DEF Answered, Started
  <2>2. response.code = "success" /\ UNCHANGED <<metrics, response>> /\ pc' = p
    BY <1>4, <1>5, Zenon DEF Go
  <2> QED
    BY <1>5, <2>1, <2>2, StillGathered, Zenon
<1>6. CASE pc \in {"wait", "ask"} /\ Finish
  <2>1. /\ UNCHANGED <<metrics, node>> /\ pc' = "return" /\ response.code = "success"
        /\ response'.rows = response.rows /\ Answered' = Answered
    BY <1>4, <1>6, Zenon DEF Finish, IInv, Typed, Formed, Response, Answered
  <2> QED
    BY <1>6, <2>1, StillGathered, Zenon
<1>7. CASE collectCluster
  <2>1. pc = "masters" => \A n \in Masters \cap Nodes : node[n] = "none"
    BY <1>1, Zenon DEF IInv, Path
  <2>2. pc = "slaves" => \A n \in Slaves \cap Nodes : node[n] = "none"
    BY <1>1, Zenon DEF IInv, Path
  <2>3. CASE pc = "masters" /\ (Started(Masters) \/ UNCHANGED node) /\ Go("slaves")
    BY <1>5, <2>1, <2>3, Zenon
  <2>4. CASE pc = "slaves" /\ (Started(Slaves) \/ UNCHANGED node) /\ Go("wait")
    BY <1>5, <2>2, <2>4, Zenon
  <2> QED
    BY <1>6, <1>7, <2>3, <2>4, Zenon DEF collectCluster
<1>8. CASE collectSingle
  <2>1. pc = "single" => \A n \in Nodes : node[n] = "none"
    BY <1>1, Zenon DEF IInv, Path
  <2>2. CASE pc = "single" /\ Started({CHOOSE n \in Masters : TRUE}) /\ Go("ask")
    BY <1>5, <2>1, <2>2, Zenon
  <2> QED
    BY <1>6, <1>8, <2>2, Zenon DEF collectSingle
<1> QED
  BY <1>3, <1>7, <1>8, Zenon DEF RedisCollect

\* A node: it moves on, or it adds its row.
LEMMA NodeTruth ==
  ASSUME IInv, Truth, NEW n \in Nodes, NodeStep(n)
  PROVE  Truth'
<1>1. Node(n) /\ UNCHANGED answer
  BY Zenon DEF NodeStep, httpVars
<1>2. node[n] \notin {"none"} \cup NodeEnds
  BY <1>1, Zenon DEF Node, Dialer, collectNode, NodeEnds
<1>3. /\ metrics.protocol = "redis" /\ pc \in {"slaves", "wait", "ask"} /\ response.code = "success"
      /\ node \in [Nodes -> {"none", "dial", "handshake", "target", "info", "cluster"} \cup NodeEnds]
  BY <1>2, Zenon DEF IInv, Path, Typed, Earned, Returned, Common
<1>4. ASSUME NEW p \in {"handshake", "target", "info", "cluster", "failed"}, Moves(n, p),
             UNCHANGED <<metrics, pc, response>>
      PROVE  Truth'
  <2>1. node'[n] = p /\ \A m \in Nodes \ {n} : node'[m] = node[m]
    BY <1>3, <1>4, Zenon DEF Moves
  <2>2. n \notin Answered /\ n \notin Answered'
    BY <1>2, <2>1, Zenon DEF Answered, NodeEnds
  <2>3. Answered' = Answered /\ \A m \in Answered : node'[m] = node[m]
    BY <2>1, <2>2, Zenon DEF Answered
  <2> QED
    BY <1>1, <1>3, <1>4, <2>3, StillGathered, SMTT(30)
<1>5. CASE Dialer(n)
  <2>1. UNCHANGED <<metrics, pc, response>>
    BY <1>5, Zenon DEF Dialer, Keeps
  <2>2. PICK p \in {"handshake", "target", "info", "failed"} : Moves(n, p)
    BY <1>5, Zenon DEF Dialer
  <2> QED
    BY <1>4, <2>1, <2>2, Zenon
<1>6. CASE collectNode(n)
  <2>1. ASSUME NEW p \in {"cluster", "failed"}, Moves(n, p), UNCHANGED collectVars PROVE Truth'
    BY <1>4, <2>1, Zenon DEF collectVars
  <2>2. CASE AddRow(n, metrics.truth[n], "row")
    BY <1>1, <1>2, <2>2, RowAdded, Zenon
  <2>3. CASE AddRow(n, [x \in DOMAIN metrics.truth[n] \cup DOMAIN metrics.clusterInfo |->
                          IF x \in DOMAIN metrics.clusterInfo
                            THEN metrics.clusterInfo[x] ELSE metrics.truth[n][x]], "both")
    BY <1>1, <1>2, <2>3, RowAdded, Zenon
  <2> QED
    BY <1>6, <2>1, <2>2, <2>3, Zenon DEF collectNode
<1> QED
  BY <1>1, <1>5, <1>6, Zenon DEF Node

\* Every step keeps the truth.
LEMMA TruthKept == IInv /\ Truth /\ [Next]_vars => Truth'
<1> SUFFICES ASSUME IInv, Truth, [Next]_vars PROVE Truth'
  BY Zenon
<1>1. CASE CollectorFor
  <2>1. Quiet
    <3>1. response.code # "success"
      BY <1>1, Zenon DEF CollectorFor, IInv, Earned, Returned, Common
    <3>2. CASE Go("collect")
      BY <3>1, <3>2, Going, Zenon
    <3>3. CASE response' = Response("unavailable", <<>>, <<>>, pc) /\ UNCHANGED metrics
      <4>1. response'.code = "unavailable"
        BY <3>3, Zenon DEF Response
      <4> QED
        BY <3>3, <4>1, Zenon DEF Quiet
    <3> QED
      BY <1>1, <3>2, <3>3, Zenon DEF CollectorFor
  <2> QED
    BY <2>1, NoSuccess, Zenon DEF Quiet
<1>2. CASE Unwind /\ UNCHANGED <<httpVars, redisVars>>
  <2>1. UNCHANGED <<metrics, answer, node, pc, response>> /\ pc = "return" /\ Answered' = Answered
    BY <1>2, Zenon DEF Unwind, httpVars, redisVars, Answered
  <2>2. CASE response.code = "success"
    BY <2>1, <2>2, StillGathered, ZenonT(40)
  <2>3. CASE response.code # "success"
    BY <2>1, <2>3, NoSuccess, Zenon
  <2> QED
    BY <2>2, <2>3
<1>3. CASE Collecting
  BY <1>2, <1>3, SshTruth, MilvusTruth, HttpTruth, JdbcTruth, RedisTruth, ZenonT(40) DEF Collecting, httpVars
<1>4. CASE Calculate
  BY <1>4, BeginTruth, FieldTruth, RowTruth, ZenonT(40) DEF Calculate
<1>5. CASE TunnelStep(Tunnel) \/ UNCHANGED vars
  <2>1. UNCHANGED <<metrics, answer, node, response, pc, partial, record>>
    BY <1>5, Zenon DEF TunnelStep, Tunnel, runForwarder, ForwardDial, forwardConnection, vars,
       collectVars, httpVars, redisVars
  <2> QED
    BY <2>1, ElseTruth, Zenon
<1> QED
  BY <1>1, <1>3, <1>4, <1>5, SendTruth, NodeTruth, ZenonT(40) DEF Next

\* The record of a success has a row for every row of what was shown.
LEMMA RecordTells ==
  ASSUME IInv, Truth, pc = "done", response.code = "success", alias # <<>>
  PROVE  TellsTheTruth
<1>1. PICK f \in Orders : Shows(f) /\ IsSeq(response.rows)
  BY Zenon DEF Truth
<1>2. /\ response.fields = fieldNames(metrics) /\ DOMAIN response.rows = DOMAIN f
      /\ record = createArrowRecordBatch(response.fields, response.rows)
      /\ \A q \in DOMAIN f : Tells(f[q], response.rows[q])
  BY <1>1, Zenon DEF Shows, Made
<1>3. DOMAIN response.fields = DOMAIN metrics.fields
  BY <1>2, Zenon DEF fieldNames
<1> DEFINE rows == response.rows
           cell(r, i) == IF r \in DOMAIN rows /\ i \in DOMAIN rows[r] THEN rows[r][i] ELSE Empty
<1>4. record = [r \in 1 .. (IF rows = <<>> THEN 1 ELSE Len(rows)) |-> [i \in DOMAIN metrics.fields |-> cell(r, i)]]
  BY <1>2, <1>3, Zenon DEF createArrowRecordBatch
<1>5. ASSUME rows # <<>>
      PROVE  DOMAIN record = DOMAIN f /\ \A q \in DOMAIN f : Tells(f[q], record[q])
  <2>1. DOMAIN rows = 1 .. Len(rows)
    BY <1>1, SeqFacts
  <2>2. DOMAIN record = DOMAIN f
    BY <1>2, <1>4, <1>5, <2>1, Zenon
  <2>3. ASSUME NEW q \in DOMAIN f PROVE Tells(f[q], record[q])
    <3>1. record[q] = [i \in DOMAIN metrics.fields |-> cell(q, i)]
      BY <1>2, <1>4, <1>5, <2>1, <2>3, ZenonT(40)
    <3>2. /\ DOMAIN rows[q] = DOMAIN metrics.fields
          /\ \A i \in DOMAIN metrics.fields : Fits(f[q], rows[q], i, rows[q][i])
      BY <1>2, <2>3, Zenon DEF Tells, Fits
    <3>3. \A i \in DOMAIN metrics.fields : record[q][i] = rows[q][i]
      BY <1>2, <2>3, <3>1, <3>2, ZenonT(40)
    <3>4. \A i \in DOMAIN metrics.fields : \A w : Fits(f[q], record[q], i, w) <=> Fits(f[q], rows[q], i, w)
      <4> SUFFICES ASSUME NEW i \in DOMAIN metrics.fields, NEW x
                   PROVE  StandsFor(f[q], record[q], i, x) = StandsFor(f[q], rows[q], i, x)
        BY FitsAgrees, Zenon
      <4> DEFINE before == {j \in 1 .. i - 1 : metrics.fields[j].name = x}
                 latest == CHOOSE j \in before : \A k \in before : k <= j
      <4>1. i \in Nat /\ i >= 1 /\ 1 .. i - 1 \subseteq DOMAIN metrics.fields
        <5>1. metrics.fields \in Seq([name : STRING, type : STRING])
          BY Zenon DEF Truth, LaidOut
        <5> QED
          BY <5>1
      <4>2. before # {} => latest \in before
        <5>1. i - 1 \in Nat /\ before \subseteq 1 .. i - 1
          BY <4>1
        <5> HIDE DEF before
        <5> QED
          BY <5>1, GreatestNat, Zenon
      <4>3. before \subseteq DOMAIN metrics.fields
        BY <4>1, Zenon
      <4>4. \A s : StandsFor(f[q], s, i, x) = IF before = {} THEN AskedFor(f[q], x) ELSE s[latest]
        BY Zenon DEF StandsFor
      <4> HIDE DEF before, latest
      <4> QED
        BY <3>3, <4>2, <4>3, <4>4, ZenonT(40)
    <3>5. DOMAIN record[q] = DOMAIN metrics.fields
      BY <3>1, Zenon
    <3> QED
      BY <3>2, <3>3, <3>4, <3>5, Zenon DEF Tells, Fits
  <2> QED
    BY <2>2, <2>3, Zenon
<1>6. rows = [q \in DOMAIN rows |-> rows[q]]
  BY <1>1 DEF IsSeq
<1>7. CASE Sources = {}
  <2>1. DOMAIN rows = {}
    <3>1. CASE AnyOrder
      <4>1. f \in [DOMAIN rows -> {}]
        BY <1>7, <3>1, Zenon DEF Orders, Matches, Bijection, Injection
      <4> QED
        BY <4>1, Zenon
    <3>2. CASE ~AnyOrder
      BY <1>2, <1>7, <3>2, Zenon DEF Orders, Matches
    <3> QED
      BY <3>1, <3>2
  <2>2. rows = <<>>
    BY <1>6, <2>1, EmptyFunction, Zenon
  <2>3. record = [r \in 1 .. 1 |-> [i \in DOMAIN metrics.fields |-> Empty]]
    BY <1>4, <2>1, <2>2, ZenonT(40)
  <2> DEFINE row == [i \in DOMAIN metrics.fields |-> Empty]
  <2>4. record = <<row>>
    <3> HIDE DEF row
    <3>1. record = [r \in 1 .. 1 |-> row]
      BY <2>3, Zenon DEF row
    <3> QED
      BY <3>1
  <2> QED
    BY <1>7, <2>4, Zenon DEF TellsTheTruth
<1>8. CASE Sources # {}
  <2>1. DOMAIN rows # {}
    <3>1. CASE AnyOrder
      <4>1. f \in Bijection(DOMAIN rows, Sources)
        BY <3>1, Zenon DEF Orders, Matches
      <4> QED
        BY <1>8, <4>1, Zenon DEF Bijection, Surjection
    <3>2. CASE ~AnyOrder
      BY <1>2, <1>8, <3>2, Zenon DEF Orders, Matches
    <3> QED
      BY <3>1, <3>2
  <2>2. rows # <<>>
    BY <2>1, SeqEmpty, Zenon
  <2>3. DOMAIN record = DOMAIN f /\ \A q \in DOMAIN f : Tells(f[q], record[q])
    BY <1>5, <2>2, Zenon
  <2>4. f \in Matches(DOMAIN record)
    BY <1>1, <1>2, <2>3, Zenon DEF Orders
  <2> QED
    BY <1>8, <2>3, <2>4, ZenonT(40) DEF TellsTheTruth
<1> QED
  BY <1>7, <1>8

\* The manager is told what the target knows, whatever the protocol, the fields, scripts
\* and units, and the order in which the nodes of a cluster answer or the families of a
\* Prometheus text come.
THEOREM TellsTheTruthHolds ==
  ASSUME NEW some, \A m \in some : LaidOut(m)
  PROVE  Spec(some) => []TellsTheTruth
<1>1. Init(some) => Truth
  <2> SUFFICES ASSUME Init(some) PROVE Truth
    BY Zenon
  <2>1. metrics \in some /\ response.code = ""
    BY Zenon DEF Init, CollectInit, NoResponse, Response
  <2> QED
    BY <2>1, Zenon DEF Truth
<1>2. IInv /\ Truth => TellsTheTruth
  BY RecordTells, Zenon DEF TellsTheTruth
<1> QED
  BY <1>1, <1>2, CollectInvariant, TruthKept, PTL DEF Spec
=============================================================================
