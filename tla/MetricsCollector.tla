-------------------------- MODULE MetricsCollector --------------------------
(***************************************************************************)
(* The goroutine of CollectMetrics (internal/job/collect/dispatch/         *)
(* metrics_collector.go) for one metrics, from the choice of the collector *)
(* by its protocol to the record the router sends to the manager.  It      *)
(* composes the protocol collectors; the configuration it starts from has  *)
(* its parameters replaced, see JobParams.                                 *)
(***************************************************************************)
EXTENDS SshCollector, HttpCollector, JdbcCollector, RedisCollector, Fields, Functions

VARIABLES
  partial,  \* CalculateFields at work: the rows made, the row in the making, its context
  record    \* the Arrow record sent: rows of cells

vars == <<collectVars, httpVars, jdbcVars, redisVars, partial, record>>

Partial(rows, row, context) == [rows |-> rows, row |-> row, context |-> context]
NoPartial == Partial(<<>>, <<>>, EmptyMap)

Init(some) ==
  /\ CollectInit(some)
  /\ HttpInit
  /\ JdbcInit
  /\ RedisInit
  /\ partial = NoPartial
  /\ record = <<>>

Registered == {"http", "ssh", "jdbc", "redis", "milvus"}

\* CollectorFor: the collector of the protocol, or an error response.
CollectorFor ==
  /\ pc = "start"
  /\ \/ metrics.protocol \in Registered /\ Go("collect")
     \/ /\ metrics.protocol \notin Registered
        /\ response' = Response("unavailable", <<>>, <<>>, pc)
        /\ pc' = "send"
        /\ UNCHANGED <<metrics, open, defers>>
  /\ UNCHANGED <<httpVars, jdbcVars, redisVars, partial, record>>

Collecting ==
  /\ \/ (SshCollect \/ MilvusCollect \/ Unwind) /\ UNCHANGED <<httpVars, jdbcVars, redisVars>>
     \/ HttpCollect /\ UNCHANGED <<jdbcVars, redisVars>>
     \/ JdbcCollect /\ UNCHANGED <<httpVars, redisVars>>
     \/ RedisCollect /\ UNCHANGED <<httpVars, jdbcVars>>
  /\ UNCHANGED <<partial, record>>

\* The response of a success, with the configured fields.
Calculated(rows) ==
  /\ response' = [response EXCEPT !.fields = fieldNames(metrics), !.rows = rows]
  /\ pc' = "send"
  /\ partial' = NoPartial

\* Collect has returned; a success has its fields calculated.
BeginCalculate ==
  /\ pc = "return" /\ defers = <<>>
  /\ \/ response.code # "success" /\ pc' = "send" /\ UNCHANGED <<response, partial>>
     \/ response.code = "success" /\ (response.rows = <<>> \/ alias = <<>>) /\ Calculated(<<>>)
     \/ /\ response.code = "success" /\ response.rows # <<>> /\ alias # <<>>
        /\ pc' = "calculate"
        /\ partial' = Partial(<<>>, <<>>, contextOf(metrics, response.rows[1]))
        /\ UNCHANGED response
  /\ UNCHANGED <<metrics, open, defers, httpVars, jdbcVars, redisVars, record>>

\* The next field of the row.
CalculateField ==
  /\ pc = "calculate" /\ Len(partial.row) < Len(metrics.fields)
  /\ LET field == metrics.fields[Len(partial.row) + 1]
         raw == rawOf(metrics, response.rows[Len(partial.rows) + 1])
     IN \E value \in {fieldValue(metrics, raw, partial.context, field)} :
          partial' = Partial(partial.rows, Append(partial.row, value),
                             extend(partial.context, field, value))
  /\ UNCHANGED <<collectVars, httpVars, jdbcVars, redisVars, record>>

\* The row is complete: the next one, or the end.
CalculateRow ==
  /\ pc = "calculate" /\ Len(partial.row) = Len(metrics.fields)
  /\ LET rows == Append(partial.rows, partial.row)
     IN IF Len(rows) = Len(response.rows)
          THEN Calculated(rows)
          ELSE /\ partial' = Partial(rows, <<>>, contextOf(metrics, response.rows[Len(rows) + 1]))
               /\ UNCHANGED <<response, pc>>
  /\ UNCHANGED <<metrics, open, defers, httpVars, jdbcVars, redisVars, record>>

Calculate == BeginCalculate \/ CalculateField \/ CalculateRow

\* SendResult: the code and the message of the response are not part of the record.
SendResult ==
  /\ pc = "send"
  /\ record' = createArrowRecordBatch(response.fields, response.rows)
  /\ Go("done")
  /\ UNCHANGED <<httpVars, jdbcVars, redisVars, partial>>

NodeStep(n) == Node(n) /\ UNCHANGED <<httpVars, jdbcVars, partial, record>>
TunnelStep(A) == A /\ UNCHANGED <<httpVars, redisVars, partial, record>>

Next ==
  \/ CollectorFor
  \/ Collecting
  \/ Calculate
  \/ SendResult
  \/ \E n \in Nodes : NodeStep(n)
  \/ TunnelStep(Tunnel)

Spec(some) == Init(some) /\ [][Next]_vars

\* The collector waits for a peer and has set no deadline for it.
Waiting ==
  \/ metrics.protocol = "ssh" /\ pc \in SshSilent
  \/ metrics.protocol = "http" /\ pc \in HttpSilent
  \/ metrics.protocol = "jdbc" /\ pc \in JdbcSilent
  \/ \E n \in Nodes : node[n] \in NodeSilent

(***************************************************************************)
(* Fairness: the goroutine runs on, and where the code sets a deadline     *)
(* something comes of every step; a peer the code gives all the time need  *)
(* not answer.  The tunnel's goroutines run on; a dial through a bastion   *)
(* that is closed fails.                                                   *)
(***************************************************************************)
Fairness ==
  /\ WF_vars(CollectorFor \/ (~Waiting /\ Collecting) \/ Calculate \/ SendResult)
  /\ \A n \in Nodes : WF_vars(node[n] \notin NodeSilent /\ NodeStep(n))
  /\ WF_vars(TunnelStep(runForwarder))
  /\ WF_vars(TunnelStep(forwardConnection))
  /\ WF_vars("ssh" \notin open /\ TunnelStep(ForwardDial))

-----------------------------------------------------------------------------
(***************************************************************************)
(* Properties.                                                             *)
(***************************************************************************)

Ended == pc \in {"send", "done"}

TypeOK ==
  /\ response.code \in Codes \cup {""}
  /\ \A x \in open : x \in Nodes \cup {"conn", "proxy", "session", "http", "ssh", "listener", "db", "milvus"}
  /\ requests \in 0 .. 2
  /\ answer.body \in {"none", "open", "read", "closed"}
  /\ forwarder \in {"none", "accept", "ended"}
  /\ link \in {"none", "dialled", "accepted", "forwarding", "closed"}
  /\ \A n \in Nodes : node[n] \in {"none", "dial", "handshake", "target", "info", "cluster"} \cup NodeEnds
  /\ pc = "panic" => ~metrics.present

\* Whatever step fails, a collection that has ended has closed all it opened, but for
\* the connection in the pool of an HTTP client of its own and, when the script's
\* connection was established through a proxy, the connection to that proxy.
NothingLeftOpen ==
  Ended =>
    /\ open \subseteq {"http", "proxy"}
    /\ "http" \in open =>
         \/ answer.body = "read"
         \/ answer.status = 401 /\ (response.at = "read" \/ metrics.empty)
    /\ "proxy" \in open => metrics.proxy # "none" /\ response.at \in {"session", "script", "parse"}

\* What the target's data says of a name.
Told(data, name) == IF name \in DOMAIN data THEN data[name] ELSE NullValue

\* What the target knows under a name, in row r of its data.
Known(r, name) ==
  IF name = ResponseTime THEN Millis
  ELSE IF metrics.protocol = "http" /\ name = StatusCode THEN Status(answer.status)
  ELSE IF metrics.protocol = "redis" /\ name = "identity" THEN Text(r)
  ELSE IF /\ metrics.protocol = "redis" /\ node[r] = "both"
          /\ name \in DOMAIN metrics.clusterInfo THEN metrics.clusterInfo[name]
  ELSE Told(metrics.truth[r], name)

\* What it has been asked for of that.
AskedFor(r, name) == IF \E k \in DOMAIN alias : alias[k] = name THEN Known(r, name) ELSE NullValue

\* What a name stands for in the script of field i of a row: the latest field of that
\* name, or what the target was asked for.
StandsFor(r, row, i, name) ==
  LET before == {j \in 1 .. i - 1 : metrics.fields[j].name = name}
      latest == CHOOSE j \in before : \A k \in before : k <= j
  IN IF before = {} THEN AskedFor(r, name) ELSE row[latest]

\* A script reckons with a number without its unit.
Sees(r, row, i, name) ==
  LET v == StandsFor(r, row, i, name) IN IF v.k = "num" THEN Num(v.n, "") ELSE v

\* The value of field i in row r before its type is looked at: of its script if that has
\* one (runScriptOn is the expression library's), else of its alias or its own name.
ValueOf(r, row, i) ==
  LET field == metrics.fields[i]
      maps == parseCalculates(metrics.calculates)
      own == AskedFor(r, IF field.name \in DOMAIN maps.alias THEN maps.alias[field.name] ELSE field.name)
      script == maps.script[field.name]
      run == runScriptOn(script, [x \in {script.l, script.r} |-> Sees(r, row, i, x)])
  IN IF field.name \in DOMAIN maps.script /\ run.ok THEN run.v ELSE own

\* n of one unit is k of another, by a table that has both; it stays where none has.
Converts(n, from, to, k) ==
  LET tables == {t \in {byteUnits, bitUnits, timeUnits} : {from, to} \subseteq DOMAIN t}
  IN IF from = to \/ tables = {} THEN k = n
     ELSE \E t \in tables : k = (n * t[from]) \div t[to]

\* What a number field is to say of a value: nothing unless that is a number; its own
\* unit comes before the configured one.
SaysNumber(v, field, w) ==
  LET units == parseUnits(metrics.units)
      from == IF v.u = "" THEN units[field].origin ELSE v.u
  IN IF v.k # "num" THEN w = NullValue
     ELSE /\ w.k = "num" /\ w = Num(w.n, "")
          /\ IF field \in DOMAIN units THEN Converts(v.n, from, units[field].new, w.n) ELSE w.n = v.n

\* What field i is to say in row r.
Says(r, row, i, w) ==
  LET field == metrics.fields[i]
      v == ValueOf(r, row, i)
  IN IF v \in {Empty, NullValue} THEN w = NullValue
     ELSE IF field.type = "number" THEN SaysNumber(v, field.name, w)
     ELSE w = v

\* Field i rests on a text that begins like a unit and is read as a number, by its script
\* or for its type: the code makes a zero of it ("Kafka" is 0).
Misread(r, row, i) ==
  LET field == metrics.fields[i]
      maps == parseCalculates(metrics.calculates)
  IN \/ /\ field.name \in DOMAIN maps.script
        /\ \E x \in {maps.script[field.name].l, maps.script[field.name].r} :
             StandsFor(r, row, i, x).k = "unitlike"
     \/ field.type = "number" /\ ValueOf(r, row, i).k = "unitlike"

\* A row of the record tells what the target knows in row r of its data.
Tells(r, row) ==
  /\ DOMAIN row = DOMAIN metrics.fields
  /\ \A i \in DOMAIN metrics.fields : Misread(r, row, i) \/ Says(r, row, i, row[i])

(***************************************************************************)
(* How a target lays its data out, which is the assumption under which the *)
(* record is true: every cell the parser takes for a name is what the      *)
(* target knows under it, and a name without a cell is unknown to it.  The *)
(* names of the aliases differ.                                            *)
(***************************************************************************)

\* The last index of a sequence with this element.
IsLast(seq, j, x) == /\ j \in DOMAIN seq /\ seq[j] = x
                     /\ \A k \in DOMAIN seq : k > j => seq[k] # x

\* Lines: one for every name but the response time, which has none.
LinesLaidOut(m) ==
  /\ Len(m.truth) = 1 /\ Len(m.aliasFields) <= Len(m.lines) + 1
  /\ \A i \in DOMAIN m.aliasFields : m.aliasFields[i] # ResponseTime =>
       LET line == IF \E j \in 1 .. i : m.aliasFields[j] = ResponseTime THEN i - 1 ELSE i
       IN Told(m.truth[1], m.aliasFields[i]) = IF line <= Len(m.lines) THEN m.lines[line] ELSE NullValue

\* A table under a header.
TableLaidOut(m) ==
  LET rows == notBlank(m.lines)
  IN /\ DOMAIN m.truth = DOMAIN rows
     /\ \A r \in DOMAIN rows, i \in DOMAIN m.aliasFields :
          LET told == Told(m.truth[r], m.aliasFields[i])
          IN \/ m.aliasFields[i] = ResponseTime
             \/ \E j \in DOMAIN m.columns :
                  /\ IsLast(m.columns, j, m.aliasFields[i])
                  /\ told = IF j <= Len(rows[r]) THEN rows[r][j] ELSE NullValue
             \/ (\A j \in DOMAIN m.columns : m.columns[j] # m.aliasFields[i]) /\ told = NullValue

\* A result set, with a column for every name.
ResultLaidOut(m, rows) ==
  /\ DOMAIN m.truth = DOMAIN rows
  /\ Len(m.columns) = Len(m.aliasFields) =>
       \A r \in DOMAIN rows :
         /\ DOMAIN rows[r] = DOMAIN m.aliasFields
         /\ \A i \in DOMAIN m.aliasFields : m.aliasFields[i] # ResponseTime =>
              rows[r][i] = Told(m.truth[r], m.aliasFields[i])

\* A result set of keys and values.
KeysLaidOut(m) ==
  LET keys == [r \in DOMAIN m.lines |-> m.lines[r][1]]
  IN /\ Len(m.truth) = 1
     /\ \A i \in DOMAIN m.aliasFields :
          LET told == Told(m.truth[1], m.aliasFields[i])
          IN \/ m.aliasFields[i] = ResponseTime
             \/ \E r \in DOMAIN keys : IsLast(keys, r, Text(m.aliasFields[i])) /\ told = m.lines[r][2]
             \/ (\A r \in DOMAIN keys : keys[r] # Text(m.aliasFields[i])) /\ told = NullValue

\* The rows of a body; of a body without any, one of which nothing is known.
BodyLaidOut(m, rows) ==
  /\ DOMAIN m.truth = IF rows = <<>> THEN {1} ELSE DOMAIN rows
  /\ \A r \in DOMAIN m.truth, i \in DOMAIN m.aliasFields :
       m.aliasFields[i] \notin {ResponseTime, StatusCode} =>
         Told(m.truth[r], m.aliasFields[i]) = IF rows = <<>> THEN NullValue ELSE Told(rows[r], m.aliasFields[i])

SaysWhatItKnows(m) ==
  CASE m.protocol = "ssh" /\ m.parse = "oneRow" -> LinesLaidOut(m)
    [] m.protocol = "ssh" /\ m.parse = "multiRow" -> TableLaidOut(m)
    [] m.protocol = "ssh" /\ m.parse \notin {"oneRow", "multiRow"} -> m.truth = <<>>
    [] m.protocol = "jdbc" /\ m.parse = "oneRow" -> ResultLaidOut(m, SubSeq(m.lines, 1, 1))
    [] m.protocol = "jdbc" /\ m.parse = "multiRow" -> ResultLaidOut(m, m.lines)
    [] m.protocol = "jdbc" /\ m.parse = "columns" -> KeysLaidOut(m)
    [] m.protocol = "jdbc" /\ m.parse = "runScript" ->
         /\ Len(m.aliasFields) = 1
         /\ m.truth = << [x \in {m.aliasFields[1]} |-> Num(Len(m.lines), "")] >>
    [] m.protocol = "http" /\ m.parse = "prometheus" ->
         LET some == kept(m.samples, m.aliasFields) IN BodyLaidOut(m, [r \in DOMAIN some |-> named(some[r])])
    [] m.protocol = "http" /\ m.parse = "website" ->
         BodyLaidOut(m, << [x \in {"keyword"} |-> Num(m.keywords, "")] >>)
    [] m.protocol = "http" /\ m.parse = "header" ->
         BodyLaidOut(m, << [x \in {h \in DOMAIN m.values : m.values[h] # Empty} |-> m.values[x]] >>)
    [] m.protocol = "http" /\ m.parse \notin {"prometheus", "website", "header"} -> BodyLaidOut(m, m.items)
    [] m.protocol = "milvus" -> m.truth = <<m.values>> /\ DOMAIN m.values = {"version", "host", "port"}
    [] OTHER -> TRUE

IsSeq(s) == s \in Seq(Range(s))

LaidOut(m) ==
  /\ m.aliasFields \in Seq(STRING) /\ IsInjective(m.aliasFields)
  /\ m.fields \in Seq([name : STRING, type : STRING])
  /\ m.protocol \in {"ssh", "jdbc"} => IsSeq(m.lines) /\ IsSeq(m.columns)
  /\ m.protocol = "http" => IsSeq(m.items) /\ (m.empty => m.items = <<>> /\ m.samples = <<>> /\ m.keywords = 0)
  /\ m.protocol # "redis" => IsSeq(m.truth)
  /\ m.aliasFields # <<>> => SaysWhatItKnows(m)

\* The nodes of Redis that answered.
Answered == {n \in Nodes : node[n] \in {"row", "both"}}

\* The rows of the data that are to be told, and how n rows may be matched with them: in
\* their order, but for the nodes of a cluster and the families of a Prometheus text.
Sources == IF metrics.protocol = "redis" THEN Answered ELSE DOMAIN metrics.truth
AnyOrder == metrics.protocol = "redis" \/ (metrics.protocol = "http" /\ metrics.parse = "prometheus")
Matches(n) == IF AnyOrder THEN Bijection(n, Sources) ELSE {[q \in Sources |-> q]}

\* The manager is told what the target knows: a successful collection sends a row for
\* every row of the target's data (for every node of a cluster that answered), or one row
\* of empty cells if there are none, and every field has the value its alias, script and
\* unit give it, however the data was laid out in lines, columns, keys, labels or
\* documents.  Nothing is said of a field that rests on a text that begins like a unit.
TellsTheTruth ==
  pc = "done" /\ response.code = "success" /\ alias # <<>> =>
    IF Sources = {}
      THEN record = << [i \in DOMAIN metrics.fields |-> Empty] >>
      ELSE \E f \in Matches(DOMAIN record) :
             DOMAIN f = DOMAIN record /\ \A q \in DOMAIN record : Tells(f[q], record[q])

\* No answer is made up: a success means the target answered the last question - the
\* script ran, the query gave its rows, a body was read while it was open or there was
\* none to read, a node gave its INFO - and an error carries no rows.
SuccessIsAnswered ==
  Ended /\ response.code # "" =>
    IF response.code # "success" THEN response.rows = <<>>
    ELSE /\ metrics.present
         /\ metrics.protocol = "http" => answer.body = "read" \/ (answer.body = "closed" /\ metrics.empty)
         /\ metrics.protocol = "redis" => \E n \in Nodes : node[n] \in {"row", "both"}
         /\ metrics.protocol = "jdbc" => ("db" \notin open /\ queried.ok)

\* A collection ends, or it waits for ever for a peer that has no deadline: the SSH
\* handshake, a session, a script, a channel through a bastion, an HTTP request whose
\* timeout is set to zero.
CollectEnds == <>[](pc \in {"done", "panic"} \/ Waiting)

\* The goroutines of a tunnel end after the collection, and the connection they forward
\* is closed.
TunnelEnds ==
  pc = "done" ~> (forwarder # "accept" /\ link \in {"none", "closed"})
=============================================================================
