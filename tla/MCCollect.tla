----------------------------- MODULE MCCollect ------------------------------
(***************************************************************************)
(* Collections to check: every protocol with the ways it can be configured *)
(* and laid out, and target data with numbers, units, texts, nulls and     *)
(* missing names; and, in behaviours of their own, the jobs of JobParams.  *)
(***************************************************************************)
EXTENDS MetricsCollector, JobParams, SequencesExt

\* The target's data.
Data(a, b) == [x \in {"a", "b"} |-> IF x = "a" THEN a ELSE b]
One == Data(Num(1, ""), Text("up"))
Units == Data(Num(2, "KB"), Num(3, ""))
Odd == Data(UnitLike("Kafka"), NullValue)
Words == Data(Text("x"), Text("up"))
OnlyA == [x \in {"a"} |-> Num(4, "")]
Truths == {<<>>, <<One>>, <<Units>>, <<Odd, One>>, <<OnlyA, Units>>, <<Words>>}

\* Fields, and what is calculated.
Field(name, type) == [name |-> name, type |-> type]
Shape(f, al, calc, un) == [fields |-> f, aliasFields |-> al, calculates |-> calc, units |-> un]
Calc(form, field, script, aliasField) ==
  [form |-> form, field |-> field, script |-> script, aliasField |-> aliasField]
Unit(field, origin, new, valid) == [field |-> field, origin |-> origin, new |-> new, valid |-> valid]

Straight ==
  Shape(<<Field("a", "number"), Field("b", "string")>>, <<"a", "b">>, <<>>, <<>>)
Timed ==
  Shape(<<Field("b", "string"), Field("time", "number"), Field("a", "number")>>,
        <<"b", ResponseTime, "a">>,
        <<Calc("string", "time", NoScript, ResponseTime)>>,
        <<Unit("a", "B", "B", FALSE), Unit("a", "KB", "B", TRUE), Unit("time", "MS", "US", TRUE)>>)
Summed ==
  Shape(<<Field("a", "number"), Field("sum", "number"), Field("b", "number"), Field("twice", "number"),
          Field("c", "number"), Field("d", "string")>>,
        <<"b", "a">>,
        <<Calc("string", "sum", Plus("a", "b"), ""), Calc("struct", "twice", Plus("sum", "a"), "b"),
          Calc("struct", "c", BadScript, "a"), Calc("string", "d", BadScript, "")>>,
        <<Unit("a", "MB", "B", TRUE), Unit("b", "KBIT", "KB", TRUE), Unit("sum", "X", "KB", TRUE)>>)
Bare == Shape(<<>>, <<>>, <<>>, <<>>)
Shapes == {Straight, Timed, Summed}

With(shape, rest) == [x \in DOMAIN shape \cup DOMAIN rest |->
                        IF x \in DOMAIN shape THEN shape[x] ELSE rest[x]]

\* The names a target is asked for, in the order of the aliases.
Asked(shape) == SelectSeq(shape.aliasFields, LAMBDA x : x # ResponseTime)

\* A layout that has a cell for every name asked for has an empty one for some.
Cell(data, name) == IF name \in DOMAIN data THEN data[name] ELSE Empty
Filled(shape, truth) ==
  [r \in DOMAIN truth |-> [x \in DOMAIN truth[r] \cup Range(Asked(shape)) |-> Cell(truth[r], x)]]

-----------------------------------------------------------------------------
SshMetrics(shape, truth, parse, auth, proxy, present) ==
  With(shape, [protocol |-> "ssh", present |-> present, auth |-> auth, proxy |-> proxy,
               truth |-> Filled(shape, truth), parse |-> parse, columns |-> Reverse(Asked(shape)),
               lines |-> CASE parse = "oneRow" ->
                                [i \in DOMAIN Asked(shape) |-> Cell(truth[1], Asked(shape)[i])] \o <<Empty>>
                           [] parse = "multiRow" ->
                                [r \in DOMAIN truth |-> [i \in DOMAIN Asked(shape) |->
                                   Cell(truth[r], Reverse(Asked(shape))[i])]] \o <<<<>>>>
                           [] OTHER -> <<>>])

\* A word of a line cannot be empty: a table without gaps.
Dense(truth) == \A r \in DOMAIN truth : DOMAIN truth[r] = {"a", "b"}

SshSet ==
  {SshMetrics(s, t, "oneRow", "password", "none", TRUE) : s \in Shapes, t \in {<<One>>, <<Units>>, <<OnlyA>>}}
    \cup {SshMetrics(s, t, "multiRow", "key", p, TRUE) :
            s \in Shapes, t \in {u \in Truths : Dense(u)}, p \in {"none", "password"}}
    \cup {SshMetrics(Straight, <<>>, "other", a, p, h) :
            a \in {"none", "badKey", "key"}, p \in {"none", "noUser", "badKey", "key"}, h \in BOOLEAN}

JdbcMetrics(shape, truth, parse, url, tunnel, present) ==
  With(shape, [protocol |-> "jdbc", present |-> present, url |-> url, tunnel |-> tunnel,
               truth |-> Filled(shape, truth), parse |-> parse,
               columns |-> IF parse = "columns" THEN <<"key", "value">>
                           ELSE IF shape.aliasFields = <<>> THEN <<"a", "b">> ELSE Asked(shape),
               lines |-> IF parse = "columns"
                           THEN [i \in DOMAIN Asked(shape) |->
                                   <<Text(Asked(shape)[i]), Cell(truth[1], Asked(shape)[i])>>]
                                \o << <<NullValue, Num(5, "")>> >>
                           ELSE [r \in DOMAIN truth |-> [i \in DOMAIN Asked(shape) |->
                                   Cell(truth[r], Asked(shape)[i])]]])

JdbcSet ==
  {JdbcMetrics(s, t, "multiRow", "built", "none", TRUE) : s \in Shapes \cup {Bare}, t \in Truths}
    \cup {JdbcMetrics(s, t, p, "built", "none", TRUE) :
            s \in Shapes, t \in {<<One>>, <<Units>>, <<OnlyA>>}, p \in {"oneRow", "columns"}}
    \cup {JdbcMetrics(Straight, <<One>>, "multiRow", u, t, TRUE) :
            u \in {"built", "given", "bad", "ambiguous"}, t \in {"none", "badPort", "good"}}
    \cup {JdbcMetrics(Straight, <<One>>, "", "built", "good", h) : h \in BOOLEAN}
    \cup {JdbcMetrics(Bare, <<One>>, "runScript", "built", "none", TRUE)}

-----------------------------------------------------------------------------
HttpMetrics(shape, truth, parse, auth, url, present) ==
  With(shape, [protocol |-> "http", present |-> present, auth |-> auth, url |-> url,
               statuses |-> {200, 401}, parse |-> parse, keywords |-> 1,
               empty |-> FALSE, deadline |-> TRUE,
               truth |-> IF truth = <<>> THEN <<EmptyMap>> ELSE truth,
               items |-> truth,
               samples |-> [r \in DOMAIN truth |->
                              [family |-> IF r = 2 THEN "g" ELSE "f",
                               labels |-> [x \in DOMAIN truth[r] \ {"value"} |-> truth[r][x]],
                               value |-> Cell(truth[r], "value")]],
               values |-> IF truth = <<>> THEN EmptyMap ELSE truth[1]])

\* Samples with their values, a page, a status, an answer without a body.
Sample(n) == [x \in {"a", "value"} |-> IF x = "a" THEN Text("x") ELSE Num(n, "")]
Sampled ==
  Shape(<<Field("a", "string"), Field("value", "number"), Field("code", "number")>>,
        <<"a", "value", StatusCode>>, <<Calc("struct", "code", NoScript, StatusCode)>>, <<>>)
Page == Shape(<<Field("keyword", "number"), Field("time", "number")>>, <<"keyword", ResponseTime>>,
              <<Calc("string", "time", NoScript, ResponseTime)>>, <<>>)

HttpSet ==
  {HttpMetrics(s, t, "default", "basic", "good", TRUE) : s \in Shapes, t \in Truths}
    \cup {HttpMetrics(s, t, "header", "basic", "good", TRUE) : s \in Shapes, t \in {<<One>>, <<OnlyA>>}}
    \cup {HttpMetrics(Sampled, t, "prometheus", "basic", "good", TRUE) : t \in {<<>>, <<Sample(7)>>, <<Sample(7), Sample(8), Sample(9)>>}}
    \cup {HttpMetrics(Page, <<[x \in {"keyword"} |-> Num(1, "")]>>, "website", "digest", "good", TRUE)}
    \cup {HttpMetrics(Straight, <<One>>, "default", "digest", u, h) : u \in {"none", "bad", "good"}, h \in BOOLEAN}
    \cup {With([empty |-> TRUE, keywords |-> 0], HttpMetrics(Straight, <<>>, p, "digest", "good", TRUE)) :
            p \in {"default", "header", "prometheus"}}
    \cup {With([deadline |-> FALSE], HttpMetrics(Straight, <<One>>, "default", "digest", "good", TRUE))}

RedisMetrics(shape, parse, info, tunnel, present) ==
  With(shape, [protocol |-> "redis", present |-> present, tunnel |-> tunnel, parse |-> parse,
               clusterInfo |-> info,
               truth |-> [n \in Nodes |-> IF n \in Masters THEN One ELSE OnlyA]])
Identified ==
  Shape(<<Field("identity", "string"), Field("a", "number"), Field("b", "number")>>,
        <<"identity", "a", "b">>, <<>>, <<>>)

RedisSet ==
  {RedisMetrics(Identified, p, EmptyMap, t, TRUE) : p \in {"cluster", "single"}, t \in {"none", "good", "bad"}}
    \cup {RedisMetrics(Identified, "cluster", [x \in {"b"} |-> Num(6, "")], "none", h) : h \in BOOLEAN}

MilvusData == [x \in {"version", "host", "port"} |->
                 IF x = "port" THEN Num(5, "") ELSE Text(x)]
MilvusSet ==
  {With(Shape(<<Field("version", "string"), Field("port", "number"), Field("b", "string")>>,
              <<"version", "port", "b">>, <<>>, <<>>),
        [protocol |-> "milvus", present |-> h, values |-> MilvusData, truth |-> <<MilvusData>>]) :
     h \in BOOLEAN}

Unknown == {With(Straight, [protocol |-> "telnet", present |-> TRUE, truth |-> <<>>])}

-----------------------------------------------------------------------------
(***************************************************************************)
(* The jobs: parameters with plain values or with placeholders in them,    *)
(* metrics of different names or of one, of protocols whose configuration  *)
(* is searched for placeholders and of one whose is not.                   *)
(***************************************************************************)
Metric(name, protocol_, template, key, priority, interval) ==
  [name |-> name, protocol |-> protocol_, template |-> template, key |-> key,
   enable |-> IF protocol_ = "jdbc" THEN <<"^more">> ELSE <<>>,
   priority |-> priority, interval |-> interval]
Params(host, port) == [p \in {"^host", "^port"} |-> IF p = "^host" THEN host ELSE port]
Plain == Params("h", "1")
Blank == Params("", "1")
Nested == Params("^port", "1")
Mixed == <<Metric("m", "http", <<"^host", ":", "^port">>, <<"^host">>, 1, 2),
           Metric("n", "jdbc", <<"^port", "^more">>, <<>>, 0, 1)>>
Shared == <<Metric("m", "milvus", <<"^host", ":", "^port">>, <<>>, 1, 2),
            Metric("n", "jdbc", <<"^port", "^more">>, <<>>, 0, 1)>>
AllHttp(name) == <<Metric("m", "http", <<"^host", ":", "^port">>, <<"^more">>, 0, 2),
                   Metric(name, "http", <<"^port", "^more">>, <<>>, 0, 1)>>
SomeJobs == {[metrics |-> Mixed, params |-> Plain], [metrics |-> Mixed, params |-> Nested],
             [metrics |-> Mixed, params |-> Blank], [metrics |-> Shared, params |-> Plain],
             [metrics |-> AllHttp("n"), params |-> Plain], [metrics |-> AllHttp("m"), params |-> Plain]}
Twice == 1 .. 2

AllMetrics == SshSet \cup JdbcSet \cup HttpSet \cup RedisSet \cup MilvusSet \cup Unknown

\* What the targets send is what they know.
ASSUME TargetsAssumption == \A m \in AllMetrics : LaidOut(m)

-----------------------------------------------------------------------------
\* A behaviour is one collection, or the executions of one job.
NoJob ==
  /\ job = <<>> /\ params = EmptyMap /\ now = MaxNow
  /\ collectTime = <<>> /\ aliased = {} /\ prior = <<>> /\ original = <<>>
  /\ clone = [e \in Executions |-> <<>>] /\ used = clone /\ goroutine = clone
  /\ dispatch = [e \in Executions |-> "left"]
  /\ crashed = FALSE

NoCollection ==
  /\ metrics \in Unknown /\ pc = "done"
  /\ open = {} /\ defers = <<>> /\ response = NoResponse
  /\ HttpInit /\ JdbcInit /\ RedisInit /\ partial = NoPartial /\ record = <<>>

MCInit == (Init(AllMetrics) /\ NoJob) \/ (NoCollection /\ ParamsInit)
MCNext == (Next /\ UNCHANGED paramVars) \/ (ParamsNext /\ UNCHANGED vars)
MCSpec == MCInit /\ [][MCNext]_<<vars, paramVars>> /\ Fairness
=============================================================================
