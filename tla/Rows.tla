-------------------------------- MODULE Rows --------------------------------
(***************************************************************************)
(* From what a target answers to what the manager is sent: the rows the    *)
(* protocol collectors build from an answer, the fields CalculateFields    *)
(* (internal/job/collect/dispatch/metrics_collector.go) computes from      *)
(* them, and the Arrow record of internal/job/collect/                     *)
(* lazy_message_router.go.                                                 *)
(*                                                                         *)
(* A cell is a string of the code, by what the code can tell apart: a      *)
(* number with or without a unit, a text, a text that begins like a unit   *)
(* ("Kafka"), the empty string, and the null value "&nbsp;".               *)
(***************************************************************************)
EXTENDS Integers, FiniteSets, Sequences, Functions

Num(n, u) == [k |-> "num", n |-> n, u |-> u]
Text(s) == [k |-> "text", s |-> s]
UnitLike(s) == [k |-> "unitlike", s |-> s]
Empty == [k |-> "empty"]
NullValue == [k |-> "null"]

ResponseTime == "responseTime"
StatusCode == "statusCode"

\* The milliseconds a collection took, and a status.
Millis == Num(9, "")
Status(n) == Num(n, "")

\* A row with a column for every alias: the value of that name, or null.
RowOf(aliasFields, values) ==
  [i \in DOMAIN aliasFields |->
     IF aliasFields[i] \in DOMAIN values THEN values[aliasFields[i]] ELSE NullValue]

Put(values, name, v) == [x \in DOMAIN values \cup {name} |-> IF x = name THEN v ELSE values[x]]

-----------------------------------------------------------------------------
(***************************************************************************)
(* SSH: lines of output.                                                   *)
(***************************************************************************)

\* How many of the first i aliases take a line.
Lines(aliasFields, i) == Cardinality({j \in 1 .. i : aliasFields[j] # ResponseTime})

\* One value a line, in the order of the aliases; the rows, none if lines are missing.
parseResponseDataByOne(lines, aliasFields) ==
  IF Len(lines) + 1 < Len(aliasFields)
    THEN <<>>
    ELSE << [i \in DOMAIN aliasFields |->
               IF aliasFields[i] = ResponseTime THEN Millis
               ELSE IF Lines(aliasFields, i) <= Len(lines)
                      THEN lines[Lines(aliasFields, i)] ELSE NullValue] >>

notBlank(output) == SelectSeq(output, LAMBDA l : l # <<>>)

\* A header line, then a row of columns a line, blank lines apart; a later column of a
\* name hides an earlier one, a short line has no value for the last names.
parseResponseDataByMulti(header, output, aliasFields) ==
  LET lines == notBlank(output)
      index(name) == CHOOSE j \in DOMAIN header :
                       header[j] = name /\ \A l \in j + 1 .. Len(header) : header[l] # name
  IN [r \in DOMAIN lines |->
        [i \in DOMAIN aliasFields |->
           IF aliasFields[i] = ResponseTime THEN Millis
           ELSE IF /\ \E j \in DOMAIN header : header[j] = aliasFields[i]
                   /\ index(aliasFields[i]) <= Len(lines[r])
                  THEN lines[r][index(aliasFields[i])] ELSE NullValue]]

-----------------------------------------------------------------------------
(***************************************************************************)
(* JDBC: a result set with the names of its columns.  A query gives rows   *)
(* or fails.                                                               *)
(***************************************************************************)

Failed == [ok |-> FALSE, fields |-> <<>>, rows |-> <<>>]
Found(fields, rows) == [ok |-> TRUE, fields |-> fields, rows |-> rows]

buildFields(aliasFields, columns) == IF aliasFields # <<>> THEN aliasFields ELSE columns

\* rows.Scan with a destination for every field name fails if there are more or
\* fewer columns.
queryMultiRow(columns, rows, aliasFields) ==
  LET fieldNames == buildFields(aliasFields, columns)
  IN IF rows # <<>> /\ Len(fieldNames) # Len(columns) THEN Failed ELSE Found(fieldNames, rows)

queryOneRow(columns, rows, aliasFields) ==
  queryMultiRow(columns, SubSeq(rows, 1, 1), aliasFields)

\* The first two columns as keys and values; a null key is skipped, the last row of
\* a key counts.
queryColumns(columns, rows, aliasFields) ==
  LET names == {aliasFields[i] : i \in DOMAIN aliasFields}
      last(a) == CHOOSE r \in DOMAIN rows :
                   rows[r][1] = Text(a) /\ \A q \in r + 1 .. Len(rows) : rows[q][1] # Text(a)
      keys == {a \in names : \E r \in DOMAIN rows : rows[r][1] = Text(a)}
  IN IF Len(columns) < 2 \/ aliasFields = <<>>
       THEN Failed
       ELSE Found(aliasFields,
                  << RowOf(aliasFields, [a \in keys \cup {ResponseTime} |->
                                           IF a \in keys THEN rows[last(a)][2] ELSE Num(0, "")]) >>)

runScript(affected) == Found(<<"rows_affected">>, << <<Num(affected, "")>> >>)

addResponseTime(rows, aliasFields) ==
  [r \in DOMAIN rows |->
     [i \in DOMAIN rows[r] |->
        IF /\ i \in DOMAIN aliasFields /\ aliasFields[i] = ResponseTime
           /\ \A j \in 1 .. i - 1 : aliasFields[j] # ResponseTime
          THEN Millis ELSE rows[r][i]]]

-----------------------------------------------------------------------------
(***************************************************************************)
(* HTTP.                                                                   *)
(***************************************************************************)

\* A sample: its metric family, its labels and its value (empty for a histogram or a
\* summary).
named(s) == Put(Put(s.labels, "value", s.value), "prom_value", s.value)

\* A sample that gives no column a value is left out.
kept(samples, aliasFields) ==
  SelectSeq(samples, LAMBDA s : \E i \in DOMAIN aliasFields : aliasFields[i] \in DOMAIN named(s))

\* The orders in which samples may come: the families are a Go map, ranged over in any
\* order; those of a family stay together, in the order of the text.
Arrangements(samples) ==
  {f \in Bijection(DOMAIN samples, DOMAIN samples) :
     LET family(q) == samples[f[q]].family
     IN \A p, q \in DOMAIN samples : p < q /\ family(p) = family(q) =>
          f[p] < f[q] /\ \A s \in p .. q : family(s) = family(p)}

parsePrometheus(samples, aliasFields) ==
  LET some == kept(samples, aliasFields)
  IN {[r \in DOMAIN some |-> RowOf(aliasFields, named(some[f[r]]))] : f \in Arrangements(some)}

parseWebsite(keywords, status, aliasFields) ==
  LET values == [x \in {StatusCode, ResponseTime, "keyword"} |->
                   CASE x = StatusCode -> Status(status)
                     [] x = ResponseTime -> Millis
                     [] x = "keyword" -> Num(keywords, "")]
  IN << RowOf(aliasFields, values) >>

parseHeader(header, aliasFields) ==
  << RowOf(aliasFields, [x \in {h \in DOMAIN header : header[h] # Empty} |-> header[x]]) >>

\* A document that does not decode, or without the configured path, gives no rows; an
\* object gives one, an array one for every item.
parseJsonPath(items, aliasFields) ==
  [r \in DOMAIN items |->
     RowOf(aliasFields, [x \in DOMAIN items[r] \ {ResponseTime, StatusCode} |-> items[r][x]])]

\* Without rows there is one of nulls; the common fields are filled in.
fillCommonFields(rows, aliasFields, status) ==
  LET some == IF rows = <<>> THEN << [i \in DOMAIN aliasFields |-> NullValue] >> ELSE rows
  IN [r \in DOMAIN some |->
        [i \in DOMAIN aliasFields |->
           CASE aliasFields[i] = ResponseTime -> Millis
             [] aliasFields[i] = StatusCode -> Status(status)
             [] OTHER -> some[r][i]]]

-----------------------------------------------------------------------------
(***************************************************************************)
(* Redis and Milvus.                                                       *)
(***************************************************************************)

\* The lines of INFO with the response time and the address of the node.
addValueRow(info, address, aliasFields) ==
  RowOf(aliasFields, Put(Put(info, ResponseTime, Millis), "identity", address))

milvusRow(version, host, port, aliasFields) ==
  RowOf(aliasFields, [x \in {ResponseTime, "version", "host", "port"} |->
                        CASE x = ResponseTime -> Millis [] x = "version" -> version
                          [] x = "host" -> host [] x = "port" -> port])
=============================================================================
