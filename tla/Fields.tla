------------------------------- MODULE Fields -------------------------------
(***************************************************************************)
(* What becomes of the rows of a collector: CalculateFields of internal/   *)
(* job/collect/dispatch/metrics_collector.go with the unit conversion of   *)
(* internal/util/unit/converter.go, and the Arrow record of internal/job/  *)
(* collect/lazy_message_router.go.                                         *)
(*                                                                         *)
(* A metrics has fields [name, type] and aliasFields (names); calculates   *)
(* and units are sequences of entries.  A script is the sum of two names,  *)
(* or one that does not compile; the scripts of string fields, which join  *)
(* texts, are not modelled.  The unit tables stop where 32 bits do, and    *)
(* numbers are whole.  The names of the aliases differ.                    *)
(***************************************************************************)
EXTENDS Rows

NoScript == [kind |-> "none"]
BadScript == [kind |-> "bad"]
Plus(l, r) == [kind |-> "plus", l |-> l, r |-> r]

EmptyMap == [x \in {} |-> Empty]

\* "field=expression" with a name for an expression is an alias, as is one that does
\* not compile; a structure may carry both, and loses both if its script is bad.
addCalculate(maps, c) ==
  LET toAlias(name) == [maps EXCEPT !.alias = Put(@, c.field, name)]
      toScript == [maps EXCEPT !.script = Put(@, c.field, c.script)]
      both == IF c.script = NoScript THEN maps ELSE toScript
  IN CASE c.form = "string" /\ c.script = NoScript -> toAlias(c.aliasField)
       [] c.form = "string" /\ c.script = BadScript -> toAlias("?")
       [] c.form = "string" /\ c.script \notin {NoScript, BadScript} -> toScript
       [] c.form = "struct" /\ c.script = BadScript -> maps
       [] c.form = "struct" /\ c.script # BadScript ->
            IF c.aliasField = "" THEN both ELSE [both EXCEPT !.alias = Put(@, c.field, c.aliasField)]

parseCalculates(calculates) ==
  LET maps[i \in 0 .. Len(calculates)] ==
        IF i = 0 THEN [script |-> EmptyMap, alias |-> EmptyMap]
        ELSE addCalculate(maps[i - 1], calculates[i])
  IN maps[Len(calculates)]

\* "field=origin->new"; an entry of another form is skipped.
parseUnits(units) ==
  LET map[i \in 0 .. Len(units)] ==
        IF i = 0 THEN EmptyMap
        ELSE IF units[i].valid THEN Put(map[i - 1], units[i].field, units[i]) ELSE map[i - 1]
  IN map[Len(units)]

-----------------------------------------------------------------------------
byteUnits == [B |-> 1, KB |-> 1024, MB |-> 1048576, KIB |-> 1024, MIB |-> 1048576]
bitUnits == [B |-> 1, KB |-> 1000, MB |-> 1000000, KBIT |-> 1000, MBIT |-> 1000000]
timeUnits == [NS |-> 1, US |-> 1000, MS |-> 1000000]

\* The first table that knows both units; a value stays as it is if there is none.
Convert(n, originUnit, newUnit) ==
  LET knows(table) == originUnit \in DOMAIN table /\ newUnit \in DOMAIN table
      by(table) == (n * table[originUnit]) \div table[newUnit]
  IN IF originUnit = newUnit THEN n
     ELSE IF knows(byteUnits) THEN by(byteUnits)
     ELSE IF knows(bitUnits) THEN by(bitUnits)
     ELSE IF knows(timeUnits) THEN by(timeUnits)
     ELSE n

\* A number and its unit; a text that begins like a unit counts as zero of it.
ExtractDoubleAndUnitFromStr(v) ==
  CASE v.k = "num" -> [ok |-> TRUE, n |-> v.n, u |-> v.u]
    [] v.k = "unitlike" -> [ok |-> TRUE, n |-> 0, u |-> v.s]
    [] OTHER -> [ok |-> FALSE, n |-> 0, u |-> ""]

\* A value as the expressions see it: without its unit.
inContext(v) ==
  LET d == ExtractDoubleAndUnitFromStr(v) IN IF d.ok THEN Num(d.n, "") ELSE v

\* Run of a compiled expression; numbers add, texts join, null and mixtures fail.
runScriptOn(s, context) ==
  LET of(name) == IF name \in DOMAIN context THEN context[name] ELSE NullValue
      x == of(s.l)
      y == of(s.r)
      isText(v) == v.k \in {"text", "empty"}
  IN IF x.k = "num" /\ y.k = "num" THEN [ok |-> TRUE, v |-> Num(x.n + y.n, "")]
     ELSE IF isText(x) /\ isText(y)
       THEN [ok |-> TRUE, v |-> IF x = Empty THEN y ELSE IF y = Empty THEN x ELSE Text("joined")]
     ELSE [ok |-> FALSE, v |-> Empty]

\* A number field is a number in the configured unit, or null.
numberOf(v, field, units) ==
  LET d == ExtractDoubleAndUnitFromStr(v)
  IN IF ~d.ok THEN NullValue
     ELSE IF field \notin DOMAIN units THEN Num(d.n, "")
     ELSE Num(Convert(d.n, IF d.u = "" THEN units[field].origin ELSE d.u, units[field].new), "")

-----------------------------------------------------------------------------
\* One field of a row: its script, or else the value of its alias; then its type.
fieldValue(m, raw, context, field) ==
  LET maps == parseCalculates(m.calculates)
      name == IF field.name \in DOMAIN maps.alias THEN maps.alias[field.name] ELSE field.name
      mapped == IF name \in DOMAIN raw THEN raw[name] ELSE Empty
      run == runScriptOn(maps.script[field.name], context)
      value == IF field.name \in DOMAIN maps.script /\ run.ok THEN run.v ELSE mapped
      typed == IF field.type = "number" /\ value # Empty
                 THEN numberOf(value, field.name, parseUnits(m.units)) ELSE value
  IN IF typed = Empty THEN NullValue ELSE typed

\* Faulty variant of extend: later scripts see what the target sent.
extendNot(context, field, value) == context

\* A computed field is there for the scripts of the fields that follow.
extend(context, field, value) == Put(context, field.name, inContext(value))

\* A row of the collector as the maps the fields are computed from.
aliasMap(m, columns) ==
  LET shown == 1 .. (IF Len(m.aliasFields) < Len(columns) THEN Len(m.aliasFields) ELSE Len(columns))
      names == {m.aliasFields[i] : i \in shown}
  IN [x \in names |-> columns[CHOOSE i \in shown : m.aliasFields[i] = x]]

\* The values the aliases of a row have, and what the scripts see at its start.
rawOf(m, columns) ==
  LET all == aliasMap(m, columns) IN [x \in {y \in DOMAIN all : all[y] # NullValue} |-> all[x]]
contextOf(m, columns) ==
  LET all == aliasMap(m, columns) IN [x \in DOMAIN all |-> inContext(all[x])]

fieldNames(m) == [i \in DOMAIN m.fields |-> m.fields[i].name]

\* The record has a column for every field and at least one row; what is missing is
\* empty.
createArrowRecordBatch(fields, rows) ==
  LET cell(r, i) == IF r \in DOMAIN rows /\ i \in DOMAIN rows[r] THEN rows[r][i] ELSE Empty
  IN [r \in 1 .. (IF rows = <<>> THEN 1 ELSE Len(rows)) |-> [i \in DOMAIN fields |-> cell(r, i)]]
=============================================================================
