---------------------------- MODULE JdbcCollector ---------------------------
(***************************************************************************)
(* The JDBC collector (internal/protocol/basic/database/                   *)
(* jdbc_collector.go): an SSH tunnel if one is configured, with the        *)
(* goroutines that accept and forward its connections, the database        *)
(* connection and the query.  A configured URL is used as it is and goes   *)
(* past the tunnel.                                                        *)
(***************************************************************************)
EXTENDS Collection

VARIABLES
  forwarder,  \* the goroutine of runForwarder: "none", "accept" or "ended"
  link,       \* the connection to the local end of the tunnel: "none", "dialled",
              \* "accepted" (forwardConnection dials the database), "forwarding", "closed"
  dials       \* how often database/sql dialled for the ping, or for the query

jdbcVars == <<forwarder, link, dials>>

JdbcInit == forwarder = "none" /\ link = "none" /\ dials = 0

\* database/sql gives a connection that turns out bad two more tries.
MaxDials == 3

JdbcSilent == {"tunnelHandshake"}

JdbcStart ==
  /\ At("jdbc", "collect")
  /\ \/ ~metrics.present /\ Panic
     \/ metrics.present /\ metrics.tunnel = "none" /\ Go("url")
     \/ metrics.present /\ metrics.tunnel = "badPort" /\ Fail({}, "unConnectable")
     \/ metrics.present /\ metrics.tunnel = "good" /\ Go("tunnelDial")
  /\ UNCHANGED jdbcVars

\* Faulty variant of Listen: Close of the tunnel forgets the listener.
ListenNotClosed ==
  /\ At("jdbc", "listen")
  /\ \/ OpensDeferred({"listener"}, {"ssh"}, "url") /\ forwarder' = "accept"
     \/ Fail({"ssh"}, "unConnectable") /\ UNCHANGED forwarder
  /\ UNCHANGED <<link, dials>>

\* The local end of the tunnel, its goroutine and the deferred Close of the helper.
Listen ==
  /\ At("jdbc", "listen")
  /\ \/ OpensDeferred({"listener"}, {"listener", "ssh"}, "url") /\ forwarder' = "accept"
     \/ Fail({"ssh"}, "unConnectable") /\ UNCHANGED forwarder
  /\ UNCHANGED <<link, dials>>

startSSHTunnel ==
  \/ /\ At("jdbc", "tunnelDial")
     /\ Opens({"ssh"}, "tunnelHandshake") \/ Fail({}, "unConnectable")
     /\ UNCHANGED jdbcVars
  \/ /\ At("jdbc", "tunnelHandshake")
     /\ Go("listen") \/ Fail({"ssh"}, "unConnectable")
     /\ UNCHANGED jdbcVars
  \/ Listen

constructDatabaseURL ==
  /\ At("jdbc", "url")
  /\ \/ metrics.url = "bad" /\ Fail({}, "fail")
     \/ metrics.url # "bad" /\ Go("open")
  /\ UNCHANGED jdbcVars

throughTunnel == metrics.tunnel = "good" /\ metrics.url = "built"

\* A connection works if it is direct, or while its two ends are being copied.
connected == throughTunnel => link = "forwarding"

\* database/sql dials the local end of the tunnel, again if the connection is gone.
Dial ==
  /\ metrics.protocol = "jdbc" /\ pc \in {"ping", "query"} /\ throughTunnel
  /\ link \in {"none", "closed"} /\ dials < MaxDials
  /\ link' = "dialled" /\ dials' = dials + 1
  /\ UNCHANGED <<collectVars, forwarder>>

\* sql.Open; the driver's name can be in doubt.
getConnection ==
  \/ /\ At("jdbc", "open")
     /\ \/ metrics.url = "ambiguous" /\ Fail({}, "unConnectable")
        \/ metrics.url # "ambiguous" /\ Opens({"db"}, "ping")
     /\ UNCHANGED jdbcVars
  \/ /\ At("jdbc", "ping")
     /\ \/ connected /\ OpensDeferred({}, {"db"}, "query") /\ dials' = 0
        \/ Fail({"db"}, "unConnectable") /\ UNCHANGED dials
     /\ UNCHANGED <<forwarder, link>>

queried ==
  CASE metrics.parse = "oneRow" -> queryOneRow(metrics.columns, metrics.lines, alias)
    [] metrics.parse = "multiRow" -> queryMultiRow(metrics.columns, metrics.lines, alias)
    [] metrics.parse = "columns" -> queryColumns(metrics.columns, metrics.lines, alias)
    [] metrics.parse = "runScript" -> runScript(Len(metrics.lines))
    [] OTHER -> Failed

\* The query and its error: a timeout, or a code of the database, says unreachable.
Query ==
  /\ At("jdbc", "query")
  /\ \/ /\ connected /\ queried.ok
        /\ Return({}, "success", queried.fields, addResponseTime(queried.rows, alias))
     \/ /\ connected /\ ~queried.ok
        /\ Fail({}, "fail")
     \/ Fail({}, "unReachable")
     \/ Fail({}, "fail")
  /\ UNCHANGED jdbcVars

JdbcCollect == JdbcStart \/ startSSHTunnel \/ constructDatabaseURL \/ getConnection \/ Dial \/ Query

-----------------------------------------------------------------------------
(***************************************************************************)
(* The goroutines of the tunnel.                                           *)
(***************************************************************************)

\* Accept gives the connection, or the error of a closed listener ends the loop and
\* resets a connection nobody accepted.
runForwarder ==
  /\ forwarder = "accept"
  /\ \/ /\ "listener" \in open /\ link = "dialled"
        /\ link' = "accepted" /\ UNCHANGED forwarder
     \/ /\ "listener" \notin open
        /\ forwarder' = "ended"
        /\ link' = IF link = "dialled" THEN "closed" ELSE link
  /\ UNCHANGED <<collectVars, dials>>

\* The database answers through the bastion, or not.
ForwardDial ==
  /\ link = "accepted"
  /\ \/ "ssh" \in open /\ link' = "forwarding"
     \/ link' = "closed"
  /\ UNCHANGED <<collectVars, forwarder, dials>>

\* forwardConnection starts the two copies and returns: its deferred closes end them.
forwardConnection ==
  /\ link = "forwarding"
  /\ link' = "closed"
  /\ UNCHANGED <<collectVars, forwarder, dials>>

Tunnel == runForwarder \/ ForwardDial \/ forwardConnection
=============================================================================
