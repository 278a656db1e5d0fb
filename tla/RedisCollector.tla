--------------------------- MODULE RedisCollector ---------------------------
(***************************************************************************)
(* The Redis collector (internal/protocol/basic/redis/redis_collector.go): *)
(* one server, or a goroutine for every master and slave of a cluster,     *)
(* each over a connection of its own, direct or through SSH; and the       *)
(* Milvus collector (internal/protocol/extension/milvus/                   *)
(* milvus_collector.go).  The client libraries are external: they keep a   *)
(* connection until the client is closed and call the dialer on the        *)
(* goroutine that asks.                                                    *)
(***************************************************************************)
EXTENDS Collection, FiniteSets

CONSTANTS Masters, Slaves   \* the nodes of a cluster; a single server is a master

ASSUME NodesAssumption == Masters \cap Slaves = {}

VARIABLE node               \* where the goroutine of a node is; at the end it has added a
                            \* row ("row", or "both" with CLUSTER INFO) or "failed"

Nodes == Masters \cup Slaves
redisVars == <<node>>

RedisInit == node = [n \in Nodes |-> "none"]

\* Steps of a node without a deadline: the dialer's SSH handshake and its channel.
NodeSilent == {"handshake", "target"}

NodeEnds == {"row", "both", "failed"}

Started(some) == node' = [n \in Nodes |-> IF n \in some THEN "dial" ELSE node[n]]

\* The dialer needs a password; the fields are those of the aliases from the start.
createRedisDialer ==
  /\ At("redis", "collect")
  /\ \/ ~metrics.present /\ Panic
     \/ metrics.present /\ metrics.tunnel = "bad" /\ Return({}, "unConnectable", alias, <<>>)
     \/ /\ metrics.present /\ metrics.tunnel # "bad"
        /\ pc' = IF metrics.parse = "cluster" THEN "masters" ELSE "single"
        /\ response' = Response("success", alias, <<>>, pc)
        /\ defers' = <<Nodes>>
        /\ UNCHANGED <<metrics, open>>
  /\ UNCHANGED node

\* Faulty variant of Joined: a node that failed does not call Done.
JoinedByRows == \A n \in Nodes : node[n] \in {"none", "row", "both"}

\* wg.Wait: every goroutine that was started has ended.
Joined == \A n \in Nodes : node[n] \in {"none"} \cup NodeEnds

\* The answers are in: without a row it is a failure.
Finish ==
  /\ Joined
  /\ pc' = "return"
  /\ response' = IF response.rows = <<>> THEN [response EXCEPT !.code = "fail"] ELSE response
  /\ UNCHANGED <<metrics, open, defers, node>>

\* ForEachMaster and ForEachSlave start a goroutine a node, or fail and start none.
collectCluster ==
  \/ /\ At("redis", "masters")
     /\ Started(Masters) \/ UNCHANGED node
     /\ Go("slaves")
  \/ /\ At("redis", "slaves")
     /\ Started(Slaves) \/ UNCHANGED node
     /\ Go("wait")
  \/ At("redis", "wait") /\ Finish

\* One server is asked on the goroutine of Collect itself.
collectSingle ==
  \/ /\ At("redis", "single")
     /\ Started({CHOOSE n \in Masters : TRUE})
     /\ Go("ask")
  \/ At("redis", "ask") /\ Finish

\* A step of a node that moves it to p.
Moves(n, p) == node' = [node EXCEPT ![n] = p]
Keeps == UNCHANGED <<metrics, pc, defers, response>>

\* The connection: TCP, and through SSH the handshake and the channel to the node.  A
\* step that fails closes what the dialer opened.
Dialer(n) ==
  \/ /\ node[n] = "dial"
     /\ \/ /\ Moves(n, IF metrics.tunnel = "good" THEN "handshake" ELSE "info")
           /\ open' = open \cup {n}
        \/ Moves(n, "failed") /\ UNCHANGED open
     /\ Keeps
  \/ /\ node[n] = "handshake"
     /\ \/ Moves(n, "target") /\ UNCHANGED open
        \/ Moves(n, "failed") /\ open' = open \ {n}
     /\ Keeps
  \/ /\ node[n] = "target"
     /\ \/ Moves(n, "info") /\ UNCHANGED open
        \/ Moves(n, "failed") /\ open' = open \ {n}
     /\ Keeps

\* addValueRow, under the mutex in a cluster.
AddRow(n, info, end) ==
  /\ response' = [response EXCEPT !.rows = Append(@, addValueRow(info, Text(n), alias))]
  /\ Moves(n, end)
  /\ UNCHANGED <<metrics, pc, open, defers>>

\* INFO; in a cluster, for the metrics cluster_info (the only one with a clusterInfo),
\* CLUSTER INFO as well, whose failure is passed over.
collectNode(n) ==
  \/ /\ node[n] = "info"
     /\ \/ DOMAIN metrics.clusterInfo # {} /\ Moves(n, "cluster") /\ UNCHANGED collectVars
        \/ DOMAIN metrics.clusterInfo = {} /\ AddRow(n, metrics.truth[n], "row")
        \/ Moves(n, "failed") /\ UNCHANGED collectVars
  \/ /\ node[n] = "cluster"
     /\ \/ AddRow(n, metrics.truth[n], "row")
        \/ AddRow(n, [x \in DOMAIN metrics.truth[n] \cup DOMAIN metrics.clusterInfo |->
                        IF x \in DOMAIN metrics.clusterInfo
                          THEN metrics.clusterInfo[x] ELSE metrics.truth[n][x]], "both")

Node(n) == Dialer(n) \/ collectNode(n)

RedisCollect == createRedisDialer \/ collectCluster \/ collectSingle

-----------------------------------------------------------------------------
MilvusCollect ==
  \/ /\ At("milvus", "collect")
     /\ \/ ~metrics.present /\ Panic
        \/ metrics.present /\ OpensDeferred({"milvus"}, {"milvus"}, "version")
        \/ metrics.present /\ Fail({}, "unConnectable")
  \/ /\ At("milvus", "version")
     /\ \/ Return({}, "success", <<>>,
                  << milvusRow(metrics.values["version"], metrics.values["host"],
                               metrics.values["port"], alias) >>)
        \/ Fail({}, "fail")
=============================================================================
