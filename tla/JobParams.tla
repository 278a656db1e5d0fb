------------------------------ MODULE JobParams -----------------------------
(***************************************************************************)
(* How the configuration of a job reaches its collectors: the selection of *)
(* the metrics (internal/types/job/job_types.go), Clone (metrics_types.go),*)
(* the replacement of ^_^name^_^ placeholders (internal/util/param/        *)
(* param_replacer.go) by DispatchMetricsTask (internal/job/dispatcher/     *)
(* common_dispatcher.go) and once more by every goroutine of               *)
(* CollectMetrics (internal/job/collect/dispatch/metrics_collector.go).    *)
(*                                                                         *)
(* A job is executed again and again.  An execution that times out leaves  *)
(* its goroutines behind, and they overlap with the next one.  Clone       *)
(* copies the HTTP configuration of a metrics; the configuration of the    *)
(* other protocols is shared by the job and all its clones.  Not all of it *)
(* is searched for placeholders.                                           *)
(*                                                                         *)
(* A template is a sequence of tokens, placeholders and literals; a        *)
(* literal holds no part of a placeholder.  The value of a parameter is    *)
(* one token: a literal, possibly the empty text, or, for a value that     *)
(* holds a placeholder, that placeholder.                                  *)
(***************************************************************************)
EXTENDS Integers, FiniteSets, Sequences

CONSTANTS
  Jobs,         \* the jobs to choose from: [metrics, params]
  Placeholders, \* the tokens that are placeholders
  Executions,   \* 1 .. the number of executions
  IssueTime,    \* the time at which the job is issued, in the unit of the intervals
  MaxNow        \* bound: the clock stops here

\* A parameter is named by its placeholder.
ASSUME JobsAssumption ==
  \A j \in Jobs :
    /\ j.metrics \in Seq([name : STRING, protocol : STRING, template : Seq(STRING),
                          key : Seq(STRING), enable : Seq(STRING), priority : Int, interval : Nat])
    /\ IsFiniteSet(DOMAIN j.params) /\ DOMAIN j.params \subseteq Placeholders
    /\ j.params \in [DOMAIN j.params -> STRING]

\* The clock counts from 1970: since CollectTime 0 every interval has passed.
ASSUME ClockAssumption ==
  /\ Executions \subseteq Nat /\ IssueTime \in Nat /\ MaxNow \in Nat
  /\ \A j \in Jobs : \A m \in DOMAIN j.metrics : j.metrics[m].interval <= IssueTime

VARIABLES
  job,         \* the job as it was issued
  params,      \* its Configmap, passwords decrypted
  now,         \* the clock, in the unit of the intervals
  collectTime, \* CollectTime of every metrics
  aliased,     \* the metrics whose AliasFields are set
  prior,       \* PriorMetrics: groups of metrics
  original,    \* the configuration the job itself holds, by metrics
  clone,       \* the configuration an execution has copied, by metrics
  dispatch,    \* where an execution is
  goroutine,   \* where the goroutine of an execution for a metrics is
  used,        \* what its collector was given
  crashed      \* two goroutines wrote one ConfigMap: Go ends the process

paramVars == <<job, params, now, collectTime, aliased, prior, original, clone, dispatch,
               goroutine, used, crashed>>

Indices == DOMAIN job
Nothing == [template |-> <<>>, key |-> <<>>, enable |-> <<>>]

\* The parameters of a template that are still there.
unresolved(template) == \E i \in DOMAIN template : template[i] \in Placeholders

\* strings.ReplaceAll of one placeholder.
replaceAll(template, p, value) ==
  [i \in DOMAIN template |-> IF template[i] = p THEN value ELSE template[i]]

\* A Go map is visited in any order.
orders(map) ==
  {o \in [1 .. Cardinality(DOMAIN map) -> DOMAIN map] : \A p \in DOMAIN map : \E k \in DOMAIN o : o[k] = p}

\* The template after the first k parameters of an order, for every k.
replaced(template, map, order) ==
  LET after[k \in 0 .. Cardinality(DOMAIN map)] ==
        IF k = 0 THEN template ELSE replaceAll(after[k - 1], order[k], map[order[k]])
  IN after

\* The possible results of replaceParamPlaceholders.
replaceParamPlaceholders(template, map) ==
  {replaced(template, map, order)[Cardinality(DOMAIN map)] : order \in orders(map)}

\* Every placeholder by its value, once: what the replacement is meant to be.
Substitute(template, map) ==
  [i \in DOMAIN template |-> IF template[i] \in DOMAIN map THEN map[template[i]] ELSE template[i]]

\* A header without a name, or with a placeholder in its name, is left out.
keepKey(key) == IF unresolved(key) \/ \A i \in DOMAIN key : key[i] = "" THEN <<>> ELSE key

\* The protocols whose configuration the replacement knows.
Replaceable == {"jdbc", "ssh", "http", "redis"}

\* The text of these protocols and their headers; never the switch of their SSHTunnel,
\* and nothing of another protocol.
ReplaceMetricsParams(protocol, config, map) ==
  IF protocol \in Replaceable
    THEN {[template |-> t, key |-> keepKey(k), enable |-> config.enable] :
            t \in replaceParamPlaceholders(config.template, map),
            k \in replaceParamPlaceholders(config.key, map)}
    ELSE {config}

\* The configuration of a metrics as it was issued.
Issued(m) == [template |-> job[m].template, key |-> job[m].key, enable |-> job[m].enable]

-----------------------------------------------------------------------------
ParamsInit ==
  /\ \E j \in Jobs : job = j.metrics /\ params = j.params
  /\ now = IssueTime
  /\ collectTime = [m \in DOMAIN job |-> 0]
  /\ aliased = {}
  /\ prior = <<>>
  /\ original = [m \in DOMAIN job |-> Issued(m)]
  /\ clone = [e \in Executions |-> [m \in DOMAIN job |-> Nothing]]
  /\ dispatch = [e \in Executions |-> "none"]
  /\ goroutine = [e \in Executions |-> [m \in DOMAIN job |-> "none"]]
  /\ used = [e \in Executions |-> [m \in DOMAIN job |-> Nothing]]
  /\ crashed = FALSE

Tick ==
  /\ now < MaxNow
  /\ now' = now + 1
  /\ UNCHANGED <<job, params, collectTime, aliased, prior, original, clone, dispatch, goroutine,
                 used, crashed>>

\* Faulty variant of Due: only metrics of the first priority.
DueFirstPriority ==
  {m \in Indices : now >= collectTime[m] + job[m].interval /\ job[m].priority = 0}

\* The metrics whose interval has passed.
Due == {m \in Indices : now >= collectTime[m] + job[m].interval}

\* If none is due, the first metrics of priority 0.
First == {m \in Indices : job[m].priority = 0 /\ \A l \in 1 .. m - 1 : job[l].priority # 0}
Chosen == IF Due # {} THEN Due ELSE First

\* Groups of one priority, sorted: a priority's place is the number of those up to it.
groups(some) ==
  LET priorities == {job[m].priority : m \in some}
      place(p) == Cardinality({q \in priorities : q <= p})
  IN [g \in 1 .. Cardinality(priorities) |-> {m \in some : place(job[m].priority) = g}]

\* ConstructPriorMetrics, under the lock of the job, at the start of an execution.
ConstructPriorMetrics(e) ==
  /\ dispatch[e] = "none" /\ \A d \in Executions : d < e => dispatch[d] = "left"
  /\ collectTime' = [m \in Indices |-> IF m \in Chosen THEN now ELSE collectTime[m]]
  /\ aliased' = aliased \cup Due
  /\ prior' = groups(Chosen)
  /\ dispatch' = [dispatch EXCEPT ![e] = "replace"]
  /\ UNCHANGED <<job, params, now, original, clone, goroutine, used, crashed>>

\* The clone of a metrics shares its protocol configuration with the job.
shares(m) == job[m].protocol # "http"

\* The configuration of a metrics in the clone of an execution.
config(e, m) == IF shares(m) THEN original[m] ELSE clone[e][m]

\* It becomes new, for the job and every clone if it is shared.
Writes(e, new) ==
  /\ original' = [m \in Indices |-> IF shares(m) /\ m \in DOMAIN new THEN new[m] ELSE original[m]]
  /\ clone' = [clone EXCEPT ![e] = [m \in Indices |->
                 IF ~shares(m) /\ m \in DOMAIN new THEN new[m] ELSE @[m]]]

\* ReplaceJobParams: clone the job, replace the parameters of every metrics in it.
ReplaceJobParams(e) ==
  /\ dispatch[e] = "replace"
  /\ \E new \in [Indices -> UNION {ReplaceMetricsParams(job[m].protocol, original[m], params) :
                                     m \in Indices}] :
       /\ \A m \in Indices : new[m] \in ReplaceMetricsParams(job[m].protocol, original[m], params)
       /\ Writes(e, new)
  /\ dispatch' = [dispatch EXCEPT ![e] = "start"]
  /\ UNCHANGED <<job, params, now, collectTime, aliased, prior, goroutine, used, crashed>>

\* NextCollectMetrics: all metrics, whatever is in PriorMetrics.
NextCollectMetrics == Indices

\* A goroutine for every metrics.
StartCollectors(e) ==
  /\ dispatch[e] = "start"
  /\ goroutine' = [goroutine EXCEPT ![e] = [m \in Indices |->
                     IF m \in NextCollectMetrics THEN "started" ELSE "none"]]
  /\ dispatch' = [dispatch EXCEPT ![e] = "receive"]
  /\ UNCHANGED <<job, params, now, collectTime, aliased, prior, original, clone, used, crashed>>

\* Faulty variant of processed: the first metrics of the protocol.
processedByProtocol(m) ==
  CHOOSE l \in Indices : /\ job[l].protocol = job[m].protocol
                         /\ \A k \in 1 .. l - 1 : job[k].protocol # job[m].protocol

\* The metrics of the clone that is collected for m: the first of its name.
processed(m) == CHOOSE l \in Indices : job[l].name = job[m].name
                                       /\ \A k \in 1 .. l - 1 : job[k].name # job[m].name

\* The execution has its results or has given up on them.
LeaveExecution(e) ==
  /\ dispatch[e] = "receive"
  /\ dispatch' = [dispatch EXCEPT ![e] = "left"]
  /\ UNCHANGED <<job, params, now, collectTime, aliased, prior, original, clone, goroutine, used,
                 crashed>>

\* The goroutine begins to write the ConfigMap of its metrics.
MergeBegins(e, m) ==
  /\ goroutine[e][m] = "started"
  /\ goroutine' = [goroutine EXCEPT ![e][m] = "writing"]
  /\ crashed' = (crashed \/ \E l \in Indices : /\ processed(l) = processed(m)
                                               /\ goroutine[e][l] = "writing")
  /\ UNCHANGED <<job, params, now, collectTime, aliased, prior, original, clone, dispatch, used>>

\* It has merged the parameters, and replaces them again, by its own ConfigMap now.
CollectMetricsParams(e, m) ==
  /\ goroutine[e][m] = "writing"
  /\ \E new \in ReplaceMetricsParams(job[processed(m)].protocol, config(e, processed(m)), params) :
       Writes(e, [l \in {processed(m)} |-> new])
  /\ goroutine' = [goroutine EXCEPT ![e][m] = "ready"]
  /\ UNCHANGED <<job, params, now, collectTime, aliased, prior, dispatch, used, crashed>>

\* Collect reads the configuration.
Use(e, m) ==
  /\ goroutine[e][m] = "ready"
  /\ goroutine' = [goroutine EXCEPT ![e][m] = "done"]
  /\ used' = [used EXCEPT ![e][m] = config(e, processed(m))]
  /\ UNCHANGED <<job, params, now, collectTime, aliased, prior, original, clone, dispatch, crashed>>

ParamsNext ==
  /\ ~crashed
  /\ \/ Tick
     \/ \E e \in Executions :
          \/ ConstructPriorMetrics(e)
          \/ ReplaceJobParams(e)
          \/ StartCollectors(e)
          \/ LeaveExecution(e)
          \/ \E m \in Indices : MergeBegins(e, m) \/ CollectMetricsParams(e, m) \/ Use(e, m)

ParamsSpec == ParamsInit /\ [][ParamsNext]_paramVars

-----------------------------------------------------------------------------
(***************************************************************************)
(* Properties.                                                             *)
(***************************************************************************)

DistinctNames == \A m, l \in Indices : job[m].name = job[l].name => m = l
PlainValues == \A p \in DOMAIN params : params[p] \notin Placeholders

\* What the collector of a metrics is to be given: every placeholder by its value, but for
\* those the replacement does not look for, which the collector has to do with.
Wanted(m) ==
  IF job[m].protocol \in Replaceable
    THEN [template |-> Substitute(job[m].template, params),
          key |-> keepKey(Substitute(job[m].key, params)), enable |-> job[m].enable]
    ELSE Issued(m)

\* If no value holds a placeholder itself and the names of the metrics differ, every
\* collector is given the configuration of its own metrics, with every parameter put in
\* once where ReplaceMetricsParams looks for any - although the parameters are replaced
\* twice, in an order that changes, in structures that late goroutines of an earlier
\* execution write as well - and no two goroutines write one map.
CollectorsGetTheirs ==
  DistinctNames =>
    /\ ~crashed
    /\ PlainValues => \A e \in Executions, m \in Indices :
                        goroutine[e][m] = "done" => used[e][m] = Wanted(m)

\* Every metrics that is collected has its aliases, and so has every one of PriorMetrics,
\* although ConstructPriorMetrics sets them only of the metrics that are due, and neither
\* an execution nor its choice when nothing is due asks which these are.
AliasesSet ==
  /\ \A e \in Executions, m \in Indices : goroutine[e][m] # "none" => m \in aliased
  /\ \A g \in DOMAIN prior : prior[g] # {} /\ prior[g] \subseteq aliased
=============================================================================
