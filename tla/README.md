# A TLA+ verification of the HertzBeat collector

The collector receives collect jobs from a manager, executes them periodically
over several protocols and sends the results back. This directory holds TLA+
models of its parts, the TLC configurations that check them on small instances,
and proofs checked by TLAPS. `PROJECT.json` lists the components, the runs, the
source lines behind every definition, the hazards and the theorems.

## 1. The system

| Part | Source | State | Operations | Interacts with |
|---|---|---|---|---|
| Hashed wheel timer | `internal/job/dispatcher/hashed_wheel_timer.go`, `types/job/timeout_types.go` | buckets with a mutex each, `currentTick`, `started`, `stopped` | NewTimeout, Cancel, Start, Stop, run, tick | time dispatcher |
| Time dispatcher and timer task | `time_wheel.go`, `wheel_timer_task.go` | `cyclicTasks`, `tempTasks`, `jobInfos`, statistics | AddJob, RemoveJob, RescheduleJob, Start, Stop, Run | timer, common dispatcher |
| Job server | `job/server/job_server.go` | `runningJobs` | AddAsyncCollectJob, RemoveAsyncCollectJob, Start, Close | message processors, time dispatcher |
| Common dispatcher, metrics collector | `common_dispatcher.go`, `metrics_collector.go` | one channel per metrics, a deadline | DispatchMetricsTask, CollectMetrics, handleResults, CalculateFields | protocol collectors, message router |
| Parameters, job types, units | `param_replacer.go`, `job_types.go`, `metrics_types.go`, `converter.go` | the metrics and their clones | ConstructPriorMetrics, Clone, ReplaceParams, Convert | dispatcher, metrics collector |
| Protocol collectors | `protocol/`, `util/ssh/` | connections, sessions, tunnels | Collect | metrics collector, targets |
| Result handler, message router | `result_handler.go`, `lazy_message_router.go` | none | SendResult | transport client |
| Transport runner, netty client | `transport/transport.go`, `netty_client.go` | `started`, `conn`, `gzipReader`, a shared `bufio.Writer`, a mutex | Start, Shutdown, SendMsg, three loops, a retry loop | manager, processors |
| gRPC client | `transport/grpc_client.go` | the same, and the response futures | the same | manager |
| Message processors | `transport/processors.go` | the AES key (global) | one per message type | job server |
| Server command, configuration | `cmd/server.go`, `config/config.go`, `metrics/metrics.go` | the loaded configuration | start and close of the runners, watch and reload | all |

What makes it hard: the wheel advances while timeouts are being appended and
cancelled; a run reschedules its job without the lock that additions and
removals take; collectors answer after the dispatcher has given up on them, and
write into structures that the next execution shares; every message of the
manager is processed in a goroutine of its own; connections are dialled, lost,
shut down and read by goroutines that share one mutex only in part, and the
loops of an old gRPC session live on in the next.

## 2. Modules

| Module | Models | Correspondence |
|---|---|---|
| `HashedWheelTimer` | the wheel | `wheel[b]` is a bucket, `loop` is where `run`/`tick` is, `pc[t]` where NewTimeout is. The load of `currentTick` and the append are separate steps, a bucket is locked during its scan, the ticker's channel holds one signal, Stop has three steps. |
| `Timer` | what the timer promises | a timeout is created, cancelled, launched at most once; nil once Stop has begun. |
| `Scheduler` | job server, time dispatcher, timer task, on top of `Timer` | `op` is the operation that holds `Runner.mu`, one step per access to a map; `runPc[t]` is the Run of timeout `t`; `stopPc` is Close. |
| `CommonDispatch` | one execution of a job | `pc` and `i` are the dispatcher's loop, `collector[m]` and `channel[m]` the goroutine and channel of a metrics, `connected` and `dialling` the client, whose mutex Start holds while it dials. |
| `JobParams` | the configuration on its way to the collectors, over several executions | `original` is the job, `clone[e]` what DispatchMetricsTask works on, `goroutine[e][m]` a collecting goroutine, `used[e][m]` what its collector is given. The HTTP part is cloned, the others are shared. Values are put in one after the other, in any order, twice, and only in the configuration of the protocols `Replaceable` names. |
| `Rows` | cells, and the rows the collectors parse out of an answer | one operator per parser. |
| `Collection` | what all collectors share | `open` is what is open, `defers` the deferred closes, `response` what Collect returns. |
| `SshCollector`, `HttpCollector`, `JdbcCollector`, `RedisCollector` | one protocol each (Milvus is with Redis) | one step per call that may fail or wait; the goroutines of the JDBC tunnel and of the nodes of a Redis cluster are processes of their own. |
| `Fields` | CalculateFields with parseCalculates, parseUnits, Convert; the rows of the Arrow record | operators. |
| `MetricsCollector` | the goroutine of CollectMetrics: composes the protocols and `Fields` | from the choice of the collector to the record the router sends; `Tells` is the reference the record is compared with, `LaidOut` what a target has to say of its data for that to make sense. |
| `NettyTransport` | transport runner and netty client | `lock` is a Start that dials with the mutex held; `retry`, `read`, `heart`, `monitor`, `online` are goroutines. |
| `FrameWriter` | SendMsg and writeMessage on the shared `bufio.Writer` | `buf`, `n`, `err` are the writer's, `at[s]` where a sender is, `wire` what the connection got. |
| `GrpcTransport` | the gRPC client | `monitors`, `hearts`, `online` count goroutines at a point of their loop; `stuck` counts those that block on a future; `conn[s]`, `recv[s]` are the connection and the receiving loop of session `s`, `stream[s]` the session whose connection it receives from. |
| `Server` | the server command on top of `GrpcTransport` | `command` is the progress of `startRunners`, the runners start in goroutines of their own, cleanup closes them in order; GO_CLOSE arrives at any moment. |
| `ConfigReload` | WatchConfigAndReload | `reloads[g]` is the goroutine of an accepted event; `pending` and `recent` are the debouncing. |
| `Processors` | receiving loop, message processors, response futures; composes `FrameWriter` | `pc[m]` is the goroutine of message `m`, `chain[m]` the job it ordered, in the wheel or being executed; the job server is its two maps of tasks. The writer's senders are the answers and `Others`: heartbeats, GO_ONLINE, results. |
| `*Proofs` | theorems about the module of that name; `ServerProofs` also about `GrpcTransport` and `ConfigReload`, `DispatchProofs` about `CommonDispatch` and `JobParams`, `CollectProofs` about `MetricsCollector` and the protocols | see section 5. |
| `MC*` | instances for TLC | model values, symmetry, the inputs. The other modules are checked directly. |

`HashedWheelTimer` implements `Timer` (refinement mapping at its end), and
`Scheduler` uses `Timer` for its timeouts: what is checked of the scheduler
rests on the proved refinement and not on a second model of the wheel.

Operators called "faulty variant" are not part of a specification. Each changes
one definition as a plausible bug would; replacing the definition by it must
break the property `PROJECT.json` names, which shows that the property says
something. The type invariants (`TypeOK`) were checked on the instances of the
runs and are not listed in them.

### Abstractions

* Wheel: time is counted in units of which a tick has `TickDuration`. NewTimeout's
  test of `stopped`, the deadline and the load of `currentTick` are one step.
* Scheduler: no delays, so a timeout may be launched at once. `jobInfos` is a set
  of keys: the execution count and times in a JobInfo are written without a lock
  and are not modelled. The three map assignments of Stop are one step; that a run may read
  a map variable while Stop assigns it, a data race, is not modelled. Whether
  an identifier names a cyclic job is fixed. The Runner is started once, and
  Close before Start is left out (`Server` has it); the Stop after a cancelled
  context and the one in Close are one, since the second does nothing.
* Dispatch: at least one metrics, with distinct names, so the lookup of the
  processed metrics succeeds (`JobParams` has equal names). `sent` is what SendMsg
  accepted. A panic in a collecting goroutine is a step of `Collection`.
* Parameters: a template is a sequence of placeholders and literals, a literal
  holds no part of a placeholder, and one template stands for the many fields of a
  protocol's configuration. The value of a parameter is one such token: a literal,
  the empty text or, for a value that holds a placeholder, that placeholder.
* Collections: a cell is a number with or without unit, a text, a text that begins
  like a unit, the empty string or the null value. Numbers are whole, and the unit
  tables stop where 32 bits do. Alias names differ and none is the null value. The
  scripts of string fields are left out; the others add two names or do not
  compile. The reference (`Tells` and what it is built from) shares with the code's
  model only how the configuration is read, that is, what a calculation entry and a
  unit entry mean, the unit tables, and what the expression library makes of a
  script. What a number is, how a unit is converted and what the names of a script
  stand for is stated on its own. `LaidOut` relates the answer of a target to what it
  knows: each cell the parser is to take for a name is what is known under it.
  `MCCollect` assumes it of its inputs (`TargetsAssumption`, evaluated by TLC). At
  most one connection at a time goes through the JDBC tunnel, and `database/sql` makes
  it anew at most `MaxDials` times. The families of a Prometheus answer come in any
  order, those of one family in the order of the text. An HTTP body is empty or not:
  an empty one is `http.NoBody`, which can be read after it was closed. The validation of JDBC URLs is
  not modelled: a URL is good or bad. The Redis and Milvus libraries are external: they keep a
  connection until the client is closed and call the dialer on the asking goroutine.
* Netty: a peer that stops reading until the write deadline counts as lost. In
  `NettyTransport` messages are GO_OFFLINE or other ones. Delayed Shutdowns of
  several GO_OFFLINE messages are one. A panic ends the process (`Alive`).
* Frames: a message is one frame, smaller than the buffer. `bufio.Writer` is
  modelled from the source of its package; data races on it are the interleavings
  of its reads and writes, the length of the buffer included.
* Processors: the job server is two maps and, for each order, its timeout or
  execution. An order on a job is one step, since it holds `Runner.mu`, and so is the
  end of an execution, which stores the job again without that lock; `Scheduler` has
  the steps inside them. The timeout of an overwritten entry stays in the wheel. A password is plain or garbled, by the key it was decrypted with.
* gRPC client: which response blocks a loop on a future is in `Processors`; here any
  loop may, when there is a stream and a heartbeat. streamMsgLoop waits for
  `context.Background()` once its stream is open and never returns: `recv[s]` is
  then its receiving goroutine.
* Server: the metrics and job runners are their start and close. "other" protocols
  include netty, whose life is in `NettyTransport`. The watcher of `ConfigReload`
  has behaviours of its own: the server command does not start it.

## 3. Runs

| Run | Instance | Shows |
|---|---|---|
| `wheel_safety` | 2 timeouts, delays 1 and 9, ticks of 2, 2 buckets, horizon 6 | launch times (`OnTime`, `LateByOneRotation`, `EarlyByLessThanFourTicks`), `AtMostOnce`, and `ImplementsTimer`, which covers cancellation and Stop |
| `wheel_liveness` | delays 1 and 4, horizon 3 | `EventuallyLaunched`, `StopTerminates` |
| `scheduler_safety` | a cyclic and a one-time job with 3 timeouts, or a cyclic one added and removed twice with 4; failures and panics | rescheduling never multiplies or loses a job; when RemoveJob and Stop are effective; no panic before Stop |
| `scheduler_liveness` | a cyclic job, 3 timeouts | a scheduled job keeps executing |
| `dispatch` | 4 metrics, a client that is lost and dials again | every metrics reported once, results in order, no leaked goroutine, termination unless the client dials for ever |
| `netty` | no bound: the state space is finite | one session, when the reader can panic, announcement, end of the loops |
| `messages` | 3 messages of 9 kinds, 2 jobs that are executed and rescheduled, 2 heartbeats of the gRPC client or one other send of the netty client | the jobs the manager wants are the ones scheduled, the secret is used, all is processed, and frames stay whole while senders do not overlap |
| `server` | 3 sessions, fewer with GO_CLOSE, a blocked loop or a signal; 3 changes of the file | no connection is left behind, a started client is looked after, who may close a healthy connection, redialling, the end of the loops; a settled watcher has the current file |
| `collect` | every protocol, layout and failure, tables of up to two rows, three Prometheus samples of two families, empty bodies, a request without deadline; 2 executions of a job with 2 metrics | all is closed, no made-up success, the record is what the target knows, collectors end; each collector gets its own configuration and its aliases |

Three runs are expected to find a violation; each states what a comment or document
says, and the trace shows where the code differs.

| Run | Says | Trace |
|---|---|---|
| `scheduler_removal` | RemoveJob removes a job | the job is removed during its run, which then reschedules it |
| `netty_reconnect` | automatic reconnection | the peer closes and readLoop reports it; the monitor looks only for a nil connection, and IsConnected stays true |
| `netty_context` | the retry loop stops with the context | the context is cancelled, and Shutdown runs, between the loop's test and its Start |

### What the provisos say

Some properties hold only outside a race the code really has. The proviso names the
race, so the property says that it is the only way to go wrong.

* `Removable`, `RemovedIsQuiet`, `StopCancels`: jobs that are not in `tangled`, the
  history of the races listed in its comment.
* `DispatchTerminates`: SendResult asks IsStarted, and the Start of the gRPC client
  dials without a deadline with the mutex held. While the manager is away an
  execution does not end, nor is its job rescheduled. `KeepsExecuting` takes for
  granted that a dispatch ends.
* `NeverLost`, `KeepsExecuting`: a dispatch that fails or panics ends its job.
* `FramesIntact`: no two senders (answers, heartbeats, GO_ONLINE, results) were in
  writeMessage at a time. SendMsg holds only a read lock, so they can be; frames then
  mix, the writer may fail for good, and nothing is promised.
* `SecretIsUsed`, `AllProcessed`: no gRPC heartbeat has taken the message for its
  own response (the table is keyed by the collector's identity), and none got two.
* `LastWordStands`: orders whose processing overlaps may take effect in either
  order. A job that was added while it was in a map has a timeout that no removal
  finds, or an entry in each of the maps, of which a removal takes one; a job removed
  while it is being executed is scheduled again, which `scheduler_removal` shows
  (`strayed` is the history of both). A
  message that a gRPC heartbeat took for its own response is not processed and does
  not count as an order.
* `Supervised`: the client may be deaf. Any error of Recv ends the receiving loop,
  also over a connection that stays ready or that the ClientConn makes anew by itself,
  and no loop is begun before the next Start. The online message may fail, which is
  only logged, and is not repeated. A heartbeat loop may block on its future.
* `LoopsEnd` (gRPC): a loop that blocks on a future stays, and so does one
  streamMsgLoop for every stream that was opened (`grpc_client.go:293`).
* `HealthyConnectionKept`: a monitor of an earlier session may kill a healthy one.
* `ReloadCurrent`: two reloads that overlap may install the older file last.
* `NothingLeftOpen`: the SSH proxy's client and an HTTP client's pooled connection
  stay open.
* `SuccessIsAnswered`: a 401 whose digest cannot be answered is read after its body
  was closed; if it has no body that is no error, and the status is reported as data.
* `TellsTheTruth`: a text that begins like a unit is read as the number 0 (`Misread`:
  "Kafka" is 0, `param_replacer.go:407`).
* `CollectEnds`: SSH steps after the dial have no deadline, nor has an HTTP request
  whose configured timeout is zero or less (`Waiting`).
* `CollectorsGetTheirs`: values that hold placeholders, and metrics of one name; and
  what ReplaceMetricsParams does not look for reaches the collector as it was issued
  (see section 6).

### Bounds

* Wheel: delay 1 is below a tick (the target bucket has just been passed), 9 is
  more than two rotations. With horizon 6 a launch is early by more than three
  ticks (a bound of 3 is violated), so that 4 is tight; with horizon 5 it is not.
  After the horizon time passes only to drain the wheel.
* Scheduler (`Loads`): two additions and removals are what two chains and a stale
  map entry need; four timeouts let both chains be renewed. The liveness property
  ends when the timeouts of the model do (`Exhausted`).
* `dispatch`: four metrics are more than the races of the loops need.
* `messages` (`Scripts`): a script for the gRPC client is any message followed by an
  issue and a deletion or by the secret and an issue, which is what the races need; two
  heartbeats (`MaxBeats`) let a late response meet the next future. The netty client
  has fewer scripts, with two answers that share the writer with one other message
  (`MaxSends`).
* `server`: `MaxStarts` = 3 sessions let a monitor of the first one kill the
  second and a third be dialled. `StopStarts` = 2 with GO_CLOSE or a blocked loop
  (`MaxStuck` = 1) and `SignalStarts` = 1 with a signal keep those behaviours small;
  after a signal all runs down in the order of Cleanup, whatever was dialled before. `MaxWrites` = 3 lets two reloads overlap and a third follow.
* `collect`: two masters and a slave; tables of no, one and two rows with gaps,
  units and nulls. Two executions (`Executions`) of a job overlap; `MaxNow` lets
  metrics of intervals 1 and 2 become due at different times, counted from
  `IssueTime`, when every interval has passed. Values are plain, empty or hold a
  placeholder, protocols are `Replaceable` or not. `MaxDials` = 3 is what
  `database/sql` tries at most.
* Deadlock is not checked where the system may stop: after Stop, at the end of a
  job's execution or a collection, after Shutdown, and when the bounds are reached.

## 4. Fairness

* Wheel: weak fairness of time, of the loop and of the rest of NewTimeout and
  Stop; none of new timeouts, cancellations or the decision to stop.
* Scheduler: operations, runs, Stop once begun and the launch of live timeouts on
  a running timer (which `EventuallyLaunched` justifies).
* Dispatch: the dispatcher, the deadline and the send of a result; a protocol's
  collector may hang for ever, and so may a dial. Strong fairness of the two steps
  that wait for the client's mutex: an Unlock of `sync.RWMutex` lets in the readers
  that wait, before the next writer.
* Collections: the goroutine runs on, and a step for which the code sets a deadline
  ends somehow; a peer that is given all the time need not answer (`Waiting`).
* Netty: the goroutines, and strong fairness for those that wait for the mutex,
  since `sync.RWMutex` starves nobody. Strong fairness of a successful dial says
  that the manager is reachable again and again. A read fails only after the
  connection is gone. Nothing is assumed of the peer, of Close, or of the context.
* Processors: every goroutine that processes a message runs on, the manager sends the
  whole script, and a heartbeat's call returns or times out, as its deadline says.
  Nothing is assumed of the executions of the jobs or of the other senders, which keep
  nobody waiting: SendMsg takes a read lock.
* Server: every goroutine runs on and gets the mutex when no dial holds it. Nothing
  is assumed of a dial (it has no deadline), of the connection, of the signal or of a
  loop that blocks on a future; Recv fails only once the connection is gone. A
  behaviour has finitely many dials, so fairness of `Passing`, whose steps are
  finitely many for each, is that of every one of its actions.

## 5. Proofs

The theorems hold for every value of the constants that satisfies the named
assumptions of the modules, bounds included. TLC checks the same properties on the
instances above. Every safety property of a passing run is proved; liveness is not.

| Module | Theorems | For all | The invariant adds |
|---|---|---|---|
| `HashedWheelTimerProofs` | `TypeCorrect`, `WheelInvariant`, `NeverEarlyHolds`, `OnTimeHolds`, `AtMostOnceHolds`, `CancelledNeverLaunchedHolds`, `NothingAfterStopHolds`, `WheelImplementsTimer` | timeouts, delays, tick durations, wheel sizes | where every timeout is, and that the wheel has not passed the target tick of one appended in time |
| | `LateByOneRotationHolds` | the same | a timeout whose append lost the race has a visit to come within a rotation |
| | `EarlyByLessThanFourTicksHolds` | the same | how far the ticks that are certain to come are ahead of the clock |
| `SchedulerProofs` | `SchedulerInvariant`, `TypeCorrect`, `ChainsBoundedHolds`, `NeverLostHolds`, `RemovableHolds`, `RemovedIsQuietHolds`, `NoPanicBeforeStopHolds`, `StopCancelsHolds`, `SchedulerUsesTimer` | jobs, timeouts, numbers of additions and removals | what maps, runs and the operation under way refer to, and the live timeout of an untangled job in each phase |
| | `StatsAddUpHolds` | the same | that what is created is finite, and a timeout not launched has no run |
| `DispatchProofs` | `ReportedOnceHolds`, `DeliveredInOrderHolds` | numbers of metrics | the metrics before the index of the receiving loop are the ones received or timed out; the results before that of handleResults the ones sent or refused |
| | `DispatchTypeCorrect`, `RoomHolds`, `DispatchBounded` | the same | a channel is empty until its goroutine closes it; the goroutines behind the index are not started |
| | `CollectorsGetTheirsHolds`, `AliasesSetHolds` | jobs, parameters, executions | every configuration is as it was issued or as it is wanted, and wanted once its execution has replaced its parameters |
| `CollectProofs` | `CollectInvariant`, `NothingLeftOpenHolds`, `SuccessIsAnsweredHolds` | configurations, Redis nodes | what a collector holds at which step that no deferred close covers, and where a success comes from |
| | `TellsTheTruthHolds` | targets whose data is `LaidOut`, of any protocol and size | what the rows are while they are gathered, calculated and sent, and in which order |
| `NettyTransportProofs` | `TypeCorrect`, `OneSessionHolds`, `PanicOnlyAfterShutdownHolds`, `SessionStaysOver` | behaviours of any length | who may be dialling; after the first session nobody is; a reader in a message has its gzip reader unless Shutdown took it |
| `FrameWriterProofs` | `FramesIntactHolds` | senders | what the buffer holds at every point of the one sender in writeMessage |
| `ProcessorsProofs` | `FramesIntactHolds`, `SecretIsUsedHolds`, `LastWordStandsHolds` | scripts, jobs, heartbeats and other sends, either client | which order acted last on a job, what its maps hold of a job that has not strayed, and that no order that acted was received after the last one was answered |
| | `OnlyTheSecondWaitsHolds` | the same | responses in a channel or on their way into it are not more than the calls of PutResponse |
| `ServerProofs` | `OneConnectionHolds`, `SupervisedHolds`, `HealthyConnectionKeptHolds` | numbers of restarts | only a stopped client is dialled; a monitor exists only after a Start; what a monitor about to shut the client down has seen |
| | `ReloadCurrentHolds` | numbers of changes | a change not yet installed has an event, a sleeping reload or one that has read it; events are dropped only while the pending reload is asleep |

But for type correctness, no property is inductive as it stands. The arguments, by module:

* Wheel. `OnTime` and `AtMostOnce` say nothing of timeouts still in the wheel: `IInv`
  adds that a timeout is in no bucket but that of its target tick, in none once
  launched or before the append, that what a scan has still to visit is in the locked
  bucket, and how the progress of Stop relates to the loop, which the refinement and
  `NothingAfterStop` need. `LateByOneRotation` follows from arithmetic (any bucket is
  visited within `WheelSize` ticks) and from the fact that no step lets the awaited
  visit pass without dropping the timeout. For `EarlyByLessThanFourTicks` the proof
  counts the signals that were or will be ticks (processed, taken by the loop, waiting
  in the channel): their lead over the clock never grows, since a signal comes only
  when a whole tick has passed, and NewTimeout sets deadline and target tick at one
  moment.
* Scheduler. `Linked` says that map entries, runs and the operation under way refer to
  timeouts of the right job; `Stopping` that a timeout is nil only after the timer was
  stopped; `Bounded` that an addition under way has a chain in reserve; `Phases` where
  the live timeout of an untangled job is: in the map, in the hands of a run about to
  store it, of RemoveJob, or still to be found by Stop. `ChainStep` says all
  that one step may do to the chains of a job, from which the bound on them follows.
  `SchedulerUsesTimer` shows that each step is a step of `Timer` or leaves it alone
  (only timeouts that exist are cancelled), the other half of `WheelImplementsTimer`.
  `StatsAddUp` counts an execution under way by the place of its Run.
* Dispatch. That an execution ends is liveness, what it rests on is proved: a result
  always finds room in its channel, even if nobody receives (`Room`), and the steps the
  dispatcher has left (`Left`, at most 4 N + 1) go down with each of them and
  with nothing else (`Nearer`).
* Parameters. If names differ and no value holds a placeholder, replacing twice is
  replacing once (`Twofold`), so that it does not matter that a shared configuration is
  replaced by every execution and again by every goroutine, and a configuration is
  always as issued or as wanted. What the recursive `replaced` computes is shown by
  induction over the parameters visited so far (`ReplacedSoFar`), in the form of a
  least counterexample (`NatSetInduction`), for every order in which the map is
  visited. That no group of PriorMetrics is empty is a pigeonhole argument (`Places`).
* Collections. `Holds` says what a collector has open at which step that no deferred
  close covers yet, `Covered` that there is nothing else, `Path` how steps follow one
  another, `Earned` where a success and its rows come from. The lemmas state the few
  forms a step has (it goes on, having opened and deferred; it returns, having closed),
  and every action is shown to have one of them.
* Truth. `TellsTheTruth` is about the end of a collection; `Truth` says what the rows
  are on the way there. `Gathered`: each is what the parser made of one row of the
  target's data. `Making`: rows that `Tells` holds of, and one whose fields so far are
  as they should be, or misread, with what the scripts of the others are to see as the
  context (`StandsFor`, `Fits`). `Made`: all
  of them. The order `f` of the rows is that of the data, or, for Redis, that in which
  the nodes answered, which the proof extends node by node, or, for Prometheus, that
  in which the families were visited. Each parser has a lemma
  from `LaidOut` to `Gathered`. None of it needs an induction over data:
  CalculateFields takes one step per field, and where a parser counts what went before
  (lines, kept samples) `Rows` says so with a cardinality or a sequence.
* Netty. `SessionStaysOver` is what `netty_reconnect` meets, in every behaviour: a
  client that has connected is never dialled again. (The late Start that
  `netty_context` finds is a first one.)
* Processors. Every step is a step of the writer or leaves it alone, so that
  `FramesIntact` carries over from `FrameWriterProofs`, heartbeats and results
  included. For `LastWordStands`, a job that has not strayed has at most one entry in
  the maps, what waits or runs of it is the job of that entry, it is as the last order
  that acted on it left it, and that order is in no `seen` list of one that acted. `OnlyTheSecondWaits` counts, for each heartbeat, the
  responses in its future and those still to enter it.
* gRPC. The hard case is `HealthyConnectionKept`, an action property: `Seen` says of
  every monitor about to call Shutdown that the session it saw is the current one,
  which is then not ready or has recovered, or an earlier one. Every step of the
  command is first shown to be one of a few steps of its client (`StepsOfTheClient`).

The assumptions are about inputs. `WheelAssumption`: the tick and the wheel are not
empty, delays are not negative. `SchedulerAssumption`: repeating jobs are cyclic, and a
load has no more timeouts than there are. `DispatchAssumption`: a job has a metrics,
and its channel holds one result. `JobsAssumption`: the shape of a job; its parameters
are finitely many, each named by its placeholder. `ClockAssumption`: the clock counts
from 1970, so that every interval has passed since `CollectTime` 0. `NodesAssumption`:
no Redis node is both master and slave. `LaidOut`, a hypothesis of
`TellsTheTruthHolds`: the target's answer says what it knows, and alias names differ.
`ProcessorsAssumption`: a script has N messages, and an order to collect names one job. `MaxStartsAssumption`,
`StopStartsAssumption`, `MaxWritesAssumption`: bounds are natural numbers.

Model-checked only:

* Liveness, which is out of the prover's reach: `EventuallyLaunched`, `StopTerminates`,
  `KeepsExecuting`, `NoLeakedCollector`, `DispatchTerminates`, `OnlineAnnounced`,
  `LoopsEnd`, `AllProcessed`, `Redials`, `CollectEnds`, `TunnelEnds`.
  `NeverLostHolds`, `RoomHolds`, `DispatchBounded` and `OnlyTheSecondWaitsHolds` are
  the safety half of `KeepsExecuting`, `NoLeakedCollector`, `DispatchTerminates` and
  `AllProcessed`.
* The three violations, which are traces.
* The type invariants of the server, the processors and the collection, beyond the
  parts their proofs need.

## 6. Known differences that no run checks

* AddJob takes a delay for milliseconds and RescheduleJob the interval for seconds
  (`time_wheel.go:125`); the scheduler's model has no time.
* The map entries of one-time jobs are never deleted after their run
  (`time_wheel.go:154`).
* A client that cannot be created is logged as "will retry in background"
  (`transport.go:94`) and never retried; the default protocol of a configuration
  file, "http", has no client.
* The acknowledgement of GO_OFFLINE has 100 ms before Shutdown (`processors.go:145`).
* The statistics logger is cleared while its goroutine reads it (`time_wheel.go:405`).
* GO_CLOSE is to shut the client down (`processors.go:164`), but a monitor of the gRPC
  client that sleeps at that moment finds the connection not ready and starts the
  client again. `LoopsEnd` speaks of a client that stays stopped.
* A signal that comes while the gRPC client dials waits for the dial: Close needs the
  mutex, and nothing promises that the command returns.
* CollectMetrics says of its replacement "This handles all protocols (HTTP, SSH, JDBC,
  etc.)" (`metrics_collector.go:538`). ReplaceMetricsParams looks at JDBC, SSH, HTTP
  and Redis only: a Milvus collector gets its placeholders as they were issued, and so
  does the Enable switch of every SSH tunnel (`param_replacer.go:217`, `:259`). The
  model has both, and `Wanted` states what such a collector is given.
* The rows of a Prometheus answer are in the order of a Go map (`http_collector.go:364`),
  another one at every collection.
* A JDBC row is scanned into as many values as there are aliases
  (`jdbc_collector.go:725`): a query with another number of columns fails.

## 7. Not modelled

* The message router of `internal/job/router`: the server does not use it.
* `util/arrow`, protobuf, AES, gzip, digest authentication: encodings without state.
  What they are used on, and with which key, is modelled.
* The periodic statistics log, the metrics the endpoint serves, logging, the banner,
  the version command, generated code: nothing to state.
* The contents of JobInfo, the delays of the scheduler and the length of the
  collection's deadline; environment variables and command-line flags.
* Validation of JDBC URLs, and settings for connection reuse that nothing reads.
