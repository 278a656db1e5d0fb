----------------------------- MODULE Processors -----------------------------
(***************************************************************************)
(* What the collector does with the messages of the manager:               *)
(* processReceivedMessage of netty_client.go and grpc_client.go, the       *)
(* processors of internal/transport/processors.go with the password        *)
(* decryption they call, and the ResponseFuture of the gRPC heartbeat.     *)
(*                                                                         *)
(* The receiving loop takes the messages one by one, but every message is  *)
(* processed in a goroutine of its own.  The netty client sends the answer *)
(* of a request over the writer (FrameWriter) that it shares with its      *)
(* heartbeats and the results; the gRPC client discards it.  Of the job    *)
(* server there are the two maps of tasks and the timeouts and executions  *)
(* of the jobs: orders change them one at a time under Runner.mu, but an   *)
(* execution stores the job it schedules again without it.  Scheduler has  *)
(* the steps inside these operations.                                      *)
(***************************************************************************)
EXTENDS Naturals, Sequences, FiniteSets, Functions

CONSTANTS
  Jobs,      \* job identifiers
  N,         \* bound: how many messages the manager sends
  Scripts,   \* the sequences of N messages the manager may send to either client
  MaxBeats,  \* bound: heartbeats of the gRPC client
  MaxSends,  \* bound: what the netty client sends besides the answers
  Torn       \* see FrameWriter

(***************************************************************************)
(* A message: its type, whether it is a REQUEST, whether its body parses   *)
(* (for GO_ONLINE: carries a secret), and the jobs it is about; the body   *)
(* of an issue is one job.                                                 *)
(***************************************************************************)
Kinds == {"heartbeat", "online", "offline", "close", "issue", "once", "delete"}
Clients == {"netty", "grpc"}
Message == [kind : Kinds, request : BOOLEAN, ok : BOOLEAN, jobs : Seq(Jobs)]

ASSUME ProcessorsAssumption ==
  /\ N \in Nat /\ MaxBeats \in Nat /\ MaxSends \in Nat
  /\ \A c \in Clients : \A s \in Scripts[c] : Len(s) = N /\ \A i \in 1 .. N :
       s[i] \in Message /\ (s[i].kind \in {"issue", "once"} => Len(s[i].jobs) = 1)

Msgs == 1 .. N

\* Everything that is written to the manager: the answer of every message, and
\* heartbeats, GO_ONLINE and results, each sent by a goroutine of its own.
Others == N + 1 .. N + MaxSends
Senders == Msgs \cup Others

VARIABLES
  client,     \* the client the collector is configured with
  scheduled,  \* the processors were registered with a job scheduler
  script,     \* what the manager sends
  received,   \* how many of the messages the receiving loop has taken
  started,    \* the client is started
  offline,    \* a GO_OFFLINE waits for its delayed Shutdown
  pc,         \* progress of the goroutine of every message
  todo,       \* the job ids a DELETE_CYCLIC_TASK has still to remove
  failed,     \* the job ids it could not remove
  answer,     \* what Process returned: "none" or the kind of the answer
  key,        \* crypto's default secret key: "" or the "manager"'s
  password,   \* the passwords of the job of a message: "plain", "garbled", "none"
  cyclicTasks, tempTasks,     \* the message whose job is in the map, or 0
  chain,      \* the job of a message: "none" before it is added and once its timeout
              \* is cancelled, "waits" in the wheel, "runs", or "over" by itself
  strayed,    \* history: the jobs that were added while in a map, or removed while
              \* they were being executed
  seen,       \* history: the messages answered when a message was received
  heart,      \* heartbeatLoop of the gRPC client, in SendMsgSync
  beat,       \* the number of the last heartbeat, hence of its future
  table,      \* responseTable[identity]: the number of a future, or 0
  future,     \* the responses in the channel (capacity 1) of every future
  puts,       \* history: the calls of PutResponse on every future
  recv,       \* the future on which the receiving loop has called PutResponse
  crashed,    \* concurrent map access: the process is dead
  buf, n, err, wire, at, flushing, returned, overlapped   \* FrameWriter

W == INSTANCE FrameWriter

writerVars == <<buf, n, err, wire, at, flushing, returned, overlapped>>
inputVars == <<client, scheduled, script>>
jobVars == <<cyclicTasks, tempTasks, chain, strayed>>
handlerVars == <<pc, todo, failed, answer, password>>
beatVars == <<heart, beat, table, future, puts, recv>>
vars == <<inputVars, received, started, offline, handlerVars, key, jobVars, seen,
          beatVars, crashed, writerVars>>

kind(m) == script[m].kind
Answered(m) == pc[m] = "done" /\ at[m] # "failed"

Init ==
  /\ client \in Clients
  /\ scheduled \in BOOLEAN
  /\ script \in Scripts[client]
  /\ received = 0
  /\ started = TRUE
  /\ offline = FALSE
  /\ pc = [m \in Msgs |-> "none"]
  /\ todo = [m \in Msgs |-> <<>>]
  /\ failed = [m \in Msgs |-> {}]
  /\ answer = [m \in Msgs |-> "none"]
  /\ key = ""
  /\ password = [m \in Msgs |-> "none"]
  /\ cyclicTasks = [j \in Jobs |-> 0]
  /\ tempTasks = [j \in Jobs |-> 0]
  /\ chain = [m \in Msgs |-> "none"]
  /\ strayed = {}
  /\ seen = [m \in Msgs |-> {}]
  /\ heart = "insert"
  /\ beat = 0
  /\ table = 0
  /\ future = [b \in 1 .. MaxBeats |-> 0]
  /\ puts = [b \in 1 .. MaxBeats |-> 0]
  /\ recv = 0
  /\ crashed = FALSE
  /\ W!Init

-----------------------------------------------------------------------------
(***************************************************************************)
(* The receiving loop: readLoop of the netty client, the goroutine of      *)
(* streamMsgLoop of the gRPC client, and processReceivedMessage.           *)
(***************************************************************************)

\* A RESPONSE, of whatever type, whose identity is in the response table is given
\* to the future that waits there.  Only the gRPC heartbeat fills the table, under
\* the identity that all messages of the collector carry.
ToFuture(m) == client = "grpc" /\ ~script[m].request /\ table # 0

\* Any other message gets a goroutine.
Dispatch(m) ==
  IF ToFuture(m)
  THEN /\ recv' = table
       /\ puts' = [puts EXCEPT ![table] = @ + 1]
       /\ pc' = [pc EXCEPT ![m] = "done"]
       /\ UNCHANGED seen
  ELSE /\ pc' = [pc EXCEPT ![m] = "process"]
       /\ seen' = [seen EXCEPT ![m] = {k \in Msgs : Answered(k)}]
       /\ UNCHANGED <<recv, puts>>

\* The table is read without a lock: a read that meets a write of the heartbeat
\* loop may end the process.
Receive ==
  /\ started
  /\ received < N
  /\ recv = 0
  /\ received' = received + 1
  /\ Dispatch(received + 1)
  /\ crashed' \in IF /\ client = "grpc" /\ ~script[received + 1].request
                     /\ heart \in {"insert", "delete"}
                  THEN BOOLEAN ELSE {FALSE}
  /\ UNCHANGED <<inputVars, started, offline, todo, failed, answer, password, key,
                 jobVars, heart, beat, table, future, writerVars>>

\* Faulty variant of RecvPut: a channel without a capacity, which only a waiting
\* heartbeat empties.
RecvPutUnbuffered ==
  /\ recv # 0
  /\ heart = "wait" /\ beat = recv
  /\ future' = [future EXCEPT ![recv] = 1]
  /\ recv' = 0
  /\ UNCHANGED <<inputVars, received, started, offline, handlerVars, key, jobVars, seen,
                 heart, beat, table, puts, crashed, writerVars>>

\* PutResponse of the receiving loop, which waits while the channel is full.
RecvPut ==
  /\ recv # 0
  /\ future[recv] = 0
  /\ future' = [future EXCEPT ![recv] = 1]
  /\ recv' = 0
  /\ UNCHANGED <<inputVars, received, started, offline, handlerVars, key, jobVars, seen,
                 heart, beat, table, puts, crashed, writerVars>>

-----------------------------------------------------------------------------
(***************************************************************************)
(* heartbeatLoop of the gRPC client: SendMsgSync with one future per       *)
(* heartbeat, all under the same identity.                                 *)
(***************************************************************************)

Beat(from, to) ==
  /\ client = "grpc"
  /\ heart = from
  /\ heart' = to
  /\ UNCHANGED <<inputVars, received, started, offline, handlerVars, key, jobVars, seen,
                 recv, crashed, writerVars>>

\* The loop, while the client is started: the future enters the table.
BeatInsert ==
  /\ started
  /\ beat < MaxBeats
  /\ Beat("insert", "call")
  /\ beat' = beat + 1
  /\ table' = beat + 1
  /\ UNCHANGED <<future, puts>>

BeatEnd ==
  /\ ~started
  /\ Beat("insert", "ended")
  /\ UNCHANGED <<beat, table, future, puts>>

\* The call fails (PutError on a channel nobody reads), or it returns something
\* that is not the answer, or the answer, which goes to the future first.
BeatCall ==
  /\ \E to \in {"delete", "wait", "put"} : Beat("call", to)
  /\ puts' = IF heart' = "put" THEN [puts EXCEPT ![beat] = @ + 1] ELSE puts
  /\ UNCHANGED <<beat, table, future>>

\* PutResponse of the loop itself, which waits while the channel is full.
BeatPut ==
  /\ Beat("put", "delete")
  /\ future[beat] = 0
  /\ future' = [future EXCEPT ![beat] = 1]
  /\ UNCHANGED <<beat, table, puts>>

\* Wait returns the response, ...
BeatAnswered ==
  /\ Beat("wait", "delete")
  /\ future[beat] = 1
  /\ future' = [future EXCEPT ![beat] = 0]
  /\ UNCHANGED <<beat, table, puts>>

\* ... or DeadlineExceeded.
BeatTimeout ==
  /\ Beat("wait", "delete")
  /\ UNCHANGED <<beat, table, future, puts>>

\* The deferred delete, and the sleep.
BeatDelete ==
  /\ Beat("delete", "insert")
  /\ table' = 0
  /\ UNCHANGED <<beat, future, puts>>

HeartbeatLoop ==
  BeatInsert \/ BeatEnd \/ BeatCall \/ BeatPut \/ BeatAnswered \/ BeatTimeout \/ BeatDelete

-----------------------------------------------------------------------------
(***************************************************************************)
(* The processors.  Process returns an answer; the netty client sends it   *)
(* when the message was a request.                                         *)
(***************************************************************************)

\* decryptPassword: the key of the manager that encrypted the passwords gives the
\* plain text; without it the built-in key is tried and the text kept as it is.
\* Either way the parameter is no longer marked as encrypted.
decryptPassword == IF key = "manager" THEN "plain" ELSE "garbled"

Return(m, what) ==
  /\ answer' = [answer EXCEPT ![m] = what]
  /\ pc' = [pc EXCEPT ![m] = IF client = "netty" /\ script[m].request /\ what # "none"
                             THEN "send" ELSE "done"]

Handler(m) ==
  /\ pc[m] # "none"
  /\ UNCHANGED <<inputVars, received, seen, beatVars, crashed>>

Heartbeat(m) ==
  /\ Handler(m) /\ pc[m] = "process" /\ kind(m) = "heartbeat"
  /\ Return(m, "none")
  /\ UNCHANGED <<started, offline, todo, failed, password, key, jobVars, writerVars>>

\* Faulty variant of GoOnline: the answer is sent before the key is stored.
GoOnlineAnswersFirst(m) ==
  /\ Handler(m) /\ pc[m] \in {"process", "done"} /\ kind(m) = "online"
  /\ IF pc[m] = "process"
     THEN Return(m, "ack") /\ UNCHANGED key
     ELSE /\ key' = IF script[m].ok /\ answer[m] = "ack" THEN "manager" ELSE key
          /\ UNCHANGED <<answer, pc>>
  /\ UNCHANGED <<started, offline, todo, failed, password, jobVars, writerVars>>

\* GoOnlineProcessor: stores the secret of the manager, if there is one.
GoOnline(m) ==
  /\ Handler(m) /\ pc[m] = "process" /\ kind(m) = "online"
  /\ key' = IF script[m].ok THEN "manager" ELSE key
  /\ Return(m, "ack")
  /\ UNCHANGED <<started, offline, todo, failed, password, jobVars, writerVars>>

\* GoOfflineProcessor: only the netty client is registered with itself, and is
\* shut down 100 ms later.
GoOffline(m) ==
  /\ Handler(m) /\ pc[m] = "process" /\ kind(m) = "offline"
  /\ offline' = (offline \/ client = "netty")
  /\ Return(m, "ack")
  /\ UNCHANGED <<started, todo, failed, password, key, jobVars, writerVars>>

\* Shutdown takes the write lock, hence waits for every sender.
Shutdown == ~\E s \in Senders : W!Active(s)

OfflineShutdown ==
  /\ offline
  /\ Shutdown
  /\ offline' = FALSE
  /\ started' = FALSE
  /\ UNCHANGED <<inputVars, received, handlerVars, key, jobVars, seen, beatVars, crashed,
                 writerVars>>

\* GoCloseProcessor: only the gRPC client is registered with itself.
GoClose(m) ==
  /\ Handler(m) /\ pc[m] = "process" /\ kind(m) = "close"
  /\ started' = (started /\ client = "netty")
  /\ Return(m, "ack")
  /\ UNCHANGED <<offline, todo, failed, password, key, jobVars, writerVars>>

\* The early returns of the three task processors.
Rejected(m) ==
  /\ Handler(m) /\ pc[m] = "process" /\ kind(m) \in {"issue", "once", "delete"}
  /\ \/ ~scheduled /\ Return(m, "no job scheduler")
     \/ scheduled /\ ~script[m].ok /\ Return(m, "failed to parse")
  /\ UNCHANGED <<started, offline, todo, failed, password, key, jobVars, writerVars>>

\* CollectCyclicDataProcessor and CollectOneTimeDataProcessor: the job is parsed
\* and its passwords are decrypted once and for all, ...
CollectData(m) ==
  /\ Handler(m) /\ pc[m] = "process" /\ kind(m) \in {"issue", "once"}
  /\ scheduled /\ script[m].ok
  /\ password' = [password EXCEPT ![m] = decryptPassword]
  /\ pc' = [pc EXCEPT ![m] = "add"]
  /\ UNCHANGED <<started, offline, todo, failed, answer, key, jobVars, writerVars>>

job(m) == script[m].jobs[1]
Scheduled(j) == cyclicTasks[j] # 0 \/ tempTasks[j] # 0

\* ... and then AddAsyncCollectJob: a new timeout, and an entry that replaces one of
\* the same job, whose timeout stays in the wheel.
AddAsyncCollectJob(m) ==
  /\ Handler(m) /\ pc[m] = "add"
  /\ IF kind(m) = "issue"
     THEN cyclicTasks' = [cyclicTasks EXCEPT ![job(m)] = m] /\ UNCHANGED tempTasks
     ELSE tempTasks' = [tempTasks EXCEPT ![job(m)] = m] /\ UNCHANGED cyclicTasks
  /\ chain' = [chain EXCEPT ![m] = "waits"]
  /\ strayed' = IF Scheduled(job(m)) THEN strayed \cup {job(m)} ELSE strayed
  /\ Return(m, "scheduled")
  /\ UNCHANGED <<started, offline, todo, failed, password, key, writerVars>>

\* Faulty variant of DeleteCyclicTask: of an array only the first id is taken.
DeleteFirstOnly(m) ==
  /\ Handler(m) /\ pc[m] = "process" /\ kind(m) = "delete"
  /\ scheduled /\ script[m].ok
  /\ todo' = [todo EXCEPT ![m] = SubSeq(script[m].jobs, 1, 1)]
  /\ pc' = [pc EXCEPT ![m] = "remove"]
  /\ UNCHANGED <<started, offline, failed, answer, password, key, jobVars, writerVars>>

\* DeleteCyclicTaskProcessor: an array of ids, or a single one.
DeleteCyclicTask(m) ==
  /\ Handler(m) /\ pc[m] = "process" /\ kind(m) = "delete"
  /\ scheduled /\ script[m].ok
  /\ todo' = [todo EXCEPT ![m] = script[m].jobs]
  /\ pc' = [pc EXCEPT ![m] = "remove"]
  /\ UNCHANGED <<started, offline, failed, answer, password, key, jobVars, writerVars>>

Orders(j) == {m \in Msgs : /\ kind(m) \in {"issue", "once", "delete"}
                           /\ script[m].ok /\ j \in Range(script[m].jobs)}

\* Timeout.Cancel: a timeout that has expired is left alone.
Cancel(m) == chain' = IF chain[m] = "waits" THEN [chain EXCEPT ![m] = "none"] ELSE chain

\* RemoveAsyncCollectJob of the next id: the cyclic task if there is one, else the
\* one-time task, else an error, after which the loop goes on.
RemoveAsyncCollectJob(m) ==
  /\ Handler(m) /\ pc[m] = "remove" /\ todo[m] # <<>>
  /\ todo' = [todo EXCEPT ![m] = Tail(@)]
  /\ LET j == Head(todo[m])
     IN /\ \/ /\ cyclicTasks[j] # 0
              /\ cyclicTasks' = [cyclicTasks EXCEPT ![j] = 0]
              /\ Cancel(cyclicTasks[j])
              /\ UNCHANGED <<tempTasks, failed>>
           \/ /\ cyclicTasks[j] = 0 /\ tempTasks[j] # 0
              /\ tempTasks' = [tempTasks EXCEPT ![j] = 0]
              /\ Cancel(tempTasks[j])
              /\ UNCHANGED <<cyclicTasks, failed>>
           \/ /\ cyclicTasks[j] = 0 /\ tempTasks[j] = 0
              /\ failed' = [failed EXCEPT ![m] = @ \cup {j}]
              /\ UNCHANGED <<cyclicTasks, tempTasks, chain>>
        /\ strayed' = IF \E k \in Orders(j) : chain[k] = "runs"
                      THEN strayed \cup {j} ELSE strayed
  /\ UNCHANGED <<pc, started, offline, answer, password, key, writerVars>>

DeleteReturns(m) ==
  /\ Handler(m) /\ pc[m] = "remove" /\ todo[m] = <<>>
  /\ Return(m, IF failed[m] = {} THEN "all removed" ELSE "partially completed")
  /\ UNCHANGED <<started, offline, todo, failed, password, key, jobVars, writerVars>>

\* The goroutine of the netty client sends the answer; an error is only logged.
SendAnswer(m) ==
  /\ Handler(m) /\ pc[m] = "send"
  /\ \/ ~started /\ W!Refuse(m)
     \/ started /\ W!Write(m)
  /\ pc' = [pc EXCEPT ![m] = IF at'[m] \in {"sent", "failed"} THEN "done" ELSE "send"]
  /\ UNCHANGED <<started, offline, todo, failed, answer, password, key, jobVars>>

-----------------------------------------------------------------------------
(***************************************************************************)
(* What goes on besides the processors: the wheel and the executions, and  *)
(* the other senders of the netty client.                                  *)
(***************************************************************************)

Besides ==
  UNCHANGED <<inputVars, received, started, offline, handlerVars, key, seen, beatVars, crashed>>

\* The timeout expires, and WheelTimerTask.Run begins.
Launch(m) ==
  /\ chain[m] = "waits"
  /\ chain' = [chain EXCEPT ![m] = "runs"]
  /\ UNCHANGED <<cyclicTasks, tempTasks, strayed, writerVars>>
  /\ Besides

\* Run returns.  A cyclic job with an interval whose dispatch went well gets a new
\* timeout and its entry back, whatever has become of it (RescheduleJob).
RunEnds(m) ==
  /\ chain[m] = "runs"
  /\ \/ /\ kind(m) = "issue"
        /\ chain' = [chain EXCEPT ![m] = "waits"]
        /\ cyclicTasks' = [cyclicTasks EXCEPT ![job(m)] = m]
     \/ /\ chain' = [chain EXCEPT ![m] = "over"]
        /\ UNCHANGED cyclicTasks
  /\ UNCHANGED <<tempTasks, strayed, writerVars>>
  /\ Besides

\* SendMsg for a heartbeat, GO_ONLINE or a result.
SendOther(s) ==
  /\ client = "netty"
  /\ \/ ~started /\ W!Refuse(s)
     \/ started /\ W!Write(s)
  /\ UNCHANGED jobVars
  /\ Besides

-----------------------------------------------------------------------------

Process(m) ==
  \/ Heartbeat(m) \/ GoOnline(m) \/ GoOffline(m) \/ GoClose(m)
  \/ Rejected(m) \/ CollectData(m) \/ AddAsyncCollectJob(m)
  \/ DeleteCyclicTask(m) \/ RemoveAsyncCollectJob(m) \/ DeleteReturns(m)
  \/ SendAnswer(m)

Next ==
  /\ ~crashed
  /\ \/ Receive \/ RecvPut \/ HeartbeatLoop \/ OfflineShutdown
     \/ \E m \in Msgs : Process(m) \/ Launch(m) \/ RunEnds(m)
     \/ \E s \in Others : SendOther(s)

Spec == Init /\ [][Next]_vars

\* Every goroutine runs on; the manager sends the whole script, and a call of the
\* heartbeat returns or times out.
Fairness ==
  /\ WF_vars(~crashed /\ Receive) /\ WF_vars(~crashed /\ RecvPut)
  /\ WF_vars(~crashed /\ HeartbeatLoop) /\ WF_vars(~crashed /\ OfflineShutdown)
  /\ WF_vars(~crashed /\ \E m \in Msgs : Process(m))

FairSpec == Spec /\ Fairness

-----------------------------------------------------------------------------
(***************************************************************************)
(* Properties.                                                             *)
(***************************************************************************)

TypeOK ==
  /\ client \in Clients /\ scheduled \in BOOLEAN /\ script \in Scripts[client]
  /\ received \in 0 .. N
  /\ started \in BOOLEAN /\ offline \in BOOLEAN /\ crashed \in BOOLEAN
  /\ pc \in [Msgs -> {"none", "process", "add", "remove", "send", "done"}]
  /\ \A m \in Msgs : todo[m] \in Seq(Jobs) /\ failed[m] \subseteq Jobs
  /\ answer \in [Msgs -> {"none", "ack", "no job scheduler", "failed to parse",
                          "scheduled", "all removed", "partially completed"}]
  /\ key \in {"", "manager"}
  /\ password \in [Msgs -> {"none", "plain", "garbled"}]
  /\ cyclicTasks \in [Jobs -> 0 .. N] /\ tempTasks \in [Jobs -> 0 .. N]
  /\ chain \in [Msgs -> {"none", "waits", "runs", "over"}] /\ strayed \subseteq Jobs
  /\ seen \in [Msgs -> SUBSET Msgs]
  /\ heart \in {"insert", "call", "put", "wait", "delete", "ended"}
  /\ beat \in 0 .. MaxBeats /\ table \in 0 .. MaxBeats /\ recv \in 0 .. MaxBeats
  /\ future \in [1 .. MaxBeats -> 0 .. 1] /\ puts \in [1 .. MaxBeats -> Nat]
  /\ W!TypeOK

\* As long as no two of the senders (answers, heartbeats, results) were in
\* writeMessage at a time, the manager gets exactly the messages whose SendMsg
\* returned nil, whole and in order.  Nothing keeps them apart, and nothing is
\* promised once they have overlapped.
FramesIntact == W!FramesIntact

Alive(j) == \E m \in Orders(j) : chain[m] \in {"waits", "runs"}

\* The manager's last word stands: when no message is being processed, every job is
\* as some order on it left it, and no order on it was received after that one was
\* answered.  A deletion leaves nothing of the job waiting or running, except of one
\* that was added twice (the timeout of the first entry is lost) or removed while it
\* was being executed (the execution schedules it again); the timeout of an issue is
\* not taken back.  (A message that a gRPC heartbeat took for its own response is no
\* order.)
LastWordStands ==
  (scheduled /\ \A m \in 1 .. received : pc[m] = "done") =>
    \A j \in Jobs :
      LET done == {m \in Orders(j) : m <= received /\ answer[m] # "none"}
      IN done # {} =>
           \E m \in done : /\ IF kind(m) = "delete" THEN Alive(j) => j \in strayed
                              ELSE chain[m] # "none"
                           /\ \A k \in done : m \notin seen[k]

\* Passwords are decrypted with the manager's secret whenever the job arrives after
\* the GO_ONLINE that carries it was processed, unless a gRPC heartbeat in flight
\* has taken that message for its own response.
SecretIsUsed ==
  \A m \in Msgs : password[m] = "garbled" =>
    \A k \in seen[m] : kind(k) = "online" /\ script[k].ok => answer[k] = "none"

\* The receiving loop takes everything the manager sends, and every message is
\* processed to the end, unless the client is shut down or a heartbeat got two
\* responses, the second of which blocks the loop for ever.
AllProcessed ==
  <>(\/ \A m \in Msgs : pc[m] = "done"
     \/ ~started \/ crashed
     \/ \E b \in 1 .. MaxBeats : puts[b] > 1)
=============================================================================
