--------------------------- MODULE ProcessorsProofs --------------------------
(***************************************************************************)
(* Theorems about Processors, for any messages in any order, any number of *)
(* them, and both clients.                                                 *)
(*                                                                         *)
(* The answers, the heartbeats and the results go through the writer of    *)
(* FrameWriter: every step is a step of the writer or none, so what        *)
(* FrameWriterProofs proves of any set of senders holds of all of them.    *)
(*                                                                         *)
(* The invariant of the rest says where every goroutine is, whose entries  *)
(* the maps of tasks hold, and which order acted on a job last: it is in   *)
(* no list of messages seen, since it was not answered when the others     *)
(* that acted were received.  A job that has not strayed has at most one   *)
(* entry, and what waits or runs of it is the job of that entry.           *)
(***************************************************************************)
EXTENDS Processors, TLAPS

-----------------------------------------------------------------------------
(***************************************************************************)
(* The goroutines of the messages, the key and the maps of tasks.          *)
(***************************************************************************)
Texts == {"none", "ack", "no job scheduler", "failed to parse", "scheduled", "all removed",
          "partially completed"}

\* The types the proofs need.
Typed ==
  /\ client \in Clients /\ script \in Scripts[client]
  /\ received \in 0 .. N
  /\ pc \in [Msgs -> {"none", "process", "add", "remove", "send", "done"}]
  /\ todo \in [Msgs -> Seq(Jobs)]
  /\ answer \in [Msgs -> Texts]
  /\ password \in [Msgs -> {"none", "plain", "garbled"}]
  /\ cyclicTasks \in [Jobs -> 0 .. N] /\ tempTasks \in [Jobs -> 0 .. N]
  /\ chain \in [Msgs -> {"none", "waits", "runs", "over"}] /\ strayed \in SUBSET Jobs
  /\ seen \in [Msgs -> SUBSET Msgs]

jobs(m) == script[m].jobs

\* The sequence t is what is left of s after its first Len(s) - Len(t) elements.
Rest(s, t) ==
  /\ Len(s) - Len(t) \in Nat
  /\ \A i \in 1 .. Len(t) : t[i] = s[Len(s) - Len(t) + i]

\* Where every goroutine is and what it has answered; a message counts as seen by a
\* later one only when nothing of it is left to do.
Goroutines ==
  \A m \in Msgs :
    /\ pc[m] = "none" <=> m > received
    /\ pc[m] \in {"none", "process", "add", "remove"} => answer[m] = "none"
    /\ pc[m] \in {"none", "process"} => password[m] = "none"
    /\ pc[m] = "add" => kind(m) \in {"issue", "once"} /\ script[m].ok
    /\ pc[m] = "remove" => kind(m) = "delete" /\ script[m].ok
    /\ seen[m] \subseteq {k \in Msgs : pc[k] = "done"}

\* The ids a DELETE_CYCLIC_TASK has still to remove are the rest of its list.
Remaining == \A m \in Msgs : pc[m] = "remove" => Rest(jobs(m), todo[m])

\* A GO_ONLINE that was answered has left its secret.
KeyStored ==
  \A k \in Msgs : kind(k) = "online" /\ script[k].ok /\ answer[k] # "none" => key = "manager"

\* An entry of a map of tasks belongs to an order that was answered.
Entries ==
  \A j \in Jobs :
    /\ cyclicTasks[j] # 0 => /\ cyclicTasks[j] \in Orders(j) /\ kind(cyclicTasks[j]) = "issue"
                             /\ answer[cyclicTasks[j]] # "none"
    /\ tempTasks[j] # 0 => /\ tempTasks[j] \in Orders(j) /\ kind(tempTasks[j]) = "once"
                           /\ answer[tempTasks[j]] # "none"

\* The message m has changed the task of j, or found it gone.
ActedOn(m, j) ==
  \/ answer[m] # "none"
  \/ pc[m] = "remove" /\ \E i \in 1 .. Len(jobs(m)) - Len(todo[m]) : jobs(m)[i] = j
Acted(j) == {m \in Orders(j) : ActedOn(m, j)}

\* The job of a message waits or runs only once the message was answered.
Chains ==
  \A m \in Msgs : chain[m] # "none" =>
    answer[m] # "none" /\ kind(m) \in {"issue", "once"} /\ script[m].ok

\* What waits or runs of a job that has not strayed belongs to its one entry.
Held(j) ==
  j \notin strayed =>
    /\ cyclicTasks[j] = 0 \/ tempTasks[j] = 0
    /\ \A m \in Orders(j) :
         chain[m] \in {"waits", "runs"} => m = cyclicTasks[j] \/ m = tempTasks[j]

\* The job j is as its order m left it.
Left(m, j) == IF kind(m) = "delete" THEN Alive(j) => j \in strayed ELSE chain[m] # "none"

\* The job is as the last order that acted on it left it, and no order that acted on it
\* was received after that one was answered.
LastActed(j) ==
  \/ Acted(j) = {}
  \/ \E m \in Acted(j) : Left(m, j) /\ \A k \in Acted(j) : m \notin seen[k]

Settled == scheduled => \A j \in Jobs : LastActed(j)

IInv ==
  /\ Typed /\ Goroutines /\ Remaining /\ KeyStored /\ SecretIsUsed
  /\ Entries /\ Chains /\ (\A j \in Jobs : Held(j)) /\ Settled

-----------------------------------------------------------------------------
\* What a step may do to these variables.
unseen == <<client, scheduled, script, received, pc, todo, answer, key, password, jobVars, seen>>

\* Process returns before or after its work, and the goroutine sends the answer or ends.
Answers(m) ==
  /\ pc[m] = "process" \/ (pc[m] = "remove" /\ todo[m] = <<>>)
  /\ kind(m) \in {"issue", "once", "delete"} /\ pc[m] = "process" =>
       ~scheduled \/ ~script[m].ok
  /\ \E what \in Texts : /\ answer' = [answer EXCEPT ![m] = what]
                         /\ pc[m] = "remove" => what # "none"
  /\ \E to \in {"send", "done"} : pc' = [pc EXCEPT ![m] = to]
  /\ key' \in {key, "manager"}
  /\ kind(m) = "online" /\ script[m].ok => key' = "manager"
  /\ UNCHANGED <<client, scheduled, script, received, todo, password, jobVars, seen>>

Sends(m) ==
  /\ pc[m] = "send"
  /\ \E to \in {"send", "done"} : pc' = [pc EXCEPT ![m] = to]
  /\ UNCHANGED <<client, scheduled, script, received, todo, answer, key, password, jobVars, seen>>

\* The receiving loop takes the message m, for a goroutine or for the heartbeat.
Takes(m) ==
  /\ m = received + 1 /\ received < N /\ received' = received + 1
  /\ \/ pc' = [pc EXCEPT ![m] = "done"] /\ UNCHANGED seen
     \/ /\ pc' = [pc EXCEPT ![m] = "process"]
        /\ \E done \in SUBSET {k \in Msgs : pc[k] = "done"} : seen' = [seen EXCEPT ![m] = done]
  /\ UNCHANGED <<client, scheduled, script, todo, answer, key, password, jobVars>>

Work(m) ==
  \/ Answers(m) \/ Sends(m)
  \/ CollectData(m) \/ AddAsyncCollectJob(m)
  \/ DeleteCyclicTask(m) \/ RemoveAsyncCollectJob(m)
  \/ Launch(m) \/ RunEnds(m)

\* The steps of the proofs below.
LEMMA Steps ==
  ASSUME Typed, Goroutines, [Next]_vars
  PROVE  UNCHANGED unseen \/ \E m \in Msgs : Takes(m) \/ Work(m)
<1> USE DEF unseen, inputVars, handlerVars, jobVars
<1>1. CASE UNCHANGED vars
  BY <1>1, Zenon DEF vars
<1>2. CASE Receive
  <2>1. received + 1 \in Msgs
    BY <1>2, ProcessorsAssumption DEF Receive, Typed, Msgs
  <2>2. CASE ToFuture(received + 1)
    BY <1>2, <2>1, <2>2, Zenon DEF Receive, Dispatch, Takes
  <2>3. CASE ~ToFuture(received + 1)
    <3>1. {k \in Msgs : Answered(k)} \in SUBSET {k \in Msgs : pc[k] = "done"}
      BY Zenon DEF Answered
    <3> QED
      BY <1>2, <2>1, <2>3, <3>1, Zenon DEF Receive, Dispatch, Takes
  <2> QED
    BY <2>2, <2>3, Zenon
<1>3. CASE RecvPut \/ HeartbeatLoop \/ OfflineShutdown
  BY <1>3, Zenon DEF RecvPut, HeartbeatLoop, OfflineShutdown, Beat, BeatInsert, BeatEnd, BeatCall,
              BeatPut, BeatAnswered, BeatTimeout, BeatDelete
<1>4. ASSUME NEW m \in Msgs, Process(m) PROVE Work(m)
  <2> USE DEF Handler, Work
  <2>1. ASSUME NEW what \in Texts, Return(m, what)
        PROVE  /\ answer' = [answer EXCEPT ![m] = what]
               /\ \E to \in {"send", "done"} : pc' = [pc EXCEPT ![m] = to]
    <3>1. CASE client = "netty" /\ script[m].request /\ what # "none"
      BY <2>1, <3>1, Zenon DEF Return
    <3>2. CASE ~(client = "netty" /\ script[m].request /\ what # "none")
      BY <2>1, <3>2, Zenon DEF Return
    <3> QED
      BY <3>1, <3>2, Zenon
  <2>2. {"none", "ack", "no job scheduler", "failed to parse", "scheduled", "all removed",
         "partially completed"} = Texts
    BY Zenon DEF Texts
  <2>3. CASE Heartbeat(m) \/ GoOnline(m) \/ GoOffline(m) \/ GoClose(m)
    BY <2>1, <2>2, <2>3, Zenon DEF Heartbeat, GoOnline, GoOffline, GoClose, Answers
  <2>4. CASE Rejected(m)
    BY <2>1, <2>2, <2>4, Zenon DEF Rejected, Answers
  <2>5. CASE DeleteReturns(m)
    <3>1. PICK what \in Texts : Return(m, what) /\ what # "none"
      BY <2>2, <2>5, Zenon DEF DeleteReturns
    <3>2. kind(m) = "delete"
      BY <2>5, Zenon DEF DeleteReturns, Goroutines
    <3> QED
      BY <2>1, <2>5, <3>1, <3>2, Zenon DEF DeleteReturns, Answers
  <2>6. CASE SendAnswer(m)
    <3>1. CASE at'[m] \in {"sent", "failed"}
      BY <2>6, <3>1, Zenon DEF SendAnswer, Sends
    <3>2. CASE at'[m] \notin {"sent", "failed"}
      BY <2>6, <3>2, Zenon DEF SendAnswer, Sends
    <3> QED
      BY <3>1, <3>2, Zenon
  <2> QED
    BY <1>4, <2>3, <2>4, <2>5, <2>6, Zenon DEF Process
<1>5. ASSUME NEW s \in Others, SendOther(s) PROVE UNCHANGED unseen
  BY <1>5, Zenon DEF SendOther, Besides
<1>6. ASSUME NEW m \in Msgs, Launch(m) \/ RunEnds(m) PROVE Work(m)
  BY <1>6, Zenon DEF Work
<1> QED
  BY <1>1, <1>2, <1>3, <1>4, <1>5, <1>6, Zenon DEF Next

\* The number of the messages.
LEMMA NType == N \in Nat
  BY ProcessorsAssumption, Zenon

\* The length of a sequence.
LEMMA Lengths ==
  ASSUME NEW S, NEW s \in Seq(S)
  PROVE  Len(s) \in Nat /\ (s # <<>> => Len(s) \in Nat \ {0})
  OBVIOUS

\* Two of the answers.
LEMMA TextsOf == "none" \in Texts /\ "scheduled" \in Texts
  BY Zenon DEF Texts

\* RemoveAsyncCollectJob clears at most one entry of a map of tasks.
LEMMA Cleared ==
  ASSUME Typed, NEW m \in Msgs, RemoveAsyncCollectJob(m)
  PROVE  /\ cyclicTasks' \in [Jobs -> 0 .. N] /\ tempTasks' \in [Jobs -> 0 .. N]
         /\ \A l \in Jobs : /\ cyclicTasks'[l] \in {0, cyclicTasks[l]}
                            /\ tempTasks'[l] \in {0, tempTasks[l]}
         /\ chain' \in [Msgs -> {"none", "waits", "runs", "over"}]
         /\ \A k \in Msgs : chain'[k] \in {"none", chain[k]}
         /\ strayed' \in {strayed, strayed \cup {Head(todo[m])}}
<1> DEFINE j == Head(todo[m])
<1>1. /\ cyclicTasks' = cyclicTasks \/ cyclicTasks' = [cyclicTasks EXCEPT ![j] = 0]
      /\ tempTasks' = tempTasks \/ tempTasks' = [tempTasks EXCEPT ![j] = 0]
  BY Zenon DEF RemoveAsyncCollectJob, jobVars
<1>2. cyclicTasks \in [Jobs -> 0 .. N] /\ tempTasks \in [Jobs -> 0 .. N] /\ 0 \in 0 .. N
  BY NType DEF Typed
<1> HIDE DEF j
<1>3. cyclicTasks' \in [Jobs -> 0 .. N] /\ \A l \in Jobs : cyclicTasks'[l] \in {0, cyclicTasks[l]}
  BY <1>1, <1>2, Zenon
<1>4. tempTasks' \in [Jobs -> 0 .. N] /\ \A l \in Jobs : tempTasks'[l] \in {0, tempTasks[l]}
  BY <1>1, <1>2, Zenon
<1>5. chain' = chain \/ \E e : chain' = [chain EXCEPT ![e] = "none"]
  BY Zenon DEF RemoveAsyncCollectJob, Cancel
<1>6. /\ chain' \in [Msgs -> {"none", "waits", "runs", "over"}]
      /\ \A k \in Msgs : chain'[k] \in {"none", chain[k]}
  BY <1>5, Zenon DEF Typed
<1>7. strayed' \in {strayed, strayed \cup {Head(todo[m])}}
  BY Zenon DEF RemoveAsyncCollectJob
<1> QED
  BY <1>3, <1>4, <1>6, <1>7, Zenon

\* What is known of a message.
LEMMA Messages ==
  ASSUME Typed, NEW m \in Msgs
  PROVE  /\ jobs(m) \in Seq(Jobs)
         /\ kind(m) \in {"issue", "once"} =>
              Len(jobs(m)) = 1 /\ jobs(m)[1] \in Jobs /\ job(m) \in Jobs
<1>1. script[m] \in Message /\ (script[m].kind \in {"issue", "once"} => Len(script[m].jobs) = 1)
  BY ProcessorsAssumption, Zenon DEF Typed, Msgs
<1> QED
  BY <1>1 DEF Message, jobs, job, kind

\* The job of an issue.
LEMMA OneJob ==
  ASSUME Typed, NEW m \in Msgs, kind(m) \in {"issue", "once"}, script[m].ok, NEW j \in Jobs
  PROVE  m \in Orders(j) <=> job(m) = j
<1>1. jobs(m) \in Seq(Jobs) /\ Len(jobs(m)) = 1
  BY Messages, Zenon
<1>2. j \in Range(jobs(m)) <=> jobs(m)[1] = j
  BY <1>1 DEF Range
<1> QED
  BY <1>2, Zenon DEF Orders, jobs, job

\* The types are kept.
LEMMA TypedStep ==
  ASSUME Typed, Goroutines, [Next]_vars
  PROVE  Typed'
<1> USE NType DEF Typed, Msgs
<1>1. CASE UNCHANGED unseen
  BY <1>1, Zenon DEF unseen, jobVars
<1>2. ASSUME NEW m \in Msgs, Takes(m) PROVE Typed'
  <2>1. received' \in 0 .. N
    <3>1. received \in Nat /\ received < N /\ received' = received + 1
      BY <1>2 DEF Takes
    <3> QED
      BY <3>1
  <2>2. seen' \in [Msgs -> SUBSET Msgs]
    <3>1. CASE UNCHANGED seen
      BY <3>1, Zenon
    <3>2. CASE ~UNCHANGED seen
      <4>1. PICK done \in SUBSET {k \in Msgs : pc[k] = "done"} : seen' = [seen EXCEPT ![m] = done]
        BY <1>2, <3>2, Zenon DEF Takes
      <4> QED
        BY <4>1, Zenon
    <3> QED
      BY <3>1, <3>2, Zenon
  <2> QED
    BY <1>2, <2>1, <2>2, Zenon DEF Takes, jobVars
<1>3. ASSUME NEW m \in Msgs, Answers(m) PROVE Typed'
  <2>1. PICK what \in Texts, to \in {"send", "done"} :
          answer' = [answer EXCEPT ![m] = what] /\ pc' = [pc EXCEPT ![m] = to]
    BY <1>3, Zenon DEF Answers
  <2> QED
    BY <1>3, <2>1, Zenon DEF Answers, jobVars
<1>4. ASSUME NEW m \in Msgs, Sends(m) PROVE Typed'
  BY <1>4, Zenon DEF Sends, jobVars
<1>5. ASSUME NEW m \in Msgs, CollectData(m) PROVE Typed'
  BY <1>5, Zenon DEF CollectData, Handler, Return, inputVars, jobVars, decryptPassword
<1>6. ASSUME NEW m \in Msgs, AddAsyncCollectJob(m) PROVE Typed'
  <2> DEFINE j == job(m)
  <2>1. j \in Jobs /\ m \in 0 .. N
    <3>1. j \in Jobs
      BY <1>6, Messages, Zenon DEF AddAsyncCollectJob, Goroutines
    <3> QED
      BY <3>1
  <2>2. cyclicTasks' = cyclicTasks \/ cyclicTasks' = [cyclicTasks EXCEPT ![j] = m]
    BY <1>6, Zenon DEF AddAsyncCollectJob
  <2>3. tempTasks' = tempTasks \/ tempTasks' = [tempTasks EXCEPT ![j] = m]
    BY <1>6, Zenon DEF AddAsyncCollectJob
  <2>4. \E to \in {"send", "done"} : pc' = [pc EXCEPT ![m] = to]
    BY <1>6, Zenon DEF AddAsyncCollectJob, Return
  <2>5. cyclicTasks' \in [Jobs -> 0 .. N] /\ tempTasks' \in [Jobs -> 0 .. N]
    BY <2>1, <2>2, <2>3, ZenonT(40)
  <2>6. strayed' \in SUBSET Jobs
    <3>1. strayed' = strayed \/ strayed' = strayed \cup {j}
      BY <1>6, Zenon DEF AddAsyncCollectJob
    <3> HIDE DEF j
    <3> QED
      BY <2>1, <3>1, Zenon
  <2>7. chain' \in [Msgs -> {"none", "waits", "runs", "over"}]
    BY <1>6, Zenon DEF AddAsyncCollectJob
  <2> QED
    BY <1>6, <2>4, <2>5, <2>6, <2>7, TextsOf, Zenon
       DEF AddAsyncCollectJob, Handler, Return, inputVars
<1>7. ASSUME NEW m \in Msgs, DeleteCyclicTask(m) PROVE Typed'
  <2>1. script[m].jobs \in Seq(Jobs)
    BY Messages, Zenon DEF jobs
  <2> QED
    BY <1>7, <2>1, Zenon DEF DeleteCyclicTask, Handler, inputVars, jobVars
<1>8. ASSUME NEW m \in Msgs, RemoveAsyncCollectJob(m) PROVE Typed'
  <2>1. Tail(todo[m]) \in Seq(Jobs) /\ Head(todo[m]) \in Jobs
    BY <1>8 DEF RemoveAsyncCollectJob
  <2>2. strayed' \in SUBSET Jobs
    <3>1. strayed' = strayed \/ strayed' = strayed \cup {Head(todo[m])}
      BY <1>8, Cleared, Zenon
    <3>2. strayed \in SUBSET Jobs
      BY Zenon
    <3> HIDE DEF Typed
    <3> QED
      BY <2>1, <3>1, <3>2, Zenon
  <2> QED
    BY <1>8, <2>1, <2>2, Cleared, Zenon DEF RemoveAsyncCollectJob, Handler, inputVars
<1>9. ASSUME NEW m \in Msgs, Launch(m) PROVE Typed'
  BY <1>9, Zenon DEF Launch, Besides, inputVars, handlerVars
<1>10. ASSUME NEW m \in Msgs, RunEnds(m) PROVE Typed'
  <2>1. m \in 0 .. N
    OBVIOUS
  <2>2. kind(m) = "issue" => job(m) \in Jobs
    BY Messages, Zenon
  <2>3. cyclicTasks' \in [Jobs -> 0 .. N]
    BY <1>10, <2>1, <2>2, Zenon DEF RunEnds
  <2>4. chain' \in [Msgs -> {"none", "waits", "runs", "over"}]
    BY <1>10, ZenonT(40) DEF RunEnds
  <2> QED
    BY <1>10, <2>3, <2>4, Zenon DEF RunEnds, Besides, inputVars, handlerVars
<1> QED
  BY <1>1, <1>2, <1>3, <1>4, <1>5, <1>6, <1>7, <1>8, <1>9, <1>10, Steps, Zenon DEF Work

\* The goroutine of a message is started when the message is taken.
LEMMA TakesGoroutines ==
  ASSUME Typed, Goroutines, NEW m \in Msgs, Takes(m)
  PROVE  Goroutines'
<1>1. m > received /\ \A k \in Msgs : k > received' <=> k > received /\ k # m
  BY NType DEF Typed, Takes, Msgs
<1>2. pc[m] = "none" /\ answer[m] = "none" /\ password[m] = "none"
  BY <1>1, Zenon DEF Goroutines
<1>3. pc'[m] \in {"process", "done"} /\ \A k \in Msgs \ {m} : pc'[k] = pc[k]
  BY DEF Takes, Typed
<1>4. \A k \in Msgs : seen'[k] = seen[k] \/ seen'[k] \subseteq {l \in Msgs : pc[l] = "done"}
  <2>1. CASE UNCHANGED seen
    BY <2>1, Zenon
  <2>2. CASE \E done \in SUBSET {k \in Msgs : pc[k] = "done"} : seen' = [seen EXCEPT ![m] = done]
    <3>1. PICK done \in SUBSET {k \in Msgs : pc[k] = "done"} : seen' = [seen EXCEPT ![m] = done]
      BY <2>2, Zenon
    <3>2. seen'[m] = done /\ \A k \in Msgs \ {m} : seen'[k] = seen[k]
      BY <3>1, Zenon DEF Typed
    <3> QED
      BY <3>1, <3>2, Zenon
  <2> QED
    BY <2>1, <2>2, Zenon DEF Takes
<1>5. {k \in Msgs : pc[k] = "done"} \subseteq {k \in Msgs : pc'[k] = "done"}
  BY <1>2, <1>3
<1>6. UNCHANGED <<script, answer, password>>
  BY Zenon DEF Takes
<1>7. \A k \in Msgs : seen'[k] \subseteq {l \in Msgs : pc'[l] = "done"}
  BY <1>4, <1>5, Zenon DEF Goroutines
<1> QED
  BY <1>1, <1>2, <1>3, <1>6, <1>7 DEF Goroutines, kind

\* A goroutine moves on only from where it is, and ends for good.
LEMMA GoroutinesStep ==
  ASSUME Typed, Typed', Goroutines, [Next]_vars
  PROVE  Goroutines'
<1> USE NType DEF Typed, Goroutines, Msgs, kind
<1>1. CASE UNCHANGED unseen
  BY <1>1 DEF unseen, jobVars
<1>2. ASSUME NEW m \in Msgs, Takes(m) PROVE Goroutines'
  BY <1>2, TakesGoroutines, Zenon
<1>3. ASSUME NEW m \in Msgs, Answers(m) PROVE Goroutines'
  <2>1. PICK what \in Texts, to \in {"send", "done"} :
          answer' = [answer EXCEPT ![m] = what] /\ pc' = [pc EXCEPT ![m] = to]
    BY <1>3, Zenon DEF Answers
  <2>2. /\ pc[m] \in {"process", "remove"} /\ pc'[m] \in {"send", "done"}
        /\ \A k \in Msgs \ {m} : pc'[k] = pc[k] /\ answer'[k] = answer[k]
    BY <1>3, <2>1 DEF Answers
  <2>3. UNCHANGED <<script, received, password, seen>>
    BY <1>3, Zenon DEF Answers
  <2> QED
    BY <2>2, <2>3, SMTT(30)
<1>4. ASSUME NEW m \in Msgs, Sends(m) PROVE Goroutines'
  <2>1. /\ pc[m] = "send" /\ pc'[m] \in {"send", "done"}
        /\ \A k \in Msgs \ {m} : pc'[k] = pc[k]
    <3>1. PICK to \in {"send", "done"} : pc[m] = "send" /\ pc' = [pc EXCEPT ![m] = to]
      BY <1>4, Zenon DEF Sends
    <3>2. pc \in [Msgs -> {"none", "process", "add", "remove", "send", "done"}]
      BY Zenon
    <3> HIDE DEF Typed, Goroutines, Msgs
    <3> QED
      BY <3>1, <3>2, Zenon
  <2>2. UNCHANGED <<script, received, answer, password, seen>>
    BY <1>4, Zenon DEF Sends
  <2> HIDE DEF Typed, Msgs
  <2> QED
    BY <2>1, <2>2
<1>5. ASSUME NEW m \in Msgs, CollectData(m) PROVE Goroutines'
  BY <1>5 DEF CollectData, Handler, Return, inputVars, jobVars, decryptPassword
<1>6. ASSUME NEW m \in Msgs, AddAsyncCollectJob(m) PROVE Goroutines'
  BY <1>6 DEF AddAsyncCollectJob, Handler, Return, inputVars, jobVars
<1>7. ASSUME NEW m \in Msgs, DeleteCyclicTask(m) PROVE Goroutines'
  BY <1>7 DEF DeleteCyclicTask, Handler, Return, inputVars, jobVars
<1>8. ASSUME NEW m \in Msgs, RemoveAsyncCollectJob(m) PROVE Goroutines'
  <2>1. UNCHANGED <<script, received, pc, answer, password, seen>>
    BY <1>8, Zenon DEF RemoveAsyncCollectJob, Handler, inputVars
  <2> QED
    BY <2>1, Zenon
<1>9. ASSUME NEW m \in Msgs, Launch(m) \/ RunEnds(m) PROVE Goroutines'
  <2>1. UNCHANGED <<script, received, pc, answer, password, seen>>
    BY <1>9, Zenon DEF Launch, RunEnds, Besides, inputVars, handlerVars
  <2> QED
    BY <2>1, ZenonT(40)
<1> QED
  BY <1>1, <1>2, <1>3, <1>4, <1>5, <1>6, <1>7, <1>8, <1>9, Steps, Zenon DEF Work

\* Before the first one is removed, all the jobs of an order are left.
LEMMA RestOfAll == ASSUME NEW s \in Seq(Jobs) PROVE Rest(s, s)
  BY DEF Rest

\* RemoveAsyncCollectJob takes the head of what is left, which is the next job of the order.
LEMMA RestTail ==
  ASSUME NEW s \in Seq(Jobs), NEW t \in Seq(Jobs), t # <<>>, Rest(s, t)
  PROVE  /\ Rest(s, Tail(t))
         /\ Len(Tail(t)) = Len(t) - 1
         /\ Head(t) = s[Len(s) - Len(t) + 1]
<1>1. /\ Len(s) \in Nat /\ Len(t) \in Nat \ {0} /\ Len(Tail(t)) = Len(t) - 1
      /\ \A i \in 1 .. Len(Tail(t)) : Tail(t)[i] = t[i + 1]
      /\ Head(t) = t[1]
  OBVIOUS
<1>2. Len(s) - Len(Tail(t)) = Len(s) - Len(t) + 1
  BY <1>1
<1>3. ASSUME NEW i \in 1 .. Len(Tail(t)) PROVE Tail(t)[i] = s[Len(s) - Len(Tail(t)) + i]
  <2>1. i + 1 \in 1 .. Len(t) /\ Len(s) - Len(t) + (i + 1) = Len(s) - Len(Tail(t)) + i
    BY <1>1, <1>2
  <2> QED
    BY <1>1, <2>1, Zenon DEF Rest
<1> QED
  BY <1>1, <1>2, <1>3 DEF Rest

\* The list of a DELETE_CYCLIC_TASK is worked off from its head.
LEMMA RemainingStep ==
  ASSUME Typed, Goroutines, Remaining, [Next]_vars
  PROVE  Remaining'
<1> USE DEF Remaining, jobs
<1>1. CASE UNCHANGED unseen
  BY <1>1, Zenon DEF unseen
<1>2. ASSUME NEW m \in Msgs,
             \/ Takes(m) \/ Answers(m) \/ Sends(m) \/ CollectData(m) \/ AddAsyncCollectJob(m)
             \/ Launch(m) \/ RunEnds(m)
      PROVE  Remaining'
  <2>1. UNCHANGED <<script, todo>>
    BY <1>2, Zenon DEF Takes, Answers, Sends, CollectData, AddAsyncCollectJob, Handler, inputVars,
                       Launch, RunEnds, Besides, handlerVars
  <2>2. \A k \in Msgs : pc'[k] = "remove" => pc[k] = "remove"
    BY <1>2, ZenonT(40) DEF Takes, Answers, Sends, CollectData, AddAsyncCollectJob, Return, Typed,
                            Launch, RunEnds, Besides, handlerVars
  <2> QED
    BY <2>1, <2>2, Zenon
<1>3. ASSUME NEW m \in Msgs, DeleteCyclicTask(m) PROVE Remaining'
  <2>1. script' = script /\ todo' = [todo EXCEPT ![m] = script[m].jobs]
    BY <1>3, Zenon DEF DeleteCyclicTask, Handler, inputVars
  <2>2. Rest(script[m].jobs, script[m].jobs)
    BY Messages, RestOfAll, Zenon
  <2>3. \A k \in Msgs \ {m} : todo'[k] = todo[k] /\ pc'[k] = pc[k]
    BY <1>3, Zenon DEF DeleteCyclicTask, Typed
  <2> QED
    BY <2>1, <2>2, <2>3, Zenon DEF Typed
<1>4. ASSUME NEW m \in Msgs, RemoveAsyncCollectJob(m) PROVE Remaining'
  <2>1. /\ script' = script /\ pc' = pc /\ todo' = [todo EXCEPT ![m] = Tail(todo[m])]
        /\ pc[m] = "remove" /\ todo[m] # <<>>
    BY <1>4, Zenon DEF RemoveAsyncCollectJob, Handler, inputVars
  <2>2. Rest(script[m].jobs, Tail(todo[m]))
    BY <2>1, Messages, RestTail, Zenon DEF Typed
  <2> QED
    BY <2>1, <2>2, Zenon DEF Typed
<1> QED
  BY <1>1, <1>2, <1>3, <1>4, Steps, Zenon DEF Work

\* The key is stored before GO_ONLINE is answered, and never taken back.
LEMMA KeyStoredStep ==
  ASSUME Typed, Typed', Goroutines, KeyStored, [Next]_vars
  PROVE  KeyStored'
<1> USE NType DEF Typed, Goroutines, KeyStored, Msgs, kind
<1>1. CASE UNCHANGED unseen
  BY <1>1, Zenon DEF unseen, jobVars
<1>2. ASSUME NEW m \in Msgs, Takes(m) PROVE KeyStored'
  BY <1>2, Zenon DEF Takes, jobVars
<1>3. ASSUME NEW m \in Msgs, Answers(m) PROVE KeyStored'
  <2>1. PICK what \in Texts : answer' = [answer EXCEPT ![m] = what]
    BY <1>3, Zenon DEF Answers
  <2>2. /\ script' = script /\ key' \in {key, "manager"}
        /\ kind(m) = "online" /\ script[m].ok => key' = "manager"
    BY <1>3, Zenon DEF Answers
  <2>3. \A k \in Msgs \ {m} : answer'[k] = answer[k]
    <3>1. answer \in [Msgs -> Texts]
      BY Zenon
    <3> HIDE DEF Typed, Goroutines, Msgs
    <3> QED
      BY <2>1, <3>1, Zenon
  <2> HIDE DEF Typed, Goroutines, Msgs
  <2> QED
    BY <2>2, <2>3, Zenon
<1>4. ASSUME NEW m \in Msgs, Sends(m) PROVE KeyStored'
  BY <1>4, Zenon DEF Sends, jobVars
<1>5. ASSUME NEW m \in Msgs, CollectData(m) PROVE KeyStored'
  BY <1>5, Zenon DEF CollectData, Handler, Return, inputVars, jobVars, decryptPassword
<1>6. ASSUME NEW m \in Msgs, AddAsyncCollectJob(m) PROVE KeyStored'
  BY <1>6 DEF AddAsyncCollectJob, Handler, Return, inputVars, jobVars
<1>7. ASSUME NEW m \in Msgs, DeleteCyclicTask(m) PROVE KeyStored'
  BY <1>7, Zenon DEF DeleteCyclicTask, Handler, Return, inputVars, jobVars
<1>8. ASSUME NEW m \in Msgs, RemoveAsyncCollectJob(m) PROVE KeyStored'
  BY <1>8, Zenon DEF RemoveAsyncCollectJob, Handler, Return, inputVars, jobVars
<1>9. ASSUME NEW m \in Msgs, Launch(m) \/ RunEnds(m) PROVE KeyStored'
  <2>1. UNCHANGED <<script, answer, key>>
    BY <1>9, Zenon DEF Launch, RunEnds, Besides, inputVars, handlerVars
  <2> HIDE DEF Typed, Goroutines, Msgs
  <2> QED
    BY <2>1, Zenon
<1> QED
  BY <1>1, <1>2, <1>3, <1>4, <1>5, <1>6, <1>7, <1>8, <1>9, Steps, Zenon DEF Work

\* A step that touches none of its variables keeps SecretIsUsed.
LEMMA SecretKept ==
  ASSUME SecretIsUsed, UNCHANGED <<script, answer, password, seen>>
  PROVE  SecretIsUsed'
  BY Zenon DEF SecretIsUsed, kind

\* What was seen by a job keeps its answer, and the key was there when the job was parsed.
LEMMA SecretStep ==
  ASSUME Typed, Typed', Goroutines, KeyStored, SecretIsUsed, [Next]_vars
  PROVE  SecretIsUsed'
<1> USE NType DEF Typed, Goroutines, KeyStored, SecretIsUsed, Msgs, kind
<1>1. CASE UNCHANGED unseen
  BY <1>1 DEF unseen, jobVars
<1>2. ASSUME NEW m \in Msgs, Takes(m) PROVE SecretIsUsed'
  <2>1. /\ UNCHANGED <<script, answer, password>> /\ password[m] = "none"
        /\ \A k \in Msgs \ {m} : seen'[k] = seen[k]
    BY <1>2 DEF Takes
  <2> QED
    BY <2>1, Zenon
<1>3. ASSUME NEW m \in Msgs, Answers(m) PROVE SecretIsUsed'
  <2>1. UNCHANGED <<script, password, seen>> /\ \A k \in Msgs \ {m} : answer'[k] = answer[k]
    BY <1>3 DEF Answers
  <2>2. \A k \in Msgs : m \notin seen[k]
    BY <1>3, Zenon DEF Answers
  <2> QED
    BY <2>1, <2>2
<1>4. ASSUME NEW m \in Msgs, Sends(m) PROVE SecretIsUsed'
  <2>1. UNCHANGED <<script, answer, password, seen>>
    BY <1>4, Zenon DEF Sends
  <2> QED
    BY <2>1, SecretKept, Zenon
<1>5. ASSUME NEW m \in Msgs, CollectData(m) PROVE SecretIsUsed'
  BY <1>5 DEF CollectData, Handler, Return, inputVars, jobVars, decryptPassword
<1>6. ASSUME NEW m \in Msgs, AddAsyncCollectJob(m) PROVE SecretIsUsed'
  BY <1>6 DEF AddAsyncCollectJob, Handler, Return, inputVars, jobVars
<1>7. ASSUME NEW m \in Msgs, DeleteCyclicTask(m) PROVE SecretIsUsed'
  BY <1>7 DEF DeleteCyclicTask, Handler, Return, inputVars, jobVars
<1>8. ASSUME NEW m \in Msgs, RemoveAsyncCollectJob(m) PROVE SecretIsUsed'
  <2>1. UNCHANGED <<script, answer, password, seen>>
    BY <1>8, Zenon DEF RemoveAsyncCollectJob, Handler, inputVars
  <2> QED
    BY <2>1, SecretKept, Zenon
<1>9. ASSUME NEW m \in Msgs, Launch(m) \/ RunEnds(m) PROVE SecretIsUsed'
  <2>1. UNCHANGED <<script, answer, password, seen>>
    BY <1>9, Zenon DEF Launch, RunEnds, Besides, inputVars, handlerVars
  <2> QED
    BY <2>1, SecretKept, Zenon
<1> QED
  BY <1>1, <1>2, <1>3, <1>4, <1>5, <1>6, <1>7, <1>8, <1>9, Steps, Zenon DEF Work

\* An order is answered once, so an answer leaves the entries of the maps alone.
LEMMA AnswersEntries ==
  ASSUME Typed, Goroutines, Entries, NEW m \in Msgs, Answers(m)
  PROVE  Entries'
<1>1. answer[m] = "none"
  BY DEF Answers, Goroutines
<1>2. \A k \in Msgs \ {m} : answer'[k] = answer[k]
  BY DEF Answers, Typed
<1>3. UNCHANGED <<script, cyclicTasks, tempTasks>>
  BY Zenon DEF Answers, jobVars
<1>4. \A j \in Jobs : Orders(j)' = Orders(j) /\ Orders(j) \subseteq Msgs
  BY <1>3, Zenon DEF Orders, kind, jobs
<1> QED
  BY <1>1, <1>2, <1>3, <1>4 DEF Entries, kind

\* Only an order that returns enters a map of tasks.
LEMMA EntriesStep ==
  ASSUME Typed, Typed', Goroutines, Entries, Chains, [Next]_vars
  PROVE  Entries'
<1> USE NType DEF Typed, Goroutines, Entries, Orders, Msgs, kind
<1>1. CASE UNCHANGED unseen
  BY <1>1, Zenon DEF unseen, jobVars
<1>2. ASSUME NEW m \in Msgs, Takes(m) PROVE Entries'
  BY <1>2, Zenon DEF Takes, jobVars
<1>3. ASSUME NEW m \in Msgs, Answers(m) PROVE Entries'
  BY <1>3, AnswersEntries, Zenon
<1>4. ASSUME NEW m \in Msgs, Sends(m) PROVE Entries'
  BY <1>4, Zenon DEF Sends, jobVars
<1>5. ASSUME NEW m \in Msgs, CollectData(m) PROVE Entries'
  BY <1>5, Zenon DEF CollectData, Handler, Return, inputVars, jobVars, decryptPassword
<1>6. ASSUME NEW m \in Msgs, AddAsyncCollectJob(m) PROVE Entries'
  <2> DEFINE l == job(m)
  <2>1. kind(m) \in {"issue", "once"} /\ l \in Jobs /\ m \in Orders(l)
    <3>1. kind(m) \in {"issue", "once"} /\ script[m].ok
      BY <1>6, Zenon DEF AddAsyncCollectJob
    <3>2. l \in Jobs
      BY <3>1, Messages, Zenon
    <3> HIDE DEF Orders, kind
    <3> QED
      BY <3>1, <3>2, OneJob, Zenon
  <2>2. /\ script' = script /\ answer'[m] = "scheduled"
        /\ \A k \in Msgs \ {m} : answer'[k] = answer[k]
    BY <1>6 DEF AddAsyncCollectJob, Handler, Return, inputVars
  <2>3. kind(m) = "issue" \/ cyclicTasks' = cyclicTasks
    BY <1>6, Zenon DEF AddAsyncCollectJob
  <2>4. cyclicTasks' = cyclicTasks \/ cyclicTasks' = [cyclicTasks EXCEPT ![l] = m]
    BY <1>6, Zenon DEF AddAsyncCollectJob
  <2>5. kind(m) = "once" \/ tempTasks' = tempTasks
    BY <1>6, <2>1, Zenon DEF AddAsyncCollectJob
  <2>6. tempTasks' = tempTasks \/ tempTasks' = [tempTasks EXCEPT ![l] = m]
    BY <1>6, Zenon DEF AddAsyncCollectJob
  <2>7. \A k \in Msgs : answer[k] # "none" => answer'[k] # "none"
    BY <2>2, Zenon
  <2> SUFFICES ASSUME NEW j \in Jobs
               PROVE  /\ cyclicTasks'[j] # 0 => /\ cyclicTasks'[j] \in Orders(j)
                                                /\ kind(cyclicTasks'[j]) = "issue"
                                                /\ answer'[cyclicTasks'[j]] # "none"
                      /\ tempTasks'[j] # 0 => /\ tempTasks'[j] \in Orders(j)
                                              /\ kind(tempTasks'[j]) = "once"
                                              /\ answer'[tempTasks'[j]] # "none"
    BY <2>2, Zenon
  <2>8. \A k \in Orders(j) : k \in Msgs
    BY Zenon
  <2> HIDE DEF l, Orders, Goroutines, kind
  <2>9. cyclicTasks'[j] = cyclicTasks[j] \/ (j = l /\ cyclicTasks'[j] = m /\ kind(m) = "issue")
    BY <2>1, <2>3, <2>4, Zenon
  <2>10. tempTasks'[j] = tempTasks[j] \/ (j = l /\ tempTasks'[j] = m /\ kind(m) = "once")
    BY <2>1, <2>5, <2>6, Zenon
  <2> HIDE DEF Typed
  <2> QED
    BY <2>1, <2>2, <2>7, <2>8, <2>9, <2>10, Zenon
<1>7. ASSUME NEW m \in Msgs, DeleteCyclicTask(m) PROVE Entries'
  BY <1>7, Zenon DEF DeleteCyclicTask, Handler, Return, inputVars, jobVars
<1>8. ASSUME NEW m \in Msgs, RemoveAsyncCollectJob(m) PROVE Entries'
  <2>1. UNCHANGED <<script, answer>>
    BY <1>8, Zenon DEF RemoveAsyncCollectJob, Handler, inputVars
  <2>2. \A l \in Jobs : /\ cyclicTasks'[l] \in {0, cyclicTasks[l]}
                        /\ tempTasks'[l] \in {0, tempTasks[l]}
    BY <1>8, Cleared, Zenon
  <2> HIDE DEF Typed, Goroutines
  <2> QED
    BY <2>1, <2>2
<1>9. ASSUME NEW m \in Msgs, Launch(m) PROVE Entries'
  BY <1>9, Zenon DEF Launch, Besides, inputVars, handlerVars
<1>10. ASSUME NEW m \in Msgs, RunEnds(m) PROVE Entries'
  <2>1. UNCHANGED <<script, answer, tempTasks>>
    BY <1>10, Zenon DEF RunEnds, Besides, inputVars, handlerVars
  <2>2. answer[m] # "none" /\ kind(m) \in {"issue", "once"} /\ script[m].ok
    BY <1>10, Zenon DEF RunEnds, Chains
  <2>3. /\ job(m) \in Jobs /\ m \in Orders(job(m))
    <3>1. job(m) \in Jobs
      BY <2>2, Messages, Zenon
    <3> HIDE DEF Orders, kind
    <3> QED
      BY <2>2, <3>1, OneJob, Zenon
  <2>4. \/ cyclicTasks' = cyclicTasks
        \/ kind(m) = "issue" /\ cyclicTasks' = [cyclicTasks EXCEPT ![job(m)] = m]
    BY <1>10, Zenon DEF RunEnds
  <2>5. \A j \in Jobs : \/ cyclicTasks'[j] = cyclicTasks[j]
                        \/ j = job(m) /\ cyclicTasks'[j] = m /\ kind(m) = "issue"
    <3>1. cyclicTasks \in [Jobs -> 0 .. N]
      BY Zenon
    <3> HIDE DEF Typed, Goroutines, Orders, kind
    <3> QED
      BY <2>4, <3>1, Zenon
  <2> HIDE DEF Typed, Goroutines, Orders
  <2>6. \A j \in Jobs : Orders(j)' = Orders(j)
    BY <2>1, Zenon DEF Orders
  <2> QED
    BY <2>1, <2>2, <2>3, <2>5, <2>6, ZenonT(40)
<1> QED
  BY <1>1, <1>2, <1>3, <1>4, <1>5, <1>6, <1>7, <1>8, <1>9, <1>10, Steps, Zenon DEF Work

\* The job of a message is added when the message is answered, and never answered again.
LEMMA ChainsStep ==
  ASSUME Typed, Typed', Goroutines, Chains, [Next]_vars
  PROVE  Chains'
<1>1. CASE UNCHANGED unseen
  BY <1>1, Zenon DEF unseen, jobVars, Chains, kind
<1> SUFFICES ASSUME NEW m \in Msgs, Takes(m) \/ Work(m) PROVE Chains'
  BY <1>1, Steps, Zenon
<1>2. script' = script
  BY Zenon DEF Takes, Work, Answers, Sends, CollectData, AddAsyncCollectJob, DeleteCyclicTask,
         RemoveAsyncCollectJob, Launch, RunEnds, Besides, Handler, inputVars
<1>3. CASE Takes(m) \/ Sends(m) \/ CollectData(m) \/ DeleteCyclicTask(m)
  <2>1. UNCHANGED <<answer, chain>>
    BY <1>3, Zenon DEF Takes, Sends, CollectData, DeleteCyclicTask, Handler, jobVars
  <2> QED
    BY <1>2, <2>1, Zenon DEF Chains, kind
<1>4. CASE Answers(m)
  <2>1. answer[m] = "none" /\ chain' = chain /\ \A k \in Msgs \ {m} : answer'[k] = answer[k]
    BY <1>4 DEF Answers, Goroutines, Typed, jobVars
  <2> QED
    BY <1>2, <2>1, Zenon DEF Chains, kind
<1>5. CASE AddAsyncCollectJob(m)
  <2>1. /\ answer'[m] = "scheduled" /\ kind(m) \in {"issue", "once"} /\ script[m].ok
        /\ \A k \in Msgs \ {m} : answer'[k] = answer[k] /\ chain'[k] = chain[k]
    BY <1>5 DEF AddAsyncCollectJob, Handler, Return, Goroutines, Typed
  <2> QED
    BY <1>2, <2>1, Zenon DEF Chains, kind
<1>6. CASE RemoveAsyncCollectJob(m)
  <2>1. answer' = answer
    BY <1>6, Zenon DEF RemoveAsyncCollectJob, Handler
  <2>2. \A k \in Msgs : chain'[k] \in {"none", chain[k]}
    BY <1>6, Cleared, Zenon
  <2> QED
    BY <1>2, <2>1, <2>2, Zenon DEF Chains, kind
<1>7. CASE Launch(m) \/ RunEnds(m)
  <2>1. answer' = answer /\ chain[m] # "none" /\ \A k \in Msgs \ {m} : chain'[k] = chain[k]
    BY <1>7 DEF Launch, RunEnds, Besides, handlerVars, Typed
  <2> QED
    BY <1>2, <2>1, Zenon DEF Chains, kind
<1> QED
  BY <1>3, <1>4, <1>5, <1>6, <1>7, Zenon DEF Work

\* AddAsyncCollectJob changes the job of its message only.
LEMMA Adds ==
  ASSUME Typed, NEW m \in Msgs, AddAsyncCollectJob(m), job(m) \in Jobs
  PROVE  /\ chain'[m] = "waits" /\ \A k \in Msgs \ {m} : chain'[k] = chain[k]
         /\ strayed' = IF Scheduled(job(m)) THEN strayed \cup {job(m)} ELSE strayed
         /\ strayed \subseteq strayed'
         /\ \A j \in Jobs \ {job(m)} : /\ cyclicTasks'[j] = cyclicTasks[j]
                                       /\ tempTasks'[j] = tempTasks[j]
                                       /\ j \in strayed' <=> j \in strayed
         /\ \/ cyclicTasks'[job(m)] = m /\ tempTasks' = tempTasks
            \/ cyclicTasks' = cyclicTasks /\ tempTasks'[job(m)] = m
<1> DEFINE l == job(m)
<1>1. /\ cyclicTasks \in [Jobs -> 0 .. N] /\ tempTasks \in [Jobs -> 0 .. N]
      /\ chain \in [Msgs -> {"none", "waits", "runs", "over"}]
  BY Zenon DEF Typed
<1>2. /\ \/ cyclicTasks' = [cyclicTasks EXCEPT ![l] = m] /\ tempTasks' = tempTasks
         \/ cyclicTasks' = cyclicTasks /\ tempTasks' = [tempTasks EXCEPT ![l] = m]
      /\ chain' = [chain EXCEPT ![m] = "waits"]
      /\ strayed' = IF Scheduled(l) THEN strayed \cup {l} ELSE strayed
  BY Zenon DEF AddAsyncCollectJob
<1>3. l \in Jobs
  BY Zenon
<1> HIDE DEF l
<1>4. chain'[m] = "waits" /\ \A k \in Msgs \ {m} : chain'[k] = chain[k]
  BY <1>1, <1>2, Zenon
<1>5. \/ cyclicTasks'[l] = m /\ tempTasks' = tempTasks
      \/ cyclicTasks' = cyclicTasks /\ tempTasks'[l] = m
  BY <1>1, <1>2, <1>3, Zenon
<1>6. /\ strayed \subseteq strayed'
      /\ \A j \in Jobs \ {l} : j \in strayed' <=> j \in strayed
  BY <1>2, Zenon
<1>7. \A j \in Jobs \ {l} : cyclicTasks'[j] = cyclicTasks[j] /\ tempTasks'[j] = tempTasks[j]
  BY <1>1, <1>2, Zenon
<1> QED
  BY <1>2, <1>4, <1>5, <1>6, <1>7, Zenon DEF l

\* RemoveAsyncCollectJob of a job that has not strayed: nothing of it is left, ...
LEMMA RemovesHeld ==
  ASSUME Typed, Goroutines, Entries, NEW m \in Msgs, RemoveAsyncCollectJob(m),
         NEW j \in Jobs, Held(j), Head(todo[m]) = j, j \notin strayed'
  PROVE  /\ cyclicTasks'[j] = 0 /\ tempTasks'[j] = 0
         /\ \A k \in Orders(j) : chain'[k] \notin {"waits", "runs"}
<1>1. j \notin strayed /\ \A k \in Orders(j) : chain[k] # "runs"
  BY Zenon DEF RemoveAsyncCollectJob
<1>2. /\ cyclicTasks[j] = 0 \/ tempTasks[j] = 0
      /\ \A k \in Orders(j) : chain[k] = "waits" => k = cyclicTasks[j] \/ k = tempTasks[j]
  BY <1>1, Zenon DEF Held
<1>3. \A k \in Orders(j) : k \in Msgs
  BY Zenon DEF Orders
<1>4. 0 \notin Msgs
  BY DEF Msgs
<1>5. CASE cyclicTasks[j] # 0
  <2>1. cyclicTasks' = [cyclicTasks EXCEPT ![j] = 0] /\ tempTasks' = tempTasks
    BY <1>5, Zenon DEF RemoveAsyncCollectJob
  <2>2. Cancel(cyclicTasks[j])
    BY <1>5, Zenon DEF RemoveAsyncCollectJob
  <2>3. \A k \in Orders(j) : k = cyclicTasks[j] => chain'[k] \notin {"waits", "runs"}
    BY <1>1, <1>3, <2>2 DEF Cancel, Typed
  <2>4. \A k \in Orders(j) : k # cyclicTasks[j] => chain'[k] \notin {"waits", "runs"}
    <3>1. \A k \in Orders(j) : k # cyclicTasks[j] => chain'[k] = chain[k]
      BY <1>3, <2>2, Zenon DEF Cancel, Typed
    <3> QED
      BY <1>1, <1>2, <1>3, <1>4, <1>5, <3>1, Zenon
  <2> QED
    BY <1>2, <1>5, <2>1, <2>3, <2>4, Zenon DEF Typed
<1>6. CASE cyclicTasks[j] = 0 /\ tempTasks[j] # 0
  <2>1. tempTasks' = [tempTasks EXCEPT ![j] = 0] /\ cyclicTasks' = cyclicTasks
    BY <1>6, Zenon DEF RemoveAsyncCollectJob
  <2>2. Cancel(tempTasks[j])
    BY <1>6, Zenon DEF RemoveAsyncCollectJob
  <2>3. \A k \in Orders(j) : k = tempTasks[j] => chain'[k] \notin {"waits", "runs"}
    BY <1>1, <1>3, <2>2 DEF Cancel, Typed
  <2>4. \A k \in Orders(j) : k # tempTasks[j] => chain'[k] \notin {"waits", "runs"}
    <3>1. \A k \in Orders(j) : k # tempTasks[j] => chain'[k] = chain[k]
      BY <1>3, <2>2, Zenon DEF Cancel, Typed
    <3> QED
      BY <1>1, <1>2, <1>3, <1>4, <1>6, <3>1, Zenon
  <2> QED
    BY <1>6, <2>1, <2>3, <2>4, Zenon DEF Typed
<1>7. CASE cyclicTasks[j] = 0 /\ tempTasks[j] = 0
  <2>1. UNCHANGED <<cyclicTasks, tempTasks, chain>>
    BY <1>7, Zenon DEF RemoveAsyncCollectJob
  <2> QED
    BY <1>1, <1>2, <1>3, <1>4, <1>7, <2>1, Zenon
<1> QED
  BY <1>5, <1>6, <1>7, Zenon

\* ... and the other jobs are left alone.
LEMMA RemovesNoOther ==
  ASSUME Typed, Entries, NEW m \in Msgs, RemoveAsyncCollectJob(m),
         NEW j \in Jobs, Head(todo[m]) \in Jobs \ {j}
  PROVE  /\ cyclicTasks'[j] = cyclicTasks[j] /\ tempTasks'[j] = tempTasks[j]
         /\ \A k \in Orders(j) : chain'[k] = chain[k]
         /\ j \in strayed' <=> j \in strayed
<1> DEFINE l == Head(todo[m])
<1>1. cyclicTasks'[j] = cyclicTasks[j] /\ tempTasks'[j] = tempTasks[j]
  BY Zenon DEF RemoveAsyncCollectJob, Typed
<1>2. j \in strayed' <=> j \in strayed
  BY Cleared, Zenon
<1>3. ASSUME NEW k \in Orders(j) PROVE chain'[k] = chain[k]
  <2>1. k \in Msgs
    BY Zenon DEF Orders
  <2>2. chain' = chain \/ \E e \in {cyclicTasks[l], tempTasks[l]} : e # 0 /\ Cancel(e)
    BY Zenon DEF RemoveAsyncCollectJob
  <2>3. ASSUME k \in {cyclicTasks[l], tempTasks[l]}, k # 0 PROVE FALSE
    <3>1. k \in Orders(l) /\ kind(k) \in {"issue", "once"} /\ script[k].ok
      BY <2>3, Zenon DEF Entries, Orders
    <3> HIDE DEF l
    <3>2. job(k) = l /\ job(k) = j
      BY <1>3, <2>1, <3>1, OneJob, Zenon DEF l
    <3> QED
      BY <3>2, Zenon DEF l
  <2>4. ASSUME NEW e \in {cyclicTasks[l], tempTasks[l]}, e # 0, Cancel(e) PROVE chain'[k] = chain[k]
    <3>1. e # k
      BY <2>3, <2>4, Zenon
    <3> QED
      BY <2>1, <2>4, <3>1, Zenon DEF Cancel, Typed
  <2> QED
    BY <2>2, <2>4, Zenon
<1> QED
  BY <1>1, <1>2, <1>3, Zenon

\* What waits or runs of a job stays with its entry.
LEMMA HeldStep ==
  ASSUME Typed, Typed', Goroutines, Remaining, Entries, Chains, [Next]_vars,
         NEW j \in Jobs, Held(j)
  PROVE  Held(j)'
<1>1. CASE UNCHANGED unseen
  BY <1>1, Zenon DEF unseen, jobVars, Held, Orders, kind
<1> SUFFICES ASSUME NEW m \in Msgs, Takes(m) \/ Work(m) PROVE Held(j)'
  BY <1>1, Steps, Zenon
<1>2. script' = script /\ Orders(j)' = Orders(j) /\ Orders(j) \subseteq Msgs
  <2>1. script' = script
    BY Zenon DEF Takes, Work, Answers, Sends, CollectData, AddAsyncCollectJob, DeleteCyclicTask,
           RemoveAsyncCollectJob, Launch, RunEnds, Besides, Handler, inputVars
  <2> QED
    BY <2>1, Zenon DEF Orders, kind
<1>3. CASE Takes(m) \/ Answers(m) \/ Sends(m) \/ CollectData(m) \/ DeleteCyclicTask(m)
  <2>1. UNCHANGED <<cyclicTasks, tempTasks, chain, strayed>>
    BY <1>3, Zenon DEF Takes, Answers, Sends, CollectData, DeleteCyclicTask, Handler, jobVars
  <2> QED
    BY <1>2, <2>1, Zenon DEF Held
<1>4. CASE AddAsyncCollectJob(m)
  <2>1. kind(m) \in {"issue", "once"} /\ script[m].ok /\ m # 0
    BY <1>4 DEF AddAsyncCollectJob, Goroutines, Msgs
  <2>2. m \in Orders(j) <=> job(m) = j
    BY <2>1, OneJob, Zenon
  <2> job(m) \in Jobs
    BY <2>1, Messages, Zenon
  <2>3. chain'[m] = "waits" /\ \A k \in Msgs \ {m} : chain'[k] = chain[k]
    BY <1>4, Adds, Zenon
  <2>4. CASE job(m) # j
    <3>1. /\ cyclicTasks'[j] = cyclicTasks[j] /\ tempTasks'[j] = tempTasks[j]
          /\ j \in strayed' <=> j \in strayed
      BY <1>4, <2>4, Adds, ZenonT(40)
    <3> QED
      BY <1>2, <2>2, <2>3, <2>4, <3>1, Zenon DEF Held
  <2>5. CASE job(m) = j
    <3> SUFFICES ASSUME j \notin strayed'
                 PROVE  /\ cyclicTasks'[j] = 0 \/ tempTasks'[j] = 0
                        /\ \A k \in Orders(j) : chain'[k] \in {"waits", "runs"} =>
                             k = cyclicTasks'[j] \/ k = tempTasks'[j]
      BY <1>2, Zenon DEF Held
    <3>1. ~Scheduled(j) /\ j \notin strayed
      BY <1>4, <2>5, Zenon DEF AddAsyncCollectJob
    <3>2. cyclicTasks[j] = 0 /\ tempTasks[j] = 0
      BY <3>1, Zenon DEF Scheduled
    <3>3. \A k \in Orders(j) : k = m \/ chain[k] \notin {"waits", "runs"}
      <4>1. 0 \notin Msgs
        BY DEF Msgs
      <4> QED
        BY <1>2, <3>1, <3>2, <4>1, Zenon DEF Held
    <3>4. \/ cyclicTasks'[j] = m /\ tempTasks'[j] = 0
          \/ cyclicTasks'[j] = 0 /\ tempTasks'[j] = m
      BY <1>4, <2>5, <3>2, Adds, Zenon
    <3> QED
      BY <1>2, <2>3, <3>3, <3>4, Zenon
  <2> QED
    BY <2>4, <2>5, Zenon
<1>5. CASE RemoveAsyncCollectJob(m)
  <2>1. Head(todo[m]) \in Jobs
    BY <1>5 DEF RemoveAsyncCollectJob, Typed
  <2>2. CASE Head(todo[m]) = j
    BY <1>2, <1>5, <2>2, RemovesHeld, Zenon DEF Held
  <2>3. CASE Head(todo[m]) # j
    BY <1>2, <1>5, <2>1, <2>3, RemovesNoOther, Zenon DEF Held
  <2> QED
    BY <2>2, <2>3, ZenonT(40)
<1>6. CASE Launch(m)
  <2>1. /\ UNCHANGED <<cyclicTasks, tempTasks, strayed>> /\ chain[m] = "waits"
        /\ \A k \in Msgs \ {m} : chain'[k] = chain[k]
    <3>1. chain \in [Msgs -> {"none", "waits", "runs", "over"}]
      BY Zenon DEF Typed
    <3> QED
      BY <1>6, <3>1, Zenon DEF Launch
  <2> QED
    BY <1>2, <2>1, Zenon DEF Held
<1>7. CASE RunEnds(m)
  <2>1. /\ UNCHANGED <<tempTasks, strayed>> /\ chain[m] = "runs"
        /\ \A k \in Msgs \ {m} : chain'[k] = chain[k]
    <3>1. chain \in [Msgs -> {"none", "waits", "runs", "over"}]
      BY Zenon DEF Typed
    <3> QED
      BY <1>7, <3>1, Zenon DEF RunEnds
  <2>2. kind(m) \in {"issue", "once"} /\ script[m].ok
    BY <2>1, Zenon DEF Chains
  <2>3. CASE cyclicTasks'[j] = cyclicTasks[j]
    BY <1>2, <2>1, <2>3, Zenon DEF Held
  <2>4. CASE cyclicTasks'[j] # cyclicTasks[j]
    <3>1. kind(m) = "issue" /\ job(m) = j /\ cyclicTasks'[j] = m
      BY <1>7, <2>4, ZenonT(40) DEF RunEnds, Typed
    <3>2. m \in Orders(j)
      BY <2>2, <3>1, OneJob, Zenon
    <3>3. m # tempTasks[j]
      <4>1. tempTasks[j] # 0 => kind(tempTasks[j]) = "once"
        BY Zenon DEF Entries
      <4>2. m # 0
        BY DEF Msgs
      <4> QED
        BY <3>1, <4>1, <4>2, Zenon
    <3>4. j \in strayed
      BY <2>1, <2>4, <3>1, <3>2, <3>3, Zenon DEF Held
    <3> QED
      BY <2>1, <3>4, Zenon DEF Held
  <2> QED
    BY <2>3, <2>4, Zenon
<1> QED
  BY <1>3, <1>4, <1>5, <1>6, <1>7, Zenon DEF Work

\* A step that acts on no task of j leaves the last order as it is, ...
LEMMA SameOrders ==
  ASSUME NEW j \in Jobs, LastActed(j), script' = script,
         \A m \in Orders(j) : ActedOn(m, j)' <=> ActedOn(m, j),
         \A m \in Acted(j) : seen'[m] = seen[m],
         \A m \in Orders(j) : Left(m, j) => Left(m, j)'
  PROVE  LastActed(j)'
<1>1. Orders(j)' = Orders(j)
  BY Zenon DEF Orders, kind
<1>2. Acted(j)' = Acted(j) /\ Acted(j) \subseteq Orders(j)
  BY <1>1, Zenon DEF Acted
<1>3. ASSUME NEW m \in Acted(j), Left(m, j), \A k \in Acted(j) : m \notin seen[k]
      PROVE  LastActed(j)'
  <2>1. \A k \in Acted(j)' : m \notin seen'[k]
    BY <1>2, <1>3, Zenon
  <2>2. Left(m, j)'
    BY <1>2, <1>3, Zenon
  <2> QED
    BY <1>2, <2>1, <2>2, Zenon DEF LastActed
<1> QED
  BY <1>2, <1>3, Zenon DEF LastActed

\* ... and one that does makes its message the last.
LEMMA NewOrder ==
  ASSUME NEW j \in Jobs, Goroutines, script' = script, seen' = seen,
         NEW m \in Orders(j), pc[m] # "done", ActedOn(m, j)', Left(m, j)'
  PROVE  LastActed(j)'
<1>1. m \in Acted(j)'
  BY Zenon DEF Acted, Orders, kind
<1>2. \A k \in Acted(j)' : m \notin seen'[k]
  BY Zenon DEF Acted, Orders, Goroutines
<1> QED
  BY <1>1, <1>2, Zenon DEF LastActed

\* An order is as it left the job while the job's timeouts and executions stay, or come to
\* their own end.
LEMMA LeftKept ==
  ASSUME NEW j \in Jobs, script' = script, strayed \subseteq strayed',
         \A m \in Orders(j) : \/ chain'[m] = chain[m]
                              \/ chain[m] # "none" /\ chain'[m] = "over"
                              \/ chain[m] \in {"waits", "runs"} /\ chain'[m] \in {"waits", "runs"}
  PROVE  \A m \in Orders(j) : Left(m, j) => Left(m, j)'
<1>1. Orders(j)' = Orders(j) /\ \A m \in Orders(j) : kind(m)' = kind(m)
  BY Zenon DEF Orders, kind
<1>2. Alive(j)' => Alive(j)
  BY <1>1 DEF Alive
<1>3. \A m \in Orders(j) : chain[m] # "none" => chain'[m] # "none"
  OBVIOUS
<1> QED
  BY <1>1, <1>2, <1>3, Zenon DEF Left

\* The last order on every job.
LEMMA SettledStep ==
  ASSUME Typed, Typed', Goroutines, Remaining, Entries, Chains, \A j \in Jobs : Held(j), Settled,
         [Next]_vars
  PROVE  Settled'
<1>1. CASE UNCHANGED unseen
  <2>1. UNCHANGED <<scheduled, script, pc, todo, answer, chain, strayed, seen>>
    BY <1>1, Zenon DEF unseen, jobVars
  <2> SUFFICES ASSUME scheduled, NEW j \in Jobs PROVE LastActed(j)'
    BY <2>1, Zenon DEF Settled
  <2>2. LastActed(j) /\ \A k \in Orders(j) : Left(k, j) => Left(k, j)'
    BY <2>1, LeftKept, Zenon DEF Settled
  <2>3. \A k \in Orders(j) : ActedOn(k, j)' <=> ActedOn(k, j)
    BY <2>1, Zenon DEF ActedOn, jobs
  <2> QED
    BY <2>1, <2>2, <2>3, SameOrders, Zenon
<1> SUFFICES ASSUME scheduled', NEW j \in Jobs, NEW m \in Msgs, Takes(m) \/ Work(m)
             PROVE  LastActed(j)'
  BY <1>1, Steps, Zenon DEF Settled
<1>2. scheduled' = scheduled /\ script' = script /\ LastActed(j)
  BY Zenon DEF Takes, Work, Answers, Sends, CollectData, AddAsyncCollectJob, DeleteCyclicTask,
         RemoveAsyncCollectJob, Launch, RunEnds, Besides, Handler, inputVars, Settled
<1>3. \A k \in Orders(j) : k \in Msgs
  BY Zenon DEF Orders
<1>4. CASE Takes(m)
  <2>1. /\ pc[m] = "none" /\ answer[m] = "none" /\ pc'[m] \in {"process", "done"}
        /\ \A k \in Msgs \ {m} : pc'[k] = pc[k] /\ seen'[k] = seen[k]
        /\ UNCHANGED <<todo, answer, chain, strayed>>
    <3>1. pc[m] = "none"
      <4>1. received \in 0 .. N /\ m = received + 1
        BY <1>4, Zenon DEF Takes, Typed
      <4>2. m > received
        BY <4>1, NType
      <4> QED
        BY <4>2, Zenon DEF Goroutines
    <3> QED
      BY <1>4, <3>1 DEF Takes, Goroutines, Typed, jobVars
  <2>2. \A k \in Orders(j) : ActedOn(k, j)' <=> ActedOn(k, j)
    BY <1>2, <1>3, <2>1, Zenon DEF ActedOn, jobs
  <2>3. \A k \in Acted(j) : seen'[k] = seen[k]
    BY <1>3, <2>1, Zenon DEF Acted, ActedOn
  <2>4. \A k \in Orders(j) : Left(k, j) => Left(k, j)'
    BY <1>2, <2>1, LeftKept, Zenon
  <2> QED
    BY <1>2, <2>2, <2>3, <2>4, SameOrders, ZenonT(40)
<1>5. CASE Answers(m)
  <2>1. /\ \A k \in Msgs \ {m} : pc'[k] = pc[k] /\ answer'[k] = answer[k]
        /\ answer[m] = "none" /\ pc'[m] # "remove"
        /\ UNCHANGED <<todo, chain, strayed, seen>>
    BY <1>5 DEF Answers, Goroutines, Typed, jobVars
  <2>2. ASSUME m \in Orders(j) PROVE ActedOn(m, j) /\ ActedOn(m, j)'
    <3>1. pc[m] = "remove" /\ todo[m] = <<>> /\ answer'[m] # "none"
      BY <1>2, <1>5, <2>2, SMTT(30) DEF Answers, Orders, Typed
    <3>2. jobs(m) \in Seq(Jobs) /\ j \in Range(jobs(m))
      BY <2>2, Messages, Zenon DEF Orders, jobs
    <3>3. \E i \in 1 .. Len(jobs(m)) - Len(todo[m]) : jobs(m)[i] = j
      BY <3>1, <3>2 DEF Range
    <3> QED
      BY <3>1, <3>3, ZenonT(40) DEF ActedOn
  <2>3. \A k \in Orders(j) : ActedOn(k, j)' <=> ActedOn(k, j)
    BY <1>2, <1>3, <2>1, <2>2, Zenon DEF ActedOn, jobs
  <2>4. \A k \in Orders(j) : Left(k, j) => Left(k, j)'
    BY <1>2, <2>1, LeftKept, Zenon
  <2> QED
    BY <1>2, <2>1, <2>3, <2>4, SameOrders, ZenonT(40)
<1>6. CASE Sends(m) \/ CollectData(m) \/ DeleteCyclicTask(m)
  <2>1. /\ pc[m] # "remove" /\ \A k \in Msgs \ {m} : pc'[k] = pc[k] /\ todo'[k] = todo[k]
        /\ UNCHANGED <<answer, chain, strayed, seen>>
    <3>1. /\ pc \in [Msgs -> {"none", "process", "add", "remove", "send", "done"}]
          /\ todo \in [Msgs -> Seq(Jobs)]
      BY Zenon DEF Typed
    <3>2. CASE Sends(m)
      BY <3>1, <3>2, ZenonT(40) DEF Sends, jobVars
    <3>3. CASE CollectData(m)
      BY <3>1, <3>3, ZenonT(40) DEF CollectData, Handler, jobVars
    <3>4. CASE DeleteCyclicTask(m)
      BY <3>1, <3>4, ZenonT(40) DEF DeleteCyclicTask, Handler, jobVars
    <3> QED
      BY <1>6, <3>2, <3>3, <3>4, Zenon
  <2>2. pc'[m] = "remove" => todo'[m] = script[m].jobs
    BY <1>6, ZenonT(40) DEF Sends, CollectData, DeleteCyclicTask, Typed
  <2>3. jobs(m) \in Seq(Jobs) /\ script'[m].jobs = jobs(m)
    BY <1>2, Messages, Zenon DEF jobs
  <2>4. pc'[m] = "remove" => ~\E i \in 1 .. Len(jobs(m)) - Len(todo'[m]) : jobs(m)[i] = j
    <3>1. Len(jobs(m)) \in Nat
      BY <2>3, Lengths, Zenon
    <3>2. ~\E i \in 1 .. Len(jobs(m)) - Len(jobs(m)) : jobs(m)[i] = j
      BY <3>1
    <3> QED
      BY <2>2, <3>2, Zenon DEF jobs
  <2>5. \A k \in Orders(j) : ActedOn(k, j)' <=> ActedOn(k, j)
    BY <1>2, <1>3, <2>1, <2>4, Zenon DEF ActedOn, jobs
  <2>6. \A k \in Orders(j) : Left(k, j) => Left(k, j)'
    BY <1>2, <2>1, LeftKept, Zenon
  <2> QED
    BY <1>2, <2>1, <2>5, <2>6, SameOrders, Zenon
<1>7. CASE AddAsyncCollectJob(m)
  <2>1. /\ pc[m] = "add" /\ pc'[m] # "remove" /\ answer'[m] = "scheduled"
        /\ \A k \in Msgs \ {m} : pc'[k] = pc[k] /\ answer'[k] = answer[k]
        /\ UNCHANGED <<todo, seen>>
    BY <1>7 DEF AddAsyncCollectJob, Handler, Return, Typed
  <2>2. kind(m) \in {"issue", "once"} /\ script[m].ok
    BY <2>1, Zenon DEF Goroutines
  <2>3. m \in Orders(j) <=> job(m) = j
    BY <2>2, OneJob, Zenon
  <2>4. /\ chain'[m] = "waits" /\ \A k \in Msgs \ {m} : chain'[k] = chain[k]
        /\ strayed \subseteq strayed'
    <3>1. job(m) \in Jobs
      BY <2>2, Messages, Zenon
    <3> QED
      BY <1>7, <3>1, Adds, Zenon
  <2>5. CASE job(m) = j
    <3>1. ActedOn(m, j)'
      BY <2>1, Zenon DEF ActedOn
    <3>2. script'[m].kind # "delete" /\ chain'[m] # "none"
      BY <1>2, <2>2, <2>4 DEF kind
    <3>3. Left(m, j)'
      BY <3>2, Zenon DEF Left, kind
    <3> QED
      BY <1>2, <2>1, <2>3, <2>5, <3>1, <3>3, NewOrder, Zenon
  <2>6. CASE job(m) # j
    <3>1. \A k \in Orders(j) : /\ ActedOn(k, j)' <=> ActedOn(k, j)
                               /\ chain'[k] = chain[k]
      BY <1>2, <1>3, <2>1, <2>3, <2>4, <2>6, Zenon DEF ActedOn, jobs
    <3>2. \A k \in Orders(j) : Left(k, j) => Left(k, j)'
      BY <1>2, <2>4, <3>1, LeftKept, Zenon
    <3> QED
      BY <1>2, <2>1, <3>1, <3>2, SameOrders, Zenon
  <2> QED
    BY <2>5, <2>6, Zenon
<1>8. CASE RemoveAsyncCollectJob(m)
  <2> DEFINE js == jobs(m)
             gone == Len(js) - Len(todo[m])
  <2>1. /\ pc[m] = "remove" /\ todo[m] # <<>> /\ todo'[m] = Tail(todo[m])
        /\ \A k \in Msgs \ {m} : todo'[k] = todo[k]
        /\ UNCHANGED <<pc, answer, seen>>
    BY <1>8, Zenon DEF RemoveAsyncCollectJob, Handler, Typed
  <2>2. js \in Seq(Jobs) /\ todo[m] \in Seq(Jobs) /\ kind(m) = "delete" /\ script[m].ok
    BY <2>1, Messages, ZenonT(40) DEF Goroutines, Typed
  <2>3. Rest(js, todo[m])
    BY <2>1, Zenon DEF Remaining
  <2>4. /\ Head(todo[m]) = js[gone + 1] /\ Len(todo'[m]) = Len(todo[m]) - 1
        /\ gone \in Nat /\ Len(todo[m]) \in Nat \ {0} /\ Len(js) \in Nat
    <3> HIDE DEF js
    <3>1. gone \in Nat /\ Len(todo[m]) \in Nat \ {0} /\ Len(js) \in Nat
      <4>1. gone \in Nat
        BY <2>3, Zenon DEF Rest
      <4>2. Len(todo[m]) \in Nat \ {0} /\ Len(js) \in Nat
        <5> HIDE DEF gone, Typed, Goroutines
        <5> QED
          BY <2>1, <2>2, Lengths, Zenon
      <4> QED
        BY <4>1, <4>2, Zenon
    <3>2. Head(todo[m]) = js[gone + 1] /\ Len(todo'[m]) = Len(todo[m]) - 1
      BY <2>1, <2>2, <2>3, RestTail, Zenon
    <3> QED
      BY <3>1, <3>2, Zenon
  <2>5. gone + 1 \in 1 .. Len(js) /\ Len(js) - Len(todo'[m]) = gone + 1
    BY <2>4
  <2>6. script'[m].jobs = js
    BY <1>2, Zenon DEF jobs
  <2>7. CASE Head(todo[m]) = j
    <3>1. m \in Orders(j)
      <4>1. j \in Range(js)
        <5> HIDE DEF js, gone
        <5> QED
          BY <2>2, <2>4, <2>5, <2>7 DEF Range
      <4> QED
        BY <2>2, <4>1, Zenon DEF Orders, jobs
    <3>2. \E i \in 1 .. Len(js) - Len(todo'[m]) : js[i] = j
      <4>1. gone + 1 \in 1 .. Len(js) - Len(todo'[m])
        BY <2>4, <2>5
      <4> HIDE DEF js, gone
      <4> QED
        BY <2>4, <2>7, <4>1, Zenon
    <3>3. ActedOn(m, j)'
      BY <2>1, <2>6, <3>2, Zenon DEF ActedOn, jobs
    <3>4. Alive(j)' => j \in strayed'
      <4>1. Orders(j)' = Orders(j)
        BY <1>2, Zenon DEF Orders, kind
      <4> QED
        BY <1>8, <2>7, <4>1, RemovesHeld, Zenon DEF Alive
    <3>5. Left(m, j)'
      BY <1>2, <2>2, <3>4, Zenon DEF Left, kind
    <3> QED
      BY <1>2, <2>1, <3>1, <3>3, <3>5, NewOrder, Zenon
  <2>8. CASE Head(todo[m]) # j
    <3>1. strayed \subseteq strayed' /\ \A k \in Orders(j) : chain'[k] = chain[k]
      <4>1. Head(todo[m]) \in Jobs
        BY <2>1, <2>2
      <4> QED
        BY <1>8, <2>8, <4>1, RemovesNoOther, Cleared, Zenon
    <3>2. (\E i \in 1 .. gone : js[i] = j) <=> (\E i \in 1 .. gone + 1 : js[i] = j)
      <4> HIDE DEF js, gone
      <4> QED
        BY <2>4, <2>8
    <3>3. \A k \in Orders(j) : ActedOn(k, j)' <=> ActedOn(k, j)
      BY <1>2, <1>3, <2>1, <2>5, <3>2, Zenon DEF ActedOn, jobs
    <3>4. \A k \in Orders(j) : Left(k, j) => Left(k, j)'
      BY <1>2, <3>1, LeftKept, Zenon
    <3> QED
      BY <1>2, <2>1, <3>3, <3>4, SameOrders, Zenon
  <2> QED
    BY <2>7, <2>8, Zenon
<1>9. CASE Launch(m) \/ RunEnds(m)
  <2>1. UNCHANGED <<pc, todo, answer, seen, strayed>>
    BY <1>9, Zenon DEF Launch, RunEnds, Besides, handlerVars
  <2>2. \A k \in Orders(j) : \/ chain'[k] = chain[k]
                             \/ chain[k] # "none" /\ chain'[k] = "over"
                             \/ chain[k] \in {"waits", "runs"} /\ chain'[k] \in {"waits", "runs"}
    BY <1>3, <1>9, ZenonT(40) DEF Launch, RunEnds, Typed
  <2>3. \A k \in Orders(j) : ActedOn(k, j)' <=> ActedOn(k, j)
    BY <1>2, <2>1, Zenon DEF ActedOn, jobs
  <2>4. \A k \in Orders(j) : Left(k, j) => Left(k, j)'
    BY <1>2, <2>1, <2>2, LeftKept, Zenon
  <2> QED
    BY <1>2, <2>1, <2>3, <2>4, SameOrders, Zenon
<1> QED
  BY <1>4, <1>5, <1>6, <1>7, <1>8, <1>9, Zenon DEF Work

-----------------------------------------------------------------------------
\* The invariant of the goroutines.
LEMMA Invariance == Spec => []IInv
<1>1. Init => IInv
  <2> SUFFICES ASSUME Init PROVE IInv
    BY Zenon
  <2>1. Typed
    <3>1. 0 \in 0 .. N /\ <<>> \in Seq(Jobs) /\ {} \in SUBSET Msgs
      BY NType
    <3>2. client \in Clients /\ script \in Scripts[client] /\ received \in 0 .. N
      BY <3>1, Zenon DEF Init
    <3>3. /\ cyclicTasks \in [Jobs -> 0 .. N] /\ tempTasks \in [Jobs -> 0 .. N]
          /\ todo \in [Msgs -> Seq(Jobs)] /\ seen \in [Msgs -> SUBSET Msgs]
      BY <3>1, Zenon DEF Init
    <3>4. /\ pc \in [Msgs -> {"none", "process", "add", "remove", "send", "done"}]
          /\ answer \in [Msgs -> Texts] /\ password \in [Msgs -> {"none", "plain", "garbled"}]
          /\ chain \in [Msgs -> {"none", "waits", "runs", "over"}] /\ strayed \in SUBSET Jobs
      BY TextsOf, Zenon DEF Init
    <3> QED
      BY <3>2, <3>3, <3>4, Zenon DEF Typed
  <2>2. Goroutines
    <3> SUFFICES ASSUME NEW m \in Msgs
                 PROVE  /\ pc[m] = "none" /\ answer[m] = "none" /\ password[m] = "none"
                        /\ seen[m] = {} /\ m > received
      BY Zenon DEF Goroutines
    <3>1. m > 0
      BY NType DEF Msgs
    <3> QED
      BY <3>1, Zenon DEF Init
  <2>3. Remaining /\ KeyStored /\ Entries /\ Chains /\ SecretIsUsed
    BY Zenon DEF Init, Remaining, KeyStored, Entries, Chains, SecretIsUsed
  <2>4. ASSUME NEW j \in Jobs PROVE Acted(j) = {} /\ Held(j)
    BY Zenon DEF Init, Acted, ActedOn, Orders, Held
  <2> QED
    BY <2>1, <2>2, <2>3, <2>4, Zenon DEF IInv, Settled, LastActed
<1>2. IInv /\ [Next]_vars => IInv'
  <2> SUFFICES ASSUME IInv, [Next]_vars PROVE IInv'
    BY Zenon
  <2>1. Typed'
    BY TypedStep, Zenon DEF IInv
  <2> QED
    BY <2>1, GoroutinesStep, RemainingStep, KeyStoredStep, SecretStep, EntriesStep, ChainsStep,
       HeldStep, SettledStep, Zenon DEF IInv
<1> QED
  BY <1>1, <1>2, PTL DEF Spec

\* GoOnlineProcessor and decryptPassword: the passwords of a job are decrypted with the secret
\* of every GO_ONLINE that was processed before the job arrived.
THEOREM SecretIsUsedHolds == Spec => []SecretIsUsed
<1>1. IInv => SecretIsUsed
  BY Zenon DEF IInv
<1> QED
  BY <1>1, Invariance, PTL

\* The task processors, each in its goroutine, with AddAsyncCollectJob, RemoveAsyncCollectJob
\* and the executions that schedule themselves again: the last word of the manager on a job
\* stands, unless the job was added twice or removed while it was being executed.
THEOREM LastWordStandsHolds == Spec => []LastWordStands
<1>1. IInv => LastWordStands
  <2> SUFFICES ASSUME IInv, scheduled, \A m \in 1 .. received : pc[m] = "done", NEW j \in Jobs
               PROVE  LET done == {m \in Orders(j) : m <= received /\ answer[m] # "none"}
                      IN done # {} =>
                           \E m \in done : /\ IF kind(m) = "delete" THEN Alive(j) => j \in strayed
                                              ELSE chain[m] # "none"
                                           /\ \A k \in done : m \notin seen[k]
    BY Zenon DEF LastWordStands
  <2> DEFINE done == {m \in Orders(j) : m <= received /\ answer[m] # "none"}
  <2>1. \A m \in Msgs : m <= received \/ m > received
    BY NType DEF IInv, Typed, Msgs
  <2>2. \A m \in Msgs : m <= received => m \in 1 .. received
    BY NType DEF IInv, Typed, Msgs
  <2>3. done = Acted(j)
    <3>1. \A m \in Msgs : pc[m] # "remove" /\ (m > received => answer[m] = "none")
      BY <2>1, <2>2, Zenon DEF IInv, Goroutines
    <3> QED
      BY <2>1, <3>1, Zenon DEF Acted, ActedOn, Orders
  <2>4. LastActed(j)
    BY Zenon DEF IInv, Settled
  <2>5. ASSUME done # {}
        PROVE  \E m \in done : Left(m, j) /\ \A k \in done : m \notin seen[k]
    BY <2>3, <2>4, <2>5, Zenon DEF LastActed
  <2> QED
    BY <2>5, Zenon DEF Left
<1> QED
  BY <1>1, Invariance, PTL

-----------------------------------------------------------------------------
(***************************************************************************)
(* The response futures of the gRPC heartbeat.  AllProcessed gives up when *)
(* a future got two responses; nothing else ever makes PutResponse wait.   *)
(***************************************************************************)

\* The calls of PutResponse on the future of heartbeat b that have not returned.
Waits(b) == (IF recv = b THEN 1 ELSE 0) + (IF heart = "put" /\ beat = b THEN 1 ELSE 0)

\* The table has the future of the heartbeat that is being sent, and every response in a
\* channel, or on its way into one, was put there by a call of its own.
Futures ==
  /\ heart \in {"insert", "call", "put", "wait", "delete", "ended"}
  /\ beat \in 0 .. MaxBeats /\ recv \in 0 .. MaxBeats
  /\ heart \notin {"insert", "ended"} => beat # 0
  /\ table = IF heart \in {"insert", "ended"} THEN 0 ELSE beat
  /\ future \in [1 .. MaxBeats -> 0 .. 1] /\ puts \in [1 .. MaxBeats -> Nat]
  /\ \A b \in 1 .. MaxBeats : future[b] + Waits(b) <= puts[b]

\* PutResponse waits, in the receiving loop or in the heartbeat's, only on a future that
\* got a second response, and a response is given to the heartbeat under way or to none.
OnlyTheSecondWaits ==
  /\ recv # 0 /\ future[recv] # 0 => puts[recv] > 1
  /\ heart = "put" /\ future[beat] # 0 => puts[beat] > 1
  /\ table # 0 => table = beat

\* The steps of the messages leave the futures alone.
LEMMA FuturesApart ==
  ASSUME [Next]_vars, ~Receive, ~RecvPut, ~HeartbeatLoop
  PROVE  UNCHANGED beatVars
<1>1. CASE UNCHANGED vars
  BY <1>1, Zenon DEF vars
<1>2. CASE OfflineShutdown
  BY <1>2, Zenon DEF OfflineShutdown
<1>3. ASSUME NEW m \in Msgs, Process(m) PROVE UNCHANGED beatVars
  BY <1>3, Zenon DEF Process, Heartbeat, GoOnline, GoOffline, GoClose, Rejected, CollectData,
     AddAsyncCollectJob, DeleteCyclicTask, RemoveAsyncCollectJob, DeleteReturns, SendAnswer, Handler
<1>4. ASSUME NEW m \in Msgs, Launch(m) \/ RunEnds(m) PROVE UNCHANGED beatVars
  BY <1>4, Zenon DEF Launch, RunEnds, Besides
<1>5. ASSUME NEW s \in Others, SendOther(s) PROVE UNCHANGED beatVars
  BY <1>5, Zenon DEF SendOther, Besides
<1> QED
  BY <1>1, <1>2, <1>3, <1>4, <1>5, Zenon DEF Next

\* The receiving loop: a call of PutResponse begins, and returns.
LEMMA FuturesReceive ==
  ASSUME Futures, Receive \/ RecvPut
  PROVE  Futures'
<1> USE ProcessorsAssumption DEF Futures, Waits
<1>1. CASE RecvPut
  <2>1. /\ recv # 0 /\ future[recv] = 0 /\ future' = [future EXCEPT ![recv] = 1] /\ recv' = 0
        /\ UNCHANGED <<heart, beat, table, puts>>
    BY <1>1, Zenon DEF RecvPut
  <2> QED
    BY <2>1, SMTT(30)
<1>2. CASE Receive /\ ToFuture(received + 1)
  <2>1. /\ recv = 0 /\ recv' = table /\ puts' = [puts EXCEPT ![table] = puts[table] + 1]
        /\ table # 0 /\ UNCHANGED <<heart, beat, table, future>>
    BY <1>2, Zenon DEF Receive, Dispatch, ToFuture
  <2>2. table \in 1 .. MaxBeats /\ table = beat
    BY <2>1
  <2>3. puts' \in [1 .. MaxBeats -> Nat] /\ recv' \in 0 .. MaxBeats
    BY <2>1, <2>2, SMTT(30)
  <2>4. \A b \in 1 .. MaxBeats : /\ puts'[b] = puts[b] + (IF b = table THEN 1 ELSE 0)
                                 /\ Waits(b)' = Waits(b) + (IF b = table THEN 1 ELSE 0)
    BY <2>1, <2>2
  <2>5. ASSUME NEW b \in 1 .. MaxBeats PROVE future'[b] + Waits(b)' <= puts'[b]
    <3>1. future[b] \in 0 .. 1 /\ puts[b] \in Nat /\ future[b] + Waits(b) <= puts[b]
      BY Zenon
    <3>2. Waits(b) \in 0 .. 2
      BY DEF Waits
    <3>3. /\ future'[b] = future[b] /\ puts'[b] = puts[b] + (IF b = table THEN 1 ELSE 0)
          /\ Waits(b)' = Waits(b) + (IF b = table THEN 1 ELSE 0)
      BY <2>1, <2>4, Zenon
    <3> HIDE DEF Futures, Waits
    <3> QED
      BY <3>1, <3>2, <3>3
  <2> QED
    BY <2>1, <2>3, <2>5, SMTT(30)
<1>3. CASE Receive /\ ~ToFuture(received + 1)
  <2>1. UNCHANGED <<heart, beat, table, future, puts, recv>>
    BY <1>3, Zenon DEF Receive, Dispatch
  <2> QED
    BY <2>1
<1> QED
  BY <1>1, <1>2, <1>3, Zenon

\* The heartbeat loop: a future of its own for every heartbeat.
LEMMA FuturesBeat ==
  ASSUME Futures, HeartbeatLoop
  PROVE  Futures'
<1> USE ProcessorsAssumption DEF Futures, Waits
<1>1. CASE BeatInsert
  <2>1. /\ beat < MaxBeats /\ heart = "insert" /\ heart' = "call" /\ beat' = beat + 1
        /\ table' = beat + 1 /\ UNCHANGED <<future, puts, recv>>
    BY <1>1, Zenon DEF BeatInsert, Beat
  <2> QED
    BY <2>1
<1>2. CASE BeatEnd
  <2>1. heart = "insert" /\ heart' = "ended" /\ UNCHANGED <<beat, table, future, puts, recv>>
    BY <1>2, Zenon DEF BeatEnd, Beat
  <2> QED
    BY <2>1
<1>3. CASE BeatCall
  <2>1. /\ heart = "call" /\ heart' \in {"delete", "wait", "put"} /\ UNCHANGED <<beat, table, future, recv>>
        /\ puts' = IF heart' = "put" THEN [puts EXCEPT ![beat] = puts[beat] + 1] ELSE puts
    BY <1>3, Zenon DEF BeatCall, Beat
  <2> QED
    BY <2>1
<1>4. CASE BeatPut
  <2>1. /\ heart = "put" /\ heart' = "delete" /\ future[beat] = 0
        /\ future' = [future EXCEPT ![beat] = 1] /\ UNCHANGED <<beat, table, puts, recv>>
    BY <1>4, Zenon DEF BeatPut, Beat
  <2> QED
    BY <2>1
<1>5. CASE BeatAnswered
  <2>1. /\ heart = "wait" /\ heart' = "delete" /\ future[beat] = 1
        /\ future' = [future EXCEPT ![beat] = 0] /\ UNCHANGED <<beat, table, puts, recv>>
    BY <1>5, Zenon DEF BeatAnswered, Beat
  <2> QED
    BY <2>1
<1>6. CASE BeatTimeout
  <2>1. heart = "wait" /\ heart' = "delete" /\ UNCHANGED <<beat, table, future, puts, recv>>
    BY <1>6, Zenon DEF BeatTimeout, Beat
  <2> QED
    BY <2>1
<1>7. CASE BeatDelete
  <2>1. heart = "delete" /\ heart' = "insert" /\ table' = 0 /\ UNCHANGED <<beat, future, puts, recv>>
    BY <1>7, Zenon DEF BeatDelete, Beat
  <2> QED
    BY <2>1
<1> QED
  BY <1>1, <1>2, <1>3, <1>4, <1>5, <1>6, <1>7, Zenon DEF HeartbeatLoop

(* ResponseFuture.PutResponse of grpc_client.go blocks the receiving loop, or the heartbeat *)
(* loop itself, only when a second response is given to one future: the first one always    *)
(* finds room, whether or not the heartbeat still waits for it: the safety half of          *)
(* AllProcessed.                                                                            *)
THEOREM OnlyTheSecondWaitsHolds == Spec => []OnlyTheSecondWaits
<1>1. Init => Futures
  <2> SUFFICES ASSUME Init PROVE Futures
    BY Zenon
  <2>1. /\ heart = "insert" /\ beat = 0 /\ table = 0 /\ recv = 0
        /\ future = [b \in 1 .. MaxBeats |-> 0] /\ puts = [b \in 1 .. MaxBeats |-> 0]
    BY Zenon DEF Init
  <2> QED
    BY <2>1, ProcessorsAssumption DEF Futures, Waits
<1>2. Futures /\ [Next]_vars => Futures'
  <2>1. ASSUME Futures, UNCHANGED beatVars PROVE Futures'
    BY <2>1, Zenon DEF Futures, Waits, beatVars
  <2> QED
    BY <2>1, FuturesApart, FuturesReceive, FuturesBeat, Zenon
<1>3. Futures => OnlyTheSecondWaits
  BY ProcessorsAssumption, SMTT(20) DEF Futures, Waits, OnlyTheSecondWaits
<1> QED
  BY <1>1, <1>2, <1>3, PTL DEF Spec

-----------------------------------------------------------------------------
(***************************************************************************)
(* The writer.                                                             *)
(***************************************************************************)
\* Every step that is not part of a SendMsg leaves the writer alone.
LEMMA WriterStep == [Next]_vars => [W!Next]_writerVars
<1> SUFFICES ASSUME [Next]_vars PROVE W!Next \/ UNCHANGED writerVars
  BY Zenon
<1>1. CASE UNCHANGED vars
  BY <1>1, Zenon DEF vars
<1>2. CASE Receive \/ RecvPut \/ HeartbeatLoop \/ OfflineShutdown
  BY <1>2, Zenon DEF Receive, RecvPut, HeartbeatLoop, OfflineShutdown, Beat, BeatInsert, BeatEnd,
              BeatCall, BeatPut, BeatAnswered, BeatTimeout, BeatDelete
<1>3. ASSUME NEW m \in Msgs, Process(m) PROVE W!Next \/ UNCHANGED writerVars
  <2>1. CASE SendAnswer(m)
    BY <2>1, Zenon DEF SendAnswer, W!Next, Senders
  <2>2. CASE ~SendAnswer(m)
    BY <1>3, <2>2, Zenon DEF Process, Heartbeat, GoOnline, GoOffline, GoClose, Rejected, CollectData,
         AddAsyncCollectJob, DeleteCyclicTask, RemoveAsyncCollectJob, DeleteReturns
  <2> QED
    BY <2>1, <2>2, Zenon
<1>4. ASSUME NEW s \in Others, SendOther(s) PROVE W!Next
  BY <1>4, Zenon DEF SendOther, W!Next, Senders
<1>5. ASSUME NEW m \in Msgs, Launch(m) \/ RunEnds(m) PROVE UNCHANGED writerVars
  BY <1>5, Zenon DEF Launch, RunEnds
<1> QED
  BY <1>1, <1>2, <1>3, <1>4, <1>5, Zenon DEF Next

WP == INSTANCE FrameWriterProofs

\* SendMsg of netty_client.go, used by the processors, the heartbeats and the results: until
\* two of them are in it at a time, the manager has got what was sent so far, whole and in
\* order.
THEOREM FramesIntactHolds == Spec => []FramesIntact
<1>1. Spec => WP!Spec
  <2>1. Init => WP!Init
    BY Zenon DEF Init, W!Init, WP!Init
  <2>2. [Next]_vars => [WP!Next]_WP!vars
    BY WriterStep, Zenon
       DEF writerVars, WP!vars, WP!bufVars, W!Next, W!Refuse, W!Write, W!Copy, W!Add, W!Flush,
           W!Reset, W!Return, W!Active, W!InWrite, W!bufVars, WP!Next, WP!Refuse, WP!Write,
           WP!Copy, WP!Add, WP!Flush, WP!Reset, WP!Return, WP!Active, WP!InWrite
  <2> QED
    BY <2>1, <2>2, PTL DEF Spec, WP!Spec
<1>2. WP!FramesIntact => FramesIntact
  BY Zenon DEF WP!FramesIntact, FramesIntact, W!FramesIntact
<1> QED
  BY <1>1, <1>2, WP!FramesIntactHolds, PTL
=============================================================================
