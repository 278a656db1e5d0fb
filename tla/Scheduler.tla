----------------------------- MODULE Scheduler ------------------------------
(***************************************************************************)
(* The scheduling of collect jobs: the Runner of                           *)
(* internal/job/server/job_server.go, the TimeDispatch of                  *)
(* internal/job/dispatcher/time_wheel.go and the WheelTimerTask of         *)
(* wheel_timer_task.go, on top of the abstract Timer that the hashed wheel *)
(* implements.                                                             *)
(*                                                                         *)
(* Runner.mu is held across AddJob and RemoveJob, so at most one of them   *)
(* runs at a time; but a Run that reschedules its job, the launches of the *)
(* timer and Stop do not take that mutex and interleave with every step.   *)
(***************************************************************************)
EXTENDS Integers, FiniteSets

CONSTANTS
  Jobs,       \* the identifiers of the jobs
  Cyclic,     \* the jobs with IsCyclic
  Repeating,  \* the cyclic jobs with DefaultInterval > 0
  Timeouts,   \* the Timeout objects that NewTimeout may create
  Outcomes,   \* how DispatchMetricsTask may end: "ok", "error", "panic"
  Loads,      \* bounds: how often each job is added, and removed, at most, and
              \* how many timeouts there are; every behaviour has one of them
  None        \* no timeout

ASSUME SchedulerAssumption ==
  /\ Repeating \subseteq Cyclic
  /\ Cyclic \subseteq Jobs
  /\ Outcomes \subseteq {"ok", "error", "panic"}
  /\ Loads \subseteq [ops : [Jobs -> Nat], timeouts : 0 .. Cardinality(Timeouts)]
  /\ None \notin Timeouts
  /\ None \notin Jobs

VARIABLES
  state, cancelled, timer,   \* the abstract timer
  jobOf,        \* the job of a timeout's WheelTimerTask
  runPc,        \* progress of WheelTimerTask.Run for a launched timeout
  next,         \* the timeout with which that Run reschedules its job
  op,           \* the AddJob or RemoveJob that holds Runner.mu
  runningJobs,  \* Runner.runningJobs
  cyclicTasks, tempTasks,    \* TimeDispatch.cyclicTasks and tempTasks
  jobInfos,     \* the keys of TimeDispatch.jobInfos
  started,      \* TimeDispatch.started
  stopPc,       \* progress of Runner.Close, of which TimeDispatch.Stop is part
  stopTodo,     \* the keys the Range calls of Stop have still to visit
  stats,        \* DispatcherStats: executed, completed and failed
  load,         \* the bound of this behaviour, one of Loads
  added, removed,            \* TotalJobsAdded and TotalJobsRemoved, per job
  crashed,      \* a nil Timeout was cancelled: the process is dead
  tangled       \* history: the jobs whose chain an operation may have missed;
                \* added while a chain of theirs was alive or during Stop,
                \* removed or stopped while a run of theirs was in flight, or
                \* launched while unstored, being removed or being stopped

T == INSTANCE Timer

timerVars == <<state, cancelled, timer>>
runVars == <<jobOf, runPc, next>>
mapVars == <<cyclicTasks, tempTasks, jobInfos>>
stopVars == <<started, stopPc, stopTodo>>
opVars == <<op, runningJobs, added, removed, load>>
vars == <<timerVars, runVars, mapVars, stopVars, opVars, stats, crashed, tangled>>

NoOp == [at |-> "idle", job |-> None, timeout |-> None]

InFlight == {"record", "dispatch", "renew", "restore"}
RunsInFlight(j) == {t \in Timeouts : jobOf[t] = j /\ runPc[t] \in InFlight}
Pending(j) ==
  {t \in Timeouts : jobOf[t] = j /\ state[t] = "pending" /\ ~cancelled[t]}

\* What makes a job execute again: a live timeout, or a run that will renew one.
Chains(j) ==
  Pending(j) \cup
  {t \in Timeouts : /\ jobOf[t] = j /\ j \in Repeating
                    /\ runPc[t] \in {"record", "dispatch", "renew"}}

\* The entry that RemoveJob and Stop find for a job.
task(j) == IF j \in Cyclic THEN cyclicTasks[j] ELSE tempTasks[j]

\* A timeout is in the timer before AddJob or RescheduleJob stores it in a map.
Unstored(t) ==
  \/ op.at = "store" /\ op.timeout = t
  \/ \E r \in Timeouts : runPc[r] = "restore" /\ next[r] = t

Removing(j) == op.job = j /\ op.at \in {"lookup", "cancel"}

\* timeout.Cancel(); NewTimeout may have returned nil, and nobody recovers
\* from the panic in the goroutine of a message processor.
CancelTask(t) ==
  /\ crashed' = (state[t] = "nil")
  /\ IF state[t] = "nil" THEN UNCHANGED timerVars ELSE T!Cancel(t)

Init ==
  /\ T!Init
  /\ jobOf = [t \in Timeouts |-> None]
  /\ runPc = [t \in Timeouts |-> "none"]
  /\ next = [t \in Timeouts |-> None]
  /\ op = NoOp
  /\ runningJobs = {}
  /\ cyclicTasks = [j \in Jobs |-> None]
  /\ tempTasks = [j \in Jobs |-> None]
  /\ jobInfos = {}
  /\ started = FALSE
  /\ stopPc = "none"
  /\ stopTodo = {}
  /\ stats = [executed |-> 0, completed |-> 0, failed |-> 0]
  /\ load \in Loads
  /\ added = [j \in Jobs |-> 0]
  /\ removed = [j \in Jobs |-> 0]
  /\ crashed = FALSE
  /\ tangled = {}

\* The behaviour has no timeout left for NewTimeout to return.
Exhausted == Cardinality({t \in Timeouts : state[t] # "none"}) = load.timeouts

NewTimeout(t) == ~Exhausted /\ T!New(t)

-----------------------------------------------------------------------------
(***************************************************************************)
(* AddAsyncCollectJob, with TimeDispatch.AddJob.                           *)
(***************************************************************************)

AddBegin(j) ==
  /\ op.at = "idle"
  /\ added[j] < load.ops[j]
  /\ op' = [at |-> "new", job |-> j, timeout |-> None]
  /\ runningJobs' = runningJobs \cup {j}
  /\ added' = [added EXCEPT ![j] = @ + 1]
  /\ tangled' = IF Chains(j) = {} /\ stopPc = "none" THEN tangled
                ELSE tangled \cup {j}
  /\ UNCHANGED <<load, timerVars, runVars, mapVars, stopVars, removed, stats, crashed>>

AddNewTimeout(t) ==
  /\ op.at = "new"
  /\ NewTimeout(t)
  /\ jobOf' = [jobOf EXCEPT ![t] = op.job]
  /\ op' = [op EXCEPT !.at = "store", !.timeout = t]
  /\ UNCHANGED <<load, runPc, next, mapVars, stopVars, runningJobs, added, removed, stats,
                 crashed, tangled>>

AddStoreTask ==
  /\ op.at = "store"
  /\ op' = [op EXCEPT !.at = "info"]
  /\ \/ /\ op.job \in Cyclic
        /\ cyclicTasks' = [cyclicTasks EXCEPT ![op.job] = op.timeout]
        /\ UNCHANGED tempTasks
     \/ /\ op.job \notin Cyclic
        /\ tempTasks' = [tempTasks EXCEPT ![op.job] = op.timeout]
        /\ UNCHANGED cyclicTasks
  /\ UNCHANGED <<load, timerVars, runVars, jobInfos, stopVars, runningJobs, added, removed,
                 stats, crashed, tangled>>

AddStoreInfo ==
  /\ op.at = "info"
  /\ op' = NoOp
  /\ jobInfos' = jobInfos \cup {op.job}
  /\ UNCHANGED <<load, timerVars, runVars, cyclicTasks, tempTasks, stopVars, runningJobs,
                 added, removed, stats, crashed, tangled>>

-----------------------------------------------------------------------------
(***************************************************************************)
(* RemoveAsyncCollectJob, with TimeDispatch.RemoveJob.                     *)
(***************************************************************************)

RemoveBegin(j) ==
  /\ op.at = "idle"
  /\ removed[j] < load.ops[j]
  /\ op' = [at |-> "lookup", job |-> j, timeout |-> None]
  /\ runningJobs' = runningJobs \ {j}
  /\ removed' = [removed EXCEPT ![j] = @ + 1]
  /\ tangled' = IF RunsInFlight(j) = {} THEN tangled ELSE tangled \cup {j}
  /\ UNCHANGED <<load, timerVars, runVars, mapVars, stopVars, added, stats, crashed>>

\* The two LoadAndDelete; a job in neither map is "job not found".
RemoveLoadAndDelete ==
  /\ op.at = "lookup"
  /\ \/ /\ cyclicTasks[op.job] # None
        /\ op' = [op EXCEPT !.at = "cancel", !.timeout = cyclicTasks[op.job]]
        /\ cyclicTasks' = [cyclicTasks EXCEPT ![op.job] = None]
        /\ UNCHANGED tempTasks
     \/ /\ cyclicTasks[op.job] = None
        /\ tempTasks[op.job] # None
        /\ op' = [op EXCEPT !.at = "cancel", !.timeout = tempTasks[op.job]]
        /\ tempTasks' = [tempTasks EXCEPT ![op.job] = None]
        /\ UNCHANGED cyclicTasks
     \/ /\ cyclicTasks[op.job] = None
        /\ tempTasks[op.job] = None
        /\ op' = NoOp
        /\ UNCHANGED <<cyclicTasks, tempTasks>>
  /\ UNCHANGED <<load, timerVars, runVars, jobInfos, stopVars, runningJobs, added, removed,
                 stats, crashed, tangled>>

\* Faulty variant of RemoveCancel: the timeout is only forgotten.
RemoveWithoutCancel ==
  /\ op.at = "cancel"
  /\ op' = [op EXCEPT !.at = "forget"]
  /\ UNCHANGED <<load, timerVars, runVars, mapVars, stopVars, runningJobs, added, removed,
                 stats, crashed, tangled>>

RemoveCancel ==
  /\ op.at = "cancel"
  /\ CancelTask(op.timeout)
  /\ op' = [op EXCEPT !.at = "forget"]
  /\ UNCHANGED <<load, runVars, mapVars, stopVars, runningJobs, added, removed, stats,
                 tangled>>

RemoveInfo ==
  /\ op.at = "forget"
  /\ op' = NoOp
  /\ jobInfos' = jobInfos \ {op.job}
  /\ UNCHANGED <<load, timerVars, runVars, cyclicTasks, tempTasks, stopVars, runningJobs,
                 added, removed, stats, crashed, tangled>>

-----------------------------------------------------------------------------
(***************************************************************************)
(* The timer launches WheelTimerTask.Run in a goroutine.                   *)
(***************************************************************************)

Launch(t) ==
  /\ T!Launch(t)
  /\ runPc' = [runPc EXCEPT ![t] = "record"]
  /\ tangled' = IF Unstored(t) \/ Removing(jobOf[t]) \/ stopPc = "range"
                THEN tangled \cup {jobOf[t]} ELSE tangled
  /\ UNCHANGED <<jobOf, next, mapVars, stopVars, opVars, stats, crashed>>

\* RecordJobExecution and UpdateJobExecution.
RunRecord(t) ==
  /\ runPc[t] = "record"
  /\ runPc' = [runPc EXCEPT ![t] = "dispatch"]
  /\ stats' = [stats EXCEPT !.executed = @ + 1]
  /\ UNCHANGED <<timerVars, jobOf, next, mapVars, stopVars, opVars, crashed, tangled>>

\* DispatchMetricsTask returns an error: the job is not rescheduled.
RunFail(t) ==
  /\ "error" \in Outcomes
  /\ runPc[t] = "dispatch"
  /\ runPc' = [runPc EXCEPT ![t] = "failed"]
  /\ stats' = [stats EXCEPT !.failed = @ + 1]
  /\ UNCHANGED <<timerVars, jobOf, next, mapVars, stopVars, opVars, crashed, tangled>>

\* DispatchMetricsTask panics: the goroutine of the timeout recovers, and the
\* execution is counted neither as completed nor as failed.
RunPanic(t) ==
  /\ "panic" \in Outcomes
  /\ runPc[t] = "dispatch"
  /\ runPc' = [runPc EXCEPT ![t] = "panicked"]
  /\ UNCHANGED <<timerVars, jobOf, next, mapVars, stopVars, opVars, stats, crashed,
                 tangled>>

\* RecordJobCompleted, and the decision to reschedule.
Complete(t, renew) ==
  /\ "ok" \in Outcomes
  /\ runPc[t] = "dispatch"
  /\ runPc' = [runPc EXCEPT ![t] = IF renew THEN "renew" ELSE "done"]
  /\ stats' = [stats EXCEPT !.completed = @ + 1]
  /\ UNCHANGED <<timerVars, jobOf, next, mapVars, stopVars, opVars, crashed, tangled>>

\* Faulty variants of RunComplete: a job is rescheduled only while the map holds
\* the timeout that runs; a job is never rescheduled.
CompleteIfCurrent(t) ==
  Complete(t, jobOf[t] \in Repeating /\ cyclicTasks[jobOf[t]] = t)
CompleteOnce(t) == Complete(t, FALSE)

RunComplete(t) == Complete(t, jobOf[t] \in Repeating)

\* Faulty variant of RescheduleNewTimeout: the run may schedule once more.
RescheduleTwice(t, u) ==
  /\ runPc[t] = "renew"
  /\ NewTimeout(u)
  /\ jobOf' = [jobOf EXCEPT ![u] = jobOf[t]]
  /\ next' = [next EXCEPT ![t] = u]
  /\ UNCHANGED <<runPc, mapVars, stopVars, opVars, stats, crashed, tangled>>

\* RescheduleJob: NewTimeout ...
RescheduleNewTimeout(t, u) ==
  /\ runPc[t] = "renew"
  /\ NewTimeout(u)
  /\ runPc' = [runPc EXCEPT ![t] = "restore"]
  /\ jobOf' = [jobOf EXCEPT ![u] = jobOf[t]]
  /\ next' = [next EXCEPT ![t] = u]
  /\ UNCHANGED <<mapVars, stopVars, opVars, stats, crashed, tangled>>

\* Faulty variant of RescheduleStore: the new timeout is not stored.
RescheduleWithoutStore(t) ==
  /\ runPc[t] = "restore"
  /\ runPc' = [runPc EXCEPT ![t] = "done"]
  /\ UNCHANGED <<timerVars, jobOf, next, mapVars, stopVars, opVars, stats, crashed,
                 tangled>>

\* ... and the Store, whether or not the job was removed in between.
RescheduleStore(t) ==
  /\ runPc[t] = "restore"
  /\ runPc' = [runPc EXCEPT ![t] = "done"]
  /\ cyclicTasks' = [cyclicTasks EXCEPT ![jobOf[t]] = next[t]]
  /\ UNCHANGED <<timerVars, jobOf, next, tempTasks, jobInfos, stopVars, opVars, stats,
                 crashed, tangled>>

-----------------------------------------------------------------------------
(***************************************************************************)
(* Start and Close of the Runner, with Start and Stop of TimeDispatch.     *)
(***************************************************************************)

Start ==
  /\ ~started
  /\ T!Start
  /\ started' = TRUE
  /\ UNCHANGED <<runVars, mapVars, stopPc, stopTodo, opVars, stats, crashed, tangled>>

\* The context of the server is cancelled; Runner.Start goes on to Stop.
ContextDone ==
  /\ T!Halt
  /\ UNCHANGED <<runVars, mapVars, stopVars, opVars, stats, crashed, tangled>>

\* Faulty variant of StopBegin: the timer is stopped before the maps are ranged over.
StopBeginWheelFirst ==
  /\ started
  /\ stopPc = "none"
  /\ stopPc' = "range"
  /\ stopTodo' = Jobs
  /\ T!StopBegin
  /\ UNCHANGED <<runVars, mapVars, started, opVars, stats, crashed, tangled>>

StopBegin ==
  /\ started
  /\ stopPc = "none"
  /\ stopPc' = "range"
  /\ stopTodo' = Jobs
  /\ tangled' = tangled \cup {j \in Jobs : RunsInFlight(j) # {} \/ op.job = j}
  /\ UNCHANGED <<timerVars, runVars, mapVars, started, opVars, stats, crashed>>

\* Faulty variant of StopCancel: only the cyclic tasks are cancelled.
StopCancelCyclic(j) ==
  /\ stopPc = "range"
  /\ j \in stopTodo
  /\ stopTodo' = stopTodo \ {j}
  /\ IF cyclicTasks[j] = None THEN UNCHANGED <<timerVars, crashed>>
                              ELSE CancelTask(cyclicTasks[j])
  /\ UNCHANGED <<runVars, mapVars, started, stopPc, opVars, stats, tangled>>

\* The Range over cyclicTasks and then the one over tempTasks.  A Range visits
\* a key once and sees some value the key has meanwhile.
StopCancel(j) ==
  /\ stopPc = "range"
  /\ j \in stopTodo
  /\ j \in Cyclic \/ stopTodo \cap Cyclic = {}
  /\ stopTodo' = stopTodo \ {j}
  /\ IF task(j) = None THEN UNCHANGED <<timerVars, crashed>> ELSE CancelTask(task(j))
  /\ UNCHANGED <<runVars, mapVars, started, stopPc, opVars, stats, tangled>>

StopClear ==
  /\ stopPc = "range"
  /\ stopTodo = {}
  /\ stopPc' = "wheel"
  /\ cyclicTasks' = [j \in Jobs |-> None]
  /\ tempTasks' = [j \in Jobs |-> None]
  /\ jobInfos' = {}
  /\ UNCHANGED <<timerVars, runVars, started, stopTodo, opVars, stats, crashed, tangled>>

StopWheel ==
  /\ stopPc = "wheel"
  /\ stopPc' = "waiting"
  /\ T!StopBegin
  /\ UNCHANGED <<runVars, mapVars, started, stopTodo, opVars, stats, crashed, tangled>>

StopReturn ==
  /\ stopPc = "waiting"
  /\ stopPc' = "returned"
  /\ T!StopReturn
  /\ started' = FALSE
  /\ UNCHANGED <<runVars, mapVars, stopTodo, opVars, stats, crashed, tangled>>

\* The rest of Close, under Runner.mu.
CloseClear ==
  /\ stopPc = "returned"
  /\ op.at = "idle"
  /\ stopPc' = "closed"
  /\ runningJobs' = {}
  /\ UNCHANGED <<load, timerVars, runVars, mapVars, started, stopTodo, op, added, removed,
                 stats, crashed, tangled>>

-----------------------------------------------------------------------------

Operation ==
  \/ \E t \in Timeouts : AddNewTimeout(t)
  \/ AddStoreTask
  \/ AddStoreInfo
  \/ RemoveLoadAndDelete
  \/ RemoveCancel
  \/ RemoveInfo

Run(t) ==
  \/ RunRecord(t)
  \/ RunFail(t)
  \/ RunPanic(t)
  \/ RunComplete(t)
  \/ \E u \in Timeouts : RescheduleNewTimeout(t, u)
  \/ RescheduleStore(t)

StopSteps ==
  \/ \E j \in Jobs : StopCancel(j)
  \/ StopClear
  \/ StopWheel
  \/ StopReturn
  \/ CloseClear

Next ==
  /\ ~crashed
  /\ \/ \E j \in Jobs : AddBegin(j) \/ RemoveBegin(j)
     \/ Operation
     \/ \E t \in Timeouts : Launch(t) \/ Run(t)
     \/ Start
     \/ ContextDone
     \/ StopBegin
     \/ StopSteps

Spec == Init /\ [][Next]_vars

(***************************************************************************)
(* Every goroutine that can step does, and a running timer launches what   *)
(* is live (HashedWheelTimer!EventuallyLaunched).  Nobody is obliged to    *)
(* add, remove, start or stop.                                             *)
(***************************************************************************)
Fairness ==
  /\ WF_vars(~crashed /\ Operation)
  /\ WF_vars(~crashed /\ StopSteps)
  /\ WF_vars(~crashed /\ timer = "halting" /\ StopBegin)
  /\ \A t \in Timeouts : /\ WF_vars(~crashed /\ Run(t))
                         /\ WF_vars(~crashed /\ timer = "running" /\ Launch(t))

FairSpec == Spec /\ Fairness

-----------------------------------------------------------------------------
(***************************************************************************)
(* Properties.                                                             *)
(***************************************************************************)

TypeOK ==
  /\ state \in [Timeouts -> {"none", "nil", "pending", "launched"}]
  /\ cancelled \in [Timeouts -> BOOLEAN]
  /\ timer \in {"idle", "running", "halting", "stopping", "stopped"}
  /\ jobOf \in [Timeouts -> Jobs \cup {None}]
  /\ runPc \in [Timeouts -> InFlight \cup {"none", "done", "failed", "panicked"}]
  /\ next \in [Timeouts -> Timeouts \cup {None}]
  /\ op \in [at : {"idle", "new", "store", "info", "lookup", "cancel", "forget"},
             job : Jobs \cup {None}, timeout : Timeouts \cup {None}]
  /\ runningJobs \subseteq Jobs
  /\ cyclicTasks \in [Jobs -> Timeouts \cup {None}]
  /\ tempTasks \in [Jobs -> Timeouts \cup {None}]
  /\ jobInfos \subseteq Jobs
  /\ started \in BOOLEAN
  /\ stopPc \in {"none", "range", "wheel", "waiting", "returned", "closed"}
  /\ stopTodo \subseteq Jobs
  /\ stats \in [executed : Nat, completed : Nat, failed : Nat]
  /\ load \in Loads
  /\ \A j \in Jobs : /\ added[j] \in 0 .. load.ops[j]
                     /\ removed[j] \in 0 .. load.ops[j]
  /\ crashed \in BOOLEAN
  /\ tangled \subseteq Jobs

\* Rescheduling never multiplies a job: whatever runs, additions and removals
\* overlap, a job has at most as many live chains of timeouts and runs as
\* AddJob was called for it.
ChainsBounded == \A j \in Jobs : Cardinality(Chains(j)) <= added[j]

\* A cyclic job that was added and not removed since is never lost: until Stop
\* it always has a live timeout or a run that will create one, although an old
\* run or an old removal may overwrite or cancel what the maps hold for it.
NeverLost ==
  \A j \in Repeating :
    (/\ j \in runningJobs
     /\ op.job # j
     /\ stopPc = "none"
     /\ \A t \in Timeouts : jobOf[t] = j => runPc[t] \notin {"failed", "panicked"})
       => Chains(j) # {}

\* Unless the job was added twice, removed in the middle of a run or launched
\* before its timeout was stored (the Store then overwrites a newer one), RemoveJob
\* finds and cancels what will execute it: a scheduled job has one chain, and its
\* live timeout is the one in the map or is about to be stored there.
Removable ==
  \A j \in Jobs \ tangled :
    (j \in runningJobs /\ op.job # j /\ stopPc = "none") =>
      /\ Cardinality(Chains(j)) <= 1
      /\ \A t \in Pending(j) : task(j) = t \/ Unstored(t)

\* Under the same proviso a removed job is quiet: when RemoveJob has returned,
\* nothing is left that would execute the job again.
RemovedIsQuiet ==
  \A j \in Jobs \ tangled :
    (j \notin runningJobs /\ op.job # j /\ stopPc = "none") => Chains(j) = {}

\* A nil timeout is cancelled only after Stop has made the timer refuse new
\* timeouts: before that no sequence of additions, runs and removals panics.
NoPanicBeforeStop == crashed => stopPc \in {"waiting", "returned", "closed"}

\* Once Stop has gone through the maps, no job is left that would execute, save
\* those with a run, an addition or a removal that overlapped Stop.
StopCancels ==
  stopPc \notin {"none", "range"} =>
    \A j \in Jobs \ tangled : op.job # j => Chains(j) = {}

\* A scheduled cyclic job keeps executing: until it is removed, fails, or the
\* timer is stopped, its runs go on for as long as the model has timeouts.
KeepsExecuting ==
  \A j \in Repeating :
    (j \in runningJobs /\ timer = "running") ~>
      \/ Exhausted
      \/ j \notin runningJobs
      \/ \E t \in Timeouts : runPc[t] \in {"failed", "panicked"}
      \/ timer # "running" \/ stopPc # "none" \/ crashed

\* What time_wheel.go says of RemoveJob, "removes a job from the scheduler": once
\* it has returned and the job was not added again, no task of the job starts.
RemoveJobRemoves ==
  [][\A t \in Timeouts :
       (/\ state[t] = "pending" /\ jobOf[t] \notin runningJobs
        /\ op.job # jobOf[t] /\ stopPc = "none")
         => state'[t] = "pending"]_vars
=============================================================================
