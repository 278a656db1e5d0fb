-------------------------- MODULE SchedulerProofs ---------------------------
(***************************************************************************)
(* The invariants of Scheduler, for any jobs, any timeouts and any number  *)
(* of additions and removals.  None of them is inductive.  Four things are *)
(* added to them:                                                          *)
(*                                                                         *)
(*   Linked    what the maps, the runs and the operation that holds        *)
(*             Runner.mu refer to: timeouts that exist, of the right job;  *)
(*   Stopping  how the progress of Stop and the state of the timer match;  *)
(*   Bounded   an addition under way has a chain in reserve;               *)
(*   Phases    where the live timeout of an untangled job is in each phase *)
(*             of its additions and removals, and during Stop.             *)
(*                                                                         *)
(* From the same invariant: the jobs use the timer as Timer lets them, and *)
(* the counters of the dispatcher add up.                                  *)
(***************************************************************************)
EXTENDS Scheduler, FiniteSetTheorems, TLAPS

Adds == {"new", "store", "info"}
Removes == {"lookup", "cancel", "forget"}
Ends == {"done", "failed", "panicked"}

\* The types of what the chains depend on.
Typed ==
  /\ state \in [Timeouts -> {"none", "nil", "pending", "launched"}]
  /\ cancelled \in [Timeouts -> BOOLEAN]
  /\ timer \in {"idle", "running", "halting", "stopping", "stopped"}
  /\ jobOf \in [Timeouts -> Jobs \cup {None}]
  /\ runPc \in [Timeouts -> InFlight \cup Ends \cup {"none"}]
  /\ next \in [Timeouts -> Timeouts \cup {None}]
  /\ op \in [at : {"idle"} \cup Adds \cup Removes,
             job : Jobs \cup {None}, timeout : Timeouts \cup {None}]
  /\ runningJobs \subseteq Jobs
  /\ cyclicTasks \in [Jobs -> Timeouts \cup {None}]
  /\ tempTasks \in [Jobs -> Timeouts \cup {None}]
  /\ stopPc \in {"none", "range", "wheel", "waiting", "returned", "closed"}
  /\ stopTodo \subseteq Jobs
  /\ added \in [Jobs -> Nat]
  /\ tangled \subseteq Jobs

\* The types of the rest.
Counted ==
  /\ jobInfos \subseteq Jobs
  /\ started \in BOOLEAN
  /\ stats \in [executed : Nat, completed : Nat, failed : Nat]
  /\ load \in Loads
  /\ removed \in [Jobs -> Nat]
  /\ \A j \in Jobs : added[j] <= load.ops[j] /\ removed[j] <= load.ops[j]
  /\ crashed \in BOOLEAN

\* A timeout that NewTimeout returned for job j.
TimeoutOf(t, j) == t \in Timeouts /\ state[t] # "none" /\ jobOf[t] = j

Linked ==
  /\ \A t \in Timeouts :
       /\ (state[t] = "none") <=> (jobOf[t] = None)
       /\ state[t] = "none" => ~cancelled[t]
       /\ (runPc[t] = "none") <=> (state[t] # "launched")
       /\ runPc[t] \in {"renew", "restore"} => jobOf[t] \in Repeating
       /\ runPc[t] = "restore" => TimeoutOf(next[t], jobOf[t])
  /\ \A j \in Jobs :
       /\ cyclicTasks[j] # None => j \in Cyclic /\ TimeoutOf(cyclicTasks[j], j)
       /\ tempTasks[j] # None => j \notin Cyclic /\ TimeoutOf(tempTasks[j], j)
  /\ (op.at = "idle") <=> (op.job = None)
  /\ op.at \in {"store", "info", "cancel", "forget"} => TimeoutOf(op.timeout, op.job)
  /\ op.at \in Adds => op.job \in runningJobs
  /\ op.at \in Removes => op.job \notin runningJobs

\* Timeouts are nil, and a nil timeout is cancelled, only after the timer was stopped.
Stopping ==
  /\ timer \in {"stopping", "stopped"} <=> stopPc \in {"waiting", "returned", "closed"}
  /\ \A t \in Timeouts : state[t] = "nil" => timer \in {"stopping", "stopped"}
  /\ crashed => \E t \in Timeouts : state[t] = "nil"

Created == {t \in Timeouts : state[t] # "none"}

\* AddJob has been counted when its timeout does not exist yet.
Bounded ==
  /\ IsFiniteSet(Created)
  /\ \A j \in Jobs :
       /\ Cardinality(Chains(j)) <= added[j]
       /\ op.at = "new" /\ op.job = j => Cardinality(Chains(j)) < added[j]

\* NeverLost, from the moment AddJob has the timeout on.
Kept ==
  \A j \in Repeating :
    (/\ j \in runningJobs
     /\ op.job = j => op.at # "new"
     /\ stopPc = "none"
     /\ \A t \in Timeouts : jobOf[t] = j => runPc[t] \notin {"failed", "panicked"})
       => Chains(j) # {}

\* What a run is about to store is the live timeout of its job.
Restores(j) ==
  \A r \in Timeouts : runPc[r] = "restore" /\ jobOf[r] = j => next[r] \in Pending(j)

\* One chain; its timeout is in the map or a run is about to store it there.
Scheduled(j) ==
  /\ \A s, t \in Chains(j) : s = t
  /\ \A t \in Pending(j) :
       task(j) = t \/ \E r \in Timeouts : runPc[r] = "restore" /\ next[r] = t

\* RemoveJob finds the live timeout, then it holds it, then there is none.
BeingRemoved(j) ==
  /\ RunsInFlight(j) = {}
  /\ \A t \in Pending(j) : \/ op.at = "lookup" /\ task(j) = t
                           \/ op.at = "cancel" /\ op.timeout = t

\* Stop has yet to find the live timeout, unless RemoveJob did.
BeingStopped(j) ==
  /\ RunsInFlight(j) = {}
  /\ op.job = j => op.at \in Removes
  /\ \A t \in Pending(j) : \/ stopPc = "range" /\ j \in stopTodo /\ task(j) = t
                           \/ op.job = j /\ op.at = "cancel" /\ op.timeout = t

Untangled(j) ==
  /\ Restores(j)
  /\ stopPc = "none" =>
       /\ op.job = j /\ op.at = "new" => Chains(j) = {}
       /\ op.job = j /\ op.at = "store" => /\ Chains(j) = {op.timeout}
                                            /\ op.timeout \in Pending(j)
       /\ op.job = j /\ op.at \in Removes => BeingRemoved(j)
       /\ j \in runningJobs /\ (op.job = j => op.at = "info") => Scheduled(j)
       /\ j \notin runningJobs /\ op.job # j => Chains(j) = {}
  /\ stopPc # "none" => BeingStopped(j)

Phases == \A j \in Jobs \ tangled : Untangled(j)

IInv == Typed /\ Counted /\ Linked /\ Stopping /\ Bounded /\ Kept /\ Phases

-----------------------------------------------------------------------------

USE SchedulerAssumption DEF timerVars, runVars, mapVars, stopVars, opVars

\* The initial states satisfy the invariant.
LEMMA InitIInv == Init => IInv
<1> SUFFICES ASSUME Init PROVE IInv
  BY Zenon
<1> USE DEF Init, T!Init, NoOp
<1>1. Typed
  BY Zenon DEF Typed, Adds, Removes, Ends, InFlight
<1>2. Counted
  <2>1. \A j \in Jobs : load.ops[j] \in Nat
    BY Zenon
  <2>2. \A j \in Jobs : added[j] <= load.ops[j] /\ removed[j] <= load.ops[j]
    BY <2>1
  <2>3. stats \in [executed : Nat, completed : Nat, failed : Nat]
    BY Zenon
  <2> QED
    BY <2>2, <2>3, Zenon DEF Counted
<1>3. Linked /\ Stopping
  BY Zenon DEF Linked, Stopping, Adds, Removes
<1>4. Bounded
  <2>1. Created = {} /\ \A j \in Jobs : Chains(j) = {}
    BY Zenon DEF Created, Chains, Pending
  <2>2. IsFiniteSet({}) /\ Cardinality({}) = 0
    BY FS_EmptySet, Zenon
  <2>3. op.at # "new" /\ \A j \in Jobs : added[j] = 0
    BY Zenon
  <2>4. Cardinality({}) <= 0
    BY <2>2
  <2> QED
    BY <2>1, <2>2, <2>3, <2>4, Zenon DEF Bounded
<1>5. Kept /\ Phases
  BY Zenon DEF Kept, Phases, Untangled, Restores, Chains, Pending, Removes
<1> QED
  BY <1>1, <1>2, <1>3, <1>4, <1>5, Zenon DEF IInv

\* Timeout.Cancel keeps the flags Boolean.
LEMMA CancelTyped ==
  ASSUME NEW S, NEW f \in [S -> BOOLEAN], NEW x, NEW g,
         g = f \/ g = [f EXCEPT ![x] = TRUE]
  PROVE  g \in [S -> BOOLEAN]
BY Zenon

\* What RemoveJob takes from the map it finds the job in.
LEMMA Found ==
  ASSUME Typed, RemoveLoadAndDelete
  PROVE  /\ cyclicTasks[op.job] # None =>
              op' = [at |-> "cancel", job |-> op.job, timeout |-> cyclicTasks[op.job]]
         /\ cyclicTasks[op.job] = None /\ tempTasks[op.job] # None =>
              op' = [at |-> "cancel", job |-> op.job, timeout |-> tempTasks[op.job]]
<1>1. op = [at |-> op.at, job |-> op.job, timeout |-> op.timeout]
  BY Zenon DEF Typed
<1>2. /\ cyclicTasks[op.job] # None =>
           op' = [op EXCEPT !.at = "cancel", !.timeout = cyclicTasks[op.job]]
      /\ cyclicTasks[op.job] = None /\ tempTasks[op.job] # None =>
           op' = [op EXCEPT !.at = "cancel", !.timeout = tempTasks[op.job]]
  BY Zenon DEF RemoveLoadAndDelete
<1> QED
  BY <1>1, <1>2, Zenon

\* While a job is not tangled, every step leads from a phase of its life to the next.
LEMMA PhasesStep == Typed /\ Linked /\ Stopping /\ Phases /\ [Next]_vars => Phases'
<1> SUFFICES ASSUME Typed, Linked, Stopping, Phases, [Next]_vars PROVE Phases'
  BY Zenon
<1> USE DEF Typed, Adds, Removes, Ends, InFlight, Linked, TimeoutOf, Stopping,
     Chains, Pending, Untangled, Restores, Scheduled, BeingRemoved, BeingStopped,
     RunsInFlight, task, Phases
<1>1. ASSUME NEW j \in Jobs, AddBegin(j) PROVE Phases'
  BY <1>1 DEF AddBegin
<1>2. ASSUME NEW t \in Timeouts, AddNewTimeout(t) PROVE Phases'
  BY <1>2 DEF AddNewTimeout, NewTimeout, T!New
<1>3. ASSUME AddStoreTask PROVE Phases'
  BY <1>3 DEF AddStoreTask
<1>4. ASSUME AddStoreInfo PROVE Phases'
  BY <1>4 DEF AddStoreInfo, NoOp
<1>5. ASSUME NEW j \in Jobs, RemoveBegin(j) PROVE Phases'
  BY <1>5 DEF RemoveBegin
<1>6. ASSUME RemoveLoadAndDelete PROVE Phases'
  <2>1. CASE cyclicTasks[op.job] # None
    <3>1. /\ op' = [at |-> "cancel", job |-> op.job, timeout |-> cyclicTasks[op.job]]
          /\ cyclicTasks' = [cyclicTasks EXCEPT ![op.job] = None]
          /\ tempTasks' = tempTasks
      BY <1>6, <2>1, Found, Zenon DEF RemoveLoadAndDelete
    <3> QED
      BY <1>6, <2>1, <3>1 DEF RemoveLoadAndDelete
  <2>2. CASE cyclicTasks[op.job] = None /\ tempTasks[op.job] # None
    <3>1. /\ op' = [at |-> "cancel", job |-> op.job, timeout |-> tempTasks[op.job]]
          /\ tempTasks' = [tempTasks EXCEPT ![op.job] = None]
          /\ cyclicTasks' = cyclicTasks
      BY <1>6, <2>2, Found, Zenon DEF RemoveLoadAndDelete
    <3> QED
      BY <1>6, <2>2, <3>1 DEF RemoveLoadAndDelete
  <2>3. CASE cyclicTasks[op.job] = None /\ tempTasks[op.job] = None
    BY <1>6, <2>3 DEF RemoveLoadAndDelete, NoOp
  <2> QED
    BY <2>1, <2>2, <2>3, Zenon
<1>7. ASSUME RemoveCancel PROVE Phases'
  BY <1>7, SMTT(20) DEF RemoveCancel, CancelTask, T!Cancel
<1>8. ASSUME RemoveInfo PROVE Phases'
  BY <1>8 DEF RemoveInfo, NoOp
<1>9. ASSUME NEW t \in Timeouts, Launch(t) PROVE Phases'
  BY <1>9 DEF Launch, T!Launch, Unstored, Removing
<1>10. ASSUME NEW t \in Timeouts, RunRecord(t) PROVE Phases'
  BY <1>10 DEF RunRecord
<1>11. ASSUME NEW t \in Timeouts, RunFail(t) PROVE Phases'
  BY <1>11, SMTT(30) DEF RunFail
<1>12. ASSUME NEW t \in Timeouts, RunPanic(t) PROVE Phases'
  BY <1>12 DEF RunPanic
<1>13. ASSUME NEW t \in Timeouts, RunComplete(t) PROVE Phases'
  BY <1>13, SMTT(30) DEF RunComplete, Complete
<1>14. ASSUME NEW t \in Timeouts, NEW u \in Timeouts, RescheduleNewTimeout(t, u)
       PROVE  Phases'
  BY <1>14, SMTT(30) DEF RescheduleNewTimeout, NewTimeout, T!New
<1>15. ASSUME NEW t \in Timeouts, RescheduleStore(t) PROVE Phases'
  BY <1>15, SMTT(30) DEF RescheduleStore
<1>16. ASSUME Start PROVE Phases'
  BY <1>16, SMTT(30) DEF Start, T!Start
<1>17. ASSUME ContextDone PROVE Phases'
  BY <1>17, SMTT(30) DEF ContextDone, T!Halt
<1>18. ASSUME StopBegin PROVE Phases'
  BY <1>18, SMTT(30) DEF StopBegin
<1>19. ASSUME NEW j \in Jobs, StopCancel(j) PROVE Phases'
  BY <1>19, SMTT(30) DEF StopCancel, CancelTask, T!Cancel, task
<1>20. ASSUME StopClear PROVE Phases'
  BY <1>20, SMTT(30) DEF StopClear
<1>21. ASSUME StopWheel PROVE Phases'
  BY <1>21 DEF StopWheel, T!StopBegin
<1>22. ASSUME StopReturn PROVE Phases'
  BY <1>22, SMTT(30) DEF StopReturn, T!StopReturn
<1>23. ASSUME CloseClear PROVE Phases'
  BY <1>23, SMTT(30) DEF CloseClear
<1>24. CASE UNCHANGED vars
  BY <1>24 DEF vars
<1> QED
  BY <1>1, <1>2, <1>3, <1>4, <1>5, <1>6, <1>7, <1>8, <1>9, <1>10, <1>11, <1>12,
     <1>13, <1>14, <1>15, <1>16, <1>17, <1>18, <1>19, <1>20, <1>21, <1>22, <1>23,
     <1>24, Zenon DEF Next, Operation, Run, StopSteps

\* Every step keeps the types.
LEMMA TypedStep == Typed /\ Linked /\ [Next]_vars => Typed'
<1> SUFFICES ASSUME Typed, Linked, [Next]_vars PROVE Typed'
  BY Zenon
<1> USE DEF Typed, Adds, Removes, Ends, InFlight, Linked, TimeoutOf
<1>1. ASSUME NEW j \in Jobs, AddBegin(j) PROVE Typed'
  BY <1>1 DEF AddBegin
<1>2. ASSUME NEW t \in Timeouts, AddNewTimeout(t) PROVE Typed'
  BY <1>2, Zenon DEF AddNewTimeout, NewTimeout, T!New
<1>3. ASSUME AddStoreTask PROVE Typed'
  BY <1>3 DEF AddStoreTask
<1>4. ASSUME AddStoreInfo PROVE Typed'
  BY <1>4, Zenon DEF AddStoreInfo, NoOp
<1>5. ASSUME NEW j \in Jobs, RemoveBegin(j) PROVE Typed'
  BY <1>5 DEF RemoveBegin
<1>6. ASSUME RemoveLoadAndDelete PROVE Typed'
  <2>1. CASE cyclicTasks[op.job] # None
    <3>1. /\ op' = [at |-> "cancel", job |-> op.job, timeout |-> cyclicTasks[op.job]]
          /\ cyclicTasks' = [cyclicTasks EXCEPT ![op.job] = None]
          /\ tempTasks' = tempTasks
      BY <1>6, <2>1, Found, Zenon DEF RemoveLoadAndDelete
    <3> QED
      BY <1>6, <2>1, <3>1, Zenon DEF RemoveLoadAndDelete
  <2>2. CASE cyclicTasks[op.job] = None /\ tempTasks[op.job] # None
    <3>1. /\ op' = [at |-> "cancel", job |-> op.job, timeout |-> tempTasks[op.job]]
          /\ tempTasks' = [tempTasks EXCEPT ![op.job] = None]
          /\ cyclicTasks' = cyclicTasks
      BY <1>6, <2>2, Found, Zenon DEF RemoveLoadAndDelete
    <3> QED
      BY <1>6, <2>2, <3>1 DEF RemoveLoadAndDelete
  <2>3. CASE cyclicTasks[op.job] = None /\ tempTasks[op.job] = None
    BY <1>6, <2>3 DEF RemoveLoadAndDelete, NoOp
  <2> QED
    BY <2>1, <2>2, <2>3, Zenon
<1>7. ASSUME RemoveCancel PROVE Typed'
  <2>1. op.timeout \in Timeouts
    BY <1>7, Zenon DEF RemoveCancel, Linked, TimeoutOf
  <2>2. op' = [op EXCEPT !.at = "forget"]
    BY <1>7, Zenon DEF RemoveCancel
  <2>3. cancelled' = cancelled \/ cancelled' = [cancelled EXCEPT ![op.timeout] = TRUE]
    BY <1>7, Zenon DEF RemoveCancel, CancelTask, T!Cancel
  <2>4. cancelled' \in [Timeouts -> BOOLEAN]
    BY <2>3, CancelTyped, Zenon
  <2> QED
    BY <1>7, <2>2, <2>4 DEF RemoveCancel, CancelTask, T!Cancel
<1>8. ASSUME RemoveInfo PROVE Typed'
  BY <1>8, Zenon DEF RemoveInfo, NoOp
<1>9. ASSUME NEW t \in Timeouts, Launch(t) PROVE Typed'
  BY <1>9 DEF Launch, T!Launch
<1>10. ASSUME NEW t \in Timeouts, RunRecord(t) PROVE Typed'
  BY <1>10, Zenon DEF RunRecord
<1>11. ASSUME NEW t \in Timeouts, RunFail(t) PROVE Typed'
  BY <1>11, Zenon DEF RunFail
<1>12. ASSUME NEW t \in Timeouts, RunPanic(t) PROVE Typed'
  BY <1>12, Zenon DEF RunPanic
<1>13. ASSUME NEW t \in Timeouts, RunComplete(t) PROVE Typed'
  BY <1>13, Zenon DEF RunComplete, Complete
<1>14. ASSUME NEW t \in Timeouts, NEW u \in Timeouts, RescheduleNewTimeout(t, u)
       PROVE  Typed'
  BY <1>14, Zenon DEF RescheduleNewTimeout, NewTimeout, T!New
<1>15. ASSUME NEW t \in Timeouts, RescheduleStore(t) PROVE Typed'
  BY <1>15 DEF RescheduleStore
<1>16. ASSUME Start PROVE Typed'
  BY <1>16, Zenon DEF Start, T!Start
<1>17. ASSUME ContextDone PROVE Typed'
  BY <1>17, Zenon DEF ContextDone, T!Halt
<1>18. ASSUME StopBegin PROVE Typed'
  BY <1>18, Zenon DEF StopBegin
<1>19. ASSUME NEW j \in Jobs, StopCancel(j) PROVE Typed'
  <2>1. task(j) # None => task(j) \in Timeouts
    BY Zenon DEF task
  <2>2. cancelled' = cancelled \/ cancelled' = [cancelled EXCEPT ![task(j)] = TRUE]
    BY <1>19, Zenon DEF StopCancel, CancelTask, T!Cancel
  <2>3. cancelled' \in [Timeouts -> BOOLEAN]
    BY <2>2, CancelTyped, Zenon
  <2> QED
    BY <1>19, <2>3 DEF StopCancel, CancelTask, T!Cancel
<1>20. ASSUME StopClear PROVE Typed'
  BY <1>20, Zenon DEF StopClear
<1>21. ASSUME StopWheel PROVE Typed'
  BY <1>21, Zenon DEF StopWheel, T!StopBegin
<1>22. ASSUME StopReturn PROVE Typed'
  BY <1>22, Zenon DEF StopReturn, T!StopReturn
<1>23. ASSUME CloseClear PROVE Typed'
  BY <1>23, Zenon DEF CloseClear
<1>24. CASE UNCHANGED vars
  BY <1>24, Zenon DEF vars
<1> QED
  BY <1>1, <1>2, <1>3, <1>4, <1>5, <1>6, <1>7, <1>8, <1>9, <1>10, <1>11, <1>12,
     <1>13, <1>14, <1>15, <1>16, <1>17, <1>18, <1>19, <1>20, <1>21, <1>22, <1>23,
     <1>24, Zenon DEF Next, Operation, Run, StopSteps

\* ... also those of the rest.
LEMMA CountedStep == Typed /\ Linked /\ Counted /\ [Next]_vars => Counted'
<1> SUFFICES ASSUME Typed, Linked, Counted, [Next]_vars PROVE Counted'
  BY Zenon
<1> USE DEF Typed, Adds, Removes, Ends, InFlight, Linked, Counted
<1>1. ASSUME NEW j \in Jobs, AddBegin(j) PROVE Counted'
  BY <1>1 DEF AddBegin
<1>2. ASSUME NEW t \in Timeouts, AddNewTimeout(t) PROVE Counted'
  BY <1>2, Zenon DEF AddNewTimeout, NewTimeout, T!New
<1>3. ASSUME AddStoreTask PROVE Counted'
  BY <1>3, Zenon DEF AddStoreTask
<1>4. ASSUME AddStoreInfo PROVE Counted'
  BY <1>4 DEF AddStoreInfo, NoOp
<1>5. ASSUME NEW j \in Jobs, RemoveBegin(j) PROVE Counted'
  BY <1>5 DEF RemoveBegin
<1>6. ASSUME RemoveLoadAndDelete PROVE Counted'
  BY <1>6, Zenon DEF RemoveLoadAndDelete, NoOp
<1>7. ASSUME RemoveCancel PROVE Counted'
  BY <1>7, Zenon DEF RemoveCancel, CancelTask, T!Cancel
<1>8. ASSUME RemoveInfo PROVE Counted'
  BY <1>8, Zenon DEF RemoveInfo, NoOp
<1>9. ASSUME NEW t \in Timeouts, Launch(t) PROVE Counted'
  BY <1>9, Zenon DEF Launch, T!Launch
<1>10. ASSUME NEW t \in Timeouts, RunRecord(t) PROVE Counted'
  BY <1>10 DEF RunRecord
<1>11. ASSUME NEW t \in Timeouts, RunFail(t) PROVE Counted'
  BY <1>11 DEF RunFail
<1>12. ASSUME NEW t \in Timeouts, RunPanic(t) PROVE Counted'
  BY <1>12, Zenon DEF RunPanic
<1>13. ASSUME NEW t \in Timeouts, RunComplete(t) PROVE Counted'
  BY <1>13 DEF RunComplete, Complete
<1>14. ASSUME NEW t \in Timeouts, NEW u \in Timeouts, RescheduleNewTimeout(t, u)
       PROVE  Counted'
  BY <1>14, Zenon DEF RescheduleNewTimeout, NewTimeout, T!New
<1>15. ASSUME NEW t \in Timeouts, RescheduleStore(t) PROVE Counted'
  BY <1>15, Zenon DEF RescheduleStore
<1>16. ASSUME Start PROVE Counted'
  BY <1>16, Zenon DEF Start, T!Start
<1>17. ASSUME ContextDone PROVE Counted'
  BY <1>17, Zenon DEF ContextDone, T!Halt
<1>18. ASSUME StopBegin PROVE Counted'
  BY <1>18, Zenon DEF StopBegin
<1>19. ASSUME NEW j \in Jobs, StopCancel(j) PROVE Counted'
  BY <1>19, Zenon DEF StopCancel, CancelTask, T!Cancel, task
<1>20. ASSUME StopClear PROVE Counted'
  BY <1>20, Zenon DEF StopClear
<1>21. ASSUME StopWheel PROVE Counted'
  BY <1>21, Zenon DEF StopWheel, T!StopBegin
<1>22. ASSUME StopReturn PROVE Counted'
  BY <1>22, Zenon DEF StopReturn, T!StopReturn
<1>23. ASSUME CloseClear PROVE Counted'
  BY <1>23, Zenon DEF CloseClear
<1>24. CASE UNCHANGED vars
  BY <1>24, Zenon DEF vars
<1> QED
  BY <1>1, <1>2, <1>3, <1>4, <1>5, <1>6, <1>7, <1>8, <1>9, <1>10, <1>11, <1>12,
     <1>13, <1>14, <1>15, <1>16, <1>17, <1>18, <1>19, <1>20, <1>21, <1>22, <1>23,
     <1>24, Zenon DEF Next, Operation, Run, StopSteps

\* Every step keeps the references between maps, runs and operation intact.
LEMMA LinkedStep == Typed /\ Linked /\ [Next]_vars => Linked'
<1> SUFFICES ASSUME Typed, Linked, [Next]_vars PROVE Linked'
  BY Zenon
<1> USE DEF Typed, Adds, Removes, Ends, InFlight, Linked, TimeoutOf
<1>1. ASSUME NEW j \in Jobs, AddBegin(j) PROVE Linked'
  BY <1>1, Zenon DEF AddBegin
<1>2. ASSUME NEW t \in Timeouts, AddNewTimeout(t) PROVE Linked'
  BY <1>2 DEF AddNewTimeout, NewTimeout, T!New
<1>3. ASSUME AddStoreTask PROVE Linked'
  BY <1>3 DEF AddStoreTask
<1>4. ASSUME AddStoreInfo PROVE Linked'
  BY <1>4, Zenon DEF AddStoreInfo, NoOp
<1>5. ASSUME NEW j \in Jobs, RemoveBegin(j) PROVE Linked'
  BY <1>5, Zenon DEF RemoveBegin
<1>6. ASSUME RemoveLoadAndDelete PROVE Linked'
  <2>1. CASE cyclicTasks[op.job] # None
    <3>1. /\ op' = [at |-> "cancel", job |-> op.job, timeout |-> cyclicTasks[op.job]]
          /\ cyclicTasks' = [cyclicTasks EXCEPT ![op.job] = None]
          /\ tempTasks' = tempTasks
      BY <1>6, <2>1, Found, Zenon DEF RemoveLoadAndDelete
    <3> QED
      BY <1>6, <2>1, <3>1 DEF RemoveLoadAndDelete
  <2>2. CASE cyclicTasks[op.job] = None /\ tempTasks[op.job] # None
    <3>1. /\ op' = [at |-> "cancel", job |-> op.job, timeout |-> tempTasks[op.job]]
          /\ tempTasks' = [tempTasks EXCEPT ![op.job] = None]
          /\ cyclicTasks' = cyclicTasks
      BY <1>6, <2>2, Found, Zenon DEF RemoveLoadAndDelete
    <3> QED
      BY <1>6, <2>2, <3>1 DEF RemoveLoadAndDelete
  <2>3. CASE cyclicTasks[op.job] = None /\ tempTasks[op.job] = None
    BY <1>6, <2>3 DEF RemoveLoadAndDelete, NoOp
  <2> QED
    BY <2>1, <2>2, <2>3, Zenon
<1>7. ASSUME RemoveCancel PROVE Linked'
  BY <1>7 DEF RemoveCancel, CancelTask, T!Cancel
<1>8. ASSUME RemoveInfo PROVE Linked'
  BY <1>8, Zenon DEF RemoveInfo, NoOp
<1>9. ASSUME NEW t \in Timeouts, Launch(t) PROVE Linked'
  BY <1>9 DEF Launch, T!Launch
<1>10. ASSUME NEW t \in Timeouts, RunRecord(t) PROVE Linked'
  BY <1>10 DEF RunRecord
<1>11. ASSUME NEW t \in Timeouts, RunFail(t) PROVE Linked'
  BY <1>11 DEF RunFail
<1>12. ASSUME NEW t \in Timeouts, RunPanic(t) PROVE Linked'
  BY <1>12 DEF RunPanic
<1>13. ASSUME NEW t \in Timeouts, RunComplete(t) PROVE Linked'
  BY <1>13 DEF RunComplete, Complete
<1>14. ASSUME NEW t \in Timeouts, NEW u \in Timeouts, RescheduleNewTimeout(t, u)
       PROVE  Linked'
  BY <1>14 DEF RescheduleNewTimeout, NewTimeout, T!New
<1>15. ASSUME NEW t \in Timeouts, RescheduleStore(t) PROVE Linked'
  BY <1>15 DEF RescheduleStore
<1>16. ASSUME Start PROVE Linked'
  BY <1>16, Zenon DEF Start, T!Start
<1>17. ASSUME ContextDone PROVE Linked'
  BY <1>17, Zenon DEF ContextDone, T!Halt
<1>18. ASSUME StopBegin PROVE Linked'
  BY <1>18, Zenon DEF StopBegin
<1>19. ASSUME NEW j \in Jobs, StopCancel(j) PROVE Linked'
  BY <1>19 DEF StopCancel, CancelTask, T!Cancel, task
<1>20. ASSUME StopClear PROVE Linked'
  BY <1>20, Zenon DEF StopClear
<1>21. ASSUME StopWheel PROVE Linked'
  BY <1>21, Zenon DEF StopWheel, T!StopBegin
<1>22. ASSUME StopReturn PROVE Linked'
  BY <1>22, Zenon DEF StopReturn, T!StopReturn
<1>23. ASSUME CloseClear PROVE Linked'
  BY <1>23, Zenon DEF CloseClear
<1>24. CASE UNCHANGED vars
  BY <1>24, Zenon DEF vars
<1> QED
  BY <1>1, <1>2, <1>3, <1>4, <1>5, <1>6, <1>7, <1>8, <1>9, <1>10, <1>11, <1>12,
     <1>13, <1>14, <1>15, <1>16, <1>17, <1>18, <1>19, <1>20, <1>21, <1>22, <1>23,
     <1>24, Zenon DEF Next, Operation, Run, StopSteps

\* Nil timeouts, and a crash, come only after Stop has stopped the timer.
LEMMA StoppingStep == Typed /\ Linked /\ Stopping /\ [Next]_vars => Stopping'
<1> SUFFICES ASSUME Typed, Linked, Stopping, [Next]_vars PROVE Stopping'
  BY Zenon
<1> USE DEF Typed, Adds, Removes, Ends, InFlight, Linked, TimeoutOf, Stopping
<1>1. ASSUME NEW j \in Jobs, AddBegin(j) PROVE Stopping'
  BY <1>1, Zenon DEF AddBegin
<1>2. ASSUME NEW t \in Timeouts, AddNewTimeout(t) PROVE Stopping'
  BY <1>2 DEF AddNewTimeout, NewTimeout, T!New
<1>3. ASSUME AddStoreTask PROVE Stopping'
  BY <1>3, Zenon DEF AddStoreTask
<1>4. ASSUME AddStoreInfo PROVE Stopping'
  BY <1>4, Zenon DEF AddStoreInfo, NoOp
<1>5. ASSUME NEW j \in Jobs, RemoveBegin(j) PROVE Stopping'
  BY <1>5, Zenon DEF RemoveBegin
<1>6. ASSUME RemoveLoadAndDelete PROVE Stopping'
  BY <1>6, Zenon DEF RemoveLoadAndDelete, NoOp
<1>7. ASSUME RemoveCancel PROVE Stopping'
  <2>1. op.timeout \in Timeouts
    BY <1>7, Zenon DEF RemoveCancel
  <2>2. crashed' => state[op.timeout] = "nil"
    BY <1>7, Zenon DEF RemoveCancel, CancelTask
  <2> QED
    BY <1>7, <2>1, <2>2 DEF RemoveCancel, CancelTask, T!Cancel
<1>8. ASSUME RemoveInfo PROVE Stopping'
  BY <1>8, Zenon DEF RemoveInfo, NoOp
<1>9. ASSUME NEW t \in Timeouts, Launch(t) PROVE Stopping'
  BY <1>9 DEF Launch, T!Launch
<1>10. ASSUME NEW t \in Timeouts, RunRecord(t) PROVE Stopping'
  BY <1>10, Zenon DEF RunRecord
<1>11. ASSUME NEW t \in Timeouts, RunFail(t) PROVE Stopping'
  BY <1>11, Zenon DEF RunFail
<1>12. ASSUME NEW t \in Timeouts, RunPanic(t) PROVE Stopping'
  BY <1>12, Zenon DEF RunPanic
<1>13. ASSUME NEW t \in Timeouts, RunComplete(t) PROVE Stopping'
  BY <1>13, Zenon DEF RunComplete, Complete
<1>14. ASSUME NEW t \in Timeouts, NEW u \in Timeouts, RescheduleNewTimeout(t, u)
       PROVE  Stopping'
  BY <1>14 DEF RescheduleNewTimeout, NewTimeout, T!New
<1>15. ASSUME NEW t \in Timeouts, RescheduleStore(t) PROVE Stopping'
  BY <1>15, Zenon DEF RescheduleStore
<1>16. ASSUME Start PROVE Stopping'
  BY <1>16, Zenon DEF Start, T!Start
<1>17. ASSUME ContextDone PROVE Stopping'
  BY <1>17, Zenon DEF ContextDone, T!Halt
<1>18. ASSUME StopBegin PROVE Stopping'
  BY <1>18, Zenon DEF StopBegin
<1>19. ASSUME NEW j \in Jobs, StopCancel(j) PROVE Stopping'
  BY <1>19, ZenonT(60) DEF StopCancel, CancelTask, T!Cancel, task
<1>20. ASSUME StopClear PROVE Stopping'
  BY <1>20, Zenon DEF StopClear
<1>21. ASSUME StopWheel PROVE Stopping'
  BY <1>21, Zenon DEF StopWheel, T!StopBegin
<1>22. ASSUME StopReturn PROVE Stopping'
  BY <1>22, Zenon DEF StopReturn, T!StopReturn
<1>23. ASSUME CloseClear PROVE Stopping'
  BY <1>23, Zenon DEF CloseClear
<1>24. CASE UNCHANGED vars
  BY <1>24, Zenon DEF vars
<1> QED
  BY <1>1, <1>2, <1>3, <1>4, <1>5, <1>6, <1>7, <1>8, <1>9, <1>10, <1>11, <1>12,
     <1>13, <1>14, <1>15, <1>16, <1>17, <1>18, <1>19, <1>20, <1>21, <1>22, <1>23,
     <1>24, Zenon DEF Next, Operation, Run, StopSteps

\* A step loses no chain of a job that stays scheduled.
LEMMA KeptStep == Typed /\ Linked /\ Stopping /\ Kept /\ [Next]_vars => Kept'
<1> SUFFICES ASSUME Typed, Linked, Stopping, Kept, [Next]_vars PROVE Kept'
  BY Zenon
<1> USE DEF Typed, Adds, Removes, Ends, InFlight, Linked, TimeoutOf, Stopping, Kept,
     Chains, Pending
<1>1. ASSUME NEW j \in Jobs, AddBegin(j) PROVE Kept'
  BY <1>1 DEF AddBegin
<1>2. ASSUME NEW t \in Timeouts, AddNewTimeout(t) PROVE Kept'
  BY <1>2 DEF AddNewTimeout, NewTimeout, T!New
<1>3. ASSUME AddStoreTask PROVE Kept'
  BY <1>3 DEF AddStoreTask
<1>4. ASSUME AddStoreInfo PROVE Kept'
  BY <1>4, SMTT(30) DEF AddStoreInfo, NoOp
<1>5. ASSUME NEW j \in Jobs, RemoveBegin(j) PROVE Kept'
  BY <1>5 DEF RemoveBegin
<1>6. ASSUME RemoveLoadAndDelete PROVE Kept'
  BY <1>6 DEF RemoveLoadAndDelete, NoOp
<1>7. ASSUME RemoveCancel PROVE Kept'
  BY <1>7 DEF RemoveCancel, CancelTask, T!Cancel
<1>8. ASSUME RemoveInfo PROVE Kept'
  BY <1>8 DEF RemoveInfo, NoOp
<1>9. ASSUME NEW t \in Timeouts, Launch(t) PROVE Kept'
  BY <1>9 DEF Launch, T!Launch
<1>10. ASSUME NEW t \in Timeouts, RunRecord(t) PROVE Kept'
  BY <1>10 DEF RunRecord
<1>11. ASSUME NEW t \in Timeouts, RunFail(t) PROVE Kept'
  BY <1>11 DEF RunFail
<1>12. ASSUME NEW t \in Timeouts, RunPanic(t) PROVE Kept'
  BY <1>12 DEF RunPanic
<1>13. ASSUME NEW t \in Timeouts, RunComplete(t) PROVE Kept'
  BY <1>13 DEF RunComplete, Complete
<1>14. ASSUME NEW t \in Timeouts, NEW u \in Timeouts, RescheduleNewTimeout(t, u)
       PROVE  Kept'
  BY <1>14 DEF RescheduleNewTimeout, NewTimeout, T!New
<1>15. ASSUME NEW t \in Timeouts, RescheduleStore(t) PROVE Kept'
  BY <1>15 DEF RescheduleStore
<1>16. ASSUME Start PROVE Kept'
  BY <1>16 DEF Start, T!Start
<1>17. ASSUME ContextDone PROVE Kept'
  BY <1>17 DEF ContextDone, T!Halt
<1>18. ASSUME StopBegin PROVE Kept'
  BY <1>18, Zenon DEF StopBegin
<1>19. ASSUME NEW j \in Jobs, StopCancel(j) PROVE Kept'
  BY <1>19, Zenon DEF StopCancel, CancelTask, T!Cancel, task
<1>20. ASSUME StopClear PROVE Kept'
  BY <1>20, Zenon DEF StopClear
<1>21. ASSUME StopWheel PROVE Kept'
  BY <1>21, Zenon DEF StopWheel, T!StopBegin
<1>22. ASSUME StopReturn PROVE Kept'
  BY <1>22, Zenon DEF StopReturn, T!StopReturn
<1>23. ASSUME CloseClear PROVE Kept'
  BY <1>23, Zenon DEF CloseClear
<1>24. CASE UNCHANGED vars
  BY <1>24 DEF vars
<1> QED
  BY <1>1, <1>2, <1>3, <1>4, <1>5, <1>6, <1>7, <1>8, <1>9, <1>10, <1>11, <1>12,
     <1>13, <1>14, <1>15, <1>16, <1>17, <1>18, <1>19, <1>20, <1>21, <1>22, <1>23,
     <1>24, Zenon DEF Next, Operation, Run, StopSteps

\* What a step may do to the chains of job j and to the count of its additions:
\* nothing or an end of some, AddJob counting itself, AddJob creating its timeout, or a
\* run handing over to the timeout it creates.
ChainStep(j) ==
  \/ /\ Chains(j)' \subseteq Chains(j)
     /\ added'[j] = added[j]
     /\ (op.at = "new" /\ op.job = j)' => op.at = "new" /\ op.job = j
  \/ /\ Chains(j)' \subseteq Chains(j)
     /\ added'[j] = added[j] + 1
  \/ /\ op.at = "new" /\ op.job = j /\ op'.at # "new"
     /\ added'[j] = added[j]
     /\ \E t \in Timeouts : Chains(j)' \subseteq Chains(j) \cup {t}
  \/ /\ added'[j] = added[j]
     /\ op' = op
     /\ \E t \in Chains(j), u \in Timeouts : Chains(j)' \subseteq (Chains(j) \ {t}) \cup {u}

\* No step does more to the chains of a job than ChainStep says.
LEMMA ChainsOfAStep == Typed /\ Linked /\ [Next]_vars => (\A i \in Jobs : ChainStep(i))
<1> SUFFICES ASSUME Typed, Linked, [Next]_vars PROVE (\A i \in Jobs : ChainStep(i))
  BY Zenon
<1> USE DEF Typed, Adds, Removes, Ends, InFlight, Linked, TimeoutOf, Chains, Pending,
     ChainStep
<1>1. ASSUME NEW j \in Jobs, AddBegin(j) PROVE (\A i \in Jobs : ChainStep(i))
  BY <1>1 DEF AddBegin
<1>2. ASSUME NEW t \in Timeouts, AddNewTimeout(t) PROVE (\A i \in Jobs : ChainStep(i))
  BY <1>2 DEF AddNewTimeout, NewTimeout, T!New
<1>3. ASSUME AddStoreTask PROVE (\A i \in Jobs : ChainStep(i))
  BY <1>3 DEF AddStoreTask
<1>4. ASSUME AddStoreInfo PROVE (\A i \in Jobs : ChainStep(i))
  BY <1>4, Zenon DEF AddStoreInfo, NoOp
<1>5. ASSUME NEW j \in Jobs, RemoveBegin(j) PROVE (\A i \in Jobs : ChainStep(i))
  BY <1>5, Zenon DEF RemoveBegin
<1>6. ASSUME RemoveLoadAndDelete PROVE (\A i \in Jobs : ChainStep(i))
  <2>1. op'.at # "new"
    <3>1. CASE cyclicTasks[op.job] # None \/ tempTasks[op.job] # None
      BY <1>6, <3>1, Found
    <3>2. CASE cyclicTasks[op.job] = None /\ tempTasks[op.job] = None
      BY <1>6, <3>2 DEF RemoveLoadAndDelete, NoOp
    <3> QED
      BY <3>1, <3>2, Zenon
  <2> QED
    BY <1>6, <2>1 DEF RemoveLoadAndDelete
<1>7. ASSUME RemoveCancel PROVE (\A i \in Jobs : ChainStep(i))
  BY <1>7 DEF RemoveCancel, CancelTask, T!Cancel
<1>8. ASSUME RemoveInfo PROVE (\A i \in Jobs : ChainStep(i))
  BY <1>8, Zenon DEF RemoveInfo, NoOp
<1>9. ASSUME NEW t \in Timeouts, Launch(t) PROVE (\A i \in Jobs : ChainStep(i))
  BY <1>9 DEF Launch, T!Launch
<1>10. ASSUME NEW t \in Timeouts, RunRecord(t) PROVE (\A i \in Jobs : ChainStep(i))
  BY <1>10 DEF RunRecord
<1>11. ASSUME NEW t \in Timeouts, RunFail(t) PROVE (\A i \in Jobs : ChainStep(i))
  BY <1>11, SMTT(30) DEF RunFail
<1>12. ASSUME NEW t \in Timeouts, RunPanic(t) PROVE (\A i \in Jobs : ChainStep(i))
  BY <1>12 DEF RunPanic
<1>13. ASSUME NEW t \in Timeouts, RunComplete(t) PROVE (\A i \in Jobs : ChainStep(i))
  BY <1>13, SMTT(30) DEF RunComplete, Complete
<1>14. ASSUME NEW t \in Timeouts, NEW u \in Timeouts, RescheduleNewTimeout(t, u)
       PROVE  (\A i \in Jobs : ChainStep(i))
  BY <1>14, SMTT(30) DEF RescheduleNewTimeout, NewTimeout, T!New
<1>15. ASSUME NEW t \in Timeouts,
     RescheduleStore(t) PROVE (\A i \in Jobs : ChainStep(i))
  BY <1>15 DEF RescheduleStore
<1>16. ASSUME Start PROVE (\A i \in Jobs : ChainStep(i))
  BY <1>16, Zenon DEF Start, T!Start
<1>17. ASSUME ContextDone PROVE (\A i \in Jobs : ChainStep(i))
  BY <1>17, Zenon DEF ContextDone, T!Halt
<1>18. ASSUME StopBegin PROVE (\A i \in Jobs : ChainStep(i))
  BY <1>18, Zenon DEF StopBegin
<1>19. ASSUME NEW j \in Jobs, StopCancel(j) PROVE (\A i \in Jobs : ChainStep(i))
  BY <1>19 DEF StopCancel, CancelTask, T!Cancel, task
<1>20. ASSUME StopClear PROVE (\A i \in Jobs : ChainStep(i))
  BY <1>20, Zenon DEF StopClear
<1>21. ASSUME StopWheel PROVE (\A i \in Jobs : ChainStep(i))
  BY <1>21, Zenon DEF StopWheel, T!StopBegin
<1>22. ASSUME StopReturn PROVE (\A i \in Jobs : ChainStep(i))
  BY <1>22, SMTT(30) DEF StopReturn, T!StopReturn
<1>23. ASSUME CloseClear PROVE (\A i \in Jobs : ChainStep(i))
  BY <1>23 DEF CloseClear
<1>24. CASE UNCHANGED vars
  BY <1>24, Zenon DEF vars
<1> QED
  BY <1>1, <1>2, <1>3, <1>4, <1>5, <1>6, <1>7, <1>8, <1>9, <1>10, <1>11, <1>12,
     <1>13, <1>14, <1>15, <1>16, <1>17, <1>18, <1>19, <1>20, <1>21, <1>22, <1>23,
     <1>24, Zenon DEF Next, Operation, Run, StopSteps

\* So the bound on the chains is kept.
LEMMA BoundedStep == Typed /\ Linked /\ Bounded /\ [Next]_vars => Bounded'
<1> SUFFICES ASSUME Typed, Linked, Bounded, [Next]_vars PROVE Bounded'
  BY Zenon
<1>1. IsFiniteSet(Created')
  <2>1. Created' = Created \/ \E t \in Timeouts : Created' = Created \cup {t}
    <3>1. state' = state \/ \E t \in Timeouts, v \in {"nil", "pending", "launched"} :
                              state' = [state EXCEPT ![t] = v]
      BY Zenon DEF Next, Operation, Run, StopSteps, AddBegin, AddNewTimeout, AddStoreTask,
             AddStoreInfo, RemoveBegin, RemoveLoadAndDelete, RemoveCancel, RemoveInfo,
             Launch, RunRecord, RunFail, RunPanic, RunComplete, Complete,
             RescheduleNewTimeout, RescheduleStore, Start, ContextDone, StopBegin,
             StopCancel, StopClear, StopWheel, StopReturn, CloseClear, NewTimeout,
             CancelTask, T!New, T!Cancel, T!Launch, T!Start, T!Halt, T!StopBegin,
             T!StopReturn, vars
    <3> QED
      BY <3>1 DEF Created, Typed
  <2> QED
    BY <2>1, FS_AddElement DEF Bounded
<1>2. ASSUME NEW j \in Jobs
      PROVE  /\ Cardinality(Chains(j))' <= added'[j]
             /\ (op.at = "new" /\ op.job = j)' => Cardinality(Chains(j))' < added'[j]
  <2> DEFINE C == Chains(j)
             D == Chains(j)'
  <2>1. IsFiniteSet(C) /\ Cardinality(C) \in Nat
    <3>1. C \subseteq Created
      BY Zenon DEF Chains, Pending, Created, Typed, Linked
    <3> QED
      BY <3>1, FS_Subset, FS_CardinalityType, Zenon DEF Bounded
  <2>2. Cardinality(C) <= added[j] /\ added[j] \in Nat
    BY Zenon DEF Bounded, Typed
  <2>3. op.at = "new" /\ op.job = j => Cardinality(C) < added[j]
    BY Zenon DEF Bounded
  <2> HIDE DEF C, D
  <2>4. CASE /\ D \subseteq C
             /\ added'[j] = added[j]
             /\ (op.at = "new" /\ op.job = j)' => op.at = "new" /\ op.job = j
    <3>1. Cardinality(D) <= Cardinality(C) /\ Cardinality(D) \in Nat
      BY <2>1, <2>4, FS_Subset, FS_CardinalityType, Zenon
    <3> QED
      BY <2>1, <2>2, <2>3, <2>4, <3>1 DEF D
  <2>5. CASE D \subseteq C /\ added'[j] = added[j] + 1
    <3>1. Cardinality(D) <= Cardinality(C) /\ Cardinality(D) \in Nat
      BY <2>1, <2>5, FS_Subset, FS_CardinalityType, Zenon
    <3> QED
      BY <2>1, <2>2, <2>5, <3>1 DEF D
  <2>6. CASE /\ op.at = "new" /\ op.job = j /\ op'.at # "new"
             /\ added'[j] = added[j]
             /\ \E t \in Timeouts : D \subseteq C \cup {t}
    <3>1. PICK t \in Timeouts : D \subseteq C \cup {t}
      BY <2>6, Zenon
    <3>2. IsFiniteSet(C \cup {t}) /\ Cardinality(C \cup {t}) <= Cardinality(C) + 1
      <4>1. /\ IsFiniteSet(C \cup {t})
            /\ \/ Cardinality(C \cup {t}) = Cardinality(C)
               \/ Cardinality(C \cup {t}) = Cardinality(C) + 1
        BY <2>1, FS_AddElement, Zenon
      <4> QED
        BY <2>1, <4>1
    <3>3. Cardinality(D) <= Cardinality(C \cup {t}) /\ Cardinality(D) \in Nat
          /\ Cardinality(C \cup {t}) \in Nat
      BY <3>1, <3>2, FS_Subset, FS_CardinalityType, Zenon
    <3> QED
      BY <2>1, <2>2, <2>3, <2>6, <3>2, <3>3 DEF D
  <2>7. CASE /\ added'[j] = added[j]
             /\ op' = op
             /\ \E t \in C, u \in Timeouts : D \subseteq (C \ {t}) \cup {u}
    <3>1. PICK t \in C, u \in Timeouts : D \subseteq (C \ {t}) \cup {u}
      BY <2>7, Zenon
    <3>2. IsFiniteSet(C \ {t}) /\ Cardinality(C \ {t}) = Cardinality(C) - 1
      BY <2>1, FS_RemoveElement, Zenon
    <3> DEFINE E == C \ {t}
    <3>3. IsFiniteSet(E) /\ Cardinality(E) = Cardinality(C) - 1 /\ D \subseteq E \cup {u}
      BY <3>1, <3>2, Zenon
    <3> HIDE DEF E
    <3>4. IsFiniteSet(E \cup {u}) /\ Cardinality(E \cup {u}) <= Cardinality(E) + 1
      BY <3>3, <2>1, FS_AddElement, FS_CardinalityType, SMTT(30)
    <3>5. Cardinality(D) <= Cardinality(E \cup {u}) /\ Cardinality(D) \in Nat
          /\ Cardinality(E \cup {u}) \in Nat
      BY <3>3, <3>4, FS_Subset, FS_CardinalityType, Zenon
    <3>6. Cardinality(D) <= Cardinality(C)
      BY <2>1, <3>3, <3>4, <3>5
    <3> QED
      BY <2>1, <2>2, <2>3, <2>7, <3>5, <3>6 DEF D
  <2> QED
    BY <2>4, <2>5, <2>6, <2>7, ChainsOfAStep, Zenon DEF ChainStep, C, D
<1> QED
  BY <1>1, <1>2, Zenon DEF Bounded

-----------------------------------------------------------------------------

\* IInv is an invariant of the scheduler.
THEOREM SchedulerInvariant == Spec => []IInv
<1>1. IInv /\ [Next]_vars => IInv'
  BY TypedStep, CountedStep, LinkedStep, StoppingStep, BoundedStep, KeptStep, PhasesStep, Zenon
  DEF IInv
<1> QED
  BY <1>1, InitIInv, PTL DEF Spec

\* The variables of Runner, TimeDispatch and their runs keep their types, and no job
\* is added or removed more often than the behaviour allows.
THEOREM TypeCorrect == Spec => []TypeOK
<1>1. IInv => TypeOK
  <2> SUFFICES ASSUME IInv PROVE TypeOK
    BY Zenon
  <2>1. \A j \in Jobs : load.ops[j] \in Nat
    BY Zenon DEF IInv, Counted
  <2>2. \A j \in Jobs : added[j] \in 0 .. load.ops[j] /\ removed[j] \in 0 .. load.ops[j]
    BY <2>1 DEF IInv, Typed, Counted
  <2> QED
    BY <2>2, Zenon DEF IInv, Typed, Counted, TypeOK, InFlight, Adds, Removes, Ends
<1> QED
  BY <1>1, SchedulerInvariant, PTL

\* RescheduleJob never multiplies a job: a job has at most as many live chains of
\* timeouts and runs as AddJob was called for it.
THEOREM ChainsBoundedHolds == Spec => []ChainsBounded
<1>1. IInv => ChainsBounded
  BY Zenon DEF IInv, Bounded, ChainsBounded
<1> QED
  BY <1>1, SchedulerInvariant, PTL

\* AddJob, Run and RescheduleJob never lose a cyclic job before Stop, unless an
\* execution of it failed or panicked.
THEOREM NeverLostHolds == Spec => []NeverLost
<1>1. IInv => NeverLost
  BY Zenon DEF IInv, Kept, NeverLost
<1> QED
  BY <1>1, SchedulerInvariant, PTL

\* RemoveJob finds, in the map it looks into, the only chain of an untangled job.
THEOREM RemovableHolds == Spec => []Removable
<1>1. IInv => Removable
  <2> SUFFICES ASSUME IInv, NEW j \in Jobs \ tangled, j \in runningJobs,
                      op.job # j, stopPc = "none"
               PROVE  /\ Cardinality(Chains(j)) <= 1
                      /\ \A t \in Pending(j) : task(j) = t \/ Unstored(t)
    BY Zenon DEF Removable
  <2>1. Scheduled(j)
    BY Zenon DEF IInv, Phases, Untangled
  <2>2. Cardinality(Chains(j)) <= 1
    <3>1. Chains(j) = {} \/ \E t \in Chains(j) : Chains(j) = {t}
      BY <2>1 DEF Scheduled
    <3>2. CASE Chains(j) = {}
      BY <3>2, FS_EmptySet
    <3>3. ASSUME NEW t \in Chains(j), Chains(j) = {t} PROVE Cardinality(Chains(j)) = 1
      BY <3>3, FS_Singleton, Zenon
    <3> QED
      BY <3>1, <3>2, <3>3
  <2> QED
    BY <2>1, <2>2, Zenon DEF Scheduled, Unstored
<1> QED
  BY <1>1, SchedulerInvariant, PTL

\* When RemoveJob of an untangled job has returned, nothing is left to execute it.
THEOREM RemovedIsQuietHolds == Spec => []RemovedIsQuiet
<1>1. IInv => RemovedIsQuiet
  BY Zenon DEF IInv, Phases, Untangled, RemovedIsQuiet
<1> QED
  BY <1>1, SchedulerInvariant, PTL

\* Nobody cancels a nil timeout, and so nobody panics, before Stop has stopped the timer.
THEOREM NoPanicBeforeStopHolds == Spec => []NoPanicBeforeStop
<1>1. IInv => NoPanicBeforeStop
  BY Zenon DEF IInv, Stopping, NoPanicBeforeStop
<1> QED
  BY <1>1, SchedulerInvariant, PTL

\* Once TimeDispatch.Stop has gone through the maps, no untangled job is left that
\* would execute.
THEOREM StopCancelsHolds == Spec => []StopCancels
<1>1. IInv => StopCancels
  <2> SUFFICES ASSUME IInv, stopPc \notin {"none", "range"},
                      NEW j \in Jobs \ tangled, op.job # j
               PROVE  Chains(j) = {}
    BY Zenon DEF StopCancels
  <2>1. RunsInFlight(j) = {} /\ Pending(j) = {}
    BY Zenon DEF IInv, Phases, Untangled, BeingStopped
  <2> QED
    BY <2>1, Zenon DEF Chains, RunsInFlight, InFlight
<1> QED
  BY <1>1, SchedulerInvariant, PTL

-----------------------------------------------------------------------------
\* A cancellation is a step of the timer, or the panic of a nil timeout.
LEMMA CancelUses ==
  ASSUME NEW t \in Timeouts, CancelTask(t)
  PROVE  [T!Next]_(T!vars)
<1>1. T!Cancel(t) \/ UNCHANGED timerVars
  BY Zenon DEF CancelTask
<1> QED
  BY <1>1, Zenon DEF T!Next, T!vars, timerVars

\* The jobs use the timer as its interface lets them: every step of AddJob, RemoveJob,
\* WheelTimerTask.Run and Stop is one call of the timer, or leaves it alone.
THEOREM SchedulerUsesTimer == Spec => T!Spec
<1>1. Init => T!Init
  BY Zenon DEF Init
<1>2. IInv /\ [Next]_vars => [T!Next]_(T!vars)
  <2> SUFFICES ASSUME IInv, [Next]_vars PROVE [T!Next]_(T!vars)
    BY Zenon
  <2>1. CASE UNCHANGED timerVars
    BY <2>1, Zenon DEF T!vars, timerVars
  <2>2. ASSUME NEW j \in Jobs, AddBegin(j) \/ RemoveBegin(j) PROVE UNCHANGED timerVars
    BY <2>2, Zenon DEF AddBegin, RemoveBegin
  <2>3. CASE Operation
    <3>1. ASSUME NEW t \in Timeouts, AddNewTimeout(t) PROVE [T!Next]_(T!vars)
      BY <3>1, Zenon DEF AddNewTimeout, NewTimeout, T!Next
    <3>2. CASE AddStoreTask \/ AddStoreInfo \/ RemoveLoadAndDelete \/ RemoveInfo
      BY <2>1, <3>2, Zenon DEF AddStoreTask, AddStoreInfo, RemoveLoadAndDelete, RemoveInfo
    <3>3. CASE RemoveCancel
      <4>1. op.timeout \in Timeouts
        BY <3>3, Zenon DEF RemoveCancel, IInv, Linked, TimeoutOf
      <4> QED
        BY <3>3, <4>1, CancelUses, Zenon DEF RemoveCancel
    <3> QED
      BY <2>3, <3>1, <3>2, <3>3, Zenon DEF Operation
  <2>4. ASSUME NEW t \in Timeouts, Launch(t) PROVE [T!Next]_(T!vars)
    BY <2>4, Zenon DEF Launch, T!Next
  <2>5. ASSUME NEW t \in Timeouts, Run(t) PROVE [T!Next]_(T!vars)
    <3>1. ASSUME NEW u \in Timeouts, RescheduleNewTimeout(t, u) PROVE [T!Next]_(T!vars)
      BY <3>1, Zenon DEF RescheduleNewTimeout, NewTimeout, T!Next
    <3>2. CASE RunRecord(t) \/ RunFail(t) \/ RunPanic(t) \/ RunComplete(t) \/ RescheduleStore(t)
      BY <2>1, <3>2, Zenon DEF RunRecord, RunFail, RunPanic, RunComplete, Complete, RescheduleStore
    <3> QED
      BY <2>5, <3>1, <3>2, Zenon DEF Run
  <2>6. CASE Start \/ ContextDone \/ StopBegin
    BY <2>1, <2>6, Zenon DEF Start, ContextDone, StopBegin, T!Next
  <2>7. CASE StopSteps
    <3>1. ASSUME NEW j \in Jobs, StopCancel(j) PROVE [T!Next]_(T!vars)
      <4>1. task(j) # None => task(j) \in Timeouts
        BY Zenon DEF IInv, Linked, TimeoutOf, task
      <4> QED
        BY <2>1, <3>1, <4>1, CancelUses, Zenon DEF StopCancel
    <3>2. CASE StopClear \/ CloseClear
      BY <2>1, <3>2, Zenon DEF StopClear, CloseClear
    <3>3. CASE StopWheel \/ StopReturn
      BY <3>3, Zenon DEF StopWheel, StopReturn, T!Next
    <3> QED
      BY <2>7, <3>1, <3>2, <3>3, Zenon DEF StopSteps
  <2>8. CASE UNCHANGED vars
    BY <2>1, <2>8, Zenon DEF vars
  <2> QED
    BY <2>1, <2>2, <2>3, <2>4, <2>5, <2>6, <2>7, <2>8, Zenon DEF Next
<1> QED
  BY <1>1, <1>2, SchedulerInvariant, PTL DEF Spec, T!Spec

\* The executions that were counted as begun and as nothing else: those that are being
\* dispatched, and those that panicked.
Uncounted == {t \in Timeouts : runPc[t] \in {"dispatch", "panicked"}}

\* DispatcherStats adds up: an execution that was counted as begun is counted as completed
\* or as failed once its DispatchMetricsTask has returned, unless it panicked.
StatsAddUp == stats.executed = stats.completed + stats.failed + Cardinality(Uncounted)

\* A step counts an execution once, when it leaves the dispatch.
LEMMA StatsStep ==
  ASSUME IInv, StatsAddUp, [Next]_vars
  PROVE  StatsAddUp'
<1> DEFINE D == {"dispatch", "panicked"}
<1>1. /\ runPc \in [Timeouts -> InFlight \cup Ends \cup {"none"}]
      /\ \A t \in Timeouts : runPc[t] # "none" => state[t] # "none"
      /\ stats \in [executed : Nat, completed : Nat, failed : Nat]
  BY Zenon DEF IInv, Typed, Linked, Counted
<1>2. IsFiniteSet(Uncounted) /\ Cardinality(Uncounted) \in Nat
  <2>1. Uncounted \subseteq Created
    BY <1>1, Zenon DEF Uncounted, Created
  <2> QED
    BY <2>1, FS_Subset, FS_CardinalityType, Zenon DEF IInv, Bounded
<1>3. CASE UNCHANGED stats /\ Uncounted' = Uncounted
  BY <1>3, Zenon DEF StatsAddUp
<1>4. ASSUME NEW t \in Timeouts, NEW v \in InFlight \cup Ends, (v \in D) <=> (runPc[t] \in D),
             runPc' = [runPc EXCEPT ![t] = v]
      PROVE  Uncounted' = Uncounted
  BY <1>1, <1>4, Zenon DEF Uncounted
<1>5. ASSUME NEW t \in Timeouts, RunRecord(t) PROVE StatsAddUp'
  <2>1. /\ runPc[t] = "record" /\ runPc' = [runPc EXCEPT ![t] = "dispatch"]
        /\ stats' = [stats EXCEPT !.executed = stats.executed + 1]
    BY <1>5, Zenon DEF RunRecord
  <2>2. t \notin Uncounted /\ Uncounted' = Uncounted \cup {t}
    BY <1>1, <2>1, Zenon DEF Uncounted
  <2>3. Cardinality(Uncounted') = Cardinality(Uncounted) + 1
    BY <1>2, <2>2, FS_AddElement, Zenon
  <2>4. /\ stats'.executed = stats.executed + 1 /\ stats'.completed = stats.completed
        /\ stats'.failed = stats.failed
    BY <1>1, <2>1
  <2> QED
    BY <1>1, <1>2, <2>3, <2>4 DEF StatsAddUp
<1>6. ASSUME NEW t \in Timeouts, RunFail(t) \/ RunComplete(t) PROVE StatsAddUp'
  <2>1. PICK v \in {"failed", "renew", "done"} : runPc' = [runPc EXCEPT ![t] = v]
    BY <1>6, Zenon DEF RunFail, RunComplete, Complete
  <2>2. /\ runPc[t] = "dispatch"
        /\ \/ stats' = [stats EXCEPT !.failed = stats.failed + 1]
           \/ stats' = [stats EXCEPT !.completed = stats.completed + 1]
    BY <1>6, Zenon DEF RunFail, RunComplete, Complete
  <2>3. t \in Uncounted /\ Uncounted' = Uncounted \ {t}
    BY <1>1, <2>1, <2>2, Zenon DEF Uncounted
  <2>4. Cardinality(Uncounted') = Cardinality(Uncounted) - 1
    BY <1>2, <2>3, FS_RemoveElement, Zenon
  <2>5. /\ stats'.executed = stats.executed
        /\ stats'.completed + stats'.failed = stats.completed + stats.failed + 1
    BY <1>1, <2>2
  <2> QED
    BY <1>1, <1>2, <2>4, <2>5 DEF StatsAddUp
<1>7. ASSUME NEW t \in Timeouts, RunPanic(t) \/ RescheduleStore(t) PROVE StatsAddUp'
  <2>1. PICK v \in Ends : /\ runPc' = [runPc EXCEPT ![t] = v]
                          /\ (v \in D) <=> (runPc[t] \in D)
                          /\ UNCHANGED stats
    BY <1>7, Zenon DEF RunPanic, RescheduleStore, Ends
  <2> QED
    BY <1>3, <1>4, <2>1, Zenon
<1>8. ASSUME NEW t \in Timeouts, NEW u \in Timeouts, RescheduleNewTimeout(t, u) PROVE StatsAddUp'
  <2>1. /\ runPc' = [runPc EXCEPT ![t] = "restore"] /\ runPc[t] = "renew" /\ UNCHANGED stats
        /\ "restore" \in InFlight
    BY <1>8, Zenon DEF RescheduleNewTimeout, InFlight
  <2> QED
    BY <1>3, <1>4, <2>1, Zenon
<1>9. ASSUME NEW t \in Timeouts, Launch(t) PROVE StatsAddUp'
  <2>1. runPc[t] = "none"
    BY <1>9, Zenon DEF Launch, T!Launch, IInv, Linked
  <2>2. /\ runPc' = [runPc EXCEPT ![t] = "record"] /\ UNCHANGED stats /\ "record" \in InFlight
    BY <1>9, Zenon DEF Launch, InFlight
  <2> QED
    BY <1>3, <1>4, <2>1, <2>2, Zenon
<1>10. CASE UNCHANGED <<runPc, stats>>
  BY <1>3, <1>10, Zenon DEF Uncounted
<1>11. ASSUME NEW j \in Jobs, AddBegin(j) \/ RemoveBegin(j) \/ StopCancel(j) PROVE UNCHANGED <<runPc, stats>>
  BY <1>11, Zenon DEF AddBegin, RemoveBegin, StopCancel
<1>12. CASE Operation
  BY <1>10, <1>12, Zenon DEF Operation, AddNewTimeout, AddStoreTask, AddStoreInfo, RemoveLoadAndDelete,
     RemoveCancel, RemoveInfo
<1>13. CASE Start \/ ContextDone \/ StopBegin \/ StopClear \/ StopWheel \/ StopReturn \/ CloseClear
  BY <1>10, <1>13, Zenon DEF Start, ContextDone, StopBegin, StopClear, StopWheel, StopReturn, CloseClear
<1>14. CASE UNCHANGED vars
  BY <1>10, <1>14, Zenon DEF vars
<1> QED
  BY <1>5, <1>6, <1>7, <1>8, <1>9, <1>10, <1>11, <1>12, <1>13, <1>14, Zenon DEF Next, Run, StopSteps

\* However the runs overlap, DispatcherStats adds up: executed is completed and failed, and
\* what is being dispatched or panicked.
THEOREM StatsAddUpHolds == Spec => []StatsAddUp
<1>1. Init => StatsAddUp
  <2> SUFFICES ASSUME Init PROVE StatsAddUp
    BY Zenon
  <2>1. Uncounted = {}
    BY Zenon DEF Init, Uncounted
  <2>2. Cardinality(Uncounted) = 0
    BY <2>1, FS_EmptySet, Zenon
  <2> QED
    BY <2>2 DEF Init, StatsAddUp
<1>2. IInv /\ StatsAddUp /\ [Next]_vars => StatsAddUp'
  BY StatsStep, Zenon
<1> QED
  BY <1>1, <1>2, SchedulerInvariant, PTL DEF Spec
=============================================================================
