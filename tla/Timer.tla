------------------------------- MODULE Timer --------------------------------
(***************************************************************************)
(* What the timer of internal/job/dispatcher promises to its users: the    *)
(* HashedWheelTimer interface of time_wheel.go with the Timeout objects of *)
(* internal/types/job/timeout_types.go.  A timeout is created, may be      *)
(* cancelled at any moment, and is launched at most once, never after its  *)
(* cancellation and never after Stop has returned.  Time and the wheel are *)
(* absent: HashedWheelTimer implements this specification.                 *)
(***************************************************************************)

CONSTANT Timeouts   \* the Timeout objects, one per call of NewTimeout

VARIABLES
  state,      \* "none", "nil" (NewTimeout returned nil), "pending", "launched"
  cancelled,  \* Timeout.cancelled
  timer       \* "idle", "running", "halting" (its context is cancelled),
              \* "stopping" (inside Stop), "stopped"

vars == <<state, cancelled, timer>>

Init ==
  /\ state = [t \in Timeouts |-> "none"]
  /\ cancelled = [t \in Timeouts |-> FALSE]
  /\ timer = "idle"

\* NewTimeout returns a timeout, or nil once Stop has begun.
New(t) ==
  /\ state[t] = "none"
  /\ state' = [state EXCEPT ![t] =
                 IF timer \in {"stopping", "stopped"} THEN "nil" ELSE "pending"]
  /\ UNCHANGED <<cancelled, timer>>

\* Timeout.Cancel; on a cancelled timeout it changes nothing.
Cancel(t) ==
  /\ cancelled' = [cancelled EXCEPT ![t] = TRUE]
  /\ UNCHANGED <<state, timer>>

\* The task of a live timeout is started in a goroutine of its own.
Launch(t) ==
  /\ timer \in {"running", "halting", "stopping"}
  /\ state[t] = "pending"
  /\ ~cancelled[t]
  /\ state' = [state EXCEPT ![t] = "launched"]
  /\ UNCHANGED <<cancelled, timer>>

Start ==
  /\ timer = "idle"
  /\ timer' = "running"
  /\ UNCHANGED <<state, cancelled>>

\* The owner of the context given to Start cancels it.
Halt ==
  /\ timer = "running"
  /\ timer' = "halting"
  /\ UNCHANGED <<state, cancelled>>

StopBegin ==
  /\ timer \in {"running", "halting"}
  /\ timer' = "stopping"
  /\ UNCHANGED <<state, cancelled>>

StopReturn ==
  /\ timer = "stopping"
  /\ timer' = "stopped"
  /\ UNCHANGED <<state, cancelled>>

Next ==
  \/ \E t \in Timeouts : New(t) \/ Cancel(t) \/ Launch(t)
  \/ Start
  \/ Halt
  \/ StopBegin
  \/ StopReturn

Spec == Init /\ [][Next]_vars
=============================================================================
