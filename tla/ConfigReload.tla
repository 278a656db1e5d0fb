---------------------------- MODULE ConfigReload ----------------------------
(***************************************************************************)
(* Hot reload of the configuration: WatchConfigAndReload of                *)
(* internal/config/config.go.                                              *)
(*                                                                         *)
(* An event of the file watcher starts a goroutine that sleeps 300 ms,     *)
(* parses and validates the file and installs the result.  Events are      *)
(* debounced: one that comes within 250 ms of the last accepted one while  *)
(* a reload is pending is dropped.  Nothing orders two reloads that        *)
(* overlap, and the first to finish clears the flag of both.               *)
(***************************************************************************)
EXTENDS Naturals, FiniteSets

CONSTANT MaxWrites    \* bound: how often the file is changed

ASSUME MaxWritesAssumption == MaxWrites \in Nat

VARIABLES
  watcher,     \* "off", "watching", "stopped"
  file,        \* version of the file and whether it parses and validates
  valid,       \* history: the versions that did
  events,      \* events of the watcher not yet received
  pending,     \* pending
  recent,      \* time.Since(last) <= 250ms
  last,        \* the goroutine of the last accepted event, 0 if none
  reloads,     \* every reload's goroutine: progress and the version it has read
  installed,   \* version in globalConfig, 0 for the one the program started with
  overlapped   \* history: a reload has read the file while another was to install

reloadVars == <<watcher, file, valid, events, pending, recent, last, reloads, installed, overlapped>>

Goroutines == 1 .. MaxWrites

ReloadInit(w) ==
  /\ watcher = w
  /\ file = [version |-> 0, ok |-> TRUE]
  /\ valid = {0}
  /\ events = 0
  /\ pending = FALSE
  /\ recent = FALSE
  /\ last = 0
  /\ reloads = [g \in Goroutines |-> [pc |-> "none", read |-> 0]]
  /\ installed = 0
  /\ overlapped = FALSE

\* Somebody changes the file, to something valid or not (absent, malformed, without
\* an address); the watcher reports it.
ChangeFile ==
  /\ watcher # "off" /\ file.version < MaxWrites
  /\ \E ok \in BOOLEAN :
       /\ file' = [version |-> file.version + 1, ok |-> ok]
       /\ valid' = IF ok THEN valid \cup {file.version + 1} ELSE valid
  /\ events' = events + 1
  /\ UNCHANGED <<watcher, pending, recent, last, reloads, installed, overlapped>>

\* Faulty variant of Event: events are dropped for as long as a reload is pending.
EventUnlessPending ==
  /\ watcher = "watching" /\ events > 0
  /\ events' = events - 1
  /\ IF ~pending
       THEN /\ pending' = TRUE /\ recent' = TRUE /\ last' = last + 1
            /\ reloads' = [reloads EXCEPT ![last + 1].pc = "sleep"]
       ELSE UNCHANGED <<pending, recent, last, reloads>>
  /\ UNCHANGED <<watcher, file, valid, installed, overlapped>>

\* The loop receives an event, and accepts or drops it.
Event ==
  /\ watcher = "watching" /\ events > 0
  /\ events' = events - 1
  /\ IF ~pending \/ ~recent
       THEN /\ pending' = TRUE /\ recent' = TRUE /\ last' = last + 1
            /\ reloads' = [reloads EXCEPT ![last + 1].pc = "sleep"]
       ELSE UNCHANGED <<pending, recent, last, reloads>>
  /\ UNCHANGED <<watcher, file, valid, installed, overlapped>>

\* 250 ms after the last accepted event.
Elapse ==
  /\ recent
  /\ recent' = FALSE
  /\ UNCHANGED <<watcher, file, valid, events, pending, last, reloads, installed, overlapped>>

\* reload after the 300 ms of sleep: parseConfigFile and ValidateConfig.
Reload(g) ==
  /\ reloads[g].pc = "sleep"
  /\ g = last => ~recent
  /\ reloads' = [reloads EXCEPT ![g] = [pc |-> IF file.ok THEN "install" ELSE "clear",
                                        read |-> file.version]]
  /\ overlapped' = (overlapped \/ \E h \in Goroutines : reloads[h].pc = "install")
  /\ UNCHANGED <<watcher, file, valid, events, pending, recent, last, installed>>

\* SetGlobalConfig; the logger is replaced, too.
Install(g) ==
  /\ reloads[g].pc = "install"
  /\ installed' = reloads[g].read
  /\ reloads' = [reloads EXCEPT ![g].pc = "clear"]
  /\ UNCHANGED <<watcher, file, valid, events, pending, recent, last, overlapped>>

ClearPending(g) ==
  /\ reloads[g].pc = "clear"
  /\ pending' = FALSE
  /\ reloads' = [reloads EXCEPT ![g].pc = "ended"]
  /\ UNCHANGED <<watcher, file, valid, events, recent, last, installed, overlapped>>

\* ctx.Done(): the loop returns, a reload that is under way does not.
Cancel ==
  /\ watcher = "watching"
  /\ watcher' = "stopped"
  /\ UNCHANGED <<file, valid, events, pending, recent, last, reloads, installed, overlapped>>

ReloadNext ==
  \/ ChangeFile \/ Event \/ Elapse \/ Cancel
  \/ \E g \in Goroutines : Reload(g) \/ Install(g) \/ ClearPending(g)

ReloadSpec == ReloadInit("watching") /\ [][ReloadNext]_reloadVars

-----------------------------------------------------------------------------

Settled ==
  /\ watcher = "watching" /\ events = 0
  /\ \A g \in Goroutines : reloads[g].pc \in {"none", "ended"}

(* No change of the file is lost: when the watcher has received every event and every  *)
(* reload has ended, the configuration in force is the file's, unless the file is      *)
(* invalid (the one in force is then a valid earlier one) or two reloads have          *)
(* overlapped, when the older may have been installed last.  The debouncing drops an   *)
(* event only while the pending reload is still asleep.                                *)
ReloadCurrent ==
  /\ installed \in valid
  /\ Settled /\ ~overlapped /\ file.ok => installed = file.version
=============================================================================
