------------------------------ MODULE MCServer ------------------------------
(***************************************************************************)
(* For TLC: the server command with the gRPC transport, or the             *)
(* configuration watcher, which the command does not start.                *)
(***************************************************************************)
EXTENDS Server, ConfigReload

mcVars == <<vars, reloadVars>>

MCInit ==
  \/ InitWith("load") /\ ReloadInit("off")
  \/ InitWith("none") /\ cfg = (CHOOSE f \in Files : TRUE) /\ ReloadInit("watching")

MCNext ==
  \/ Next /\ UNCHANGED reloadVars
  \/ ReloadNext /\ UNCHANGED vars

MCSpec == MCInit /\ [][MCNext]_mcVars /\ Fairness
=============================================================================
