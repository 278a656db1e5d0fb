---------------------------- MODULE MCProcessors ----------------------------
(* Small instance of Processors for TLC. *)
EXTENDS Processors

CONSTANTS a, b

Msg(k, request, ok, jobs) == [kind |-> k, request |-> request, ok |-> ok, jobs |-> jobs]

\* The secret comes as the answer to the collector's GO_ONLINE.
Online == Msg("online", FALSE, TRUE, <<>>)
Issue(j) == Msg("issue", TRUE, TRUE, <<j>>)
DeleteBoth == Msg("delete", TRUE, TRUE, <<a, b>>)

ManagerBeat == Msg("heartbeat", FALSE, TRUE, <<>>)
Idle == {Online, ManagerBeat, Msg("delete", TRUE, FALSE, <<a>>), Msg("offline", TRUE, TRUE, <<>>),
         Msg("close", TRUE, TRUE, <<>>)}
Menu == Idle \cup {Issue(a), Issue(b), DeleteBoth, Msg("once", TRUE, TRUE, <<a>>)}

\* Anything, followed by an issue and a deletion, or by the secret and an issue.  The
\* netty client, whose answers share the writer with what else it sends, has at most
\* two requests to answer and two orders on a job to obey.
MCScripts ==
  [netty |-> {<<first, Online, Issue(a)>> : first \in Idle}
             \cup {<<ManagerBeat, Issue(a), DeleteBoth>>},
   grpc |-> {<<first, Online, Issue(a)>> : first \in Menu}
            \cup {<<first, Issue(a), DeleteBoth>> : first \in Menu}]
=============================================================================
