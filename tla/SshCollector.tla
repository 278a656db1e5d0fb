---------------------------- MODULE SshCollector ----------------------------
(***************************************************************************)
(* The SSH collector (internal/protocol/basic/ssh/ssh_collector.go) and    *)
(* its dial helpers (internal/util/ssh/ssh_helper.go): a direct connection *)
(* or one through an SSH proxy, a session, a script, the rows of its       *)
(* output.                                                                 *)
(*                                                                         *)
(* The timeout of the configuration covers the TCP dial only.              *)
(***************************************************************************)
EXTENDS Collection

\* Steps without a deadline: they last as long as the peer likes.
SshSilent == {"handshake", "proxyHandshake", "targetDial", "targetHandshake", "session", "script"}

usable(credentials) == credentials \in {"password", "key"}

CreateSSHClientConfig ==
  /\ At("ssh", "collect")
  /\ \/ ~metrics.present /\ Fail({}, "fail")
     \/ metrics.present /\ ~usable(metrics.auth) /\ Fail({}, "unConnectable")
     \/ metrics.present /\ usable(metrics.auth) /\ Go("dialWithProxy")

DialWithProxy ==
  /\ At("ssh", "dialWithProxy")
  /\ \/ metrics.proxy = "none" /\ Go("dial")
     \/ metrics.proxy # "none" /\ ~usable(metrics.proxy) /\ Fail({}, "unConnectable")
     \/ metrics.proxy # "none" /\ usable(metrics.proxy) /\ Go("proxyDial")

DialWithContext ==
  \/ /\ At("ssh", "dial")
     /\ Opens({"conn"}, "handshake") \/ Fail({}, "unConnectable")
  \/ /\ At("ssh", "handshake")
     /\ OpensDeferred({}, {"conn"}, "session") \/ Fail({"conn"}, "unConnectable")

\* Faulty variant of dialViaProxy: a target that cannot be reached leaves the proxy.
dialViaProxyLeaks ==
  \/ /\ At("ssh", "proxyDial")
     /\ Opens({"proxy"}, "proxyHandshake") \/ Fail({}, "unConnectable")
  \/ /\ At("ssh", "proxyHandshake")
     /\ Go("targetDial") \/ Fail({"proxy"}, "unConnectable")
  \/ /\ At("ssh", "targetDial")
     /\ Opens({"conn"}, "targetHandshake") \/ Fail({}, "unConnectable")
  \/ /\ At("ssh", "targetHandshake")
     /\ OpensDeferred({}, {"conn"}, "session") \/ Fail({"conn", "proxy"}, "unConnectable")

\* The client of the proxy is closed if the target fails; otherwise nobody closes it.
dialViaProxy ==
  \/ /\ At("ssh", "proxyDial")
     /\ Opens({"proxy"}, "proxyHandshake") \/ Fail({}, "unConnectable")
  \/ /\ At("ssh", "proxyHandshake")
     /\ Go("targetDial") \/ Fail({"proxy"}, "unConnectable")
  \/ /\ At("ssh", "targetDial")
     /\ Opens({"conn"}, "targetHandshake") \/ Fail({"proxy"}, "unConnectable")
  \/ /\ At("ssh", "targetHandshake")
     /\ OpensDeferred({}, {"conn"}, "session") \/ Fail({"conn", "proxy"}, "unConnectable")

executeSSHScript ==
  \/ /\ At("ssh", "session")
     /\ OpensDeferred({"session"}, {"session"}, "script") \/ Fail({}, "unConnectable")
  \/ /\ At("ssh", "script")
     /\ Go("parse") \/ Fail({}, "unConnectable")

sshRows ==
  CASE metrics.parse = "oneRow" -> parseResponseDataByOne(metrics.lines, alias)
    [] metrics.parse = "multiRow" -> parseResponseDataByMulti(metrics.columns, metrics.lines, alias)
    [] OTHER -> <<>>

\* (CalculateFields replaces the fields of a success.)
createSuccessResponseWithResult ==
  /\ At("ssh", "parse")
  /\ Return({}, "success", alias, sshRows)

SshCollect ==
  \/ CreateSSHClientConfig
  \/ DialWithProxy
  \/ DialWithContext
  \/ dialViaProxy
  \/ executeSSHScript
  \/ createSuccessResponseWithResult
=============================================================================
