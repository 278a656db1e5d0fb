----------------------------- MODULE FrameWriter ----------------------------
(***************************************************************************)
(* NettyClient.SendMsg and writeMessage of                                 *)
(* internal/transport/netty_client.go, on the one bufio.Writer of the      *)
(* connection.  SendMsg holds only the read lock of c.mu, so the senders   *)
(* (results, heartbeats, answers of the processors) share the writer       *)
(* without excluding one another.                                          *)
(*                                                                         *)
(* A message is one frame, compressed by its sender alone and smaller than *)
(* the buffer.  The writer is modelled from the source of package bufio:   *)
(* Write copies the frame behind the n buffered ones and then adds to n;   *)
(* Flush gives buf[1..n] to the connection, fails with a short write if n  *)
(* has grown meanwhile, and otherwise sets n to 0.  An error is kept, and  *)
(* every later call returns it.  The connection itself takes what it is    *)
(* given: NettyTransport has the connections that break.                   *)
(***************************************************************************)
EXTENDS Naturals, Sequences

CONSTANTS
  Senders,   \* every sender sends one message
  Torn       \* bytes that are no frame: two copied over each other, or left over

VARIABLES
  buf,        \* the frames of the buffer, and behind n what is being copied
  n,          \* Writer.n
  err,        \* Writer.err is set
  wire,       \* the frames given to the connection, until the first overlap
  at,         \* progress of every sender: "idle", in SendMsg, "sent", "failed"
  flushing,   \* how many frames the sender's Flush has written
  returned,   \* history: the senders whose SendMsg returned nil, in order, as long
              \* as there was no overlap
  overlapped  \* history: two senders have been in writeMessage at a time

bufVars == <<buf, n, err>>
vars == <<bufVars, wire, at, flushing, returned, overlapped>>

InWrite == {"add", "flush", "reset"}

Active(s) == at[s] \in InWrite

Init ==
  /\ buf = <<>>
  /\ n = 0
  /\ err = FALSE
  /\ wire = <<>>
  /\ at = [s \in Senders |-> "idle"]
  /\ flushing = [s \in Senders |-> 0]
  /\ returned = <<>>
  /\ overlapped = FALSE

-----------------------------------------------------------------------------

\* The client is not started: SendMsg returns an error and writes nothing.
Refuse(s) ==
  /\ at[s] = "idle"
  /\ at' = [at EXCEPT ![s] = "failed"]
  /\ UNCHANGED <<bufVars, wire, flushing, returned, overlapped>>

\* Writer.Write: the copy to buf[n:].  A copy to where another sender is still
\* copying mixes the two.
Copy(s) ==
  /\ at[s] = "idle"
  /\ overlapped' = (overlapped \/ \E r \in Senders : Active(r))
  /\ \/ /\ err
        /\ at' = [at EXCEPT ![s] = "failed"]
        /\ UNCHANGED buf
     \/ /\ ~err
        /\ at' = [at EXCEPT ![s] = "add"]
        /\ \E frame \in {s} \cup (IF \E r \in Senders : at[r] = "add" THEN {Torn} ELSE {}) :
             buf' = SubSeq(buf, 1, n) \o <<frame>> \o SubSeq(buf, n + 2, Len(buf))
  /\ UNCHANGED <<n, err, wire, flushing, returned>>

\* Writer.Write: b.n += len(p).  When two senders copied to the same place, the
\* second addition makes what lay behind part of the buffer.
Add(s) ==
  /\ at[s] = "add"
  /\ n' = n + 1
  /\ buf' = IF Len(buf) > n THEN buf ELSE Append(buf, Torn)
  /\ at' = [at EXCEPT ![s] = "flush"]
  /\ UNCHANGED <<err, wire, flushing, returned, overlapped>>

Return(s) ==
  /\ at' = [at EXCEPT ![s] = "sent"]
  /\ returned' = IF overlapped THEN returned ELSE Append(returned, s)

\* Faulty variant of Flush: the buffered frame is not written.
FlushNothing(s) ==
  /\ at[s] = "flush"
  /\ Return(s)
  /\ UNCHANGED <<bufVars, wire, flushing, overlapped>>

\* Writer.Flush up to the write on the connection.
Flush(s) ==
  /\ at[s] = "flush"
  /\ \/ /\ err
        /\ at' = [at EXCEPT ![s] = "failed"]
        /\ UNCHANGED <<wire, flushing, returned>>
     \/ /\ ~err /\ n = 0
        /\ Return(s)
        /\ UNCHANGED <<wire, flushing>>
     \/ /\ ~err /\ n > 0
        /\ wire' = IF overlapped THEN wire ELSE wire \o SubSeq(buf, 1, n)
        /\ flushing' = [flushing EXCEPT ![s] = n]
        /\ at' = [at EXCEPT ![s] = "reset"]
        /\ UNCHANGED returned
  /\ UNCHANGED <<bufVars, overlapped>>

\* Writer.Flush after the write: the test of n, which may have changed.
Reset(s) ==
  /\ at[s] = "reset"
  /\ IF flushing[s] < n
     THEN /\ err' = TRUE
          /\ buf' = SubSeq(buf, flushing[s] + 1, n)
          /\ n' = n - flushing[s]
          /\ at' = [at EXCEPT ![s] = "failed"]
          /\ UNCHANGED returned
     ELSE /\ n' = 0
          /\ buf' = <<>>
          /\ Return(s)
          /\ UNCHANGED err
  /\ flushing' = [flushing EXCEPT ![s] = 0]
  /\ UNCHANGED <<wire, overlapped>>

Write(s) == Copy(s) \/ Add(s) \/ Flush(s) \/ Reset(s)

Next == \E s \in Senders : Refuse(s) \/ Write(s)

Spec == Init /\ [][Next]_vars

-----------------------------------------------------------------------------

TypeOK ==
  /\ buf \in Seq(Senders \cup {Torn})
  /\ n \in 0 .. Len(buf)
  /\ err \in BOOLEAN
  /\ wire \in Seq(Senders \cup {Torn})
  /\ at \in [Senders -> InWrite \cup {"idle", "sent", "failed"}]
  /\ flushing \in [Senders -> Nat]
  /\ returned \in Seq(Senders)
  /\ overlapped \in BOOLEAN

\* As long as no two senders were in writeMessage at a time, the connection has
\* got exactly the messages whose SendMsg returned nil, whole and in order, and
\* at most the one being flushed besides; and the writer has not failed.
FramesIntact ==
  ~overlapped =>
    /\ ~err
    /\ \/ wire = returned
       \/ \E s \in Senders : at[s] = "reset" /\ wire = Append(returned, s)
=============================================================================
