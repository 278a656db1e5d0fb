-------------------------- MODULE FrameWriterProofs -------------------------
(***************************************************************************)
(* What the connection of the netty client gets as long as its senders do  *)
(* not overlap, for any number of senders: FramesIntact of FrameWriter.    *)
(* The property says nothing of the buffer; the invariant adds what it     *)
(* holds at every point of the one sender that may be in writeMessage.     *)
(***************************************************************************)
EXTENDS FrameWriter, SequenceTheorems, TLAPS

\* The types the proof needs.
Typed ==
  /\ err \in BOOLEAN /\ overlapped \in BOOLEAN /\ n \in Nat
  /\ at \in [Senders -> InWrite \cup {"idle", "sent", "failed"}]
  /\ flushing \in [Senders -> Nat]
  /\ returned \in Seq(Senders)

Quiet == \A s \in Senders : ~Active(s)
Alone(s) == Active(s) /\ \A r \in Senders : Active(r) => r = s

\* The buffer and the connection, by where the only sender is.
Holds(s) ==
  /\ at[s] = "add" => n = 0 /\ buf = <<s>> /\ wire = returned
  /\ at[s] = "flush" => n = 1 /\ buf = <<s>> /\ wire = returned
  /\ at[s] = "reset" => n = 1 /\ flushing[s] = 1 /\ wire = Append(returned, s)

Intact ==
  /\ ~err
  /\ \/ Quiet /\ n = 0 /\ buf = <<>> /\ wire = returned
     \/ \E s \in Senders : Alone(s) /\ Holds(s)

IInv == Typed /\ (~overlapped => Intact)

\* SendMsg changes the buffer of a writer no one else is in as if it were a variable
\* of its own: the frame is copied to the front of the empty buffer, and flushed whole.
LEMMA BufferOfOne ==
  ASSUME NEW s, NEW q \in Seq(Senders), s \in Senders
  PROVE  /\ SubSeq(<<>>, 1, 0) \o <<s>> \o SubSeq(<<>>, 0 + 2, Len(<<>>)) = <<s>>
         /\ SubSeq(<<s>>, 1, 1) = <<s>>
         /\ q \o <<s>> = Append(q, s)
<1>1. <<s>> \in Seq(Senders) /\ Len(<<s>>) = 1 /\ Len(<<>>) = 0
  OBVIOUS
<1>2. SubSeq(<<>>, 1, 0) = <<>> /\ SubSeq(<<>>, 0 + 2, Len(<<>>)) = <<>>
  BY <1>1, SubSeqEmpty
<1>3. <<>> \o <<s>> = <<s>> /\ <<s>> \o <<>> = <<s>>
  BY <1>1, ConcatEmptySeq
<1>4. SubSeq(<<s>>, 1, 1) = <<s>>
  BY <1>1, SubSeqFull, Zenon
<1>5. q \o <<s>> = Append(q, s)
  BY AppendIsConcat
<1> QED
  BY <1>2, <1>3, <1>4, <1>5, Zenon

\* The invariant holds in the initial states.
LEMMA InitInv == Init => IInv
<1> SUFFICES ASSUME Init PROVE IInv
  OBVIOUS
<1>1. Typed
  BY EmptySeq, Zenon DEF Init, Typed
<1>2. Intact
  BY DEF Init, Intact, Quiet, Active, InWrite
<1> QED
  BY <1>1, <1>2 DEF IInv

\* The types hold after every step.
LEMMA NextTyped == Typed /\ [Next]_vars => Typed'
<1> SUFFICES ASSUME Typed, [Next]_vars PROVE Typed'
  OBVIOUS
<1> USE DEF Typed, InWrite
<1>1. CASE UNCHANGED vars
  BY <1>1 DEF vars, bufVars
<1>2. ASSUME NEW s \in Senders, Refuse(s) PROVE Typed'
  BY <1>2 DEF Refuse, bufVars
<1>3. ASSUME NEW s \in Senders, Copy(s) PROVE Typed'
  BY <1>3, Zenon DEF Copy
<1>4. ASSUME NEW s \in Senders, Add(s) PROVE Typed'
  BY <1>4 DEF Add
<1>5. ASSUME NEW s \in Senders, Flush(s) PROVE Typed'
  <2>1. err' \in BOOLEAN /\ overlapped' \in BOOLEAN /\ n' \in Nat
    BY <1>5 DEF Flush, bufVars
  <2>2. at' \in [Senders -> InWrite \cup {"idle", "sent", "failed"}]
    BY <1>5, Zenon DEF Flush, Return
  <2>3. flushing' \in [Senders -> Nat]
    BY <1>5, SMTT(40) DEF Flush
  <2>4. returned' = returned \/ returned' = Append(returned, s)
    BY <1>5 DEF Flush, Return
  <2>5. returned' \in Seq(Senders)
    <3>1. Append(returned, s) \in Seq(Senders)
      OBVIOUS
    <3> QED
      BY <2>4, <3>1
  <2> QED
    BY <2>1, <2>2, <2>3, <2>5
<1>6. ASSUME NEW s \in Senders, Reset(s) PROVE Typed'
  <2>1. flushing[s] \in Nat
    OBVIOUS
  <2>2. err' \in BOOLEAN /\ overlapped' \in BOOLEAN
    BY <1>6, Zenon DEF Reset
  <2>3. n' \in Nat
    BY <1>6, <2>1 DEF Reset
  <2>4. at' \in [Senders -> InWrite \cup {"idle", "sent", "failed"}]
    BY <1>6, Zenon DEF Reset, Return
  <2>5. flushing' \in [Senders -> Nat]
    BY <1>6 DEF Reset
  <2>6. returned' = returned \/ returned' = Append(returned, s)
    BY <1>6 DEF Reset, Return
  <2>7. returned' \in Seq(Senders)
    <3>1. Append(returned, s) \in Seq(Senders)
      OBVIOUS
    <3> QED
      BY <2>6, <3>1
  <2> QED
    BY <2>2, <2>3, <2>4, <2>5, <2>7
<1> QED
  BY <1>1, <1>2, <1>3, <1>4, <1>5, <1>6 DEF Next, Write

\* Every step of a sender keeps the buffer, the connection and the answers in step,
\* as long as it is alone.
LEMMA NextIntact == IInv /\ [Next]_vars /\ ~overlapped' => Intact'
<1> SUFFICES ASSUME IInv, [Next]_vars, ~overlapped' PROVE Intact'
  OBVIOUS
<1>0. CASE UNCHANGED vars
  BY <1>0 DEF vars, bufVars, IInv, Intact, Quiet, Alone, Holds, Active
<1>1. ASSUME NEW s \in Senders, Refuse(s) PROVE Intact'
  <2>1. Intact /\ Typed
    BY <1>1 DEF Refuse, IInv
  <2>2. \A r \in Senders : Active(r)' <=> Active(r)
    BY <1>1, <2>1 DEF Refuse, Active, InWrite, Typed
  <2>3. CASE Quiet
    BY <1>1, <2>1, <2>2, <2>3 DEF Refuse, bufVars, Intact, Quiet, Alone
  <2>4. ASSUME NEW r \in Senders, Alone(r), Holds(r) PROVE Intact'
    <3>1. at'[r] = at[r]
      BY <1>1, <2>1, <2>4 DEF Refuse, Alone, Active, InWrite, Typed
    <3>2. Alone(r)' /\ Holds(r)'
      BY <1>1, <2>2, <2>4, <3>1 DEF Refuse, bufVars, Alone, Holds
    <3> QED
      BY <1>1, <2>1, <3>2 DEF Refuse, bufVars, Intact
  <2> QED
    BY <2>1, <2>3, <2>4 DEF Intact
<1>2. ASSUME NEW s \in Senders, Copy(s) PROVE Intact'
  <2>1. ~overlapped /\ Quiet
    BY <1>2, Zenon DEF Copy, IInv, Typed, Quiet
  <2>2. Intact /\ Typed /\ ~err
    BY <2>1 DEF IInv, Intact
  <2>3. n = 0 /\ buf = <<>> /\ wire = returned
    BY <2>1, <2>2 DEF Intact, Quiet, Alone
  <2>4. buf' = SubSeq(<<>>, 1, 0) \o <<s>> \o SubSeq(<<>>, 0 + 2, Len(<<>>))
    BY <1>2, <2>1, <2>2, <2>3, Zenon DEF Copy, Quiet, Active, InWrite
  <2>5. buf' = <<s>>
    BY <2>2, <2>4, BufferOfOne DEF Typed
  <2>6. at' = [at EXCEPT ![s] = "add"] /\ n' = 0 /\ wire' = returned' /\ ~err'
    BY <1>2, <2>2, <2>3 DEF Copy
  <2>7. Alone(s)' /\ Holds(s)'
    BY <2>1, <2>2, <2>5, <2>6 DEF Alone, Holds, Quiet, Active, InWrite, Typed
  <2> QED
    BY <2>6, <2>7 DEF Intact
<1>3. ASSUME NEW s \in Senders, Active(s), ~overlapped, Add(s) \/ Flush(s) \/ Reset(s)
      PROVE  Intact'
  <2>1. Typed /\ ~err /\ Alone(s) /\ Holds(s)
    BY <1>3 DEF IInv, Intact, Quiet, Alone
  <2>2. CASE Add(s)
    <3>1. n' = 1 /\ buf' = <<s>> /\ wire' = returned' /\ ~err'
      BY <2>1, <2>2 DEF Add, Holds
    <3>2. at' = [at EXCEPT ![s] = "flush"]
      BY <2>2 DEF Add
    <3>3. Alone(s)' /\ Holds(s)'
      BY <2>1, <3>1, <3>2 DEF Alone, Holds, Active, InWrite, Typed
    <3> QED
      BY <3>1, <3>3 DEF Intact
  <2>3. CASE Flush(s)
    <3>1. n = 1 /\ buf = <<s>> /\ wire = returned
      BY <2>1, <2>3 DEF Flush, Holds
    <3>2. /\ wire' = returned \o SubSeq(<<s>>, 1, 1)
          /\ flushing' = [flushing EXCEPT ![s] = 1]
          /\ at' = [at EXCEPT ![s] = "reset"]
          /\ returned' = returned /\ n' = 1 /\ ~err'
      BY <1>3, <2>1, <2>3, <3>1 DEF Flush, bufVars
    <3>3. wire' = Append(returned', s)
      BY <2>1, <3>2, BufferOfOne DEF Typed
    <3>4. Alone(s)' /\ Holds(s)'
      BY <2>1, <3>2, <3>3 DEF Alone, Holds, Active, InWrite, Typed
    <3> QED
      BY <3>2, <3>4 DEF Intact
  <2>4. CASE Reset(s)
    <3>1. n = 1 /\ flushing[s] = 1 /\ wire = Append(returned, s)
      BY <2>1, <2>4 DEF Reset, Holds
    <3>2. /\ n' = 0 /\ buf' = <<>> /\ ~err'
          /\ at' = [at EXCEPT ![s] = "sent"]
          /\ returned' = Append(returned, s) /\ wire' = wire
      BY <1>3, <2>1, <2>4, <3>1 DEF Reset, Return
    <3>3. Quiet'
      BY <2>1, <3>2 DEF Quiet, Alone, Active, InWrite, Typed
    <3> QED
      BY <3>1, <3>2, <3>3 DEF Intact
  <2> QED
    BY <1>3, <2>2, <2>3, <2>4
<1>4. ASSUME NEW s \in Senders, Add(s) \/ Flush(s) \/ Reset(s)
      PROVE  Active(s) /\ ~overlapped
  BY <1>4 DEF Add, Flush, Reset, Active, InWrite
<1> QED
  BY <1>0, <1>1, <1>2, <1>3, <1>4 DEF Next, Write

\* For any senders: as long as no two of them were in writeMessage at a time, the
\* connection has got exactly the messages whose SendMsg returned nil, in order, and
\* the one being flushed besides.
THEOREM FramesIntactHolds == Spec => []FramesIntact
<1>1. IInv /\ [Next]_vars => IInv'
  BY NextTyped, NextIntact DEF IInv
<1>2. IInv => FramesIntact
  BY DEF IInv, Intact, FramesIntact, Holds, Alone, Active, InWrite
<1> QED
  BY InitInv, <1>1, <1>2, PTL DEF Spec
=============================================================================
