-------------------------- MODULE ServerLoopProofs --------------------------
(***************************************************************************)
(* The event loop uses the T2H path as T2HPath allows: each of its steps   *)
(* is a step of the path or leaves it alone, so what T2HProofs proves of   *)
(* the path holds in every session, whatever the other connections do.     *)
(* The types of the loop's own state need two facts more: a payload is     *)
(* received only when a descriptor is free for it, unless the server is in *)
(* loopback, and an echo under way has something left to send.             *)
(***************************************************************************)
EXTENDS ServerLoop, T2HProofs

----------------------------------------------------------------------------
(* The T2H path *)

LEMMA DisconnectEnds == Disconnect => EndSession
BY DEF Disconnect

LEMMA ServerPathStep ==
  ASSUME Connect \/ ServerSteps
  PROVE  [T2HNext]_t2hVars
<1>1. CASE Connect
  BY <1>1 DEF Connect, T2HNext
<1>2. CASE Select \/ process_mgmt_data \/ SkipT2H \/ RecvPayload \/ RecvFails \/ PushPacket \/ EchoPacket
  BY <1>2 DEF Select, process_mgmt_data, SkipT2H, RecvPayload, RecvFails, PushPacket, EchoPacket
<1>3. CASE ControlDisconnects \/ MgmtFails \/ H2TFails \/ EchoFails \/ SendFails
  <2>1. Disconnect
    BY <1>3 DEF ControlDisconnects, MgmtFails, H2TFails, EchoFails, SendFails
  <2> QED BY <2>1, DisconnectEnds DEF T2HNext
<1>4. ASSUME NEW k \in 1..Len(ctrlQ), process_control_message(k)
      PROVE  [T2HNext]_t2hVars
  <2>1. set_loopback_mode \/ UNCHANGED t2hVars
    BY <1>4 DEF process_control_message, Execute
  <2> QED BY <2>1 DEF T2HNext
<1>5. ASSUME NEW n \in PacketLens \cup {need}, AcceptPacket(n) \/ KeepPacketWaiting(n)
      PROVE  [T2HNext]_t2hVars
  BY <1>5 DEF AcceptPacket, KeepPacketWaiting
<1>6. CASE Echo
  BY <1>6 DEF Echo, T2HNext
<1>7. CASE AcquireSegment
  BY <1>7 DEF AcquireSegment, T2HNext
<1>8. CASE SendSegment
  BY <1>8 DEF SendSegment, T2HNext
<1>9. CASE CompleteSegment
  BY <1>9 DEF CompleteSegment, T2HNext
<1> QED BY <1>1, <1>2, <1>3, <1>4, <1>5, <1>6, <1>7, <1>8, <1>9
        DEF ServerSteps, ControlSteps, H2TSteps, T2HSteps

LEMMA OtherPathStep ==
  ASSUME ClientSteps \/ IpSteps \/ UNCHANGED vars
  PROVE  [T2HNext]_t2hVars
<1>1. ASSUME NEW cmd \in Commands, SendCommand(cmd)
      PROVE  [T2HNext]_t2hVars
  BY <1>1 DEF SendCommand
<1>2. ASSUME NEW n \in PacketLens, SendPacketHeader(n)
      PROVE  [T2HNext]_t2hVars
  BY <1>2 DEF SendPacketHeader
<1>3. CASE SendMgmt \/ SendPayload \/ Leave \/ ConsumeDescriptor
  BY <1>3 DEF SendMgmt, SendPayload, Leave, ConsumeDescriptor
<1>4. CASE Receive
  BY <1>4 DEF Receive, T2HNext
<1>5. CASE ProduceSegment
  BY <1>5 DEF ProduceSegment, T2HNext
<1>6. CASE UNCHANGED vars
  BY <1>6 DEF vars
<1> QED BY <1>1, <1>2, <1>3, <1>4, <1>5, <1>6 DEF ClientSteps, IpSteps

\* The event loop implements the T2H path.
THEOREM LoopUsesPath == Spec => T2HSpec
<1>1. LoopInit => T2HInit
  BY DEF LoopInit
<1>2. [Next]_vars => [T2HNext]_t2hVars
  BY ServerPathStep, OtherPathStep DEF Next
<1> QED BY <1>1, <1>2, PTL DEF Spec, T2HSpec

\* A segment stays in memory until it is sent, in every session of the server.
THEOREM LoopKeepsSegments == Spec => []SegmentKept
BY LoopUsesPath, KeptUntilSent, PTL

\* So are packets marked where they start.
THEOREM LoopMarksStarts == Spec => []StartMarked
BY LoopUsesPath, StartsMarked, PTL

\* The server's clients receive the stream of segments.
THEOREM LoopDeliversStream == Spec => DeliversStream
BY LoopUsesPath, ImplementsStream, PTL

----------------------------------------------------------------------------
(* The loop's own state *)

Modes == {loop, h2tWaiting, mgmtWaiting, framed, up} \subseteq BOOLEAN

\* What the server does agrees with where process_t2h_data is.
Stages ==
  /\ stage \in {"connect", "serve", "receive", "echo", "t2h"}
  /\ ready \subseteq {"ctrl", "mgmt", "h2t", "t2h"}
  /\ stage = "t2h" <=> Busy
  /\ stage = "connect" <=> at = "off"

Commanded == ctrlQ \in Seq(Commands) /\ lost \in Nat /\ asked = Len(ctrlQ) + lost

Received ==
  /\ need \in PacketLens \cup {0} /\ left \in Nat
  /\ stage = "echo" => left > 0
  /\ h2tQ \in Seq(Nat) /\ owes \in Nat /\ mgmtQ \in Nat

Roomy == fifo \in 0..FifoDepth /\ (stage = "receive" /\ ~loop => fifo < FifoDepth)

LoopInv == Modes /\ Stages /\ Commanded /\ Received /\ Roomy /\ budget \in BudgetType

\* What a step can be, the five ways of disconnecting taken together.
LEMMA NextCases ==
  ASSUME [Next]_vars
  PROVE  \/ Connect \/ Disconnect \/ Select
         \/ \E k \in 1..Len(ctrlQ) : process_control_message(k)
         \/ process_mgmt_data
         \/ \E n \in PacketLens \cup {need} : AcceptPacket(n)
         \/ \E n \in PacketLens \cup {need} : KeepPacketWaiting(n)
         \/ RecvPayload \/ RecvFails \/ PushPacket \/ EchoPacket \/ Echo
         \/ SkipT2H \/ AcquireSegment \/ SendSegment \/ CompleteSegment
         \/ \E cmd \in Commands : SendCommand(cmd)
         \/ SendMgmt
         \/ \E n \in PacketLens : SendPacketHeader(n)
         \/ SendPayload \/ Receive \/ Leave \/ ConsumeDescriptor \/ ProduceSegment
         \/ UNCHANGED vars
<1>1. ControlDisconnects \/ MgmtFails \/ H2TFails \/ EchoFails \/ SendFails => Disconnect
  BY DEF ControlDisconnects, MgmtFails, H2TFails, EchoFails, SendFails
<1> QED BY <1>1, Zenon
        DEF Next, ServerSteps, ControlSteps, H2TSteps, T2HSteps, ClientSteps, IpSteps

LEMMA ModesStep ==
  ASSUME Modes, [Next]_vars
  PROVE  Modes'
<1> USE DEF Modes
<1>1. CASE \E k \in 1..Len(ctrlQ) : process_control_message(k)
  <2>1. UNCHANGED <<h2tWaiting, mgmtWaiting, framed, up>> /\ loop' \in {TRUE, FALSE, loop}
    BY <1>1, Zenon DEF process_control_message, Execute
  <2> QED BY <2>1, Zenon
<1>2. CASE Connect
  <2>1. UNCHANGED <<loop, h2tWaiting, mgmtWaiting>> /\ up' = TRUE /\ framed' \in BOOLEAN
    BY <1>2 DEF Connect
  <2> QED BY <2>1, Zenon
<1>3. CASE Disconnect \/ Leave
  <2>1. UNCHANGED <<loop, h2tWaiting, mgmtWaiting, framed>> /\ up' = FALSE
    BY <1>3 DEF Disconnect, Leave, serverVars, modeVars
  <2> QED BY <2>1, Zenon
<1>4. CASE process_mgmt_data
  <2>1. UNCHANGED <<loop, h2tWaiting, framed, up>> /\ mgmtWaiting' = TRUE
    BY <1>4 DEF process_mgmt_data
  <2> QED BY <2>1, Zenon
<1>5. CASE \/ \E n \in PacketLens \cup {need} : AcceptPacket(n)
           \/ \E n \in PacketLens \cup {need} : KeepPacketWaiting(n)
  <2>1. UNCHANGED <<loop, mgmtWaiting, framed, up>> /\ h2tWaiting' \in {TRUE, FALSE}
    BY <1>5 DEF AcceptPacket, KeepPacketWaiting
  <2> QED BY <2>1, Zenon
<1>6. CASE \/ Select \/ RecvPayload \/ RecvFails \/ PushPacket \/ EchoPacket \/ Echo
           \/ SkipT2H \/ AcquireSegment \/ SendSegment \/ CompleteSegment
  <2>1. UNCHANGED <<loop, h2tWaiting, mgmtWaiting, framed, up>>
    BY <1>6 DEF Select, RecvPayload, RecvFails, PushPacket, EchoPacket, Echo, SkipT2H,
                AcquireSegment, SendSegment, CompleteSegment, serverVars, modeVars, clientVars
  <2> QED BY <2>1, Zenon
<1>7. CASE \/ \E cmd \in Commands : SendCommand(cmd)
           \/ \E n \in PacketLens : SendPacketHeader(n)
           \/ SendMgmt \/ SendPayload \/ Receive \/ ConsumeDescriptor \/ ProduceSegment
           \/ UNCHANGED vars
  <2>1. UNCHANGED <<loop, h2tWaiting, mgmtWaiting, framed, up>>
    BY <1>7 DEF SendCommand, SendPacketHeader, SendMgmt, SendPayload, Receive, ConsumeDescriptor,
                ProduceSegment, vars, serverVars, modeVars, clientVars
  <2> QED BY <2>1, Zenon
<1> QED BY <1>1, <1>2, <1>3, <1>4, <1>5, <1>6, <1>7, NextCases, Zenon

LEMMA StagesStep ==
  ASSUME Stages, [Next]_vars
  PROVE  Stages'
<1> USE DEF Stages
<1>1. CASE Connect \/ Disconnect
  <2>1. \/ at' = "idle" /\ stage' = "serve"
        \/ at' = "off" /\ stage' = "connect"
    BY <1>1 DEF Connect, Disconnect, init_driver, EndSession
  <2>2. ready' = {}
    BY <1>1 DEF Connect, Disconnect
  <2> QED BY <2>1, <2>2 DEF Busy
<1>2. CASE Select
  BY <1>2 DEF Select, Ready, Busy, t2hVars, sendVars
<1>3. CASE \/ \E k \in 1..Len(ctrlQ) : process_control_message(k)
           \/ process_mgmt_data \/ SkipT2H
           \/ \E n \in PacketLens \cup {need} : KeepPacketWaiting(n)
  <2>1. at' = at
    BY <1>3 DEF process_control_message, Execute, set_loopback_mode, process_mgmt_data, SkipT2H,
                KeepPacketWaiting, t2hVars, sendVars
  <2>2. stage' = stage /\ ready' \subseteq ready
    BY <1>3 DEF process_control_message, process_mgmt_data, SkipT2H, KeepPacketWaiting, Served
  <2> QED BY <2>1, <2>2 DEF Busy
<1>4. CASE \E n \in PacketLens \cup {need} : AcceptPacket(n)
  <2>1. at' = at /\ stage = "serve" /\ stage' = "receive" /\ ready' \subseteq ready
    BY <1>4 DEF AcceptPacket, Turn, Served, t2hVars, sendVars
  <2> QED BY <2>1 DEF Busy
<1>5. CASE RecvPayload \/ RecvFails \/ PushPacket \/ EchoPacket \/ Echo
  <2>1. at' = at
    BY <1>5 DEF RecvPayload, RecvFails, PushPacket, EchoPacket, Echo, SendEcho, t2hVars, sendVars
  <2>2. stage \in {"receive", "echo"} /\ stage' \in {stage, "serve", "echo"} /\ ready' = ready
    BY <1>5 DEF RecvPayload, RecvFails, PushPacket, EchoPacket, Echo
  <2> QED BY <2>1, <2>2 DEF Busy
<1>6. CASE AcquireSegment
  <2>1. at' = "header" /\ stage' = "t2h" /\ ready' \subseteq ready
    BY <1>6 DEF AcquireSegment, get_t2h_data, Served
  <2> QED BY <2>1 DEF Busy
<1>7. CASE SendSegment
  <2>1. at' \in {"copy", "send", "complete"}
    BY <1>7 DEF SendSegment, SendHeader, CopyPiece, SendSome
  <2>2. stage' = stage /\ stage = "t2h" /\ ready' = ready
    BY <1>7 DEF SendSegment, serverVars
  <2> QED BY <2>1, <2>2 DEF Busy
<1>8. CASE CompleteSegment
  <2>1. at' = "idle" /\ stage' = "serve" /\ ready' = ready
    BY <1>8 DEF CompleteSegment, t2h_data_complete
  <2> QED BY <2>1 DEF Busy
<1>9. CASE \/ \E cmd \in Commands : SendCommand(cmd)
           \/ \E n \in PacketLens : SendPacketHeader(n)
           \/ SendMgmt \/ SendPayload \/ Receive \/ Leave \/ ConsumeDescriptor \/ ProduceSegment
           \/ UNCHANGED vars
  <2>1. at' = at
    BY <1>9 DEF SendCommand, SendPacketHeader, SendMgmt, SendPayload, Receive, ClientReceives, Leave,
                ConsumeDescriptor, ProduceSegment, Post, vars, t2hVars, sendVars
  <2>2. stage' = stage /\ ready' = ready
    BY <1>9 DEF SendCommand, SendPacketHeader, SendMgmt, SendPayload, Receive, Leave,
                ConsumeDescriptor, ProduceSegment, vars, serverVars
  <2> QED BY <2>1, <2>2 DEF Busy
<1> QED BY <1>1, <1>2, <1>3, <1>4, <1>5, <1>6, <1>7, <1>8, <1>9, NextCases, Zenon

LEMMA CommandedStep ==
  ASSUME Commanded, [Next]_vars
  PROVE  Commanded'
<1> USE DEF Commanded
<1>1. ASSUME NEW k \in 1..Len(ctrlQ), process_control_message(k)
      PROVE  Commanded'
  <2>1. ctrlQ' = SubSeq(ctrlQ, k + 1, Len(ctrlQ)) /\ asked' = asked - 1 /\ lost' = lost + k - 1
    BY <1>1 DEF process_control_message
  <2>2. Len(ctrlQ) \in Nat /\ \A i \in (k + 1)..Len(ctrlQ) : ctrlQ[i] \in Commands
    <3>1. Len(ctrlQ) \in Nat /\ ctrlQ \in [1..Len(ctrlQ) -> Commands]
      BY LenProperties
    <3> QED BY <3>1
  <2>3. /\ ctrlQ' \in Seq(Commands)
        /\ Len(ctrlQ') = IF k + 1 <= Len(ctrlQ) THEN Len(ctrlQ) - (k + 1) + 1 ELSE 0
    <3>1. k + 1 \in Int /\ Len(ctrlQ) \in Int
      BY <2>2
    <3> QED BY <2>1, <2>2, <3>1, SubSeqProperties
  <2>4. Len(ctrlQ') = Len(ctrlQ) - k
    BY <2>2, <2>3
  <2>5. lost' \in Nat /\ asked' = Len(ctrlQ') + lost'
    <3>1. Len(ctrlQ) \in Nat /\ k \in 1..Len(ctrlQ) /\ lost \in Nat /\ asked = Len(ctrlQ) + lost
      BY <2>2
    <3>2. asked' = asked - 1 /\ lost' = lost + k - 1
      BY <2>1
    <3> DEFINE n == Len(ctrlQ)
    <3>3. n \in Nat /\ k \in 1..n /\ asked = n + lost /\ Len(ctrlQ') = n - k
      BY <3>1, <2>4
    <3> HIDE DEF n
    <3> QED BY <3>1, <3>2, <3>3
  <2> QED BY <2>3, <2>5
<1>2. ASSUME NEW cmd \in Commands, SendCommand(cmd)
      PROVE  Commanded'
  <2>1. ctrlQ' = Append(ctrlQ, cmd) /\ asked' = asked + 1 /\ lost' = lost
    BY <1>2 DEF SendCommand
  <2>2. ctrlQ' \in Seq(Commands) /\ Len(ctrlQ') = Len(ctrlQ) + 1 /\ Len(ctrlQ) \in Nat
    BY <2>1, AppendProperties
  <2> QED BY <2>1, <2>2
<1>3. CASE Disconnect
  BY <1>3, EmptySeq DEF Disconnect
<1>4. CASE \/ Connect \/ Select \/ process_mgmt_data
           \/ \E n \in PacketLens \cup {need} : AcceptPacket(n)
           \/ \E n \in PacketLens \cup {need} : KeepPacketWaiting(n)
           \/ RecvPayload \/ RecvFails \/ PushPacket \/ EchoPacket \/ Echo
           \/ SkipT2H \/ AcquireSegment \/ SendSegment \/ CompleteSegment
  <2>1. UNCHANGED <<ctrlQ, asked, lost>>
    BY <1>4 DEF Connect, Select, process_mgmt_data, AcceptPacket, KeepPacketWaiting, RecvPayload,
                RecvFails, PushPacket, EchoPacket, Echo, SkipT2H, AcquireSegment, SendSegment,
                CompleteSegment, clientVars, ctrlVars
  <2> QED BY <2>1
<1>5. CASE \/ SendMgmt \/ \E n \in PacketLens : SendPacketHeader(n)
           \/ SendPayload \/ Receive \/ Leave \/ ConsumeDescriptor \/ ProduceSegment
           \/ UNCHANGED vars
  <2>1. UNCHANGED <<ctrlQ, asked, lost>>
    BY <1>5 DEF SendMgmt, SendPacketHeader, SendPayload, Receive, Leave, ConsumeDescriptor,
                ProduceSegment, vars, clientVars, ctrlVars
  <2> QED BY <2>1
<1> QED BY <1>1, <1>2, <1>3, <1>4, <1>5, NextCases, Zenon

\* Taking the header of a packet leaves the items behind it.
LEMMA HeaderTaken ==
  ASSUME Received, NEW n \in PacketLens \cup {need}, update_curr_h2t_header(n)
  PROVE  n \in PacketLens \cup {0} /\ n \in Nat /\ h2tQ' \in Seq(Nat)
<1>1. n \in PacketLens \cup {0} /\ n \in Nat
  BY LoopAssumption DEF Received
<1>2. h2tQ' = h2tQ \/ (h2tQ # <<>> /\ h2tQ' = Tail(h2tQ))
  BY DEF update_curr_h2t_header
<1>3. h2tQ' \in Seq(Nat)
  BY <1>2, HeadTailProperties DEF Received
<1> QED BY <1>1, <1>3

LEMMA ReceivedStep ==
  ASSUME Received, [Next]_vars
  PROVE  Received'
<1>t. /\ need \in PacketLens \cup {0} /\ left \in Nat /\ h2tQ \in Seq(Nat)
      /\ owes \in Nat /\ mgmtQ \in Nat /\ (stage = "echo" => left > 0)
      /\ need \in Nat
  BY LoopAssumption DEF Received
<1>1. ASSUME NEW n \in PacketLens \cup {need}, AcceptPacket(n) \/ KeepPacketWaiting(n)
      PROVE  Received'
  <2>1. n \in PacketLens \cup {0} /\ n \in Nat /\ h2tQ' \in Seq(Nat)
    BY <1>1, HeaderTaken DEF AcceptPacket, KeepPacketWaiting
  <2>2. need' = n /\ left' \in {n, left} /\ owes' = owes /\ mgmtQ' = mgmtQ
    BY <1>1 DEF AcceptPacket, KeepPacketWaiting
  <2>3. stage' # "echo"
    BY <1>1 DEF AcceptPacket, KeepPacketWaiting, Turn
  <2> QED BY <2>1, <2>2, <2>3, <1>t DEF Received
<1>2. CASE Disconnect
  BY <1>2, <1>t, EmptySeq DEF Disconnect, Received, modeVars
<1>3. CASE RecvPayload
  <2>1. h2tQ' \in Seq(Nat)
    BY <1>3, <1>t, HeadTailProperties DEF RecvPayload
  <2>2. left' \in Nat /\ stage' # "echo" /\ UNCHANGED <<need, owes, mgmtQ>>
    BY <1>3, <1>t DEF RecvPayload, modeVars
  <2> QED BY <2>1, <2>2, <1>t DEF Received
<1>4. CASE RecvFails \/ EchoPacket \/ PushPacket
  <2>1. UNCHANGED <<need, h2tQ, owes, mgmtQ>>
    BY <1>4 DEF RecvFails, EchoPacket, PushPacket, modeVars, clientVars, h2tVars
  <2>2. left' \in Nat /\ (stage' = "echo" => left' > 0)
    BY <1>4, <1>t DEF RecvFails, EchoPacket, PushPacket
  <2> QED BY <2>1, <2>2, <1>t DEF Received
<1>5. CASE Echo
  <2>1. UNCHANGED <<need, h2tQ, owes, mgmtQ>>
    BY <1>5 DEF Echo, modeVars, clientVars, h2tVars
  <2>2. left' \in Nat /\ (stage' = "echo" => left' > 0)
    BY <1>5, <1>t DEF Echo
  <2> QED BY <2>1, <2>2, <1>t DEF Received
<1>6. CASE process_mgmt_data
  <2>1. UNCHANGED <<need, left, stage, h2tQ, owes>>
    BY <1>6 DEF process_mgmt_data, h2tVars
  <2>2. mgmtQ' = mgmtQ \/ (mgmtQ > 0 /\ mgmtQ' = mgmtQ - 1)
    BY <1>6 DEF process_mgmt_data
  <2>3. mgmtQ' \in Nat
    BY <2>2, <1>t
  <2> QED BY <2>1, <2>3, <1>t DEF Received
<1>7. CASE \E n \in PacketLens : SendPacketHeader(n)
  <2>1. PICK n \in PacketLens : SendPacketHeader(n)
    BY <1>7
  <2>2. n \in Nat /\ n + 1 \in Nat
    BY LoopAssumption
  <2>3. h2tQ' \in Seq(Nat) /\ owes' \in Nat
    BY <2>1, <2>2, <1>t, AppendProperties DEF SendPacketHeader
  <2>4. UNCHANGED <<need, left, stage, mgmtQ>>
    BY <2>1 DEF SendPacketHeader, serverVars, modeVars
  <2> QED BY <2>3, <2>4, <1>t DEF Received
<1>8. CASE SendPayload
  <2>1. h2tQ' \in Seq(Nat) /\ owes' \in Nat
    BY <1>8, <1>t, AppendProperties DEF SendPayload
  <2>2. UNCHANGED <<need, left, stage, mgmtQ>>
    BY <1>8 DEF SendPayload, serverVars, modeVars
  <2> QED BY <2>1, <2>2, <1>t DEF Received
<1>9. CASE SendMgmt \/ Leave
  <2>1. UNCHANGED <<need, left, stage, h2tQ>> /\ owes' \in Nat /\ mgmtQ' \in Nat
    BY <1>9, <1>t DEF SendMgmt, Leave, serverVars, modeVars, h2tVars
  <2> QED BY <2>1, <1>t DEF Received
<1>10. CASE Connect \/ AcquireSegment \/ CompleteSegment
  <2>1. UNCHANGED <<need, left, h2tQ, owes, mgmtQ>> /\ stage' # "echo"
    BY <1>10 DEF Connect, AcquireSegment, CompleteSegment, clientVars, modeVars, h2tVars
  <2> QED BY <2>1, <1>t DEF Received
<1>11. CASE \/ Select \/ \E k \in 1..Len(ctrlQ) : process_control_message(k)
            \/ SkipT2H \/ SendSegment
  <2>1. UNCHANGED <<need, left, stage, h2tQ, owes, mgmtQ>>
    BY <1>11 DEF Select, process_control_message, Execute, SkipT2H, SendSegment, clientVars,
                 serverVars, modeVars, h2tVars
  <2> QED BY <2>1, <1>t DEF Received
<1>12. CASE \/ \E cmd \in Commands : SendCommand(cmd)
            \/ Receive \/ ConsumeDescriptor \/ ProduceSegment \/ UNCHANGED vars
  <2>1. UNCHANGED <<need, left, stage, h2tQ, owes, mgmtQ>>
    BY <1>12 DEF SendCommand, Receive, ConsumeDescriptor, ProduceSegment, vars, clientVars,
                 serverVars, modeVars, h2tVars
  <2> QED BY <2>1, <1>t DEF Received
<1> QED BY <1>1, <1>2, <1>3, <1>4, <1>5, <1>6, <1>7, <1>8, <1>9, <1>10, <1>11, <1>12,
           NextCases, Zenon

LEMMA RoomyStep ==
  ASSUME Roomy, Modes, [Next]_vars
  PROVE  Roomy'
<1> USE DEF Roomy
<1>t. FifoDepth \in Nat \ {0}
  BY LoopAssumption
<1>0. CASE \E k \in 1..Len(ctrlQ) : process_control_message(k)
  <2>1. stage = "serve" /\ stage' = stage /\ (fifo' = 0 \/ fifo' = fifo)
    BY <1>0, Zenon DEF process_control_message, Execute, Turn
  <2> QED BY <2>1, <1>t
<1>1. CASE Connect \/ Disconnect \/ PushPacket
  <2>1. stage' # "receive"
    BY <1>1 DEF Connect, Disconnect, PushPacket
  <2>2. fifo' \in 0..FifoDepth
    BY <1>1, <1>t DEF Connect, Disconnect, PushPacket
  <2> QED BY <2>1, <2>2
<1>2. CASE \E n \in PacketLens \cup {need} : AcceptPacket(n)
  <2>1. (loop \/ fifo < FifoDepth) /\ loop' = loop /\ fifo' = fifo
    BY <1>2 DEF AcceptPacket, HasRoom
  <2> QED BY <2>1
<1>3. CASE RecvPayload \/ RecvFails \/ EchoPacket \/ Echo
  <2>1. loop' = loop /\ fifo' = fifo /\ (stage' = "receive" => stage = "receive")
    BY <1>3 DEF RecvPayload, RecvFails, EchoPacket, Echo, modeVars
  <2> QED BY <2>1
<1>4. CASE \/ Select \/ process_mgmt_data \/ SkipT2H
           \/ \E n \in PacketLens \cup {need} : KeepPacketWaiting(n)
           \/ AcquireSegment \/ SendSegment \/ CompleteSegment
  <2>1. loop' = loop /\ fifo' = fifo /\ (stage' = "receive" => stage = "receive")
    BY <1>4 DEF Select, process_mgmt_data, SkipT2H, KeepPacketWaiting, AcquireSegment, SendSegment,
                CompleteSegment, serverVars, modeVars
  <2> QED BY <2>1
<1>5. CASE ConsumeDescriptor
  <2>1. fifo > 0 /\ fifo' = fifo - 1 /\ loop' = loop /\ stage' = stage
    BY <1>5 DEF ConsumeDescriptor, serverVars, modeVars
  <2> QED BY <2>1, <1>t
<1>6. CASE \/ \E cmd \in Commands : SendCommand(cmd)
           \/ \E n \in PacketLens : SendPacketHeader(n)
           \/ SendMgmt \/ SendPayload \/ Receive \/ Leave \/ ProduceSegment \/ UNCHANGED vars
  <2>1. loop' = loop /\ fifo' = fifo /\ stage' = stage
    BY <1>6 DEF SendCommand, SendPacketHeader, SendMgmt, SendPayload, Receive, Leave,
                ProduceSegment, vars, serverVars, modeVars
  <2> QED BY <2>1
<1> QED BY <1>0, <1>1, <1>2, <1>3, <1>4, <1>5, <1>6, NextCases, Zenon

LEMMA BudgetStep ==
  ASSUME budget \in BudgetType, [Next]_vars
  PROVE  budget' \in BudgetType
<1>1. CASE \E cmd \in Commands : SendCommand(cmd)
  BY <1>1 DEF SendCommand, BudgetType
<1>2. CASE \E n \in PacketLens : SendPacketHeader(n)
  BY <1>2 DEF SendPacketHeader, BudgetType
<1>3. CASE SendMgmt
  BY <1>3 DEF SendMgmt, BudgetType
<1>4. CASE \/ Connect \/ Disconnect \/ Select
           \/ \E k \in 1..Len(ctrlQ) : process_control_message(k)
           \/ process_mgmt_data
           \/ \E n \in PacketLens \cup {need} : AcceptPacket(n)
           \/ \E n \in PacketLens \cup {need} : KeepPacketWaiting(n)
           \/ RecvPayload \/ RecvFails \/ PushPacket \/ EchoPacket \/ Echo
           \/ SkipT2H \/ AcquireSegment \/ SendSegment \/ CompleteSegment
  <2>1. budget' = budget
    BY <1>4 DEF Connect, Disconnect, Select, process_control_message, process_mgmt_data,
                AcceptPacket, KeepPacketWaiting, RecvPayload, RecvFails, PushPacket, EchoPacket,
                Echo, SkipT2H, AcquireSegment, SendSegment, CompleteSegment, clientVars
  <2> QED BY <2>1
<1>5. CASE \/ SendPayload \/ Receive \/ Leave \/ ConsumeDescriptor \/ ProduceSegment
           \/ UNCHANGED vars
  <2>1. budget' = budget
    BY <1>5 DEF SendPayload, Receive, Leave, ConsumeDescriptor, ProduceSegment, vars, clientVars
  <2> QED BY <2>1
<1> QED BY <1>1, <1>2, <1>3, <1>4, <1>5, NextCases, Zenon

LEMMA LoopInvInit ==
  ASSUME LoopInit
  PROVE  LoopInv
<1>1. Modes
  BY Zenon DEF LoopInit, Modes
<1>2. Stages
  BY DEF LoopInit, T2HInit, Stages, Busy
<1>3. Commanded
  BY EmptySeq DEF LoopInit, Commanded
<1>4. Received
  BY EmptySeq DEF LoopInit, Received
<1>5. Roomy
  BY LoopAssumption DEF LoopInit, Roomy
<1>6. budget \in BudgetType
  BY LoopAssumption DEF LoopInit
<1> QED BY <1>1, <1>2, <1>3, <1>4, <1>5, <1>6 DEF LoopInv

\* A descriptor is free for every payload being received, and the rest of LoopInv.
THEOREM LoopInvariant == Spec => []LoopInv
<1>1. LoopInit => LoopInv
  BY LoopInvInit
<1>2. LoopInv /\ [Next]_vars => LoopInv'
  BY ModesStep, StagesStep, CommandedStep, ReceivedStep, RoomyStep, BudgetStep DEF LoopInv
<1> QED BY <1>1, <1>2, PTL DEF Spec

\* The loop's state has its types, a command is unanswered while it is on its
\* way or was received together with an earlier one, the descriptors never
\* exceed the IP's, and the stage agrees with the segment in hand.
THEOREM LoopTyped == Spec => []TypeOK
<1>1. T2HTypeOK /\ LoopInv => TypeOK
  <2> SUFFICES ASSUME T2HTypeOK, LoopInv PROVE TypeOK
    OBVIOUS
  <2>1. /\ loop \in BOOLEAN /\ h2tWaiting \in BOOLEAN /\ mgmtWaiting \in BOOLEAN
        /\ up \in BOOLEAN /\ framed \in BOOLEAN
    BY Zenon DEF LoopInv, Modes
  <2>2. /\ stage \in {"connect", "serve", "receive", "echo", "t2h"}
        /\ ready \subseteq {"ctrl", "mgmt", "h2t", "t2h"}
    BY DEF LoopInv, Stages
  <2>3. (stage = "t2h") = Busy /\ (stage = "connect") = (at = "off")
    BY DEF LoopInv, Stages, Busy
  <2>4. ctrlQ \in Seq(Commands) /\ asked = Len(ctrlQ) + lost /\ lost \in Nat
    BY DEF LoopInv, Commanded
  <2>5. /\ need \in PacketLens \cup {0} /\ left \in Nat
        /\ h2tQ \in Seq(Nat) /\ owes \in Nat /\ mgmtQ \in Nat
    BY DEF LoopInv, Received
  <2>6. fifo \in 0..FifoDepth /\ budget \in BudgetType
    BY DEF LoopInv, Roomy
  <2> QED BY <2>1, <2>2, <2>3, <2>4, <2>5, <2>6, Zenon DEF TypeOK
<1> QED BY <1>1, LoopInvariant, LoopUsesPath, T2HTyped, PTL

----------------------------------------------------------------------------
(* The H2T connection *)

\* In a stream s that ends with o items of payload still to be sent, n items of
\* payload follow position j, and behind them a header.
Follow(s, o, j, n) == IF j + n < Len(s) THEN s[j + n + 1] > 0 ELSE o = j + n - Len(s)

\* ... which is so of r items at its beginning, and of every header's.
FramedStream(s, r, o) ==
  /\ Follow(s, o, 0, r)
  /\ \A j \in 1..Len(s) : s[j] > 0 => Follow(s, o, j, s[j] - 1)

\* Between sessions nothing is on its way, a packet in hand does not wait, and
\* the server reads headers where the client has put them.
Unconnected == stage = "connect" => ~up /\ h2tQ = <<>> /\ owes = 0
NotWaiting == stage \in {"receive", "echo"} => ~h2tWaiting
FramingInv == Unconnected /\ NotWaiting /\ (up /\ framed => FramedStream(h2tQ, Due, owes))

LEMMA AppendedAt ==
  ASSUME NEW s \in Seq(Nat), NEW x \in Nat
  PROVE  /\ Append(s, x) \in Seq(Nat) /\ Len(Append(s, x)) = Len(s) + 1 /\ Len(s) \in Nat
         /\ \A j \in 1..Len(s) : Append(s, x)[j] = s[j]
         /\ Append(s, x)[Len(s) + 1] = x
BY AppendProperties

LEMMA EmptyFramed == FramedStream(<<>>, 0, 0)
<1>1. ASSUME NEW s \in Seq(Nat), Len(s) = 0
      PROVE  FramedStream(s, 0, 0)
  <2>1. Follow(s, 0, 0, 0)
    BY <1>1 DEF Follow
  <2>2. \A j \in 1..Len(s) : FALSE
    BY <1>1
  <2> QED BY <2>1, <2>2 DEF FramedStream
<1>2. <<>> \in Seq(Nat) /\ Len(<<>>) = 0
  BY EmptySeq
<1> QED BY <1>1, <1>2, Zenon

\* A client that has sent all of a packet goes on with a header.
LEMMA HeaderSent ==
  ASSUME NEW s \in Seq(Nat), NEW r \in Nat, NEW n \in Nat, FramedStream(s, r, 0)
  PROVE  FramedStream(Append(s, n + 1), r, n)
<1> DEFINE t == Append(s, n + 1)
<1>1. /\ t \in Seq(Nat) /\ Len(t) = Len(s) + 1 /\ Len(s) \in Nat
      /\ \A j \in 1..Len(s) : t[j] = s[j]
      /\ t[Len(s) + 1] = n + 1
  BY AppendedAt
<1>2. \A j \in 1..Len(s) : s[j] \in Nat
  BY ElementOfSeq
<1> HIDE DEF t
<1>3. ASSUME NEW j \in 0..Len(s), NEW m \in Nat, Follow(s, 0, j, m)
      PROVE  Follow(t, n, j, m)
  <2>1. CASE j + m < Len(s)
    <3>1. j + m + 1 \in 1..Len(s) /\ j + m < Len(t)
      BY <2>1, <1>1
    <3>2. s[j + m + 1] > 0
      BY <2>1, <1>3 DEF Follow
    <3>3. t[j + m + 1] = s[j + m + 1]
      BY <3>1, <1>1
    <3> QED BY <3>1, <3>2, <3>3 DEF Follow
  <2>2. CASE ~(j + m < Len(s))
    <3>1. j + m = Len(s)
      BY <2>2, <1>1, <1>3 DEF Follow
    <3> QED BY <3>1, <1>1 DEF Follow
  <2> QED BY <2>1, <2>2
<1>4. Follow(t, n, 0, r)
  BY <1>3, <1>1 DEF FramedStream
<1>5. ASSUME NEW j \in 1..Len(t), t[j] > 0
      PROVE  Follow(t, n, j, t[j] - 1)
  <2>1. CASE j \in 1..Len(s)
    <3>1. s[j] > 0 /\ s[j] - 1 \in Nat /\ t[j] = s[j]
      BY <2>1, <1>1, <1>2, <1>5
    <3>2. Follow(s, 0, j, s[j] - 1)
      BY <2>1, <3>1 DEF FramedStream
    <3> QED BY <2>1, <3>1, <3>2, <1>3, <1>1
  <2>2. CASE j = Len(s) + 1
    BY <2>2, <1>1 DEF Follow
  <2> QED BY <2>1, <2>2, <1>1, <1>5
<1>6. FramedStream(t, r, n)
  BY <1>4, <1>5 DEF FramedStream
<1> QED BY <1>6 DEF t

\* One that has not, with an item of its payload.
LEMMA PayloadSent ==
  ASSUME NEW s \in Seq(Nat), NEW r \in Nat, NEW o \in Nat, o > 0, FramedStream(s, r, o)
  PROVE  FramedStream(Append(s, 0), r, o - 1)
<1> DEFINE t == Append(s, 0)
<1>1. /\ t \in Seq(Nat) /\ Len(t) = Len(s) + 1 /\ Len(s) \in Nat
      /\ \A j \in 1..Len(s) : t[j] = s[j]
      /\ t[Len(s) + 1] = 0
  BY AppendedAt
<1>2. \A j \in 1..Len(s) : s[j] \in Nat
  BY ElementOfSeq
<1> HIDE DEF t
<1>3. ASSUME NEW j \in 0..Len(s), NEW m \in Nat, Follow(s, o, j, m)
      PROVE  Follow(t, o - 1, j, m)
  <2>1. CASE j + m < Len(s)
    <3>1. j + m + 1 \in 1..Len(s) /\ j + m < Len(t)
      BY <2>1, <1>1
    <3>2. s[j + m + 1] > 0
      BY <2>1, <1>3 DEF Follow
    <3>3. t[j + m + 1] = s[j + m + 1]
      BY <3>1, <1>1
    <3> QED BY <3>1, <3>2, <3>3 DEF Follow
  <2>2. CASE ~(j + m < Len(s))
    <3>1. o = j + m - Len(s) /\ j + m >= Len(t)
      BY <2>2, <1>1, <1>3 DEF Follow
    <3> QED BY <3>1, <1>1 DEF Follow
  <2> QED BY <2>1, <2>2
<1>4. Follow(t, o - 1, 0, r)
  BY <1>3, <1>1 DEF FramedStream
<1>5. ASSUME NEW j \in 1..Len(t), t[j] > 0
      PROVE  Follow(t, o - 1, j, t[j] - 1)
  <2>1. j \in 1..Len(s)
    BY <1>1, <1>5
  <2>2. s[j] > 0 /\ s[j] - 1 \in Nat /\ t[j] = s[j]
    BY <2>1, <1>1, <1>2, <1>5
  <2>3. Follow(s, o, j, s[j] - 1)
    BY <2>1, <2>2 DEF FramedStream
  <2> QED BY <2>1, <2>2, <2>3, <1>3, <1>1
<1>6. FramedStream(t, r, o - 1)
  BY <1>4, <1>5 DEF FramedStream
<1> QED BY <1>6 DEF t

LEMMA TailAt ==
  ASSUME NEW s \in Seq(Nat), s # <<>>
  PROVE  /\ Tail(s) \in Seq(Nat) /\ Len(Tail(s)) = Len(s) - 1 /\ Len(s) \in Nat \ {0}
         /\ \A j \in 1..(Len(s) - 1) : Tail(s)[j] = s[j + 1]
         /\ Head(s) = s[1] /\ s[1] \in Nat
BY HeadTailProperties, EmptySeq, ElementOfSeq

\* Behind the first item each position is one less.
LEMMA FollowInTail ==
  ASSUME NEW s \in Seq(Nat), s # <<>>, NEW o \in Nat, NEW j \in Nat, NEW m \in Nat,
         Follow(s, o, j + 1, m)
  PROVE  Follow(Tail(s), o, j, m)
<1> DEFINE t == Tail(s)
<1>1. /\ Len(t) = Len(s) - 1 /\ Len(s) \in Nat \ {0}
      /\ \A k \in 1..(Len(s) - 1) : t[k] = s[k + 1]
  BY TailAt
<1> HIDE DEF t
<1>2. CASE j + 1 + m < Len(s)
  <2>1. t[j + m + 1] = s[(j + m + 1) + 1]
    BY <1>1, <1>2
  <2>2. s[j + 1 + m + 1] > 0
    BY <1>2 DEF Follow
  <2>3. (j + m + 1) + 1 = j + 1 + m + 1
    OBVIOUS
  <2> QED BY <2>1, <2>2, <2>3, <1>1, <1>2 DEF Follow, t
<1>3. CASE ~(j + 1 + m < Len(s))
  BY <1>3, <1>1 DEF Follow, t
<1> QED BY <1>2, <1>3

\* The server takes an item of payload, or a header where there is none due.
LEMMA ItemTaken ==
  ASSUME NEW s \in Seq(Nat), s # <<>>, NEW r \in Nat, NEW o \in Nat, FramedStream(s, r, o)
  PROVE  /\ r > 0 => FramedStream(Tail(s), r - 1, o)
         /\ r = 0 => Head(s) > 0 /\ FramedStream(Tail(s), Head(s) - 1, o)
<1> DEFINE t == Tail(s)
<1>1. /\ t \in Seq(Nat) /\ Len(t) = Len(s) - 1 /\ Len(s) \in Nat \ {0}
      /\ \A j \in 1..(Len(s) - 1) : t[j] = s[j + 1]
      /\ Head(s) = s[1] /\ s[1] \in Nat
  BY TailAt
<1>2. \A j \in 1..Len(s) : s[j] \in Nat
  BY ElementOfSeq
<1>3. ASSUME NEW j \in 1..Len(t), t[j] > 0
      PROVE  Follow(t, o, j, t[j] - 1)
  <2>1. /\ j \in Nat /\ j + 1 \in 1..Len(s)
        /\ t[j] = s[j + 1] /\ s[j + 1] > 0 /\ s[j + 1] - 1 \in Nat
    BY <1>1, <1>2, <1>3
  <2>2. Follow(s, o, j + 1, s[j + 1] - 1)
    BY <2>1 DEF FramedStream
  <2> QED BY <2>1, <2>2, FollowInTail
<1>4. ASSUME r > 0
      PROVE  FramedStream(t, r - 1, o)
  <2>1. Follow(s, o, 0 + 1, r - 1)
    BY <1>4, <1>1 DEF FramedStream, Follow
  <2>2. Follow(t, o, 0, r - 1)
    BY <2>1, <1>4, FollowInTail
  <2> QED BY <2>2, <1>3 DEF FramedStream
<1>5. ASSUME r = 0
      PROVE  Head(s) > 0 /\ FramedStream(t, Head(s) - 1, o)
  <2>1. s[1] > 0 /\ s[1] - 1 \in Nat
    BY <1>5, <1>1 DEF FramedStream, Follow
  <2>2. Follow(s, o, 0 + 1, s[1] - 1)
    BY <2>1, <1>1 DEF FramedStream
  <2>3. Follow(t, o, 0, s[1] - 1)
    BY <2>1, <2>2, FollowInTail
  <2> QED BY <2>1, <2>3, <1>1, <1>3 DEF FramedStream
<1> QED BY <1>4, <1>5

\* The steps that leave the H2T connection and the packet in hand alone.
h2tState == <<stage, h2tWaiting, need, left, framed, up, h2tQ, owes>>

LEMMA FramingKept ==
  ASSUME FramingInv, UNCHANGED h2tState
  PROVE  FramingInv'
BY DEF FramingInv, Unconnected, NotWaiting, Due, h2tState

LEMMA UnconnectedStep ==
  ASSUME FramingInv, [Next]_vars
  PROVE  Unconnected' /\ NotWaiting'
<1> USE DEF FramingInv, Unconnected, NotWaiting
<1>1. CASE Connect \/ Disconnect
  BY <1>1 DEF Connect, Disconnect, modeVars
<1>2. CASE \/ Select \/ SkipT2H \/ SendSegment
           \/ \E k \in 1..Len(ctrlQ) : process_control_message(k)
  <2>1. UNCHANGED h2tState
    BY <1>2 DEF Select, SkipT2H, SendSegment, process_control_message, Execute,
                serverVars, modeVars, clientVars, h2tVars, h2tState
  <2> QED BY <2>1 DEF h2tState
<1>3. CASE process_mgmt_data
  BY <1>3 DEF process_mgmt_data, h2tVars
<1>4. CASE \/ \E n \in PacketLens \cup {need} : AcceptPacket(n)
           \/ \E n \in PacketLens \cup {need} : KeepPacketWaiting(n)
  BY <1>4 DEF AcceptPacket, KeepPacketWaiting, Turn
<1>5. CASE RecvPayload \/ RecvFails \/ PushPacket
  BY <1>5 DEF RecvPayload, RecvFails, PushPacket, modeVars
<1>6. CASE EchoPacket \/ Echo
  BY <1>6 DEF EchoPacket, Echo, modeVars
<1>7. CASE AcquireSegment \/ CompleteSegment
  BY <1>7 DEF AcquireSegment, CompleteSegment, modeVars
<1>8. CASE \/ \E cmd \in Commands : SendCommand(cmd)
           \/ \E n \in PacketLens : SendPacketHeader(n)
           \/ SendMgmt \/ SendPayload \/ Leave
  BY <1>8 DEF SendCommand, SendPacketHeader, SendMgmt, SendPayload, Leave, serverVars, modeVars
<1>9. CASE Receive \/ ConsumeDescriptor \/ ProduceSegment \/ UNCHANGED vars
  BY <1>9 DEF Receive, ConsumeDescriptor, ProduceSegment, vars, serverVars, modeVars, clientVars, h2tVars
<1> QED BY <1>1, <1>2, <1>3, <1>4, <1>5, <1>6, <1>7, <1>8, <1>9, NextCases, Zenon

\* A header is taken where one is, also when it has waited.
LEMMA HeaderInStep ==
  ASSUME Received, FramedStream(h2tQ, Due, owes), stage = "serve",
         NEW n \in PacketLens \cup {need}, update_curr_h2t_header(n)
  PROVE  FramedStream(h2tQ', n, owes)
<1>1. h2tQ \in Seq(Nat) /\ owes \in Nat
  BY DEF Received
<1>2. CASE h2tWaiting
  BY <1>2 DEF update_curr_h2t_header, Due
<1>3. CASE ~h2tWaiting
  <2>1. Due = 0 /\ h2tQ # <<>> /\ h2tQ' = Tail(h2tQ) /\ (Head(h2tQ) > 0 => n = Head(h2tQ) - 1)
    BY <1>3 DEF update_curr_h2t_header, Due
  <2>2. Head(h2tQ) > 0 /\ FramedStream(Tail(h2tQ), Head(h2tQ) - 1, owes)
    BY <2>1, <1>1, ItemTaken
  <2> QED BY <2>1, <2>2
<1> QED BY <1>2, <1>3

LEMMA FramedStep ==
  ASSUME FramingInv, Received, Modes, [Next]_vars, up', framed'
  PROVE  FramedStream(h2tQ, Due, owes)'
<1>t. /\ need \in Nat /\ left \in Nat /\ h2tQ \in Seq(Nat) /\ owes \in Nat
      /\ Due \in Nat
  BY LoopAssumption DEF Received, Due
<1>1. CASE Connect
  <2>1. h2tQ' = <<>> /\ owes' = 0 /\ stage' = "serve"
    BY <1>1 DEF Connect, FramingInv, Unconnected, h2tVars
  <2>2. need' = need /\ h2tWaiting' = h2tWaiting /\ ~(h2tWaiting /\ need > 0)
    BY <1>1 DEF Connect
  <2>3. Due' = 0
    BY <2>1, <2>2, <1>t DEF Due
  <2>4. FramedStream(h2tQ', 0, 0)
    BY <2>1, EmptyFramed
  <2> QED BY <2>1, <2>3, <2>4
<1>2. CASE Disconnect \/ Leave \/ RecvFails
  <2>1. ~up'
    BY <1>2 DEF Disconnect, Leave, RecvFails, clientVars
  <2> QED BY <2>1
<1>3. ASSUME NEW n \in PacketLens \cup {need}, AcceptPacket(n)
      PROVE  FramedStream(h2tQ, Due, owes)'
  <2>1. /\ stage = "serve" /\ update_curr_h2t_header(n) /\ up' = up /\ framed' = framed
        /\ stage' = "receive" /\ left' = n /\ owes' = owes
    BY <1>3 DEF AcceptPacket, Turn
  <2>2. Due' = n
    BY <2>1 DEF Due
  <2> QED BY <2>1, <2>2, HeaderInStep DEF FramingInv
<1>4. ASSUME NEW n \in PacketLens \cup {need}, KeepPacketWaiting(n)
      PROVE  FramedStream(h2tQ, Due, owes)'
  <2>1. /\ stage = "serve" /\ update_curr_h2t_header(n) /\ up' = up /\ framed' = framed
        /\ stage' = "serve" /\ h2tWaiting' = TRUE /\ need' = n /\ owes' = owes
    BY <1>4 DEF KeepPacketWaiting, Turn
  <2>2. Due' = n
    BY <2>1 DEF Due
  <2> QED BY <2>1, <2>2, HeaderInStep DEF FramingInv
<1>5. CASE RecvPayload
  <2>1. /\ stage = "receive" /\ stage' = stage /\ left > 0 /\ h2tQ # <<>>
        /\ h2tQ' = Tail(h2tQ) /\ left' = left - 1 /\ owes' = owes /\ up' = up /\ framed' = framed
    BY <1>5 DEF RecvPayload, modeVars
  <2>2. Due = left /\ Due' = left - 1
    BY <2>1 DEF Due
  <2>3. FramedStream(h2tQ, left, owes)
    BY <2>1, <2>2 DEF FramingInv
  <2>4. FramedStream(Tail(h2tQ), left - 1, owes)
    BY <2>1, <2>3, <1>t, ItemTaken
  <2> QED BY <2>1, <2>2, <2>4
<1>6. CASE PushPacket \/ EchoPacket \/ Echo
  <2>1. /\ UNCHANGED <<up, framed, h2tQ, owes, h2tWaiting>>
        /\ stage \in {"receive", "echo"} /\ stage' \in {"serve", "echo"}
        /\ stage = "receive" => left = 0
    BY <1>6 DEF PushPacket, EchoPacket, Echo, modeVars, clientVars, h2tVars
  <2>2. Due = 0 /\ Due' = 0
    BY <2>1 DEF Due, FramingInv, NotWaiting
  <2> QED BY <2>1, <2>2 DEF FramingInv
<1>7. CASE AcquireSegment \/ CompleteSegment
  <2>1. /\ UNCHANGED <<up, framed, h2tQ, owes, h2tWaiting, need>>
        /\ stage # "receive" /\ stage' # "receive"
    BY <1>7 DEF AcquireSegment, CompleteSegment, Turn, modeVars, clientVars, h2tVars
  <2>2. Due' = Due
    BY <2>1 DEF Due
  <2> QED BY <2>1, <2>2 DEF FramingInv
<1>8. CASE \E n \in PacketLens : SendPacketHeader(n)
  <2>1. PICK n \in PacketLens : SendPacketHeader(n)
    BY <1>8
  <2>2. /\ up /\ owes = 0 /\ h2tQ' = Append(h2tQ, n + 1) /\ owes' = n
        /\ UNCHANGED <<stage, left, h2tWaiting, need, framed>> /\ n \in Nat
    BY <2>1, LoopAssumption DEF SendPacketHeader, serverVars, modeVars
  <2>3. Due' = Due
    BY <2>2 DEF Due
  <2>4. FramedStream(h2tQ, Due, 0)
    BY <2>2 DEF FramingInv
  <2>5. FramedStream(Append(h2tQ, n + 1), Due, n)
    BY <2>2, <2>4, <1>t, HeaderSent
  <2> QED BY <2>2, <2>3, <2>5
<1>9. CASE SendPayload
  <2>1. /\ up /\ owes > 0 /\ h2tQ' = Append(h2tQ, 0) /\ owes' = owes - 1
        /\ UNCHANGED <<stage, left, h2tWaiting, need, framed>>
    BY <1>9 DEF SendPayload, serverVars, modeVars
  <2>2. Due' = Due
    BY <2>1 DEF Due
  <2>3. FramedStream(h2tQ, Due, owes)
    BY <2>1 DEF FramingInv
  <2>4. FramedStream(Append(h2tQ, 0), Due, owes - 1)
    BY <2>1, <2>3, <1>t, PayloadSent
  <2> QED BY <2>1, <2>2, <2>4
<1>10. CASE \/ Select \/ SkipT2H \/ SendSegment \/ process_mgmt_data
            \/ \E k \in 1..Len(ctrlQ) : process_control_message(k)
  <2>1. UNCHANGED h2tState
    BY <1>10 DEF Select, SkipT2H, SendSegment, process_mgmt_data, process_control_message, Execute,
                 serverVars, modeVars, clientVars, h2tVars, h2tState
  <2> QED BY <2>1, FramingKept DEF FramingInv
<1>11. CASE \/ \E cmd \in Commands : SendCommand(cmd)
            \/ SendMgmt \/ Receive \/ ConsumeDescriptor \/ ProduceSegment \/ UNCHANGED vars
  <2>1. UNCHANGED h2tState
    BY <1>11 DEF SendCommand, SendMgmt, Receive, ConsumeDescriptor, ProduceSegment, vars,
                 serverVars, modeVars, clientVars, h2tVars, h2tState
  <2> QED BY <2>1, FramingKept DEF FramingInv
<1> QED BY <1>1, <1>2, <1>3, <1>4, <1>5, <1>6, <1>7, <1>8, <1>9, <1>10, <1>11, NextCases, Zenon

LEMMA FramingInit ==
  ASSUME LoopInit
  PROVE  FramingInv
BY DEF LoopInit, FramingInv, Unconnected, NotWaiting

\* The framing of what the client sends and the packet the server has in hand
\* agree, through waits, retries, echoes and pushes (process_h2t_data), unless
\* the session began with the header of another client's packet.
THEOREM LoopFraming == Spec => []FramingInv
<1>1. LoopInit => FramingInv
  BY FramingInit
<1>2. LoopInv /\ FramingInv /\ [Next]_vars => FramingInv'
  <2> SUFFICES ASSUME LoopInv, FramingInv, [Next]_vars
               PROVE  FramingInv'
    OBVIOUS
  <2>1. Unconnected' /\ NotWaiting'
    BY UnconnectedStep
  <2>2. up' /\ framed' => FramedStream(h2tQ, Due, owes)'
    BY FramedStep DEF LoopInv
  <2> QED BY <2>1, <2>2 DEF FramingInv
<1> QED BY <1>1, <1>2, LoopInvariant, PTL DEF Spec

\* So the server is never blocked in a receive for payload that its client does
\* not owe it (process_h2t_data, update_curr_h2t_header), nor reads payload as a
\* header, whatever the packets' lengths, the IP's room and the commands between.
THEOREM LoopInStep == Spec => []InStep
<1>1. LoopInv /\ FramingInv => InStep
  <2> SUFFICES ASSUME LoopInv, FramingInv, up, framed
               PROVE  /\ Due <= Len(h2tQ) + owes
                      /\ Due < Len(h2tQ) => h2tQ[Due + 1] > 0
    BY DEF InStep
  <2>1. Due \in Nat /\ owes \in Nat /\ Len(h2tQ) \in Nat
    BY LoopAssumption, LenProperties DEF LoopInv, Received, Due
  <2>2. IF 0 + Due < Len(h2tQ) THEN h2tQ[0 + Due + 1] > 0 ELSE owes = 0 + Due - Len(h2tQ)
    BY DEF FramingInv, FramedStream, Follow
  <2>3. 0 + Due = Due
    BY <2>1
  <2> QED BY <2>1, <2>2, <2>3
<1> QED BY <1>1, LoopInvariant, LoopFraming, PTL
=============================================================================
