----------------------------- MODULE ServerLoop -----------------------------
(***************************************************************************)
(* The event loop of a session: handle_client samples the five connections *)
(* with select and then serves those that were ready, in the order control *)
(* messages, MGMT, H2T, T2H, each with blocking calls.  Between sessions   *)
(* the IP is reset by init_driver; loopback_mode, h2t_waiting, the header  *)
(* in h2t_header_buff and mgmt_waiting are not.                            *)
(*                                                                         *)
(* T2H is T2HPath's.  Of H2T only the number of descriptors the IP holds   *)
(* is kept (H2TRing has the rest): there may be no room unless it holds    *)
(* none, and there is none when it holds FifoDepth.  MGMT is compiled out  *)
(* (ENABLE_MGMT is 0): there never is room for a MGMT packet, the          *)
(* addresses of its memory being 0, and MGMT_RSP is not served.            *)
(*                                                                         *)
(* The client is external.  It may send anything allowed at any time and   *)
(* leave at any time.  What it sent may still be received afterwards, and  *)
(* sends may succeed, but any use of its connections may fail (and         *)
(* ClientSessions shows that a send may then kill the program).  On its    *)
(* H2T connection a header is an item, its length plus 1, and so is every  *)
(* byte of payload, 0: what the server takes for a header may be payload.  *)
(***************************************************************************)
EXTENDS T2HPath

CONSTANTS
  PacketLens,  \* DATA_LEN_BYTES of H2T packets
  FifoDepth,   \* H2T descriptors of the IP
  Budgets      \* bounds: what clients and IP may send in all, see BudgetType

BudgetType == [cmds : Nat, packets : Nat, mgmt : Nat, segments : 0..MaxSegs]

ASSUME LoopAssumption ==
  /\ PacketLens \subseteq Nat
  /\ FifoDepth \in Nat \ {0}
  /\ Budgets \subseteq BudgetType

VARIABLES
  (* server *)
  stage,       \* what it is doing: serving the ready ones, or blocked in a call
  ready,       \* connections select reported and that are still to be served
  loop,        \* loopback_mode
  h2tWaiting,  \* h2t_waiting
  need,        \* DATA_LEN_BYTES of the header in h2t_header_buff
  left,        \* items of payload still to be received, or to be echoed
  mgmtWaiting, \* mgmt_waiting
  framed,      \* history: no payload was due when this session began
  (* connections and client *)
  up,          \* the client has its connections open
  ctrlQ,       \* commands it has sent and the server has not received
  asked,       \* commands it has no answer to
  lost,        \* history: those received together with an earlier one
  h2tQ,        \* items it has sent on H2T
  owes,        \* payload of its last packet that it has not sent yet
  mgmtQ,       \* MGMT headers it has sent
  budget,      \* what is left of the bounds
  (* ST Debug IP *)
  fifo         \* H2T descriptors not consumed

modeVars   == <<loop, h2tWaiting, need, mgmtWaiting, framed>>
serverVars == <<stage, ready, modeVars, left>>
ctrlVars   == <<ctrlQ, asked, lost>>
h2tVars    == <<h2tQ, owes>>
clientVars == <<up, ctrlVars, h2tVars, mgmtQ, budget>>
vars == <<t2hVars, serverVars, clientVars, fifo>>

LoopInit ==
  /\ T2HInit
  /\ stage = "connect" /\ ready = {}
  /\ loop = FALSE /\ h2tWaiting = FALSE /\ need = 0 /\ left = 0 /\ mgmtWaiting = FALSE
  /\ framed = TRUE
  /\ up = FALSE /\ ctrlQ = <<>> /\ asked = 0 /\ lost = 0
  /\ h2tQ = <<>> /\ owes = 0 /\ mgmtQ = 0
  /\ budget \in Budgets
  /\ fifo = 0

----------------------------------------------------------------------------
(* Sessions *)

\* connect_client: init_driver resets the IP, a client takes the connections.
\* It does not send the payload that a header left by another one announced.
Connect ==
  /\ stage = "connect"
  /\ init_driver
  /\ stage' = "serve" /\ ready' = {}
  /\ up' = TRUE
  /\ fifo' = 0
  /\ framed' = ~(h2tWaiting /\ need > 0)
  /\ UNCHANGED <<loop, h2tWaiting, need, mgmtWaiting, left, ctrlVars, h2tVars, mgmtQ, budget>>

\* handle_client breaks out of its loop; close_client_conn closes everything.
Disconnect ==
  /\ EndSession
  /\ stage' = "connect" /\ ready' = {} /\ left' = 0
  /\ up' = FALSE
  /\ ctrlQ' = <<>> /\ asked' = 0 /\ lost' = 0
  /\ h2tQ' = <<>> /\ owes' = 0 /\ mgmtQ' = 0
  /\ UNCHANGED <<modeVars, budget, fifo>>

----------------------------------------------------------------------------
(* handle_client *)

Order == <<"ctrl", "mgmt", "h2t", "t2h">>
Turn(c) ==
  /\ stage = "serve" /\ c \in ready
  /\ \A j, k \in DOMAIN Order : j < k /\ Order[k] = c => Order[j] \notin ready
Served(c) == ready' = ready \ {c}

\* Mutant: the H2T connection is not polled while its packet waits.
Ready_not_waiting ==
  {c \in {"ctrl", "mgmt", "h2t", "t2h"} :
     \/ ~up
     \/ c = "ctrl" /\ ctrlQ # <<>>
     \/ c = "mgmt" /\ mgmtQ > 0
     \/ c = "h2t" /\ h2tQ # <<>> /\ ~h2tWaiting
     \/ c = "t2h" /\ sock < SockRoom}

\* A closed connection is readable, and writable.
Ready ==
  {c \in {"ctrl", "mgmt", "h2t", "t2h"} :
     \/ ~up
     \/ c = "ctrl" /\ ctrlQ # <<>>
     \/ c = "mgmt" /\ mgmtQ > 0
     \/ c = "h2t" /\ h2tQ # <<>>
     \/ c = "t2h" /\ sock < SockRoom}

\* select returns what is ready, after a second if nothing is.
Select ==
  /\ stage = "serve" /\ ready = {}
  /\ ready' = Ready
  /\ UNCHANGED <<t2hVars, stage, modeVars, left, clientVars, fifo>>

----------------------------------------------------------------------------
(* process_control_message *)

\* The command's effect: PING and the GET commands have none.
Execute(cmd) ==
  /\ loop' = CASE cmd = "loopback on" -> TRUE
               [] cmd = "loopback off" -> FALSE
               [] OTHER -> loop
  /\ IF cmd = "hw loopback"
     THEN set_loopback_mode /\ fifo' = 0
     ELSE UNCHANGED <<t2hVars, fifo>>
  /\ UNCHANGED <<h2tWaiting, need, mgmtWaiting, framed>>

\* socket_recv_until_null_reached takes what there is, up to k commands; the
\* first one is executed and answered.
process_control_message(k) ==
  /\ Turn("ctrl")
  /\ k \in 1..Len(ctrlQ) /\ Head(ctrlQ) # "disconnect"
  /\ Execute(Head(ctrlQ))
  /\ ctrlQ' = SubSeq(ctrlQ, k + 1, Len(ctrlQ))
  /\ asked' = asked - 1 /\ lost' = lost + k - 1
  /\ Served("ctrl")
  /\ UNCHANGED <<stage, left, up, h2tVars, mgmtQ, budget>>

\* DISCONNECT, answered before the session ends; or the client has left.
ControlDisconnects ==
  /\ Turn("ctrl") /\ (up => Head(ctrlQ) = "disconnect")
  /\ Disconnect

----------------------------------------------------------------------------
(* process_mgmt_data: the header is received, and waits for ever. *)

\* Mutant: it is waited for in place.
process_mgmt_data_spins ==
  /\ Turn("mgmt") /\ (mgmtQ > 0 \/ mgmtWaiting)
  /\ mgmtWaiting' = TRUE
  /\ mgmtQ' = IF mgmtWaiting THEN mgmtQ ELSE mgmtQ - 1
  /\ UNCHANGED <<t2hVars, stage, ready, loop, h2tWaiting, need, framed, left,
                 up, ctrlVars, h2tVars, budget, fifo>>

process_mgmt_data ==
  /\ Turn("mgmt") /\ (mgmtQ > 0 \/ mgmtWaiting)
  /\ mgmtWaiting' = TRUE
  /\ mgmtQ' = IF mgmtWaiting THEN mgmtQ ELSE mgmtQ - 1
  /\ Served("mgmt")
  /\ UNCHANGED <<t2hVars, stage, loop, h2tWaiting, need, framed, left,
                 up, ctrlVars, h2tVars, budget, fifo>>

MgmtFails == Turn("mgmt") /\ ~up /\ ~mgmtWaiting /\ Disconnect

----------------------------------------------------------------------------
(* process_h2t_data *)

\* Mutant: a header is received also while one waits.
update_curr_h2t_header_again(n) ==
  /\ h2tQ # <<>>
  /\ Head(h2tQ) > 0 => n = Head(h2tQ) - 1
  /\ h2tQ' = Tail(h2tQ)

\* update_curr_h2t_header: header n is taken from the connection unless one is
\* waiting.  The guard band in front of it is not looked at.
update_curr_h2t_header(n) ==
  IF h2tWaiting
  THEN n = need /\ UNCHANGED h2tQ
  ELSE /\ h2tQ # <<>>
       /\ Head(h2tQ) > 0 => n = Head(h2tQ) - 1
       /\ h2tQ' = Tail(h2tQ)

\* Mutant: one descriptor too many.
HasRoom_more == loop \/ fifo <= FifoDepth

HasRoom == loop \/ fifo < FifoDepth

HasNoRoom == ~loop /\ fifo > 0

AcceptPacket(n) ==
  /\ Turn("h2t")
  /\ update_curr_h2t_header(n)
  /\ HasRoom
  /\ h2tWaiting' = FALSE /\ need' = n /\ left' = n
  /\ stage' = "receive"
  /\ Served("h2t")
  /\ UNCHANGED <<t2hVars, loop, mgmtWaiting, framed, up, ctrlVars, owes, mgmtQ, budget, fifo>>

KeepPacketWaiting(n) ==
  /\ Turn("h2t")
  /\ update_curr_h2t_header(n)
  /\ HasNoRoom
  /\ h2tWaiting' = TRUE /\ need' = n
  /\ Served("h2t")
  /\ UNCHANGED <<t2hVars, stage, loop, mgmtWaiting, framed, left,
                 up, ctrlVars, owes, mgmtQ, budget, fifo>>

H2TFails == Turn("h2t") /\ ~up /\ ~h2tWaiting /\ Disconnect

\* The receives block until the payload is there.
RecvPayload ==
  /\ stage = "receive" /\ left > 0
  /\ h2tQ # <<>>
  /\ h2tQ' = Tail(h2tQ) /\ left' = left - 1
  /\ UNCHANGED <<t2hVars, stage, ready, modeVars, up, ctrlVars, owes, mgmtQ, budget, fifo>>

\* Mutant: the receive of a closed connection is repeated.
RecvFails_again == stage = "receive" /\ left > 0 /\ ~up /\ UNCHANGED vars

\* socket_recv_accumulate_h2t_data hides that the receive failed.
RecvFails ==
  /\ stage = "receive" /\ left > 0
  /\ ~up
  /\ left' = 0
  /\ UNCHANGED <<t2hVars, stage, ready, modeVars, clientVars, fifo>>

PushPacket ==
  /\ stage = "receive" /\ left = 0 /\ ~loop
  /\ fifo' = fifo + 1
  /\ stage' = "serve"
  /\ UNCHANGED <<t2hVars, ready, modeVars, left, clientVars>>

\* Server loopback: header and payload go back on T2H.
EchoPacket ==
  /\ stage = "receive" /\ left = 0 /\ loop
  /\ stage' = "echo" /\ left' = need + 1
  /\ UNCHANGED <<t2hVars, ready, modeVars, clientVars, fifo>>

Echo ==
  /\ stage = "echo"
  /\ SendEcho
  /\ left' = left - 1
  /\ stage' = IF left = 1 THEN "serve" ELSE "echo"
  /\ UNCHANGED <<ready, modeVars, clientVars, fifo>>

EchoFails == stage = "echo" /\ ~up /\ Disconnect

----------------------------------------------------------------------------
(* process_t2h_data, only without server loopback *)

\* Mutant: a waiting H2T packet comes first.
NothingToSend_h2t_first == loop \/ h2tWaiting \/ popped = Len(posted)

NothingToSend == loop \/ popped = Len(posted)

SkipT2H ==
  /\ Turn("t2h") /\ NothingToSend
  /\ Served("t2h")
  /\ UNCHANGED <<t2hVars, stage, modeVars, left, clientVars, fifo>>

AcquireSegment ==
  /\ Turn("t2h") /\ ~NothingToSend
  /\ get_t2h_data
  /\ stage' = "t2h"
  /\ Served("t2h")
  /\ UNCHANGED <<modeVars, left, clientVars, fifo>>

SendSegment ==
  /\ stage = "t2h"
  /\ SendHeader \/ CopyPiece \/ \E n \in 1..SockRoom : SendSome(n)
  /\ UNCHANGED <<serverVars, clientVars, fifo>>

CompleteSegment ==
  /\ stage = "t2h"
  /\ t2h_data_complete
  /\ stage' = "serve"
  /\ UNCHANGED <<ready, modeVars, left, clientVars, fifo>>

SendFails == stage = "t2h" /\ ~up /\ at \in {"header", "send"} /\ Disconnect

----------------------------------------------------------------------------
(* The client *)

SendCommand(cmd) ==
  /\ up /\ budget.cmds > 0
  /\ budget' = [budget EXCEPT !.cmds = @ - 1]
  /\ ctrlQ' = Append(ctrlQ, cmd) /\ asked' = asked + 1
  /\ UNCHANGED <<t2hVars, serverVars, up, lost, h2tVars, mgmtQ, fifo>>

SendMgmt ==
  /\ up /\ budget.mgmt > 0
  /\ budget' = [budget EXCEPT !.mgmt = @ - 1]
  /\ mgmtQ' = mgmtQ + 1
  /\ UNCHANGED <<t2hVars, serverVars, up, ctrlVars, h2tVars, fifo>>

SendPacketHeader(n) ==
  /\ up /\ owes = 0 /\ budget.packets > 0
  /\ budget' = [budget EXCEPT !.packets = @ - 1]
  /\ h2tQ' = Append(h2tQ, n + 1) /\ owes' = n
  /\ UNCHANGED <<t2hVars, serverVars, up, ctrlVars, mgmtQ, fifo>>

SendPayload ==
  /\ up /\ owes > 0
  /\ h2tQ' = Append(h2tQ, 0) /\ owes' = owes - 1
  /\ UNCHANGED <<t2hVars, serverVars, up, ctrlVars, mgmtQ, budget, fifo>>

Receive ==
  /\ up /\ ClientReceives
  /\ UNCHANGED <<serverVars, clientVars, fifo>>

Leave ==
  /\ up
  /\ up' = FALSE
  /\ owes' = 0
  /\ UNCHANGED <<t2hVars, serverVars, ctrlVars, h2tQ, mgmtQ, budget, fifo>>

----------------------------------------------------------------------------
(* The IP *)

ConsumeDescriptor ==
  /\ fifo > 0
  /\ fifo' = fifo - 1
  /\ UNCHANGED <<t2hVars, serverVars, clientVars>>

ProduceSegment ==
  /\ made < budget.segments
  /\ \E where \in 0..(Span - 1), len \in Lens, last \in BOOLEAN : Post(where, len, last)
  /\ UNCHANGED <<serverVars, clientVars, fifo>>

----------------------------------------------------------------------------
ControlSteps == (\E k \in 1..Len(ctrlQ) : process_control_message(k)) \/ ControlDisconnects

H2TSteps ==
  \/ \E n \in PacketLens \cup {need} : AcceptPacket(n) \/ KeepPacketWaiting(n)
  \/ H2TFails \/ RecvPayload \/ RecvFails \/ PushPacket
  \/ EchoPacket \/ Echo \/ EchoFails

T2HSteps == SkipT2H \/ AcquireSegment \/ SendSegment \/ CompleteSegment \/ SendFails

ServerSteps ==
  Select \/ ControlSteps \/ process_mgmt_data \/ MgmtFails \/ H2TSteps \/ T2HSteps

Commands == {"ping", "disconnect", "loopback on", "loopback off", "hw loopback"}

ClientSteps ==
  \/ \E cmd \in Commands : SendCommand(cmd)
  \/ SendMgmt \/ (\E n \in PacketLens : SendPacketHeader(n)) \/ SendPayload
  \/ Receive \/ Leave

IpSteps == ConsumeDescriptor \/ ProduceSegment

Next == Connect \/ ServerSteps \/ ClientSteps \/ IpSteps

Spec == LoopInit /\ [][Next]_vars

\* The server's thread is scheduled, the IP drains its descriptors, and the
\* client reads what it is sent and completes the packets it has begun, if need
\* be while it waits for the server; it need not send, stay or come back.
Fairness ==
  /\ WF_vars(ServerSteps) /\ WF_vars(ConsumeDescriptor)
  /\ WF_vars(Receive) /\ WF_vars(SendPayload)

FairSpec == Spec /\ Fairness

----------------------------------------------------------------------------
(* Properties *)

\* Types; a command is unanswered as long as it is on its way or was received
\* together with an earlier one; and the stage agrees with the segment in hand.
TypeOK ==
  /\ T2HTypeOK
  /\ stage \in {"connect", "serve", "receive", "echo", "t2h"}
  /\ ready \subseteq {"ctrl", "mgmt", "h2t", "t2h"}
  /\ loop \in BOOLEAN /\ h2tWaiting \in BOOLEAN /\ mgmtWaiting \in BOOLEAN /\ up \in BOOLEAN
  /\ framed \in BOOLEAN
  /\ need \in PacketLens \cup {0} /\ left \in Nat
  /\ ctrlQ \in Seq(Commands) /\ asked = Len(ctrlQ) + lost /\ lost \in Nat
  /\ h2tQ \in Seq(Nat) /\ owes \in Nat /\ mgmtQ \in Nat
  /\ budget \in BudgetType
  /\ fifo \in 0..FifoDepth
  /\ (stage = "t2h") = Busy /\ (stage = "connect") = (at = "off")

\* The server never waits for payload that nobody owes it: what process_h2t_data
\* will receive without select's leave is on its way or still to be sent, and
\* behind it comes a header, however packets waited, were retried, echoed or
\* pushed in between.  Only a header left by another client puts it out of step.
Due == IF stage = "receive" THEN left ELSE IF h2tWaiting THEN need ELSE 0
InStep ==
  up /\ framed =>
    /\ Due <= Len(h2tQ) + owes
    /\ Due < Len(h2tQ) => h2tQ[Due + 1] > 0

\* Every command is answered (process_control_message), however the other
\* connections keep the server busy or block it, unless it was received
\* together with an earlier one, or a packet of another client's was left.
Gone == stage = "connect"
CommandAnswered == asked > lost /\ framed ~> asked = lost \/ Gone

\* The FPGA's segments are forwarded to the client while the server is not in
\* loopback (handle_client's last step, which any connection before it may
\* delay and which is skipped when T2H cannot be written at once).
SegmentsForwarded == posted # <<>> /\ framed ~> posted = <<>> \/ loop \/ Gone

\* A packet that waits for room (h2t_waiting) is taken once more of the
\* client's bytes are there: select is what makes process_h2t_data look again.
WaitingPacketTaken == h2tWaiting /\ h2tQ # <<>> ~> ~h2tWaiting \/ Gone \/ ~up

\* A client that has left is noticed, and the next one can connect, whatever
\* the server was doing for it (handle_client ends on a failing receive or
\* send, although failing payload receives are not reported to it).
LeavingNoticed == ~up ~> Gone
=============================================================================
