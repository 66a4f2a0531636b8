----------------------------- MODULE PacketFifo -----------------------------
(***************************************************************************)
(* What the host-to-target path promises, whatever memory and descriptors  *)
(* it uses: packets reach the FPGA in the order they were accepted, each   *)
(* once, with exactly the bytes that were sent; at most Capacity of them   *)
(* are on their way; only a reset of the IP or a new client drops any, and *)
(* then all of them.  A packet whose transmission was cut short by a lost  *)
(* connection is delivered in its turn with unspecified bytes.             *)
(***************************************************************************)
EXTENDS Integers, Sequences

CONSTANTS Capacity, Lens

VARIABLES
  next,    \* packets accepted in this session; also the next packet's number
  queue,   \* accepted and not yet delivered: [id, len, whole]
  got      \* the numbers of the packets whose bytes the last delivery contained

vars == <<next, queue, got>>

Init == next = 0 /\ queue = <<>> /\ got = {}

Accept(len, whole) ==
  /\ Len(queue) < Capacity
  /\ queue' = Append(queue, [id |-> next, len |-> len, whole |-> whole])
  /\ next' = next + 1
  /\ UNCHANGED got

Deliver ==
  /\ queue # <<>>
  /\ LET p == Head(queue)
     IN  got' \in IF p.whole THEN {IF p.len = 0 THEN {} ELSE {p.id}}
                  ELSE SUBSET ((-1)..next)
  /\ queue' = Tail(queue)
  /\ UNCHANGED next

\* The IP is reset: whatever it has not read is lost.
Flush == queue' = <<>> /\ UNCHANGED <<next, got>>

NewClient == next' = 0 /\ queue' = <<>> /\ got' = {}

Next ==
  \/ \E len \in Lens, whole \in BOOLEAN : Accept(len, whole)
  \/ Deliver \/ Flush \/ NewClient

Spec == Init /\ [][Next]_vars
=============================================================================
