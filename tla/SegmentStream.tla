--------------------------- MODULE SegmentStream ---------------------------
(***************************************************************************)
(* What the target-to-host path promises a client, whatever memory and     *)
(* descriptors it uses: the segments the FPGA produces reach the client's  *)
(* connection in the order they were produced, each once and whole, its    *)
(* header followed by exactly its bytes, and marked as the start and the   *)
(* end of a packet where they are.  Only a reset of the IP or a new client *)
(* drops segments, and then all of them.  After a reset that cut a packet  *)
(* short the start of the next one goes unmarked.                          *)
(***************************************************************************)
EXTENDS Integers, Sequences

CONSTANTS Capacity, Lens

VARIABLES
  next,    \* number of the segment produced last
  queue,   \* produced and not yet delivered: [id, len, first, last]
  got,     \* what the last delivery put on the wire: a header, then bytes
  mid,     \* the packet of the segment delivered last goes on
  cut      \* a reset has cut a packet short since

vars == <<next, queue, got, mid, cut>>

Init == next = 0 /\ queue = <<>> /\ got = <<>> /\ mid = FALSE /\ cut = FALSE

Header(len, sop, eop) == [len |-> len, sop |-> sop, eop |-> eop]

Produce(len, first, last) ==
  /\ Len(queue) < Capacity
  /\ next' = next + 1
  /\ queue' = Append(queue, [id |-> next + 1, len |-> len, first |-> first, last |-> last])
  /\ UNCHANGED <<got, mid, cut>>

Deliver ==
  /\ queue # <<>>
  /\ LET s == Head(queue)
     IN  /\ got' = <<Header(s.len, s.first /\ ~cut, s.last)>> \o [b \in 1..s.len |-> s.id]
         /\ mid' = ~s.last
  /\ queue' = Tail(queue)
  /\ cut' = FALSE
  /\ UNCHANGED next

Reset == queue' = <<>> /\ cut' = mid /\ UNCHANGED <<next, got, mid>>

NewClient == queue' = <<>> /\ mid' = FALSE /\ cut' = FALSE /\ UNCHANGED <<next, got>>

Next ==
  \/ \E len \in Lens, first, last \in BOOLEAN : Produce(len, first, last)
  \/ Deliver \/ Reset \/ NewClient

Spec == Init /\ [][Next]_vars
=============================================================================
