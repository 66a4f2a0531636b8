------------------------------ MODULE T2HPath ------------------------------
(***************************************************************************)
(* The target-to-host (T2H) data path: the ST Debug IP writes segments of  *)
(* packets into the T2H memory and posts descriptors; the driver's         *)
(* get_t2h_data pops one, process_t2h_data (server.c) sends a header and   *)
(* the segment's bytes, copied piece by piece from the circular memory,    *)
(* and t2h_data_complete tells the IP that it may use the memory again.    *)
(*                                                                         *)
(* The IP is external: it posts a segment of any length anywhere in memory *)
(* that holds no segment still to be completed, and begins a packet after  *)
(* a reset.  Addresses are offsets from T2H_MEM_BASE_ADDR, counted in the  *)
(* 8-byte words memcpy64_fpga2host reads; a segment is a number of words.  *)
(* Segments are numbered 1, 2, ...; the number is the tag of their words   *)
(* in memory and on the wire.  A header is one item on the wire.           *)
(***************************************************************************)
EXTENDS Integers, Sequences

CONSTANTS
  Span,      \* words of T2H memory
  Lens,      \* lengths of segments; 0 means "no data" to get_t2h_data
  Depth,     \* descriptors the IP can hold that are not popped yet
  SockRoom,  \* items the T2H connection holds before a send blocks
  MaxSegs    \* bound: segments the IP produces

ASSUME T2HAssumption ==
  /\ Span \in Nat \ {0}
  /\ Lens \subseteq 1..Span
  /\ Depth \in Nat \ {0}
  /\ SockRoom \in Nat \ {0}
  /\ MaxSegs \in Nat

VARIABLES
  (* ST Debug IP and T2H memory *)
  mem,      \* tag of each word
  posted,   \* segments not completed: id, where, len, first and last of its packet
  popped,   \* how many of them get_t2h_data has popped
  made,     \* segments produced
  open,     \* the packet of the last one goes on
  (* driver and server *)
  sop,      \* g_t2h_sop
  at,       \* where process_t2h_data is; "off" between clients
  seg,      \* the segment being sent and the header made for it
  todo,     \* its pieces not yet copied
  buff,     \* the part of g_socket_send_buff not yet sent
  sock,     \* items in the T2H connection that the client has not received
  (* history *)
  wire,     \* items sent for the segment being sent
  got,      \* items sent for the one completed last
  torn      \* the IP was reset in the middle of a packet and no segment followed

ipVars  == <<mem, posted, popped, made, open>>
sendVars == <<at, seg, todo, buff, sock>>
t2hVars == <<ipVars, sop, sendVars, wire, got, torn>>

Header(len, s, e) == [len |-> len, sop |-> s, eop |-> e]
NoSeg == [id |-> 0, where |-> 0, len |-> 0, first |-> FALSE, last |-> FALSE,
          header |-> Header(0, FALSE, FALSE)]
Busy == at \in {"header", "copy", "send", "complete"}

\* The words of a segment; it wraps at the end of the memory.
Cells(where, len) == {(where + j) % Span : j \in 0..(len - 1)}
Held == UNION {Cells(posted[k].where, posted[k].len) : k \in DOMAIN posted}

T2HInit ==
  /\ mem = [c \in 0..(Span - 1) |-> 0]
  /\ posted = <<>> /\ popped = 0 /\ made = 0 /\ open = FALSE
  /\ sop = TRUE
  /\ at = "off" /\ seg = NoSeg /\ todo = <<>> /\ buff = <<>> /\ sock = 0
  /\ wire = <<>> /\ got = <<>> /\ torn = FALSE

----------------------------------------------------------------------------
(* The IP *)

Post(where, len, last) ==
  /\ made < MaxSegs
  /\ Len(posted) - popped < Depth
  /\ Cells(where, len) \cap Held = {}
  /\ mem' = [c \in 0..(Span - 1) |-> IF c \in Cells(where, len) THEN made + 1 ELSE mem[c]]
  /\ posted' = Append(posted, [id |-> made + 1, where |-> where, len |-> len,
                               first |-> ~open, last |-> last])
  /\ made' = made + 1
  /\ open' = ~last
  /\ UNCHANGED <<popped, sop, sendVars, wire, got, torn>>

\* Descriptors and unfinished packets are gone; the memory stays as it is.
IpReset ==
  /\ posted' = <<>> /\ popped' = 0 /\ open' = FALSE
  /\ UNCHANGED <<mem, made>>

----------------------------------------------------------------------------
(* Driver *)

\* A new client: init_driver resets the IP and starts a packet.
init_driver ==
  /\ at = "off"
  /\ IpReset
  /\ sop' = TRUE
  /\ at' = "idle" /\ seg' = NoSeg /\ todo' = <<>> /\ buff' = <<>> /\ sock' = 0
  /\ wire' = <<>> /\ torn' = FALSE
  /\ UNCHANGED got

\* SET_DRIVER_PARAM HW_LOOPBACK resets the IP, whatever the value, and leaves
\* g_t2h_sop alone.
set_loopback_mode ==
  /\ at = "idle"
  /\ IpReset
  /\ torn' = ~sop
  /\ UNCHANGED <<sop, sendVars, wire, got>>

\* Mutant: it is not remembered that a packet goes on.
NextSop_kept(last) == sop

\* The next segment starts a packet if this one is the last of its own.
NextSop(last) == last

\* Mutant: both pieces start where the segment does.
Pieces_unwrapped(where, len) == <<[from |-> where, len |-> len]>>

\* buff_len_to_wrap_boundary: two pieces when the end of the memory is crossed.
Pieces(where, len) ==
  IF where + len > Span
  THEN <<[from |-> where, len |-> Span - where], [from |-> 0, len |-> len - (Span - where)]>>
  ELSE <<[from |-> where, len |-> len]>>

\* The descriptor is read (HOW_LONG, WHERE) and popped (CONNECTION_ID).
get_t2h_data ==
  /\ at = "idle" /\ popped < Len(posted)
  /\ LET s == posted[popped + 1]
     IN  /\ seg' = [id |-> s.id, where |-> s.where, len |-> s.len,
                    first |-> s.first, last |-> s.last,
                    header |-> Header(s.len, sop, s.last)]
         /\ todo' = Pieces(s.where, s.len)
         /\ sop' = NextSop(s.last)
  /\ popped' = popped + 1
  /\ at' = "header"
  /\ UNCHANGED <<mem, posted, made, open, buff, sock, wire, got, torn>>

----------------------------------------------------------------------------
(* process_t2h_data *)

SendHeader ==
  /\ at = "header" /\ sock < SockRoom
  /\ sock' = sock + 1
  /\ wire' = <<seg.header>>
  /\ at' = "copy"
  /\ UNCHANGED <<ipVars, sop, seg, todo, buff, got, torn>>

\* memcpy64_fpga2host; behind the memory there is no segment's data.
Peek(addr) == IF addr < Span THEN mem[addr] ELSE 0

\* Mutant: the IP is told that the memory is free once the last piece is copied.
CopyPiece_completes ==
  /\ at = "copy"
  /\ LET p == Head(todo)
     IN  buff' = [b \in 1..p.len |-> Peek(p.from + b - 1)]
  /\ todo' = Tail(todo)
  /\ posted' = IF Len(todo) = 1 THEN Tail(posted) ELSE posted
  /\ popped' = IF Len(todo) = 1 THEN popped - 1 ELSE popped
  /\ at' = "send"
  /\ UNCHANGED <<mem, made, open, sop, seg, sock, wire, got, torn>>

CopyPiece ==
  /\ at = "copy"
  /\ LET p == Head(todo)
     IN  buff' = [b \in 1..p.len |-> Peek(p.from + b - 1)]
  /\ todo' = Tail(todo)
  /\ at' = "send"
  /\ UNCHANGED <<ipVars, sop, seg, sock, wire, got, torn>>

\* socket_send_all: send takes what fits, and is called until all is sent.
SendSome(n) ==
  /\ at = "send"
  /\ n \in 1..Len(buff) /\ sock + n <= SockRoom
  /\ sock' = sock + n
  /\ wire' = wire \o SubSeq(buff, 1, n)
  /\ buff' = SubSeq(buff, n + 1, Len(buff))
  /\ at' = IF n < Len(buff) THEN "send" ELSE IF todo # <<>> THEN "copy" ELSE "complete"
  /\ UNCHANGED <<ipVars, sop, seg, todo, got, torn>>

\* The IP may use the segment's memory again.
t2h_data_complete ==
  /\ at = "complete"
  /\ posted' = Tail(posted) /\ popped' = popped - 1
  /\ got' = wire
  /\ wire' = <<>> /\ seg' = NoSeg /\ torn' = FALSE
  /\ at' = "idle"
  /\ UNCHANGED <<mem, made, open, sop, todo, buff, sock>>

\* The session ends: a send fails, which leaves the segment uncompleted, or
\* handle_client stops between two segments.
EndSession ==
  /\ at \in {"idle", "header", "send"}
  /\ at' = "off"
  /\ UNCHANGED <<ipVars, sop, seg, todo, buff, sock, wire, got, torn>>

----------------------------------------------------------------------------
(* The client, and in server loopback the server, move the connection on. *)

ClientReceives ==
  /\ sock > 0
  /\ sock' = sock - 1
  /\ UNCHANGED <<ipVars, sop, at, seg, todo, buff, wire, got, torn>>

\* An item of an echoed packet.
SendEcho ==
  /\ at = "idle" /\ sock < SockRoom
  /\ sock' = sock + 1
  /\ UNCHANGED <<ipVars, sop, at, seg, todo, buff, wire, got, torn>>

T2HNext ==
  \/ \E where \in 0..(Span - 1), len \in Lens, last \in BOOLEAN : Post(where, len, last)
  \/ init_driver \/ set_loopback_mode \/ get_t2h_data
  \/ SendHeader \/ CopyPiece \/ (\E n \in 1..SockRoom : SendSome(n))
  \/ t2h_data_complete \/ EndSession
  \/ ClientReceives \/ SendEcho

T2HSpec == T2HInit /\ [][T2HNext]_t2hVars

----------------------------------------------------------------------------
(* Properties *)

SegType == [id : 1..MaxSegs, where : 0..(Span - 1), len : Lens, first : BOOLEAN, last : BOOLEAN]
HeaderType == [len : Lens \cup {0}, sop : BOOLEAN, eop : BOOLEAN]
PieceType == [from : 0..(Span - 1), len : 1..Span]

T2HTypeOK ==
  /\ mem \in [0..(Span - 1) -> 0..MaxSegs]
  /\ posted \in Seq(SegType) /\ popped \in 0..Len(posted)
  /\ made \in 0..MaxSegs /\ open \in BOOLEAN /\ sop \in BOOLEAN
  /\ at \in {"off", "idle", "header", "copy", "send", "complete"}
  /\ seg.header \in HeaderType
  /\ todo \in Seq(PieceType) /\ buff \in Seq(0..MaxSegs)
  /\ sock \in 0..SockRoom /\ torn \in BOOLEAN

\* While a segment is sent its words are still in memory, all of them: the IP
\* is told that it may use them again (DESCRIPTORS_DONE, process_t2h_data) only
\* after the last word has been copied and sent, and what is in the send buffer
\* are the segment's words and no others.
SegmentKept ==
  Busy => /\ posted # <<>> /\ posted[1].id = seg.id
          /\ \A c \in Cells(seg.where, seg.len) : mem[c] = seg.id
          /\ \A b \in DOMAIN buff : buff[b] = seg.id

\* The header marks the start of a packet exactly where the FPGA starts one,
\* except for the packet that follows a reset by HW_LOOPBACK in the middle of
\* another (get_t2h_data's g_t2h_sop, which set_loopback_mode does not set).
StartMarked == Busy => seg.header.sop = (seg.first /\ ~torn)

segmentQueue ==
  [k \in 1..Len(posted) |-> [id |-> posted[k].id, len |-> posted[k].len,
                             first |-> posted[k].first, last |-> posted[k].last]]

Stream == INSTANCE SegmentStream
  WITH Capacity <- Depth + 1, next <- made, queue <- segmentQueue, got <- got,
       mid <- ~(IF seg = NoSeg THEN sop ELSE seg.header.sop), cut <- torn

\* The client receives the FPGA's segments in order, each once, whole and
\* framed by its own header (get_t2h_data, process_t2h_data, socket_send_all
\* and t2h_data_complete together).
DeliversStream == Stream!Spec
=============================================================================
