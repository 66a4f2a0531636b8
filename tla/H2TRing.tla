------------------------------- MODULE H2TRing -------------------------------
(***************************************************************************)
(* The host-to-target (H2T) data path: the server thread takes packets     *)
(* from the client's H2T socket (process_h2t_data, server.c), asks the     *)
(* driver for room in the H2T memory (get_h2t_buffer, a circular           *)
(* allocator plus a chain of descriptor sizes), copies the payload there   *)
(* in one or two pieces and pushes a descriptor to the ST Debug IP, whose  *)
(* DMA reads the memory concurrently and reports progress only through     *)
(* the AVAILABLE_SLOTS register.                                           *)
(*                                                                         *)
(* Server-side loopback (loopback_mode = 1) bypasses the driver and is not *)
(* part of this module.  Addresses are offsets from H2T_MEM_BASE_ADDR.     *)
(* Packets of a session are numbered 0, 1, 2, ... in arrival order; the    *)
(* number is also the tag a copied byte carries in mem.                    *)
(***************************************************************************)
EXTENDS Integers

CONSTANTS
  Span,      \* bytes of H2T memory (h2t_t2h_mem_size)
  Align,     \* bytes of a memory word (2^ST_DBG_IP_BUFF_ALIGN_POW_2 = 8)
  Depth,     \* descriptor slots of the IP
  ChainLen,  \* MAX_H2T_DESCRIPTOR_DEPTH = 128
  ShortMod,  \* 2^16: the range of an unsigned short
  Sizes,     \* the DATA_LEN_BYTES values clients send
  MaxPkts    \* bound: packets of one session

\* Mutants: the size taken as it is; ALIGN_TO, which rounds down.
GET_ALIGNED_SZ_raw(n) == n
GET_ALIGNED_SZ_down(n) == (n \div Align) * Align

GET_ALIGNED_SZ(n) == ((n + Align - 1) \div Align) * Align

ASSUME RingAssumption ==
  /\ Span \in Nat \ {0}
  /\ Align \in Nat \ {0}
  /\ ChainLen \in Nat \ {0}
  /\ Depth \in 1..ChainLen
  /\ ShortMod \in Nat \ {0}
  /\ ShortMod % ChainLen = 0
  /\ Depth < ShortMod
  /\ Sizes \subseteq Nat
  /\ MaxPkts \in Nat \ {0}

\* A chain entry is an unsigned short.  H2T_PACKET_MAX_PAYLOAD_BYTES is 0x1000.
ASSUME SizesFit == \A s \in Sizes : GET_ALIGNED_SZ(s) < ShortMod

VARIABLES
  (* server thread *)
  pc,       \* where process_h2t_data is
  up,       \* the client's H2T connection can still deliver bytes
  hdr,      \* DATA_LEN_BYTES of the header in h2t_header_buff
  own,      \* history: that header came from the client now connected
  waiting,  \* h2t_waiting
  buf,      \* h2t_buff, the address get_h2t_buffer returned
  whole,    \* history: no byte of the packet being received is missing
  freed, i, bytes,   \* locals of get_h2t_buffer
  (* driver globals *)
  slots,    \* g_h2t_descriptor_slots_available
  chain,    \* g_h2t_descriptor_chain
  write_idx, read_idx,
  write_offset, read_offset, space_available,   \* g_h2t_rx_cbuff
  (* ST Debug IP and H2T memory *)
  nPush,    \* descriptors pushed in this session
  nDone,    \* descriptors the IP has consumed (or dropped by a reset)
  desc,     \* descriptor k: where, how long, and (history) whole
  mem,      \* tag of the packet whose copy last wrote each byte
  dma,      \* the tags found by the IP in the packet it read last
  (* history *)
  start     \* start[k]: aligned bytes handed out before buffer k

sessionVars == <<up, hdr, own, waiting>>
localVars   == <<buf, whole>>
pollVars    == <<freed, i, bytes>>
cbuffVars   == <<write_offset, read_offset, space_available>>
driverVars  == <<slots, chain, write_idx, read_idx, cbuffVars>>
hwVars      == <<nPush, nDone, desc, mem, dma>>
vars == <<pc, sessionVars, localVars, pollVars, driverVars, hwVars, start>>

Ids == 0..(MaxPkts - 1)
Stale == -1                        \* tag of bytes written before this session
MemBytes == 0..(Span + Align - 1)  \* the H2T memory and the word behind it
NoDesc == [where |-> 0, len |-> 0, whole |-> TRUE]

\* Register ST_DBG_IP_H2T_AVAILABLE_SLOTS: descriptors the IP can still take.
AvailableSlots == Depth - (nPush - nDone)

\* The memory bytes the IP's DMA reads for descriptor d; it wraps at Span.
HwBytes(d) == {(d.where + j) % Span : j \in 0..(d.len - 1)}

\* Bytes of first_len, 0 if the payload does not cross the end of the memory.
buff_len_to_wrap_boundary(addr, sz) == IF addr + sz > Span THEN Span - addr ELSE 0

\* memcpy64_host2fpga writes whole words, the last one padded.
CopiedBytes(addr, len) == addr .. (addr + ((len + Align - 1) \div Align) * Align - 1)

----------------------------------------------------------------------------
Init ==
  /\ pc = "connect"
  /\ up = FALSE /\ hdr = 0 /\ own = FALSE /\ waiting = FALSE
  /\ buf = 0 /\ whole = TRUE
  /\ freed = 0 /\ i = 0 /\ bytes = 0
  /\ slots = 0
  /\ chain = [c \in 0..(ChainLen - 1) |-> 0]
  /\ write_idx = 0 /\ read_idx = 0
  /\ write_offset = 0 /\ read_offset = 0 /\ space_available = 0
  /\ nPush = 0 /\ nDone = 0
  /\ desc = [k \in Ids |-> NoDesc]
  /\ mem = [b \in MemBytes |-> Stale]
  /\ dma = {}
  /\ start = [k \in 0..MaxPkts |-> 0]

cbuff_init ==
  /\ write_offset' = 0 /\ read_offset' = 0
  /\ space_available' = Span

\* Mutant: the read index is left alone.
init_driver_keeps_idx ==
  /\ pc = "connect"
  /\ pc' = "select"
  /\ up' = TRUE /\ own' = FALSE
  /\ nPush' = 0 /\ nDone' = 0
  /\ desc' = [k \in Ids |-> NoDesc]
  /\ mem' = [b \in MemBytes |-> Stale]
  /\ dma' = {}
  /\ start' = [k \in 0..MaxPkts |-> 0]
  /\ slots' = Depth
  /\ write_idx' = 0
  /\ cbuff_init
  /\ UNCHANGED <<hdr, waiting, localVars, pollVars, chain, read_idx>>

\* connect_client: init_driver resets the IP and the tracking state, then the
\* next client is accepted.  The chain, the header buffer and h2t_waiting stay
\* as they are.
init_driver ==
  /\ pc = "connect"
  /\ pc' = "select"
  /\ up' = TRUE /\ own' = FALSE
  /\ nPush' = 0 /\ nDone' = 0
  /\ desc' = [k \in Ids |-> NoDesc]
  /\ mem' = [b \in MemBytes |-> Stale]
  /\ dma' = {}
  /\ start' = [k \in 0..MaxPkts |-> 0]
  /\ slots' = Depth
  /\ write_idx' = 0 /\ read_idx' = 0
  /\ cbuff_init
  /\ UNCHANGED <<hdr, waiting, localVars, pollVars, chain>>

\* The client disconnects, fails or is dropped: handle_client breaks out of its
\* loop and close_client_conn closes the sockets.
EndSession ==
  /\ pc = "select"
  /\ pc' = "connect"
  /\ up' = FALSE
  /\ UNCHANGED <<hdr, own, waiting, localVars, pollVars, driverVars, hwVars, start>>

\* A SET_DRIVER_PARAM for HW_LOOPBACK resets the IP in the middle of a session
\* and leaves the driver's tracking state alone.
set_loopback_mode ==
  /\ pc = "select" /\ up
  /\ nDone' = nPush
  /\ desc' = [k \in Ids |-> NoDesc]
  /\ UNCHANGED <<pc, sessionVars, localVars, pollVars, driverVars, nPush, mem, dma, start>>

\* update_curr_h2t_header with h2t_waiting = 0: the next header is received.
RecvHeader(s) ==
  /\ pc = "select" /\ up /\ ~waiting
  /\ nPush < MaxPkts
  /\ pc' = "poll"
  /\ hdr' = s /\ own' = TRUE
  /\ UNCHANGED <<up, waiting, localVars, pollVars, driverVars, hwVars, start>>

\* ... with h2t_waiting = 1 the header is kept and the request is tried again,
\* as soon as select() finds bytes to read: the payload's, or, when there is
\* none, those of whatever the client sends next.
Retry ==
  /\ pc = "select" /\ up /\ waiting
  /\ pc' = "poll"
  /\ UNCHANGED <<sessionVars, localVars, pollVars, driverVars, hwVars, start>>

RetryPayload == hdr > 0 /\ Retry
RetryEmpty   == hdr = 0 /\ Retry

----------------------------------------------------------------------------
(* get_h2t_buffer(hdr) *)

\* Mutant: the register is only read when no slot is left.
PollSlots_when_empty ==
  /\ pc = "poll"
  /\ LET n == IF slots = 0 THEN AvailableSlots ELSE 0
     IN  /\ freed' = n
         /\ slots' = slots + n
         /\ pc' = IF n > 0 THEN "free" ELSE "alloc"
  /\ i' = 0 /\ bytes' = 0
  /\ UNCHANGED <<sessionVars, localVars, chain, write_idx, read_idx, cbuffVars, hwVars, start>>

\* AVAILABLE_SLOTS is read once; the IP goes on consuming behind the reader's
\* back until the next call.  The difference is unsigned in the code;
\* SlotAccounting below shows that it is never negative.
PollSlots ==
  /\ pc = "poll"
  /\ LET n == AvailableSlots - slots
     IN  /\ freed' = n
         /\ slots' = (slots + n) % ShortMod
         /\ pc' = IF n > 0 THEN "free" ELSE "alloc"
  /\ i' = 0 /\ bytes' = 0
  /\ UNCHANGED <<sessionVars, localVars, chain, write_idx, read_idx, cbuffVars, hwVars, start>>

\* One turn of the loop that adds up the sizes of the consumed descriptors.
SumFreed ==
  /\ pc = "free" /\ i < freed
  /\ bytes' = bytes + chain[(read_idx + i) % ChainLen]
  /\ i' = i + 1
  /\ UNCHANGED <<pc, sessionVars, localVars, freed, driverVars, hwVars, start>>

cbuff_free(amt) ==
  /\ space_available' = space_available + amt
  /\ read_offset' = (read_offset + amt) % Span
  /\ UNCHANGED write_offset

\* Mutant: the last of the consumed descriptors is left for the next time.
FreeSpace_all_but_one ==
  /\ pc = "free" /\ i = freed
  /\ pc' = "alloc"
  /\ read_idx' = (read_idx + freed) % ChainLen
  /\ cbuff_free(bytes - chain[(read_idx + freed - 1) % ChainLen])
  /\ UNCHANGED <<sessionVars, localVars, pollVars, slots, chain, write_idx, hwVars, start>>

FreeSpace ==
  /\ pc = "free" /\ i = freed
  /\ pc' = "alloc"
  /\ read_idx' = (read_idx + freed) % ChainLen
  /\ cbuff_free(bytes)
  /\ UNCHANGED <<sessionVars, localVars, pollVars, slots, chain, write_idx, hwVars, start>>

\* Mutant: the descriptor slots are forgotten.
HasRoom_any_slot == space_available >= GET_ALIGNED_SZ(hdr)

HasRoom == slots > 0 /\ space_available >= GET_ALIGNED_SZ(hdr)

\* Mutant: the write offset is not wrapped.
cbuff_alloc_no_wrap(amt) ==
  /\ space_available' = space_available - amt
  /\ write_offset' = write_offset + amt
  /\ UNCHANGED read_offset

cbuff_alloc(amt) ==
  /\ space_available' = space_available - amt
  /\ write_offset' = (write_offset + amt) % Span
  /\ UNCHANGED read_offset

\* The allocation succeeds, and process_h2t_data clears h2t_waiting.
AllocBuffer ==
  /\ pc = "alloc" /\ HasRoom
  /\ LET aligned_sz == GET_ALIGNED_SZ(hdr)
     IN  /\ chain' = [chain EXCEPT ![write_idx % ChainLen] = aligned_sz % ShortMod]
         /\ cbuff_alloc(aligned_sz)
         /\ start' = [start EXCEPT ![nPush + 1] = start[nPush] + aligned_sz]
  /\ write_idx' = (write_idx + 1) % ShortMod
  /\ buf' = write_offset /\ whole' = TRUE
  /\ waiting' = FALSE
  /\ freed' = 0 /\ i' = 0 /\ bytes' = 0
  /\ pc' = "copy"
  /\ UNCHANGED <<up, hdr, own, slots, read_idx, hwVars>>

\* No room: get_h2t_buffer returns 0 and process_h2t_data sets h2t_waiting.
AllocRefused ==
  /\ pc = "alloc" /\ ~HasRoom
  /\ waiting' = TRUE
  /\ freed' = 0 /\ i' = 0 /\ bytes' = 0
  /\ pc' = "select"
  /\ UNCHANGED <<up, hdr, own, localVars, driverVars, hwVars, start>>

----------------------------------------------------------------------------
(* The payload is received and copied, then the descriptor is pushed.      *)

first_len == buff_len_to_wrap_boundary(buf, hdr)

\* socket_recv_accumulate_h2t_data: either the len bytes arrive and are copied
\* to addr, or the connection fails first and nothing is copied.  It returns OK
\* both times, so the caller goes on in the same way.
RecvAndCopy(addr, len) ==
  \/ /\ up \/ len = 0
     /\ mem' = [b \in MemBytes |-> IF b \in CopiedBytes(addr, len) THEN nPush ELSE mem[b]]
     /\ UNCHANGED <<up, whole>>
  \/ /\ len > 0
     /\ up' = FALSE /\ whole' = FALSE
     /\ UNCHANGED mem

CopyFirst ==
  /\ pc = "copy"
  /\ IF first_len # 0
     THEN RecvAndCopy(buf, first_len) /\ pc' = "copy2"
     ELSE RecvAndCopy(buf, hdr) /\ pc' = "push"
  /\ UNCHANGED <<hdr, own, waiting, buf, pollVars, driverVars, nPush, nDone, desc, dma, start>>

\* Mutant: the second piece is copied behind the first, not to the start.
CopySecond_behind ==
  /\ pc = "copy2"
  /\ RecvAndCopy(buf + first_len, hdr - first_len)
  /\ pc' = "push"
  /\ UNCHANGED <<hdr, own, waiting, buf, pollVars, driverVars, nPush, nDone, desc, dma, start>>

CopySecond ==
  /\ pc = "copy2"
  /\ RecvAndCopy(0, hdr - first_len)
  /\ pc' = "push"
  /\ UNCHANGED <<hdr, own, waiting, buf, pollVars, driverVars, nPush, nDone, desc, dma, start>>

\* push_h2t_data: the last register write makes the descriptor visible.
push_h2t_data ==
  /\ pc = "push"
  /\ slots' = (slots + ShortMod - 1) % ShortMod
  /\ desc' = [desc EXCEPT ![nPush] = [where |-> buf, len |-> hdr, whole |-> whole]]
  /\ nPush' = nPush + 1
  /\ pc' = "select"
  /\ buf' = 0 /\ whole' = TRUE
  /\ UNCHANGED <<sessionVars, pollVars, chain, write_idx, read_idx, cbuffVars,
                 nDone, mem, dma, start>>

\* The IP reads the oldest descriptor's bytes and frees its slot.
HwConsume ==
  /\ nDone < nPush
  /\ dma' = {mem[b] : b \in HwBytes(desc[nDone])}
  /\ nDone' = nDone + 1
  /\ desc' = [desc EXCEPT ![nDone] = NoDesc]
  /\ UNCHANGED <<pc, sessionVars, localVars, pollVars, driverVars, nPush, mem, start>>

----------------------------------------------------------------------------
Next ==
  \/ init_driver \/ EndSession \/ set_loopback_mode
  \/ \E s \in Sizes : RecvHeader(s)
  \/ RetryPayload \/ RetryEmpty
  \/ PollSlots \/ SumFreed \/ FreeSpace \/ AllocBuffer \/ AllocRefused
  \/ CopyFirst \/ CopySecond \/ push_h2t_data
  \/ HwConsume

Spec == Init /\ [][Next]_vars

\* The server's loop never stops of its own accord, and the IP drains its
\* descriptors.  Clients may leave, begin no packet or reset the IP for ever; but
\* the payload of a packet that waits is on the connection, so that select
\* reports it, and neither a payload nor another path holds the loop for ever.
\* (ServerLoop has the other paths and states both as fairness of its client.)
Fairness ==
  /\ WF_vars(RetryPayload) /\ WF_vars(PollSlots) /\ WF_vars(SumFreed)
  /\ WF_vars(FreeSpace) /\ WF_vars(AllocBuffer) /\ WF_vars(AllocRefused)
  /\ WF_vars(CopyFirst) /\ WF_vars(CopySecond) /\ WF_vars(push_h2t_data)
  /\ WF_vars(HwConsume)

FairSpec == Spec /\ Fairness

----------------------------------------------------------------------------
(* Properties *)

\* Descriptors the driver knows to be consumed, those whose bytes it has given
\* back to the circular buffer, and buffers handed out.
Known == nPush + slots - Depth
GivenBack == IF pc = "free" THEN Known - freed ELSE Known
Filling == pc \in {"copy", "copy2", "push"}
HandedOut == IF Filling THEN nPush + 1 ELSE nPush
Pending == nDone .. (nPush - 1)

DescType == [where : 0..(Span - 1), len : Sizes \cup {0}, whole : BOOLEAN]

ServerTypeOK ==
  /\ pc \in {"connect", "select", "poll", "free", "alloc", "copy", "copy2", "push"}
  /\ up \in BOOLEAN /\ own \in BOOLEAN /\ waiting \in BOOLEAN /\ whole \in BOOLEAN
  /\ hdr \in Sizes \cup {0}
  /\ buf \in 0..(Span - 1)
  /\ freed \in 0..Depth /\ i \in 0..Depth /\ bytes \in Nat

DriverTypeOK ==
  /\ slots \in 0..Depth
  /\ chain \in [0..(ChainLen - 1) -> 0..(ShortMod - 1)]
  /\ write_idx \in 0..(ShortMod - 1) /\ read_idx \in 0..(ChainLen - 1)
  /\ write_offset \in 0..(Span - 1) /\ read_offset \in 0..(Span - 1)
  /\ space_available \in 0..Span

HwTypeOK ==
  /\ nPush \in 0..MaxPkts /\ nDone \in 0..MaxPkts
  /\ desc \in [Ids -> DescType]
  /\ mem \in [MemBytes -> Ids \cup {Stale}]
  /\ dma \subseteq Ids \cup {Stale}
  /\ start \in [0..MaxPkts -> Nat]

\* Every variable keeps its type: in particular the unsigned shorts and the
\* circular buffer's fields (get_h2t_buffer, cbuff_alloc, cbuff_free) never
\* wrap below zero, exceed the slots or the space there is, or reach the span.
TypeOK == ServerTypeOK /\ DriverTypeOK /\ HwTypeOK

\* g_h2t_descriptor_slots_available never runs ahead of the IP's register (the
\* unsigned difference in get_h2t_buffer cannot underflow), and whenever a
\* buffer has been handed out a slot is free for its descriptor, even though
\* push_h2t_data itself only assumes so.
SlotAccounting ==
  pc # "connect" =>
    /\ 0 <= Known /\ Known <= nDone
    /\ nPush - nDone <= Depth
    /\ Filling => slots > 0 /\ AvailableSlots > 0

\* The circular buffer neither leaks nor invents space: its three fields always
\* describe the bytes between the oldest buffer not given back and the newest
\* one handed out, through resets of the IP, wraps of the memory, of the chain
\* and of the unsigned short write index.
SpaceAccounting ==
  pc # "connect" =>
    /\ space_available = Span - (start[HandedOut] - start[GivenBack])
    /\ write_offset = start[HandedOut] % Span
    /\ read_offset = start[GivenBack] % Span

\* A packet that fits the memory is refused (get_h2t_buffer returns 0) only for
\* descriptors the IP had not consumed when it was asked: what it has consumed
\* is given back to the last byte, and before the allocation.
RefusedForUnread ==
  pc = "alloc" /\ ~HasRoom /\ GET_ALIGNED_SZ(hdr) <= Span => Known < nPush

\* Until the IP has consumed a descriptor, every byte its DMA will read is the
\* byte that was received for it: no later copy, however it wraps or pads,
\* touches it.  (Descriptors cut short by a lost connection promise nothing.)
PendingIntact ==
  \A k \in Pending : desc[k].whole => \A b \in HwBytes(desc[k]) : mem[b] = k

\* "This is used to keep addresses passed to the H2T / MGMT CSR aligned to the
\* native word size of the ST Debug IP's DMA masters" (driver header, 95-96).
AddressesAligned == \A k \in Pending : desc[k].where % Align = 0

\* A descriptor is only ever pushed for a payload that was received completely
\* (process_h2t_data pushes "if (has_error == OK)" and reports
\* "Failed to recv H2T data" otherwise).
PushedWhole == \A k \in Pending : desc[k].whole

\* The header process_h2t_data works on was sent by the client being served:
\* "Server will serve an unlimited number of clients, one at a time".
HeaderOfThisClient == pc \notin {"connect", "select"} => own

\* A packet that fits the memory and waits for room gets it (or its session
\* ends): consumed descriptors are noticed and their bytes are given back.
WaitsAndFits == waiting /\ up /\ \E s \in Sizes : hdr = s /\ s > 0 /\ GET_ALIGNED_SZ(s) <= Span
WaiterServed == WaitsAndFits ~> (~waiting \/ ~up)

\* The driver implements a first-in first-out queue of packets (PacketFifo):
\* the mapping forgets memory, chain and registers and keeps the descriptors
\* not yet consumed.
fifoQueue ==
  [j \in 1..(nPush - nDone) |->
     [id |-> nDone + j - 1, len |-> desc[nDone + j - 1].len, whole |-> desc[nDone + j - 1].whole]]

Fifo == INSTANCE PacketFifo
  WITH Capacity <- Depth, Lens <- Sizes \cup {0}, next <- nPush, queue <- fifoQueue, got <- dma

\* The packets reach the IP in order, once and unmixed (get_h2t_buffer,
\* push_h2t_data and the two-piece copy of process_h2t_data together).
ImplementsFifo == Fifo!Spec
=============================================================================
