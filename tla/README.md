# Remote debug for Intel FPGA: TLA+ models and proofs

This directory specifies the program in `src/`: *etherlink*, a TCP server that
gives remote debug clients access to the ST Debug IP of an FPGA, and the UIO
platform library it reaches the FPGA through. The modules are translated from
the C and C++ code; `PROJECT.json` maps every definition to its lines.

## 1. The system

A client (System Console, Signal Tap, ...) opens five TCP connections: control
first, then MGMT, MGMT_RSP, H2T (host to target) and T2H. One server thread
multiplexes them with `select` and moves packets between the sockets and two
memories in the FPGA, from which the IP's DMA reads (H2T) and into which it
writes (T2H). The IP is driven with polled registers only. The interrupt thread
belongs to the platform library and serves other applications of it.

    client --5 sockets--> handle_client --+--> process_h2t_data --> driver (H2T ring) --> IP DMA
                              |           +--> process_t2h_data <-- driver (T2H)      <-- IP DMA
                              |           +--> process_control_message (loopback, parameters)
                              +-- connect_client / close_client_conn / reject_client
    main --> fpga_platform_init --> interface vector, interrupt thread --> ISR
         \-> StreamingDebug --> server_main

### Components

| Component (code) | State | Operations | Interacts with | Hard behaviour | What makes it correct |
|---|---|---|---|---|---|
| H2T data path (`server.c` 478-555, `driver.c` 97-165, 242-263, `allocator.h`) | circular allocator, chain of descriptor sizes, slot count, `h2t_waiting`, header buffer, loopback mode | receive header, allocate or wait, copy in one or two pieces, push descriptor | H2T socket, IP registers, IP DMA | DMA progress seen only through a register; wraps of three different moduli; IP reset within a session; lost connection within a packet | exact accounting; no byte overwritten before it is read; FIFO of packets; waiting packets are served |
| T2H data path (`server.c` 631-667, `driver.c` 200-228) | current descriptor, `g_t2h_sop` | get descriptor, send header, send payload (one or two pieces), complete | T2H socket, IP | start-of-packet tracking over a reset, wrap, blocking send | each descriptor sent once, in order, with right SOP/EOP, before it is returned to the IP |
| MGMT and MGMT_RSP paths (`server.c` 557-629, 669-712) | as above, second allocator | as above | as above | compiled out in the shipped server (`ENABLE_MGMT` 0) | as H2T / T2H |
| Event loop and control messages (`server.c` 349-476, 737-856) | fd sets, waiting flags, parameters, loopback mode | select, dispatch, SET/GET parameter, disconnect, SERVER_BUSY | all paths, sockets | waiting packet and select readiness; mode switch with packets under way; coalesced control messages; two sides blocked on full sockets | each command answered once; no path starves another; a client that leaves is noticed |
| Handshake and sessions (`server.c` 193-347, 714-735, 927-972) | client connection, handle, listen backlog | accept, greet, match handle and role, READY / NOT_READY, close, reject an extra client | clients, driver initialisation | connections of several clients in one backlog; connection lost during the handshake; SIGPIPE | one client per session; no connection left open; everyone is answered; the server survives its clients |
| Server life cycle (`main.cpp` 296-359, `server.c` 858-972, `stream_dbg.c`) | listening socket, buffers, global connection pointer | start, SIGINT, terminate | everything | signal handler runs inside the loop | resources freed once, not while in use |
| Socket helpers (`sockets.c`) | none | send all, receive fixed / until NUL / accumulate to MMIO | the paths | partial transfers, errors, disconnects | errors are reported |
| UIO platform (`platform_api_uio.c`, `api_uio.c`) | driver handle, mapping, interface vector, interrupt flag and semaphore, thread id | init, cleanup, thread loop, register / enable / disable interrupt | application thread, kernel UIO driver, device | two threads; handle reopened around each wait; cleanup with the thread anywhere; every system call may fail | no lost wake-up, no freed entry in use, cleanup returns, interrupts are served |
| Interface vector (`cmn_inf.c`, `intel_fpga_api_cmn_inf.c`) | array, opened flags | open, close | the platform | double open, double close | at most one user per interface |
| Packets (`packet.c`), argument parsing, message hooks, tests | none | formatting, parsing, printing | | | lengths and flags; not modelled for their own sake |

The hazards, with line numbers and the properties that cover each, are in
`PROJECT.json`.

## 2. The modules

| Module | What it is |
|---|---|
| `PacketFifo` | what the H2T path promises: a bounded FIFO of packets; `Accept`, `Deliver`, `Flush` (IP reset), `NewClient` |
| `H2TRing` | the H2T path in detail: server thread, driver, IP, memory |
| `MCH2TRing` | finite values for `H2TRing`, five configurations |
| `ModArith` | lemmas on `%`, `\div` and rounding to a multiple |
| `H2TRingProofs` | types, slot and space accounting, justified refusals, for all constants |
| `H2TMemoryProofs` | alignment and integrity of the memory and the refinement of `PacketFifo`, for all constants with a memory of whole words |
| `UioPlatform` | the platform library: application, interrupt thread, kernel, device |
| `MCUioPlatform` | finite values for `UioPlatform`, two configurations |
| `UioPlatformProofs` | types, lifetime of the entry, no lost wake-up, the join |
| `ClientSessions` | how clients get, keep and lose the server: `server_main`'s loop, the handshake, rejection, closing |
| `MCClientSessions` | finite values for `ClientSessions`, three configurations |
| `ClientSessionsProofs` | types, unmixed sessions, agreement with the client, ownership of every connection, what the handshake waits for |
| `SegmentStream` | what the T2H path promises: the FPGA's segments in order, once, whole, framed; `Produce`, `Deliver`, `Reset`, `NewClient` |
| `T2HPath` | the T2H path in detail: IP, driver, `process_t2h_data`, the connection |
| `T2HProofs` | types, no early completion, start of packet, refinement of `SegmentStream`, for all constants |
| `ServerLoop` | `handle_client`: select and the paths it serves, composed with `T2HPath`; control commands, server loopback, MGMT, sessions |
| `MCServerLoop` | finite values for `ServerLoop`, one configuration |
| `ServerLoopProofs` | the loop refines the path; types; the path's properties for the whole loop; the framing of the H2T stream |
| `ServerLifecycle` | `main`, the SIGINT handler on either thread, deletion of the server, clean-up of the platform |
| `MCServerLifecycle` | every call failing at will, one configuration |
| `ServerLifecycleProofs` | all its safety properties, for any number of SIGINTs and any failures |

How they compose. `ServerLoop` EXTENDS `T2HPath`: each action of the loop is a
step of the path or leaves the path's variables alone, which `LoopUsesPath`
proves, so that what is proved of the path holds in the loop. The other modules
meet in single actions: `EndSession` and `init_driver` of `H2TRing`,
`Disconnect` and `Connect` of `ServerLoop` are `close_client_conn` and
`InitDriver` of `ClientSessions`; `StopServing` of `ServerLifecycle` is the
failing `InitDriver`. Of `H2TRing` the loop keeps how many descriptors the IP
holds; of `UioPlatform` the life cycle keeps the interrupt thread's look at the
exit flag under the read lock.

### H2TRing and the code

`pc` is where the server thread is: `connect` (no session), `select` (between
packets), `poll`, `free`, `alloc` (inside `get_h2t_buffer`), `copy`, `copy2`
(receiving into H2T memory), `push`. The unit of interleaving with the DMA is
one register read, one memory copy or one descriptor push; between those the
thread touches only its own variables. `HwConsume` can happen between any two.

- `PollSlots`, `SumFreed`, `FreeSpace`, `AllocBuffer`, `AllocRefused` are
  `get_h2t_buffer` in its order: read `AVAILABLE_SLOTS`, add up the chain
  entries of the freed descriptors, give their bytes back, try to allocate.
- `RecvHeader` / `Retry` are `update_curr_h2t_header` with `h2t_waiting` 0 / 1.
  A retry of a packet without payload is a separate action: the code gets to it
  only when the client sends something else.
- `CopyFirst`, `CopySecond` are the wrap-boundary cases of `process_h2t_data`.
  Each copy either completes or the connection is lost in it; the code goes on
  to `push_h2t_data` in both cases, and so does the model (`whole` remembers).
- `init_driver`, `EndSession`, `set_loopback_mode` are a new client, the end of
  a client and the IP reset a control message causes.
- `mem` holds for each byte the number of the packet that wrote it, which is all
  the properties tell apart; whole-word padding is kept since it overwrites.

History variables are `start`, `own`, `whole` and `dma`; no guard reads them
(`whole` enters the descriptor, as history again).

### UioPlatform and the code

`app` is the step of the application thread in `fpga_platform_init`,
`fpga_platform_cleanup` or `fpga_enable_interrupt`; `th` that of
`uio_interrupt_thread`. Steps are split wherever the other thread can see a
difference: the store to `interrupt_enable`, `sem_getvalue` and `sem_post` are
three steps, and the thread's copy of the exit flag is a variable of its own.
`CheckFlags` tests that copy, made under the lock, and `interrupt_enable` as it
is then, which the code reads without one. `Poll` covers the 100 ms timeout;
it cannot time out with an interrupt asserted and enabled, which the kernel
delivers at once. `Failures` names the system calls that may fail.
`fpga_platform_cleanup` posts the semaphore unconditionally: its test of the
semaphore's value never runs (finding on line 246).

### ClientSessions and the code

`srv` is the step of the one server thread, in the order of `connect_client`:
`init`, `accept`, `greet` (control connection only), `recv`, `answer` or
`mismatch`, back to `accept` until all roles are there, `ready`, `serve`;
`refuse` is the NOT_READY at the end of a failed handshake and `close` is
`close_client_conn`. `fds` is `client_conn`: its k-th element is the descriptor
of the k-th role, and a failed `accept` leaves it as long as it was, like
`INVALID_SOCKET` in the code.

- Each blocking call is one step: `accept`, `recv`, one `send`. The backlog and
  the clients can change between any two.
- A connection is a record of client, attempt and role. The server never looks
  at client or attempt except in `Expected`, which stands for the `strncmp` of
  role and handle; the handle is represented by the connection it was sent on.
- `Failures` names the calls that may fail: `init_driver` (ends the server, as
  `INIT_ERR` does), `accept`, and `setsockopt`.
- `dirty` is the kernel's knowledge of a reset: a first `send` after the client
  has closed succeeds or fails, and a further one may raise SIGPIPE. `recv` may
  still return an announcement sent before the client closed.
- `RejectClient` is `reject_client` with its message, reset and close. It comes
  first in a pass of `handle_client`; the rest of the pass may be held in a
  receive or send without timeout (`blocked`) until the served client goes on or
  closes, and nobody is rejected meanwhile.
- Clients are external: one connection at a time, announced with the handle
  from the welcome, the next after READY; they may close everything at any
  point and try again. With `Patient` they only close when the server has
  dropped or served them.

`made` is a history variable, read by no guard.

### T2HPath and the code

`at` is where `process_t2h_data` is: `header`, `copy`, `send`, `complete`, or
`idle` between segments and `off` between clients.

- `get_t2h_data` is the driver's function: the header gets SOP from `g_t2h_sop`
  and EOP from the descriptor, and the descriptor is popped. `Pieces` is
  `buff_len_to_wrap_boundary` with the one or two calls that depend on it.
- `SendHeader`, `CopyPiece` (`memcpy64_fpga2host` into `g_socket_send_buff`) and
  `SendSome` (one `send` in `socket_send_all`, which takes as much as fits)
  alternate until `t2h_data_complete`.
- The IP (`Post`, `IpReset`) is external: it writes a segment of any length
  anywhere in memory that holds no segment still to be completed.
- `set_loopback_mode` resets the IP and leaves `g_t2h_sop` alone.

`mem`, `wire`, `buff` hold the numbers of segments in place of their bytes.
`wire`, `got` and `torn` are history variables.

### ServerLoop and the code

`stage` is what the server is doing; `ready` are the connections `select` has
reported and that are still to be served, in the order control, MGMT, H2T, T2H
(`Turn`). The client and the IP can act between any two steps, so what `select`
reported may be stale when it is served.

- `process_control_message` receives what there is, up to k commands, and
  executes and answers the first; `DISCONNECT` ends the session. `Execute`
  tells apart the commands with an effect on the paths: server loopback on and
  off, and `HW_LOOPBACK`, which resets the IP. `ping` stands for the others.
- `process_mgmt_data` takes a header and sets `mgmt_waiting`: with MGMT compiled
  out, both ways to get a buffer yield 0, and the packet waits for ever.
- `AcceptPacket` and `KeepPacketWaiting` are the two outcomes of
  `get_h2t_buffer`, which depend on more than the loop knows (`H2TRing` has it):
  with no descriptor pending there is room, with all of them there is none, and
  in between either. `PacketLens` are lengths that fit the memory.
  `RecvPayload` is one item of the payload; `RecvFails` is the error that
  `socket_recv_accumulate_h2t_data` hides, after which `PushPacket` or
  `EchoPacket` goes on as if it had all come.
- What follows a header on the H2T connection is not checked: after a lost
  session a waiting header meets another client's stream, and any item may be
  taken for a header (`update_curr_h2t_header`). The server may then block in a
  receive for payload nobody owes it, while the client waits for an answer
  (finding 3). `framed` remembers whether a session began with payload due;
  `InStep`, `CommandAnswered` and `SegmentsForwarded` speak of the sessions that
  did not, the others of all.
- `SkipT2H`, `AcquireSegment`, `SendSegment`, `CompleteSegment`, `SendFails` are
  `process_t2h_data` over the actions of `T2HPath`.
- `Leave` is a client that closes or dies at any moment. What it sent can still
  be received, and each use of its connections may fail or succeed.

`lost`, `framed` and the history variables of `T2HPath` are read by no guard.

### ServerLifecycle and the code

`pc` has a step for each of three contexts that execute the same clean-up:
`main` itself, the SIGINT handler on the main thread (main stands still) and the
handler on the interrupt thread (that thread stands still). The steps are the
statements another context can tell apart: `free` and the assignment of NULL,
`close` and the assignment of INVALID_SOCKET, the lock, the flag, the join, the
release of the platform, the deletion and the clearing of `s_etherlink_server`.

- Pointers are abstracted to null, valid or dangling; a step through a bad one
  adds to `faults`, and ends the process where it certainly does.
- `LockFlags` waits for a reader, also for the reader its own handler has
  interrupted. `LockFails` is EDEADLK, whose exception handler exits.
- `JoinThread` by the thread itself returns EDEADLK, which the code prints.
- The interrupt thread is its look at the flag under the read lock; the sleeps
  between two looks end by themselves (`UioPlatform` shows that they do).

## 3. The runs

| Run | Question | Result |
|---|---|---|
| `h2t_safety` | accounting, integrity, alignment, refinement of `PacketFifo` | holds; 651,910 distinct states, depth 59 |
| `h2t_live` | is a waiting packet that fits served? | holds; 16,906 states |
| `h2t_unaligned` | addresses aligned for a memory size the command line accepts? | violated (finding) |
| `h2t_cut` | are descriptors pushed only for payloads received completely? | violated (finding) |
| `h2t_handover` | does a session work only on its own client's headers? | violated (finding) |
| `uio_platform` | all properties of the platform with every call failing at will | holds; 15,762 states |
| `sessions` | are sessions unmixed, agreed on, leak-free, and is everyone answered? | holds; 96,825 distinct states, depth 63 |
| `sessions_sigpipe` | does the server survive a client that leaves in the handshake? | violated (finding) |
| `sessions_patient` | does the handshake end if clients wait for their answers? | violated (finding) |
| `uio_join` | does cleanup join only the thread that init created? | violated (finding) |
| `server_loop` | is every path served in the end, whatever the others do, and is the T2H stream kept? | holds; 155,400 distinct states |
| `lifecycle` | does a SIGINT, or two, at any point end the process cleanly? | holds; 2,275 distinct states |

What the properties say:

- `SlotAccounting`: the driver's slot count is at most the IP's, so the unsigned
  difference in `get_h2t_buffer` cannot underflow; a buffer handed out always
  finds a free slot, although `push_h2t_data` does not check.
- `SpaceAccounting`: the three fields of the circular buffer describe exactly
  the bytes handed out and not given back. The chain index is `% 128`, the write
  index `% 2^16` and the offsets `% Span`; the property needs all three right.
- `RefusedForUnread`: `get_h2t_buffer` refuses a packet that fits only for
  descriptors the IP had not consumed when its register was read. It is also what
  lets `ServerLoop` find room whenever no descriptor is pending.
- `PendingIntact`: every byte of a pending, completely received descriptor is
  the byte received for it.
- `ImplementsFifo`: `H2TRing` refines `PacketFifo`. The mapping keeps the
  pending descriptors as the queue and the tags the DMA found as the delivery.
- `WaiterServed`: slots freed by the IP are noticed only in the next call of
  `get_h2t_buffer`; it does come, since unread payload keeps `select` returning.
- `NoLostWakeup`, `EntryOutlivesThread`, `CleanupReturns`, `InterruptServed`,
  and in `TypeOK` that the semaphore is binary until cleanup posts it.
- `JoinedAwake`, `JoinedNearsEnd`: once the flag is set and the semaphore posted,
  the joined thread is not asleep, and each of its steps, wherever it was, brings
  it nearer to its end (`Remaining`).
- `OneClientPerSession`: connections are taken in the order of the backlog, so
  another client's or another attempt's may come next; only the comparison of
  role and handle keeps them out.
- `SessionAgreement`: the last READY is a promise to the client. It holds for
  as long as the client keeps its connections, also if it has left and come
  back with a new attempt while the server still worked on the old one.
- `ConnectionsAccounted`: every connection is queued, held or closed, and only
  one of these, on each of the failing paths.
- `WaitsForItsClient`: a handshake without timeouts must not wait for what its
  client cannot do. In `accept` the client has the answer it needs to go on, and
  has connected or is free to; in `recv` it has announced the connection or has
  its turn, provided the connection is its own (finding 7 is when it is not).
- `EveryoneAnswered`, `RecvEnds`: nobody stays in the backlog for ever and no
  handshake hangs, provided clients give up in the end. The backlog is worked off
  or the served client, and nobody else, holds the server in one receive or send
  for ever: a client that announces a payload, never sends it and stays is enough
  for nobody to be told SERVER_BUSY. `EveryoneAnswered` rests on the clients'
  attempts being finite in number as well: with a steady stream of them the
  backlog need never be empty at any one moment.
- `SegmentKept`: while a segment is being sent, all its words are still in
  memory. Completing it before the last copy lets the IP overwrite the rest.
- `StartMarked`: SOP is where the FPGA starts a packet, across sessions and lost
  segments; the one exception is stated in the property (finding 9).
- `DeliversStream`: `T2HPath` refines `SegmentStream`: what is on the wire at
  completion is one header and exactly the segment's words, in the order of
  production, whatever the wraps and the partial sends.
- `InStep`: `process_h2t_data` receives payload without asking `select`. What it
  will receive is on its way or owed by the client, and a header comes behind it,
  however packets were kept waiting, retried, echoed and pushed in between.
- `CommandAnswered`, `SegmentsForwarded`, `WaitingPacketTaken`: no path starves
  behind the others. A waiting H2T packet or a MGMT packet that never gets a
  buffer makes `select` return at once for ever; that must not keep commands and
  segments from being served, and the waiting packet is looked at again only
  because its payload keeps the connection readable.
- `LeavingNoticed`: payload receives that fail are not reported to the loop, so
  that a client's departure is noticed by another call or not at all.
- `TypeOK` of `ServerLoop` contains that a descriptor is free when a payload has
  been received, although the IP may be reset and the mode switched meanwhile,
  and that commands without answer are on their way or were received with others.
- `ServingSigintIsSafe`, `ServingSigintReleases`: while the server is in
  `server_main`, any number of SIGINTs leads to no access through a bad pointer
  and no second `free`, `delete` or `pthread_join`, and an exit leaves nothing
  open. The clean-up is interrupted by nothing but another handler.
- `OneHandlerDeletes`: nothing guards `s_etherlink_server`. What keeps the second
  handler away is that the first joins the thread the second one runs on.
- `NoCircularWait`: three contexts wait for a lock and for a thread that two of
  them may run on; whenever one waits, there is another that can go on.
- `EntryOutlivesThread` (of `ServerLifecycle`): also when the interrupt thread's
  own handler releases the vector, after a join that failed.
- `SigintEnds`: the process ends, unless a second SIGINT meets the interrupt
  thread inside its read lock: its handler then waits for that lock, and the
  first handler for the thread.

Each of these has a mutant in `PROJECT.json`: a plausible slip in the code (an
offset not wrapped, a slot not checked, the read index not reset, a value
rounded the wrong way, a flag looked at too late) that TLC finds.

### Bounds

- `H2TRing`: words of 2 bytes instead of 8 (the smallest at which rounding
  matters); a memory of 3 words, so that packets of 2 words force wraps at
  each word boundary; 2 slots and a chain of 2, so slots and space each run out
  first in some behaviour; the unsigned short wraps at 6, reached with the 7
  packets of `MaxPkts`, as a multiple of the chain length like 2^16 of 128.
  Sizes 0, 1 and 3 cover the empty, the padded and the wrapping packet; the
  liveness run adds 6 (exactly the memory) and 7 (never fits), with a short that
  wraps at 10 so that these sizes fit one. `MaxPkts` limits
  packets per session; the number of sessions is unlimited.
- `UioPlatform`: 3 calls of `fpga_platform_init` suffice for a thread, a
  failure and a thread again; everything else is unbounded.
- `ClientSessions`: two clients, three attempts between them, so that a client
  meets the other's connections as well as those of its own earlier attempt; 3
  connections a session instead of 5: the control connection, which is treated
  differently, a middle one and the last; a backlog of 2 instead of 8, which
  fills up.

- `T2HPath`, `ServerLoop`: a memory of 2 words and segments of 1 and 2, so that a
  segment wraps, fills the memory and waits for the other's completion; 2
  descriptors; a connection that holds 2 items, less than header and segment, so
  that sends are partial and block. Payloads of 0 and 1 items, 2 descriptors of
  H2T. `MCBudgets` lists nine mixes of what clients and IP send in all (`cmds`,
  `packets`, `mgmt`, `segments`): each pair of paths meets in one of them, a
  session ends and another begins in each, and three packets with a command let
  a client meet the header another one has left. Sessions are unlimited, as are IP
  consumption, departures and the interleaving.
- `ServerLifecycle`: two SIGINTs, the most that two threads can handle at once;
  a third is pending until the process has ended.

The proofs do not depend on any of these.

### Fairness

- `H2TRing`: weak fairness of each server step and of the IP's consumption. The
  server's loop has no exit of its own and each step is finite; the IP drains
  its queue. No fairness for clients: no new header, no connection and no
  departure is ever required. Retrying needs weak fairness only, as `select`
  reports unread payload until it is taken. It supposes that the payload of the
  waiting packet is on the connection and that no payload and no other path of
  the loop blocks for ever; `ServerLoop` has those paths and states this as
  fairness of its client.
- `UioPlatform`: weak fairness of each call under way (cleanup, enable), of the
  thread as a whole, and of the kernel's delivery. What the application calls
  next is not fair, and the device need never interrupt.
- `ClientSessions`: weak fairness of each server step; the thread runs and each
  call returns once it can. Strong fairness of `Accept`: `accept` does not fail
  each time. A client goes on with the handshake, and one that is not served
  leaves in the end; nothing else in the code ends a `recv`, and
  `sessions_patient` shows what happens without. Strong fairness of
  `RejectClient`: each pass through `handle_client` begins with the listening
  socket, and passes may block in between. A served client need not leave, nor
  send or read what the server is blocked for; no client need come.
- `ServerLoop`: weak fairness of the server thread as a whole, which executes
  one step after the other; of the IP's H2T consumption; of the client reading
  its T2H connection and completing a payload it has begun. Without the last two
  the server's blocking calls last for ever, and so would all others' waiting:
  the code has no timeout. A client that neither reads nor leaves, in loopback
  or with T2H data under way, does block it. No client need send anything new,
  stay, leave or come. Answers on the control connection always fit.
- `ServerLifecycle`: weak fairness of the interrupt thread and of each handler's
  next step; strong fairness of the write lock, since the thread reads the flag
  again and again, with a sleep between that lets a writer in. Main need not go
  on, nor need a signal come.

## 4. The theorems

All are checked by TLAPS (SMT, Zenon, PTL). Assumptions, named in the modules:

- `RingAssumption`: positive sizes, at most as many slots as chain entries (the
  IP's depth register is at most 128), 2^16 a multiple of the chain length.
- `SizesFit`: the rounded size fits an unsigned short. Header lengths beyond
  65528 break it; documented packets carry at most 0x1000 bytes.
- `SpanAligned`, a premise of the memory theorems only: the memory is a whole
  number of words. `h2t_unaligned` shows what happens without it.
- `SessionsAssumption`: at least one connection a session, one place in the
  backlog and one attempt for each client; any set of clients. Distinct handles
  are part of the model (`get_random_id` makes equal ones improbable only).
- `PlatformAssumption`: some number of initialisations, any set of failures.
- `T2HAssumption`: a memory of at least one word, segments of at least one word
  that fit it, a descriptor depth and a socket room of at least 1.
- `LoopAssumption`: lengths and budgets are numbers, at least one H2T descriptor.
- `LifecycleAssumption`: some number of SIGINTs, any set of failing calls.

| Theorem | Says | Property |
|---|---|---|
| `TypeCorrect` | types and ranges | `TypeOK` |
| `SlotsAccounted` | slot count | `SlotAccounting` |
| `SpaceAccounted` | circular buffer | `SpaceAccounting` |
| `RefusalsJustified` | no refusal without cause | `RefusedForUnread` |
| `DescriptorsAligned` | aligned addresses | `AddressesAligned` |
| `DescriptorsIntact` | memory integrity | `PendingIntact` |
| `ImplementsQueue` | the path is a FIFO of packets | `ImplementsFifo` |
| `SessionsTyped` | types, room in `client_conn` | `TypeOK` |
| `SessionsUnmixed` | one client and attempt per session | `OneClientPerSession` |
| `SessionsAgreed` | client and server agree | `SessionAgreement` |
| `NoConnectionLeaked` | ownership of connections | `ConnectionsAccounted` |
| `HandshakeInStep` | the client's answers match what was accepted | |
| `SessionsWaitForTheirClient` | nothing impossible is waited for | `WaitsForItsClient` |
| `SemaphoreIsBinary` | platform types, binary semaphore | `TypeOK` |
| `EntryKept` | lifetime of the interface entry | `EntryOutlivesThread` |
| `WakeUpsKept` | no lost wake-up | `NoLostWakeup` |
| `JoinFindsItAwake` | no sleeper is joined | `JoinedAwake` |
| `JoinComesToAnEnd` | a joined thread nears its end | `JoinedNearsEnd` |
| `KeptUntilSent`, `LoopKeepsSegments` | segments stay until sent: the path, the loop | `SegmentKept` |
| `StartsMarked`, `LoopMarksStarts` | start of packet: the path, the loop | `StartMarked` |
| `ImplementsStream`, `LoopDeliversStream` | refinement: the path, the loop | `DeliversStream` |
| `LoopUsesPath` | the loop refines the path | |
| `LoopTyped` | types, room, commands | `TypeOK` |
| `LoopFraming` | the H2T stream is headers with their payloads | |
| `LoopInStep` | the server reads it in step | `InStep` |
| `LifecycleTyped` | types, no read of a flag being written | `TypeOK` |
| `ServingInterruptible` | SIGINT while serving | `ServingSigintIsSafe` |
| `ServingReleased` | what it releases | `ServingSigintReleases` |
| `DeletedOnce` | one handler deletes | `OneHandlerDeletes` |
| `NobodyWaitsInACircle` | lock and join never deadlock | `NoCircularWait` |
| `EntryKeptToTheEnd` | lifetime of the interface entry | `EntryOutlivesThread` |

**The ring.** `SpaceAccounting` is not inductive: giving bytes back needs to know
what the chain holds. `RingInv` adds that the chain entries of the buffers not
given back are the differences of consecutive `start`s (`ChainInv`), that the
indices are those buffers' numbers modulo their ranges and that no more of them
exist than the chain has entries (`SlotInv`), what each `pc` knows about the
locals (`ControlInv`), and where the handed-out buffers lie (`BufferInv`).
`RefusalsJustified` follows: with every known descriptor given back and none
unknown, the memory is free to the last byte and the slots are all there.

**The memory.** Ring addresses are places on an endless tape taken modulo
`Span`. A copy, padding included, writes places `start[nPush]` up to the next
`start`; pending descriptors cover places from `start[GivenBack]` up to
`start[nPush]`; `SpaceAccounting` keeps these within `Span`, so no two coincide.
`MemoryInv` adds word alignment of every `start` (`AlignInv`) and what the copy
in progress has already put in place (`FillInv`). `ImplementsQueue` adds that no
byte carries the number of a packet still to come (`TagInv`): a push appends to
the queue (`PushAccepts`, with `SlotAccounting` for the room), and what the IP
reads is the head (`ConsumeDelivers`, with `PendingIntact`).

**The platform.** `Inv` says who owns the thread and the entry (`ThreadOwned`),
that a post is preceded by an empty sample (`PosterSawEmpty`), and that a thread
about to sleep will still look at the flag or the entry if no post is due
(`WillSeeExit`, `WillSeeEnable`). For the join, `PosterSawEmpty` adds that the
flag is set from the post on, so that a thread that goes on to sleep finds the
post; `ThreadNearsEnd` looks at each step of the thread with the flag set.

**The sessions.** `Inv` adds to the properties: all but the newest of the held
connections have the client and attempt of the first and the role of their
place (`VerifiedInv`), which is what one comparison establishes for one more of
them; how many are held in each step (`HeldInv`); connections were made by
attempts that have begun, in the order of their roles (`MadeInv`), so that a
new one is different from all before and `ConnectionsAccounted` is kept; a
client without connections has seen no answer (`SeenInv`) and one with
connections has begun an attempt (`StartedInv`).

`WaitInv` follows the handshake on both sides. A client's connection numbers run
at most one ahead of its answers (`AnsweredFirst`); one whose first connection is
still queued has heard nothing (`Unheard`), so that it begins the handshake with
no answer; and from then on it has exactly the answers to what was accepted and
has lost no connection (`InHandshake`). In `accept` its next connection, if made
(`AllMade`), is neither closed nor held, hence queued (`WaitingInAccept`).

**The T2H path.** `SegmentKept` and `StartMarked` follow from the state at the
time of the step before. `PathInv` adds that at most one segment is popped and
that it is the one in hand (`HoldInv`); that the words of every posted segment
are in memory (`MemInv`), since the IP writes only where none is; what of the
segment is on the wire, in the buffer and still to be copied, which together are
the header and all its words (`WorkInv`); and that the packets of queued segments
are contiguous, with `g_t2h_sop` telling whether the next one starts a packet
(`FlagInv`). The refinement maps each step to one of `SegmentStream` or to a
stutter, `t2h_data_complete` to `Deliver`.

**The loop.** `LoopUsesPath` looks at the T2H part of each action only.
`LoopInv` says which stage goes with which state of the path (`Stages`), that
commands are accounted for (`Commanded`), that what is on its way are numbers
(`Received`) and that a packet being received for the IP will find a descriptor
(`Roomy`): only the server adds descriptors, and one packet is received at a
time. `FramingInv` is for `LoopInStep`: behind what is due and behind each
header on its way come as many items of payload as announced, the last of them
perhaps still owed, and then a header (`FramedStream`); a packet in hand does
not wait (`NotWaiting`), and nothing is on its way without a client
(`Unconnected`). Sending an item extends the stream, taking one shortens it
together with what is due, and keeping a packet waiting hands what is due from
`left` to `need`.

**The life cycle.** `Control` says where the contexts can be relative to each
other (a handler on the interrupt thread begins only after one on the main
thread, and none gets past the join while the other's thread runs), who holds
the lock, that what has been joined has ended and that a reader of the flag is
the thread that runs (`ReaderRuns`), which `NobodyWaitsInACircle` needs;
`ServeInv` says what the handlers have released at each of their steps while
main stands in `server_main`.

**Only model-checked**: the liveness properties
`WaiterServed`, `CleanupReturns`, `InterruptServed`, `EveryoneAnswered`,
`RecvEnds`, `CommandAnswered`, `SegmentsForwarded`, `WaitingPacketTaken`,
`LeavingNoticed` and `SigintEnds`, since TLAPS does not prove liveness under
fairness. For six of them the theorems say that what they wait for is there to
come: `RefusalsJustified` for `WaiterServed`, `JoinFindsItAwake` and
`JoinComesToAnEnd` for `CleanupReturns`, `SessionsWaitForTheirClient` for
`RecvEnds` and `EveryoneAnswered`, `LoopInStep` for `CommandAnswered`, and
`NobodyWaitsInACircle` for `SigintEnds`.

## 5. Findings

`PROJECT.json` quotes the code and the statements it disagrees with.

1. A memory size that is not a multiple of 8 leads to unaligned DMA addresses.
2. A connection lost within a payload still pushes its descriptor: the receive
   helper discards the error, and the caller's error branch is dead.
3. A client that leaves while its packet waits leaves `h2t_waiting` and its
   header to the next client, whose stream is then misread; its payload is read
   as headers, and the server may block for ever in a receive for more.
4. A second cleanup after a failed init joins a thread already joined.
5. An inverted condition makes a `sem_getvalue` dead code (harmless).
6. NOT_READY is sent on a control connection that has just failed; with SIGPIPE
   at its default the second send to a reset connection ends the server.
7. Two clients that connect at once have their connections mixed; if both wait
   for an answer, they and the server wait for ever.
8. `server_terminate` dereferences a null pointer when start-up fails before
   `server_main`, so that main's error message is never printed; on every later
   return of `run` the pointer dangles.
9. A reset by `HW_LOOPBACK` in the middle of a T2H packet leaves the next packet
   without its start flag.
10. Server loopback outlives the client that enabled it.
11. Of several commands received together only the first is answered.
12. The help text offers short options that are not accepted.

Findings 8 to 11 are visible in the models (`faults`, `torn`, `loop`, `lost`), and
the properties of the passing runs name them as exceptions.

## 6. Not modelled

- Message wording, header layout, argument syntax, printing, the address layout
  of `get_design_info`: no property is about them. The unit-test software model
  of the FPGA is test code.
- The bytes server loopback writes at the start of the H2T memory, whatever is
  pending there: `ServerLoop` has the loopback without the memory and `H2TRing`
  the memory without the loopback.
- MGMT beyond what the shipped server does with it. `get_mgmt_buffer`,
  `push_mgmt_data`, `get_mgmt_rsp_data` and the rest of `process_mgmt_data` and
  `process_mgmt_rsp_data` are not reachable with `ENABLE_MGMT` 0; they repeat the
  H2T and T2H code.
- T2H segments that are no whole number of words, or of 65536 bytes or more,
  whose length the 16-bit header field would not hold; H2T packets larger than
  the memory, which wait for ever (`H2TRing` has those).
- Exceptional conditions reported by `select` (out-of-band data), the Nagle
  parameters, a control answer that does not fit its connection, commands and
  headers that arrive in parts: a receive of either is one step.
- Calls in the SIGINT handler that are not async-signal-safe (`printf`, `free`,
  `delete`): a handler that interrupts `malloc` or `printf` may hang or corrupt
  the heap. A property about it would be false whatever the order of steps.
- How the other two threads' signal masks might be changed by code outside this
  repository; a signal is taken by the main thread unless it handles one already,
  as Linux does.
- `fpga_interrupt_open` and `fpga_interrupt_close`: the same code as `fpga_open`
  and `fpga_close`, for a flag nothing in the server uses.
- The `SINGLE_CLIENT` life span (for tests only), SIGPIPE while a client is
  served (T2H data sent to a client that has gone; `sessions_sigpipe` shows the
  same for the handshake), and handles that repeat.
- The Windows and Nios branches of the socket code: they differ in the names of
  calls and error codes, not in the protocol.
- Compiler and CPU reordering of the unlocked accesses to the interface entry;
  the two stores of `fpga_register_isr` are one step.

## 7. Where it could go

The bytes of server loopback in `H2TRing`; the MGMT path as an instance of the
ring, should it be compiled in.
