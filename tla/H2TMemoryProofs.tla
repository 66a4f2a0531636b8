-------------------------- MODULE H2TMemoryProofs --------------------------
(***************************************************************************)
(* What the H2T memory holds: the bytes of a descriptor stay untouched     *)
(* until the IP has read them.  This needs a memory of whole words; with   *)
(* any other span the padding of memcpy64_host2fpga at the end of the      *)
(* memory, and aligned sizes that are not aligned places, come into play.  *)
(*                                                                         *)
(* The argument: a byte of the ring is a place x on an endless tape taken  *)
(* modulo Span.  Everything a copy writes, padding included, has its place *)
(* in start[nPush] .. start[nPush + 1] - 1, every byte a pending           *)
(* descriptor covers has one in start[GivenBack] .. start[nPush] - 1, and  *)
(* the space accounting keeps all of these less than Span apart.           *)
(*                                                                         *)
(* The path then is a queue of packets (ImplementsQueue): pushing appends, *)
(* the IP takes the head, and what it finds are the head's bytes.          *)
(***************************************************************************)
EXTENDS H2TRingProofs, SequenceTheorems

\* The memory holds whole words.
SpanAligned == Span % Align = 0

\* Buffers start on word boundaries.
AlignInv == \A k \in 0..HandedOut : start[k] % Align = 0

\* What has been copied of the packet being received is in its place.
FillInv ==
  /\ pc = "copy2" /\ whole => \A j \in 0..(Span - buf - 1) : mem[buf + j] = nPush
  /\ pc = "push" /\ whole => \A j \in 0..(hdr - 1) : mem[(buf + j) % Span] = nPush

MemoryInv == RingInv /\ AlignInv /\ FillInv /\ PendingIntact

----------------------------------------------------------------------------
(* Alignment *)

\* Only the allocation adds a place, an aligned size behind an aligned place.
LEMMA NextAlign == RingInv /\ RingInv' /\ AlignInv /\ [Next]_vars => AlignInv'
<1> SUFFICES ASSUME RingInv, RingInv', AlignInv, [Next]_vars PROVE AlignInv'
  OBVIOUS
<1> USE ConstFacts
<1>1. CASE AllocBuffer
  <2> DEFINE sz == GET_ALIGNED_SZ(hdr)
  <2>1. hdr \in Sizes \cup {0} /\ nPush \in Nat /\ nPush < MaxPkts /\ start \in [0..MaxPkts -> Nat]
    BY <1>1 DEF RingInv, TypeOK, ServerTypeOK, HwTypeOK, ControlInv, AllocBuffer
  <2>2. sz \in Nat /\ sz % Align = 0
    BY <2>1, AlignedFacts
  <2>3. /\ start' = [start EXCEPT ![nPush + 1] = start[nPush] + sz]
        /\ HandedOut = nPush /\ HandedOut' = nPush + 1
    BY <1>1 DEF AllocBuffer, HandedOut, Filling, hwVars
  <2> HIDE DEF sz
  <2>4. start[nPush] \in Int /\ sz \in Int /\ Align \in Nat \ {0} /\ start[nPush] % Align = 0
    BY <2>1, <2>2, <2>3 DEF AlignInv
  <2>5. (start[nPush] + sz) % Align = 0
    <3>1. ((start[nPush] % Align) + sz) % Align = (start[nPush] + sz) % Align
      BY <2>4, ModAdd, Zenon
    <3> QED BY <2>2, <2>4, <3>1
  <2>6. ASSUME NEW k \in 0..(nPush + 1) PROVE start'[k] % Align = 0
    <3>1. CASE k = nPush + 1
      BY <2>1, <2>3, <2>5, <3>1
    <3>2. CASE k # nPush + 1
      <4>1. k \in 0..HandedOut /\ start'[k] = start[k]
        BY <2>1, <2>3, <3>2
      <4> QED BY <4>1 DEF AlignInv
    <3> QED BY <3>1, <3>2
  <2> QED BY <2>3, <2>6 DEF AlignInv
<1>2. CASE init_driver
  <2>1. HandedOut' = 0 /\ start'[0] = 0
    BY <1>2 DEF init_driver, HandedOut, Filling
  <2>2. 0 % Align = 0
    BY ModSmall
  <2> QED BY <2>1, <2>2 DEF AlignInv
<1>3. CASE push_h2t_data
  BY <1>3 DEF push_h2t_data, AlignInv, HandedOut, Filling
<1>4. CASE \/ EndSession \/ set_loopback_mode \/ RetryPayload \/ RetryEmpty \/ PollSlots \/ SumFreed
           \/ FreeSpace \/ AllocRefused \/ HwConsume \/ UNCHANGED vars
  <2>1. start' = start /\ nPush' = nPush /\ Filling' = Filling
    BY <1>4 DEF EndSession, set_loopback_mode, RetryPayload, RetryEmpty, Retry, PollSlots, SumFreed,
                FreeSpace, AllocRefused, HwConsume, vars, hwVars, Filling
  <2> QED BY <2>1 DEF AlignInv, HandedOut
<1>5. CASE CopyFirst \/ CopySecond
  <2>1. start' = start /\ nPush' = nPush /\ Filling /\ Filling'
    BY <1>5 DEF CopyFirst, CopySecond, Filling
  <2> QED BY <2>1 DEF AlignInv, HandedOut
<1>6. ASSUME NEW s \in Sizes, RecvHeader(s) PROVE AlignInv'
  <2>1. start' = start /\ nPush' = nPush /\ ~Filling /\ ~Filling'
    BY <1>6 DEF RecvHeader, hwVars, Filling
  <2> QED BY <2>1 DEF AlignInv, HandedOut
<1> QED BY <1>1, <1>2, <1>3, <1>4, <1>5, <1>6 DEF Next

\* AddressesAligned for every memory of whole words: each descriptor pushed to
\* the IP starts on a word boundary.
THEOREM DescriptorsAligned == SpanAligned => (Spec => []AddressesAligned)
<1> SUFFICES ASSUME SpanAligned PROVE Spec => []AddressesAligned
  OBVIOUS
<1>1. Init => RingInv /\ AlignInv
  <2>1. 0 % Align = 0
    BY ConstFacts, ModSmall
  <2>2. Init => AlignInv
    BY <2>1, ConstFacts DEF Init, AlignInv, HandedOut, Filling
  <2> QED BY <2>2, InitRingInv
<1>2. RingInv /\ AlignInv /\ [Next]_vars => (RingInv /\ AlignInv)'
  BY NextRing, NextAlign
<1>3. RingInv /\ AlignInv => AddressesAligned
  <2> SUFFICES ASSUME RingInv, AlignInv, NEW k \in Pending PROVE desc[k].where % Align = 0
    BY DEF AddressesAligned
  <2>1. /\ nDone \in Nat /\ nPush \in Nat /\ nPush <= MaxPkts /\ start \in [0..MaxPkts -> Nat]
    BY ConstFacts DEF RingInv, TypeOK, HwTypeOK
  <2>2. k \in 0..HandedOut /\ k \in 0..MaxPkts /\ start[k] \in Int
    <3>1. k \in Nat /\ k < nPush
      BY <2>1 DEF Pending
    <3>2. nPush <= HandedOut /\ HandedOut \in Nat
      BY <2>1 DEF HandedOut
    <3> QED BY <2>1, <3>1, <3>2, ConstFacts
  <2>3. start[k] % Align = 0 /\ desc[k].where = start[k] % Span
    BY <2>2 DEF AlignInv, RingInv, BufferInv
  <2>4. Align \in Nat \ {0} /\ Span \in Nat \ {0} /\ Span % Align = 0
    BY ConstFacts DEF SpanAligned
  <2>5. (start[k] % Span) % Align = start[k] % Align
    BY <2>2, <2>4, ModMod, Zenon
  <2> QED BY <2>3, <2>5
<1> QED BY <1>1, <1>2, <1>3, PTL DEF Spec

----------------------------------------------------------------------------
(* Places *)

\* What the steps below need to know while a buffer is being filled.
LEMMA FillFacts ==
  ASSUME RingInv, Filling
  PROVE  /\ hdr \in Nat /\ GET_ALIGNED_SZ(hdr) \in Nat /\ hdr <= GET_ALIGNED_SZ(hdr)
         /\ GET_ALIGNED_SZ(hdr) = RoundUp(hdr, Align)
         /\ GET_ALIGNED_SZ(hdr) <= Span
         /\ buf \in 0..(Span - 1) /\ nPush \in Nat /\ nPush < MaxPkts /\ nDone \in Nat
         /\ start \in [0..MaxPkts -> Nat]
         /\ buf = start[nPush] % Span
         /\ start[nPush + 1] = start[nPush] + GET_ALIGNED_SZ(hdr)
         /\ \A k \in Pending : k \in 0..(nPush - 1) /\ start[k + 1] <= start[nPush]
                               /\ start[nPush + 1] <= start[k] + Span
<1> USE ConstFacts
<1>1. pc \in {"copy", "copy2", "push"} /\ pc # "connect"
  BY DEF Filling
<1>2. hdr \in Sizes \cup {0} /\ buf \in 0..(Span - 1) /\ nPush \in Nat /\ nPush < MaxPkts /\ nDone \in Nat
  BY <1>1 DEF RingInv, TypeOK, ServerTypeOK, HwTypeOK, ControlInv
<1>3. /\ hdr \in Nat /\ GET_ALIGNED_SZ(hdr) \in Nat /\ hdr <= GET_ALIGNED_SZ(hdr)
      /\ GET_ALIGNED_SZ(hdr) = RoundUp(hdr, Align)
  BY <1>2, AlignedFacts DEF GET_ALIGNED_SZ, RoundUp
<1>4. /\ start \in [0..MaxPkts -> Nat] /\ buf = start[nPush] % Span
      /\ start[nPush + 1] = start[nPush] + GET_ALIGNED_SZ(hdr)
  BY DEF RingInv, TypeOK, HwTypeOK, BufferInv
<1>5. /\ HandedOut = nPush + 1 /\ GivenBack = Known /\ Known \in Int /\ 0 <= Known /\ Known <= nDone
  BY <1>1, <1>2 DEF HandedOut, GivenBack, RingInv, SlotInv, Known, TypeOK, DriverTypeOK
<1>6. start[nPush + 1] <= start[Known] + Span
  <2>1. space_available = Span - (start[nPush + 1] - start[Known]) /\ space_available \in 0..Span
    BY <1>1, <1>5 DEF RingInv, SpaceAccounting, TypeOK, DriverTypeOK
  <2>2. Known \in 0..MaxPkts \/ nDone > MaxPkts
    BY <1>2, <1>5
  <2>3. nDone <= nPush
    BY DEF RingInv, ControlInv
  <2>4. nPush + 1 \in 0..MaxPkts /\ Known \in 0..MaxPkts
    BY <1>2, <2>2, <2>3
  <2>5. start[nPush + 1] \in Nat /\ start[Known] \in Nat
    BY <1>4, <2>4
  <2> QED BY <2>1, <2>5
<1>7. nDone <= nPush /\ Known \in 0..MaxPkts
  BY <1>2, <1>5 DEF RingInv, ControlInv
<1>8. \A p, q \in 0..(nPush + 1) : p <= q => start[p] <= start[q]
  BY <1>1, <1>5 DEF RingInv, ChainInv
<1>9. ASSUME NEW k \in Pending
      PROVE  k \in 0..(nPush - 1) /\ start[k + 1] <= start[nPush] /\ start[nPush + 1] <= start[k] + Span
  <2>1. k \in Nat /\ nDone <= k /\ k < nPush /\ Known <= k
    BY <1>2, <1>5 DEF Pending
  <2>2. k \in 0..(nPush + 1) /\ k + 1 \in 0..(nPush + 1) /\ nPush \in 0..(nPush + 1) /\ Known \in 0..(nPush + 1)
    BY <1>2, <1>5, <2>1
  <2>3. start[k + 1] <= start[nPush] /\ start[Known] <= start[k]
    BY <1>2, <1>8, <2>1, <2>2
  <2>4. start[nPush + 1] \in Nat /\ start[k] \in Nat /\ start[Known] \in Nat
    BY <1>2, <1>4, <1>7, <2>1
  <2> QED BY <1>2, <1>6, <2>1, <2>3, <2>4
<1>10. GET_ALIGNED_SZ(hdr) <= Span
  <2>1. start[Known] <= start[nPush] /\ start[Known] \in Nat /\ start[nPush] \in Nat
    BY <1>2, <1>4, <1>5, <1>7, <1>8
  <2> QED BY <1>3, <1>4, <1>6, <2>1
<1> QED BY <1>2, <1>3, <1>4, <1>9, <1>10

\* A byte of the buffer being filled belongs to no pending descriptor.
LEMMA PlacesDisjoint ==
  ASSUME RingInv, Filling, NEW k \in Pending,
         NEW o \in 0..(GET_ALIGNED_SZ(hdr) - 1)
  PROVE  (start[nPush] + o) % Span \notin HwBytes(desc[k])
<1> USE ConstFacts
<1> DEFINE sz == GET_ALIGNED_SZ(hdr)
<1>1. /\ sz \in Nat /\ nPush \in Nat /\ k \in 0..(nPush - 1) /\ start[k + 1] <= start[nPush]
      /\ start[nPush] + sz <= start[k] + Span /\ nPush < MaxPkts
      /\ start[nPush] \in Nat /\ start[k] \in Nat /\ start[k + 1] \in Nat
  <2>1. /\ sz \in Nat /\ nPush \in Nat /\ k \in 0..(nPush - 1) /\ start[k + 1] <= start[nPush]
        /\ start[nPush + 1] <= start[k] + Span /\ start[nPush + 1] = start[nPush] + sz
        /\ nPush < MaxPkts /\ start \in [0..MaxPkts -> Nat]
    BY FillFacts
  <2>2. nPush \in 0..MaxPkts /\ k \in 0..MaxPkts /\ k + 1 \in 0..MaxPkts
    BY <2>1
  <2> HIDE DEF sz
  <2> QED BY <2>1, <2>2
<1>2. desc[k].where = start[k] % Span /\ desc[k].len <= start[k + 1] - start[k]
  BY DEF RingInv, BufferInv
<1>3. desc[k].len \in Nat
  <2>1. k \in Ids /\ desc \in [Ids -> DescType]
    BY <1>1 DEF RingInv, TypeOK, HwTypeOK, Ids
  <2>2. desc[k] \in DescType /\ Sizes \cup {0} \subseteq Nat
    BY <2>1
  <2> QED BY <2>2 DEF DescType
<1>4. SUFFICES ASSUME NEW j \in 0..(desc[k].len - 1),
                      (start[nPush] + o) % Span = (desc[k].where + j) % Span
               PROVE  FALSE
  BY DEF HwBytes
<1> DEFINE a == start[k] + j
           b == start[nPush] + o
<1>5. a \in Int /\ b \in Int /\ a < b /\ b < a + Span
  <2>1. o \in Nat /\ o < sz /\ j \in Nat /\ j < start[k + 1] - start[k]
    BY <1>1, <1>2, <1>3, <1>4
  <2> HIDE DEF sz
  <2> QED BY <1>1, <2>1
<1>6. (desc[k].where + j) % Span = a % Span
  <2>1. start[k] \in Int /\ j \in Int /\ Span \in Nat \ {0}
    BY <1>1
  <2>2. ((start[k] % Span) + j) % Span = (start[k] + j) % Span
    BY <2>1, ModAdd, Zenon
  <2> QED BY <1>2, <2>2
<1>7. a % Span # b % Span
  <2> HIDE DEF a, b
  <2> QED BY <1>5, ModDistinct
<1> QED BY <1>4, <1>6, <1>7

\* The place of a byte in front of the wrap, and of one behind it.
LEMMA PlaceAhead ==
  ASSUME RingInv, Filling, NEW o \in Nat, buf + o < Span
  PROVE  (start[nPush] + o) % Span = buf + o
<1> USE ConstFacts
<1>1. start[nPush] \in Int /\ o \in Int /\ Span \in Nat \ {0} /\ buf = start[nPush] % Span /\ buf \in 0..(Span - 1)
  <2>1. nPush \in Nat /\ nPush < MaxPkts /\ start \in [0..MaxPkts -> Nat]
    BY FillFacts
  <2>2. nPush \in 0..MaxPkts
    BY <2>1
  <2> QED BY <2>1, <2>2, FillFacts
<1>2. ((start[nPush] % Span) + o) % Span = (start[nPush] + o) % Span
  BY <1>1, ModAdd, Zenon
<1>3. (buf + o) % Span = buf + o
  <2>1. buf + o \in 0..(Span - 1)
    BY <1>1
  <2> QED BY <2>1, ModSmall
<1> QED BY <1>1, <1>2, <1>3

LEMMA PlaceBehind ==
  ASSUME RingInv, Filling, NEW o \in Nat, o <= Span, buf + o >= Span
  PROVE  (start[nPush] + o) % Span = buf + o - Span
<1> USE ConstFacts
<1>1. start[nPush] \in Int /\ o \in Int /\ Span \in Nat \ {0} /\ buf = start[nPush] % Span /\ buf \in 0..(Span - 1)
  <2>1. nPush \in Nat /\ nPush < MaxPkts /\ start \in [0..MaxPkts -> Nat]
    BY FillFacts
  <2>2. nPush \in 0..MaxPkts
    BY <2>1
  <2> QED BY <2>1, <2>2, FillFacts
<1>2. ((start[nPush] % Span) + o) % Span = (start[nPush] + o) % Span
  BY <1>1, ModAdd, Zenon
<1>3. (buf + o) % Span = buf + o - Span
  <2> DEFINE c == buf + o
  <2>1. c \in Span..(2 * Span - 1)
    BY <1>1
  <2> HIDE DEF c
  <2>2. c % Span = c - Span
    BY <2>1, ModWrap
  <2>3. c - Span = buf + o - Span
    BY <1>1 DEF c
  <2> QED BY <2>2, <2>3 DEF c
<1> QED BY <1>1, <1>2, <1>3

\* Words divide the memory in front of the buffer and the part behind it.
LEMMA BufferAligned ==
  ASSUME SpanAligned, RingInv, AlignInv, Filling
  PROVE  buf % Align = 0 /\ (Span - buf) % Align = 0
<1> USE ConstFacts
<1>1. nPush \in Nat /\ nPush < MaxPkts /\ start \in [0..MaxPkts -> Nat] /\ buf = start[nPush] % Span
      /\ buf \in 0..(Span - 1)
  BY FillFacts
<1>2. nPush \in 0..MaxPkts /\ nPush \in 0..HandedOut
  BY <1>1 DEF HandedOut
<1>3. start[nPush] \in Int /\ start[nPush] % Align = 0
  BY <1>1, <1>2 DEF AlignInv
<1>4. Align \in Nat \ {0} /\ Span \in Nat \ {0} /\ Span % Align = 0
  BY DEF SpanAligned
<1>5. (start[nPush] % Span) % Align = start[nPush] % Align
  BY <1>3, <1>4, ModMod, Zenon
<1>6. buf % Align = 0
  BY <1>1, <1>3, <1>5
<1>7. buf \in Int /\ Span - buf \in Int /\ buf + (Span - buf) = Span
  BY <1>1
<1>8. ((buf % Align) + (Span - buf)) % Align = (buf + (Span - buf)) % Align
  BY <1>4, <1>7, ModAdd, Zenon
<1>9. 0 + (Span - buf) = Span - buf
  BY <1>7
<1> QED BY <1>4, <1>6, <1>7, <1>8, <1>9

\* The bytes each of the three copies writes.
LEMMA CopyWhole ==
  ASSUME SpanAligned, RingInv, AlignInv, Filling, buf + hdr <= Span
  PROVE  /\ CopiedBytes(buf, hdr) = buf .. (buf + GET_ALIGNED_SZ(hdr) - 1)
         /\ buf + GET_ALIGNED_SZ(hdr) <= Span
<1> USE ConstFacts
<1>1. /\ hdr \in Nat /\ buf \in 0..(Span - 1) /\ GET_ALIGNED_SZ(hdr) = RoundUp(hdr, Align)
      /\ GET_ALIGNED_SZ(hdr) \in Nat
  BY FillFacts
<1>2. Span - buf \in Nat /\ hdr <= Span - buf /\ (Span - buf) % Align = 0 /\ Align \in Nat \ {0}
  BY <1>1, BufferAligned
<1>3. RoundUp(hdr, Align) <= Span - buf
  BY <1>1, <1>2, RoundUpLeast
<1>4. CopiedBytes(buf, hdr) = buf .. (buf + RoundUp(hdr, Align) - 1)
  BY DEF CopiedBytes, RoundUp
<1> QED BY <1>1, <1>3, <1>4

LEMMA CopyToEnd ==
  ASSUME SpanAligned, RingInv, AlignInv, Filling, buf + hdr > Span
  PROVE  CopiedBytes(buf, Span - buf) = buf .. (Span - 1)
<1> USE ConstFacts
<1>1. buf \in 0..(Span - 1)
  BY FillFacts
<1>2. Span - buf \in Nat /\ (Span - buf) % Align = 0 /\ Align \in Nat \ {0}
  BY <1>1, BufferAligned
<1>3. RoundUp(Span - buf, Align) <= Span - buf
  BY <1>2, RoundUpLeast
<1>4. Span - buf <= RoundUp(Span - buf, Align) /\ RoundUp(Span - buf, Align) \in Nat
  BY <1>2, RoundUpIs
<1>5. CopiedBytes(buf, Span - buf) = buf .. (buf + RoundUp(Span - buf, Align) - 1)
  BY DEF CopiedBytes, RoundUp
<1>6. buf + RoundUp(Span - buf, Align) - 1 = Span - 1
  BY <1>1, <1>3, <1>4
<1> QED BY <1>5, <1>6

LEMMA CopyFromZero ==
  ASSUME SpanAligned, RingInv, AlignInv, Filling, buf + hdr > Span
  PROVE  CopiedBytes(0, hdr - (Span - buf)) = 0 .. (GET_ALIGNED_SZ(hdr) - (Span - buf) - 1)
<1> USE ConstFacts
<1>1. /\ hdr \in Nat /\ buf \in 0..(Span - 1) /\ GET_ALIGNED_SZ(hdr) = RoundUp(hdr, Align)
      /\ GET_ALIGNED_SZ(hdr) \in Nat
  BY FillFacts
<1>2. Span - buf \in Nat /\ (Span - buf) % Align = 0 /\ Align \in Nat \ {0} /\ Span - buf <= hdr
  BY <1>1, BufferAligned
<1>3. RoundUp(hdr - (Span - buf), Align) = RoundUp(hdr, Align) - (Span - buf)
  <2> DEFINE m == Span - buf
  <2>1. m \in Nat /\ m % Align = 0 /\ m <= hdr
    BY <1>2
  <2> HIDE DEF m
  <2>2. RoundUp(hdr - m, Align) = RoundUp(hdr, Align) - m
    BY <1>1, <2>1, RoundUpShift
  <2> QED BY <2>2 DEF m
<1>4. CopiedBytes(0, hdr - (Span - buf)) = 0 .. (0 + RoundUp(hdr - (Span - buf), Align) - 1)
  BY DEF CopiedBytes, RoundUp
<1>5. 0 + RoundUp(hdr - (Span - buf), Align) - 1 = GET_ALIGNED_SZ(hdr) - (Span - buf) - 1
  BY <1>1, <1>2, <1>3
<1> QED BY <1>4, <1>5

\* A copy that stays inside the buffer leaves the pending descriptors' bytes.
LEMMA CopyKeepsPending ==
  ASSUME RingInv, Filling, PendingIntact, NEW addr, NEW len, RecvAndCopy(addr, len),
         \A b \in CopiedBytes(addr, len) :
           \E o \in 0..(GET_ALIGNED_SZ(hdr) - 1) : b = (start[nPush] + o) % Span,
         desc' = desc, nPush' = nPush, nDone' = nDone
  PROVE  PendingIntact'
<1> SUFFICES ASSUME NEW k \in Pending, desc[k].whole, NEW b \in HwBytes(desc[k])
             PROVE  mem'[b] = k
  BY DEF PendingIntact, Pending, HwBytes
<1>1. mem[b] = k
  BY DEF PendingIntact
<1>2. b \notin CopiedBytes(addr, len)
  BY PlacesDisjoint
<1>3. b \in MemBytes
  <2>1. k \in Ids
    <3>1. k \in 0..(nPush - 1) /\ nPush \in Nat /\ nPush < MaxPkts
      BY FillFacts
    <3> QED BY <3>1, ConstFacts DEF Ids
  <2>2. desc[k].where \in 0..(Span - 1) /\ desc[k].len \in Nat
    <3>1. desc[k] \in DescType /\ Sizes \cup {0} \subseteq Nat
      BY <2>1, ConstFacts DEF RingInv, TypeOK, HwTypeOK
    <3> QED BY <3>1 DEF DescType
  <2>3. PICK j \in 0..(desc[k].len - 1) : b = (desc[k].where + j) % Span
    BY DEF HwBytes
  <2>4. desc[k].where + j \in Int /\ Span \in Nat \ {0}
    BY <2>2, <2>3, ConstFacts
  <2>5. (desc[k].where + j) % Span \in 0..(Span - 1)
    BY <2>4, DivMod, Zenon
  <2> QED BY <2>3, <2>5, ConstFacts DEF MemBytes
<1> QED BY <1>1, <1>2, <1>3 DEF RecvAndCopy

----------------------------------------------------------------------------
(* MemoryInv is inductive *)

LEMMA CopyFirstMemory ==
  ASSUME SpanAligned, MemoryInv, CopyFirst
  PROVE  FillInv' /\ PendingIntact'
<1> USE ConstFacts
<1> DEFINE sz == GET_ALIGNED_SZ(hdr)
<1>1. /\ RingInv /\ AlignInv /\ PendingIntact /\ Filling /\ whole
      /\ desc' = desc /\ nPush' = nPush /\ nDone' = nDone /\ buf' = buf /\ hdr' = hdr
  BY DEF MemoryInv, CopyFirst, Filling, RingInv, ControlInv
<1>2. /\ hdr \in Nat /\ sz \in Nat /\ hdr <= sz /\ sz <= Span /\ buf \in 0..(Span - 1)
      /\ nPush \in Nat
  BY <1>1, FillFacts
<1>3. first_len = IF buf + hdr > Span THEN Span - buf ELSE 0
  BY DEF first_len, buff_len_to_wrap_boundary
<1>4. CASE buf + hdr > Span
  <2>1. RecvAndCopy(buf, Span - buf) /\ pc' = "copy2"
    BY <1>2, <1>3, <1>4 DEF CopyFirst
  <2>2. CopiedBytes(buf, Span - buf) = buf .. (Span - 1)
    BY <1>1, <1>4, CopyToEnd
  <2>3. FillInv'
    <3> SUFFICES ASSUME whole', NEW j \in 0..(Span - buf - 1) PROVE mem'[buf + j] = nPush
      BY <1>1, <2>1 DEF FillInv
    <3>1. buf + j \in buf .. (Span - 1) /\ buf + j \in MemBytes
      BY <1>2 DEF MemBytes
    <3> QED BY <2>1, <2>2, <3>1 DEF RecvAndCopy
  <2>4. ASSUME NEW b \in buf .. (Span - 1)
        PROVE  \E o \in 0..(sz - 1) : b = (start[nPush] + o) % Span
    <3> DEFINE o == b - buf
    <3>1. o \in Nat /\ buf + o < Span /\ buf + o = b /\ o < sz
      <4> HIDE DEF sz
      <4> QED BY <1>2, <1>4
    <3> HIDE DEF o, sz
    <3>2. (start[nPush] + o) % Span = b
      BY <1>1, <3>1, PlaceAhead
    <3> QED BY <1>2, <3>1, <3>2
  <2> QED BY <1>1, <2>1, <2>2, <2>3, <2>4, CopyKeepsPending
<1>5. CASE ~(buf + hdr > Span)
  <2>1. RecvAndCopy(buf, hdr) /\ pc' = "push"
    BY <1>3, <1>5 DEF CopyFirst
  <2>2. CopiedBytes(buf, hdr) = buf .. (buf + sz - 1) /\ buf + sz <= Span
    BY <1>1, <1>2, <1>5, CopyWhole
  <2>3. FillInv'
    <3> SUFFICES ASSUME whole', NEW j \in 0..(hdr - 1) PROVE mem'[(buf + j) % Span] = nPush
      BY <1>1, <2>1 DEF FillInv
    <3>1. buf + j \in 0..(Span - 1) /\ buf + j \in buf .. (buf + sz - 1) /\ buf + j \in MemBytes
      <4> HIDE DEF sz
      <4> QED BY <1>2, <1>5, <2>2 DEF MemBytes
    <3>2. (buf + j) % Span = buf + j
      BY <3>1, ModSmall
    <3> QED BY <2>1, <2>2, <3>1, <3>2 DEF RecvAndCopy
  <2>4. ASSUME NEW b \in buf .. (buf + sz - 1)
        PROVE  \E o \in 0..(sz - 1) : b = (start[nPush] + o) % Span
    <3> DEFINE o == b - buf
    <3>1. o \in Nat /\ buf + o < Span /\ buf + o = b /\ o < sz
      <4> HIDE DEF sz
      <4> QED BY <1>2, <2>2
    <3> HIDE DEF o, sz
    <3>2. (start[nPush] + o) % Span = b
      BY <1>1, <3>1, PlaceAhead
    <3> QED BY <1>2, <3>1, <3>2
  <2> QED BY <1>1, <2>1, <2>2, <2>3, <2>4, CopyKeepsPending
<1> QED BY <1>4, <1>5

LEMMA CopySecondMemory ==
  ASSUME SpanAligned, MemoryInv, CopySecond
  PROVE  FillInv' /\ PendingIntact'
<1> USE ConstFacts
<1> DEFINE sz == GET_ALIGNED_SZ(hdr)
           m == Span - buf
<1>1. /\ RingInv /\ AlignInv /\ PendingIntact /\ FillInv /\ Filling /\ pc = "copy2" /\ pc' = "push"
      /\ desc' = desc /\ nPush' = nPush /\ nDone' = nDone /\ buf' = buf /\ hdr' = hdr
      /\ buf + hdr > Span
  BY DEF MemoryInv, CopySecond, Filling, RingInv, ControlInv
<1>2. /\ hdr \in Nat /\ sz \in Nat /\ hdr <= sz /\ sz <= Span /\ buf \in 0..(Span - 1)
      /\ nPush \in Nat /\ m \in Nat /\ m <= hdr
  <2>1. /\ hdr \in Nat /\ sz \in Nat /\ hdr <= sz /\ sz <= Span /\ buf \in 0..(Span - 1)
        /\ nPush \in Nat
    BY <1>1, FillFacts
  <2> HIDE DEF sz
  <2> QED BY <1>1, <2>1
<1>3. RecvAndCopy(0, hdr - m)
  BY <1>1, <1>2 DEF CopySecond, first_len, buff_len_to_wrap_boundary
<1>4. CopiedBytes(0, hdr - m) = 0 .. (sz - m - 1)
  BY <1>1, CopyFromZero
<1>5. ASSUME NEW b \in 0 .. (sz - m - 1)
      PROVE  \E o \in 0..(sz - 1) : b = (start[nPush] + o) % Span
  <2> DEFINE o == m + b
  <2>1. o \in Nat /\ o <= Span /\ buf + o >= Span /\ buf + o - Span = b /\ o < sz
    <3> HIDE DEF sz
    <3> QED BY <1>2
  <2> HIDE DEF o, sz, m
  <2>2. (start[nPush] + o) % Span = b
    BY <1>1, <2>1, PlaceBehind
  <2> QED BY <1>2, <2>1, <2>2
<1>6. PendingIntact'
  <2> HIDE DEF sz, m
  <2> QED BY <1>1, <1>3, <1>4, <1>5, CopyKeepsPending DEF sz
<1>7. FillInv'
  <2> SUFFICES ASSUME whole', NEW j \in 0..(hdr - 1) PROVE mem'[(buf + j) % Span] = nPush
    BY <1>1 DEF FillInv
  <2>1. whole /\ mem' = [b \in MemBytes |-> IF b \in 0 .. (sz - m - 1) THEN nPush ELSE mem[b]]
    <3> HIDE DEF sz, m
    <3> QED BY <1>3, <1>4 DEF RecvAndCopy
  <2>2. CASE j < m
    <3>1. j \in 0..(Span - buf - 1) /\ buf + j \in 0..(Span - 1) /\ buf + j \in MemBytes
      BY <1>2, <2>2 DEF MemBytes
    <3>2. mem[buf + j] = nPush
      BY <1>1, <2>1, <3>1 DEF FillInv
    <3>3. (buf + j) % Span = buf + j
      BY <3>1, ModSmall
    <3> QED BY <2>1, <3>1, <3>2, <3>3
  <2>3. CASE j >= m
    <3> DEFINE c == buf + j
    <3>1. c \in Span..(2 * Span - 1) /\ c - Span \in 0 .. (sz - m - 1) /\ c - Span \in MemBytes
      <4> HIDE DEF sz
      <4> QED BY <1>2, <2>3 DEF MemBytes
    <3> HIDE DEF c
    <3>2. c % Span = c - Span
      BY <3>1, ModWrap
    <3>3. mem'[c % Span] = nPush
      BY <2>1, <3>1, <3>2
    <3> QED BY <3>3 DEF c
  <2> QED BY <1>2, <2>2, <2>3
<1> QED BY <1>6, <1>7

LEMMA PushMemory ==
  ASSUME MemoryInv, push_h2t_data
  PROVE  FillInv' /\ PendingIntact'
<1> USE ConstFacts
<1>1. /\ pc = "push" /\ pc' = "select" /\ mem' = mem /\ nDone' = nDone /\ nPush' = nPush + 1
      /\ desc' = [desc EXCEPT ![nPush] = [where |-> buf, len |-> hdr, whole |-> whole]]
      /\ RingInv /\ FillInv /\ PendingIntact
  BY DEF push_h2t_data, MemoryInv
<1>2. Filling /\ nPush \in Nat /\ nPush < MaxPkts /\ nDone \in Nat /\ desc \in [Ids -> DescType] /\ nPush \in Ids
  <2>1. Filling
    BY <1>1 DEF Filling
  <2> QED BY <1>1, <2>1, FillFacts DEF Ids, RingInv, TypeOK, HwTypeOK
<1>3. FillInv'
  BY <1>1 DEF FillInv
<1>4. ASSUME NEW k \in Pending', desc'[k].whole, NEW b \in HwBytes(desc'[k])
      PROVE  mem[b] = k
  <2>1. CASE k = nPush
    <3>1. desc'[k] = [where |-> buf, len |-> hdr, whole |-> whole]
      BY <1>1, <1>2, <2>1
    <3>2. PICK j \in 0..(hdr - 1) : b = (buf + j) % Span
      BY <1>4, <3>1 DEF HwBytes
    <3> QED BY <1>1, <1>4, <2>1, <3>1, <3>2 DEF FillInv
  <2>2. CASE k # nPush
    <3>1. k \in Pending /\ desc'[k] = desc[k]
      BY <1>1, <1>2, <2>2 DEF Pending
    <3> QED BY <1>1, <1>4, <3>1 DEF PendingIntact
  <2> QED BY <2>1, <2>2
<1>5. PendingIntact'
  BY <1>1, <1>4 DEF PendingIntact, HwBytes
<1> QED BY <1>3, <1>5

LEMMA ConsumeMemory ==
  ASSUME MemoryInv, HwConsume
  PROVE  FillInv' /\ PendingIntact'
<1> USE ConstFacts
<1>1. /\ nDone < nPush /\ nDone' = nDone + 1 /\ desc' = [desc EXCEPT ![nDone] = NoDesc]
      /\ UNCHANGED <<pc, buf, whole, hdr, nPush, mem>>
      /\ RingInv /\ FillInv /\ PendingIntact
  BY DEF HwConsume, MemoryInv, sessionVars, localVars
<1>2. nDone \in Nat /\ nPush \in 0..MaxPkts /\ desc \in [Ids -> DescType]
  BY <1>1 DEF RingInv, TypeOK, HwTypeOK
<1>3. \A k \in Pending' : k \in Pending /\ desc'[k] = desc[k]
  BY <1>1, <1>2 DEF Pending, Ids
<1>4. PendingIntact'
  BY <1>1, <1>3 DEF PendingIntact, HwBytes
<1>5. FillInv'
  BY <1>1 DEF FillInv
<1> QED BY <1>4, <1>5

LEMMA NextMemory == SpanAligned /\ MemoryInv /\ [Next]_vars => MemoryInv'
<1> SUFFICES ASSUME SpanAligned, MemoryInv, [Next]_vars PROVE MemoryInv'
  OBVIOUS
<1>1. RingInv' /\ AlignInv'
  BY NextRing, NextAlign DEF MemoryInv
<1>2. FillInv' /\ PendingIntact'
  <2>1. CASE CopyFirst
    BY <2>1, CopyFirstMemory
  <2>2. CASE CopySecond
    BY <2>2, CopySecondMemory
  <2>3. CASE push_h2t_data
    BY <2>3, PushMemory
  <2>4. CASE HwConsume
    BY <2>4, ConsumeMemory
  <2>5. CASE init_driver
    <3>1. Pending' = {} /\ pc' = "select"
      BY <2>5 DEF init_driver, Pending
    <3> QED BY <3>1 DEF FillInv, PendingIntact
  <2>6. CASE set_loopback_mode
    <3>1. nPush \in Nat
      BY DEF MemoryInv, RingInv, TypeOK, HwTypeOK
    <3>2. Pending' = {} /\ pc' = "select"
      BY <2>6, <3>1 DEF set_loopback_mode, Pending
    <3> QED BY <3>2 DEF FillInv, PendingIntact
  <2>7. ASSUME \/ EndSession \/ RetryPayload \/ RetryEmpty \/ PollSlots \/ SumFreed
               \/ FreeSpace \/ AllocBuffer \/ AllocRefused \/ \E s \in Sizes : RecvHeader(s)
        PROVE  FillInv' /\ PendingIntact'
    <3>1. pc' \in {"connect", "select", "poll", "free", "alloc", "copy"} /\ UNCHANGED hwVars
      BY <2>7 DEF EndSession, RetryPayload, RetryEmpty, Retry, PollSlots, SumFreed, FreeSpace,
                  AllocBuffer, AllocRefused, RecvHeader
    <3> QED BY <3>1 DEF FillInv, MemoryInv, PendingIntact, Pending, HwBytes, hwVars
  <2>8. CASE UNCHANGED vars
    BY <2>8 DEF vars, sessionVars, localVars, hwVars, MemoryInv, FillInv, PendingIntact, Pending, HwBytes
  <2> QED BY <2>1, <2>2, <2>3, <2>4, <2>5, <2>6, <2>7, <2>8 DEF Next
<1> QED BY <1>1, <1>2 DEF MemoryInv

LEMMA InitMemory == Init => MemoryInv
<1> SUFFICES ASSUME Init PROVE MemoryInv
  OBVIOUS
<1>1. Pending = {} /\ HandedOut = 0 /\ start[0] = 0 /\ pc = "connect"
  BY ConstFacts DEF Init, Pending, HandedOut, Filling
<1>2. 0 % Align = 0
  BY ConstFacts, ModSmall
<1> QED BY <1>1, <1>2, InitRingInv DEF MemoryInv, AlignInv, FillInv, PendingIntact

\* PendingIntact for every memory of whole words, every depth and every packet
\* size: what the IP's DMA reads is what was received, byte for byte, however
\* the copies of process_h2t_data wrap and pad.
THEOREM DescriptorsIntact == SpanAligned => (Spec => []PendingIntact)
<1> SUFFICES ASSUME SpanAligned PROVE Spec => []PendingIntact
  OBVIOUS
<1>1. Init => MemoryInv
  BY InitMemory
<1>2. MemoryInv /\ [Next]_vars => MemoryInv'
  BY NextMemory
<1>3. MemoryInv => PendingIntact
  BY DEF MemoryInv
<1> QED BY <1>1, <1>2, <1>3, PTL DEF Spec
----------------------------------------------------------------------------
(* Refinement of PacketFifo *)

\* No byte carries the number of a packet still to come.
TagInv == \A b \in MemBytes : mem[b] <= nPush

FifoInv == MemoryInv /\ SlotAccounting /\ TagInv

QueueEntry == [id : Nat, len : Nat, whole : BOOLEAN]

LEMMA NextTag == FifoInv /\ [Next]_vars => TagInv'
<1> SUFFICES ASSUME FifoInv, [Next]_vars PROVE TagInv'
  OBVIOUS
<1> USE ConstFacts
<1>1. /\ TagInv /\ RingInv /\ nPush \in Nat /\ nDone \in Nat
      /\ \A b \in MemBytes : mem[b] \in Int
  <2>1. RingInv /\ TagInv
    BY DEF FifoInv, MemoryInv
  <2>2. mem \in [MemBytes -> Ids \cup {Stale}] /\ nPush \in Nat /\ nDone \in Nat
    BY <2>1 DEF RingInv, TypeOK, HwTypeOK
  <2>3. Ids \cup {Stale} \subseteq Int
    BY DEF Ids, Stale
  <2> QED BY <2>1, <2>2, <2>3
<1>2. CASE init_driver
  <2>1. nPush' = 0 /\ mem' = [b \in MemBytes |-> -1]
    BY <1>2 DEF init_driver, Stale
  <2> QED BY <2>1 DEF TagInv
<1>3. ASSUME NEW addr, NEW len, RecvAndCopy(addr, len), nPush' = nPush PROVE TagInv'
  <2>1. CASE mem' = mem
    BY <1>1, <1>3, <2>1 DEF TagInv
  <2>2. CASE mem' = [b \in MemBytes |-> IF b \in CopiedBytes(addr, len) THEN nPush ELSE mem[b]]
    BY <1>1, <1>3, <2>2 DEF TagInv
  <2> QED BY <1>3, <2>1, <2>2 DEF RecvAndCopy
<1>4. CASE CopyFirst
  <2>1. nPush' = nPush /\ (RecvAndCopy(buf, first_len) \/ RecvAndCopy(buf, hdr))
    BY <1>4 DEF CopyFirst
  <2> QED BY <1>3, <2>1
<1>5. CASE CopySecond
  BY <1>3, <1>5 DEF CopySecond
<1>6. CASE push_h2t_data
  <2>1. nPush' = nPush + 1 /\ mem' = mem
    BY <1>6 DEF push_h2t_data
  <2> QED BY <1>1, <2>1 DEF TagInv
<1>7. ASSUME \/ EndSession \/ set_loopback_mode \/ RetryPayload \/ RetryEmpty \/ PollSlots \/ SumFreed
             \/ FreeSpace \/ AllocBuffer \/ AllocRefused \/ HwConsume
             \/ (\E s \in Sizes : RecvHeader(s)) \/ UNCHANGED vars
      PROVE  TagInv'
  <2>1. mem' = mem /\ nPush' = nPush
    BY <1>7 DEF EndSession, set_loopback_mode, RetryPayload, RetryEmpty, Retry, PollSlots, SumFreed,
                FreeSpace, AllocBuffer, AllocRefused, HwConsume, RecvHeader, vars, hwVars
  <2> QED BY <1>1, <2>1 DEF TagInv
<1> QED BY <1>2, <1>4, <1>5, <1>6, <1>7 DEF Next

\* The queue as a sequence.
QueueOK ==
  /\ nPush \in Nat /\ nDone \in Nat /\ nDone <= nPush
  /\ fifoQueue \in Seq(QueueEntry)
  /\ Len(fifoQueue) = nPush - nDone
  /\ \A j \in 1..(nPush - nDone) :
       /\ nDone + j - 1 \in Ids
       /\ fifoQueue[j] = [id |-> nDone + j - 1, len |-> desc[nDone + j - 1].len,
                          whole |-> desc[nDone + j - 1].whole]

LEMMA QueueFacts == RingInv => QueueOK
<1> SUFFICES ASSUME RingInv PROVE QueueOK
  OBVIOUS
<1> USE ConstFacts
<1>1. /\ nPush \in 0..MaxPkts /\ nDone \in Nat /\ desc \in [Ids -> DescType] /\ nDone <= nPush
  BY DEF RingInv, TypeOK, HwTypeOK, ControlInv
<1> DEFINE n == nPush - nDone
<1>2. n \in Nat
  BY <1>1
<1>3. ASSUME NEW j \in 1..n
      PROVE  /\ nDone + j - 1 \in Ids
             /\ fifoQueue[j] = [id |-> nDone + j - 1, len |-> desc[nDone + j - 1].len,
                                whole |-> desc[nDone + j - 1].whole]
             /\ fifoQueue[j] \in QueueEntry
  <2>1. nDone + j - 1 \in Ids /\ nDone + j - 1 \in Nat
    BY <1>1 DEF Ids
  <2>2. desc[nDone + j - 1].len \in Nat /\ desc[nDone + j - 1].whole \in BOOLEAN
    <3>1. desc[nDone + j - 1] \in DescType /\ Sizes \cup {0} \subseteq Nat
      BY <1>1, <2>1
    <3> QED BY <3>1 DEF DescType
  <2>3. fifoQueue[j] = [id |-> nDone + j - 1, len |-> desc[nDone + j - 1].len,
                        whole |-> desc[nDone + j - 1].whole]
    BY DEF fifoQueue
  <2> QED BY <2>1, <2>2, <2>3 DEF QueueEntry
<1>4. fifoQueue \in [1..n -> QueueEntry]
  BY <1>3 DEF fifoQueue
<1> HIDE DEF n
<1>5. fifoQueue \in Seq(QueueEntry)
  BY <1>2, <1>4, SeqDef
<1>6. Len(fifoQueue) = n
  <2>1. DOMAIN fifoQueue = 1..n /\ DOMAIN fifoQueue = 1..Len(fifoQueue) /\ Len(fifoQueue) \in Nat
    BY <1>4, <1>5, LenProperties
  <2> QED BY <1>2, <2>1
<1> QED BY <1>1, <1>3, <1>5, <1>6 DEF n, QueueOK

\* Two queues of one length that agree everywhere are the same.
LEMMA SameQueue ==
  ASSUME NEW S, NEW s \in Seq(S), NEW t \in Seq(S), Len(s) = Len(t),
         \A j \in 1..Len(s) : s[j] = t[j]
  PROVE  s = t
<1>1. s \in [1..Len(s) -> S] /\ t \in [1..Len(s) -> S]
  BY LenProperties
<1> QED BY <1>1

\* A pushed descriptor is a packet accepted, and there was room for it.
LEMMA PushAccepts ==
  ASSUME FifoInv, QueueOK', push_h2t_data
  PROVE  \E len \in Sizes \cup {0}, w \in BOOLEAN : Fifo!Accept(len, w)
<1> USE ConstFacts
<1>1. /\ RingInv /\ QueueOK' /\ SlotAccounting /\ nPush' = nPush + 1 /\ nDone' = nDone /\ dma' = dma
      /\ desc' = [desc EXCEPT ![nPush] = [where |-> buf, len |-> hdr, whole |-> whole]]
      /\ pc = "push"
  BY DEF FifoInv, MemoryInv, push_h2t_data
<1>2. hdr \in Sizes \cup {0} /\ hdr \in Nat /\ whole \in BOOLEAN /\ desc \in [Ids -> DescType]
  BY <1>1 DEF RingInv, TypeOK, ServerTypeOK, HwTypeOK
<1>3. nPush - nDone < Depth
  <2>1. Depth - (nPush - nDone) > 0
    BY <1>1 DEF SlotAccounting, Filling, AvailableSlots
  <2> QED BY <1>1, <2>1, QueueFacts DEF QueueOK
<1>4. /\ nPush \in Nat /\ nDone \in Nat /\ nDone <= nPush
      /\ fifoQueue \in Seq(QueueEntry) /\ Len(fifoQueue) = nPush - nDone
  BY <1>1, QueueFacts DEF QueueOK
<1>5. /\ fifoQueue' \in Seq(QueueEntry) /\ Len(fifoQueue') = nPush + 1 - nDone
      /\ \A j \in 1..(nPush + 1 - nDone) :
           /\ nDone + j - 1 \in Ids
           /\ fifoQueue'[j] = [id |-> nDone + j - 1, len |-> desc'[nDone + j - 1].len,
                               whole |-> desc'[nDone + j - 1].whole]
  <2>1. QueueOK'
    BY <1>1
  <2>2. nPush' = nPush + 1 /\ nDone' = nDone /\ nPush \in Nat /\ nDone \in Nat
    BY <1>1, <1>4
  <2> QED BY <2>1, <2>2 DEF QueueOK
<1> DEFINE e == [id |-> nPush, len |-> hdr, whole |-> whole]
           q == Append(fifoQueue, e)
<1>6. e \in QueueEntry
  BY <1>2, <1>4 DEF QueueEntry
<1>7. /\ q \in Seq(QueueEntry) /\ Len(q) = nPush - nDone + 1
      /\ \A j \in 1..(nPush - nDone) : q[j] = fifoQueue[j]
      /\ q[nPush - nDone + 1] = e
  <2> HIDE DEF e
  <2> QED BY <1>4, <1>6, AppendProperties
<1>8. \A j \in 1..(nPush + 1 - nDone) : fifoQueue'[j] = q[j]
  <2> SUFFICES ASSUME NEW j \in 1..(nPush + 1 - nDone) PROVE fifoQueue'[j] = q[j]
    OBVIOUS
  <2>1. CASE j = nPush - nDone + 1
    <3>1. nDone + j - 1 = nPush
      BY <1>4, <2>1
    <3>2. nDone + j - 1 \in Ids
      BY <1>5
    <3>3. nPush \in Ids
      BY <3>1, <3>2
    <3>4. desc'[nPush] = [where |-> buf, len |-> hdr, whole |-> whole]
      BY <1>1, <1>2, <3>3
    <3>5. fifoQueue'[j] = [id |-> nPush, len |-> desc'[nPush].len, whole |-> desc'[nPush].whole]
      BY <1>5, <3>1
    <3>6. fifoQueue'[j] = e
      BY <3>4, <3>5
    <3> QED BY <1>7, <2>1, <3>6
  <2>2. CASE j # nPush - nDone + 1
    <3>0. nPush \in Nat /\ nDone \in Nat
      BY <1>4
    <3>1. j \in 1..(nPush - nDone) /\ nDone + j - 1 # nPush /\ nDone + j - 1 \in Ids
      <4>1. nDone + j - 1 \in Ids
        BY <1>5
      <4> HIDE DEF e, q
      <4>2. j \in 1..(nPush - nDone) /\ nDone + j - 1 # nPush
        BY <3>0, <2>2
      <4> QED BY <4>1, <4>2
    <3>2. desc'[nDone + j - 1] = desc[nDone + j - 1]
      BY <1>1, <1>2, <3>1
    <3>3. fifoQueue[j] = [id |-> nDone + j - 1, len |-> desc[nDone + j - 1].len,
                          whole |-> desc[nDone + j - 1].whole]
      BY <1>1, <3>1, QueueFacts DEF QueueOK
    <3>4. fifoQueue'[j] = fifoQueue[j]
      BY <1>5, <3>2, <3>3
    <3> QED BY <1>7, <3>1, <3>4
  <2> QED BY <2>1, <2>2
<1>9. fifoQueue' = q
  <2> HIDE DEF q
  <2>1. Len(fifoQueue') = Len(q) /\ \A j \in 1..Len(fifoQueue') : fifoQueue'[j] = q[j]
    BY <1>4, <1>5, <1>7, <1>8
  <2> QED BY <1>5, <1>7, <2>1, SameQueue
<1> QED BY <1>1, <1>2, <1>3, <1>4, <1>9 DEF Fifo!Accept

\* What the IP reads is the head of the queue: exactly its bytes, if it came
\* whole, and whatever is in the memory, if it did not.
LEMMA ConsumeDelivers ==
  ASSUME FifoInv, QueueOK', HwConsume
  PROVE  Fifo!Deliver
<1> USE ConstFacts
<1>1. /\ RingInv /\ QueueOK' /\ PendingIntact /\ TagInv /\ nDone < nPush /\ nDone' = nDone + 1
      /\ nPush' = nPush /\ desc' = [desc EXCEPT ![nDone] = NoDesc]
      /\ dma' = {mem[b] : b \in HwBytes(desc[nDone])}
  BY DEF FifoInv, MemoryInv, HwConsume
<1>2. /\ nPush \in Nat /\ nDone \in Nat /\ nDone <= nPush
      /\ fifoQueue \in Seq(QueueEntry) /\ Len(fifoQueue) = nPush - nDone
      /\ \A j \in 1..(nPush - nDone) :
           /\ nDone + j - 1 \in Ids
           /\ fifoQueue[j] = [id |-> nDone + j - 1, len |-> desc[nDone + j - 1].len,
                              whole |-> desc[nDone + j - 1].whole]
  BY <1>1, QueueFacts DEF QueueOK
<1>3. /\ fifoQueue' \in Seq(QueueEntry) /\ Len(fifoQueue') = nPush - (nDone + 1)
      /\ \A j \in 1..(nPush - (nDone + 1)) :
           fifoQueue'[j] = [id |-> nDone + 1 + j - 1, len |-> desc'[nDone + 1 + j - 1].len,
                            whole |-> desc'[nDone + 1 + j - 1].whole]
  <2>1. QueueOK'
    BY <1>1
  <2> QED BY <1>1, <2>1 DEF QueueOK
<1>4. /\ fifoQueue # <<>> /\ Head(fifoQueue) = fifoQueue[1]
      /\ Tail(fifoQueue) \in Seq(QueueEntry) /\ Len(Tail(fifoQueue)) = nPush - nDone - 1
      /\ \A j \in 1..(nPush - nDone - 1) : Tail(fifoQueue)[j] = fifoQueue[j + 1]
  <2>1. fifoQueue # <<>>
    BY <1>1, <1>2, EmptySeq
  <2> QED BY <1>2, <2>1, HeadTailProperties
<1>5. fifoQueue' = Tail(fifoQueue)
  <2>1. ASSUME NEW j \in 1..(nPush - nDone - 1) PROVE fifoQueue'[j] = Tail(fifoQueue)[j]
    <3>1. j + 1 \in 1..(nPush - nDone) /\ nDone + (j + 1) - 1 = nDone + 1 + j - 1 /\ nDone + 1 + j - 1 # nDone
      BY <1>2
    <3>2. nDone + 1 + j - 1 \in Ids
      BY <1>2, <3>1
    <3>3. desc'[nDone + 1 + j - 1] = desc[nDone + 1 + j - 1]
      BY <1>1, <3>1
    <3>4. Tail(fifoQueue)[j] = [id |-> nDone + 1 + j - 1, len |-> desc[nDone + 1 + j - 1].len,
                                whole |-> desc[nDone + 1 + j - 1].whole]
      BY <1>2, <1>4, <3>1
    <3>5. j \in 1..(nPush - (nDone + 1))
      BY <1>2
    <3> QED BY <1>3, <3>3, <3>4, <3>5
  <2>2. Len(fifoQueue') = nPush - nDone - 1
    BY <1>2, <1>3
  <2> QED BY <1>3, <1>4, <2>1, <2>2, SameQueue
<1>6. /\ nDone \in Ids /\ desc[nDone] \in DescType /\ nDone \in Pending
      /\ Head(fifoQueue) = [id |-> nDone, len |-> desc[nDone].len, whole |-> desc[nDone].whole]
  <2>1. 1 \in 1..(nPush - nDone) /\ nDone + 1 - 1 = nDone
    BY <1>1, <1>2
  <2>2. nDone \in Ids /\ desc \in [Ids -> DescType]
    BY <1>1, <1>2, <2>1 DEF RingInv, TypeOK, HwTypeOK
  <2> QED BY <1>1, <1>2, <1>4, <2>1, <2>2 DEF Pending
<1>7. desc[nDone].where \in Nat /\ desc[nDone].len \in Nat /\ desc[nDone].whole \in BOOLEAN
  <2>1. desc[nDone].where \in 0..(Span - 1) /\ desc[nDone].len \in Sizes \cup {0} /\ desc[nDone].whole \in BOOLEAN
    BY <1>6 DEF DescType
  <2>2. \A n \in 0..(Span - 1) : n \in Nat
    OBVIOUS
  <2>3. \A n \in Sizes \cup {0} : n \in Nat
    OBVIOUS
  <2> QED BY <2>1, <2>2, <2>3, Zenon
<1> DEFINE p == Head(fifoQueue)
<1>8. p.id = nDone /\ p.len = desc[nDone].len /\ p.whole = desc[nDone].whole
  BY <1>6
<1>9. ASSUME dma' \in IF p.whole THEN {IF p.len = 0 THEN {} ELSE {p.id}} ELSE SUBSET ((-1)..nPush)
      PROVE  Fifo!Deliver
  BY <1>1, <1>4, <1>5, <1>9 DEF Fifo!Deliver
<1> HIDE DEF p
<1>10. CASE desc[nDone].whole
  <2>1. \A b \in HwBytes(desc[nDone]) : mem[b] = nDone
    BY <1>1, <1>6, <1>10 DEF PendingIntact
  <2>2. CASE desc[nDone].len = 0
    <3>1. HwBytes(desc[nDone]) = {}
      BY <2>2 DEF HwBytes
    <3>2. dma' = {}
      BY <1>1, <3>1
    <3> QED BY <1>10, <1>8, <1>9, <2>2, <3>2
  <2>3. CASE desc[nDone].len # 0
    <3>1. (desc[nDone].where + 0) % Span \in HwBytes(desc[nDone])
      <4>1. 0 \in 0..(desc[nDone].len - 1)
        BY <1>7, <2>3
      <4> QED BY <4>1 DEF HwBytes
    <3>2. dma' = {nDone}
      BY <1>1, <2>1, <3>1
    <3> QED BY <1>10, <1>8, <1>9, <2>3, <3>2
  <2> QED BY <2>2, <2>3
<1>11. CASE ~desc[nDone].whole
  <2>1. HwBytes(desc[nDone]) \subseteq MemBytes
    <3> SUFFICES ASSUME NEW j \in 0..(desc[nDone].len - 1)
                 PROVE  (desc[nDone].where + j) % Span \in MemBytes
      BY DEF HwBytes
    <3>1. desc[nDone].where + j \in Int /\ Span \in Nat \ {0}
      BY <1>7
    <3>2. (desc[nDone].where + j) % Span \in 0..(Span - 1)
      BY <3>1, DivMod, Zenon
    <3> QED BY <3>2 DEF MemBytes
  <2>2. \A b \in MemBytes : mem[b] \in (-1)..nPush
    <3>1. mem \in [MemBytes -> Ids \cup {Stale}]
      BY <1>1 DEF RingInv, TypeOK, HwTypeOK
    <3>2. \A t \in Ids \cup {Stale} : t \in Int /\ t >= -1
      BY DEF Ids, Stale
    <3> QED BY <1>1, <1>2, <3>1, <3>2 DEF TagInv
  <2>3. dma' \in SUBSET ((-1)..nPush)
    BY <1>1, <2>1, <2>2
  <2> QED BY <1>11, <1>8, <1>9, <2>3
<1> QED BY <1>10, <1>11

\* Every step of the path is a step of the queue, or none.
LEMMA RefineFifoStep == FifoInv /\ QueueOK' /\ [Next]_vars => [Fifo!Next]_(Fifo!vars)
<1> SUFFICES ASSUME FifoInv, QueueOK', [Next]_vars PROVE [Fifo!Next]_(Fifo!vars)
  OBVIOUS
<1> USE ConstFacts
<1>1. RingInv /\ nPush \in Nat /\ nDone \in Nat /\ fifoQueue \in Seq(QueueEntry)
  <2>1. RingInv
    BY DEF FifoInv, MemoryInv
  <2> QED BY <2>1, QueueFacts DEF QueueOK
<1>2. CASE push_h2t_data
  BY <1>2, PushAccepts DEF Fifo!Next
<1>3. CASE HwConsume
  BY <1>3, ConsumeDelivers DEF Fifo!Next
<1>4. ASSUME nPush' - nDone' = 0 PROVE fifoQueue' = <<>>
  <2> QED BY <1>4, EmptySeq DEF QueueOK
<1>5. CASE init_driver
  <2>1. nPush' = 0 /\ nDone' = 0 /\ dma' = {}
    BY <1>5 DEF init_driver
  <2> QED BY <1>4, <2>1 DEF Fifo!Next, Fifo!NewClient
<1>6. CASE set_loopback_mode
  <2>1. nPush' = nPush /\ nDone' = nPush /\ dma' = dma
    BY <1>6 DEF set_loopback_mode
  <2> QED BY <1>1, <1>4, <2>1 DEF Fifo!Next, Fifo!Flush
<1>7. ASSUME \/ EndSession \/ RetryPayload \/ RetryEmpty \/ PollSlots \/ SumFreed
             \/ FreeSpace \/ AllocBuffer \/ AllocRefused \/ CopyFirst \/ CopySecond
             \/ (\E s \in Sizes : RecvHeader(s)) \/ UNCHANGED vars
      PROVE  UNCHANGED Fifo!vars
  <2>1. nPush' = nPush /\ nDone' = nDone /\ desc' = desc /\ dma' = dma
    BY <1>7 DEF EndSession, RetryPayload, RetryEmpty, Retry, PollSlots, SumFreed, FreeSpace,
                AllocBuffer, AllocRefused, CopyFirst, CopySecond, RecvHeader, vars, hwVars
  <2> QED BY <2>1 DEF Fifo!vars, fifoQueue
<1> QED BY <1>2, <1>3, <1>5, <1>6, <1>7 DEF Next

\* ImplementsFifo for every memory of whole words, every depth, every chain and
\* every packet size: get_h2t_buffer, the two-piece copy of process_h2t_data and
\* push_h2t_data hand each accepted packet to the IP once, in order and unmixed.
THEOREM ImplementsQueue == SpanAligned => (Spec => ImplementsFifo)
<1> SUFFICES ASSUME SpanAligned PROVE Spec => ImplementsFifo
  OBVIOUS
<1>1. Init => FifoInv
  <2>1. Init => TagInv
    BY ConstFacts DEF Init, TagInv, Stale
  <2> QED BY <2>1, InitMemory, RingAccounts DEF FifoInv, MemoryInv
<1>2. FifoInv /\ [Next]_vars => FifoInv'
  <2>1. MemoryInv => SlotAccounting
    BY RingAccounts DEF MemoryInv
  <2>2. FifoInv /\ [Next]_vars => MemoryInv' /\ TagInv'
    BY NextMemory, NextTag DEF FifoInv
  <2>3. MemoryInv' => SlotAccounting'
    BY <2>1, PTL
  <2> QED BY <2>2, <2>3 DEF FifoInv
<1>3. Init => Fifo!Init
  <2> SUFFICES ASSUME Init PROVE Fifo!Init
    OBVIOUS
  <2>1. nPush = 0 /\ nDone = 0 /\ dma = {} /\ RingInv
    BY InitRingInv DEF Init
  <2>2. fifoQueue \in Seq(QueueEntry) /\ Len(fifoQueue) = 0
    BY <2>1, QueueFacts DEF QueueOK
  <2>3. fifoQueue = <<>>
    BY <2>2, EmptySeq
  <2> QED BY <2>1, <2>3 DEF Fifo!Init
<1>4. FifoInv => QueueOK
  BY QueueFacts DEF FifoInv, MemoryInv
<1>5. FifoInv /\ QueueOK' /\ [Next]_vars => [Fifo!Next]_(Fifo!vars)
  BY RefineFifoStep
<1> QED BY <1>1, <1>2, <1>3, <1>4, <1>5, PTL DEF Spec, ImplementsFifo, Fifo!Spec
=============================================================================
