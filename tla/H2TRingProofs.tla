--------------------------- MODULE H2TRingProofs ---------------------------
(***************************************************************************)
(* The properties of H2TRing proved for every span, word size, descriptor  *)
(* depth, chain length and packet size.                                    *)
(*                                                                         *)
(* None of them is inductive alone.  The inductive invariant RingInv adds  *)
(* what ties the driver's counters to the history start: the chain entry   *)
(* of every buffer not given back is that buffer's aligned size, the two   *)
(* indices are the buffer counts modulo the chain's length, the loop of    *)
(* get_h2t_buffer has added up exactly the first i of them, and every      *)
(* pending descriptor lies inside its own buffer.                          *)
(***************************************************************************)
EXTENDS H2TRing, ModArith

\* Where the server is, and what it holds there.
ControlInv ==
  /\ nDone <= nPush
  /\ (waiting \/ pc \in {"poll", "free", "alloc", "copy", "copy2", "push"}) => nPush < MaxPkts
  /\ pc = "copy2" => buf + hdr > Span
  /\ pc = "copy" => whole
  /\ pc \in {"copy", "copy2", "push"} => ~waiting

\* SlotAccounting, and the counts during the loop.
SlotInv ==
  pc # "connect" =>
    /\ 0 <= Known /\ Known <= nDone
    /\ Filling => slots > 0
    /\ pc = "free" => 0 < freed /\ freed <= Known /\ i <= freed

\* Buffers lie one behind the other; the chain and its indices describe the
\* ones not given back.
ChainInv ==
  pc # "connect" =>
    /\ \A p, q \in 0..HandedOut : p <= q => start[p] <= start[q]
    /\ \A k \in GivenBack..(HandedOut - 1) : chain[k % ChainLen] = start[k + 1] - start[k]
    /\ write_idx % ChainLen = HandedOut % ChainLen
    /\ read_idx = GivenBack % ChainLen
    /\ pc = "free" => bytes = start[GivenBack + i] - start[GivenBack]

\* The descriptors pending and the buffer being filled lie inside their own
\* part of the ring.
BufferInv ==
  /\ \A k \in Pending : /\ desc[k].where = start[k] % Span
                        /\ desc[k].len <= start[k + 1] - start[k]
  /\ Filling => /\ buf = start[nPush] % Span
                /\ start[nPush + 1] = start[nPush] + GET_ALIGNED_SZ(hdr)

RingInv == TypeOK /\ ControlInv /\ SlotInv /\ ChainInv /\ SpaceAccounting /\ BufferInv

----------------------------------------------------------------------------
(* Constants and single values *)

LEMMA ConstFacts ==
  /\ Span \in Nat \ {0} /\ Align \in Nat \ {0}
  /\ Depth \in Nat \ {0} /\ ChainLen \in Nat \ {0} /\ Depth <= ChainLen
  /\ ShortMod \in Nat \ {0} /\ Depth < ShortMod
  /\ Sizes \subseteq Nat /\ MaxPkts \in Nat \ {0}
  BY RingAssumption DEF RingAssumption

\* GET_ALIGNED_SZ of a size the header can hold: a multiple of the word, not
\* smaller than the size, and small enough for a chain entry.
LEMMA AlignedFacts ==
  ASSUME NEW s \in Sizes \cup {0}
  PROVE  /\ s \in Nat /\ GET_ALIGNED_SZ(s) \in Nat
         /\ s <= GET_ALIGNED_SZ(s)
         /\ GET_ALIGNED_SZ(s) % Align = 0
         /\ GET_ALIGNED_SZ(s) < ShortMod
<1>1. s \in Nat
  BY ConstFacts
<1>2. GET_ALIGNED_SZ(s) = RoundUp(s, Align)
  BY DEF GET_ALIGNED_SZ, RoundUp
<1>3. GET_ALIGNED_SZ(s) \in Nat /\ s <= GET_ALIGNED_SZ(s) /\ GET_ALIGNED_SZ(s) % Align = 0
  BY <1>1, <1>2, ConstFacts, RoundUpIs
<1>4. GET_ALIGNED_SZ(s) < ShortMod
  <2>1. CASE s \in Sizes
    BY <2>1, SizesFit DEF SizesFit
  <2>2. CASE s = 0
    <3>1. 0 % Align = 0
      BY ConstFacts, ModSmall
    <3>2. RoundUp(0, Align) <= 0
      BY <3>1, ConstFacts, RoundUpLeast
    <3> QED BY <1>2, <1>3, <2>2, <3>2, ConstFacts
  <2> QED BY <2>1, <2>2
<1> QED BY <1>1, <1>3, <1>4

----------------------------------------------------------------------------
(* RingInv holds initially and after every step *)

LEMMA InitRingInv == Init => RingInv
<1> SUFFICES ASSUME Init PROVE RingInv
  OBVIOUS
<1> USE ConstFacts DEF Init
<1>1. ServerTypeOK /\ DriverTypeOK
  <2>1. chain \in [0..(ChainLen - 1) -> 0..(ShortMod - 1)]
    OBVIOUS
  <2>2. ServerTypeOK
    <3>1. hdr \in Sizes \cup {0} /\ buf \in 0..(Span - 1)
      OBVIOUS
    <3>2. freed \in 0..Depth /\ i \in 0..Depth /\ bytes \in Nat
      OBVIOUS
    <3> QED BY <3>1, <3>2 DEF ServerTypeOK
  <2>3. /\ slots \in 0..Depth
        /\ write_idx \in 0..(ShortMod - 1) /\ read_idx \in 0..(ChainLen - 1)
        /\ write_offset \in 0..(Span - 1) /\ read_offset \in 0..(Span - 1)
        /\ space_available \in 0..Span
    OBVIOUS
  <2> QED BY <2>1, <2>2, <2>3 DEF DriverTypeOK
<1>2. HwTypeOK
  <2>1. NoDesc \in DescType
    BY DEF NoDesc, DescType
  <2>2. desc \in [Ids -> DescType] /\ mem \in [MemBytes -> Ids \cup {Stale}]
    BY <2>1
  <2>3. dma \subseteq Ids \cup {Stale} /\ start \in [0..MaxPkts -> Nat]
    OBVIOUS
  <2> QED BY <2>2, <2>3 DEF HwTypeOK
<1>3. ControlInv
  BY DEF ControlInv
<1>4. SlotInv /\ ChainInv /\ SpaceAccounting /\ BufferInv
  BY DEF SlotInv, ChainInv, SpaceAccounting, BufferInv, Pending, Filling
<1> QED BY <1>1, <1>2, <1>3, <1>4 DEF RingInv, TypeOK

LEMMA InitDriverRing == RingInv /\ init_driver => RingInv'
<1> SUFFICES ASSUME RingInv, init_driver PROVE RingInv'
  OBVIOUS
<1> USE ConstFacts DEF RingInv, init_driver, cbuff_init, localVars, pollVars
<1>1. TypeOK'
  <2>1. ServerTypeOK' /\ DriverTypeOK'
    <3>1. ServerTypeOK'
      BY DEF TypeOK, ServerTypeOK
    <3>2. /\ slots' \in 0..Depth
          /\ write_idx' \in 0..(ShortMod - 1) /\ read_idx' \in 0..(ChainLen - 1)
          /\ write_offset' \in 0..(Span - 1) /\ read_offset' \in 0..(Span - 1)
          /\ space_available' \in 0..Span
      OBVIOUS
    <3>3. chain' = chain
      OBVIOUS
    <3> QED BY <3>1, <3>2, <3>3 DEF TypeOK, DriverTypeOK
  <2>2. NoDesc \in DescType
    BY DEF NoDesc, DescType
  <2>3. HwTypeOK'
    <3>1. desc' \in [Ids -> DescType] /\ mem' \in [MemBytes -> Ids \cup {Stale}]
      BY <2>2
    <3>2. dma' \subseteq Ids \cup {Stale} /\ start' \in [0..MaxPkts -> Nat]
      OBVIOUS
    <3> QED BY <3>1, <3>2 DEF HwTypeOK, MemBytes, Ids, Stale
  <2> QED BY <2>1, <2>3 DEF TypeOK
<1>2. ControlInv'
  BY DEF ControlInv
<1>3. SlotInv'
  BY DEF SlotInv, Known, GivenBack, Filling
<1>4. HandedOut' = 0 /\ GivenBack' = 0 /\ ~Filling' /\ Pending' = {}
  BY DEF HandedOut, GivenBack, Known, Filling, Pending
<1>5. ChainInv'
  <2>1. 0 % ChainLen = 0
    BY ModSmall
  <2> QED BY <1>4, <2>1 DEF ChainInv
<1>6. SpaceAccounting'
  <2>1. 0 % Span = 0
    BY ModSmall
  <2> QED BY <1>4, <2>1 DEF SpaceAccounting
<1>7. BufferInv'
  BY <1>4 DEF BufferInv
<1> QED BY <1>1, <1>2, <1>3, <1>5, <1>6, <1>7

LEMMA EndSessionRing == RingInv /\ EndSession => RingInv'
<1> SUFFICES ASSUME RingInv, EndSession PROVE RingInv'
  OBVIOUS
<1> USE DEF RingInv, EndSession, localVars, pollVars, driverVars, cbuffVars, hwVars
<1>1. TypeOK'
  BY DEF TypeOK, ServerTypeOK, DriverTypeOK, HwTypeOK
<1>2. ControlInv'
  BY DEF ControlInv
<1>3. SlotInv' /\ ChainInv' /\ SpaceAccounting' /\ BufferInv'
  BY DEF SlotInv, ChainInv, SpaceAccounting, BufferInv, Pending, Filling
<1> QED BY <1>1, <1>2, <1>3

LEMMA SetLoopbackRing == RingInv /\ set_loopback_mode => RingInv'
<1> SUFFICES ASSUME RingInv, set_loopback_mode PROVE RingInv'
  OBVIOUS
<1> USE ConstFacts DEF RingInv, set_loopback_mode, sessionVars, localVars, pollVars, driverVars, cbuffVars
<1>1. TypeOK'
  <2>1. ServerTypeOK' /\ DriverTypeOK'
    BY DEF TypeOK, ServerTypeOK, DriverTypeOK
  <2>2. HwTypeOK'
    BY DEF TypeOK, HwTypeOK, NoDesc, DescType, Ids
  <2> QED BY <2>1, <2>2 DEF TypeOK
<1>2. ControlInv'
  BY DEF ControlInv, TypeOK, HwTypeOK
<1>3. SlotInv'
  BY DEF SlotInv, ControlInv, TypeOK, DriverTypeOK, HwTypeOK, Known, GivenBack, Filling
<1>4. ChainInv' /\ SpaceAccounting'
  BY DEF ChainInv, SpaceAccounting, HandedOut, GivenBack, Known, Filling
<1>5. BufferInv'
  BY DEF BufferInv, Pending, Filling, TypeOK, HwTypeOK
<1> QED BY <1>1, <1>2, <1>3, <1>4, <1>5

LEMMA HeaderRing == ASSUME NEW s \in Sizes PROVE RingInv /\ RecvHeader(s) => RingInv'
<1> SUFFICES ASSUME RingInv, RecvHeader(s) PROVE RingInv'
  OBVIOUS
<1> USE ConstFacts DEF RingInv, RecvHeader, localVars, pollVars, driverVars, cbuffVars, hwVars
<1>1. TypeOK'
  BY DEF TypeOK, ServerTypeOK, DriverTypeOK, HwTypeOK
<1>2. ControlInv'
  BY DEF ControlInv
<1>3. SlotInv'
  BY DEF SlotInv, Known, GivenBack, Filling
<1>4. ChainInv' /\ SpaceAccounting'
  BY DEF ChainInv, SpaceAccounting, HandedOut, GivenBack, Known, Filling
<1>5. BufferInv'
  BY DEF BufferInv, Pending, Filling
<1> QED BY <1>1, <1>2, <1>3, <1>4, <1>5

LEMMA RetryRing == RingInv /\ Retry => RingInv'
<1> SUFFICES ASSUME RingInv, Retry PROVE RingInv'
  OBVIOUS
<1> USE ConstFacts DEF RingInv, Retry, sessionVars, localVars, pollVars, driverVars, cbuffVars, hwVars
<1>1. TypeOK'
  BY DEF TypeOK, ServerTypeOK, DriverTypeOK, HwTypeOK
<1>2. ControlInv'
  BY DEF ControlInv
<1>3. SlotInv'
  BY DEF SlotInv, Known, GivenBack, Filling
<1>4. ChainInv' /\ SpaceAccounting'
  BY DEF ChainInv, SpaceAccounting, HandedOut, GivenBack, Known, Filling
<1>5. BufferInv'
  BY DEF BufferInv, Pending, Filling
<1> QED BY <1>1, <1>2, <1>3, <1>4, <1>5

\* The register can only have grown since it was read last, so the difference
\* is a small natural number and the unsigned short does not wrap.
LEMMA PollRing == RingInv /\ PollSlots => RingInv'
<1> SUFFICES ASSUME RingInv, PollSlots PROVE RingInv'
  OBVIOUS
<1> USE ConstFacts DEF RingInv
<1> DEFINE n == AvailableSlots - slots
<1>1. pc = "poll" /\ ~Filling /\ GivenBack = Known /\ HandedOut = nPush
  BY DEF PollSlots, Filling, GivenBack, HandedOut
<1>2. n \in 0..Depth /\ slots + n \in 0..Depth /\ n = nDone - Known
  BY <1>1 DEF TypeOK, DriverTypeOK, HwTypeOK, ControlInv, SlotInv, AvailableSlots, Known
<1>3. (slots + n) % ShortMod = slots + n
  <2> HIDE DEF n
  <2>1. slots + n \in 0..(ShortMod - 1)
    BY <1>2
  <2> QED BY <2>1, ModSmall
<1>4. /\ slots' = slots + n /\ freed' = n /\ i' = 0 /\ bytes' = 0
      /\ pc' = IF n > 0 THEN "free" ELSE "alloc"
      /\ UNCHANGED <<sessionVars, localVars, chain, write_idx, read_idx, cbuffVars, hwVars, start>>
  BY <1>3 DEF PollSlots
<1> HIDE DEF n
<1>5. TypeOK'
  <2> HIDE DEF RingInv, PollSlots
  <2>1. TypeOK
    BY DEF RingInv
  <2>2. ServerTypeOK' /\ DriverTypeOK'
    BY <1>2, <1>4, <2>1 DEF TypeOK, ServerTypeOK, DriverTypeOK, sessionVars, localVars, cbuffVars
  <2>3. HwTypeOK'
    BY <1>4, <2>1 DEF TypeOK, HwTypeOK, hwVars
  <2> QED BY <2>2, <2>3 DEF TypeOK
<1>6. ControlInv'
  BY <1>1, <1>4 DEF ControlInv, sessionVars, localVars, hwVars
<1>7. /\ Known' = Known + n /\ GivenBack' = GivenBack /\ HandedOut' = HandedOut /\ ~Filling'
      /\ pc' # "connect"
  BY <1>1, <1>2, <1>4 DEF Known, GivenBack, HandedOut, Filling, hwVars, TypeOK, DriverTypeOK, HwTypeOK
<1>8. SlotInv'
  BY <1>1, <1>2, <1>4, <1>7 DEF SlotInv, TypeOK, DriverTypeOK, HwTypeOK, Known, hwVars
<1>9. ChainInv' /\ SpaceAccounting'
  <2>1. GivenBack \in 0..HandedOut
    BY <1>1 DEF SlotInv, ControlInv, TypeOK, DriverTypeOK, HwTypeOK, Known
  <2>2. start[GivenBack + 0] - start[GivenBack] = 0
    BY <1>1, <2>1 DEF TypeOK, HwTypeOK
  <2> QED BY <1>1, <1>4, <1>7, <2>2 DEF ChainInv, SpaceAccounting, cbuffVars, hwVars
<1>10. BufferInv'
  BY <1>1, <1>4, <1>7 DEF BufferInv, Pending, hwVars
<1> QED BY <1>5, <1>6, <1>8, <1>9, <1>10

\* The entry added is the aligned size of the next buffer in the ring.
LEMMA SumRing == RingInv /\ SumFreed => RingInv'
<1> SUFFICES ASSUME RingInv, SumFreed PROVE RingInv'
  OBVIOUS
<1> USE ConstFacts DEF RingInv, SumFreed, sessionVars, localVars, driverVars, cbuffVars, hwVars
<1> DEFINE k == GivenBack + i
<1>1. /\ pc = "free" /\ Known \in Nat /\ GivenBack \in Nat /\ k \in Nat /\ HandedOut = nPush
      /\ k < Known /\ Known <= nPush /\ nPush <= MaxPkts
  BY DEF TypeOK, ServerTypeOK, DriverTypeOK, HwTypeOK, ControlInv, SlotInv, Known, GivenBack, HandedOut, Filling
<1>2. (read_idx + i) % ChainLen = k % ChainLen
  <2>1. read_idx = GivenBack % ChainLen
    BY <1>1 DEF ChainInv
  <2>2. GivenBack \in Int /\ i \in Int /\ ChainLen \in Nat \ {0}
    BY <1>1 DEF TypeOK, ServerTypeOK
  <2>3. ((GivenBack % ChainLen) + i) % ChainLen = (GivenBack + i) % ChainLen
    BY <2>2, ModAdd, ZenonT(60)
  <2> QED BY <2>1, <2>3
<1>3. chain[k % ChainLen] = start[k + 1] - start[k]
  <2>1. k \in GivenBack..(HandedOut - 1)
    BY <1>1 DEF TypeOK, ServerTypeOK, HwTypeOK
  <2> HIDE DEF k, SumFreed
  <2> QED BY <1>1, <2>1 DEF ChainInv
<1>4. /\ bytes' = start[GivenBack + (i + 1)] - start[GivenBack]
      /\ bytes' \in Nat
  <2>1. /\ GivenBack \in 0..HandedOut /\ k \in 0..HandedOut /\ k + 1 \in 0..HandedOut
        /\ GivenBack <= k + 1 /\ GivenBack + (i + 1) = k + 1
    <3>1. nPush \in Nat /\ i \in Nat
      BY DEF TypeOK, ServerTypeOK, HwTypeOK
    <3> HIDE DEF SumFreed, RingInv
    <3> QED BY <1>1, <3>1
  <2>2. start[GivenBack] \in Nat /\ start[k] \in Nat /\ start[k + 1] \in Nat
    BY <1>1, <2>1 DEF TypeOK, HwTypeOK
  <2>3. start[GivenBack] <= start[k + 1]
    BY <1>1, <2>1 DEF ChainInv
  <2>4. bytes = start[k] - start[GivenBack]
    BY <1>1 DEF ChainInv
  <2>5. bytes' = bytes + chain[k % ChainLen]
    BY <1>2
  <2> HIDE DEF k, RingInv, SumFreed
  <2> QED BY <1>3, <2>1, <2>2, <2>3, <2>4, <2>5
<1>5. TypeOK'
  BY <1>4 DEF TypeOK, ServerTypeOK, DriverTypeOK, HwTypeOK
<1>6. ControlInv'
  BY DEF ControlInv
<1>7. Known' = Known /\ GivenBack' = GivenBack /\ HandedOut' = HandedOut
  BY DEF Known, GivenBack, HandedOut, Filling
<1>8. SlotInv'
  BY <1>7 DEF SlotInv, Filling, TypeOK, ServerTypeOK
<1>9. ChainInv' /\ SpaceAccounting'
  BY <1>4, <1>7 DEF ChainInv, SpaceAccounting
<1>10. BufferInv'
  BY DEF BufferInv, Pending, Filling
<1> QED BY <1>5, <1>6, <1>8, <1>9, <1>10

\* The loop has added up all the bytes of the consumed descriptors.
LEMMA FreeRing == RingInv /\ FreeSpace => RingInv'
<1> SUFFICES ASSUME RingInv, FreeSpace PROVE RingInv'
  OBVIOUS
<1> USE ConstFacts DEF RingInv, FreeSpace, cbuff_free, sessionVars, localVars, pollVars, hwVars
<1>1. /\ pc = "free" /\ Known \in Nat /\ GivenBack \in Nat /\ HandedOut = nPush
      /\ GivenBack + freed = Known /\ Known <= nPush /\ i = freed /\ freed \in Nat
      /\ nPush \in Nat /\ nPush <= MaxPkts
  BY DEF TypeOK, ServerTypeOK, DriverTypeOK, HwTypeOK, ControlInv, SlotInv, Known, GivenBack, HandedOut, Filling
<1>2. /\ start[Known] \in Nat /\ start[GivenBack] \in Nat /\ start[nPush] \in Nat
      /\ start[GivenBack] <= start[Known] /\ start[Known] <= start[nPush]
      /\ bytes = start[Known] - start[GivenBack]
  <2>1. Known \in 0..HandedOut /\ GivenBack \in 0..HandedOut /\ nPush \in 0..HandedOut
    BY <1>1
  <2>2. Known \in 0..MaxPkts /\ GivenBack \in 0..MaxPkts /\ nPush \in 0..MaxPkts
    BY <1>1
  <2>3. start \in [0..MaxPkts -> Nat]
    BY DEF TypeOK, HwTypeOK
  <2>4. start[Known] \in Nat /\ start[GivenBack] \in Nat /\ start[nPush] \in Nat
    BY <2>2, <2>3
  <2>5. GivenBack <= Known
    BY <1>1
  <2> HIDE DEF FreeSpace
  <2> QED BY <1>1, <2>1, <2>4, <2>5 DEF ChainInv
<1>3. Known' = Known /\ GivenBack' = Known /\ HandedOut' = nPush /\ ~Filling' /\ pc' = "alloc"
  BY <1>1 DEF Known, GivenBack, HandedOut, Filling
<1>4. read_idx' = Known % ChainLen
  <2>1. read_idx = GivenBack % ChainLen
    BY <1>1 DEF ChainInv
  <2>2. GivenBack \in Int /\ freed \in Int /\ ChainLen \in Nat \ {0}
    BY <1>1
  <2>3. ((GivenBack % ChainLen) + freed) % ChainLen = (GivenBack + freed) % ChainLen
    BY <2>2, ModAdd, ZenonT(60)
  <2> QED BY <1>1, <2>1, <2>3
<1>5. read_offset' = start[Known] % Span
  <2>1. read_offset = start[GivenBack] % Span
    BY <1>1 DEF SpaceAccounting
  <2>2. bytes \in Int /\ start[GivenBack] \in Int /\ Span \in Nat \ {0}
    BY <1>2
  <2>3. ((start[GivenBack] % Span) + bytes) % Span = (start[GivenBack] + bytes) % Span
    BY <2>2, ModAdd, ZenonT(60)
  <2>4. start[GivenBack] + bytes = start[Known]
    BY <1>2
  <2> QED BY <2>1, <2>3, <2>4
<1>6. /\ space_available' = Span - (start[nPush] - start[Known])
      /\ space_available' \in 0..Span
  <2>1. space_available = Span - (start[nPush] - start[GivenBack]) /\ space_available \in 0..Span
    BY <1>1 DEF SpaceAccounting, TypeOK, DriverTypeOK
  <2>2. space_available' = space_available + bytes
    OBVIOUS
  <2> HIDE DEF FreeSpace, RingInv
  <2> QED BY <1>2, <2>1, <2>2
<1>7. TypeOK'
  <2>1. read_idx' \in 0..(ChainLen - 1)
    <3>1. Known \in Int /\ ChainLen \in Nat \ {0}
      BY <1>1
    <3> QED BY <1>4, <3>1, DivMod, ZenonT(60)
  <2>2. read_offset' \in 0..(Span - 1)
    <3>1. start[Known] \in Int /\ Span \in Nat \ {0}
      BY <1>2
    <3> QED BY <1>5, <3>1, DivMod, ZenonT(60)
  <2> QED BY <1>6, <2>1, <2>2 DEF TypeOK, ServerTypeOK, DriverTypeOK, HwTypeOK
<1>8. ControlInv'
  BY DEF ControlInv
<1>9. SlotInv'
  BY <1>1, <1>3 DEF SlotInv
<1>10. SpaceAccounting'
  BY <1>1, <1>3, <1>5, <1>6 DEF SpaceAccounting
<1>11. ChainInv'
  BY <1>1, <1>3, <1>4 DEF ChainInv
<1>12. BufferInv'
  BY <1>3 DEF BufferInv, Pending, Filling
<1> QED BY <1>7, <1>8, <1>9, <1>10, <1>11, <1>12

LEMMA RefusedRing == RingInv /\ AllocRefused => RingInv'
<1> SUFFICES ASSUME RingInv, AllocRefused PROVE RingInv'
  OBVIOUS
<1> USE ConstFacts DEF RingInv, AllocRefused, localVars, driverVars, cbuffVars, hwVars
<1>1. Known' = Known /\ GivenBack' = GivenBack /\ HandedOut' = HandedOut /\ ~Filling' /\ ~Filling
  BY DEF Known, GivenBack, HandedOut, Filling
<1>2. TypeOK'
  BY DEF TypeOK, ServerTypeOK, DriverTypeOK, HwTypeOK
<1>3. ControlInv'
  BY DEF ControlInv
<1>4. SlotInv' /\ ChainInv' /\ SpaceAccounting'
  BY <1>1 DEF SlotInv, ChainInv, SpaceAccounting
<1>5. BufferInv'
  BY <1>1 DEF BufferInv, Pending
<1> QED BY <1>2, <1>3, <1>4, <1>5

\* The new entry goes to an index no outstanding buffer uses, and the new
\* buffer fits between the newest one and the oldest one not given back.
LEMMA AllocRing == RingInv /\ AllocBuffer => RingInv'
<1> SUFFICES ASSUME RingInv, AllocBuffer PROVE RingInv'
  OBVIOUS
<1> USE ConstFacts DEF RingInv
<1> DEFINE sz == GET_ALIGNED_SZ(hdr)
<1>1. /\ pc = "alloc" /\ pc' = "copy" /\ slots > 0 /\ space_available >= sz
      /\ GivenBack = Known /\ HandedOut = nPush /\ ~Filling
  BY DEF AllocBuffer, HasRoom, GivenBack, HandedOut, Filling
<1>2. /\ hdr \in Sizes \cup {0} /\ hdr \in Nat /\ sz \in Nat /\ hdr <= sz /\ sz < ShortMod
  <2>1. hdr \in Sizes \cup {0}
    BY DEF TypeOK, ServerTypeOK
  <2> QED BY <2>1, AlignedFacts
<1>3. /\ nPush \in Nat /\ Known \in Nat /\ Known <= nPush /\ nPush < Known + Depth
      /\ nPush + 1 <= MaxPkts /\ nDone \in Nat /\ Known <= nDone /\ slots \in Nat
  BY <1>1 DEF TypeOK, DriverTypeOK, HwTypeOK, ControlInv, SlotInv, Known
<1>4. /\ chain' = [chain EXCEPT ![write_idx % ChainLen] = sz]
      /\ start' = [start EXCEPT ![nPush + 1] = start[nPush] + sz]
      /\ space_available' = space_available - sz
      /\ write_offset' = (write_offset + sz) % Span
      /\ write_idx' = (write_idx + 1) % ShortMod
      /\ buf' = write_offset /\ whole' = TRUE /\ waiting' = FALSE
      /\ freed' = 0 /\ i' = 0 /\ bytes' = 0
      /\ UNCHANGED <<read_offset, up, hdr, own, slots, read_idx, hwVars>>
  <2>1. sz % ShortMod = sz
    <3>1. sz \in 0..(ShortMod - 1)
      BY <1>2
    <3> HIDE DEF sz
    <3> QED BY <3>1, ModSmall
  <2> QED BY <2>1 DEF AllocBuffer, cbuff_alloc
<1> HIDE DEF sz
<1>5. /\ start \in [0..MaxPkts -> Nat] /\ start[nPush] \in Nat /\ start[Known] \in Nat
      /\ start[Known] <= start[nPush]
  <2>1. Known \in 0..HandedOut /\ nPush \in 0..HandedOut /\ nPush \in 0..MaxPkts /\ Known \in 0..MaxPkts
    BY <1>1, <1>3
  <2>2. start \in [0..MaxPkts -> Nat]
    BY DEF TypeOK, HwTypeOK
  <2> QED BY <1>1, <1>3, <2>1, <2>2 DEF ChainInv
<1>6. /\ \A k \in 0..nPush : start'[k] = start[k]
      /\ start'[nPush + 1] = start[nPush] + sz
      /\ start' \in [0..MaxPkts -> Nat]
  <2> HIDE DEF RingInv, AllocBuffer
  <2> DEFINE b == start[nPush] + sz
  <2>1. b \in Nat /\ nPush + 1 \in 0..MaxPkts /\ start' = [start EXCEPT ![nPush + 1] = b]
    <3>1. b \in Nat
      BY <1>2, <1>5
    <3>2. nPush + 1 \in 0..MaxPkts
      BY <1>3, ConstFacts
    <3> QED BY <1>4, <3>1, <3>2, Zenon
  <2>2. \A k \in 0..nPush : k \in 0..MaxPkts /\ k # nPush + 1
    BY <1>3, <2>1
  <2> HIDE DEF b
  <2>3. start'[nPush + 1] = b /\ start' \in [0..MaxPkts -> Nat]
    BY <1>5, <2>1, Zenon
  <2>4. \A k \in 0..nPush : start'[k] = start[k]
    BY <1>5, <2>1, <2>2, Zenon
  <2> QED BY <2>3, <2>4 DEF b
<1>7. /\ Known' = Known /\ GivenBack' = Known /\ HandedOut' = nPush + 1 /\ Filling'
      /\ nPush' = nPush /\ nDone' = nDone /\ desc' = desc /\ Pending' = Pending
  BY <1>1, <1>4 DEF Known, GivenBack, HandedOut, Filling, hwVars, Pending
<1>8. write_idx % ChainLen = nPush % ChainLen /\ write_idx \in 0..(ShortMod - 1)
  BY <1>1 DEF ChainInv, TypeOK, DriverTypeOK
<1>9. write_idx' % ChainLen = (nPush + 1) % ChainLen /\ write_idx' \in 0..(ShortMod - 1)
  <2>1. write_idx \in Int /\ nPush \in Int /\ write_idx + 1 \in Int /\ 1 \in Int
    BY <1>3, <1>8
  <2>2. ChainLen \in Nat \ {0} /\ ShortMod \in Nat \ {0} /\ ShortMod % ChainLen = 0
    BY RingAssumption DEF RingAssumption
  <2>3. ((write_idx + 1) % ShortMod) % ChainLen = (write_idx + 1) % ChainLen
    BY <2>1, <2>2, ModMod, ZenonT(60)
  <2>4. ((write_idx % ChainLen) + 1) % ChainLen = (write_idx + 1) % ChainLen
    BY <2>1, <2>2, ModAdd, ZenonT(60)
  <2>5. ((nPush % ChainLen) + 1) % ChainLen = (nPush + 1) % ChainLen
    BY <2>1, <2>2, ModAdd, ZenonT(60)
  <2>6. (write_idx + 1) % ShortMod \in 0..(ShortMod - 1)
    BY <2>1, <2>2, DivMod, ZenonT(60)
  <2> QED BY <1>4, <1>8, <2>3, <2>4, <2>5, <2>6
<1>10. /\ write_offset = start[nPush] % Span /\ write_offset \in 0..(Span - 1)
       /\ write_offset' = (start[nPush] + sz) % Span
       /\ write_offset' \in 0..(Span - 1)
  <2>1. write_offset = start[nPush] % Span /\ write_offset \in 0..(Span - 1)
    BY <1>1 DEF SpaceAccounting, TypeOK, DriverTypeOK
  <2>2. start[nPush] \in Int /\ sz \in Int /\ Span \in Nat \ {0} /\ start[nPush] + sz \in Int
    BY <1>2, <1>5
  <2>3. ((start[nPush] % Span) + sz) % Span = (start[nPush] + sz) % Span
    BY <2>2, ModAdd, ZenonT(60)
  <2>4. (start[nPush] + sz) % Span \in 0..(Span - 1)
    BY <2>2, DivMod, ZenonT(60)
  <2> QED BY <1>4, <2>1, <2>3, <2>4
<1>11. /\ space_available' = Span - ((start[nPush] + sz) - start[Known])
       /\ space_available' \in 0..Span
  <2>1. space_available = Span - (start[nPush] - start[Known]) /\ space_available \in 0..Span
    BY <1>1 DEF SpaceAccounting, TypeOK, DriverTypeOK
  <2>2. space_available' = space_available - sz /\ sz <= space_available /\ sz \in Nat
    BY <1>1, <1>2, <1>4
  <2>3. start[nPush] \in Nat /\ start[Known] \in Nat
    BY <1>5
  <2> HIDE DEF RingInv
  <2> QED BY <2>1, <2>2, <2>3
<1>12. TypeOK'
  <2>1. chain' \in [0..(ChainLen - 1) -> 0..(ShortMod - 1)]
    <3>1. chain \in [0..(ChainLen - 1) -> 0..(ShortMod - 1)] /\ sz \in 0..(ShortMod - 1)
      BY <1>2 DEF TypeOK, DriverTypeOK
    <3> QED BY <1>4, <3>1
  <2>2. DriverTypeOK'
    <3>1. /\ slots' = slots /\ read_idx' = read_idx /\ read_offset' = read_offset
          /\ slots \in 0..Depth /\ read_idx \in 0..(ChainLen - 1) /\ read_offset \in 0..(Span - 1)
      BY <1>4 DEF TypeOK, DriverTypeOK
    <3> HIDE DEF RingInv
    <3> QED BY <1>9, <1>10, <1>11, <2>1, <3>1 DEF DriverTypeOK
  <2>3. ServerTypeOK'
    <3>1. up \in BOOLEAN /\ own \in BOOLEAN /\ hdr \in Sizes \cup {0}
      BY DEF TypeOK, ServerTypeOK
    <3>2. 0 \in 0..Depth /\ buf' \in 0..(Span - 1) /\ 0 \in Nat
      BY <1>4, <1>10
    <3> HIDE DEF RingInv
    <3> QED BY <1>1, <1>4, <3>1, <3>2 DEF ServerTypeOK
  <2>4. HwTypeOK'
    BY <1>4, <1>6 DEF TypeOK, HwTypeOK, hwVars
  <2> QED BY <2>2, <2>3, <2>4 DEF TypeOK
<1>13. ControlInv'
  BY <1>1, <1>3, <1>4, <1>7 DEF ControlInv
<1>14. SlotInv'
  BY <1>1, <1>3, <1>4, <1>7 DEF SlotInv
<1>15. SpaceAccounting'
  <2>1. start'[HandedOut'] = start[nPush] + sz /\ start'[GivenBack'] = start[Known]
    BY <1>3, <1>6, <1>7
  <2>2. read_offset' = start[Known] % Span
    BY <1>1, <1>4 DEF SpaceAccounting
  <2> QED BY <1>10, <1>11, <2>1, <2>2 DEF SpaceAccounting
<1>16. ChainInv'
  <2>1. \A p, q \in 0..(nPush + 1) : p <= q => start'[p] <= start'[q]
    <3> SUFFICES ASSUME NEW p \in 0..(nPush + 1), NEW q \in 0..(nPush + 1), p <= q
                 PROVE  start'[p] <= start'[q]
      OBVIOUS
    <3>1. CASE q <= nPush
      <4>1. p \in 0..nPush /\ q \in 0..nPush
        BY <1>3, <3>1
      <4>2. start[p] <= start[q]
        BY <1>1, <4>1 DEF ChainInv
      <4> QED BY <1>6, <4>1, <4>2
    <3>2. CASE q = nPush + 1 /\ p <= nPush
      <4>1. p \in 0..nPush /\ nPush \in 0..nPush /\ p \in 0..MaxPkts
        BY <1>3, <3>2
      <4>2. start[p] <= start[nPush] /\ start[p] \in Nat
        BY <1>1, <1>5, <4>1 DEF ChainInv
      <4> QED BY <1>2, <1>5, <1>6, <3>2, <4>1, <4>2
    <3>3. CASE q = nPush + 1 /\ p = nPush + 1
      BY <1>2, <1>5, <1>6, <3>3
    <3> QED BY <1>3, <3>1, <3>2, <3>3
  <2>2. \A k \in Known..nPush : chain'[k % ChainLen] = start'[k + 1] - start'[k]
    <3> SUFFICES ASSUME NEW k \in Known..nPush
                 PROVE  chain'[k % ChainLen] = start'[k + 1] - start'[k]
      OBVIOUS
    <3>1. k \in Int /\ nPush \in Int /\ ChainLen \in Nat \ {0} /\ nPush % ChainLen \in 0..(ChainLen - 1)
      BY <1>3, DivMod
    <3>2. k % ChainLen \in 0..(ChainLen - 1)
      BY <3>1, DivMod, ZenonT(60)
    <3>3. chain \in [0..(ChainLen - 1) -> 0..(ShortMod - 1)]
      BY DEF TypeOK, DriverTypeOK
    <3>4. CASE k = nPush
      <4>1. chain'[nPush % ChainLen] = sz
        BY <1>4, <1>8, <3>1, <3>3
      <4>2. start'[nPush + 1] - start'[nPush] = sz
        BY <1>2, <1>3, <1>5, <1>6
      <4> QED BY <3>4, <4>1, <4>2
    <3>5. CASE k < nPush
      <4>1. nPush < k + ChainLen /\ k \in 0..nPush /\ k + 1 \in 0..nPush /\ k \in GivenBack..(HandedOut - 1)
        BY <1>1, <1>3, <3>5
      <4>2. k % ChainLen # nPush % ChainLen
        BY <3>1, <3>5, <4>1, ModDistinct
      <4>3. chain'[k % ChainLen] = chain[k % ChainLen]
        BY <1>4, <1>8, <3>2, <3>3, <4>2
      <4>4. chain[k % ChainLen] = start[k + 1] - start[k]
        BY <1>1, <4>1 DEF ChainInv
      <4> QED BY <1>6, <4>1, <4>3, <4>4
    <3> QED BY <1>3, <3>4, <3>5
  <2>3. read_idx' = Known % ChainLen
    BY <1>1, <1>4 DEF ChainInv
  <2>4. HandedOut' - 1 = nPush
    BY <1>3, <1>7
  <2> QED BY <1>1, <1>7, <1>9, <2>1, <2>2, <2>3, <2>4 DEF ChainInv
<1>17. BufferInv'
  <2>1. \A k \in Pending : desc[k].where = start[k] % Span /\ desc[k].len <= start[k + 1] - start[k]
    BY <1>1 DEF BufferInv
  <2>2. \A k \in Pending : k \in 0..nPush /\ k + 1 \in 0..nPush
    BY <1>3 DEF Pending
  <2>3. \A k \in Pending : desc[k].where = start'[k] % Span /\ desc[k].len <= start'[k + 1] - start'[k]
    BY <1>6, <2>1, <2>2
  <2>4. buf' = start'[nPush] % Span /\ start'[nPush + 1] = start'[nPush] + sz
    BY <1>3, <1>4, <1>6, <1>10
  <2>5. sz = GET_ALIGNED_SZ(hdr') /\ hdr' = hdr
    BY <1>4 DEF sz
  <2> QED BY <1>7, <2>3, <2>4, <2>5 DEF BufferInv
<1> QED BY <1>12, <1>13, <1>14, <1>15, <1>16, <1>17

\* A copy only writes the current packet's tag.
LEMMA CopyTypes ==
  ASSUME NEW addr, NEW len, RingInv, nPush < MaxPkts, RecvAndCopy(addr, len)
  PROVE  /\ mem' \in [MemBytes -> Ids \cup {Stale}]
         /\ up' \in BOOLEAN /\ whole' \in BOOLEAN
<1>1. nPush \in Ids /\ mem \in [MemBytes -> Ids \cup {Stale}] /\ up \in BOOLEAN /\ whole \in BOOLEAN
  BY ConstFacts DEF RingInv, TypeOK, ServerTypeOK, HwTypeOK, Ids
<1> QED BY <1>1 DEF RecvAndCopy

LEMMA CopyFirstRing == RingInv /\ CopyFirst => RingInv'
<1> SUFFICES ASSUME RingInv, CopyFirst PROVE RingInv'
  OBVIOUS
<1> USE ConstFacts
<1>1. /\ pc = "copy" /\ nPush < MaxPkts /\ pc' \in {"copy2", "push"}
      /\ \E addr, len : RecvAndCopy(addr, len)
      /\ UNCHANGED <<hdr, own, waiting, buf, freed, i, bytes, slots, chain, write_idx, read_idx,
                     write_offset, read_offset, space_available, nPush, nDone, desc, dma, start>>
  BY DEF RingInv, ControlInv, CopyFirst, pollVars, driverVars, cbuffVars
<1>2. pc' = "copy2" => buf' + hdr' > Span
  <2>1. buf \in 0..(Span - 1) /\ hdr \in Nat
    BY DEF RingInv, TypeOK, ServerTypeOK
  <2>2. pc' = "copy2" => first_len # 0
    BY DEF CopyFirst
  <2> QED BY <1>1, <2>1, <2>2 DEF first_len, buff_len_to_wrap_boundary
<1>3. TypeOK'
  <2>1. ServerTypeOK' /\ mem' \in [MemBytes -> Ids \cup {Stale}]
    BY <1>1, CopyTypes DEF RingInv, TypeOK, ServerTypeOK
  <2>2. DriverTypeOK'
    BY <1>1 DEF RingInv, TypeOK, DriverTypeOK
  <2> QED BY <1>1, <2>1, <2>2 DEF RingInv, TypeOK, HwTypeOK
<1>4. ControlInv'
  BY <1>1, <1>2 DEF RingInv, ControlInv
<1>5. Known' = Known /\ GivenBack' = GivenBack /\ HandedOut' = HandedOut /\ Filling /\ Filling'
  BY <1>1 DEF Known, GivenBack, HandedOut, Filling
<1>6. SlotInv' /\ ChainInv' /\ SpaceAccounting'
  BY <1>1, <1>5 DEF RingInv, SlotInv, ChainInv, SpaceAccounting
<1>7. BufferInv'
  BY <1>1, <1>5 DEF RingInv, BufferInv, Pending
<1> QED BY <1>3, <1>4, <1>6, <1>7 DEF RingInv

LEMMA CopySecondRing == RingInv /\ CopySecond => RingInv'
<1> SUFFICES ASSUME RingInv, CopySecond PROVE RingInv'
  OBVIOUS
<1> USE ConstFacts
<1>1. /\ pc = "copy2" /\ nPush < MaxPkts /\ pc' = "push"
      /\ \E addr, len : RecvAndCopy(addr, len)
      /\ UNCHANGED <<hdr, own, waiting, buf, freed, i, bytes, slots, chain, write_idx, read_idx,
                     write_offset, read_offset, space_available, nPush, nDone, desc, dma, start>>
  BY DEF RingInv, ControlInv, CopySecond, pollVars, driverVars, cbuffVars
<1>2. TypeOK'
  <2>1. ServerTypeOK' /\ mem' \in [MemBytes -> Ids \cup {Stale}]
    BY <1>1, CopyTypes DEF RingInv, TypeOK, ServerTypeOK
  <2>2. DriverTypeOK'
    BY <1>1 DEF RingInv, TypeOK, DriverTypeOK
  <2> QED BY <1>1, <2>1, <2>2 DEF RingInv, TypeOK, HwTypeOK
<1>3. ControlInv'
  BY <1>1 DEF RingInv, ControlInv
<1>4. Known' = Known /\ GivenBack' = GivenBack /\ HandedOut' = HandedOut /\ Filling /\ Filling'
  BY <1>1 DEF Known, GivenBack, HandedOut, Filling
<1>5. SlotInv' /\ ChainInv' /\ SpaceAccounting'
  BY <1>1, <1>4 DEF RingInv, SlotInv, ChainInv, SpaceAccounting
<1>6. BufferInv'
  BY <1>1, <1>4 DEF RingInv, BufferInv, Pending
<1> QED BY <1>2, <1>3, <1>5, <1>6 DEF RingInv

\* The descriptor takes over the buffer; one slot less, as SlotInv allows.
LEMMA PushRing == RingInv /\ push_h2t_data => RingInv'
<1> SUFFICES ASSUME RingInv, push_h2t_data PROVE RingInv'
  OBVIOUS
<1> USE ConstFacts
<1>1. /\ pc = "push" /\ pc' = "select" /\ buf' = 0 /\ whole' = TRUE
      /\ slots' = (slots + ShortMod - 1) % ShortMod
      /\ desc' = [desc EXCEPT ![nPush] = [where |-> buf, len |-> hdr, whole |-> whole]]
      /\ nPush' = nPush + 1
      /\ UNCHANGED <<up, hdr, own, waiting, freed, i, bytes, chain, write_idx, read_idx,
                     write_offset, read_offset, space_available, nDone, mem, dma, start>>
  BY DEF push_h2t_data, sessionVars, pollVars, cbuffVars
<1>2. /\ nPush \in 0..MaxPkts /\ nPush < MaxPkts /\ ~waiting /\ Filling
      /\ slots \in 1..Depth /\ slots \in Nat /\ nDone \in Nat /\ nDone <= nPush
      /\ Depth \in Nat /\ 0 <= Known /\ Known <= nDone
  BY <1>1 DEF RingInv, ControlInv, SlotInv, TypeOK, DriverTypeOK, HwTypeOK, Filling
<1>3. slots' = slots - 1
  <2>1. slots - 1 \in 0..(ShortMod - 1) /\ slots + ShortMod - 1 = ShortMod * 1 + (slots - 1)
    BY <1>2
  <2>2. (ShortMod * 1 + (slots - 1)) % ShortMod = slots - 1
    BY <2>1, ModUnique
  <2> QED BY <1>1, <2>1, <2>2
<1>4. Known' = Known /\ GivenBack' = GivenBack /\ HandedOut' = HandedOut /\ HandedOut = nPush + 1 /\ ~Filling'
  BY <1>1, <1>2, <1>3 DEF Known, GivenBack, HandedOut, Filling
<1>5. /\ hdr \in Sizes \cup {0} /\ buf \in 0..(Span - 1) /\ whole \in BOOLEAN
      /\ desc \in [Ids -> DescType] /\ nPush \in Ids
  BY <1>2 DEF RingInv, TypeOK, ServerTypeOK, HwTypeOK, Ids
<1>6. TypeOK'
  <2>1. desc' \in [Ids -> DescType]
    BY <1>1, <1>5 DEF DescType
  <2>2. ServerTypeOK'
    BY <1>1 DEF RingInv, TypeOK, ServerTypeOK
  <2>3. DriverTypeOK'
    BY <1>1, <1>2, <1>3 DEF RingInv, TypeOK, DriverTypeOK
  <2>4. nPush' \in 0..MaxPkts
    BY <1>1, <1>2
  <2> QED BY <1>1, <2>1, <2>2, <2>3, <2>4 DEF RingInv, TypeOK, HwTypeOK
<1>7. ControlInv'
  BY <1>1, <1>2 DEF ControlInv
<1>8. SlotInv'
  BY <1>1, <1>2, <1>4 DEF SlotInv
<1>9. ChainInv' /\ SpaceAccounting'
  BY <1>1, <1>4 DEF RingInv, ChainInv, SpaceAccounting
<1>10. BufferInv'
  <2>1. /\ buf = start[nPush] % Span /\ start[nPush + 1] = start[nPush] + GET_ALIGNED_SZ(hdr)
        /\ start[nPush] \in Nat
    BY <1>1, <1>2 DEF RingInv, BufferInv, TypeOK, HwTypeOK
  <2>2. hdr \in Nat /\ GET_ALIGNED_SZ(hdr) \in Nat /\ hdr <= GET_ALIGNED_SZ(hdr)
    BY <1>5, AlignedFacts
  <2>3. desc'[nPush].where = buf /\ desc'[nPush].len = hdr
    BY <1>1, <1>5
  <2>4. hdr <= start[nPush + 1] - start[nPush]
    BY <2>1, <2>2
  <2>5. ASSUME NEW k \in Pending'
        PROVE  desc'[k].where = start[k] % Span /\ desc'[k].len <= start[k + 1] - start[k]
    <3>1. CASE k = nPush
      BY <2>1, <2>3, <2>4, <3>1
    <3>2. CASE k # nPush
      <4>1. k \in Pending /\ desc'[k] = desc[k]
        BY <1>1, <1>2, <1>5, <3>2 DEF Pending, Ids
      <4> QED BY <1>1, <4>1 DEF RingInv, BufferInv
    <3> QED BY <3>1, <3>2
  <2> QED BY <1>1, <1>4, <2>5 DEF BufferInv
<1> QED BY <1>6, <1>7, <1>8, <1>9, <1>10 DEF RingInv

\* The IP moves on while the server is anywhere.
LEMMA ConsumeRing == RingInv /\ HwConsume => RingInv'
<1> SUFFICES ASSUME RingInv, HwConsume PROVE RingInv'
  OBVIOUS
<1> USE ConstFacts
<1>1. /\ nDone < nPush /\ nDone' = nDone + 1
      /\ dma' = {mem[b] : b \in HwBytes(desc[nDone])}
      /\ desc' = [desc EXCEPT ![nDone] = NoDesc]
      /\ UNCHANGED <<pc, up, hdr, own, waiting, buf, whole, freed, i, bytes, slots, chain, write_idx, read_idx,
                     write_offset, read_offset, space_available, nPush, mem, start>>
  BY DEF HwConsume, sessionVars, localVars, pollVars, driverVars, cbuffVars
<1>2. nDone \in Nat /\ nPush \in 0..MaxPkts /\ desc \in [Ids -> DescType] /\ nDone \in Ids
  BY <1>1 DEF RingInv, TypeOK, HwTypeOK, Ids
<1>3. TypeOK'
  <2>1. NoDesc \in DescType
    BY DEF NoDesc, DescType
  <2>2. dma' \subseteq Ids \cup {Stale}
    <3>1. desc[nDone].where \in 0..(Span - 1) /\ desc[nDone].len \in Nat
      <4>1. desc[nDone] \in DescType
        BY <1>2
      <4>2. Sizes \cup {0} \subseteq Nat
        OBVIOUS
      <4> QED BY <4>1, <4>2 DEF DescType
    <3>2. HwBytes(desc[nDone]) \subseteq MemBytes
      <4>1. ASSUME NEW j \in 0..(desc[nDone].len - 1)
            PROVE  (desc[nDone].where + j) % Span \in MemBytes
        <5>1. desc[nDone].where + j \in Int /\ Span \in Nat \ {0}
          BY <3>1
        <5>2. (desc[nDone].where + j) % Span \in 0..(Span - 1)
          BY <5>1, DivMod, ZenonT(60)
        <5> QED BY <5>2 DEF MemBytes
      <4> QED BY <4>1 DEF HwBytes
    <3>3. mem \in [MemBytes -> Ids \cup {Stale}]
      BY DEF RingInv, TypeOK, HwTypeOK
    <3> QED BY <1>1, <3>2, <3>3
  <2>3. desc' \in [Ids -> DescType] /\ nDone' \in 0..MaxPkts
    BY <1>1, <1>2, <2>1
  <2>4. ServerTypeOK' /\ DriverTypeOK'
    BY <1>1 DEF RingInv, TypeOK, ServerTypeOK, DriverTypeOK
  <2> QED BY <1>1, <2>2, <2>3, <2>4 DEF RingInv, TypeOK, HwTypeOK
<1>4. ControlInv'
  BY <1>1, <1>2 DEF RingInv, ControlInv
<1>5. Known' = Known /\ GivenBack' = GivenBack /\ HandedOut' = HandedOut /\ Filling' = Filling
  BY <1>1 DEF Known, GivenBack, HandedOut, Filling
<1>6. SlotInv'
  <2>1. slots \in Int /\ Depth \in Int
    BY DEF RingInv, TypeOK, DriverTypeOK
  <2> QED BY <1>1, <1>2, <1>5, <2>1 DEF RingInv, SlotInv, Known
<1>7. ChainInv' /\ SpaceAccounting'
  BY <1>1, <1>5 DEF RingInv, ChainInv, SpaceAccounting
<1>8. BufferInv'
  <2>1. Pending' \subseteq Pending /\ \A k \in Pending' : desc'[k] = desc[k]
    BY <1>1, <1>2 DEF Pending, Ids
  <2> QED BY <1>1, <1>5, <2>1 DEF RingInv, BufferInv
<1> QED BY <1>3, <1>4, <1>6, <1>7, <1>8 DEF RingInv

LEMMA StutterRing == RingInv /\ UNCHANGED vars => RingInv'
BY DEF vars, sessionVars, localVars, pollVars, driverVars, cbuffVars, hwVars, RingInv,
       TypeOK, ServerTypeOK, DriverTypeOK, HwTypeOK, ControlInv, SlotInv, ChainInv,
       SpaceAccounting, BufferInv, Known, GivenBack, HandedOut, Filling, Pending

LEMMA NextRing == RingInv /\ [Next]_vars => RingInv'
<1> SUFFICES ASSUME RingInv, [Next]_vars PROVE RingInv'
  OBVIOUS
<1>1. CASE \E s \in Sizes : RecvHeader(s)
  BY <1>1, HeaderRing
<1>2. CASE RetryPayload \/ RetryEmpty
  BY <1>2, RetryRing DEF RetryPayload, RetryEmpty
<1>3. CASE init_driver \/ EndSession \/ set_loopback_mode
  BY <1>3, InitDriverRing, EndSessionRing, SetLoopbackRing
<1>4. CASE PollSlots \/ SumFreed \/ FreeSpace
  BY <1>4, PollRing, SumRing, FreeRing
<1>5. CASE AllocBuffer \/ AllocRefused
  BY <1>5, AllocRing, RefusedRing
<1>6. CASE CopyFirst \/ CopySecond \/ push_h2t_data
  BY <1>6, CopyFirstRing, CopySecondRing, PushRing
<1>7. CASE HwConsume
  BY <1>7, ConsumeRing
<1>8. CASE UNCHANGED vars
  BY <1>8, StutterRing
<1> QED BY <1>1, <1>2, <1>3, <1>4, <1>5, <1>6, <1>7, <1>8 DEF Next

----------------------------------------------------------------------------
\* The inductive invariant holds in every state of every behaviour of the data
\* path (get_h2t_buffer, push_h2t_data and process_h2t_data with the IP).
THEOREM RingInvariant == Spec => []RingInv
<1>1. Init => RingInv
  BY InitRingInv
<1>2. RingInv /\ [Next]_vars => RingInv'
  BY NextRing
<1> QED BY <1>1, <1>2, PTL DEF Spec

\* TypeOK for every memory, depth and packet size: no counter of the driver
\* and no field of the circular buffer leaves its range.
THEOREM TypeCorrect == Spec => []TypeOK
<1>1. RingInv => TypeOK
  BY DEF RingInv
<1> QED BY <1>1, RingInvariant, PTL

\* A slot the driver counts is one the IP has.
LEMMA RingAccounts == RingInv => SlotAccounting
<1> SUFFICES ASSUME RingInv, pc # "connect"
             PROVE  /\ 0 <= Known /\ Known <= nDone
                    /\ nPush - nDone <= Depth
                    /\ Filling => slots > 0 /\ AvailableSlots > 0
  BY DEF SlotAccounting
<1>1. 0 <= Known /\ Known <= nDone /\ (Filling => slots > 0)
  BY DEF RingInv, SlotInv
<1>2. slots \in Nat /\ nPush \in Nat /\ nDone \in Nat /\ Depth \in Nat
  BY ConstFacts DEF RingInv, TypeOK, DriverTypeOK, HwTypeOK
<1> QED BY <1>1, <1>2 DEF Known, AvailableSlots

\* SlotAccounting for every depth and chain length: the driver's slot count is
\* never ahead of the IP's register, and a slot is free for every descriptor.
THEOREM SlotsAccounted == Spec => []SlotAccounting
<1>1. RingInv => SlotAccounting
  BY RingAccounts
<1> QED BY <1>1, RingInvariant, PTL

\* SpaceAccounting for every span, word size and chain length: the circular
\* buffer never leaks or invents a byte.
THEOREM SpaceAccounted == Spec => []SpaceAccounting
<1>1. RingInv => SpaceAccounting
  BY DEF RingInv
<1> QED BY <1>1, RingInvariant, PTL

\* RefusedForUnread for every memory and packet size: get_h2t_buffer refuses a
\* packet that fits only while the register it has read shows descriptors that
\* the IP has not consumed.
THEOREM RefusalsJustified == Spec => []RefusedForUnread
<1>1. RingInv => RefusedForUnread
  <2> SUFFICES ASSUME RingInv, pc = "alloc", GET_ALIGNED_SZ(hdr) <= Span, ~(Known < nPush)
               PROVE  HasRoom
    BY DEF RefusedForUnread
  <2>1. /\ slots \in 0..Depth /\ nPush \in 0..MaxPkts /\ Depth \in Nat \ {0}
        /\ start[nPush] \in Nat /\ Span \in Nat
    BY ConstFacts DEF RingInv, TypeOK, DriverTypeOK, HwTypeOK
  <2>2. Known = nPush /\ slots = Depth
    BY <2>1 DEF Known
  <2>3. HandedOut = nPush /\ GivenBack = nPush
    BY <2>2 DEF HandedOut, GivenBack, Filling
  <2>4. space_available = Span - (start[nPush] - start[nPush])
    BY <2>3 DEF RingInv, SpaceAccounting
  <2>5. space_available = Span
    BY <2>1, <2>4
  <2> QED BY <2>1, <2>2, <2>5 DEF HasRoom
<1> QED BY <1>1, RingInvariant, PTL
=============================================================================
