------------------------------ MODULE T2HProofs ------------------------------
(***************************************************************************)
(* The safety properties of T2HPath and its refinement of SegmentStream,   *)
(* for every memory size, set of lengths, depth and room in the socket.    *)
(*                                                                         *)
(* The inductive invariant has four parts: which descriptor the server has *)
(* in hand (HoldInv), that memory holds what the descriptors say (MemInv), *)
(* how much of the segment is on the wire, in the send buffer and still to *)
(* be copied (WorkInv), and where packets start (FlagInv).                 *)
(***************************************************************************)
EXTENDS T2HPath, ModArith, SequenceTheorems, TLAPS

Idle == seg = NoSeg

\* seg is the descriptor at the head, with the header made for it.
SegIs(s) ==
  seg = [id |-> s.id, where |-> s.where, len |-> s.len, first |-> s.first, last |-> s.last,
         header |-> Header(s.len, seg.header.sop, s.last)]

HoldInv ==
  /\ at = "idle" => Idle
  /\ Busy => ~Idle
  /\ popped = IF Idle THEN 0 ELSE 1
  /\ ~Idle => Len(posted) >= 1 /\ SegIs(posted[1])

MemInv ==
  \A k \in 1..Len(posted) : \A c \in Cells(posted[k].where, posted[k].len) :
    mem[c] = posted[k].id

\* Every word of a piece is a word of the segment, and none lies behind the memory.
Inside(p) ==
  \A b \in 1..p.len : p.from + b - 1 < Span /\ p.from + b - 1 \in Cells(seg.where, seg.len)

Uncopied ==
  IF Len(todo) = 0 THEN 0
  ELSE IF Len(todo) = 1 THEN todo[1].len ELSE todo[1].len + todo[2].len

\* The header and n of the segment's words.
Frame(n) == [b \in 1..(n + 1) |-> IF b = 1 THEN seg.header ELSE seg.id]

Framed ==
  /\ Len(buff) + Uncopied <= seg.len
  /\ wire = Frame(seg.len - Len(buff) - Uncopied)

WorkInv ==
  /\ at = "header" => todo = Pieces(seg.where, seg.len)
  /\ at \in {"copy", "send", "complete"} => Framed
  /\ at = "copy" => Len(todo) \in {1, 2}
  /\ at = "send" => Len(todo) \in {0, 1}
  /\ at = "complete" => Len(todo) = 0
  /\ at \in {"copy", "send"} => \A k \in 1..Len(todo) : Inside(todo[k])
  /\ at = "send" => buff = [b \in 1..Len(buff) |-> seg.id]
  /\ at \in {"idle", "header", "copy", "complete"} => Len(buff) = 0

\* Where the next packet may start: packets of queued segments are contiguous.
NextFirst == IF Len(posted) = 0 THEN ~open ELSE posted[1].first
Chained ==
  /\ \A k \in 2..Len(posted) : posted[k].first = posted[k - 1].last
  /\ Len(posted) # 0 => open = ~posted[Len(posted)].last

FlagInv ==
  /\ Chained
  /\ Idle => sop = (NextFirst /\ ~torn)
  /\ ~Idle => sop = seg.last /\ seg.header.sop = (seg.first /\ ~torn)

PathInv == T2HTypeOK /\ HoldInv /\ MemInv /\ WorkInv /\ FlagInv

----------------------------------------------------------------------------
(* The operators *)

\* The pieces of a segment are one or two, lie in memory and are its words.
LEMMA PiecesCover ==
  ASSUME NEW where \in 0..(Span - 1), NEW len \in 1..Span
  PROVE  /\ Pieces(where, len) \in Seq(PieceType)
         /\ Len(Pieces(where, len)) \in {1, 2}
         /\ len = IF Len(Pieces(where, len)) = 1 THEN Pieces(where, len)[1].len
                  ELSE Pieces(where, len)[1].len + Pieces(where, len)[2].len
         /\ \A k \in 1..Len(Pieces(where, len)) : \A b \in 1..Pieces(where, len)[k].len :
              /\ Pieces(where, len)[k].from + b - 1 < Span
              /\ Pieces(where, len)[k].from + b - 1 \in Cells(where, len)
<1>1. Span \in Nat \ {0}
  BY T2HAssumption
<1>2. CASE where + len <= Span
  <2> DEFINE p == [from |-> where, len |-> len]
  <2>1. Pieces(where, len) = <<p>>
    BY <1>1, <1>2 DEF Pieces
  <2>2. p \in PieceType
    BY <1>1, <1>2 DEF PieceType
  <2>3. ASSUME NEW b \in 1..len
        PROVE  where + b - 1 < Span /\ where + b - 1 \in Cells(where, len)
    <3>1. b - 1 \in 0..(len - 1) /\ where + (b - 1) \in 0..(Span - 1)
      BY <1>1, <1>2
    <3>2. (where + (b - 1)) % Span = where + (b - 1)
      BY <1>1, <3>1, ModSmall
    <3>3. where + (b - 1) \in Cells(where, len)
      BY <3>1, <3>2 DEF Cells
    <3> QED BY <1>1, <3>1, <3>3
  <2>4. /\ Pieces(where, len) \in Seq(PieceType)
        /\ Len(Pieces(where, len)) = 1
        /\ Pieces(where, len)[1] = p
    BY <2>1, <2>2
  <2>5. p.from = where /\ p.len = len
    OBVIOUS
  <2> HIDE DEF p
  <2>6. \A b \in 1..p.len : p.from + b - 1 < Span /\ p.from + b - 1 \in Cells(where, len)
    BY <2>3, <2>5
  <2>7. \A k \in 1..Len(Pieces(where, len)) : Pieces(where, len)[k] = p
    BY <2>4
  <2>8. \A k \in 1..Len(Pieces(where, len)) : \A b \in 1..Pieces(where, len)[k].len :
          /\ Pieces(where, len)[k].from + b - 1 < Span
          /\ Pieces(where, len)[k].from + b - 1 \in Cells(where, len)
    BY <2>6, <2>7
  <2> QED BY <2>4, <2>5, <2>8
<1>3. CASE where + len > Span
  <2> DEFINE p == [from |-> where, len |-> Span - where]
             q == [from |-> 0, len |-> len - (Span - where)]
  <2>1. Pieces(where, len) = <<p, q>>
    BY <1>1, <1>3 DEF Pieces
  <2>2. p \in PieceType /\ q \in PieceType
    BY <1>1, <1>3 DEF PieceType
  <2>3. ASSUME NEW b \in 1..(Span - where)
        PROVE  where + b - 1 < Span /\ where + b - 1 \in Cells(where, len)
    <3>1. b - 1 \in 0..(len - 1) /\ where + (b - 1) \in 0..(Span - 1)
      BY <1>1, <1>3
    <3>2. (where + (b - 1)) % Span = where + (b - 1)
      BY <1>1, <3>1, ModSmall
    <3>3. where + (b - 1) \in Cells(where, len)
      BY <3>1, <3>2 DEF Cells
    <3> QED BY <1>1, <3>1, <3>3
  <2>4. ASSUME NEW b \in 1..(len - (Span - where))
        PROVE  0 + b - 1 < Span /\ 0 + b - 1 \in Cells(where, len)
    <3> DEFINE j == (Span - where) + (b - 1)
    <3>1. /\ j \in 0..(len - 1) /\ where + j \in Span..(2 * Span - 1)
          /\ (where + j) - Span = b - 1 /\ 0 + b - 1 = b - 1 /\ b - 1 < Span
      BY <1>1, <1>3
    <3>2. (where + j) % Span = b - 1
      BY <1>1, <3>1, ModWrap
    <3>3. b - 1 \in Cells(where, len)
      BY <3>1, <3>2 DEF Cells
    <3> QED BY <3>1, <3>3
  <2>5. len = p.len + q.len
    BY <1>1
  <2> QED BY <2>1, <2>2, <2>3, <2>4, <2>5
<1> QED BY <1>1, <1>2, <1>3

\* A frame is its header followed by the words.
LEMMA FrameIs ==
  ASSUME NEW n \in Nat
  PROVE  Frame(n) = <<seg.header>> \o [b \in 1..n |-> seg.id]
<1> DEFINE S == {seg.header, seg.id}
           h == <<seg.header>>
           w == [b \in 1..n |-> seg.id]
<1>1. h \in Seq(S) /\ Len(h) = 1 /\ h[1] = seg.header
  OBVIOUS
<1>2. w \in Seq(S) /\ Len(w) = n
  OBVIOUS
<1>3. Frame(n) \in Seq(S) /\ Len(Frame(n)) = n + 1
  BY DEF Frame
<1>4. /\ h \o w \in Seq(S) /\ Len(h \o w) = n + 1
      /\ \A i \in 1..(n + 1) : (h \o w)[i] = IF i <= 1 THEN h[i] ELSE w[i - 1]
  BY <1>1, <1>2, ConcatProperties
<1>5. \A i \in 1..(n + 1) : (h \o w)[i] = Frame(n)[i]
  BY <1>1, <1>4 DEF Frame
<1> QED BY <1>3, <1>4, <1>5, SeqEqual

\* More words make a longer frame.
LEMMA FrameGrows ==
  ASSUME NEW n \in Nat, NEW m \in Nat, NEW w, w = [b \in 1..m |-> seg.id]
  PROVE  Frame(n) \o w = Frame(n + m)
<1> DEFINE S == {seg.header, seg.id}
<1>1. w \in Seq(S) /\ Len(w) = m
  OBVIOUS
<1>2. Frame(n) \in Seq(S) /\ Len(Frame(n)) = n + 1
  BY DEF Frame
<1>3. Frame(n + m) \in Seq(S) /\ Len(Frame(n + m)) = n + m + 1
  BY DEF Frame
<1>4. /\ Frame(n) \o w \in Seq(S) /\ Len(Frame(n) \o w) = (n + 1) + m
      /\ \A i \in 1..((n + 1) + m) :
           (Frame(n) \o w)[i] = IF i <= n + 1 THEN Frame(n)[i] ELSE w[i - (n + 1)]
  <2> HIDE DEF S
  <2> QED BY <1>1, <1>2, ConcatProperties
<1>6. (n + 1) + m = n + m + 1
  OBVIOUS
<1>5. \A i \in 1..(n + m + 1) : (Frame(n) \o w)[i] = Frame(n + m)[i]
  BY <1>4, <1>6 DEF Frame
<1> QED BY <1>3, <1>4, <1>5, <1>6, SeqEqual

\* A part of a sequence of equal items.
LEMMA SubSeqSame ==
  ASSUME NEW L \in Nat, NEW x, NEW m \in Nat, NEW n \in Nat, NEW s,
         s = [b \in 1..L |-> x], 1 <= m, m <= n + 1, n <= L
  PROVE  /\ SubSeq(s, m, n) = [b \in 1..(n - m + 1) |-> x]
         /\ Len(SubSeq(s, m, n)) = n - m + 1
<1> DEFINE S == {x}
           t == [b \in 1..(n - m + 1) |-> x]
<1>1. \A i \in m..n : s[i] \in S
  OBVIOUS
<1>2. /\ SubSeq(s, m, n) \in Seq(S)
      /\ Len(SubSeq(s, m, n)) = IF m <= n THEN n - m + 1 ELSE 0
  BY <1>1, SubSeqProperties
<1>3. Len(SubSeq(s, m, n)) = n - m + 1 /\ n - m + 1 \in Nat
  BY <1>2
<1>4. t \in Seq(S) /\ Len(t) = n - m + 1
  BY <1>3
<1>5. \A i \in 1..(n - m + 1) : SubSeq(s, m, n)[i] = t[i]
  <2>1. SubSeq(s, m, n) \in [1..(n - m + 1) -> S]
    BY <1>2, <1>3, LenProperties
  <2> QED BY <2>1
<1> QED BY <1>2, <1>3, <1>4, <1>5, SeqEqual

----------------------------------------------------------------------------
(* Types *)

\* The parts of the type invariant.
IpTypes ==
  /\ mem \in [0..(Span - 1) -> 0..MaxSegs]
  /\ posted \in Seq(SegType) /\ popped \in 0..Len(posted)
  /\ made \in 0..MaxSegs
WorkTypes == todo \in Seq(PieceType) /\ buff \in Seq(0..MaxSegs) /\ sock \in 0..SockRoom
FlagTypes == open \in BOOLEAN /\ sop \in BOOLEAN /\ torn \in BOOLEAN
StageTypes ==
  /\ at \in {"off", "idle", "header", "copy", "send", "complete"}
  /\ seg.header \in HeaderType

\* A segment in hand is the first one posted.
LEMMA InHand ==
  ASSUME T2HTypeOK, HoldInv, ~Idle
  PROVE  /\ posted # <<>> /\ Len(posted) \in Nat \ {0} /\ posted[1] \in SegType
         /\ seg.id = posted[1].id /\ seg.where = posted[1].where /\ seg.len = posted[1].len
         /\ seg.first = posted[1].first /\ seg.last = posted[1].last
         /\ seg.header = Header(seg.len, seg.header.sop, seg.last)
         /\ seg.id \in 1..MaxSegs /\ seg.where \in 0..(Span - 1)
         /\ seg.len \in Lens /\ seg.len \in 1..Span
         /\ popped = 1
<1>1. Len(posted) >= 1 /\ SegIs(posted[1]) /\ popped = 1 /\ posted \in Seq(SegType)
  BY DEF HoldInv, T2HTypeOK
<1>2. posted # <<>> /\ Len(posted) \in Nat \ {0} /\ posted[1] \in SegType
  BY <1>1
<1>3. /\ seg.id = posted[1].id /\ seg.where = posted[1].where /\ seg.len = posted[1].len
      /\ seg.first = posted[1].first /\ seg.last = posted[1].last
      /\ seg.header = Header(seg.len, seg.header.sop, seg.last)
  BY <1>1 DEF SegIs
<1>4. /\ seg.id \in 1..MaxSegs /\ seg.where \in 0..(Span - 1)
      /\ seg.len \in Lens /\ seg.len \in 1..Span
  BY <1>2, <1>3, T2HAssumption DEF SegType
<1> QED BY <1>1, <1>2, <1>3, <1>4

LEMMA IpTypesStep ==
  ASSUME T2HTypeOK, HoldInv, [T2HNext]_t2hVars
  PROVE  IpTypes'
<1> USE DEF IpTypes
<1>t. IpTypes /\ open \in BOOLEAN
  BY DEF T2HTypeOK
<1>1. ASSUME NEW where \in 0..(Span - 1), NEW len \in Lens, NEW last \in BOOLEAN,
             Post(where, len, last)
      PROVE  IpTypes'
  <2> DEFINE s == [id |-> made + 1, where |-> where, len |-> len,
                   first |-> ~open, last |-> last]
  <2>1. made + 1 \in 1..MaxSegs /\ made' = made + 1
    BY <1>1, <1>t, T2HAssumption DEF Post
  <2>2. mem' \in [0..(Span - 1) -> 0..MaxSegs]
    BY <1>1, <1>t, <2>1 DEF Post
  <2>3. s \in SegType
    BY <2>1, <1>t DEF SegType
  <2>4. posted' = Append(posted, s) /\ popped' = popped
    BY <1>1 DEF Post
  <2>5. posted' \in Seq(SegType) /\ Len(posted') = Len(posted) + 1
    <3> HIDE DEF s
    <3> QED BY <2>3, <2>4, <1>t, AppendProperties
  <2>6. popped' \in 0..Len(posted')
    BY <2>4, <2>5, <1>t
  <2> QED BY <2>1, <2>2, <2>5, <2>6
<1>2. CASE init_driver \/ set_loopback_mode
  <2>1. posted' = <<>> /\ popped' = 0 /\ mem' = mem /\ made' = made
    BY <1>2 DEF init_driver, set_loopback_mode, IpReset
  <2>2. posted' \in Seq(SegType) /\ Len(posted') = 0
    BY <2>1, EmptySeq
  <2> QED BY <2>1, <2>2, <1>t
<1>3. CASE get_t2h_data
  BY <1>3, <1>t DEF get_t2h_data
<1>4. CASE t2h_data_complete
  <2>1. Busy /\ ~Idle
    BY <1>4 DEF t2h_data_complete, Busy, HoldInv
  <2>2. posted # <<>> /\ popped = 1
    BY <2>1, InHand
  <2>3. posted' = Tail(posted) /\ popped' = popped - 1 /\ UNCHANGED <<mem, made>>
    BY <1>4 DEF t2h_data_complete
  <2>4. posted' \in Seq(SegType) /\ Len(posted') = Len(posted) - 1
    BY <2>2, <2>3, <1>t, HeadTailProperties
  <2>5. popped' \in 0..Len(posted')
    BY <2>2, <2>3, <2>4, <1>t
  <2> QED BY <2>3, <2>4, <2>5, <1>t
<1>5. CASE \/ SendHeader \/ CopyPiece \/ (\E n \in 1..SockRoom : SendSome(n))
           \/ EndSession \/ ClientReceives \/ SendEcho \/ UNCHANGED t2hVars
  <2>1. UNCHANGED ipVars
    BY <1>5 DEF SendHeader, CopyPiece, SendSome, EndSession, ClientReceives, SendEcho, t2hVars
  <2> QED BY <2>1, <1>t DEF ipVars
<1> QED BY <1>1, <1>2, <1>3, <1>4, <1>5 DEF T2HNext

LEMMA WorkTypesStep ==
  ASSUME T2HTypeOK, HoldInv, WorkInv, [T2HNext]_t2hVars
  PROVE  WorkTypes'
<1> USE DEF WorkTypes
<1>t. WorkTypes
  BY DEF T2HTypeOK
<1>1. CASE init_driver
  BY <1>1, EmptySeq, T2HAssumption DEF init_driver
<1>2. CASE get_t2h_data
  <2>1. popped + 1 \in 1..Len(posted) /\ posted \in Seq(SegType)
    BY <1>2 DEF get_t2h_data, T2HTypeOK
  <2>2. posted[popped + 1] \in SegType
    BY <2>1
  <2>3. posted[popped + 1].where \in 0..(Span - 1) /\ posted[popped + 1].len \in 1..Span
    BY <2>2, T2HAssumption DEF SegType
  <2>4. todo' = Pieces(posted[popped + 1].where, posted[popped + 1].len)
    BY <1>2 DEF get_t2h_data
  <2> QED BY <1>2, <2>3, <2>4, <1>t, PiecesCover DEF get_t2h_data
<1>3. CASE SendHeader \/ ClientReceives \/ SendEcho
  BY <1>3, <1>t, T2HAssumption DEF SendHeader, ClientReceives, SendEcho
<1>4. CASE CopyPiece
  <2>1. todo # <<>> /\ Len(todo) \in {1, 2}
    BY <1>4, <1>t DEF CopyPiece, WorkInv
  <2>2. Head(todo) \in PieceType /\ Tail(todo) \in Seq(PieceType)
    BY <2>1, <1>t, HeadTailProperties
  <2>3. \A b \in 1..Head(todo).len : Peek(Head(todo).from + b - 1) \in 0..MaxSegs
    <3>1. \A a \in Nat : Peek(a) \in 0..MaxSegs
      BY T2HAssumption DEF Peek, T2HTypeOK
    <3>2. Head(todo).from \in Nat /\ Head(todo).len \in Nat
      BY <2>2, T2HAssumption DEF PieceType
    <3>3. \A b \in 1..Head(todo).len : Head(todo).from + b - 1 \in Nat
      BY <3>2
    <3> QED BY <3>1, <3>3
  <2>4. Head(todo).len \in Nat
    BY <2>2, T2HAssumption DEF PieceType
  <2>5. buff' \in Seq(0..MaxSegs)
    <3>1. buff' = [b \in 1..Head(todo).len |-> Peek(Head(todo).from + b - 1)]
      BY <1>4 DEF CopyPiece
    <3>2. buff' \in [1..Head(todo).len -> 0..MaxSegs]
      BY <3>1, <2>3
    <3> QED BY <3>2, <2>4, SeqDef
  <2> QED BY <2>2, <2>5, <1>4, <1>t DEF CopyPiece
<1>5. ASSUME NEW n \in 1..SockRoom, SendSome(n)
      PROVE  WorkTypes'
  <2>1. n \in 1..Len(buff) /\ sock + n <= SockRoom
    BY <1>5 DEF SendSome
  <2>2. buff' = SubSeq(buff, n + 1, Len(buff)) /\ sock' = sock + n /\ todo' = todo
    BY <1>5 DEF SendSome
  <2>3. buff' \in Seq(0..MaxSegs)
    <3>1. \A i \in (n + 1)..Len(buff) : buff[i] \in 0..MaxSegs
      <4>1. Len(buff) \in Nat /\ buff \in [1..Len(buff) -> 0..MaxSegs]
        BY <1>t, LenProperties
      <4> QED BY <4>1, <2>1
    <3>2. n + 1 \in Int /\ Len(buff) \in Int
      BY <2>1, <1>t
    <3> QED BY <2>2, <3>1, <3>2, SubSeqProperties
  <2> QED BY <2>1, <2>2, <2>3, <1>t, T2HAssumption
<1>6. ASSUME NEW where \in 0..(Span - 1), NEW len \in Lens, NEW last \in BOOLEAN,
             Post(where, len, last)
      PROVE  WorkTypes'
  BY <1>6, <1>t DEF Post, sendVars
<1>7. CASE set_loopback_mode \/ t2h_data_complete \/ EndSession \/ UNCHANGED t2hVars
  BY <1>7, <1>t DEF set_loopback_mode, t2h_data_complete, EndSession, sendVars, t2hVars
<1> QED BY <1>1, <1>2, <1>3, <1>4, <1>5, <1>6, <1>7 DEF T2HNext

LEMMA FlagTypesStep ==
  ASSUME T2HTypeOK, [T2HNext]_t2hVars
  PROVE  FlagTypes'
<1> USE DEF FlagTypes
<1>t. FlagTypes /\ posted \in Seq(SegType) /\ popped \in 0..Len(posted)
  BY DEF T2HTypeOK
<1>1. ASSUME NEW where \in 0..(Span - 1), NEW len \in Lens, NEW last \in BOOLEAN,
             Post(where, len, last)
      PROVE  FlagTypes'
  <2>1. open' = ~last /\ sop' = sop /\ torn' = torn
    BY <1>1 DEF Post
  <2> QED BY <2>1, <1>t, Zenon
<1>2. CASE init_driver \/ set_loopback_mode
  <2>1. open' = FALSE /\ sop' \in {sop, TRUE} /\ (torn' = FALSE \/ torn' = ~sop)
    BY <1>2, Zenon DEF init_driver, set_loopback_mode, IpReset
  <2> QED BY <2>1, <1>t, Zenon
<1>3. CASE get_t2h_data
  <2>1. popped + 1 \in 1..Len(posted)
    BY <1>3, <1>t DEF get_t2h_data
  <2>2. posted[popped + 1] \in SegType
    BY <2>1, <1>t
  <2>3. posted[popped + 1].last \in BOOLEAN
    BY <2>2 DEF SegType
  <2>4. sop' = posted[popped + 1].last /\ open' = open /\ torn' = torn
    BY <1>3, Zenon DEF get_t2h_data, NextSop
  <2> QED BY <2>3, <2>4, <1>t, Zenon
<1>4. CASE t2h_data_complete
  <2>1. torn' = FALSE /\ open' = open /\ sop' = sop
    BY <1>4, Zenon DEF t2h_data_complete
  <2> QED BY <2>1, <1>t, Zenon
<1>5. CASE \/ SendHeader \/ CopyPiece \/ (\E n \in 1..SockRoom : SendSome(n))
           \/ EndSession \/ ClientReceives \/ SendEcho \/ UNCHANGED t2hVars
  <2>1. open' = open /\ sop' = sop /\ torn' = torn
    BY <1>5 DEF SendHeader, CopyPiece, SendSome, EndSession, ClientReceives, SendEcho,
                t2hVars, ipVars
  <2> QED BY <2>1, <1>t, Zenon
<1> QED BY <1>1, <1>2, <1>3, <1>4, <1>5 DEF T2HNext

LEMMA StageTypesStep ==
  ASSUME T2HTypeOK, [T2HNext]_t2hVars
  PROVE  StageTypes'
<1> USE DEF StageTypes
<1>t. StageTypes /\ posted \in Seq(SegType) /\ popped \in 0..Len(posted) /\ sop \in BOOLEAN
  BY DEF T2HTypeOK
<1>n. NoSeg.header \in HeaderType
  BY DEF NoSeg, Header, HeaderType
<1>1. CASE init_driver \/ t2h_data_complete
  <2>1. at' = "idle" /\ seg' = NoSeg
    BY <1>1 DEF init_driver, t2h_data_complete
  <2> QED BY <2>1, <1>n
<1>2. CASE get_t2h_data
  <2>1. popped + 1 \in 1..Len(posted)
    BY <1>2, <1>t DEF get_t2h_data
  <2>2. posted[popped + 1] \in SegType
    BY <2>1, <1>t
  <2>3. posted[popped + 1].last \in BOOLEAN /\ posted[popped + 1].len \in Lens
    BY <2>2 DEF SegType
  <2>4. at' = "header"
        /\ seg'.header = Header(posted[popped + 1].len, sop, posted[popped + 1].last)
    BY <1>2 DEF get_t2h_data
  <2>5. seg'.header \in HeaderType
    BY <2>3, <2>4, <1>t DEF Header, HeaderType
  <2> QED BY <2>4, <2>5
<1>3. CASE SendHeader \/ CopyPiece \/ (\E n \in 1..SockRoom : SendSome(n)) \/ EndSession
  <2>1. seg' = seg
    BY <1>3 DEF SendHeader, CopyPiece, SendSome, EndSession
  <2>2. at' \in {"copy", "send", "complete", "off"}
    BY <1>3 DEF SendHeader, CopyPiece, SendSome, EndSession
  <2> QED BY <2>1, <2>2, <1>t
<1>4. ASSUME NEW where \in 0..(Span - 1), NEW len \in Lens, NEW last \in BOOLEAN,
             Post(where, len, last)
      PROVE  StageTypes'
  BY <1>4, <1>t DEF Post, sendVars
<1>5. CASE set_loopback_mode \/ ClientReceives \/ SendEcho \/ UNCHANGED t2hVars
  BY <1>5, <1>t DEF set_loopback_mode, ClientReceives, SendEcho, sendVars, t2hVars
<1> QED BY <1>1, <1>2, <1>3, <1>4, <1>5 DEF T2HNext

LEMMA TypesStep ==
  ASSUME T2HTypeOK, HoldInv, WorkInv, [T2HNext]_t2hVars
  PROVE  T2HTypeOK'
<1>1. IpTypes' /\ WorkTypes' /\ FlagTypes' /\ StageTypes'
  BY IpTypesStep, WorkTypesStep, FlagTypesStep, StageTypesStep
<1> QED BY <1>1 DEF T2HTypeOK, IpTypes, WorkTypes, FlagTypes, StageTypes

----------------------------------------------------------------------------
(* The descriptor in hand *)

LEMMA HoldStep ==
  ASSUME T2HTypeOK, HoldInv, [T2HNext]_t2hVars
  PROVE  HoldInv'
<1>t. posted \in Seq(SegType) /\ popped \in 0..Len(posted) /\ Len(posted) \in Nat
  BY DEF T2HTypeOK
<1>1. ASSUME NEW where \in 0..(Span - 1), NEW len \in Lens, NEW last \in BOOLEAN,
             Post(where, len, last)
      PROVE  HoldInv'
  <2> DEFINE s == [id |-> made + 1, where |-> where, len |-> len,
                   first |-> ~open, last |-> last]
  <2>1. posted' = Append(posted, s) /\ popped' = popped /\ seg' = seg /\ at' = at
    BY <1>1 DEF Post, sendVars
  <2>2. s \in SegType
    BY <1>1, T2HAssumption DEF T2HTypeOK, SegType, Post
  <2>3. Len(posted') = Len(posted) + 1 /\ \A k \in 1..Len(posted) : posted'[k] = posted[k]
    <3> HIDE DEF s
    <3> QED BY <2>1, <2>2, <1>t, AppendProperties
  <2>4. (~Idle => posted'[1] = posted[1])
    BY <2>3, <1>t DEF HoldInv
  <2>5. Idle' = Idle /\ Busy' = Busy
    BY <2>1 DEF Idle, Busy
  <2>6. ~Idle => Len(posted') >= 1 /\ SegIs(posted[1])'
    BY <2>1, <2>3, <2>4, <1>t DEF HoldInv, SegIs
  <2> QED BY <2>1, <2>4, <2>5, <2>6 DEF HoldInv
<1>2. CASE init_driver
  BY <1>2 DEF init_driver, IpReset, HoldInv, Idle, Busy
<1>3. CASE set_loopback_mode
  BY <1>3 DEF set_loopback_mode, IpReset, HoldInv, Idle, Busy, sendVars
<1>4. CASE get_t2h_data
  <2>1. Idle /\ popped = 0 /\ Len(posted) >= 1
    BY <1>4, <1>t DEF get_t2h_data, HoldInv
  <2>2. posted[1] \in SegType
    BY <2>1, <1>t
  <2>3. posted' = posted /\ popped' = 1 /\ at' = "header"
    BY <1>4, <2>1 DEF get_t2h_data
  <2>4. seg' = [id |-> posted[1].id, where |-> posted[1].where, len |-> posted[1].len,
                first |-> posted[1].first, last |-> posted[1].last,
                header |-> Header(posted[1].len, sop, posted[1].last)]
    BY <1>4, <2>1 DEF get_t2h_data
  <2>5. seg'.header = Header(posted[1].len, sop, posted[1].last) /\ seg'.header.sop = sop
    BY <2>4 DEF Header
  <2>6. SegIs(posted[1])'
    BY <2>3, <2>4, <2>5 DEF SegIs
  <2>7. seg'.id # 0
    BY <2>2, <2>4 DEF SegType
  <2>8. ~Idle'
    <3>1. NoSeg.id = 0
      BY DEF NoSeg
    <3> QED BY <2>7, <3>1 DEF Idle
  <2> QED BY <2>1, <2>3, <2>6, <2>8 DEF HoldInv, Busy
<1>5. CASE t2h_data_complete
  <2>1. Busy /\ ~Idle
    BY <1>5 DEF t2h_data_complete, Busy, HoldInv
  <2>2. popped = 1
    BY <2>1, InHand
  <2>3. popped' = 0 /\ at' = "idle" /\ Idle'
    BY <1>5, <2>2 DEF t2h_data_complete, Idle
  <2> QED BY <2>3 DEF HoldInv, Busy
<1>6. CASE SendHeader \/ CopyPiece \/ (\E n \in 1..SockRoom : SendSome(n))
  <2>1. posted' = posted /\ popped' = popped /\ seg' = seg
    BY <1>6 DEF SendHeader, CopyPiece, SendSome, ipVars
  <2>2. Busy /\ Busy' /\ at' # "idle"
    BY <1>6 DEF SendHeader, CopyPiece, SendSome, Busy
  <2> QED BY <2>1, <2>2 DEF HoldInv, Idle, SegIs
<1>7. CASE EndSession
  <2>1. posted' = posted /\ popped' = popped /\ seg' = seg /\ at' = "off"
    BY <1>7 DEF EndSession, ipVars
  <2> QED BY <2>1 DEF HoldInv, Idle, SegIs, Busy
<1>8. CASE ClientReceives \/ SendEcho \/ UNCHANGED t2hVars
  <2>1. posted' = posted /\ popped' = popped /\ seg' = seg /\ at' = at
    BY <1>8 DEF ClientReceives, SendEcho, t2hVars, ipVars, sendVars
  <2> QED BY <2>1 DEF HoldInv, Idle, SegIs, Busy
<1> QED BY <1>1, <1>2, <1>3, <1>4, <1>5, <1>6, <1>7, <1>8 DEF T2HNext

----------------------------------------------------------------------------
(* What memory holds *)

LEMMA MemStep ==
  ASSUME T2HTypeOK, HoldInv, MemInv, [T2HNext]_t2hVars
  PROVE  MemInv'
<1>t. posted \in Seq(SegType) /\ Len(posted) \in Nat /\ DOMAIN posted = 1..Len(posted)
  BY LenProperties DEF T2HTypeOK
<1>1. ASSUME NEW where \in 0..(Span - 1), NEW len \in Lens, NEW last \in BOOLEAN,
             Post(where, len, last)
      PROVE  MemInv'
  <2> DEFINE s == [id |-> made + 1, where |-> where, len |-> len,
                   first |-> ~open, last |-> last]
  <2>1. /\ posted' = Append(posted, s) /\ Cells(where, len) \cap Held = {}
        /\ mem' = [c \in 0..(Span - 1) |-> IF c \in Cells(where, len) THEN made + 1 ELSE mem[c]]
    BY <1>1 DEF Post
  <2>2. s \in SegType
    BY <1>1, T2HAssumption DEF T2HTypeOK, SegType, Post
  <2>3. s.id = made + 1 /\ s.where = where /\ s.len = len
    OBVIOUS
  <2>4. /\ Len(posted') = Len(posted) + 1
        /\ \A k \in 1..Len(posted) : posted'[k] = posted[k]
        /\ posted'[Len(posted) + 1] = s
    <3> HIDE DEF s
    <3> QED BY <2>1, <2>2, <1>t, AppendProperties
  <2>5. \A w \in 0..(Span - 1), n \in Lens : Cells(w, n) \subseteq 0..(Span - 1)
    <3>1. ASSUME NEW w \in 0..(Span - 1), NEW n \in Lens, NEW j \in 0..(n - 1)
          PROVE  (w + j) % Span \in 0..(Span - 1)
      <4>1. w + j \in Int /\ Span \in Nat \ {0}
        BY T2HAssumption
      <4> QED BY <4>1, DivMod
    <3> QED BY <3>1 DEF Cells
  <2>6. ASSUME NEW k \in 1..Len(posted), NEW c \in Cells(posted[k].where, posted[k].len)
        PROVE  mem'[c] = posted[k].id
    <3>1. posted[k] \in SegType
      BY <1>t
    <3>2. c \in 0..(Span - 1)
      BY <2>5, <3>1 DEF SegType
    <3>3. c \in Held
      BY <1>t DEF Held
    <3>4. mem'[c] = mem[c]
      BY <2>1, <3>2, <3>3
    <3> QED BY <3>4 DEF MemInv
  <2>7. \A c \in Cells(where, len) : mem'[c] = made + 1
    BY <2>1, <2>5
  <2>8. ASSUME NEW k \in 1..Len(posted'), NEW c \in Cells(posted'[k].where, posted'[k].len)
        PROVE  mem'[c] = posted'[k].id
    <3>1. CASE k \in 1..Len(posted)
      BY <3>1, <2>4, <2>6
    <3>2. CASE k = Len(posted) + 1
      BY <3>2, <2>3, <2>4, <2>7
    <3> QED BY <3>1, <3>2, <2>4, <1>t
  <2> QED BY <2>8 DEF MemInv
<1>2. CASE init_driver \/ set_loopback_mode
  <2>1. Len(posted') = 0
    BY <1>2, EmptySeq DEF init_driver, set_loopback_mode, IpReset
  <2> QED BY <2>1 DEF MemInv
<1>3. CASE t2h_data_complete
  <2>1. Busy /\ ~Idle
    BY <1>3 DEF t2h_data_complete, Busy, HoldInv
  <2>2. posted # <<>>
    BY <2>1, InHand
  <2>3. posted' = Tail(posted) /\ mem' = mem
    BY <1>3 DEF t2h_data_complete
  <2>4. Len(posted') = Len(posted) - 1 /\ \A k \in 1..Len(posted') : posted'[k] = posted[k + 1]
    BY <2>2, <2>3, <1>t, HeadTailProperties
  <2>5. \A k \in 1..Len(posted') : k + 1 \in 1..Len(posted)
    BY <2>4, <1>t
  <2> QED BY <2>3, <2>4, <2>5 DEF MemInv
<1>4. CASE \/ get_t2h_data \/ SendHeader \/ CopyPiece \/ (\E n \in 1..SockRoom : SendSome(n))
           \/ EndSession \/ ClientReceives \/ SendEcho \/ UNCHANGED t2hVars
  <2>1. posted' = posted /\ mem' = mem
    BY <1>4 DEF get_t2h_data, SendHeader, CopyPiece, SendSome, EndSession, ClientReceives,
                SendEcho, t2hVars, ipVars
  <2> QED BY <2>1 DEF MemInv
<1> QED BY <1>1, <1>2, <1>3, <1>4 DEF T2HNext

----------------------------------------------------------------------------
(* What is on the wire *)

LEMMA WorkKept ==
  ASSUME WorkInv, seg' = seg, todo' = todo, buff' = buff, wire' = wire, at' \in {at, "off"}
  PROVE  WorkInv'
<1>1. Framed' = Framed /\ \A k : Inside(todo[k])' = Inside(todo[k])
  BY DEF Framed, Frame, Uncopied, Inside
<1> QED BY <1>1 DEF WorkInv

LEMMA CopyKeepsWork ==
  ASSUME T2HTypeOK, HoldInv, MemInv, WorkInv, CopyPiece
  PROVE  WorkInv'
<1> DEFINE p == Head(todo)
<1>1. /\ at = "copy" /\ at' = "send" /\ todo' = Tail(todo) /\ UNCHANGED <<seg, wire, mem>>
      /\ buff' = [b \in 1..p.len |-> Peek(p.from + b - 1)]
  BY DEF CopyPiece, ipVars
<1>2. /\ Len(todo) \in {1, 2} /\ Len(buff) = 0 /\ Framed
      /\ \A k \in 1..Len(todo) : Inside(todo[k])
  BY <1>1 DEF WorkInv
<1>3. todo \in Seq(PieceType) /\ todo # <<>>
  <2>1. todo \in Seq(PieceType)
    BY DEF T2HTypeOK
  <2> QED BY <2>1, <1>2, EmptySeq
<1>4. /\ todo' \in Seq(PieceType) /\ Len(todo') = Len(todo) - 1
      /\ \A k \in 1..Len(todo') : todo'[k] = todo[k + 1]
  BY <1>1, <1>3, HeadTailProperties
<1>5. p = todo[1] /\ p \in PieceType /\ p.len \in Nat \ {0} /\ p.from \in Nat
  <2>1. p = todo[1]
    BY <1>3
  <2>2. p \in PieceType
    BY <1>3, HeadTailProperties
  <2> HIDE DEF p
  <2>3. p.len \in 1..Span /\ p.from \in 0..(Span - 1)
    BY <2>2 DEF PieceType
  <2> QED BY <2>1, <2>2, <2>3, T2HAssumption
<1>6. ~Idle
  BY <1>1 DEF Busy, HoldInv
<1>7. \A c \in Cells(seg.where, seg.len) : mem[c] = seg.id
  BY <1>6, InHand DEF MemInv
<1>8. \A b \in 1..p.len : Peek(p.from + b - 1) = seg.id
  BY <1>2, <1>5, <1>7 DEF Inside, Peek
<1>9. Len(buff') = p.len /\ buff' = [b \in 1..p.len |-> seg.id]
  BY <1>1, <1>5, <1>8
<1>10. /\ Uncopied \in Nat /\ Uncopied' \in Nat
       /\ Len(buff) + Uncopied = Len(buff') + Uncopied'
  <2>1. CASE Len(todo) = 1
    <3>1. Len(todo') = 0
      BY <2>1, <1>4
    <3> QED BY <2>1, <3>1, <1>2, <1>5, <1>9 DEF Uncopied
  <2>2. CASE Len(todo) = 2
    <3>1. Len(todo') = 1 /\ todo'[1] = todo[2] /\ todo[2] \in PieceType
      BY <2>2, <1>3, <1>4
    <3>2. todo[2].len \in Nat
      BY <3>1, T2HAssumption DEF PieceType
    <3> QED BY <2>2, <3>1, <3>2, <1>2, <1>5, <1>9 DEF Uncopied
  <2> QED BY <2>1, <2>2, <1>2
<1>11. seg.len \in Nat
  BY <1>6, InHand
<1>12. Framed'
  <2>1. Len(buff') + Uncopied' <= seg.len
    BY <1>2, <1>9, <1>10 DEF Framed
  <2>2. seg.len - Len(buff) - Uncopied = seg.len - Len(buff') - Uncopied'
    BY <1>2, <1>5, <1>9, <1>10, <1>11
  <2> QED BY <2>1, <2>2, <1>1, <1>2 DEF Framed, Frame
<1>13. Len(todo') \in {0, 1}
  BY <1>2, <1>4
<1>14. \A k \in 1..Len(todo') : Inside(todo[k])'
  <2>1. \A k \in 1..Len(todo') : k + 1 \in 1..Len(todo) /\ todo'[k] = todo[k + 1]
    BY <1>2, <1>4
  <2> QED BY <2>1, <1>1, <1>2 DEF Inside
<1> QED BY <1>1, <1>9, <1>12, <1>13, <1>14 DEF WorkInv

LEMMA SendKeepsWork ==
  ASSUME T2HTypeOK, HoldInv, WorkInv, NEW n \in 1..SockRoom, SendSome(n)
  PROVE  WorkInv'
<1> DEFINE L == Len(buff)
<1>1. /\ at = "send" /\ n \in 1..L /\ UNCHANGED <<seg, todo>>
      /\ wire' = wire \o SubSeq(buff, 1, n)
      /\ buff' = SubSeq(buff, n + 1, L)
      /\ at' = IF n < L THEN "send" ELSE IF todo # <<>> THEN "copy" ELSE "complete"
  BY DEF SendSome
<1>2. /\ Framed /\ Len(todo) \in {0, 1} /\ buff = [b \in 1..L |-> seg.id]
      /\ \A k \in 1..Len(todo) : Inside(todo[k])
  BY <1>1 DEF WorkInv
<1>3. L \in Nat /\ todo \in Seq(PieceType)
  BY DEF T2HTypeOK
<1> HIDE DEF L
<1>4. SubSeq(buff, 1, n) = [b \in 1..n |-> seg.id]
  <2>1. n - 1 + 1 = n /\ 1 <= n + 1 /\ n <= L /\ n \in Nat
    BY <1>1, <1>3
  <2> QED BY <2>1, <1>2, <1>3, SubSeqSame
<1>5. buff' = [b \in 1..(L - n) |-> seg.id] /\ Len(buff') = L - n
  <2>1. L - (n + 1) + 1 = L - n /\ 1 <= n + 1 /\ n + 1 <= L + 1 /\ n + 1 \in Nat
    BY <1>1, <1>3
  <2> QED BY <2>1, <1>1, <1>2, <1>3, SubSeqSame
<1>6. Uncopied \in Nat /\ Uncopied' = Uncopied
  <2>1. Len(todo) = 1 => todo[1] \in PieceType
    BY <1>3, ElementOfSeq
  <2>2. Len(todo) = 1 => todo[1].len \in Nat
    BY <2>1, T2HAssumption DEF PieceType
  <2> QED BY <2>2, <1>1, <1>2 DEF Uncopied
<1>7. ~Idle
  BY <1>1 DEF Busy, HoldInv
<1>8. seg.len \in Nat
  BY <1>7, InHand
<1> DEFINE sent == seg.len - L - Uncopied
<1>9. sent \in Nat /\ wire = Frame(sent)
  BY <1>2, <1>3, <1>6, <1>8 DEF Framed, L
<1>10. wire' = Frame(sent + n)
  <2> HIDE DEF sent
  <2>1. n \in Nat
    BY <1>1, <1>3
  <2> QED BY <2>1, <1>1, <1>4, <1>9, FrameGrows
<1>11. Framed'
  <2>1. sent + n = seg.len - Len(buff') - Uncopied'
    BY <1>1, <1>3, <1>5, <1>6, <1>8
  <2>2. Len(buff') + Uncopied' <= seg.len
    <3>1. L + Uncopied <= seg.len
      BY <1>2 DEF Framed, L
    <3> QED BY <3>1, <1>1, <1>3, <1>5, <1>6, <1>8
  <2> HIDE DEF sent
  <2>3. wire' = [b \in 1..(sent + n + 1) |-> IF b = 1 THEN seg'.header ELSE seg'.id]
    BY <1>1, <1>10 DEF Frame
  <2> QED BY <1>1, <2>1, <2>2, <2>3 DEF Framed, Frame
<1>12. \A k : Inside(todo[k])' = Inside(todo[k])
  BY <1>1 DEF Inside
<1>13. CASE n < L
  BY <1>13, <1>1, <1>2, <1>5, <1>11, <1>12 DEF WorkInv
<1>14. CASE n = L
  <2>1. Len(buff') = 0
    BY <1>14, <1>5, <1>3
  <2>2. todo # <<>> => Len(todo) = 1
    BY <1>2, <1>3
  <2>3. todo = <<>> => Len(todo) = 0
    OBVIOUS
  <2> QED BY <1>14, <1>1, <1>2, <1>11, <1>12, <2>1, <2>2, <2>3 DEF WorkInv
<1> QED BY <1>1, <1>3, <1>13, <1>14

LEMMA WorkStep ==
  ASSUME T2HTypeOK, HoldInv, MemInv, WorkInv, [T2HNext]_t2hVars
  PROVE  WorkInv'
<1>1. CASE init_driver
  <2>1. at' = "idle" /\ Len(buff') = 0
    BY <1>1 DEF init_driver
  <2> QED BY <2>1 DEF WorkInv
<1>2. CASE get_t2h_data
  <2>1. popped + 1 \in 1..Len(posted) /\ popped = 0
    BY <1>2 DEF get_t2h_data, T2HTypeOK, HoldInv
  <2>2. /\ at = "idle" /\ at' = "header" /\ buff' = buff
        /\ todo' = Pieces(seg'.where, seg'.len)
    BY <1>2, <2>1 DEF get_t2h_data
  <2> QED BY <2>2 DEF WorkInv
<1>3. CASE SendHeader
  <2>1. /\ at = "header" /\ at' = "copy" /\ UNCHANGED <<seg, todo, buff>>
        /\ wire' = <<seg.header>>
    BY <1>3 DEF SendHeader
  <2>2. ~Idle /\ todo = Pieces(seg.where, seg.len) /\ Len(buff) = 0
    BY <2>1 DEF Busy, HoldInv, WorkInv
  <2>3. seg.where \in 0..(Span - 1) /\ seg.len \in 1..Span
    BY <2>2, InHand
  <2>4. /\ Len(todo) \in {1, 2} /\ seg.len = Uncopied
        /\ \A k \in 1..Len(todo) : Inside(todo[k])
    BY <2>2, <2>3, PiecesCover DEF Uncopied, Inside
  <2>5. Frame(0) = <<seg.header>>
    BY DEF Frame
  <2>6. /\ Uncopied' = Uncopied /\ Frame(0)' = Frame(0)
        /\ \A k : Inside(todo[k])' = Inside(todo[k])
    BY <2>1 DEF Uncopied, Frame, Inside
  <2>7. seg'.len - Len(buff') - Uncopied' = 0 /\ Len(buff') + Uncopied' <= seg'.len
    BY <2>1, <2>2, <2>3, <2>4, <2>6
  <2>8. Framed'
    BY <2>1, <2>5, <2>6, <2>7 DEF Framed
  <2> QED BY <2>1, <2>2, <2>4, <2>6, <2>8 DEF WorkInv
<1>4. CASE CopyPiece
  BY <1>4, CopyKeepsWork
<1>5. CASE \E n \in 1..SockRoom : SendSome(n)
  BY <1>5, SendKeepsWork
<1>6. CASE t2h_data_complete
  <2>1. at' = "idle" /\ Len(buff') = 0
    BY <1>6 DEF t2h_data_complete, WorkInv
  <2> QED BY <2>1 DEF WorkInv
<1>7. ASSUME NEW where \in 0..(Span - 1), NEW len \in Lens, NEW last \in BOOLEAN,
             Post(where, len, last)
      PROVE  WorkInv'
  <2>1. seg' = seg /\ todo' = todo /\ buff' = buff /\ wire' = wire /\ at' \in {at, "off"}
    BY <1>7 DEF Post, sendVars
  <2> QED BY <2>1, WorkKept
<1>8. CASE set_loopback_mode \/ EndSession \/ ClientReceives \/ SendEcho \/ UNCHANGED t2hVars
  <2>1. seg' = seg /\ todo' = todo /\ buff' = buff /\ wire' = wire /\ at' \in {at, "off"}
    BY <1>8 DEF set_loopback_mode, EndSession, ClientReceives, SendEcho, t2hVars, sendVars
  <2> QED BY <2>1, WorkKept
<1> QED BY <1>1, <1>2, <1>3, <1>4, <1>5, <1>6, <1>7, <1>8 DEF T2HNext

----------------------------------------------------------------------------
(* Where packets start *)

\* The segments posted are contiguous, and so is the next one.
LEMMA ChainedStep ==
  ASSUME T2HTypeOK, HoldInv, Chained, [T2HNext]_t2hVars
  PROVE  Chained'
<1>t. posted \in Seq(SegType) /\ Len(posted) \in Nat
  BY DEF T2HTypeOK
<1>1. ASSUME NEW where \in 0..(Span - 1), NEW len \in Lens, NEW last \in BOOLEAN,
             Post(where, len, last)
      PROVE  Chained'
  <2> DEFINE s == [id |-> made + 1, where |-> where, len |-> len,
                   first |-> ~open, last |-> last]
  <2>1. posted' = Append(posted, s) /\ open' = ~last
    BY <1>1 DEF Post
  <2>2. s \in SegType
    BY <1>1, T2HAssumption DEF T2HTypeOK, SegType, Post
  <2>3. s.first = ~open /\ s.last = last
    OBVIOUS
  <2> HIDE DEF s
  <2>4. /\ Len(posted') = Len(posted) + 1
        /\ \A k \in 1..Len(posted) : posted'[k] = posted[k]
        /\ posted'[Len(posted) + 1] = s
    BY <2>1, <2>2, <1>t, AppendProperties
  <2>5. Len(posted) # 0 => posted'[Len(posted)] = posted[Len(posted)]
    BY <2>4, <1>t
  <2>6. Len(posted) # 0 => (~open) = posted[Len(posted)].last
    <3>1. Len(posted) # 0 => posted[Len(posted)] \in SegType
      BY <1>t
    <3>2. Len(posted) # 0 => posted[Len(posted)].last \in BOOLEAN
      BY <3>1 DEF SegType
    <3>3. open \in BOOLEAN
      BY DEF T2HTypeOK
    <3> QED BY <3>2, <3>3, Zenon DEF Chained
  <2>7. Len(posted) # 0 => posted'[Len(posted) + 1].first = posted'[Len(posted)].last
    BY <2>3, <2>4, <2>5, <2>6, Zenon
  <2>8. ASSUME NEW k \in 2..Len(posted')
        PROVE  posted'[k].first = posted'[k - 1].last
    <3>1. CASE k \in 2..Len(posted)
      <4>1. posted'[k] = posted[k] /\ posted'[k - 1] = posted[k - 1]
        BY <3>1, <2>4, <1>t
      <4> QED BY <4>1, <3>1, Zenon DEF Chained
    <3>2. CASE k = Len(posted) + 1
      <4>1. Len(posted) # 0 /\ k - 1 = Len(posted)
        BY <3>2, <1>t
      <4> QED BY <4>1, <3>2, <2>7, Zenon
    <3> QED BY <3>1, <3>2, <2>4, <1>t
  <2>9. posted'[Len(posted')].last = last
    BY <2>3, <2>4, Zenon
  <2>10. open' = ~posted'[Len(posted')].last
    BY <2>1, <2>9, Zenon
  <2> QED BY <2>8, <2>10, Zenon DEF Chained
<1>2. CASE init_driver \/ set_loopback_mode
  <2>1. Len(posted') = 0
    BY <1>2, EmptySeq DEF init_driver, set_loopback_mode, IpReset
  <2> QED BY <2>1 DEF Chained
<1>3. CASE t2h_data_complete
  <2>1. Busy /\ ~Idle
    BY <1>3 DEF t2h_data_complete, Busy, HoldInv
  <2>2. posted # <<>>
    BY <2>1, InHand
  <2>3. posted' = Tail(posted) /\ open' = open
    BY <1>3 DEF t2h_data_complete
  <2>4. Len(posted') = Len(posted) - 1 /\ \A k \in 1..Len(posted') : posted'[k] = posted[k + 1]
    BY <2>2, <2>3, <1>t, HeadTailProperties
  <2>5. ASSUME NEW k \in 2..Len(posted')
        PROVE  posted'[k].first = posted'[k - 1].last
    <3>1. /\ posted'[k] = posted[k + 1] /\ posted'[k - 1] = posted[k]
          /\ k + 1 \in 2..Len(posted) /\ (k + 1) - 1 = k
      BY <2>4, <1>t
    <3>2. posted[k + 1].first = posted[(k + 1) - 1].last
      BY <3>1, Zenon DEF Chained
    <3> QED BY <3>1, <3>2, Zenon
  <2>6. Len(posted') # 0 => open' = ~posted'[Len(posted')].last
    <3>1. Len(posted') # 0 => Len(posted) # 0 /\ posted'[Len(posted')] = posted[Len(posted)]
      BY <2>4, <1>t
    <3> QED BY <3>1, <2>3, Zenon DEF Chained
  <2> QED BY <2>5, <2>6, Zenon DEF Chained
<1>4. CASE \/ get_t2h_data \/ SendHeader \/ CopyPiece \/ (\E n \in 1..SockRoom : SendSome(n))
           \/ EndSession \/ ClientReceives \/ SendEcho \/ UNCHANGED t2hVars
  <2>1. posted' = posted /\ open' = open
    BY <1>4 DEF get_t2h_data, SendHeader, CopyPiece, SendSome, EndSession, ClientReceives,
                SendEcho, t2hVars, ipVars
  <2> QED BY <2>1, Zenon DEF Chained
<1> QED BY <1>1, <1>2, <1>3, <1>4 DEF T2HNext

LEMMA FlagStep ==
  ASSUME T2HTypeOK, HoldInv, FlagInv, [T2HNext]_t2hVars
  PROVE  FlagInv'
<1>c. Chained /\ Chained'
  <2>1. Chained
    BY DEF FlagInv
  <2> QED BY <2>1, ChainedStep
<1>t. posted \in Seq(SegType) /\ Len(posted) \in Nat
  BY DEF T2HTypeOK
<1>b. open \in BOOLEAN /\ sop \in BOOLEAN /\ torn \in BOOLEAN
  BY DEF T2HTypeOK
<1>1. ASSUME NEW where \in 0..(Span - 1), NEW len \in Lens, NEW last \in BOOLEAN,
             Post(where, len, last)
      PROVE  FlagInv'
  <2> DEFINE s == [id |-> made + 1, where |-> where, len |-> len,
                   first |-> ~open, last |-> last]
  <2>1. posted' = Append(posted, s) /\ sop' = sop /\ torn' = torn /\ seg' = seg
    BY <1>1 DEF Post, sendVars
  <2>2. s \in SegType
    BY <1>1, T2HAssumption DEF T2HTypeOK, SegType, Post
  <2>3. s.first = ~open
    OBVIOUS
  <2> HIDE DEF s
  <2>4. /\ Len(posted') = Len(posted) + 1
        /\ \A k \in 1..Len(posted) : posted'[k] = posted[k]
        /\ posted'[Len(posted) + 1] = s
    BY <2>1, <2>2, <1>t, AppendProperties
  <2>5. posted'[1] = IF Len(posted) = 0 THEN s ELSE posted[1]
    BY <2>4, <1>t
  <2>6. Len(posted') # 0
    BY <2>4, <1>t
  <2>7. NextFirst' = NextFirst
    BY <2>3, <2>5, <2>6, Zenon DEF NextFirst
  <2> QED BY <2>1, <2>7, <1>c, Zenon DEF FlagInv, Idle
<1>2. CASE init_driver
  <2>1. /\ posted' = <<>> /\ open' = FALSE /\ sop' = TRUE /\ torn' = FALSE /\ seg' = NoSeg
    BY <1>2 DEF init_driver, IpReset
  <2>2. Len(posted') = 0
    BY <2>1, EmptySeq
  <2> QED BY <2>1, <2>2, <1>c, Zenon DEF FlagInv, NextFirst, Idle
<1>3. CASE set_loopback_mode
  <2>1. at = "idle" /\ posted' = <<>> /\ open' = FALSE /\ seg' = seg
    BY <1>3 DEF set_loopback_mode, IpReset, sendVars
  <2>2. sop' = sop /\ torn' = ~sop
    BY <1>3, Zenon DEF set_loopback_mode
  <2>3. Len(posted') = 0
    BY <2>1, EmptySeq
  <2>4. Idle
    BY <2>1, Zenon DEF HoldInv
  <2> QED BY <2>1, <2>2, <2>3, <2>4, <1>b, <1>c, Zenon DEF FlagInv, NextFirst, Idle
<1>4. CASE get_t2h_data
  <2>1. at = "idle" /\ Idle /\ popped = 0 /\ Len(posted) >= 1
    BY <1>4, <1>t DEF get_t2h_data, HoldInv
  <2>2. HoldInv'
    BY HoldStep
  <2>3. ~Idle'
    BY <1>4, <2>2 DEF get_t2h_data, HoldInv, Busy
  <2>4. /\ seg'.first = posted[1].first /\ seg'.last = posted[1].last
        /\ seg'.header = Header(posted[1].len, sop, posted[1].last)
    BY <1>4, <2>1 DEF get_t2h_data
  <2>5. seg'.header.sop = sop
    BY <2>4 DEF Header
  <2>6. sop' = posted[1].last /\ torn' = torn
    BY <1>4, <2>1 DEF get_t2h_data, NextSop
  <2>7. Len(posted) # 0
    BY <2>1, <1>t
  <2>8. sop = (posted[1].first /\ ~torn)
    BY <2>1, <2>7, Zenon DEF FlagInv, NextFirst
  <2>9. sop' = seg'.last
    BY <2>4, <2>6, Zenon
  <2>10. seg'.header.sop = (seg'.first /\ ~torn')
    BY <2>4, <2>5, <2>6, <2>8, Zenon
  <2> QED BY <2>3, <2>9, <2>10, <1>c, Zenon DEF FlagInv
<1>5. CASE t2h_data_complete
  <2>1. Busy /\ ~Idle
    BY <1>5 DEF t2h_data_complete, Busy, HoldInv
  <2>2. posted # <<>> /\ Len(posted) \in Nat \ {0} /\ seg.last = posted[1].last
    BY <2>1, InHand
  <2>3. posted' = Tail(posted) /\ seg' = NoSeg
    BY <1>5 DEF t2h_data_complete
  <2>4. sop' = sop /\ torn' = FALSE /\ open' = open
    BY <1>5, Zenon DEF t2h_data_complete
  <2>5. Len(posted') = Len(posted) - 1 /\ \A k \in 1..Len(posted') : posted'[k] = posted[k + 1]
    BY <2>2, <2>3, <1>t, HeadTailProperties
  <2>6. sop = posted[1].last
    BY <2>1, <2>2, Zenon DEF FlagInv
  <2>a. Idle'
    BY <2>3, Zenon DEF Idle
  <2>b. sop' \in BOOLEAN /\ torn' = FALSE
    BY <2>4, <1>b, Zenon
  <2>7. CASE Len(posted) = 1
    <3>1. Len(posted') = 0
      BY <2>5, <2>7
    <3>2. Len(posted) # 0 /\ posted[Len(posted)] = posted[1]
      BY <2>7
    <3>3. open = ~posted[1].last
      BY <3>2, <1>c, Zenon DEF Chained
    <3>4. posted[1].last \in BOOLEAN
      BY <2>6, <1>b, Zenon
    <3>5. (~open) = posted[1].last
      BY <3>3, <3>4, Zenon
    <3>6. sop' = NextFirst'
      BY <2>4, <2>6, <3>1, <3>5, Zenon DEF NextFirst
    <3> QED BY <3>6, <2>a, <2>b, <1>c, Zenon DEF FlagInv
  <2>8. CASE Len(posted) # 1
    <3>1. /\ Len(posted') # 0 /\ posted'[1] = posted[2]
          /\ 2 \in 2..Len(posted) /\ 2 - 1 = 1
      BY <2>2, <2>5, <2>8, <1>t
    <3>2. posted[2].first = posted[1].last
      BY <3>1, <1>c, Zenon DEF Chained
    <3>3. sop' = NextFirst'
      BY <2>4, <2>6, <3>1, <3>2, Zenon DEF NextFirst
    <3> QED BY <3>3, <2>a, <2>b, <1>c, Zenon DEF FlagInv
  <2> QED BY <2>7, <2>8
<1>6. CASE \/ SendHeader \/ CopyPiece \/ (\E n \in 1..SockRoom : SendSome(n))
           \/ EndSession \/ ClientReceives \/ SendEcho \/ UNCHANGED t2hVars
  <2>1. posted' = posted /\ open' = open /\ sop' = sop /\ torn' = torn /\ seg' = seg
    BY <1>6 DEF SendHeader, CopyPiece, SendSome, EndSession, ClientReceives,
                SendEcho, t2hVars, ipVars, sendVars
  <2> QED BY <2>1, <1>c, Zenon DEF FlagInv, NextFirst, Idle
<1> QED BY <1>1, <1>2, <1>3, <1>4, <1>5, <1>6 DEF T2HNext

----------------------------------------------------------------------------
(* The invariant *)

LEMMA PathInit ==
  ASSUME T2HInit
  PROVE  PathInv
<1> USE DEF T2HInit
<1>1. posted \in Seq(SegType) /\ Len(posted) = 0 /\ todo \in Seq(PieceType)
      /\ buff \in Seq(0..MaxSegs) /\ Len(buff) = 0
  BY EmptySeq
<1>2. mem \in [0..(Span - 1) -> 0..MaxSegs] /\ popped \in 0..Len(posted)
      /\ made \in 0..MaxSegs /\ sock \in 0..SockRoom
  BY <1>1, T2HAssumption
<1>3. seg.header \in HeaderType
  BY DEF NoSeg, Header, HeaderType
<1>4. open \in BOOLEAN /\ sop \in BOOLEAN /\ torn \in BOOLEAN
  BY Zenon
<1>5. T2HTypeOK
  <2>1. at \in {"off", "idle", "header", "copy", "send", "complete"}
    OBVIOUS
  <2> QED BY <1>1, <1>2, <1>3, <1>4, <2>1, Zenon DEF T2HTypeOK
<1>6. HoldInv
  BY DEF HoldInv, Idle, Busy
<1>7. MemInv
  BY <1>1 DEF MemInv
<1>8. WorkInv
  BY DEF WorkInv
<1>9. FlagInv
  <2>1. Chained
    BY <1>1 DEF Chained
  <2>2. Idle /\ NextFirst = ~open
    BY <1>1, Zenon DEF Idle, NextFirst
  <2> QED BY <2>1, <2>2, Zenon DEF FlagInv
<1> QED BY <1>5, <1>6, <1>7, <1>8, <1>9 DEF PathInv

LEMMA PathStep ==
  ASSUME PathInv, [T2HNext]_t2hVars
  PROVE  PathInv'
BY TypesStep, HoldStep, MemStep, WorkStep, FlagStep DEF PathInv

\* Every reachable state satisfies the invariant.
THEOREM PathInvariant == T2HSpec => []PathInv
<1>1. T2HInit => PathInv
  BY PathInit
<1>2. PathInv /\ [T2HNext]_t2hVars => PathInv'
  BY PathStep
<1> QED BY <1>1, <1>2, PTL DEF T2HSpec

\* The memory, the descriptors, the pieces and the flags have their types.
THEOREM T2HTyped == T2HSpec => []T2HTypeOK
<1>1. PathInv => T2HTypeOK
  BY DEF PathInv
<1> QED BY <1>1, PathInvariant, PTL

LEMMA InvKept ==
  ASSUME PathInv
  PROVE  SegmentKept
<1> SUFFICES ASSUME Busy PROVE SegmentKept
  BY DEF SegmentKept
<1>1. ~Idle
  BY DEF PathInv, HoldInv
<1>2. posted # <<>> /\ posted[1].id = seg.id /\ 1 \in 1..Len(posted)
      /\ seg.where = posted[1].where /\ seg.len = posted[1].len
  BY <1>1, InHand DEF PathInv
<1>3. \A c \in Cells(seg.where, seg.len) : mem[c] = seg.id
  BY <1>2 DEF PathInv, MemInv
<1>4. \A b \in DOMAIN buff : buff[b] = seg.id
  <2>1. CASE at = "send"
    BY <2>1 DEF PathInv, WorkInv
  <2>2. CASE at # "send"
    <3>1. Len(buff) = 0 /\ DOMAIN buff = 1..Len(buff)
      BY <2>2, LenProperties DEF Busy, PathInv, WorkInv, T2HTypeOK
    <3> QED BY <3>1
  <2> QED BY <2>1, <2>2
<1> QED BY <1>2, <1>3, <1>4 DEF SegmentKept

\* A segment stays in memory, whole, until its last word has been sent.
THEOREM KeptUntilSent == T2HSpec => []SegmentKept
<1>1. PathInv => SegmentKept
  BY InvKept
<1> QED BY <1>1, PathInvariant, PTL

\* Headers mark the start of a packet where it is, but for the one cut by a reset.
THEOREM StartsMarked == T2HSpec => []StartMarked
<1>1. ASSUME PathInv PROVE StartMarked
  <2>1. Busy => ~Idle
    BY <1>1 DEF PathInv, HoldInv
  <2>2. ~Idle => seg.header.sop = (seg.first /\ ~torn)
    BY <1>1, Zenon DEF PathInv, FlagInv
  <2> QED BY <2>1, <2>2, Zenon DEF StartMarked
<1> QED BY <1>1, PathInvariant, PTL

----------------------------------------------------------------------------
(* The refinement of SegmentStream *)

Entry(s) == [id |-> s.id, len |-> s.len, first |-> s.first, last |-> s.last]
EntryType == [id : 1..MaxSegs, len : Lens, first : BOOLEAN, last : BOOLEAN]

\* Whether the packet of the segment delivered last goes on.
Mid == ~(IF seg = NoSeg THEN sop ELSE seg.header.sop)

LEMMA EntryIs ==
  ASSUME NEW s \in SegType
  PROVE  Entry(s) \in EntryType
BY DEF Entry, EntryType, SegType

\* segmentQueue is the image of the descriptors.
Queue(p) == [k \in 1..Len(p) |-> Entry(p[k])]

LEMMA QueueIs ==
  ASSUME NEW p \in Seq(SegType)
  PROVE  /\ Queue(p) \in Seq(EntryType) /\ Len(Queue(p)) = Len(p)
         /\ \A k \in 1..Len(p) : Queue(p)[k] = Entry(p[k])
<1>1. \A k \in 1..Len(p) : p[k] \in SegType
  OBVIOUS
<1>2. Queue(p) = [k \in 1..Len(p) |-> Entry(p[k])]
  BY DEF Queue
<1>3. Queue(p) \in [1..Len(p) -> EntryType] /\ Len(p) \in Nat
  <2>1. \A k \in 1..Len(p) : Entry(p[k]) \in EntryType
    BY <1>1, EntryIs
  <2> HIDE DEF EntryType
  <2> QED BY <2>1, <1>2
<1>4. Queue(p) \in Seq(EntryType)
  BY <1>3, SeqDef
<1>5. Len(Queue(p)) = Len(p)
  BY <1>2, <1>3
<1> QED BY <1>2, <1>4, <1>5

LEMMA QueueOf == segmentQueue = Queue(posted) /\ segmentQueue' = Queue(posted')
BY DEF segmentQueue, Queue, Entry

LEMMA PostProduces ==
  ASSUME T2HTypeOK, HoldInv, posted' \in Seq(SegType),
         NEW where \in 0..(Span - 1), NEW len \in Lens, NEW last \in BOOLEAN,
         Post(where, len, last)
  PROVE  Stream!Produce(len, ~open, last)
<1> DEFINE s == [id |-> made + 1, where |-> where, len |-> len, first |-> ~open, last |-> last]
           e == [id |-> made + 1, len |-> len, first |-> ~open, last |-> last]
<1>t. posted \in Seq(SegType) /\ popped \in {0, 1}
  BY DEF T2HTypeOK, HoldInv
<1>1. /\ posted' = Append(posted, s) /\ made' = made + 1 /\ Len(posted) - popped < Depth
      /\ seg' = seg /\ sop' = sop /\ got' = got /\ torn' = torn
  BY DEF Post, sendVars
<1>2. s \in SegType
  BY T2HAssumption DEF T2HTypeOK, SegType, Post
<1>3. Entry(s) = e
  BY DEF Entry
<1>4. Entry(s) \in EntryType
  BY <1>2, EntryIs
<1> HIDE DEF s, e
<1>5. /\ Len(posted') = Len(posted) + 1 /\ posted'[Len(posted) + 1] = s
      /\ \A k \in 1..Len(posted) : posted'[k] = posted[k]
  BY <1>1, <1>2, <1>t, AppendProperties
<1>6. /\ segmentQueue \in Seq(EntryType) /\ Len(segmentQueue) = Len(posted)
      /\ \A k \in 1..Len(posted) : segmentQueue[k] = Entry(posted[k])
  BY <1>t, QueueIs, QueueOf
<1>7. /\ segmentQueue' \in Seq(EntryType) /\ Len(segmentQueue') = Len(posted')
      /\ \A k \in 1..Len(posted') : segmentQueue'[k] = Entry(posted'[k])
  BY QueueIs, QueueOf
<1>8. segmentQueue' = Append(segmentQueue, e)
  <2>1. /\ Append(segmentQueue, e) \in Seq(EntryType)
        /\ Len(Append(segmentQueue, e)) = Len(segmentQueue) + 1
        /\ \A k \in 1..Len(segmentQueue) : Append(segmentQueue, e)[k] = segmentQueue[k]
        /\ Append(segmentQueue, e)[Len(segmentQueue) + 1] = e
    BY <1>3, <1>4, <1>6, AppendProperties
  <2>2. \A k \in 1..Len(segmentQueue') : segmentQueue'[k] = Append(segmentQueue, e)[k]
    <3> SUFFICES ASSUME NEW k \in 1..Len(segmentQueue')
                 PROVE  segmentQueue'[k] = Append(segmentQueue, e)[k]
      OBVIOUS
    <3>0. segmentQueue'[k] = Entry(posted'[k])
      BY <1>7
    <3>1. CASE k \in 1..Len(posted)
      BY <3>0, <3>1, <2>1, <1>5, <1>6
    <3>2. CASE k = Len(posted) + 1
      BY <3>0, <3>2, <2>1, <1>3, <1>5, <1>6
    <3>3. k \in 1..Len(posted) \/ k = Len(posted) + 1
      BY <1>5, <1>7, <1>t
    <3> QED BY <3>1, <3>2, <3>3, Zenon
  <2>3. Len(segmentQueue') = Len(Append(segmentQueue, e))
    BY <2>1, <1>5, <1>6, <1>7
  <2> QED BY <2>1, <2>2, <2>3, <1>7, SeqEqual
<1>9. Len(segmentQueue) < Depth + 1
  BY <1>t, <1>1, <1>6, T2HAssumption
<1>10. Mid' = Mid
  BY <1>1, Zenon DEF Mid
<1> QED BY <1>1, <1>8, <1>9, <1>10 DEF Stream!Produce, e, Mid

\* The queue is empty when no descriptor is posted.
LEMMA QueueEmpty == Queue(<<>>) = <<>>
<1>1. <<>> \in Seq(SegType) /\ Len(<<>>) = 0
  BY EmptySeq
<1>2. Queue(<<>>) \in Seq(EntryType) /\ Len(Queue(<<>>)) = 0
  BY <1>1, QueueIs
<1> QED BY <1>2, EmptySeq

LEMMA CompleteDelivers ==
  ASSUME PathInv, posted' \in Seq(SegType), t2h_data_complete
  PROVE  Stream!Deliver
<1> DEFINE h == Head(segmentQueue)
<1>t. posted \in Seq(SegType)
  BY DEF PathInv, T2HTypeOK
<1>1. /\ at = "complete" /\ posted' = Tail(posted) /\ seg' = NoSeg
      /\ got' = wire /\ sop' = sop /\ torn' = FALSE /\ made' = made
  BY DEF t2h_data_complete
<1>2. ~Idle
  BY <1>1 DEF Busy, PathInv, HoldInv
<1>3. /\ posted # <<>> /\ Len(posted) \in Nat \ {0} /\ posted[1] \in SegType
      /\ seg.id = posted[1].id /\ seg.len = posted[1].len /\ seg.len \in 1..Span
      /\ seg.first = posted[1].first /\ seg.last = posted[1].last
      /\ seg.header = Header(seg.len, seg.header.sop, seg.last)
  BY <1>2, InHand DEF PathInv
<1>4. /\ segmentQueue \in Seq(EntryType) /\ Len(segmentQueue) = Len(posted)
      /\ \A k \in 1..Len(posted) : segmentQueue[k] = Entry(posted[k])
  BY <1>t, QueueIs, QueueOf
<1>5. segmentQueue # <<>> /\ h = Entry(posted[1])
  <2>1. segmentQueue # <<>>
    BY <1>3, <1>4, EmptySeq
  <2> HIDE DEF EntryType
  <2>2. Head(segmentQueue) = segmentQueue[1]
    BY <1>4, <2>1
  <2> QED BY <2>1, <2>2, <1>3, <1>4
<1>6. h.id = seg.id /\ h.len = seg.len /\ h.first = seg.first /\ h.last = seg.last
  BY <1>3, <1>5 DEF Entry
<1>7. got' = <<seg.header>> \o [b \in 1..seg.len |-> seg.id]
  <2>1. Framed /\ Len(buff) = 0 /\ Len(todo) = 0
    BY <1>1 DEF PathInv, WorkInv
  <2>2. Uncopied = 0 /\ seg.len - Len(buff) - Uncopied = seg.len
    BY <2>1, <1>3, T2HAssumption DEF Uncopied
  <2>3. wire = Frame(seg.len)
    BY <2>1, <2>2 DEF Framed
  <2>4. seg.len \in Nat
    BY <1>3, T2HAssumption
  <2> QED BY <1>1, <2>3, <2>4, FrameIs
<1>8. seg.header.sop = (seg.first /\ ~torn) /\ sop = seg.last
  BY <1>2, Zenon DEF PathInv, FlagInv
<1>9. seg.header = Stream!Header(h.len, h.first /\ ~torn, h.last)
  <2>1. seg.header.sop = (h.first /\ ~torn)
    BY <1>6, <1>8, Zenon
  <2>2. seg.header = Header(h.len, seg.header.sop, h.last)
    BY <1>3, <1>6
  <2>3. Header(h.len, seg.header.sop, h.last) = Header(h.len, h.first /\ ~torn, h.last)
    BY <2>1, Zenon
  <2> QED BY <2>2, <2>3, Zenon DEF Header, Stream!Header
<1>10. Mid' = ~h.last
  <2>1. Mid' = ~sop
    BY <1>1, Zenon DEF Mid
  <2> QED BY <2>1, <1>6, <1>8, Zenon
<1>11. segmentQueue' = Tail(segmentQueue)
  <2>1. Len(posted') = Len(posted) - 1 /\ \A k \in 1..Len(posted') : posted'[k] = posted[k + 1]
    BY <1>1, <1>3, <1>t, HeadTailProperties
  <2>2. /\ segmentQueue' \in Seq(EntryType) /\ Len(segmentQueue') = Len(posted')
        /\ \A k \in 1..Len(posted') : segmentQueue'[k] = Entry(posted'[k])
    BY QueueIs, QueueOf
  <2>3. /\ Tail(segmentQueue) \in Seq(EntryType)
        /\ Len(Tail(segmentQueue)) = Len(segmentQueue) - 1
        /\ \A k \in 1..Len(Tail(segmentQueue)) : Tail(segmentQueue)[k] = segmentQueue[k + 1]
    BY <1>4, <1>5, HeadTailProperties
  <2>4. \A k \in 1..Len(posted') : k + 1 \in 1..Len(posted)
    BY <2>1, <1>3
  <2>5. Len(segmentQueue') = Len(Tail(segmentQueue))
    BY <2>1, <2>2, <2>3, <1>4
  <2>6. \A k \in 1..Len(segmentQueue') : segmentQueue'[k] = Tail(segmentQueue)[k]
    BY <2>1, <2>2, <2>3, <2>4, <2>5, <1>4
  <2> QED BY <2>2, <2>3, <2>5, <2>6, SeqEqual
<1>12. got' = <<Stream!Header(h.len, h.first /\ ~torn, h.last)>> \o [b \in 1..h.len |-> h.id]
  BY <1>6, <1>7, <1>9, Zenon
<1> QED BY <1>1, <1>5, <1>10, <1>11, <1>12, Zenon DEF Stream!Deliver, Mid

\* Every step is a step of the stream or leaves it alone.
LEMMA RefineStep ==
  ASSUME PathInv, PathInv', [T2HNext]_t2hVars
  PROVE  [Stream!Next]_(Stream!vars)
<1>t. posted \in Seq(SegType) /\ posted' \in Seq(SegType) /\ popped \in 0..Len(posted)
  BY DEF PathInv, T2HTypeOK
<1>b. open \in BOOLEAN /\ sop \in BOOLEAN
  BY DEF PathInv, T2HTypeOK
<1>1. ASSUME NEW where \in 0..(Span - 1), NEW len \in Lens, NEW last \in BOOLEAN,
             Post(where, len, last)
      PROVE  Stream!Next
  <2>1. Stream!Produce(len, ~open, last)
    BY <1>1, <1>t, PostProduces DEF PathInv
  <2>2. (~open) \in BOOLEAN
    OBVIOUS
  <2> QED BY <2>1, <2>2, Zenon DEF Stream!Next
<1>2. CASE init_driver
  <2>1. posted' = <<>> /\ seg' = NoSeg /\ made' = made /\ got' = got
    BY <1>2 DEF init_driver, IpReset
  <2>2. sop' = TRUE /\ torn' = FALSE
    BY <1>2, Zenon DEF init_driver
  <2>3. segmentQueue' = <<>>
    BY <2>1, QueueEmpty, QueueOf
  <2>4. Mid' = FALSE
    BY <2>1, <2>2, Zenon DEF Mid
  <2> QED BY <2>1, <2>2, <2>3, <2>4, Zenon DEF Stream!Next, Stream!NewClient, Mid
<1>3. CASE set_loopback_mode
  <2>1. at = "idle" /\ posted' = <<>> /\ seg' = seg /\ made' = made /\ got' = got
    BY <1>3 DEF set_loopback_mode, IpReset, sendVars
  <2>2. sop' = sop /\ torn' = ~sop
    BY <1>3, Zenon DEF set_loopback_mode
  <2>3. segmentQueue' = <<>>
    BY <2>1, QueueEmpty, QueueOf
  <2>4. seg = NoSeg
    BY <2>1 DEF PathInv, HoldInv, Idle
  <2>5. torn' = Mid /\ Mid' = Mid
    BY <2>1, <2>2, <2>4, Zenon DEF Mid
  <2> QED BY <2>1, <2>3, <2>5, Zenon DEF Stream!Next, Stream!Reset, Mid
<1>4. CASE get_t2h_data
  <2>1. at = "idle" /\ posted' = posted /\ made' = made /\ got' = got /\ torn' = torn
    BY <1>4 DEF get_t2h_data
  <2>2. Idle /\ seg = NoSeg
    BY <2>1 DEF PathInv, HoldInv, Idle
  <2>3. seg'.header.sop = sop
    BY <1>4 DEF get_t2h_data, Header
  <2>4. ~Idle'
    BY <1>4 DEF get_t2h_data, PathInv, HoldInv, Busy
  <2>5. Mid' = Mid
    BY <2>2, <2>3, <2>4, Zenon DEF Mid, Idle
  <2>6. segmentQueue' = segmentQueue
    BY <2>1, QueueOf
  <2> QED BY <2>1, <2>5, <2>6, Zenon DEF Stream!vars, Mid
<1>5. CASE t2h_data_complete
  <2>1. Stream!Deliver
    BY <1>5, <1>t, CompleteDelivers
  <2> QED BY <2>1, Zenon DEF Stream!Next
<1>6. CASE \/ SendHeader \/ CopyPiece \/ (\E n \in 1..SockRoom : SendSome(n))
           \/ EndSession \/ ClientReceives \/ SendEcho \/ UNCHANGED t2hVars
  <2>1. posted' = posted /\ made' = made /\ got' = got /\ torn' = torn /\ seg' = seg /\ sop' = sop
    BY <1>6 DEF SendHeader, CopyPiece, SendSome, EndSession, ClientReceives, SendEcho,
                t2hVars, ipVars, sendVars
  <2>2. Mid' = Mid
    BY <2>1, Zenon DEF Mid
  <2>3. segmentQueue' = segmentQueue
    BY <2>1, QueueOf
  <2> QED BY <2>1, <2>2, <2>3, Zenon DEF Stream!vars, Mid
<1> QED BY <1>1, <1>2, <1>3, <1>4, <1>5, <1>6 DEF T2HNext

LEMMA RefineInit ==
  ASSUME T2HInit
  PROVE  Stream!Init
<1>1. posted = <<>> /\ made = 0 /\ got = <<>> /\ seg = NoSeg
  BY DEF T2HInit
<1>2. sop = TRUE /\ torn = FALSE
  BY Zenon DEF T2HInit
<1>3. segmentQueue = <<>>
  BY <1>1, QueueEmpty, QueueOf
<1>4. Mid = FALSE
  BY <1>1, <1>2, Zenon DEF Mid
<1> QED BY <1>1, <1>2, <1>3, <1>4, Zenon DEF Stream!Init, Mid

\* The driver and process_t2h_data implement the stream of segments.
THEOREM ImplementsStream == T2HSpec => DeliversStream
<1>1. T2HInit => Stream!Init
  BY RefineInit
<1>2. PathInv /\ PathInv' /\ [T2HNext]_t2hVars => [Stream!Next]_(Stream!vars)
  BY RefineStep
<1> QED BY <1>1, <1>2, PathInvariant, PTL DEF T2HSpec, DeliversStream, Stream!Spec
=============================================================================
