----------------------- MODULE HardwareSerialRxProofs -----------------------
(***************************************************************************)
(* read(), peek(), available() and the receive interrupt share the ring    *)
(* without a lock: nothing is read twice, out of order or before it came,  *)
(* and nothing that came is missed while there was room for it, for every  *)
(* ring of 2 to 256 slots, every depth of the UART and every number of     *)
(* arrivals.                                                               *)
(***************************************************************************)
EXTENDS HardwareSerialRx, DataLemmas

-----------------------------------------------------------------------------
\* The receiver's ring.

Content == RingContent(RxSize, head, tail, buf)

\* The operators of the receiver are those of a ring.
LEMMA RxRingIs ==
    /\ RxSize \in Nat \ {0} /\ RxSlots = RingSlots(RxSize)
    /\ [RxSlots -> Byte] = RingBuffers(RxSize, Byte)
    /\ \A i \in RxSlots : RxSucc(i) = RingSucc(RxSize, i) /\ RxSucc(i) \in RxSlots
<1>1. /\ RxSize \in Nat \ {0} /\ RxSlots = RingSlots(RxSize)
      /\ [RxSlots -> Byte] = RingBuffers(RxSize, Byte)
      /\ \A i \in RxSlots : RxSucc(i) = RingSucc(RxSize, i)
  BY RxSizeAssumption DEF RxSlots, RingSlots, RingBuffers, RxSucc, RingSucc
<1>2. \A i \in RxSlots : RxSucc(i) \in RxSlots
  BY <1>1, RingSuccWraps
<1> QED BY <1>1, <1>2

\* available() is how far the head is ahead of the tail.
LEMMA AvailableIs == Available = RingDistance(RxSize, head, tail)
BY DEF Available, RingDistance

\* What the invariant says of the bytes.
LEMMA InOrderIs ==
    ReadsInOrder <=>
        /\ stored = taken \o Content
        /\ pc = "r_store" => c = stored[Len(taken) + 1]
        /\ peeked # None => head # tail /\ buf[tail] = peeked
BY AvailableIs DEF ReadsInOrder, Content, RingContent, RingPlace

\* Storing a byte adds it to the whole.
LEMMA WholeGrows ==
    ASSUME NEW w \in Seq(Byte), NEW q \in Seq(Byte), NEW b \in Byte
    PROVE  Append(w \o q, b) = w \o Append(q, b)
<1>1. <<b>> \in Seq(Byte) /\ Append(q, b) = q \o <<b>> /\ w \o q \in Seq(Byte)
  BY ConcatProperties
<1>2. Append(w \o q, b) = (w \o q) \o <<b>>
  BY <1>1
<1> DEFINE e == <<b>>
<1> HIDE DEF e
<1>3. (w \o q) \o e = w \o (q \o e)
  BY <1>1, ConcatAssociative DEF e
<1> QED BY <1>1, <1>2, <1>3 DEF e

\* Taking the first byte moves it from what is queued to what was read.
LEMMA WholeMoves ==
    ASSUME NEW w \in Seq(Byte), NEW q \in Seq(Byte), NEW b \in Byte
    PROVE  w \o (<<b>> \o q) = Append(w, b) \o q
<1>1. <<b>> \in Seq(Byte) /\ Append(w, b) = w \o <<b>>
  BY ConcatProperties
<1> DEFINE e == <<b>>
<1> HIDE DEF e
<1>2. (w \o e) \o q = w \o (e \o q)
  BY <1>1, ConcatAssociative DEF e
<1> QED BY <1>1, <1>2 DEF e

-----------------------------------------------------------------------------
\* The bytes of the frames in the UART.

ByteOf(f) == IF f.parityError THEN <<>> ELSE <<f.byte>>
Packets(q) == [k \in 1 .. Len(q) |-> IF q[k].parityError THEN <<>> ELSE <<q[k].byte>>]

\* Every frame gives a packet of at most one byte.
LEMMA PacketsAre ==
    ASSUME NEW q \in Seq(Frame)
    PROVE  /\ Packets(q) \in Seq(Seq(Byte)) /\ Len(Packets(q)) = Len(q)
           /\ \A k \in 1 .. Len(q) : q[k] \in Frame /\ Packets(q)[k] = ByteOf(q[k])
           /\ Intact(q) = FlattenSeq(Packets(q)) /\ Intact(q) \in Seq(Byte)
<1>1. Len(q) \in Nat /\ \A k \in 1 .. Len(q) : q[k] \in Frame
  OBVIOUS
<1>2. \A f \in Frame : ByteOf(f) \in Seq(Byte)
  BY DEF ByteOf, Frame
<1>3. \A k \in 1 .. Len(q) : Packets(q)[k] = ByteOf(q[k])
  BY DEF Packets, ByteOf
<1>4. Packets(q) \in [1 .. Len(q) -> Seq(Byte)]
  <2>1. Packets(q) = [k \in 1 .. Len(q) |-> ByteOf(q[k])]
    BY DEF Packets, ByteOf
  <2> QED BY <1>1, <1>2, <2>1
<1>5. Packets(q) \in Seq(Seq(Byte)) /\ Len(Packets(q)) = Len(q)
  BY <1>1, <1>4
<1>6. Intact(q) = FlattenSeq(Packets(q))
  BY DEF Intact, Packets
<1>7. Intact(q) \in Seq(Byte)
  BY <1>5, <1>6, FlattenType
<1> QED BY <1>1, <1>3, <1>5, <1>6, <1>7

\* No frames, and one.
LEMMA IntactEmpty == Intact(<<>>) = <<>>
<1>1. <<>> \in Seq(Frame) /\ Len(<<>>) = 0
  OBVIOUS
<1>2. Packets(<<>>) = <<>>
  BY <1>1, PacketsAre, EmptySeq
<1> QED BY <1>1, <1>2, PacketsAre, FlattenEmpty

LEMMA IntactOne ==
    ASSUME NEW f \in Frame
    PROVE  Intact(<<f>>) = ByteOf(f) /\ Intact(<<f>>) \in Seq(Byte)
<1>1. PICK q \in Seq(Frame) : q = <<f>> /\ Len(q) = 1 /\ q[1] = f
  <2>1. <<f>> \in Seq(Frame) /\ Len(<<f>>) = 1 /\ <<f>>[1] = f
    OBVIOUS
  <2> QED BY <2>1
<1>2. /\ Packets(q) \in Seq(Seq(Byte)) /\ Len(Packets(q)) = 1 /\ Packets(q)[1] = ByteOf(f)
      /\ Intact(q) = FlattenSeq(Packets(q)) /\ Intact(q) \in Seq(Byte)
  <2>1. 1 \in 1 .. Len(q)
    BY <1>1
  <2>2. /\ Packets(q) \in Seq(Seq(Byte)) /\ Len(Packets(q)) = Len(q)
        /\ Packets(q)[1] = ByteOf(q[1])
        /\ Intact(q) = FlattenSeq(Packets(q)) /\ Intact(q) \in Seq(Byte)
    BY <2>1, PacketsAre
  <2> QED BY <1>1, <2>2
<1>3. PICK x \in Seq(Byte) : x = ByteOf(f)
  <2>1. ByteOf(f) \in Seq(Byte)
    BY DEF ByteOf, Frame
  <2> QED BY <2>1
<1>4. Packets(q) = <<x>>
  <2>1. <<x>> \in Seq(Seq(Byte)) /\ Len(<<x>>) = 1 /\ <<x>>[1] = x
    OBVIOUS
  <2> QED BY <1>2, <1>3, <2>1, SeqEqual
<1>5. FlattenSeq(<<x>>) = x
  BY FlattenOne
<1> QED BY <1>1, <1>2, <1>3, <1>4, <1>5

\* A frame behind the others.
LEMMA IntactAppend ==
    ASSUME NEW q \in Seq(Frame), NEW f \in Frame
    PROVE  Intact(Append(q, f)) = Intact(q) \o Intact(<<f>>)
<1>1. PICK p \in Seq(Frame) :
        /\ p = Append(q, f) /\ Len(p) = Len(q) + 1 /\ p[Len(q) + 1] = f
        /\ \A k \in 1 .. Len(q) : p[k] = q[k]
  <2>1. /\ Append(q, f) \in Seq(Frame) /\ Len(Append(q, f)) = Len(q) + 1
        /\ Append(q, f)[Len(q) + 1] = f
        /\ \A k \in 1 .. Len(q) : Append(q, f)[k] = q[k]
    BY AppendProperties
  <2> QED BY <2>1
<1>2. PICK x \in Seq(Byte) : x = ByteOf(f)
  BY IntactOne
<1>3. /\ Packets(q) \in Seq(Seq(Byte)) /\ Len(Packets(q)) = Len(q) /\ Len(q) \in Nat
      /\ \A k \in 1 .. Len(q) : Packets(q)[k] = ByteOf(q[k])
  BY PacketsAre
<1>4. /\ Packets(p) \in Seq(Seq(Byte)) /\ Len(Packets(p)) = Len(q) + 1
      /\ \A k \in 1 .. Len(q) + 1 : Packets(p)[k] = ByteOf(p[k])
  BY <1>1, PacketsAre
<1>5. PICK r \in Seq(Seq(Byte)) :
        /\ r = Append(Packets(q), x) /\ Len(r) = Len(q) + 1 /\ r[Len(q) + 1] = x
        /\ \A k \in 1 .. Len(q) : r[k] = Packets(q)[k]
  <2>1. PICK y \in Seq(Seq(Byte)) : y = Packets(q)
    BY <1>3
  <2>2. /\ Append(y, x) \in Seq(Seq(Byte)) /\ Len(Append(y, x)) = Len(y) + 1
        /\ Append(y, x)[Len(y) + 1] = x
        /\ \A k \in 1 .. Len(y) : Append(y, x)[k] = y[k]
    BY AppendProperties
  <2> QED BY <1>3, <2>1, <2>2
<1>6. \A k \in 1 .. Len(q) + 1 : Packets(p)[k] = r[k]
  <2> SUFFICES ASSUME NEW k \in 1 .. Len(q) + 1 PROVE Packets(p)[k] = r[k]
    OBVIOUS
  <2>1. CASE k = Len(q) + 1
    BY <1>1, <1>2, <1>4, <1>5, <2>1
  <2>2. CASE k # Len(q) + 1
    <3>1. k \in 1 .. Len(q)
      BY <1>3, <2>2
    <3> QED BY <1>1, <1>3, <1>4, <1>5, <3>1
  <2> QED BY <2>1, <2>2
<1>7. Packets(p) = r
  BY <1>4, <1>5, <1>6, SeqEqual
<1>8. FlattenSeq(r) = FlattenSeq(Packets(q)) \o x
  BY <1>3, <1>5, FlattenAppend
<1> QED BY <1>1, <1>2, <1>7, <1>8, PacketsAre, IntactOne

\* The first frame, and the rest.
LEMMA IntactHead ==
    ASSUME NEW q \in Seq(Frame), q # <<>>
    PROVE  Intact(q) = Intact(<<Head(q)>>) \o Intact(Tail(q))
<1>1. /\ Len(q) \in Nat \ {0} /\ Head(q) = q[1] /\ Head(q) \in Frame
      /\ Tail(q) \in Seq(Frame) /\ Len(Tail(q)) = Len(q) - 1
      /\ \A k \in 1 .. Len(q) - 1 : Tail(q)[k] = q[k + 1]
  BY EmptySeq, HeadTailProperties
<1>2. PICK t \in Seq(Frame) : t = Tail(q)
  BY <1>1
<1>3. /\ Packets(q) \in Seq(Seq(Byte)) /\ Len(Packets(q)) = Len(q)
      /\ \A k \in 1 .. Len(q) : Packets(q)[k] = ByteOf(q[k])
  BY PacketsAre
<1>4. /\ Packets(t) \in Seq(Seq(Byte)) /\ Len(Packets(t)) = Len(t)
      /\ \A k \in 1 .. Len(t) : Packets(t)[k] = ByteOf(t[k])
  BY PacketsAre
<1>5. /\ Packets(q) # <<>> /\ Head(Packets(q)) = ByteOf(Head(q))
      /\ Tail(Packets(q)) \in Seq(Seq(Byte)) /\ Len(Tail(Packets(q))) = Len(q) - 1
      /\ \A k \in 1 .. Len(q) - 1 : Tail(Packets(q))[k] = Packets(q)[k + 1]
  BY <1>1, <1>3, EmptySeq, HeadTailProperties
<1>6. Tail(Packets(q)) = Packets(t)
  <2>1. \A k \in 1 .. Len(q) - 1 : Tail(Packets(q))[k] = Packets(t)[k]
    <3> SUFFICES ASSUME NEW k \in 1 .. Len(q) - 1
                 PROVE  Tail(Packets(q))[k] = Packets(t)[k]
      OBVIOUS
    <3>1. k + 1 \in 1 .. Len(q) /\ k \in 1 .. Len(t)
      BY <1>1, <1>2
    <3> QED BY <1>1, <1>2, <1>3, <1>4, <1>5, <3>1
  <2> QED BY <1>1, <1>2, <1>4, <1>5, <2>1, SeqEqual
<1>7. FlattenSeq(Packets(q)) = Head(Packets(q)) \o FlattenSeq(Tail(Packets(q)))
  BY <1>3, <1>5, FlattenHead
<1> QED BY <1>1, <1>2, <1>5, <1>6, <1>7, PacketsAre, IntactOne

-----------------------------------------------------------------------------
\* The invariant.  ReadsInOrder is not inductive as it stands: the byte that
\* read() and peek() have found must stay the ring's first, and a port that is
\* closed has an empty ring.

Ending == pc \in {"e_rxcie", "e_clear"}

RxInv ==
    /\ RxTypeOK
    /\ stored = taken \o Content
    /\ pc \in {"r_load", "r_store", "p_load"} => head # tail
    /\ pc = "r_store" => c = buf[tail]
    /\ peeked # None => head # tail /\ buf[tail] = peeked
    /\ ready <= Available
    /\ ~ rxen => fifo = <<>>
    /\ ~ rxen /\ ~ Ending => head = tail
    /\ pc = "b_rxcie" => rxen

\* The receiver starts with an empty ring.
LEMMA RxInitInv == RxInit => RxInv
<1> SUFFICES ASSUME RxInit PROVE RxInv
  OBVIOUS
<1>1. RxTypeOK
  <2>1. 0 \in RxSlots /\ 0 \in 0 .. RxSize - 1 /\ <<>> \in Seq(Frame) /\ Len(<<>>) <= FifoDepth
        /\ <<>> \in Seq(Byte)
    BY RxSizeAssumption, FifoDepthAssumption DEF RxSlots
  <2>2. buf \in [RxSlots -> Byte] /\ c \in Byte
    BY DEF RxInit
  <2> QED BY <2>1, <2>2 DEF RxInit, RxTypeOK, RxPcs
<1>2. Content = <<>>
  <2>1. head = tail /\ head \in RingSlots(RxSize) /\ buf \in RingBuffers(RxSize, Byte)
    BY <1>1, RxRingIs, Zenon DEF RxInit, RxTypeOK
  <2> QED BY <2>1, RxRingIs, RingContentEmpty DEF Content
<1>3. Available = 0
  <2>1. head \in RingSlots(RxSize) /\ tail = head
    BY <1>1, RxRingIs DEF RxInit, RxTypeOK
  <2> QED BY <2>1, RxRingIs, RingDistanceSteps, AvailableIs
<1> QED BY <1>1, <1>2, <1>3, ConcatEmptySeq DEF RxInit, RxInv, Ending

\* The facts about the ring that the steps use.
LEMMA RingFacts ==
    ASSUME RxTypeOK
    PROVE  /\ head \in RxSlots /\ tail \in RxSlots
           /\ head \in RingSlots(RxSize) /\ tail \in RingSlots(RxSize)
           /\ buf \in RingBuffers(RxSize, Byte)
           /\ RxSize \in Nat \ {0}
           /\ buf[tail] \in Byte /\ buf[head] \in Byte
           /\ Content \in Seq(Byte) /\ Len(Content) = Available
           /\ Available \in 0 .. RxSize - 1
           /\ Available = 0 <=> head = tail
           /\ (Available = RxSize - 1) <=> (RxSucc(head) = tail)
<1>1. /\ head \in RxSlots /\ tail \in RxSlots /\ buf \in [RxSlots -> Byte]
  BY DEF RxTypeOK
<1>2. /\ head \in RingSlots(RxSize) /\ tail \in RingSlots(RxSize)
      /\ buf \in RingBuffers(RxSize, Byte) /\ RxSize \in Nat \ {0}
  BY <1>1, RxRingIs, Zenon
<1>3. /\ Content \in Seq(Byte) /\ Len(Content) = RingDistance(RxSize, head, tail)
  BY <1>2, RingContentIs DEF Content
<1>4. /\ RingDistance(RxSize, head, tail) \in 0 .. RxSize - 1
      /\ RingDistance(RxSize, head, tail) = 0 <=> head = tail
      /\ RingDistance(RxSize, head, tail) = RxSize - 1 <=> RingSucc(RxSize, head) = tail
  BY <1>2, RingDistanceIs, RingDistanceSteps
<1> QED BY <1>1, <1>2, <1>3, <1>4, RxRingIs, AvailableIs

\* The handler: what it stores follows what the ring holds, and the first byte
\* stays where it is.
LEMMA RxIrqInv ==
    ASSUME RxInv, RxIrq
    PROVE  RxInv'
<1>1. /\ RxTypeOK /\ stored = taken \o Content
      /\ ie /\ rxcie /\ fifo # <<>> /\ fifo' = Tail(fifo)
      /\ UNCHANGED <<tail, rxen, rxcie, arrived, ie, pc, c, ready, peeked, taken, line, behind>>
  BY DEF RxInv, RxIrq, rxSketch
<1>2. /\ fifo \in Seq(Frame) /\ Len(fifo) <= FifoDepth
      /\ Head(fifo) \in Frame /\ Tail(fifo) \in Seq(Frame)
      /\ Len(Tail(fifo)) <= FifoDepth
  <2>1. fifo \in Seq(Frame) /\ Len(fifo) <= FifoDepth /\ fifo # <<>>
    BY <1>1 DEF RxTypeOK
  <2>2. Head(fifo) \in Frame /\ Tail(fifo) \in Seq(Frame) /\ Len(Tail(fifo)) = Len(fifo) - 1
    BY <2>1
  <2> QED BY <2>1, <2>2, FifoDepthAssumption
<1>3. rxen
  BY <1>1 DEF RxInv
<1>4. CASE ~Head(fifo).parityError /\ RxSucc(head) # tail
  <2>1. /\ buf' = [buf EXCEPT ![head] = Head(fifo).byte]
        /\ head' = RxSucc(head)
        /\ stored' = Append(stored, Head(fifo).byte)
        /\ Head(fifo).byte \in Byte
    BY <1>2, <1>4 DEF RxIrq, Frame
  <2> DEFINE b == Head(fifo).byte
  <2> HIDE DEF b
  <2>2. /\ buf' = [buf EXCEPT ![head] = b] /\ stored' = Append(stored, b) /\ b \in Byte
    BY <2>1 DEF b
  <2>3. /\ head \in RxSlots /\ tail \in RxSlots /\ head' \in RxSlots
        /\ buf \in [RxSlots -> Byte] /\ buf' \in [RxSlots -> Byte]
        /\ head' = RingSucc(RxSize, head) /\ buf'[head] = b
    <3>1. head \in RxSlots /\ tail \in RxSlots /\ buf \in [RxSlots -> Byte]
      BY <1>1 DEF RxTypeOK
    <3>2. head' \in RxSlots /\ head' = RingSucc(RxSize, head)
      BY <2>1, <3>1, RxRingIs
    <3> QED BY <1>1, <2>2, <3>1, <3>2
  <2>4. /\ head \in RingSlots(RxSize) /\ tail \in RingSlots(RxSize)
        /\ RxSize \in Nat \ {0} /\ buf' \in RingBuffers(RxSize, Byte)
    <3>1. buf' \in RingBuffers(RxSize, Byte)
      <4> DEFINE f == buf'
      <4>1. f \in [RxSlots -> Byte]
        BY <2>3
      <4> HIDE DEF f
      <4>2. f \in RingBuffers(RxSize, Byte)
        BY <4>1, RxRingIs, Zenon
      <4> QED BY <4>2 DEF f
    <3> QED BY <1>1, <3>1, RingFacts
  <2>5. RingContent(RxSize, head', tail, buf')
          = Append(RingContent(RxSize, head, tail, buf'), buf'[head])
    <3>1. RingSucc(RxSize, head) # tail
      BY <1>4, <2>1, <2>3
    <3>2. RingContent(RxSize, RingSucc(RxSize, head), tail, buf')
            = Append(RingContent(RxSize, head, tail, buf'), buf'[head])
      BY <2>4, <3>1, RingContentAppends
    <3> QED BY <2>3, <3>2
  <2>6. RingContent(RxSize, head, tail, buf') = Content
    <3>1. \A i \in RingSlots(RxSize) : i # head => buf'[i] = buf[i]
      BY <2>2, <2>3, RxRingIs
    <3>2. RingContent(RxSize, head, tail, buf') = RingContent(RxSize, head, tail, buf)
      BY <2>4, <3>1, RingContentWithoutHead
    <3> QED BY <3>2 DEF Content
  <2>7. Content' = Append(Content, b)
    BY <1>1, <2>3, <2>5, <2>6 DEF Content
  <2>8. taken \in Seq(Byte) /\ Content \in Seq(Byte) /\ stored \in Seq(Byte)
    BY <1>1, RingFacts DEF RxTypeOK
  <2>9. stored' = taken' \o Content'
    BY <1>1, <2>2, <2>7, <2>8, WholeGrows
  <2>10. stored' \in Seq(Byte)
    BY <2>2, <2>8
  <2>11. Available' = Available + 1
    <3>1. RingDistance(RxSize, RingSucc(RxSize, head), tail)
            = RingDistance(RxSize, head, tail) + 1
      BY <1>4, <2>1, <2>3, <2>4, RingDistanceSteps
    <3> QED BY <1>1, <2>3, <3>1, AvailableIs DEF Available, RingDistance
  <2>12. RxTypeOK'
    BY <1>1, <1>2, <2>3, <2>10 DEF RxTypeOK
  <2>13. head' # tail' /\ (head # tail => buf'[tail'] = buf[tail])
    BY <1>1, <1>4, <2>1, <2>2, <2>3
  <2>14. Available \in Nat /\ ready \in Nat /\ ready' <= Available'
    BY <1>1, <2>11, RingFacts DEF RxInv, RxTypeOK
  <2> QED BY <1>1, <1>3, <2>9, <2>12, <2>13, <2>14 DEF RxInv, Ending
<1>5. CASE ~ (~Head(fifo).parityError /\ RxSucc(head) # tail)
  <2>1. UNCHANGED <<buf, head, stored>>
    BY <1>5 DEF RxIrq
  <2>2. Content' = Content /\ Available' = Available
    BY <1>1, <2>1 DEF Content, Available
  <2>3. RxTypeOK'
    BY <1>1, <1>2, <2>1 DEF RxTypeOK
  <2> QED BY <1>1, <1>3, <2>1, <2>2, <2>3 DEF RxInv, Ending
<1> QED BY <1>4, <1>5

\* read(): the copy, and the tail's move.
LEMMA ReadTakeInv ==
    ASSUME RxInv, ReadTake
    PROVE  RxInv'
<1>1. /\ RxTypeOK /\ stored = taken \o Content /\ head # tail
      /\ UNCHANGED <<head, buf, rxen, rxcie, fifo, arrived, ie, stored, line, behind>>
      /\ pc \in {"r_load", "r_store"}
  BY DEF RxInv, ReadTake, rxUart
<1>2. rxen
  BY <1>1 DEF RxInv, Ending
<1>3. CASE pc = "r_load"
  <2>1. c' = buf[tail] /\ pc' = "r_store" /\ UNCHANGED <<tail, taken, ready, peeked>>
    BY <1>3 DEF ReadTake
  <2>2. Content' = Content /\ Available' = Available
    BY <1>1, <2>1 DEF Content, Available
  <2>3. RxTypeOK'
    BY <1>1, <2>1, RingFacts DEF RxTypeOK, RxPcs
  <2> QED BY <1>1, <1>2, <2>1, <2>2, <2>3 DEF RxInv, Ending
<1>4. CASE pc = "r_store"
  <2>1. /\ tail' = RxSucc(tail) /\ taken' = Append(taken, c)
        /\ ready' = (IF ready > 0 THEN ready - 1 ELSE 0)
        /\ peeked' = None /\ pc' = "idle" /\ c' = c
        /\ c = buf[tail]
    BY <1>4 DEF ReadTake, RxInv
  <2>2. /\ head \in RingSlots(RxSize) /\ tail \in RingSlots(RxSize)
        /\ RxSize \in Nat \ {0} /\ buf \in RingBuffers(RxSize, Byte)
        /\ tail' = RingSucc(RxSize, tail) /\ tail' \in RxSlots
    BY <1>1, <2>1, RingFacts, RxRingIs
  <2>3. Content = <<buf[tail]>> \o Content'
    <3>1. RingContent(RxSize, head, tail, buf)
            = <<buf[tail]>> \o RingContent(RxSize, head, RingSucc(RxSize, tail), buf)
      BY <1>1, <2>2, RingContentFirst
    <3> QED BY <1>1, <2>2, <3>1 DEF Content
  <2>4. Content' \in Seq(Byte)
    <3>1. tail' \in RingSlots(RxSize)
      BY <2>2, RxRingIs
    <3>2. RingContent(RxSize, head, tail', buf) \in Seq(Byte)
      BY <2>2, <3>1, RingContentIs
    <3> QED BY <1>1, <3>2 DEF Content
  <2>5. taken \in Seq(Byte) /\ c \in Byte
    BY <1>1 DEF RxTypeOK
  <2>6. stored' = taken' \o Content'
    BY <1>1, <2>1, <2>3, <2>4, <2>5, WholeMoves
  <2>7. Available' = Available - 1
    <3>1. RingDistance(RxSize, head, RingSucc(RxSize, tail))
            = RingDistance(RxSize, head, tail) - 1
      BY <1>1, <2>2, RingDistanceSteps
    <3> QED BY <1>1, <2>2, <3>1 DEF Available, RingDistance
  <2>8. /\ ready \in 0 .. RxSize - 1 /\ Available \in 1 .. RxSize - 1
        /\ ready <= Available
    BY <1>1, RingFacts DEF RxInv, RxTypeOK
  <2>9. ready' \in 0 .. RxSize - 1 /\ ready' <= Available'
    BY <2>1, <2>7, <2>8, <2>2
  <2>10. RxTypeOK'
    <3>1. taken' \in Seq(Byte)
      BY <2>1, <2>5
    <3> QED BY <1>1, <2>1, <2>2, <2>9, <3>1 DEF RxTypeOK, RxPcs
  <2> QED BY <1>1, <1>2, <2>1, <2>6, <2>9, <2>10 DEF RxInv, Ending
<1> QED BY <1>1, <1>3, <1>4

\* begin() and end() find or leave the ring empty.
LEMMA OpenCloseInv ==
    ASSUME RxInv, CallBegin \/ BeginEnableIrq \/ CallEnd \/ EndClear
    PROVE  RxInv'
<1>1. /\ RxTypeOK /\ stored = taken \o Content /\ UNCHANGED <<tail, buf, arrived, ie, c>>
  BY DEF RxInv, CallBegin, BeginEnableIrq, CallEnd, EndClear, rxRing
<1>2. <<>> \in Seq(Byte) /\ <<>> \in Seq(Frame) /\ Len(<<>>) <= FifoDepth
  BY FifoDepthAssumption
<1>3. head = tail => Content = <<>>
  BY <1>1, RingFacts, RingContentEmpty DEF Content
<1>4. CASE CallBegin
  <2>1. /\ head = tail /\ head' = head /\ stored' = <<>> /\ taken' = <<>>
        /\ line' = <<>> /\ behind' = FALSE
        /\ rxen' = TRUE /\ pc' = "b_rxcie" /\ UNCHANGED <<rxcie, fifo, ready, peeked>>
    BY <1>4 DEF CallBegin, RxInv, Ending, rxRing
  <2>2. Content' = <<>> /\ Available' = Available
    BY <1>1, <1>3, <2>1 DEF Content, Available
  <2>3. RxTypeOK'
    BY <1>1, <1>2, <2>1 DEF RxTypeOK, RxPcs
  <2> QED BY <1>1, <2>1, <2>2, <2>3, ConcatEmptySeq DEF RxInv, Ending
<1>5. CASE BeginEnableIrq
  <2>1. /\ UNCHANGED <<head, rxen, fifo, ready, peeked, stored, taken, line, behind>> /\ rxcie' = TRUE
        /\ pc' = "idle" /\ rxen
    BY <1>5 DEF BeginEnableIrq, rxRing, rxHistory, RxInv
  <2>2. Content' = Content /\ Available' = Available
    BY <1>1, <2>1 DEF Content, Available
  <2>3. RxTypeOK'
    BY <1>1, <2>1 DEF RxTypeOK, RxPcs
  <2> QED BY <1>1, <2>1, <2>2, <2>3 DEF RxInv, Ending
<1>6. CASE CallEnd
  <2>1. /\ UNCHANGED <<head, rxcie, ready, peeked, stored, taken, behind>> /\ rxen' = FALSE
        /\ line' = stored
        /\ fifo' = <<>> /\ pc' = "e_rxcie"
    BY <1>6 DEF CallEnd, rxRing, rxHistory
  <2>2. Content' = Content /\ Available' = Available
    BY <1>1, <2>1 DEF Content, Available
  <2>3. RxTypeOK'
    BY <1>1, <1>2, <2>1 DEF RxTypeOK, RxPcs
  <2> QED BY <1>1, <2>1, <2>2, <2>3 DEF RxInv, Ending
<1>7. CASE EndClear /\ pc = "e_rxcie"
  <2>1. /\ UNCHANGED <<head, rxen, fifo, ready, peeked, stored, taken, line, behind>> /\ rxcie' = FALSE
        /\ pc' = "e_clear"
    BY <1>7 DEF EndClear
  <2>2. Content' = Content /\ Available' = Available
    BY <1>1, <2>1 DEF Content, Available
  <2>3. RxTypeOK'
    BY <1>1, <2>1 DEF RxTypeOK, RxPcs
  <2> QED BY <1>1, <2>1, <2>2, <2>3 DEF RxInv, Ending
<1>8. CASE EndClear /\ pc = "e_clear"
  <2>1. /\ UNCHANGED <<rxen, rxcie, fifo, taken, behind>> /\ head' = tail /\ stored' = taken
        /\ line' = taken
        /\ ready' = 0 /\ peeked' = None /\ pc' = "idle"
    BY <1>8 DEF EndClear
  <2>2. taken \in Seq(Byte) /\ head' \in RxSlots /\ 0 \in 0 .. RxSize - 1
    BY <1>1, <2>1, RxSizeAssumption DEF RxTypeOK
  <2>3. RxTypeOK'
    BY <1>1, <2>1, <2>2 DEF RxTypeOK, RxPcs
  <2>4. Content' = <<>> /\ Available' = 0
    <3>1. tail \in RingSlots(RxSize) /\ buf \in RingBuffers(RxSize, Byte) /\ RxSize \in Nat \ {0}
      BY <1>1, RingFacts
    <3>2. RingContent(RxSize, tail, tail, buf) = <<>> /\ RingDistance(RxSize, tail, tail) = 0
      BY <3>1, RingContentEmpty, RingDistanceSteps
    <3> QED BY <1>1, <2>1, <3>2 DEF Content, Available, RingDistance
  <2>5. stored' = taken' \o Content'
    BY <2>1, <2>2, <2>4, ConcatEmptySeq
  <2> QED BY <1>1, <2>1, <2>3, <2>4, <2>5 DEF RxInv, Ending
<1> QED BY <1>4, <1>5, <1>6, <1>7, <1>8 DEF EndClear

\* The steps that leave the ring alone.
LEMMA RingKeptInv ==
    ASSUME RxInv, Arrive \/ CallAvailable \/ CallRead \/ CallPeek \/ PeekLoad
                  \/ ToggleInterrupts \/ UNCHANGED rxVars
    PROVE  RxInv'
<1>1. /\ RxTypeOK /\ UNCHANGED <<head, tail, buf, rxen, rxcie, c, stored, taken>>
  BY DEF RxInv, Arrive, CallAvailable, CallRead, CallPeek, PeekLoad, ToggleInterrupts,
         rxVars, rxRing, rxUart, rxSketch, rxHistory
<1>2. Content' = Content /\ Available' = Available
  BY <1>1 DEF Content, Available
<1>3. CASE Arrive
  <2>1. rxen /\ arrived' = arrived + 1 /\ UNCHANGED <<ie, pc, ready, peeked>>
    BY <1>3 DEF Arrive, rxSketch
  <2>2. fifo' \in Seq(Frame) /\ Len(fifo') <= FifoDepth
    <3>1. fifo \in Seq(Frame) /\ Len(fifo) <= FifoDepth /\ Len(fifo) \in Nat
      BY <1>1 DEF RxTypeOK
    <3>2. PICK f \in Frame :
            fifo' = IF Len(fifo) < FifoDepth THEN Append(fifo, f) ELSE fifo
      BY <1>3 DEF Arrive
    <3>3. Append(fifo, f) \in Seq(Frame) /\ Len(Append(fifo, f)) = Len(fifo) + 1
      BY <3>1
    <3> QED BY <3>1, <3>2, <3>3, FifoDepthAssumption
  <2>3. line' \in Seq(Byte) /\ behind' \in BOOLEAN
    <3>1. PICK f \in Frame :
            /\ line' = line \o Intact(<<f>>)
            /\ behind' = (behind \/ /\ ~f.parityError
                                    /\ \/ Len(fifo) >= FifoDepth
                                       \/ Len(line) >= Len(taken) + RxSize - 1)
      BY <1>3 DEF Arrive
    <3>2. line \in Seq(Byte) /\ Intact(<<f>>) \in Seq(Byte)
      BY <1>1, IntactOne DEF RxTypeOK
    <3>3. line' \in Seq(Byte)
      BY <3>1, <3>2, ConcatProperties
    <3>4. behind' \in BOOLEAN
      BY <3>1
    <3> QED BY <3>3, <3>4
  <2>4. RxTypeOK'
    BY <1>1, <2>1, <2>2, <2>3 DEF RxTypeOK
  <2> QED BY <1>1, <1>2, <2>1, <2>4 DEF RxInv, Ending
<1>4. CASE CallAvailable
  <2>1. ready' = Available /\ UNCHANGED <<fifo, arrived, ie, pc, peeked, line, behind>>
    BY <1>4 DEF CallAvailable, rxUart, rxHistory
  <2>2. Available \in 0 .. RxSize - 1
    BY <1>1, RingFacts
  <2>3. RxTypeOK'
    BY <1>1, <2>1, <2>2 DEF RxTypeOK
  <2>4. ready' <= Available'
    BY <1>2, <2>1, <2>2, RxSizeAssumption
  <2> QED BY <1>1, <1>2, <2>1, <2>3, <2>4 DEF RxInv, Ending
<1>5. CASE CallRead \/ CallPeek
  <2>1. /\ head # tail /\ pc' \in {"r_load", "p_load"} /\ pc = "idle"
        /\ UNCHANGED <<fifo, arrived, ie, ready, peeked, line, behind>>
    BY <1>5 DEF CallRead, CallPeek, rxUart, rxHistory
  <2>2. RxTypeOK'
    BY <1>1, <2>1 DEF RxTypeOK, RxPcs
  <2> QED BY <1>1, <1>2, <2>1, <2>2 DEF RxInv, Ending
<1>6. CASE PeekLoad
  <2>1. /\ pc = "p_load" /\ head # tail /\ peeked' = buf[tail] /\ pc' = "idle"
        /\ UNCHANGED <<fifo, arrived, ie, ready, line, behind>>
    BY <1>6 DEF PeekLoad, rxUart, rxHistory, RxInv
  <2>2. buf[tail] \in Byte
    BY <1>1, RingFacts
  <2>3. RxTypeOK'
    BY <1>1, <2>1, <2>2 DEF RxTypeOK, RxPcs
  <2> QED BY <1>1, <1>2, <2>1, <2>3 DEF RxInv, Ending
<1>7. CASE ToggleInterrupts
  <2>1. ie' = ~ie /\ UNCHANGED <<fifo, arrived, pc, ready, peeked, line, behind>>
    BY <1>7 DEF ToggleInterrupts, rxUart, rxHistory
  <2>2. RxTypeOK'
    BY <1>1, <2>1 DEF RxTypeOK
  <2> QED BY <1>1, <1>2, <2>1, <2>2 DEF RxInv, Ending
<1>8. CASE UNCHANGED rxVars
  BY <1>1, <1>2, <1>8 DEF RxInv, RxTypeOK, Ending, rxVars
<1> QED BY <1>3, <1>4, <1>5, <1>6, <1>7, <1>8

-----------------------------------------------------------------------------
\* The theorems.

\* The invariant holds whatever arrives and whatever the sketch calls.
THEOREM RxInvariant == RxSpec => []RxInv
<1>1. RxInit => RxInv
  BY RxInitInv
<1>2. RxInv /\ [RxNext]_rxVars => RxInv'
  BY RxIrqInv, ReadTakeInv, OpenCloseInv, RingKeptInv DEF RxNext
<1> QED BY <1>1, <1>2, PTL DEF RxSpec

\* Every variable of the receiver keeps its type: the indices stay in the ring
\* and available() below its size.
THEOREM RxTypeCorrect == RxSpec => []RxTypeOK
<1>1. RxInv => RxTypeOK
  BY DEF RxInv
<1> QED BY <1>1, RxInvariant, PTL

\* What was read and what is queued are what the handler stored, in order; the
\* byte read() holds while it moves the tail is the next one, and so is the one
\* peek() showed.
THEOREM BytesAreReadInOrder == RxSpec => []ReadsInOrder
<1>1. RxInv => ReadsInOrder
  <2> SUFFICES ASSUME RxInv PROVE ReadsInOrder
    OBVIOUS
  <2>1. ASSUME pc = "r_store" PROVE c = stored[Len(taken) + 1]
    <3>1. head # tail /\ c = buf[tail] /\ stored = taken \o Content /\ RxTypeOK
      BY <2>1 DEF RxInv
    <3>2. /\ taken \in Seq(Byte) /\ Content \in Seq(Byte)
          /\ Len(Content) \in Nat /\ Len(Content) >= 1
      BY <3>1, RingFacts DEF RxTypeOK
    <3>3. Content[1] = buf[tail]
      <4>1. RingPlace(RxSize, tail, 1) = tail
        BY <3>1, RingFacts, RingPlaceIs DEF RingSlots
      <4>2. Content[1] = buf[RingPlace(RxSize, tail, 1)]
        BY <3>1, <3>2, RingFacts, RingContentIs, AvailableIs DEF Content
      <4> QED BY <4>1, <4>2
    <3>4. (taken \o Content)[Len(taken) + 1] = Content[1]
      BY <3>2, ConcatProperties
    <3> QED BY <3>1, <3>3, <3>4
  <2> QED BY <2>1, InOrderIs DEF RxInv
<1> QED BY <1>1, RxInvariant, PTL

\* What available() reported can be read, however late.
THEOREM ReadyStays == RxSpec => []ReadyIsKept
<1>1. RxInv => ReadyIsKept
  BY DEF RxInv, ReadyIsKept
<1> QED BY <1>1, RxInvariant, PTL

-----------------------------------------------------------------------------
\* While nothing came without room for it, the ring has room for what waits in the
\* UART, and that is all that is not stored yet.
Closed == Ending => ~ rxen

LineInv ==
    ~behind => /\ line = stored \o Intact(fifo)
               /\ Len(line) <= Len(taken) + RxSize - 1

\* What the ring holds is what was stored and not taken.
LEMMA HeldIs ==
    ASSUME RxInv
    PROVE  /\ stored \in Seq(Byte) /\ taken \in Seq(Byte) /\ line \in Seq(Byte)
           /\ fifo \in Seq(Frame) /\ Intact(fifo) \in Seq(Byte)
           /\ Len(stored) = Len(taken) + Available
           /\ Len(stored) \in Nat /\ Len(taken) \in Nat /\ Len(line) \in Nat
           /\ Available \in 0 .. RxSize - 1 /\ RxSize \in Nat
           /\ (Available = RxSize - 1) <=> (RxSucc(head) = tail)
<1>1. /\ RxTypeOK /\ stored = taken \o Content
      /\ stored \in Seq(Byte) /\ taken \in Seq(Byte) /\ line \in Seq(Byte) /\ fifo \in Seq(Frame)
  BY DEF RxInv, RxTypeOK
<1>2. /\ Content \in Seq(Byte) /\ Len(Content) = Available
      /\ Available \in 0 .. RxSize - 1 /\ RxSize \in Nat
      /\ (Available = RxSize - 1) <=> (RxSucc(head) = tail)
  BY <1>1, RingFacts
<1>3. Len(stored) = Len(taken) + Available
  BY <1>1, <1>2, ConcatProperties
<1>4. Len(stored) \in Nat /\ Len(taken) \in Nat /\ Len(line) \in Nat
  BY <1>1, LenProperties
<1> QED BY <1>1, <1>2, <1>3, <1>4, PacketsAre

\* end() has closed the port before it clears the ring.
LEMMA ClosedStays ==
    ASSUME RxInv, Closed, [RxNext]_rxVars
    PROVE  Closed'
<1>1. (pc' = pc /\ rxen' = rxen) \/ ~ Ending' \/ ~ rxen'
  BY DEF RxNext, Arrive, RxIrq, CallAvailable, CallRead, CallPeek, PeekLoad, ReadTake,
         CallBegin, BeginEnableIrq, CallEnd, EndClear, ToggleInterrupts, rxVars, rxUart,
         rxSketch, rxHistory, rxRing, Ending, Closed
<1> QED BY <1>1 DEF Closed, Ending

\* The line brings a byte.
LEMMA ArriveLine ==
    ASSUME RxInv, LineInv, Arrive
    PROVE  LineInv'
<1> SUFFICES ASSUME ~behind' PROVE line' = stored' \o Intact(fifo')
                                   /\ Len(line') <= Len(taken') + RxSize - 1
  BY DEF LineInv
<1>1. PICK f \in Frame :
        /\ fifo' = IF Len(fifo) < FifoDepth THEN Append(fifo, f) ELSE fifo
        /\ line' = line \o Intact(<<f>>)
        /\ behind' = (behind \/ /\ ~f.parityError
                                /\ \/ Len(fifo) >= FifoDepth
                                   \/ Len(line) >= Len(taken) + RxSize - 1)
        /\ UNCHANGED <<stored, taken>>
  BY DEF Arrive
<1>2. ~behind /\ (f.parityError \/ (Len(fifo) < FifoDepth /\ Len(line) < Len(taken) + RxSize - 1))
  <2>1. ~behind /\ ~ (/\ ~f.parityError
                      /\ \/ Len(fifo) >= FifoDepth
                         \/ Len(line) >= Len(taken) + RxSize - 1)
    BY <1>1, Zenon
  <2>2. Len(fifo) \in Nat /\ Len(line) \in Nat /\ Len(taken) \in Nat /\ RxSize \in Nat
    BY HeldIs, LenProperties
  <2>3. /\ ~ (Len(fifo) >= FifoDepth) => Len(fifo) < FifoDepth
        /\ ~ (Len(line) >= Len(taken) + RxSize - 1) => Len(line) < Len(taken) + RxSize - 1
    BY <2>2, FifoDepthAssumption
  <2> QED BY <2>1, <2>3, Zenon
<1>3. line = stored \o Intact(fifo) /\ Len(line) <= Len(taken) + RxSize - 1
  BY <1>2 DEF LineInv
<1>4. PICK i \in Seq(Byte) : i = Intact(fifo)
  BY HeldIs
<1>5. PICK x \in Seq(Byte) : x = Intact(<<f>>) /\ x = ByteOf(f)
  BY IntactOne
<1>lens. Len(line) \in Nat /\ Len(taken) \in Nat /\ RxSize \in Nat
  BY HeldIs
<1>6. CASE Len(fifo) < FifoDepth
  <2>1. Intact(fifo') = i \o x
    BY <1>1, <1>4, <1>5, <1>6, HeldIs, IntactAppend
  <2>2. (stored \o i) \o x = stored \o (i \o x)
    <3>1. stored \in Seq(Byte)
      BY HeldIs
    <3> QED BY <3>1, ConcatAssociative
  <2>3. line' = stored' \o Intact(fifo')
    BY <1>1, <1>3, <1>4, <1>5, <2>1, <2>2
  <2>4. Len(line') = Len(line) + Len(x)
    BY <1>1, <1>5, HeldIs, ConcatProperties
  <2>5. \/ Len(x) = 0
        \/ Len(x) = 1 /\ Len(line) < Len(taken) + RxSize - 1
    <3>1. CASE f.parityError
      <4>1. x = <<>>
        BY <1>5, <3>1 DEF ByteOf
      <4> QED BY <4>1
    <3>2. CASE ~ f.parityError
      <4>1. x = <<f.byte>> /\ Len(line) < Len(taken) + RxSize - 1
        BY <1>2, <1>5, <3>2, Zenon DEF ByteOf
      <4>2. Len(<<f.byte>>) = 1
        OBVIOUS
      <4> QED BY <4>1, <4>2, Zenon
    <3> QED BY <3>1, <3>2, Zenon
  <2>6. taken' = taken /\ Len(line) <= Len(taken) + RxSize - 1
    <3>1. taken' = taken
      BY <1>1, Zenon
    <3> QED BY <1>3, <3>1
  <2>7. Len(line') <= Len(taken') + RxSize - 1
    <3>1. Len(taken') = Len(taken)
      BY <2>6
    <3>2. CASE Len(x) = 0
      <4>1. Len(line) + 0 = Len(line)
        BY <1>lens
      <4>2. Len(line') = Len(line)
        BY <2>4, <3>2, <4>1, Zenon
      <4> QED BY <2>6, <3>1, <4>2, Zenon
    <3>3. CASE Len(x) = 1 /\ Len(line) < Len(taken) + RxSize - 1
      <4>1. Len(line') = Len(line) + 1
        BY <2>4, <3>3, Zenon
      <4>2. \A n \in Nat, m \in Nat : n < m + RxSize - 1 => n + 1 <= m + RxSize - 1
        BY <1>lens
      <4>3. Len(line) + 1 <= Len(taken) + RxSize - 1
        BY <1>lens, <3>3, <4>2, Zenon
      <4> QED BY <3>1, <4>1, <4>3, Zenon
    <3> QED BY <2>5, <3>2, <3>3, Zenon
  <2> QED BY <2>3, <2>7
<1>7. CASE ~ (Len(fifo) < FifoDepth)
  <2>1. x = <<>> /\ fifo' = fifo
    BY <1>1, <1>2, <1>5, <1>7 DEF ByteOf
  <2>2. line' = line
    BY <1>1, <1>5, <2>1, HeldIs, ConcatEmptySeq
  <2> QED BY <1>1, <1>3, <2>1, <2>2
<1> QED BY <1>6, <1>7

\* The handler finds room for every intact byte.
LEMMA RxIrqLine ==
    ASSUME RxInv, LineInv, RxIrq
    PROVE  LineInv'
<1> SUFFICES ASSUME ~behind PROVE line = stored' \o Intact(fifo')
                                  /\ Len(line) <= Len(taken) + RxSize - 1
  BY DEF LineInv, RxIrq
<1>1. line = stored \o Intact(fifo) /\ Len(line) <= Len(taken) + RxSize - 1
  BY DEF LineInv
<1>2. PICK f \in Frame : f = Head(fifo)
  BY HeldIs, HeadTailProperties DEF RxIrq
<1>3. PICK x \in Seq(Byte) : x = Intact(<<f>>) /\ x = ByteOf(f)
  BY IntactOne
<1>4. PICK i \in Seq(Byte) : i = Intact(fifo')
  <2>1. fifo' \in Seq(Frame)
    BY HeldIs, HeadTailProperties DEF RxIrq
  <2> QED BY <2>1, PacketsAre
<1>5. Intact(fifo) = x \o i
  BY <1>2, <1>3, <1>4, HeldIs, IntactHead DEF RxIrq
<1>6. CASE f.parityError
  <2>1. x = <<>> /\ stored' = stored
    BY <1>2, <1>3, <1>6 DEF ByteOf, RxIrq
  <2>2. x \o i = i
    BY <2>1, ConcatEmptySeq
  <2> QED BY <1>1, <1>4, <1>5, <2>1, <2>2
<1>7. CASE ~ f.parityError
  <2>1. x = <<f.byte>> /\ Len(x) = 1 /\ f.byte \in Byte
    BY <1>3, <1>7 DEF ByteOf, Frame
  <2>2. Len(stored \o (x \o i)) = Len(stored) + (Len(x) + Len(i)) /\ Len(i) \in Nat
    BY HeldIs, ConcatProperties, LenProperties
  <2>3. Available # RxSize - 1
    BY <1>1, <1>5, <2>1, <2>2, HeldIs
  <2>4. stored' = Append(stored, f.byte)
    BY <1>2, <1>7, <2>3, HeldIs DEF RxIrq
  <2>5. Append(stored, f.byte) = stored \o x
    <3>1. stored \o <<f.byte>> = Append(stored, f.byte)
      BY <2>1, HeldIs, AppendIsConcat
    <3> QED BY <2>1, <3>1
  <2>6. (stored \o x) \o i = stored \o (x \o i)
    <3>1. stored \in Seq(Byte)
      BY HeldIs
    <3> QED BY <3>1, ConcatAssociative
  <2> QED BY <1>1, <1>4, <1>5, <2>4, <2>5, <2>6
<1> QED BY <1>6, <1>7

\* The sketch: read() makes room, begin() starts anew, and end() forgets what was
\* not stored, then what was not read.
LEMMA SketchLine ==
    ASSUME RxInv, LineInv, RxInv', Closed,
           CallAvailable \/ CallRead \/ CallPeek \/ PeekLoad \/ ReadTake \/ CallBegin
           \/ BeginEnableIrq \/ CallEnd \/ EndClear \/ ToggleInterrupts \/ UNCHANGED rxVars
    PROVE  LineInv'
<1>0. \A s \in Seq(Byte) : s \o Intact(<<>>) = s
  BY IntactEmpty, ConcatEmptySeq
<1>1. CASE ReadTake
  <2>1. UNCHANGED <<stored, line, behind, fifo>> /\ Len(taken') >= Len(taken)
    BY <1>1, HeldIs DEF ReadTake, rxUart, RxInv, RxTypeOK
  <2>2. Len(taken') \in Nat
    <3>1. taken' \in Seq(Byte)
      BY DEF RxInv, RxTypeOK
    <3> QED BY <3>1, LenProperties
  <2> QED BY <2>1, <2>2, HeldIs DEF LineInv
<1>2. CASE CallBegin
  <2>1. stored' = <<>> /\ taken' = <<>> /\ line' = <<>> /\ fifo' = <<>>
    BY <1>2 DEF CallBegin, RxInv
  <2>2. <<>> \in Seq(Byte) /\ Len(<<>>) = 0
    OBVIOUS
  <2>3. <<>> = <<>> \o Intact(<<>>)
    BY <1>0, <2>2
  <2>4. Len(line') <= Len(taken') + RxSize - 1
    BY <2>1, <2>2, RxSizeAssumption
  <2> QED BY <2>1, <2>3, <2>4 DEF LineInv
<1>3. CASE CallEnd
  <2>1. fifo' = <<>> /\ line' = stored /\ UNCHANGED <<stored, taken>>
    BY <1>3 DEF CallEnd
  <2>2. stored = stored \o Intact(<<>>)
    BY <1>0, HeldIs
  <2> QED BY <2>1, <2>2, HeldIs DEF LineInv
<1>4. CASE EndClear /\ pc = "e_clear"
  <2>1. stored' = taken /\ line' = taken /\ UNCHANGED <<taken, fifo>>
    BY <1>4 DEF EndClear
  <2>2. fifo = <<>>
    BY <1>4 DEF RxInv, Closed, Ending
  <2>3. taken = taken \o Intact(<<>>)
    BY <1>0, HeldIs
  <2>4. Len(taken) <= Len(taken) + RxSize - 1
    BY HeldIs, RxSizeAssumption
  <2> QED BY <2>1, <2>2, <2>3, <2>4 DEF LineInv
<1>5. CASE ~ ReadTake /\ ~ CallBegin /\ ~ CallEnd /\ ~ (EndClear /\ pc = "e_clear")
  <2>1. UNCHANGED <<stored, taken, line, behind, fifo>>
    BY <1>5 DEF CallAvailable, CallRead, CallPeek, PeekLoad, BeginEnableIrq, EndClear,
                ToggleInterrupts, rxVars, rxUart, rxHistory
  <2> QED BY <2>1 DEF LineInv
<1> QED BY <1>1, <1>2, <1>3, <1>4, <1>5

\* As long as no byte comes without room for it, in the UART or in the ring, the
\* line's intact bytes are stored or wait in the UART, in order and each once.
THEOREM NothingMissed == RxSpec => []NothingIsMissed
<1>1. RxInit => LineInv /\ Closed
  <2> SUFFICES ASSUME RxInit PROVE LineInv /\ Closed
    OBVIOUS
  <2>1. <<>> \in Seq(Byte) /\ Len(<<>>) = 0
    OBVIOUS
  <2>2. <<>> = <<>> \o Intact(<<>>)
    BY <2>1, IntactEmpty, ConcatEmptySeq
  <2>3. 0 <= 0 + RxSize - 1
    BY RxSizeAssumption
  <2> QED BY <2>1, <2>2, <2>3 DEF LineInv, RxInit, Closed, Ending
<1>2. RxInv /\ RxInv' /\ Closed /\ LineInv /\ [RxNext]_rxVars => LineInv' /\ Closed'
  BY ArriveLine, RxIrqLine, SketchLine, ClosedStays DEF RxNext
<1>3. LineInv => NothingIsMissed
  BY DEF LineInv, NothingIsMissed
<1> QED BY <1>1, <1>2, <1>3, RxInvariant, PTL DEF RxSpec
=============================================================================
