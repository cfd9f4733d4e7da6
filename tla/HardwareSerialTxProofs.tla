----------------------- MODULE HardwareSerialTxProofs -----------------------
(***************************************************************************)
(* Theorems about HardwareSerialTx, for every ring of 2 to 256 slots,      *)
(* every set of byte values and every number of writes: its types and its  *)
(* interrupt, then the order of the bytes, then what it promises to its    *)
(* caller.                                                                 *)
(***************************************************************************)
EXTENDS HardwareSerialTx, DataLemmas

\* The slot after the last is the first; the modulo of the code is a wrap.
LEMMA SuccWraps ==
    ASSUME NEW i \in Slots
    PROVE  /\ Succ(i) = IF i = TxSize - 1 THEN 0 ELSE i + 1
           /\ Succ(i) \in Slots
<1>1. CASE i = TxSize - 1
  BY <1>1, TxSizeAssumption DEF Slots, Succ
<1>2. CASE i # TxSize - 1
  <2>1. i + 1 \in 0 .. TxSize - 1
    BY <1>2, TxSizeAssumption DEF Slots
  <2>2. (i + 1) % TxSize = i + 1
    BY <2>1, TxSizeAssumption
  <2> QED
    BY <1>2, <2>1, <2>2 DEF Slots, Succ
<1> QED
  BY <1>1, <1>2

-----------------------------------------------------------------------------
\* TypeOK is not inductive as it stands: an update of UCSRnB takes the head
\* of todo, so todo must not be empty there.
TypeInv == TypeOK /\ (pc \in {"ucsrb", "ucsrb_store"} => todo # <<>>)

\* The transmitter starts with every variable of its type.
LEMMA TypeInit == TxInit => TypeInv
BY TxSizeAssumption DEF TxInit, TypeInv, TypeOK, Slots, Bits, Pcs

\* The handler's first half, by interrupt or called by the sketch.
LEMMA IrqSendType ==
    ASSUME TypeOK, IrqSend
    PROVE  /\ head' \in Slots /\ tail' \in Slots
           /\ buf' \in [Slots -> Byte]
           /\ udr' \in Byte \cup {None}
           /\ irq' \in {"out", "sent"}
BY SuccWraps DEF TypeOK, IrqSend, WriteUDR

\* Four updates make a sequence of updates.
LEMMA FourIsSeq ==
    ASSUME NEW S, NEW a \in S, NEW b \in S, NEW d \in S, NEW e \in S
    PROVE  <<a, b, d, e>> \in Seq(S)
OBVIOUS

\* The lists of updates are lists of updates.
LEMMA UpdatesType ==
    /\ EndUpdates \in Seq(Bits \X BOOLEAN) /\ EndUpdates # <<>>
    /\ BeginUpdates \in Seq(Bits \X BOOLEAN) /\ BeginUpdates # <<>>
<1> DEFINE U == Bits \X BOOLEAN
<1>1. \A on \in BOOLEAN : /\ <<"RXEN", on>> \in U /\ <<"TXEN", on>> \in U
                          /\ <<"RXCIE", on>> \in U /\ <<"UDRIE", on>> \in U
  BY DEF Bits
<1>2. /\ <<"RXEN", FALSE>> \in U /\ <<"TXEN", FALSE>> \in U
      /\ <<"RXCIE", FALSE>> \in U /\ <<"UDRIE", FALSE>> \in U
      /\ <<"RXEN", TRUE>> \in U /\ <<"TXEN", TRUE>> \in U
      /\ <<"RXCIE", TRUE>> \in U
  BY <1>1
<1> HIDE DEF U
<1>3. EndUpdates \in Seq(U)
  BY <1>2, FourIsSeq, Zenon DEF EndUpdates
<1>4. BeginUpdates \in Seq(U)
  BY <1>2, FourIsSeq, Zenon DEF BeginUpdates
<1> QED
  BY <1>3, <1>4 DEF EndUpdates, BeginUpdates, U

\* No step takes a variable out of its type: one proof step per action.
LEMMA TypeStep == TypeInv /\ [NextReopen]_vars => TypeInv'
<1> SUFFICES ASSUME TypeInv, [NextReopen]_vars PROVE TypeInv'
  OBVIOUS
<1> USE DEF TypeInv
<1>1. CASE TxIrq
  BY <1>1, IrqSendType DEF TxIrq, IrqSend, TypeOK, callVars
<1>2. CASE IrqFinish
  BY <1>2 DEF IrqFinish, TypeOK, callVars
<1>3. CASE CallWrite
  BY <1>3, TxSizeAssumption
  DEF CallWrite, TypeOK, Pcs, ringVars, uartVars
<1>4. CASE WriteTest
  BY <1>4 DEF WriteTest, TypeOK, Pcs, ringVars, uartVars
<1>5. CASE WriteShortcut
  <2>1. CASE pc = "w_udr"
    <3>1. udr' \in Byte \cup {None} /\ sent' \in Seq(Byte)
      <4>1. /\ udr' = IF udr = None THEN arg ELSE udr
            /\ sent' = Append(sent, arg)
        BY <1>5, <2>1 DEF WriteShortcut, WriteUDR
      <4>2. arg \in Byte /\ udr \in Byte \cup {None} /\ sent \in Seq(Byte)
        BY DEF TypeOK
      <4> QED
        BY <4>1, <4>2
    <3> QED
      BY <1>5, <2>1, <3>1 DEF WriteShortcut, TypeOK, Pcs, ringVars
  <2>2. CASE pc = "w_txc"
    BY <1>5, <2>2 DEF WriteShortcut, TypeOK, Pcs, ringVars
  <2> QED
    BY <1>5, <2>1, <2>2 DEF WriteShortcut
<1>6. CASE WriteWait
  BY <1>6, IrqSendType DEF WriteWait, IrqSend, TypeOK, callVars, vars
<1>7. CASE WriteProceed
  BY <1>7 DEF WriteProceed, TypeOK, Pcs, ringVars, uartVars
<1>8. CASE WriteStore
  BY <1>8 DEF WriteStore, TypeOK, Pcs, uartVars
<1>9. CASE WritePublish
  BY <1>9, SuccWraps DEF WritePublish, TypeOK, Pcs, Bits, uartVars
<1>10. CASE CallFlush
  BY <1>10 DEF CallFlush, StartFlush, After, TypeOK, Pcs, ringVars, uartVars
<1>11. CASE CallEnd
  BY <1>11, UpdatesType
  DEF CallEnd, StartFlush, After, TypeOK, Pcs, ringVars, uartVars
<1>12. CASE FlushTest
  BY <1>12 DEF FlushTest, After, TypeOK, Pcs, ringVars, uartVars
<1>13. CASE FlushPoll
  BY <1>13, IrqSendType DEF FlushPoll, IrqSend, TypeOK, Pcs, ringVars
<1>14. CASE CallBegin
  BY <1>14, UpdatesType DEF CallBegin, TypeOK, Pcs, ringVars, uartVars
<1>15. CASE UpdateUcsrb
  <2>1. CASE pc = "ucsrb"
    BY <1>15, <2>1 DEF UpdateUcsrb, TypeOK, Pcs, ringVars, uartVars
  <2>2. CASE pc = "ucsrb_store"
    <3>1. Head(todo) \in Bits \X BOOLEAN /\ Tail(todo) \in Seq(Bits \X BOOLEAN)
      <4>1. todo \in Seq(Bits \X BOOLEAN) /\ todo # <<>>
        BY <2>2 DEF TypeOK
      <4> QED
        BY <4>1
    <3>2. Head(todo)[1] \in Bits
      BY <3>1
    <3>3. ucsrb' \subseteq Bits
      BY <1>15, <2>2, <3>2 DEF UpdateUcsrb, TypeOK
    <3>4. /\ todo' \in Seq(Bits \X BOOLEAN)
          /\ pc' \in Pcs
          /\ pc' \in {"ucsrb", "ucsrb_store"} => todo' # <<>>
      BY <1>15, <2>2, <3>1 DEF UpdateUcsrb, After, Pcs
    <3> QED
      BY <1>15, <2>2, <3>3, <3>4 DEF UpdateUcsrb, TypeOK, ringVars, uartVars
  <2> QED
    BY <1>15, <2>1, <2>2 DEF UpdateUcsrb
<1>16. CASE AvailableForWrite
  BY <1>16, TxSizeAssumption
  DEF AvailableForWrite, Room, TypeOK, Slots, ringVars, uartVars, callVars
<1>17. CASE ToggleInterrupts
  BY <1>17 DEF ToggleInterrupts, TypeOK, ringVars, uartVars, callVars
<1>18. CASE UartLoad
  BY <1>18 DEF UartLoad, TypeOK, ringVars, callVars
<1>19. CASE UartComplete
  BY <1>19 DEF UartComplete, TypeOK, ringVars, callVars
<1>20. CASE UNCHANGED vars
  BY <1>20 DEF vars, TypeOK
<1> QED
  BY <1>1, <1>2, <1>3, <1>4, <1>5, <1>6, <1>7, <1>8, <1>9, <1>10, <1>11,
     <1>12, <1>13, <1>14, <1>15, <1>16, <1>17, <1>18, <1>19, <1>20
  DEF NextReopen, OtherStep, CallStep, Handler, Uart

\* Every variable keeps its type, also when begin() is called on an open port.
THEOREM TypeCorrect == ReopenSpec => []TypeOK
<1>1. TypeInv => TypeOK
  BY DEF TypeInv
<1> QED
  BY <1>1, TypeInit, TypeStep, PTL DEF ReopenSpec

-----------------------------------------------------------------------------
(***************************************************************************)
(* The interrupt is enabled exactly while bytes are queued.  This holds    *)
(* when begin() is called on a closed port only (Spec): the updates of     *)
(* UCSRnB then find UDRIE clear and leave it clear, because end() flushed  *)
(* the ring before its first update and nothing writes until the port is   *)
(* open again.                                                             *)
(***************************************************************************)

Writing == {"w_empty", "w_udre", "w_udr", "w_txc", "w_full", "w_store",
            "w_publish"}

\* The updates begin() and end() make: none sets UDRIE.
Updates == (Bits \X BOOLEAN) \ {<<"UDRIE", TRUE>>}

\* The interrupt is on while bytes are queued and until the handler has looked
\* at the ring again.
OnWhileQueued == "UDRIE" \in ucsrb <=> head # tail \/ irq = "sent"

\* It is off where the sketch relies on that.
OffWhenQuiet ==
    /\ pc \in {"w_udre", "w_udr", "f_txc", "ucsrb", "ucsrb_store"} =>
          "UDRIE" \notin ucsrb
    /\ pc = "ucsrb_store" => "UDRIE" \notin rmw
    /\ todo \in Seq(Updates)

\* A port that is closed, or was not written to, has nothing to send.
OffWhenUnused ==
    "TXEN" \notin ucsrb \/ ~written => "UDRIE" \notin ucsrb /\ pc \notin Writing

\* A slot is free for the byte write() stores.
SlotIsFree == pc \in {"w_store", "w_publish"} => Succ(head) # tail

EnableInv == OnWhileQueued /\ OffWhenQuiet /\ OffWhenUnused /\ SlotIsFree

\* The interrupt is off and the ring empty at the start.
LEMMA EnableInit == TxInit => EnableInv
BY DEF TxInit, EnableInv, OnWhileQueued, OffWhenQuiet, OffWhenUnused, SlotIsFree,
       Writing

\* Different slots have different successors, and none is its own.
LEMMA SuccInjective ==
    ASSUME NEW i \in Slots, NEW j \in Slots
    PROVE  /\ Succ(i) = Succ(j) => i = j
           /\ Succ(i) # i
BY SuccWraps, TxSizeAssumption DEF Slots

\* The lists of updates do not set UDRIE.
LEMMA UpdatesSafe == EndUpdates \in Seq(Updates) /\ BeginUpdates \in Seq(Updates)
<1>1. /\ <<"RXEN", FALSE>> \in Updates /\ <<"TXEN", FALSE>> \in Updates
      /\ <<"RXCIE", FALSE>> \in Updates /\ <<"UDRIE", FALSE>> \in Updates
      /\ <<"RXEN", TRUE>> \in Updates /\ <<"TXEN", TRUE>> \in Updates
      /\ <<"RXCIE", TRUE>> \in Updates
  BY DEF Updates, Bits
<1>2. EndUpdates \in Seq(Updates)
  BY <1>1, FourIsSeq, Zenon DEF EndUpdates
<1>3. BeginUpdates \in Seq(Updates)
  BY <1>1, FourIsSeq, Zenon DEF BeginUpdates
<1> QED
  BY <1>2, <1>3

\* An element of a product is the pair of its components.
LEMMA PairIsPair ==
    ASSUME NEW S, NEW T, NEW p \in S \X T
    PROVE  p[1] \in S /\ p[2] \in T /\ p = <<p[1], p[2]>>
OBVIOUS

\* No step breaks the agreement of the interrupt enable with the ring, as long
\* as begin() is called on a closed port.
LEMMA EnableStep == TypeInv /\ EnableInv /\ [Next]_vars => EnableInv'
<1> SUFFICES ASSUME TypeInv, EnableInv, [Next]_vars PROVE EnableInv'
  OBVIOUS
<1> USE DEF TypeInv, EnableInv, OnWhileQueued, OffWhenQuiet, OffWhenUnused,
            SlotIsFree, Writing
<1>0. head \in Slots /\ tail \in Slots /\ pc \in Pcs /\ ucsrb \subseteq Bits
  BY DEF TypeOK
<1>1. CASE TxIrq
  BY <1>0, <1>1, SuccInjective DEF TxIrq, IrqSend, callVars
<1>2. CASE IrqFinish
  BY <1>2 DEF IrqFinish, callVars
<1>3. CASE CallWrite
  BY <1>3 DEF CallWrite, ringVars
<1>4. CASE WriteTest
  BY <1>4 DEF WriteTest, ringVars
<1>5. CASE WriteShortcut
  BY <1>5 DEF WriteShortcut, ringVars
<1>6. CASE WriteWait
  BY <1>0, <1>6, SuccInjective DEF WriteWait, IrqSend, callVars, vars
<1>7. CASE WriteProceed
  BY <1>7 DEF WriteProceed, ringVars
<1>8. CASE WriteStore
  BY <1>8 DEF WriteStore
<1>9. CASE WritePublish
  BY <1>9 DEF WritePublish
<1>10. CASE CallFlush
  BY <1>10 DEF CallFlush, StartFlush, After, ringVars
<1>11. CASE CallEnd
  BY <1>11, UpdatesSafe DEF CallEnd, StartFlush, After, ringVars
<1>12. CASE FlushTest
  BY <1>12 DEF FlushTest, After, ringVars
<1>13. CASE FlushPoll
  BY <1>0, <1>13, SuccInjective DEF FlushPoll, IrqSend, ringVars
<1>14. CASE Open
  BY <1>14, UpdatesSafe DEF Open, CallBegin, ringVars
<1>15. CASE UpdateUcsrb
  <2>1. CASE pc = "ucsrb"
    BY <1>15, <2>1 DEF UpdateUcsrb, ringVars
  <2>2. CASE pc = "ucsrb_store"
    <3>1. Head(todo) \in Updates /\ Tail(todo) \in Seq(Updates)
      BY <2>2
    <3>2. Head(todo)[1] = "UDRIE" => Head(todo)[2] = FALSE
      <4>1. Head(todo) \in Bits \X BOOLEAN /\ Head(todo) # <<"UDRIE", TRUE>>
        BY <3>1 DEF Updates
      <4> QED
        BY <4>1, PairIsPair
    <3>3. "UDRIE" \notin ucsrb'
      BY <1>15, <2>2, <3>2 DEF UpdateUcsrb
    <3> QED
      BY <1>15, <2>2, <3>1, <3>3 DEF UpdateUcsrb, After, ringVars
  <2> QED
    BY <1>15, <2>1, <2>2 DEF UpdateUcsrb
<1>16. CASE AvailableForWrite
  BY <1>16 DEF AvailableForWrite, ringVars, callVars
<1>17. CASE ToggleInterrupts
  BY <1>17 DEF ToggleInterrupts, ringVars, callVars
<1>18. CASE UartLoad
  BY <1>18 DEF UartLoad, ringVars, callVars
<1>19. CASE UartComplete
  BY <1>19 DEF UartComplete, ringVars, callVars
<1>20. CASE UNCHANGED vars
  BY <1>20 DEF vars
<1> QED
  BY <1>1, <1>2, <1>3, <1>4, <1>5, <1>6, <1>7, <1>8, <1>9, <1>10, <1>11,
     <1>12, <1>13, <1>14, <1>15, <1>16, <1>17, <1>18, <1>19, <1>20
  DEF Next, OtherStep, CallStep, Handler, Uart

\* begin() on a closed port is a case of begin().
LEMMA NextReopens == [Next]_vars => [NextReopen]_vars
BY DEF Next, NextReopen, Open

\* Both invariants hold of the driver.
LEMMA EnableCorrect == Spec => [](TypeInv /\ EnableInv)
<1>1. TypeInv /\ EnableInv /\ [Next]_vars => (TypeInv /\ EnableInv)'
  BY TypeStep, EnableStep, NextReopens
<1> QED
  BY <1>1, TypeInit, EnableInit, PTL DEF Spec

\* The handler never runs on an empty ring.
THEOREM HandlerHasData == Spec => []IrqHasData
<1>1. EnableInv => IrqHasData
  BY DEF EnableInv, OnWhileQueued, IrqHasData
<1> QED
  BY <1>1, EnableCorrect, PTL

\* No byte waits in the ring for an interrupt that is off.
THEOREM NothingStranded == Spec => []NoByteStranded
<1>1. EnableInv => NoByteStranded
  BY DEF EnableInv, OnWhileQueued, NoByteStranded
<1> QED
  BY <1>1, EnableCorrect, PTL

(***************************************************************************)
(* write() and the handler keep the bytes in order: what was written is    *)
(* what left on the line, followed by what the UART and the ring hold.     *)
(***************************************************************************)
\* The transmitter's ring (module DataLemmas).

\* How far the head h is ahead of the tail t.
Distance(h, t) == RingDistance(TxSize, h, t)
\* What a ring with the slots b holds between the tail t and the head h.
Content(h, t, b) == RingContent(TxSize, h, t, b)

\* The operators of the transmitter are those of a ring.
LEMMA RingIs ==
    /\ TxSize \in Nat \ {0} /\ Slots = RingSlots(TxSize)
    /\ [Slots -> Byte] = RingBuffers(TxSize, Byte)
    /\ \A i \in Slots : Succ(i) = RingSucc(TxSize, i)
BY TxSizeAssumption DEF Slots, RingSlots, RingBuffers, Succ, RingSucc

\* How many bytes the ring holds is a number below its size.
LEMMA DistanceIs ==
    ASSUME NEW h \in Slots, NEW t \in Slots
    PROVE  /\ Distance(h, t) = IF h >= t THEN h - t ELSE TxSize + h - t
           /\ Distance(h, t) \in 0 .. TxSize - 1
BY RingIs, RingDistanceIs DEF Distance

\* Storing a byte lengthens the queue, taking one shortens it.
LEMMA DistanceSteps ==
    ASSUME NEW h \in Slots, NEW t \in Slots
    PROVE  /\ Succ(h) # t => Distance(Succ(h), t) = Distance(h, t) + 1
           /\ h # t => Distance(h, Succ(t)) = Distance(h, t) - 1
           /\ Distance(h, t) = 0 <=> h = t
           /\ Distance(h, t) = TxSize - 1 <=> Succ(h) = t
BY RingIs, RingDistanceSteps DEF Distance

\* The content of the ring is a sequence of as many bytes as the ring holds.
LEMMA ContentIs ==
    ASSUME NEW h \in Slots, NEW t \in Slots, NEW b \in [Slots -> Byte]
    PROVE  /\ Content(h, t, b) \in Seq(Byte)
           /\ Len(Content(h, t, b)) = Distance(h, t)
<1>1. b \in RingBuffers(TxSize, Byte)
  BY RingIs, Zenon
<1> QED BY <1>1, RingIs, RingContentIs DEF Content, Distance

\* An empty ring holds nothing.
LEMMA ContentEmpty ==
    ASSUME NEW h \in Slots, NEW b \in [Slots -> Byte]
    PROVE  Content(h, h, b) = <<>>
<1>1. b \in RingBuffers(TxSize, Byte)
  BY RingIs, Zenon
<1> QED BY <1>1, RingIs, RingContentEmpty DEF Content

\* Publishing the head's slot appends its byte.
LEMMA ContentAppends ==
    ASSUME NEW h \in Slots, NEW t \in Slots, NEW b \in [Slots -> Byte],
           Succ(h) # t
    PROVE  Content(Succ(h), t, b) = Append(Content(h, t, b), b[h])
<1>1. b \in RingBuffers(TxSize, Byte)
  BY RingIs, Zenon
<1> QED BY <1>1, RingIs, RingContentAppends DEF Content

\* The tail's byte is the first.
LEMMA ContentFirst ==
    ASSUME NEW h \in Slots, NEW t \in Slots, NEW b \in [Slots -> Byte], h # t
    PROVE  Content(h, t, b) = <<b[t]>> \o Content(h, Succ(t), b)
<1>1. b \in RingBuffers(TxSize, Byte)
  BY RingIs, Zenon
<1>2. h \in RingSlots(TxSize) /\ t \in RingSlots(TxSize)
  BY RingIs, Zenon
<1>3. RingContent(TxSize, h, t, b)
        = <<b[t]>> \o RingContent(TxSize, h, RingSucc(TxSize, t), b)
  BY <1>1, <1>2, RingIs, RingContentFirst
<1> QED BY <1>3, RingIs DEF Content

\* The head's slot is not part of the content: write() may fill it.
LEMMA ContentWithoutHead ==
    ASSUME NEW h \in Slots, NEW t \in Slots, NEW b \in [Slots -> Byte],
           NEW c \in Byte
    PROVE  Content(h, t, [b EXCEPT ![h] = c]) = Content(h, t, b)
<1> DEFINE f == [b EXCEPT ![h] = c]
<1>1. \A i \in RingSlots(TxSize) : i # h => f[i] = b[i]
  BY RingIs
<1> HIDE DEF f
<1>2. h \in RingSlots(TxSize) /\ t \in RingSlots(TxSize)
  BY RingIs, Zenon
<1>3. RingContent(TxSize, h, t, f) = RingContent(TxSize, h, t, b)
  BY <1>1, <1>2, RingIs, RingContentWithoutHead
<1> QED BY <1>3 DEF Content, f

-----------------------------------------------------------------------------
\* What a register holds, as a sequence.
One(r) == IF r = None THEN <<>> ELSE <<r>>

\* What a register holds is a sequence of bytes.
LEMMA OneIs ==
    ASSUME NEW r \in Byte \cup {None}
    PROVE  One(r) \in Seq(Byte)
BY DEF One

\* What is between the caller and the line, spelled out.
LEMMA InsideIs == Inside = (One(shift) \o One(udr)) \o Content(head, tail, buf)
BY DEF Inside, One, Content, Queued, RingContent, RingPlace, RingDistance

\* The same after a step.
LEMMA InsideNext ==
    Inside' = (One(shift') \o One(udr')) \o Content(head', tail', buf')
BY DEF Inside, One, Content, Queued, RingContent, RingPlace, RingDistance

\* Appending a byte is concatenating the sequence of that byte.
LEMMA AppendConcat ==
    ASSUME NEW s \in Seq(Byte), NEW c \in Byte
    PROVE  Append(s, c) = s \o <<c>> /\ <<c>> \in Seq(Byte)
OBVIOUS

\* Concatenation of byte sequences is associative.
LEMMA Associative ==
    \A x, y, z \in Seq(Byte) : (x \o y) \o z = x \o (y \o z)
BY ConcatAssociative

\* Moving a byte from one place to the next leaves the whole the same.
LEMMA Moves ==
    ASSUME NEW w \in Seq(Byte), NEW s \in Seq(Byte), NEW u \in Seq(Byte),
           NEW q \in Seq(Byte)
    PROVE  /\ (s \o <<>>) \o (u \o q) = (s \o u) \o q
           /\ (<<>> \o u) \o q = (u \o <<>>) \o q
           /\ w \o ((s \o u) \o q) = (w \o s) \o ((u \o <<>>) \o q)
<1>1. s \o <<>> = s /\ u \o <<>> = u /\ <<>> \o u = u
  BY ConcatEmptySeq
<1>2. (s \o u) \o q = s \o (u \o q) /\ u \o q \in Seq(Byte)
  BY ConcatAssociative, ConcatProperties, SMTT(30)
<1>3. w \o (s \o (u \o q)) = (w \o s) \o (u \o q)
  BY <1>2, Associative, ZenonT(60)
<1> QED
  BY <1>1, <1>2, <1>3

\* A byte added at the end of the last place is added to the whole.
LEMMA AddsToQueue ==
    ASSUME NEW w \in Seq(Byte), NEW p \in Seq(Byte), NEW q \in Seq(Byte),
           NEW c \in Byte
    PROVE  Append(w \o (p \o q), c) = w \o (p \o Append(q, c))
<1>1. /\ p \o q \in Seq(Byte) /\ Append(q, c) \in Seq(Byte)
      /\ <<c>> \in Seq(Byte) /\ Append(q, c) = q \o <<c>>
      /\ w \o (p \o q) \in Seq(Byte)
  BY ConcatProperties, AppendConcat
<1> DEFINE m == p \o q
           e == <<c>>
<1>2. m \in Seq(Byte) /\ e \in Seq(Byte)
  BY <1>1
<1>3. (p \o q) \o <<c>> = p \o (q \o <<c>>)
  <2> HIDE DEF e
  <2>1. (p \o q) \o e = p \o (q \o e)
    BY <1>2, Associative, ZenonT(60)
  <2> QED
    BY <2>1 DEF e
<1>4. (w \o (p \o q)) \o <<c>> = w \o ((p \o q) \o <<c>>)
  <2> HIDE DEF m, e
  <2>1. (w \o m) \o e = w \o (m \o e)
    BY <1>2, Associative, ZenonT(60)
  <2> QED
    BY <2>1 DEF m, e
<1>5. Append(w \o (p \o q), c) = (w \o (p \o q)) \o <<c>>
  BY <1>1, AppendConcat
<1> QED
  BY <1>1, <1>3, <1>4, <1>5

-----------------------------------------------------------------------------
\* InOrder is not inductive as it stands: the byte that write() hands on must be
\* the one it was given, and the shortcut must find the UART's register free.
OrderInv ==
    /\ InOrder
    /\ pc = "w_udr" => udr = None
    /\ pc = "w_publish" => buf[head] = arg

\* Nothing was accepted and nothing is inside at the start.
LEMMA OrderInit == TxInit => OrderInv
<1> SUFFICES ASSUME TxInit PROVE OrderInv
  OBVIOUS
<1>1. head = 0 /\ tail = 0 /\ head \in Slots /\ buf \in [Slots -> Byte]
  BY TxSizeAssumption DEF TxInit, Slots
<1>2. Content(head, tail, buf) = <<>>
  BY <1>1, ContentEmpty
<1>3. One(shift) = <<>> /\ One(udr) = <<>>
  BY DEF TxInit, One
<1>4. sent = <<>> /\ wire = <<>> /\ pc = "idle"
  BY DEF TxInit
<1>5. <<>> \o <<>> = <<>>
  BY EmptySeq, ConcatEmptySeq
<1> QED
  BY <1>2, <1>3, <1>4, <1>5, InsideIs DEF OrderInv, InOrder

\* The handler's first half: the oldest byte of the ring goes to the UART.
LEMMA IrqSendOrder ==
    ASSUME TypeOK, InOrder, IrqSend, head # tail, udr = None
    PROVE  InOrder'
<1>1. /\ head \in Slots /\ tail \in Slots /\ buf \in [Slots -> Byte]
      /\ shift \in Byte \cup {None}
  BY DEF TypeOK
<1>2. /\ head' = head /\ tail' = Succ(tail) /\ buf' = buf /\ shift' = shift
      /\ udr' = buf[tail] /\ sent' = sent /\ wire' = wire
  BY DEF IrqSend, WriteUDR
<1>3. buf[tail] \in Byte /\ buf[tail] # None
  BY <1>1, NoneAssumption
<1>4. One(udr) = <<>> /\ One(udr') = <<buf[tail]>>
  BY <1>2, <1>3 DEF One
<1>5. Content(head, tail, buf) = <<buf[tail]>> \o Content(head, Succ(tail), buf)
  BY <1>1, ContentFirst
<1>6. /\ Content(head, Succ(tail), buf) \in Seq(Byte)
      /\ One(shift) \in Seq(Byte) /\ <<buf[tail]>> \in Seq(Byte)
  BY <1>1, <1>3, ContentIs, SuccWraps, OneIs
<1>7. Inside' = Inside
  <2>1. (One(shift) \o <<>>) \o (<<buf[tail]>> \o Content(head, Succ(tail), buf))
        = (One(shift) \o <<buf[tail]>>) \o Content(head, Succ(tail), buf)
    BY <1>6, Moves
  <2>2. Inside = (One(shift) \o <<>>)
                 \o (<<buf[tail]>> \o Content(head, Succ(tail), buf))
    BY <1>4, <1>5, InsideIs
  <2>3. Inside' = (One(shift) \o <<buf[tail]>>) \o Content(head, Succ(tail), buf)
    BY <1>2, <1>4, InsideNext
  <2> QED
    BY <2>1, <2>2, <2>3
<1> QED
  BY <1>2, <1>7 DEF InOrder

\* A step that touches none of the places a byte can be in.
LEMMA UntouchedOrder ==
    ASSUME InOrder, UNCHANGED <<ringVars, udr, shift, wire, sent>>
    PROVE  InOrder'
BY DEF InOrder, Inside, Queued, ringVars

\* No step loses, repeats or overtakes a byte: one proof step per action.
LEMMA OrderStep == TypeInv /\ EnableInv /\ OrderInv /\ [Next]_vars => OrderInv'
<1> SUFFICES ASSUME TypeInv, EnableInv, OrderInv, [Next]_vars PROVE OrderInv'
  OBVIOUS
<1>0. /\ TypeOK /\ InOrder
      /\ head \in Slots /\ tail \in Slots /\ buf \in [Slots -> Byte]
      /\ udr \in Byte \cup {None} /\ shift \in Byte \cup {None}
      /\ arg \in Byte /\ sent \in Seq(Byte) /\ wire \in Seq(Byte)
      /\ Content(head, tail, buf) \in Seq(Byte)
      /\ One(shift) \in Seq(Byte) /\ One(udr) \in Seq(Byte)
  BY ContentIs, OneIs DEF TypeInv, TypeOK, OrderInv
<1>i. sent = wire \o ((One(shift) \o One(udr)) \o Content(head, tail, buf))
  BY <1>0, InsideIs DEF InOrder
<1>e. irq = "out" => (head # tail <=> "UDRIE" \in ucsrb)
  BY DEF EnableInv, OnWhileQueued
<1>1. CASE TxIrq
  <2>1. head # tail /\ udr = None /\ pc' = pc /\ pc # "w_udr"
    BY <1>1, <1>e DEF TxIrq, callVars, EnableInv, OffWhenQuiet
  <2>2. InOrder'
    BY <1>0, <1>1, <2>1, IrqSendOrder DEF TxIrq
  <2> QED
    BY <1>1, <2>1, <2>2 DEF OrderInv, TxIrq, IrqSend, callVars
<1>2. CASE IrqFinish
  BY <1>0, <1>2, UntouchedOrder DEF IrqFinish, OrderInv, callVars, ringVars
<1>3. CASE CallWrite
  BY <1>0, <1>3, UntouchedOrder DEF CallWrite, OrderInv, ringVars, uartVars
<1>4. CASE WriteTest
  BY <1>0, <1>4, UntouchedOrder DEF WriteTest, OrderInv, ringVars, uartVars
<1>5. CASE WriteShortcut
  <2>1. CASE pc = "w_udr"
    <3>1. udr = None /\ head = tail
      BY <2>1, <1>5, <1>e
      DEF OrderInv, EnableInv, OffWhenQuiet, OnWhileQueued, WriteShortcut
    <3>2. /\ head' = head /\ tail' = tail /\ buf' = buf /\ shift' = shift
          /\ udr' = arg /\ sent' = Append(sent, arg) /\ wire' = wire
          /\ pc' = "w_txc"
      BY <1>5, <2>1, <3>1 DEF WriteShortcut, WriteUDR, ringVars
    <3>3. One(udr) = <<>> /\ One(udr') = <<arg>>
      BY <1>0, <3>1, <3>2, NoneAssumption DEF One
    <3>4. Content(head, tail, buf) = <<>>
      BY <1>0, <3>1, ContentEmpty
    <3>5. sent' = wire \o (One(shift) \o <<arg>>)
      <4> DEFINE p == One(shift)
                 q == Content(head, tail, buf)
      <4>1. /\ p \in Seq(Byte) /\ q \in Seq(Byte) /\ wire \in Seq(Byte)
            /\ arg \in Byte /\ sent = wire \o (p \o q)
        BY <1>0, <1>i, <3>3, ConcatEmptySeq
      <4>2. Append(q, arg) = <<arg>>
        BY <3>4
      <4> HIDE DEF p, q
      <4>3. Append(wire \o (p \o q), arg) = wire \o (p \o Append(q, arg))
        BY <4>1, AddsToQueue, ZenonT(60)
      <4> QED
        BY <3>2, <4>1, <4>2, <4>3 DEF p
    <3>6. Inside' = One(shift) \o <<arg>>
      <4>1. One(shift) \o <<arg>> \in Seq(Byte)
        BY <1>0, AppendConcat, ConcatProperties
      <4>2. Inside' = (One(shift) \o <<arg>>) \o <<>>
        BY <3>2, <3>3, <3>4, InsideNext
      <4> QED
        BY <4>1, <4>2, ConcatEmptySeq
    <3> QED
      BY <3>2, <3>5, <3>6 DEF OrderInv, InOrder
  <2>2. CASE pc = "w_txc"
    BY <1>0, <1>5, <2>2, UntouchedOrder DEF WriteShortcut, OrderInv, ringVars
  <2> QED
    BY <1>5, <2>1, <2>2 DEF WriteShortcut
<1>6. CASE WriteWait
  <2>1. CASE ~ie /\ udr = None
    <3>1. head # tail
      BY <1>0, <1>6, SuccInjective DEF WriteWait
    <3>2. IrqSend /\ pc' = pc /\ pc = "w_full"
      BY <1>6, <2>1 DEF WriteWait, callVars
    <3> QED
      BY <1>0, <2>1, <3>1, <3>2, IrqSendOrder DEF OrderInv
  <2>2. CASE ~(~ie /\ udr = None)
    BY <1>0, <1>6, <2>2, UntouchedOrder DEF WriteWait, OrderInv, vars, ringVars
  <2> QED
    BY <2>1, <2>2
<1>7. CASE WriteProceed
  BY <1>0, <1>7, UntouchedOrder DEF WriteProceed, OrderInv, ringVars, uartVars
<1>8. CASE WriteStore
  <2>1. /\ head' = head /\ tail' = tail /\ buf' = [buf EXCEPT ![head] = arg]
        /\ shift' = shift /\ udr' = udr /\ sent' = sent /\ wire' = wire
        /\ pc' = "w_publish" /\ arg' = arg
    BY <1>8 DEF WriteStore, uartVars
  <2>2. Content(head', tail', buf') = Content(head, tail, buf)
    BY <1>0, <2>1, ContentWithoutHead
  <2>3. Inside' = Inside
    BY <2>1, <2>2, InsideIs, InsideNext
  <2>4. buf'[head'] = arg'
    BY <1>0, <2>1
  <2> QED
    BY <1>0, <2>1, <2>3, <2>4 DEF OrderInv, InOrder
<1>9. CASE WritePublish
  <2>1. /\ head' = Succ(head) /\ tail' = tail /\ buf' = buf
        /\ shift' = shift /\ udr' = udr /\ sent' = Append(sent, arg)
        /\ wire' = wire /\ pc' = "idle" /\ buf[head] = arg /\ Succ(head) # tail
    BY <1>9 DEF WritePublish, uartVars, OrderInv, EnableInv, SlotIsFree
  <2>2. Content(head', tail', buf') = Append(Content(head, tail, buf), arg)
    BY <1>0, <2>1, ContentAppends
  <2>3. One(shift) \o One(udr) \in Seq(Byte)
    BY <1>0, ConcatProperties
  <2>4. sent' = wire \o ((One(shift) \o One(udr))
                         \o Append(Content(head, tail, buf), arg))
    <3> DEFINE p == One(shift) \o One(udr)
               q == Content(head, tail, buf)
    <3>1. /\ p \in Seq(Byte) /\ q \in Seq(Byte) /\ sent = wire \o (p \o q)
          /\ wire \in Seq(Byte) /\ arg \in Byte
      BY <1>0, <1>i, <2>3
    <3> HIDE DEF p, q
    <3>2. Append(wire \o (p \o q), arg) = wire \o (p \o Append(q, arg))
      BY <3>1, AddsToQueue, ZenonT(60)
    <3> QED
      BY <2>1, <3>1, <3>2 DEF p, q
  <2>5. Inside' = (One(shift) \o One(udr)) \o Append(Content(head, tail, buf), arg)
    BY <2>1, <2>2, InsideNext
  <2> QED
    BY <2>1, <2>4, <2>5 DEF OrderInv, InOrder
<1>10. CASE CallFlush
  BY <1>0, <1>10, UntouchedOrder
  DEF CallFlush, StartFlush, After, OrderInv, ringVars, uartVars
<1>11. CASE CallEnd
  BY <1>0, <1>11, UntouchedOrder
  DEF CallEnd, StartFlush, After, OrderInv, ringVars, uartVars
<1>12. CASE FlushTest
  BY <1>0, <1>12, UntouchedOrder DEF FlushTest, After, OrderInv, ringVars, uartVars
<1>13. CASE FlushPoll
  <2>1. CASE ~ie /\ "UDRIE" \in ucsrb /\ udr = None
    <3>1. head # tail /\ IrqSend /\ pc' = "f_udrie"
      BY <1>13, <1>e, <2>1 DEF FlushPoll
    <3> QED
      BY <1>0, <2>1, <3>1, IrqSendOrder DEF OrderInv
  <2>2. CASE ~(~ie /\ "UDRIE" \in ucsrb /\ udr = None)
    BY <1>0, <1>13, <2>2, UntouchedOrder DEF FlushPoll, OrderInv, ringVars
  <2> QED
    BY <2>1, <2>2
<1>14. CASE Open
  BY <1>0, <1>14, UntouchedOrder DEF Open, CallBegin, OrderInv, ringVars, uartVars
<1>15. CASE UpdateUcsrb
  BY <1>0, <1>15, UntouchedOrder DEF UpdateUcsrb, After, OrderInv, ringVars, uartVars
<1>16. CASE AvailableForWrite
  BY <1>0, <1>16, UntouchedOrder
  DEF AvailableForWrite, OrderInv, ringVars, uartVars, callVars
<1>17. CASE ToggleInterrupts
  BY <1>0, <1>17, UntouchedOrder
  DEF ToggleInterrupts, OrderInv, ringVars, uartVars, callVars
<1>18. CASE UartLoad
  <2>1. /\ head' = head /\ tail' = tail /\ buf' = buf /\ shift = None
        /\ udr # None /\ shift' = udr /\ udr' = None /\ sent' = sent
        /\ wire' = wire /\ pc' = pc /\ arg' = arg
    BY <1>18 DEF UartLoad, ringVars, callVars
  <2>2. One(shift) = <<>> /\ One(shift') = One(udr) /\ One(udr') = <<>>
    BY <2>1 DEF One
  <2>3. Inside' = Inside
    BY <1>0, <2>1, <2>2, Moves, InsideIs, InsideNext
  <2> QED
    BY <1>0, <2>1, <2>3 DEF OrderInv, InOrder
<1>19. CASE UartComplete
  <2>1. /\ head' = head /\ tail' = tail /\ buf' = buf /\ shift # None
        /\ shift' = udr /\ udr' = None /\ sent' = sent
        /\ wire' = Append(wire, shift) /\ pc' = pc /\ arg' = arg
    BY <1>19 DEF UartComplete, ringVars, callVars
  <2>2. /\ One(shift) = <<shift>> /\ One(shift') = One(udr) /\ One(udr') = <<>>
        /\ wire' = wire \o One(shift)
    BY <1>0, <2>1, AppendConcat DEF One
  <2>3. sent = wire' \o ((One(udr) \o <<>>) \o Content(head, tail, buf))
    BY <1>0, <1>i, <2>2, Moves, SMTT(30)
  <2>4. Inside' = (One(udr) \o <<>>) \o Content(head, tail, buf)
    BY <2>1, <2>2, InsideNext
  <2> QED
    BY <2>1, <2>3, <2>4 DEF OrderInv, InOrder
<1>20. CASE UNCHANGED vars
  BY <1>0, <1>20, UntouchedOrder DEF vars, OrderInv, ringVars
<1> QED
  BY <1>1, <1>2, <1>3, <1>4, <1>5, <1>6, <1>7, <1>8, <1>9, <1>10, <1>11,
     <1>12, <1>13, <1>14, <1>15, <1>16, <1>17, <1>18, <1>19, <1>20
  DEF Next, OtherStep, CallStep, Handler, Uart

\* No byte is lost, repeated or overtaken between write() and the line, however
\* the sketch, the handler and the UART interleave.
THEOREM BytesStayInOrder == Spec => []InOrder
<1>1. TypeInv /\ EnableInv /\ OrderInv /\ [Next]_vars
         => (TypeInv /\ EnableInv /\ OrderInv)'
  BY TypeStep, EnableStep, OrderStep, NextReopens
<1>2. OrderInv => InOrder
  BY DEF OrderInv
<1> QED
  BY <1>1, <1>2, TypeInit, EnableInit, OrderInit, PTL DEF Spec

(***************************************************************************)
(* What the driver promises to its caller: flush() returns with everything *)
(* on the line, and write(), the handler and the UART together are an      *)
(* ordered channel (ByteChannel) for the bytes the ring and the UART hold. *)
(***************************************************************************)
\* Outside the places where a byte was just written and TXC is still to be
\* cleared, TXC means that the UART is empty.
TxcMeansQuiet ==
    txc /\ irq = "out" /\ pc # "w_txc" => shift = None /\ udr = None

Inv == TypeInv /\ EnableInv /\ OrderInv /\ TxcMeansQuiet

\* TXC is set only while the UART is empty, and every step keeps it so.
LEMMA TxcStep == Inv /\ [Next]_vars => TxcMeansQuiet'
<1> SUFFICES ASSUME Inv, [Next]_vars PROVE TxcMeansQuiet'
  OBVIOUS
<1> USE DEF Inv, TxcMeansQuiet
<1>1. CASE TxIrq
  BY <1>1 DEF TxIrq, IrqSend
<1>2. CASE IrqFinish
  BY <1>2 DEF IrqFinish
<1>3. CASE CallWrite \/ WriteTest \/ WriteProceed \/ WriteStore \/ WritePublish
  BY <1>3
  DEF CallWrite, WriteTest, WriteProceed, WriteStore, WritePublish, uartVars
<1>4. CASE WriteShortcut
  BY <1>4 DEF WriteShortcut
<1>5. CASE WriteWait
  BY <1>5 DEF WriteWait, IrqSend, vars
<1>6. CASE CallFlush \/ CallEnd \/ FlushTest
  BY <1>6 DEF CallFlush, CallEnd, StartFlush, FlushTest, After, uartVars
<1>7. CASE FlushPoll
  BY <1>7 DEF FlushPoll, IrqSend
<1>8. CASE Open \/ UpdateUcsrb
  BY <1>8 DEF Open, CallBegin, UpdateUcsrb, After, uartVars
<1>9. CASE AvailableForWrite \/ ToggleInterrupts
  BY <1>9 DEF AvailableForWrite, ToggleInterrupts, uartVars, callVars
<1>10. CASE UartLoad
  BY <1>10 DEF UartLoad, callVars
<1>11. CASE UartComplete
  <2>1. /\ shift # None /\ shift' = udr /\ udr' = None /\ irq' = irq /\ pc' = pc
        /\ txc' = (txc \/ udr = None)
    BY <1>11 DEF UartComplete, callVars
  <2>2. SUFFICES ASSUME txc', irq = "out", pc # "w_txc"
                 PROVE  shift' = None /\ udr' = None
    BY <2>1
  <2>3. ~ txc
    BY <2>1, <2>2
  <2>4. udr = None
    BY <2>1, <2>2, <2>3
  <2> QED
    BY <2>1, <2>4
<1>12. CASE UNCHANGED vars
  BY <1>12 DEF vars
<1> QED
  BY <1>1, <1>2, <1>3, <1>4, <1>5, <1>6, <1>7, <1>8, <1>9, <1>10, <1>11, <1>12
  DEF Next, OtherStep, CallStep, Handler, Uart

\* The conjunction of the three invariants is an invariant of the driver.
LEMMA InvCorrect == Spec => []Inv
<1>1. TxInit => Inv
  BY TypeInit, EnableInit, OrderInit DEF Inv, TxcMeansQuiet, TxInit
<1>2. Inv /\ [Next]_vars => Inv'
  BY TypeStep, EnableStep, OrderStep, TxcStep, NextReopens DEF Inv
<1> QED
  BY <1>1, <1>2, PTL DEF Spec

-----------------------------------------------------------------------------
\* Only FlushTest leaves the test of TXC.
LEMMA LeavesFlush ==
    ASSUME Next, pc = "f_txc", pc' # pc
    PROVE  FlushTest
BY DEF Next, OtherStep, CallStep, Handler, Uart, TxIrq, IrqFinish, CallWrite,
       WriteTest, WriteShortcut, WriteWait, WriteProceed, WriteStore,
       WritePublish, CallFlush, CallEnd, StartFlush, FlushPoll, Open, CallBegin,
       UpdateUcsrb, AvailableForWrite, ToggleInterrupts, UartLoad, UartComplete,
       callVars

\* An empty driver and an empty UART: everything is on the line.
LEMMA NothingInside ==
    ASSUME Inv, head = tail, udr = None, shift = None
    PROVE  wire = sent
<1>1. /\ head \in Slots /\ buf \in [Slots -> Byte] /\ wire \in Seq(Byte)
      /\ sent = wire \o Inside
  BY DEF Inv, TypeInv, TypeOK, OrderInv, InOrder
<1>2. /\ Content(head, tail, buf) = <<>>
      /\ One(udr) = <<>> /\ One(shift) = <<>>
  BY <1>1, ContentEmpty DEF One
<1>3. <<>> \o <<>> = <<>>
  BY EmptySeq, ConcatEmptySeq
<1>4. Inside = <<>>
  BY <1>2, <1>3, InsideIs
<1> QED
  BY <1>1, <1>4, ConcatEmptySeq

\* When flush() returns after a write, every byte is on the line.
THEOREM FlushReturnsDrained == Spec => FlushDrains
<1>1. Inv /\ [Next]_vars
         => [pc = "f_txc" /\ pc' \in {"idle", "ucsrb"} => wire = sent]_vars
  <2> SUFFICES ASSUME Inv, Next, pc = "f_txc", pc' \in {"idle", "ucsrb"}
               PROVE  wire = sent
    BY DEF vars
  <2>1. FlushTest
    BY LeavesFlush
  <2>2. irq = "out" /\ txc
    BY <2>1 DEF FlushTest
  <2>3. shift = None /\ udr = None
    BY <2>2 DEF Inv, TxcMeansQuiet
  <2>4. head = tail
    BY DEF Inv, EnableInv, OnWhileQueued, OffWhenQuiet
  <2> QED
    BY <2>3, <2>4, NothingInside
<1> QED
  BY <1>1, InvCorrect, PTL DEF Spec, FlushDrains

-----------------------------------------------------------------------------
\* Steps other than these leave both ends of the channel alone.
LEMMA EndsMove ==
    ASSUME [Next]_vars
    PROVE  \/ WriteShortcut /\ pc = "w_udr"
           \/ WritePublish
           \/ UartComplete
           \/ UNCHANGED <<sent, wire>>
BY DEF Next, OtherStep, CallStep, Handler, Uart, TxIrq, IrqFinish, IrqSend,
       CallWrite, WriteTest, WriteShortcut, WriteWait, WriteProceed, WriteStore,
       CallFlush, CallEnd, StartFlush, FlushTest, FlushPoll, Open, CallBegin,
       UpdateUcsrb, AvailableForWrite, ToggleInterrupts, UartLoad, uartVars, vars

\* A register holds one byte or none.
LEMMA OneLength ==
    ASSUME NEW r \in Byte \cup {None}
    PROVE  Len(One(r)) = IF r = None THEN 0 ELSE 1
BY DEF One

\* How many bytes are between the ends.
LEMMA BetweenEnds ==
    ASSUME Inv
    PROVE  /\ Len(sent) \in Nat /\ Len(wire) \in Nat
           /\ Len(sent) = Len(wire) + (IF shift = None THEN 0 ELSE 1)
                                    + (IF udr = None THEN 0 ELSE 1)
                                    + Distance(head, tail)
<1>1. /\ head \in Slots /\ tail \in Slots /\ buf \in [Slots -> Byte]
      /\ udr \in Byte \cup {None} /\ shift \in Byte \cup {None}
      /\ sent \in Seq(Byte) /\ wire \in Seq(Byte) /\ sent = wire \o Inside
  BY DEF Inv, TypeInv, TypeOK, OrderInv, InOrder
<1>2. /\ One(shift) \in Seq(Byte) /\ One(udr) \in Seq(Byte)
      /\ Content(head, tail, buf) \in Seq(Byte)
      /\ Len(Content(head, tail, buf)) = Distance(head, tail)
      /\ Len(One(shift)) = IF shift = None THEN 0 ELSE 1
      /\ Len(One(udr)) = IF udr = None THEN 0 ELSE 1
  BY <1>1, OneIs, OneLength, ContentIs
<1>3. /\ One(shift) \o One(udr) \in Seq(Byte)
      /\ Len(One(shift) \o One(udr)) = Len(One(shift)) + Len(One(udr))
  BY <1>2, ConcatProperties
<1>4. /\ Inside \in Seq(Byte)
      /\ Len(Inside) = Len(One(shift) \o One(udr)) + Len(Content(head, tail, buf))
  BY <1>2, <1>3, ConcatProperties, InsideIs
<1>5. Len(sent) = Len(wire) + Len(Inside)
  BY <1>1, <1>4, ConcatProperties
<1>6. Len(sent) \in Nat /\ Len(wire) \in Nat /\ Distance(head, tail) \in Nat
  BY <1>1, DistanceIs, LenProperties
<1>7. Len(sent) = Len(wire) + ((Len(One(shift)) + Len(One(udr))) + Distance(head, tail))
  BY <1>2, <1>3, <1>4, <1>5, Zenon
<1> DEFINE inShift == IF shift = None THEN 0 ELSE 1
           inUdr == IF udr = None THEN 0 ELSE 1
<1>8. Len(sent) = Len(wire) + ((inShift + inUdr) + Distance(head, tail))
  BY <1>2, <1>7, Zenon
<1>9. inShift \in Nat /\ inUdr \in Nat
  OBVIOUS
<1>10. Len(sent) = Len(wire) + inShift + inUdr + Distance(head, tail)
  <2> HIDE DEF inShift, inUdr
  <2> DEFINE d == Distance(head, tail)
             s == Len(sent)
             w == Len(wire)
  <2>1. s \in Nat /\ w \in Nat /\ d \in Nat /\ s = w + ((inShift + inUdr) + d)
    BY <1>6, <1>8
  <2> HIDE DEF d, s, w
  <2>2. s = w + inShift + inUdr + d
    BY <1>9, <2>1
  <2> QED
    BY <2>2 DEF d, s, w
<1> QED
  BY <1>6, <1>10

\* A write is accepted only while there is room for its byte.
LEMMA Accepts ==
    ASSUME Inv, (WriteShortcut /\ pc = "w_udr") \/ WritePublish
    PROVE  Channel!Accept
<1>1. head \in Slots /\ tail \in Slots /\ arg \in Byte
  BY DEF Inv, TypeInv, TypeOK
<1>2. sent' = Append(sent, arg) /\ wire' = wire
  BY DEF WriteShortcut, WritePublish, uartVars
<1>3. Distance(head, tail) + (IF udr = None THEN 0 ELSE 1) < TxSize
  <2>1. Distance(head, tail) \in 0 .. TxSize - 1
    BY <1>1, DistanceIs
  <2>2. CASE WriteShortcut /\ pc = "w_udr"
    <3>1. udr = None
      BY <2>2 DEF Inv, OrderInv
    <3> QED
      BY <2>1, <3>1, TxSizeAssumption
  <2>3. CASE WritePublish
    <3>1. Succ(head) # tail
      BY <2>3 DEF WritePublish, Inv, EnableInv, SlotIsFree
    <3>2. Distance(head, tail) # TxSize - 1
      BY <1>1, <3>1, DistanceSteps
    <3> QED
      BY <2>1, <3>2, TxSizeAssumption
  <2> QED
    BY <2>2, <2>3
<1>4. Len(sent) - Len(wire) < TxSize + 1
  <2> DEFINE d == Distance(head, tail)
             s == Len(sent)
             w == Len(wire)
             inShift == IF shift = None THEN 0 ELSE 1
             inUdr == IF udr = None THEN 0 ELSE 1
  <2>1. d \in Nat
    BY <1>1, DistanceIs
  <2>2. s \in Nat /\ w \in Nat /\ s = w + inShift + inUdr + d
    BY BetweenEnds
  <2>3. inShift \in 0 .. 1 /\ inUdr \in Nat
    OBVIOUS
  <2>4. d + inUdr < TxSize
    BY <1>3
  <2> HIDE DEF d, s, w, inShift, inUdr
  <2>5. s - w < TxSize + 1
    BY <2>1, <2>2, <2>3, <2>4, TxSizeAssumption
  <2> QED
    BY <2>5 DEF s, w
<1> QED
  BY <1>1, <1>2, <1>4 DEF Channel!Accept

\* The byte that completes is the oldest that is not on the line yet.
LEMMA Delivers ==
    ASSUME Inv, UartComplete
    PROVE  Channel!Deliver
<1>1. /\ head \in Slots /\ tail \in Slots /\ buf \in [Slots -> Byte]
      /\ udr \in Byte \cup {None} /\ shift \in Byte /\ shift # None
      /\ sent \in Seq(Byte) /\ wire \in Seq(Byte) /\ sent = wire \o Inside
      /\ sent' = sent /\ wire' = Append(wire, shift)
  BY DEF Inv, TypeInv, TypeOK, OrderInv, InOrder, UartComplete
<1>2. /\ One(shift) = <<shift>> /\ <<shift>> \in Seq(Byte)
      /\ One(udr) \in Seq(Byte) /\ Content(head, tail, buf) \in Seq(Byte)
  BY <1>1, OneIs, ContentIs DEF One
<1> DEFINE r == One(udr) \o Content(head, tail, buf)
<1>3. r \in Seq(Byte) /\ Inside = <<shift>> \o r
  <2>1. (<<shift>> \o One(udr)) \o Content(head, tail, buf) = <<shift>> \o r
    BY <1>2, ConcatAssociative
  <2> QED
    BY <1>2, <2>1, ConcatProperties, InsideIs
<1> HIDE DEF r
<1>4. /\ Inside \in Seq(Byte) /\ Len(Inside) \in Nat /\ Len(Inside) >= 1
      /\ Inside[1] = shift
  <2>1. /\ Inside \in Seq(Byte) /\ Len(Inside) = 1 + Len(r)
        /\ \A i \in 1 .. 1 + Len(r) : Inside[i] = IF i <= 1 THEN <<shift>>[i] ELSE r[i - 1]
    BY <1>2, <1>3, ConcatProperties
  <2>2. Len(r) \in Nat
    BY <1>3, LenProperties
  <2> QED
    BY <2>1, <2>2
<1>5. Len(wire) < Len(sent) /\ sent[Len(wire) + 1] = shift
  <2>1. /\ Len(sent) = Len(wire) + Len(Inside)
        /\ \A i \in 1 .. Len(wire) + Len(Inside) :
              sent[i] = IF i <= Len(wire) THEN wire[i] ELSE Inside[i - Len(wire)]
    BY <1>1, <1>4, ConcatProperties
  <2>2. Len(wire) \in Nat
    BY <1>1, LenProperties
  <2>3. /\ Len(wire) + 1 \in 1 .. Len(wire) + Len(Inside)
        /\ ~(Len(wire) + 1 <= Len(wire)) /\ (Len(wire) + 1) - Len(wire) = 1
    BY <1>4, <2>2
  <2> QED
    BY <1>4, <2>1, <2>2, <2>3
<1> QED
  BY <1>1, <1>5 DEF Channel!Deliver

\* The driver implements the channel.
THEOREM DriverIsChannel == Spec => ImplementsChannel
<1>1. TxInit => Channel!ChannelInit
  BY DEF TxInit, Channel!ChannelInit
<1>2. Inv /\ [Next]_vars => [Channel!ChannelNext]_(Channel!channelVars)
  <2> SUFFICES ASSUME Inv, [Next]_vars
               PROVE  [Channel!ChannelNext]_(Channel!channelVars)
    OBVIOUS
  <2>1. CASE (WriteShortcut /\ pc = "w_udr") \/ WritePublish
    BY <2>1, Accepts DEF Channel!ChannelNext
  <2>2. CASE UartComplete
    BY <2>2, Delivers DEF Channel!ChannelNext
  <2>3. CASE UNCHANGED <<sent, wire>>
    BY <2>3 DEF Channel!channelVars
  <2> QED
    BY <2>1, <2>2, <2>3, EndsMove
<1> QED
  BY <1>1, <1>2, InvCorrect, PTL DEF Spec, ImplementsChannel, Channel!ChannelSpec
-----------------------------------------------------------------------------
\* The places where write() still has to store its byte.
Storing == {"w_empty", "w_udre", "w_udr", "w_full", "w_store", "w_publish"}

\* RoomIsKept is not inductive as it stands: the byte of a write() that is
\* under way is already counted off, and still has to find its slot.
RoomInv ==
    /\ room + Distance(head, tail) < TxSize
    /\ pc \in Storing /\ room > 0 => room + Distance(head, tail) + 1 < TxSize

\* The room left beside what is queued is what availableForWrite() computes.
LEMMA RoomIs ==
    ASSUME NEW h \in Slots, NEW t \in Slots
    PROVE  Room(h, t) + Distance(h, t) = TxSize - 1
BY DistanceIs, TxSizeAssumption DEF Room, Slots

\* A step that moves neither end of the ring, nor begins a write().
LEMMA UntouchedRoom ==
    ASSUME RoomInv, head' = head, tail' = tail, room' = room,
           pc' \in Storing => pc \in Storing
    PROVE  RoomInv'
BY DEF RoomInv

\* The handler only makes room.
LEMMA IrqSendRoom ==
    ASSUME TypeOK, RoomInv, IrqSend, head # tail,
           pc' \in Storing => pc \in Storing
    PROVE  RoomInv'
<1>1. head \in Slots /\ tail \in Slots /\ room \in 0 .. TxSize - 1
  BY DEF TypeOK
<1>2. head' = head /\ tail' = Succ(tail) /\ room' = room
  BY DEF IrqSend
<1>3. /\ Distance(head, Succ(tail)) = Distance(head, tail) - 1
      /\ Distance(head, tail) \in 0 .. TxSize - 1
  BY <1>1, DistanceIs, DistanceSteps
<1> QED
  BY <1>1, <1>2, <1>3, TxSizeAssumption DEF RoomInv

\* No step takes away room that was reported: one proof step per action.
LEMMA RoomStep == TypeInv /\ EnableInv /\ RoomInv /\ [Next]_vars => RoomInv'
<1> SUFFICES ASSUME TypeInv, EnableInv, RoomInv, [Next]_vars PROVE RoomInv'
  OBVIOUS
<1> USE DEF Storing
<1>0. TypeOK /\ head \in Slots /\ tail \in Slots /\ room \in 0 .. TxSize - 1
  BY DEF TypeInv, TypeOK
<1>e. irq = "out" => (head # tail <=> "UDRIE" \in ucsrb)
  BY DEF EnableInv, OnWhileQueued
<1>d. Distance(head, tail) \in 0 .. TxSize - 1
  BY <1>0, DistanceIs
<1>1. CASE TxIrq
  BY <1>0, <1>1, <1>e, IrqSendRoom DEF TxIrq, callVars
<1>2. CASE CallWrite
  BY <1>0, <1>2, <1>d, TxSizeAssumption DEF CallWrite, RoomInv, ringVars
<1>3. CASE WriteWait
  <2>1. head # tail /\ pc' = pc
    BY <1>0, <1>3, SuccInjective DEF WriteWait, callVars, vars
  <2> QED
    BY <1>0, <1>3, <2>1, IrqSendRoom, UntouchedRoom DEF WriteWait, vars
<1>4. CASE WritePublish
  <2>1. Succ(head) # tail
    BY <1>4 DEF WritePublish, EnableInv, SlotIsFree
  <2>2. /\ Succ(head) \in Slots
        /\ Distance(Succ(head), tail) = Distance(head, tail) + 1
        /\ Distance(head, tail) # TxSize - 1
    BY <1>0, <2>1, DistanceSteps, SuccWraps
  <2>3. /\ head' = Succ(head) /\ tail' = tail /\ room' = room
        /\ pc = "w_publish" /\ pc' = "idle"
    BY <1>4 DEF WritePublish
  <2> QED
    BY <1>0, <1>d, <2>2, <2>3, TxSizeAssumption DEF RoomInv
<1>5. CASE FlushPoll
  <2>1. pc' = "f_udrie"
    BY <1>5 DEF FlushPoll
  <2>2. CASE ~ie /\ "UDRIE" \in ucsrb /\ udr = None
    BY <1>0, <1>5, <1>e, <2>1, <2>2, IrqSendRoom DEF FlushPoll
  <2>3. CASE ~(~ie /\ "UDRIE" \in ucsrb /\ udr = None)
    BY <1>5, <2>1, <2>3, UntouchedRoom DEF FlushPoll, ringVars
  <2> QED
    BY <2>2, <2>3
<1>6. CASE AvailableForWrite
  <2>1. /\ head' = head /\ tail' = tail /\ room' = Room(head, tail)
        /\ pc' = "idle"
    BY <1>6 DEF AvailableForWrite, ringVars, callVars
  <2> QED
    BY <1>0, <2>1, RoomIs, TxSizeAssumption DEF RoomInv
<1>7. CASE \/ IrqFinish \/ WriteTest \/ WriteShortcut \/ WriteProceed
           \/ WriteStore \/ ToggleInterrupts \/ UartLoad \/ UartComplete
  BY <1>7, UntouchedRoom
  DEF IrqFinish, WriteTest, WriteShortcut, WriteProceed, WriteStore,
      ToggleInterrupts, UartLoad, UartComplete, ringVars, callVars
<1>8. CASE CallFlush \/ CallEnd \/ FlushTest \/ Open \/ UpdateUcsrb
  BY <1>8, UntouchedRoom
  DEF CallFlush, CallEnd, StartFlush, FlushTest, Open, CallBegin, UpdateUcsrb,
      After, ringVars
<1>9. CASE UNCHANGED vars
  BY <1>9, UntouchedRoom DEF vars
<1> QED
  BY <1>1, <1>2, <1>3, <1>4, <1>5, <1>6, <1>7, <1>8, <1>9
  DEF Next, OtherStep, CallStep, Handler, Uart

\* The room availableForWrite() reported is still there when the sketch uses
\* it: so many calls of write() find a free slot at once.
THEOREM ReportedRoomIsKept == Spec => []RoomIsKept
<1>1. TxInit => RoomInv
  <2> SUFFICES ASSUME TxInit PROVE RoomInv
    OBVIOUS
  <2>1. head = 0 /\ tail = 0 /\ room = 0 /\ 0 \in Slots
    BY TxSizeAssumption DEF TxInit, Slots
  <2>2. Distance(0, 0) = 0
    BY <2>1, DistanceSteps
  <2> QED
    BY <2>1, <2>2, TxSizeAssumption DEF RoomInv
<1>2. Queued = Distance(head, tail)
  BY DEF Queued, Distance, RingDistance
<1>3. RoomInv => RoomIsKept
  BY <1>2 DEF RoomInv, RoomIsKept
<1>4. TypeInv /\ EnableInv /\ RoomInv /\ [Next]_vars
         => (TypeInv /\ EnableInv /\ RoomInv)'
  BY TypeStep, EnableStep, RoomStep, NextReopens
<1> QED
  BY <1>3, <1>4, <1>1, TypeInit, EnableInit, PTL DEF Spec
=============================================================================
